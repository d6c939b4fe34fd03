--------------------------- MODULE JobStoreProofs ---------------------------
(***************************************************************************)
(* JobStore for every choice of ids and caps: the five invariants of its   *)
(* run are invariants of Spec.                                             *)
(*                                                                         *)
(* The inductive invariant IInv is StoreIsWindow strengthened by what the  *)
(* history itself guarantees: the ids in it are among the used ones and    *)
(* occur once, so that pruning an order by position and a map by key       *)
(* removes the same jobs.  The lemmas before it say how Newest, the loop   *)
(* that prunes from the front, commutes with appending and concatenating.  *)
(***************************************************************************)
EXTENDS JobStore, SequenceTheorems, TLAPS

Injective(seq) == \A i, j \in DOMAIN seq : seq[i] = seq[j] => i = j

DistinctEntries(seq) ==
  \A i, j \in DOMAIN seq :
    seq[i].job = seq[j].job \/ seq[i].template = seq[j].template => i = j

-----------------------------------------------------------------------------
\* Newest is a sequence over the same set, of length Kept, and its entries are the
\* last ones of seq.
LEMMA NewestProperties ==
  ASSUME NEW S, NEW seq \in Seq(S), NEW n \in Nat
  PROVE  /\ Newest(seq, n) \in Seq(S)
         /\ Len(Newest(seq, n)) = Kept(seq, n)
         /\ \A i \in 1..Kept(seq, n) :
              Newest(seq, n)[i] = seq[Len(seq) - Kept(seq, n) + i]
<1>1. Kept(seq, n) \in 0..Len(seq) /\ Len(seq) \in Nat
  BY LenProperties DEF Kept
<1>2. \A i \in (Len(seq) - Kept(seq, n) + 1)..Len(seq) : seq[i] \in S
  BY <1>1, ElementOfSeq
<1>3. QED
  BY <1>1, <1>2, SubSeqProperties DEF Newest

\* The converse: Newest is the only sequence with these entries.
LEMMA NewestUnique ==
  ASSUME NEW S, NEW seq \in Seq(S), NEW n \in Nat,
         NEW u \in Seq(S), Len(u) = Kept(seq, n),
         \A i \in 1..Len(u) : u[i] = seq[Len(seq) - Len(u) + i]
  PROVE  u = Newest(seq, n)
<1>1. /\ Newest(seq, n) \in Seq(S) /\ Len(Newest(seq, n)) = Kept(seq, n)
      /\ \A i \in 1..Kept(seq, n) :
           Newest(seq, n)[i] = seq[Len(seq) - Kept(seq, n) + i]
  BY NewestProperties
<1>2. QED
  BY <1>1, SeqEqual

\* Concatenation, counted from the end: entry i of the last l of s \o u is
\* an entry of u, or an entry of s at the same distance from its end.
LEMMA ConcatFromEnd ==
  ASSUME NEW S, NEW s \in Seq(S), NEW u \in Seq(S),
         NEW j \in 0..(Len(s) + Len(u) - 1)
  PROVE  (s \o u)[Len(s) + Len(u) - j] =
           IF j < Len(u) THEN u[Len(u) - j] ELSE s[Len(s) - (j - Len(u))]
<1>1. Len(s) \in Nat /\ Len(u) \in Nat
  BY LenProperties
<1> DEFINE i == Len(s) + Len(u) - j
<1>2. i \in 1..Len(s) + Len(u)
  BY <1>1
<1>3. (s \o u)[i] = IF i <= Len(s) THEN s[i] ELSE u[i - Len(s)]
  BY <1>2, ConcatProperties
<1>4. /\ i <= Len(s) <=> ~ (j < Len(u))
      /\ i - Len(s) = Len(u) - j
      /\ i = Len(s) - (j - Len(u))
  BY <1>1
<1>5. QED
  BY <1>3, <1>4

\* The same for Newest: entry i counted from its end is the one of seq.
LEMMA NewestFromEnd ==
  ASSUME NEW S, NEW seq \in Seq(S), NEW n \in Nat,
         NEW j \in 0..(Kept(seq, n) - 1)
  PROVE  Newest(seq, n)[Kept(seq, n) - j] = seq[Len(seq) - j]
<1>1. Kept(seq, n) \in Nat /\ Len(seq) \in Nat
  BY LenProperties DEF Kept
<1>2. /\ Kept(seq, n) - j \in 1..Kept(seq, n)
      /\ Len(seq) - Kept(seq, n) + (Kept(seq, n) - j) = Len(seq) - j
  BY <1>1
<1>3. \A i \in 1..Kept(seq, n) :
        Newest(seq, n)[i] = seq[Len(seq) - Kept(seq, n) + i]
  BY NewestProperties
<1>4. Newest(seq, n)[Kept(seq, n) - j] = seq[Len(seq) - Kept(seq, n) + (Kept(seq, n) - j)]
  BY <1>2, <1>3
<1>5. QED
  BY <1>2, <1>4

\* Newest is the only sequence that agrees with seq from the end on.
LEMMA NewestByEnd ==
  ASSUME NEW S, NEW seq \in Seq(S), NEW n \in Nat,
         NEW u \in Seq(S), Len(u) = Kept(seq, n),
         \A j \in 0..(Len(u) - 1) : u[Len(u) - j] = seq[Len(seq) - j]
  PROVE  u = Newest(seq, n)
<1>1. Len(u) \in Nat /\ Len(seq) \in Nat
  BY LenProperties
<1>2. ASSUME NEW i \in 1..Len(u)
      PROVE  u[i] = seq[Len(seq) - Len(u) + i]
  <2>1. Len(u) - i \in 0..(Len(u) - 1)
    BY <1>1
  <2>2. /\ Len(u) - (Len(u) - i) = i
        /\ Len(seq) - (Len(u) - i) = Len(seq) - Len(u) + i
    BY <1>1
  <2>3. QED
    BY <2>1, <2>2
<1>3. QED
  BY <1>2, NewestUnique

\* Pruning after every append is the same as pruning once at the end.
LEMMA NewestConcat ==
  ASSUME NEW S, NEW s \in Seq(S), NEW u \in Seq(S), NEW n \in Nat, NEW m \in Nat, n <= m
  PROVE  Newest(Newest(s, m) \o u, n) = Newest(s \o u, n)
<1> DEFINE w == Newest(s, m)
           a == w \o u
           b == s \o u
           v == Newest(a, n)
<1>1. /\ w \in Seq(S) /\ Len(w) = Kept(s, m)
      /\ a \in Seq(S) /\ Len(a) = Len(w) + Len(u)
      /\ b \in Seq(S) /\ Len(b) = Len(s) + Len(u)
      /\ v \in Seq(S) /\ Len(v) = Kept(a, n)
  BY NewestProperties, ConcatProperties
<1>2. /\ Len(s) \in Nat /\ Len(u) \in Nat /\ Len(w) \in Nat /\ Len(v) \in Nat
  BY <1>1, LenProperties
<1>3. ASSUME NEW j \in 0..(Kept(a, n) - 1)
      PROVE  v[Kept(a, n) - j] = a[Len(a) - j]
  BY <1>1, NewestFromEnd
<1>4. ASSUME NEW j \in 0..(Kept(s, m) - 1)
      PROVE  w[Kept(s, m) - j] = s[Len(s) - j]
  BY NewestFromEnd
<1>5. ASSUME NEW j \in 0..(Len(w) + Len(u) - 1)
      PROVE  a[Len(w) + Len(u) - j] =
               IF j < Len(u) THEN u[Len(u) - j] ELSE w[Len(w) - (j - Len(u))]
  BY <1>1, ConcatFromEnd
<1>6. ASSUME NEW j \in 0..(Len(s) + Len(u) - 1)
      PROVE  b[Len(s) + Len(u) - j] =
               IF j < Len(u) THEN u[Len(u) - j] ELSE s[Len(s) - (j - Len(u))]
  BY ConcatFromEnd
<1> HIDE DEF w, a, b, v
<1>7. /\ Len(w) = IF Len(s) <= m THEN Len(s) ELSE m
      /\ Len(v) = IF Len(a) <= n THEN Len(a) ELSE n
  BY <1>1 DEF Kept
<1>8. Len(v) = Kept(b, n)
  BY <1>1, <1>2, <1>7 DEF Kept
<1>9. ASSUME NEW j \in 0..(Len(v) - 1)
      PROVE  v[Len(v) - j] = b[Len(b) - j]
  <2>1. v[Len(v) - j] = a[Len(a) - j]
    BY <1>1, <1>3
  <2>2. j \in 0..(Len(w) + Len(u) - 1) /\ j \in 0..(Len(s) + Len(u) - 1)
    BY <1>1, <1>2, <1>7
  <2>3. ~ (j < Len(u)) => w[Len(w) - (j - Len(u))] = s[Len(s) - (j - Len(u))]
    <3>1. ~ (j < Len(u)) => j - Len(u) \in 0..(Kept(s, m) - 1)
      BY <2>2, <1>1, <1>2
    <3>2. QED
      BY <3>1, <1>4, <1>1
  <2>4. a[Len(w) + Len(u) - j] = b[Len(s) + Len(u) - j]
    BY <2>2, <2>3, <1>5, <1>6
  <2>5. Len(a) = Len(w) + Len(u) /\ Len(b) = Len(s) + Len(u)
    BY <1>1
  <2>6. QED
    BY <2>1, <2>4, <2>5
<1>10. v = Newest(b, n)
  BY <1>1, <1>8, <1>9, NewestByEnd
<1>11. QED
  BY <1>10 DEF v, w, a, b

\* Entries of u that pruning to m >= n drops are dropped by pruning to n anyway.
LEMMA NewestConcatNewest ==
  ASSUME NEW S, NEW s \in Seq(S), NEW u \in Seq(S), NEW n \in Nat, NEW m \in Nat, n <= m
  PROVE  Newest(s \o Newest(u, m), n) = Newest(s \o u, n)
<1> DEFINE w == Newest(u, m)
           a == s \o w
           b == s \o u
           v == Newest(a, n)
<1>1. /\ w \in Seq(S) /\ Len(w) = Kept(u, m)
      /\ a \in Seq(S) /\ Len(a) = Len(s) + Len(w)
      /\ b \in Seq(S) /\ Len(b) = Len(s) + Len(u)
      /\ v \in Seq(S) /\ Len(v) = Kept(a, n)
  BY NewestProperties, ConcatProperties
<1>2. /\ Len(s) \in Nat /\ Len(u) \in Nat /\ Len(w) \in Nat /\ Len(v) \in Nat
  BY <1>1, LenProperties
<1>3. ASSUME NEW j \in 0..(Kept(a, n) - 1)
      PROVE  v[Kept(a, n) - j] = a[Len(a) - j]
  BY <1>1, NewestFromEnd
<1>4. ASSUME NEW j \in 0..(Kept(u, m) - 1)
      PROVE  w[Kept(u, m) - j] = u[Len(u) - j]
  BY NewestFromEnd
<1>5. ASSUME NEW j \in 0..(Len(s) + Len(w) - 1)
      PROVE  a[Len(s) + Len(w) - j] =
               IF j < Len(w) THEN w[Len(w) - j] ELSE s[Len(s) - (j - Len(w))]
  BY <1>1, ConcatFromEnd
<1>6. ASSUME NEW j \in 0..(Len(s) + Len(u) - 1)
      PROVE  b[Len(s) + Len(u) - j] =
               IF j < Len(u) THEN u[Len(u) - j] ELSE s[Len(s) - (j - Len(u))]
  BY ConcatFromEnd
<1> HIDE DEF w, a, b, v
<1>7. /\ Len(w) = IF Len(u) <= m THEN Len(u) ELSE m
      /\ Len(v) = IF Len(a) <= n THEN Len(a) ELSE n
  BY <1>1 DEF Kept
<1>8. Len(v) = Kept(b, n)
  BY <1>1, <1>2, <1>7 DEF Kept
<1>9. ASSUME NEW j \in 0..(Len(v) - 1)
      PROVE  v[Len(v) - j] = b[Len(b) - j]
  <2>1. v[Len(v) - j] = a[Len(a) - j]
    BY <1>1, <1>3
  <2>2. j \in 0..(Len(s) + Len(w) - 1) /\ j \in 0..(Len(s) + Len(u) - 1)
    BY <1>1, <1>2, <1>7
  <2>3. a[Len(s) + Len(w) - j] = b[Len(s) + Len(u) - j]
    <3>1. CASE j < Len(w)
      <4>1. w[Len(w) - j] = u[Len(u) - j] /\ j < Len(u)
        BY <3>1, <2>2, <1>1, <1>2, <1>4, <1>7
      <4>2. QED
        BY <2>2, <3>1, <4>1, <1>5, <1>6
    <3>2. CASE ~ (j < Len(w))
      <4>1. Len(w) = Len(u)
        BY <3>2, <1>1, <1>2, <1>7
      <4>2. QED
        BY <2>2, <3>2, <4>1, <1>5, <1>6
    <3>3. QED
      BY <3>1, <3>2
  <2>4. Len(a) = Len(s) + Len(w) /\ Len(b) = Len(s) + Len(u)
    BY <1>1
  <2>5. QED
    BY <2>1, <2>3, <2>4
<1>10. v = Newest(b, n)
  BY <1>1, <1>8, <1>9, NewestByEnd
<1>11. QED
  BY <1>10 DEF v, w, a, b

-----------------------------------------------------------------------------
\* Pruning splits the entries by position.
LEMMA NewestOldestSets ==
  ASSUME NEW S, NEW seq \in Seq(S), NEW n \in Nat
  PROVE  /\ ToSet(Newest(seq, n)) = {seq[i] : i \in (Len(seq) - Kept(seq, n) + 1)..Len(seq)}
         /\ ToSet(Oldest(seq, n)) = {seq[i] : i \in 1..(Len(seq) - Kept(seq, n))}
<1> DEFINE k == Kept(seq, n)
           l == Len(seq)
<1>1. k \in 0..l /\ l \in Nat
  BY LenProperties DEF Kept
<1>2. /\ Newest(seq, n) \in Seq(S) /\ Len(Newest(seq, n)) = k
      /\ \A i \in 1..k : Newest(seq, n)[i] = seq[l - k + i]
  BY NewestProperties
<1>3. /\ Oldest(seq, n) \in Seq(S) /\ Len(Oldest(seq, n)) = l - k
      /\ \A i \in 1..(l - k) : Oldest(seq, n)[i] = seq[i]
  <2>1. \A i \in 1..(l - k) : seq[i] \in S
    BY <1>1, ElementOfSeq
  <2>2. QED
    BY <1>1, <2>1, SubSeqProperties DEF Oldest
<1>4. DOMAIN Newest(seq, n) = 1..k /\ DOMAIN Oldest(seq, n) = 1..(l - k)
  BY <1>2, <1>3, LenProperties
<1> DEFINE w == Newest(seq, n)
<1> HIDE DEF k, l, w
<1>5. {w[i] : i \in 1..k} = {seq[i] : i \in (l - k + 1)..l}
  <2>1. ASSUME NEW i \in 1..k
        PROVE  \E j \in (l - k + 1)..l : w[i] = seq[j]
    <3>1. l - k + i \in (l - k + 1)..l
      BY <1>1
    <3>2. QED
      BY <3>1, <1>2 DEF w
  <2>2. ASSUME NEW j \in (l - k + 1)..l
        PROVE  \E i \in 1..k : w[i] = seq[j]
    <3>1. j - (l - k) \in 1..k /\ l - k + (j - (l - k)) = j
      BY <1>1
    <3>2. w[j - (l - k)] = seq[l - k + (j - (l - k))]
      BY <3>1, <1>2 DEF w
    <3>3. QED
      BY <3>1, <3>2
  <2>3. QED
    BY <2>1, <2>2
<1>6. QED
  BY <1>3, <1>4, <1>5 DEF ToSet, k, l, w

\* Front undoes Append, and Append and Last undo Front.
LEMMA FrontOfAppend ==
  ASSUME NEW S, NEW seq \in Seq(S), NEW x \in S
  PROVE  Front(Append(seq, x)) = seq /\ Last(Append(seq, x)) = x
<1> DEFINE a == Append(seq, x)
<1>1. /\ a \in Seq(S) /\ Len(a) = Len(seq) + 1 /\ Len(seq) \in Nat
      /\ \A i \in 1..Len(seq) : a[i] = seq[i]
      /\ a[Len(seq) + 1] = x
  BY AppendProperties, LenProperties
<1>2. \A i \in 1..Len(seq) : a[i] \in S
  BY <1>1, ElementOfSeq
<1> HIDE DEF a
<1>3. Len(a) - 1 = Len(seq)
  BY <1>1
<1>4. /\ SubSeq(a, 1, Len(seq)) \in Seq(S) /\ Len(SubSeq(a, 1, Len(seq))) = Len(seq)
      /\ \A i \in 1..Len(seq) : SubSeq(a, 1, Len(seq))[i] = a[i]
  BY <1>1, <1>2, SubSeqProperties
<1>5. SubSeq(a, 1, Len(seq)) = seq
  BY <1>1, <1>4, SeqEqual
<1>6. QED
  BY <1>1, <1>3, <1>5 DEF a, Front, Last

\* A sequence that is not empty is its Front with its Last appended.
LEMMA FrontAndLast ==
  ASSUME NEW S, NEW seq \in Seq(S), seq # <<>>
  PROVE  /\ Front(seq) \in Seq(S) /\ Last(seq) \in S
         /\ Append(Front(seq), Last(seq)) = seq
         /\ Len(Front(seq)) = Len(seq) - 1
         /\ \A i \in 1..(Len(seq) - 1) : Front(seq)[i] = seq[i]
<1>1. Len(seq) \in Nat /\ Len(seq) # 0
  BY LenProperties, EmptySeq
<1>2. \A i \in 1..Len(seq) : seq[i] \in S
  BY <1>1, ElementOfSeq
<1>3. /\ Front(seq) \in Seq(S) /\ Len(Front(seq)) = Len(seq) - 1
      /\ \A i \in 1..(Len(seq) - 1) : Front(seq)[i] = seq[i]
  <2> DEFINE r == Len(seq) - 1
  <2>1. r \in Int /\ 1 <= r + 1 /\ (\A i \in 1..r : seq[i] \in S)
    BY <1>1, <1>2
  <2> HIDE DEF r
  <2>2. /\ SubSeq(seq, 1, r) \in Seq(S) /\ Len(SubSeq(seq, 1, r)) = r
        /\ \A i \in 1..r : SubSeq(seq, 1, r)[i] = seq[i]
    BY <2>1, SubSeqProperties
  <2>3. QED
    BY <2>2 DEF r, Front
<1>4. Last(seq) \in S /\ Last(seq) = seq[Len(seq)]
  BY <1>1, <1>2 DEF Last
<1> DEFINE f == Front(seq)
           x == Last(seq)
           a == Append(f, x)
<1>5. /\ a \in Seq(S) /\ Len(a) = Len(f) + 1
      /\ \A i \in 1..Len(f) : a[i] = f[i]
      /\ a[Len(f) + 1] = x
  BY <1>3, <1>4, AppendProperties
<1> HIDE DEF f, x, a
<1>6. ASSUME NEW i \in 1..Len(seq)
      PROVE  a[i] = seq[i]
  BY <1>1, <1>3, <1>4, <1>5 DEF f, x
<1>7. Len(a) = Len(seq)
  BY <1>1, <1>3, <1>5 DEF f
<1>8. a = seq
  BY <1>5, <1>6, <1>7, SeqEqual
<1>9. QED
  BY <1>3, <1>4, <1>8 DEF a, f, x

\* Pruning splits the entries of an order into removed and kept ones; a removed
\* and a kept entry stand at different positions.
LEMMA PruneSplit ==
  ASSUME NEW S, NEW seq \in Seq(S), NEW n \in Nat
  PROVE  /\ ToSet(seq) = ToSet(Newest(seq, n)) \cup ToSet(Oldest(seq, n))
         /\ \A x \in ToSet(Newest(seq, n)), y \in ToSet(Oldest(seq, n)) :
              \E i, j \in DOMAIN seq : i # j /\ seq[i] = x /\ seq[j] = y
<1>1. Kept(seq, n) \in 0..Len(seq) /\ Len(seq) \in Nat /\ DOMAIN seq = 1..Len(seq)
  BY LenProperties DEF Kept
<1> DEFINE c == Len(seq) - Kept(seq, n)
<1>2. c \in 0..Len(seq)
  BY <1>1
<1>3. /\ ToSet(Newest(seq, n)) = {seq[i] : i \in (c + 1)..Len(seq)}
      /\ ToSet(Oldest(seq, n)) = {seq[i] : i \in 1..c}
      /\ ToSet(seq) = {seq[i] : i \in 1..Len(seq)}
  BY <1>1, NewestOldestSets DEF ToSet
<1> HIDE DEF c
<1>4. 1..Len(seq) = ((c + 1)..Len(seq)) \cup (1..c)
  BY <1>1, <1>2
<1>5. \A i \in (c + 1)..Len(seq), j \in 1..c : i # j
  BY <1>1, <1>2
<1>6. QED
  BY <1>1, <1>3, <1>4, <1>5

\* What pruning leaves in a map whose keys are the ids of an order.
LEMMA PruneInjective ==
  ASSUME NEW S, NEW seq \in Seq(S), NEW n \in Nat, Injective(seq)
  PROVE  ToSet(seq) \ ToSet(Oldest(seq, n)) = ToSet(Newest(seq, n))
BY PruneSplit DEF Injective

\* Append adds one element to the set of entries.
LEMMA ToSetAppend ==
  ASSUME NEW S, NEW seq \in Seq(S), NEW x \in S
  PROVE  ToSet(Append(seq, x)) = ToSet(seq) \cup {x}
<1>1. /\ DOMAIN Append(seq, x) = 1..(Len(seq) + 1) /\ DOMAIN seq = 1..Len(seq)
      /\ Len(seq) \in Nat
      /\ \A i \in 1..Len(seq) : Append(seq, x)[i] = seq[i]
      /\ Append(seq, x)[Len(seq) + 1] = x
  BY AppendProperties, LenProperties
<1>2. 1..(Len(seq) + 1) = 1..Len(seq) \cup {Len(seq) + 1}
  BY <1>1
<1>3. QED
  BY <1>1, <1>2 DEF ToSet

\* Concatenation unites the sets of entries.
LEMMA ToSetConcat ==
  ASSUME NEW S, NEW s \in Seq(S), NEW u \in Seq(S)
  PROVE  ToSet(s \o u) = ToSet(s) \cup ToSet(u)
<1>1. Range(s \o u) = Range(s) \cup Range(u)
  BY RangeConcatenation
<1>2. ASSUME NEW f PROVE ToSet(f) = Range(f)
  BY DEF ToSet, Range
<1>3. QED
  BY <1>1, <1>2, Zenon

-----------------------------------------------------------------------------
\* A sequence without repetitions stays so under the operations of the store.
LEMMA NewestIndex ==
  ASSUME NEW S, NEW seq \in Seq(S), NEW n \in Nat
  PROVE  \E c \in Nat : \A i \in DOMAIN Newest(seq, n) :
           i + c \in DOMAIN seq /\ Newest(seq, n)[i] = seq[i + c]
<1>1. Kept(seq, n) \in 0..Len(seq) /\ Len(seq) \in Nat /\ DOMAIN seq = 1..Len(seq)
  BY LenProperties DEF Kept
<1>2. /\ Newest(seq, n) \in Seq(S) /\ Len(Newest(seq, n)) = Kept(seq, n)
      /\ \A i \in 1..Kept(seq, n) :
           Newest(seq, n)[i] = seq[Len(seq) - Kept(seq, n) + i]
  BY NewestProperties
<1>3. DOMAIN Newest(seq, n) = 1..Kept(seq, n)
  BY <1>2, LenProperties
<1> DEFINE c == Len(seq) - Kept(seq, n)
<1>4. c \in Nat /\ \A i \in 1..Kept(seq, n) : i + c \in 1..Len(seq) /\ c + i = i + c
  BY <1>1
<1>5. \A i \in 1..Kept(seq, n) : Newest(seq, n)[i] = seq[i + c]
  BY <1>2, <1>4
<1>6. QED
  BY <1>1, <1>3, <1>4, <1>5

\* Pruning keeps a sequence without repetitions so.
LEMMA NewestDistinct ==
  ASSUME NEW S, NEW seq \in Seq(S), NEW n \in Nat
  PROVE  /\ Injective(seq) => Injective(Newest(seq, n))
         /\ DistinctEntries(seq) => DistinctEntries(Newest(seq, n))
<1> DEFINE w == Newest(seq, n)
<1>1. PICK c \in Nat : \A i \in DOMAIN w : i + c \in DOMAIN seq /\ w[i] = seq[i + c]
  BY NewestIndex
<1>2. DOMAIN w \subseteq Nat
  <2>1. w \in Seq(S)
    BY NewestProperties
  <2> HIDE DEF w
  <2>2. DOMAIN w = 1..Len(w)
    BY <2>1, LenProperties
  <2>3. QED
    BY <2>2
<1> HIDE DEF w
<1>3. \A i, j \in DOMAIN w : i + c = j + c => i = j
  BY <1>2
<1>4. QED
  BY <1>1, <1>3 DEF Injective, DistinctEntries, w

\* The entries of Append(seq, e), by position.
LEMMA AppendIndex ==
  ASSUME NEW S, NEW seq \in Seq(S), NEW x \in S
  PROVE  \E l : /\ DOMAIN Append(seq, x) = DOMAIN seq \cup {l}
                /\ l \notin DOMAIN seq /\ Append(seq, x)[l] = x
                /\ \A i \in DOMAIN seq : Append(seq, x)[i] = seq[i]
<1>1. /\ DOMAIN Append(seq, x) = 1..(Len(seq) + 1) /\ DOMAIN seq = 1..Len(seq)
      /\ Len(seq) \in Nat
      /\ \A i \in 1..Len(seq) : Append(seq, x)[i] = seq[i]
      /\ Append(seq, x)[Len(seq) + 1] = x
  BY AppendProperties, LenProperties
<1>2. /\ 1..(Len(seq) + 1) = 1..Len(seq) \cup {Len(seq) + 1}
      /\ Len(seq) + 1 \notin 1..Len(seq)
  BY <1>1
<1>3. QED
  BY <1>1, <1>2

\* Appending a new element keeps a sequence without repetitions so.
LEMMA AppendDistinct ==
  ASSUME NEW S, NEW seq \in Seq(S), NEW x \in S
  PROVE  /\ Injective(seq) /\ x \notin ToSet(seq) => Injective(Append(seq, x))
         /\ /\ DistinctEntries(seq)
            /\ \A e \in ToSet(seq) : e.job # x.job /\ e.template # x.template
            => DistinctEntries(Append(seq, x))
<1> DEFINE a == Append(seq, x)
<1>1. PICK l : /\ DOMAIN a = DOMAIN seq \cup {l}
               /\ l \notin DOMAIN seq /\ a[l] = x
               /\ \A i \in DOMAIN seq : a[i] = seq[i]
  BY AppendIndex
<1> HIDE DEF a
<1>2. ASSUME Injective(seq), x \notin ToSet(seq)
      PROVE  Injective(a)
  BY <1>1, <1>2 DEF Injective, ToSet
<1>3. ASSUME DistinctEntries(seq),
             \A e \in ToSet(seq) : e.job # x.job /\ e.template # x.template
      PROVE  DistinctEntries(a)
  <2>1. \A i \in DOMAIN seq : seq[i].job # x.job /\ seq[i].template # x.template
    BY <1>3 DEF ToSet
  <2>2. QED
    BY <1>1, <1>3, <2>1 DEF DistinctEntries
<1>4. QED
  BY <1>2, <1>3 DEF a

-----------------------------------------------------------------------------
(***************************************************************************)
(* The inductive invariant.  The store is a window on a history in which   *)
(* no id occurs twice; that is why retain never drops an entry, and why    *)
(* removing the pruned ids from a map leaves the ids of the pruned order.  *)
(***************************************************************************)
Fresh ==
  /\ \A e \in ToSet(proposed) : e.job \in usedJobs /\ e.template \in usedTemplates
  /\ ToSet(run) \subseteq usedJobs
  /\ ToSet(retired) \subseteq usedJobs

Distinct ==
  /\ DistinctEntries(proposed)
  /\ Injective(run) /\ Injective(retired)
  /\ ToSet(run) \cap ToSet(retired) = {}
  /\ \A e \in ToSet(proposed) : e.job \notin ToSet(run) \cup ToSet(retired)

IInv == TypeOK /\ MapsMatchOrders /\ StoreIsWindow /\ Fresh /\ Distinct

-----------------------------------------------------------------------------
\* A window on nothing is empty.
LEMMA EmptyWindow ==
  ASSUME NEW n \in Nat
  PROVE  Newest(<<>>, n) = <<>>
<1>1. <<>> \in Seq(JobId) /\ Len(<<>>) = 0
  BY EmptySeq
<1>2. Kept(<<>>, n) = 0
  BY <1>1 DEF Kept
<1> DEFINE w == Newest(<<>>, n)
<1>3. w \in Seq(JobId) /\ Len(w) = Kept(<<>>, n)
  BY <1>1, NewestProperties
<1> HIDE DEF w
<1>4. w = <<>>
  BY <1>2, <1>3, EmptySeq
<1>5. QED
  BY <1>4 DEF w

\* The empty store satisfies the invariant.
LEMMA InitIInv == Init => IInv
<1> SUFFICES ASSUME Init PROVE IInv
  OBVIOUS
<1>1. \A S : <<>> \in Seq(S) /\ Len(<<>>) = 0 /\ DOMAIN <<>> = {} /\ ToSet(<<>>) = {}
  BY EmptySeq DEF ToSet
<1>2. MaxFutureJobs \in Nat /\ MaxPastJobs \in Nat /\ MaxStaleJobs \in Nat
  BY StoreAssumption
<1>3. TypeOK
  BY <1>1, <1>2 DEF Init, TypeOK
<1>4. MapsMatchOrders
  BY <1>1 DEF Init, MapsMatchOrders
<1>5. StoreIsWindow
  BY <1>2, EmptyWindow DEF Init, StoreIsWindow
<1>6. Fresh /\ Distinct
  BY <1>1 DEF Init, Fresh, Distinct, Injective, DistinctEntries
<1>7. QED
  BY <1>3, <1>4, <1>5, <1>6 DEF IInv

\* What the window says of the three classes of jobs.
LEMMA WindowFacts ==
  ASSUME IInv
  PROVE  /\ ToSet(futureOrder) \subseteq ToSet(proposed)
         /\ ToSet(pastOrder) \subseteq ToSet(run)
         /\ ToSet(staleOrder) \subseteq ToSet(retired)
         /\ run # <<>> => active = Last(run) /\ active \in ToSet(run) /\ active # NoJob
         /\ run # <<>> => active \notin ToSet(pastOrder)
         /\ run = <<>> => active = NoJob /\ pastOrder = <<>>
<1>1. /\ MaxFutureJobs \in Nat /\ MaxPastJobs \in Nat /\ MaxStaleJobs \in Nat
      /\ proposed \in Seq(Entry) /\ run \in Seq(JobId) /\ retired \in Seq(JobId)
  BY StoreAssumption DEF IInv, TypeOK
<1>2. /\ ToSet(Newest(proposed, MaxFutureJobs)) \subseteq ToSet(proposed)
      /\ ToSet(Newest(retired, MaxStaleJobs)) \subseteq ToSet(retired)
  BY <1>1, PruneSplit
<1>3. CASE run # <<>>
  <2> DEFINE front == Front(run)
             x == Last(run)
  <2>1. /\ front \in Seq(JobId) /\ Last(run) \in JobId
        /\ Append(front, Last(run)) = run
        /\ Len(front) = Len(run) - 1
        /\ \A i \in 1..(Len(run) - 1) : front[i] = run[i]
    BY <1>1, <1>3, FrontAndLast
  <2>2. ToSet(run) = ToSet(front) \cup {Last(run)}
    <3> HIDE DEF front, x
    <3>1. front \in Seq(JobId) /\ x \in JobId
      BY <2>1 DEF x
    <3>2. ToSet(Append(front, x)) = ToSet(front) \cup {x}
      BY <3>1, ToSetAppend
    <3>3. Append(front, x) = run
      BY <2>1 DEF x
    <3>4. QED
      BY <3>2, <3>3 DEF x
  <2>3. ToSet(Newest(front, MaxPastJobs)) \subseteq ToSet(front)
    BY <2>1, <1>1, PruneSplit
  <2>4. Last(run) \notin ToSet(front)
    <3> HIDE DEF front, x
    <3>1. DOMAIN front = 1..(Len(run) - 1) /\ DOMAIN run = 1..Len(run) /\ Len(run) \in Nat
      BY <2>1, <1>1, LenProperties
    <3>2. \A i \in 1..(Len(run) - 1) :
            i \in 1..Len(run) /\ Len(run) \in 1..Len(run) /\ i # Len(run)
      <4> DEFINE l == Len(run)
      <4>1. l \in Nat
        BY <3>1
      <4> HIDE DEF l
      <4>2. \A i \in 1..(l - 1) : i \in 1..l /\ l \in 1..l /\ i # l
        BY <4>1
      <4>3. QED
        BY <4>2 DEF l
    <3>3. \A i \in 1..(Len(run) - 1) : front[i] # run[Len(run)]
      BY <2>1, <3>1, <3>2 DEF IInv, Distinct, Injective
    <3>4. QED
      BY <3>1, <3>3 DEF ToSet, Last
  <2>5. pastOrder = Newest(front, MaxPastJobs) /\ active = Last(run)
    BY <1>3 DEF IInv, StoreIsWindow
  <2>6. NoJob \notin JobId
    BY StoreAssumption
  <2>7. QED
    BY <1>2, <1>3, <2>1, <2>2, <2>3, <2>4, <2>5, <2>6 DEF IInv, StoreIsWindow
<1>4. CASE run = <<>>
  BY <1>2, <1>4 DEF IInv, StoreIsWindow, ToSet
<1>5. QED
  BY <1>3, <1>4

\* A fresh job is proposed for a fresh template: the future jobs are pruned.
LEMMA AddFutureJobStep ==
  ASSUME IInv, NEW t \in Template \ usedTemplates, NEW id \in JobId \ usedJobs,
         AddFutureJob(t, id)
  PROVE  IInv'
<1> DEFINE entry == [template |-> t, job |-> id]
           order == Append(futureOrder, entry)
           old == Oldest(order, MaxFutureJobs)
           new == Newest(order, MaxFutureJobs)
<1>1. /\ MaxFutureJobs \in Nat /\ entry \in Entry
      /\ futureOrder \in Seq(Entry) /\ proposed \in Seq(Entry)
  BY StoreAssumption DEF IInv, TypeOK, Entry
<1>2. /\ \A e \in ToSet(proposed) : e.job # id /\ e.template # t
      /\ id \notin ToSet(run) /\ id \notin ToSet(retired)
  BY DEF IInv, Fresh
<1>3. ToSet(futureOrder) \subseteq ToSet(proposed)
  BY WindowFacts
<1>4. WithoutEntry(futureOrder, t, id) = futureOrder
  BY <1>2, <1>3 DEF WithoutEntry
<1>5. /\ futureOrder' = new
      /\ futureJobs' = (futureJobs \cup {id}) \ {e.job : e \in ToSet(old)}
      /\ templateToJob' = [u \in (DOMAIN templateToJob \cup {t}) \ {e.template : e \in ToSet(old)}
                             |-> IF u = t THEN id ELSE templateToJob[u]]
      /\ proposed' = Append(proposed, entry)
      /\ usedJobs' = usedJobs \cup {id}
      /\ usedTemplates' = usedTemplates \cup {t}
      /\ UNCHANGED <<active, pastJobs, pastOrder, staleJobs, staleOrder, run, retired>>
  BY <1>4 DEF AddFutureJob
<1> HIDE DEF entry, order, old, new
<1>6. order \in Seq(Entry) /\ ToSet(order) = ToSet(futureOrder) \cup {entry}
  BY <1>1, AppendProperties, ToSetAppend DEF order
<1>7. /\ new \in Seq(Entry) /\ Len(new) = Kept(order, MaxFutureJobs)
      /\ ToSet(order) = ToSet(new) \cup ToSet(old)
  BY <1>1, <1>6, NewestProperties, PruneSplit DEF new, old
<1>8. Len(new) <= MaxFutureJobs
  BY <1>1, <1>6, <1>7, LenProperties DEF Kept
<1>9. new = Newest(proposed', MaxFutureJobs)
  <2>1. <<entry>> \in Seq(Entry) /\ MaxFutureJobs <= MaxFutureJobs
    BY <1>1
  <2>2. futureOrder = Newest(proposed, MaxFutureJobs)
    BY DEF IInv, StoreIsWindow
  <2>3. /\ Append(futureOrder, entry) = futureOrder \o <<entry>>
        /\ Append(proposed, entry) = proposed \o <<entry>>
    BY <1>1, AppendIsConcat
  <2>4. Newest(Newest(proposed, MaxFutureJobs) \o <<entry>>, MaxFutureJobs)
          = Newest(proposed \o <<entry>>, MaxFutureJobs)
    BY <1>1, <2>1, NewestConcat
  <2>5. Newest(order, MaxFutureJobs) = Newest(Append(proposed, entry), MaxFutureJobs)
    BY <2>2, <2>3, <2>4 DEF order
  <2>6. QED
    BY <2>5, <1>5 DEF new
<1>10. ToSet(proposed') = ToSet(proposed) \cup {entry}
  BY <1>1, <1>5, ToSetAppend
<1>11. DistinctEntries(proposed') /\ DistinctEntries(order)
  <2>1. DistinctEntries(proposed) /\ DistinctEntries(futureOrder)
    <3>1. DistinctEntries(proposed) /\ futureOrder = Newest(proposed, MaxFutureJobs)
      BY DEF IInv, Distinct, StoreIsWindow
    <3>2. DistinctEntries(proposed) => DistinctEntries(Newest(proposed, MaxFutureJobs))
      BY <1>1, NewestDistinct
    <3>3. QED
      BY <3>1, <3>2
  <2>2. entry.job = id /\ entry.template = t
    BY DEF entry
  <2>3. QED
    BY <1>1, <1>2, <1>3, <1>5, <2>1, <2>2, AppendDistinct DEF order
<1>12. \A e \in ToSet(new), f \in ToSet(old) : e.job # f.job /\ e.template # f.template
  <2>1. ASSUME NEW e \in ToSet(new), NEW f \in ToSet(old)
        PROVE  e.job # f.job /\ e.template # f.template
    <3>1. PICK i, j \in DOMAIN order : i # j /\ order[i] = e /\ order[j] = f
      BY <1>1, <1>6, PruneSplit DEF new, old
    <3>2. QED
      BY <3>1, <1>11 DEF DistinctEntries
  <2>2. QED
    BY <2>1
<1>13. futureJobs' = {e.job : e \in ToSet(new)}
  <2>1. futureJobs \cup {id} = {e.job : e \in ToSet(new) \cup ToSet(old)}
    <3>1. futureJobs = {e.job : e \in ToSet(futureOrder)}
      BY DEF IInv, MapsMatchOrders
    <3>2. entry.job = id
      BY DEF entry
    <3>3. QED
      BY <3>1, <3>2, <1>6, <1>7
  <2>2. QED
    BY <2>1, <1>5, <1>12
<1>14. DOMAIN templateToJob' = {e.template : e \in ToSet(new)}
  <2>1. DOMAIN templateToJob \cup {t} = {e.template : e \in ToSet(new) \cup ToSet(old)}
    <3>1. DOMAIN templateToJob = {e.template : e \in ToSet(futureOrder)}
      BY DEF IInv, MapsMatchOrders
    <3>2. entry.template = t
      BY DEF entry
    <3>3. QED
      BY <3>1, <3>2, <1>6, <1>7
  <2>2. QED
    BY <2>1, <1>5, <1>12
<1>15. \A e \in ToSet(new) : templateToJob'[e.template] = e.job
  <2>1. ASSUME NEW e \in ToSet(new)
        PROVE  templateToJob'[e.template] = e.job
    <3>1. templateToJob'[e.template] = IF e.template = t THEN id ELSE templateToJob[e.template]
      BY <1>5, <1>14
    <3>2. CASE e = entry
      BY <3>1, <3>2 DEF entry
    <3>3. CASE e \in ToSet(futureOrder)
      <4>1. e.template # t /\ templateToJob[e.template] = e.job
        BY <3>3, <1>2, <1>3 DEF IInv, MapsMatchOrders
      <4>2. QED
        BY <3>1, <4>1
    <3>4. QED
      BY <3>2, <3>3, <1>6, <1>7
  <2>2. QED
    BY <2>1
<1>16. MapsMatchOrders'
  BY <1>5, <1>13, <1>14, <1>15 DEF IInv, MapsMatchOrders
<1>17. TypeOK'
  <2>1. proposed' \in Seq(Entry)
    BY <1>1, <1>5, AppendProperties
  <2>2. \A e \in ToSet(new) : e \in Entry
    BY <1>7, LenProperties, ElementOfSeq DEF ToSet
  <2>3. futureJobs' \subseteq JobId /\ DOMAIN templateToJob' \subseteq Template
    BY <2>2, <1>13, <1>14 DEF Entry
  <2>4. \A u \in DOMAIN templateToJob' : templateToJob'[u] \in JobId
    BY <2>2, <1>14, <1>15 DEF Entry
  <2>5. QED
    BY <2>1, <2>3, <2>4, <1>5, <1>7, <1>8 DEF IInv, TypeOK
<1>18. StoreIsWindow'
  BY <1>5, <1>9 DEF IInv, StoreIsWindow
<1>19. Fresh' /\ Distinct'
  <2>1. entry.job = id /\ entry.template = t
    BY DEF entry
  <2>2. QED
    BY <2>1, <1>2, <1>5, <1>10, <1>11 DEF IInv, Fresh, Distinct
<1>20. QED
  BY <1>16, <1>17, <1>18, <1>19 DEF IInv

-----------------------------------------------------------------------------
\* insert_past_job moves the window over run by one job.
LEMMA PastWithActive ==
  ASSUME IInv
  PROVE  /\ Newest(PastOrderWithActive, MaxPastJobs) = Newest(run, MaxPastJobs)
         /\ PastJobsWithActive = ToSet(Newest(run, MaxPastJobs))
<1>1. /\ MaxPastJobs \in Nat /\ MaxPastJobs <= MaxPastJobs
      /\ run \in Seq(JobId) /\ pastOrder \in Seq(JobId)
  BY StoreAssumption DEF IInv, TypeOK
<1>2. pastJobs = ToSet(pastOrder)
  BY DEF IInv, MapsMatchOrders
<1>3. CASE run = <<>>
  <2>1. active = NoJob /\ pastOrder = <<>>
    BY <1>3, WindowFacts
  <2>2. Newest(<<>>, MaxPastJobs) = <<>> /\ ToSet(<<>>) = {}
    BY <1>1, EmptyWindow DEF ToSet
  <2>3. PastOrderWithActive = <<>> /\ PastJobsWithActive = {}
    BY <2>1, <2>2, <1>2 DEF PastOrderWithActive, PastJobsWithActive
  <2>4. QED
    BY <2>2, <2>3, <1>3
<1>4. CASE run # <<>>
  <2> DEFINE front == Front(run)
             order == Append(pastOrder, active)
  <2>1. /\ active = Last(run) /\ active # NoJob /\ active \notin ToSet(pastOrder)
    BY <1>4, WindowFacts
  <2>2. /\ front \in Seq(JobId) /\ active \in JobId
        /\ Append(front, active) = run
    BY <1>1, <1>4, <2>1, FrontAndLast
  <2>3. pastOrder = Newest(front, MaxPastJobs)
    BY <1>4 DEF IInv, StoreIsWindow
  <2>4. Without(pastOrder, {active}) = pastOrder
    BY <2>1 DEF Without
  <2>5. PastOrderWithActive = order
    BY <2>1, <2>4 DEF PastOrderWithActive
  <2>6. Newest(order, MaxPastJobs) = Newest(run, MaxPastJobs)
    <3>1. <<active>> \in Seq(JobId)
      BY <2>2
    <3>2. Newest(Newest(front, MaxPastJobs) \o <<active>>, MaxPastJobs)
            = Newest(front \o <<active>>, MaxPastJobs)
      BY <1>1, <2>2, <3>1, NewestConcat
    <3>3. /\ Append(pastOrder, active) = pastOrder \o <<active>>
          /\ Append(front, active) = front \o <<active>>
      BY <1>1, <2>2, AppendIsConcat
    <3>4. QED
      BY <3>2, <3>3, <2>2, <2>3
  <2> HIDE DEF front
  <2>7. Injective(pastOrder)
    <3>1. Injective(front)
      <4>1. /\ Len(front) = Len(run) - 1
            /\ \A i \in 1..(Len(run) - 1) : front[i] = run[i]
        BY <1>1, <1>4, FrontAndLast DEF front
      <4>2. DOMAIN front = 1..Len(front) /\ DOMAIN run = 1..Len(run) /\ Len(run) \in Nat
        BY <1>1, <2>2, LenProperties
      <4>3. DOMAIN front \subseteq DOMAIN run /\ \A i \in DOMAIN front : front[i] = run[i]
        BY <4>1, <4>2
      <4>4. QED
        BY <4>3 DEF IInv, Distinct, Injective
    <3>2. QED
      BY <3>1, <1>1, <2>2, <2>3, NewestDistinct
  <2>8. Injective(order) /\ order \in Seq(JobId)
    BY <1>1, <2>1, <2>2, <2>7, AppendDistinct, AppendProperties
  <2>9. ToSet(order) = ToSet(pastOrder) \cup {active}
    BY <1>1, <2>2, ToSetAppend
  <2> HIDE DEF order
  <2>10. PastJobsWithActive = ToSet(order) \ ToSet(Oldest(order, MaxPastJobs))
    BY <1>2, <2>1, <2>5, <2>9 DEF PastJobsWithActive
  <2>11. ToSet(order) \ ToSet(Oldest(order, MaxPastJobs)) = ToSet(Newest(order, MaxPastJobs))
    BY <1>1, <2>8, PruneInjective
  <2>12. QED
    BY <2>5, <2>6, <2>10, <2>11
<1>5. QED
  BY <1>3, <1>4

\* A window is never longer than its cap.
LEMMA BoundedWindow ==
  ASSUME NEW S, NEW seq \in Seq(S), NEW n \in Nat
  PROVE  Newest(seq, n) \in Seq(S) /\ Len(Newest(seq, n)) <= n
<1>1. Newest(seq, n) \in Seq(S) /\ Len(Newest(seq, n)) = Kept(seq, n)
  BY NewestProperties
<1>2. Kept(seq, n) <= n
  BY LenProperties DEF Kept
<1>3. QED
  BY <1>1, <1>2

\* A fresh job becomes active.
LEMMA AddActiveJobStep ==
  ASSUME IInv, NEW id \in JobId \ usedJobs, AddActiveJob(id)
  PROVE  IInv'
<1>1. /\ MaxPastJobs \in Nat /\ run \in Seq(JobId) /\ run # Append(run, id)
  BY StoreAssumption, AppendProperties DEF IInv, TypeOK
<1>2. /\ pastOrder' = Newest(run, MaxPastJobs) /\ pastJobs' = ToSet(pastOrder')
      /\ active' = id /\ run' = Append(run, id) /\ usedJobs' = usedJobs \cup {id}
      /\ UNCHANGED <<templateToJob, futureJobs, futureOrder, staleJobs, staleOrder,
                     proposed, retired, usedTemplates>>
  BY PastWithActive DEF AddActiveJob
<1>3. /\ run' \in Seq(JobId) /\ run' # <<>> /\ ToSet(run') = ToSet(run) \cup {id}
      /\ Front(run') = run /\ Last(run') = id
  BY <1>1, <1>2, AppendProperties, ToSetAppend, FrontOfAppend
<1>4. id \notin ToSet(run) /\ id \notin ToSet(retired) /\ \A e \in ToSet(proposed) : e.job # id
  BY DEF IInv, Fresh
<1>5. Injective(run')
  BY <1>1, <1>2, <1>4, AppendDistinct DEF IInv, Distinct
<1>6. TypeOK'
  <2>1. pastOrder' \in Seq(JobId) /\ Len(pastOrder') <= MaxPastJobs
    BY <1>1, <1>2, BoundedWindow
  <2>2. ToSet(pastOrder') \subseteq JobId
    BY <2>1, LenProperties, ElementOfSeq DEF ToSet
  <2>3. QED
    BY <1>2, <1>3, <2>1, <2>2 DEF IInv, TypeOK
<1>7. MapsMatchOrders'
  BY <1>2 DEF IInv, MapsMatchOrders
<1>8. StoreIsWindow'
  BY <1>2, <1>3 DEF IInv, StoreIsWindow
<1>9. Fresh' /\ Distinct'
  BY <1>2, <1>3, <1>4, <1>5 DEF IInv, Fresh, Distinct
<1>10. QED
  BY <1>6, <1>7, <1>8, <1>9 DEF IInv

\* Two disjoint sequences without repetitions concatenate to one.
LEMMA ConcatDistinct ==
  ASSUME NEW S, NEW s \in Seq(S), NEW u \in Seq(S),
         Injective(s), Injective(u), ToSet(s) \cap ToSet(u) = {}
  PROVE  Injective(s \o u)
<1> DEFINE a == s \o u
<1>1. /\ Len(s) \in Nat /\ Len(u) \in Nat
      /\ DOMAIN s = 1..Len(s) /\ DOMAIN u = 1..Len(u)
  BY LenProperties
<1>2. a \in Seq(S) /\ Len(a) = Len(s) + Len(u)
  BY ConcatProperties
<1>3. \A i \in 1..(Len(s) + Len(u)) : a[i] = IF i <= Len(s) THEN s[i] ELSE u[i - Len(s)]
  BY ConcatProperties
<1> HIDE DEF a
<1>4. DOMAIN a = 1..(Len(s) + Len(u))
  BY <1>2, LenProperties
<1>5. ASSUME NEW i \in DOMAIN a, NEW j \in DOMAIN a, a[i] = a[j]
      PROVE  i = j
  <2>1. \A k \in DOMAIN a :
          \/ k \in DOMAIN s /\ k <= Len(s) /\ a[k] = s[k]
          \/ ~ (k <= Len(s)) /\ k - Len(s) \in DOMAIN u /\ a[k] = u[k - Len(s)]
    BY <1>1, <1>3, <1>4
  <2>2. CASE i <= Len(s) /\ j <= Len(s)
    BY <2>1, <2>2, <1>5 DEF Injective
  <2>3. CASE ~ (i <= Len(s)) /\ ~ (j <= Len(s))
    <3>1. i - Len(s) = j - Len(s)
      BY <2>1, <2>3, <1>5 DEF Injective
    <3>2. QED
      BY <3>1, <1>1, <1>4
  <2>4. CASE i <= Len(s) /\ ~ (j <= Len(s))
    <3>1. a[i] \in ToSet(s) /\ a[j] \in ToSet(u)
      BY <2>1, <2>4 DEF ToSet
    <3>2. QED
      BY <3>1, <1>5
  <2>5. CASE ~ (i <= Len(s)) /\ j <= Len(s)
    <3>1. a[j] \in ToSet(s) /\ a[i] \in ToSet(u)
      BY <2>1, <2>5 DEF ToSet
    <3>2. QED
      BY <3>1, <1>5
  <2>6. QED
    BY <2>2, <2>3, <2>4, <2>5
<1>6. QED
  BY <1>5 DEF Injective, a

\* Draining a window over u moves the window over the retired jobs by all of u.
LEMMA DrainFacts ==
  ASSUME IInv, NEW u \in Seq(JobId), Injective(u), ToSet(u) \cap ToSet(retired) = {},
         PastBecomesStale(Newest(u, MaxPastJobs), ToSet(Newest(u, MaxPastJobs)))
  PROVE  /\ pastOrder' = <<>> /\ pastJobs' = {}
         /\ staleOrder' = Newest(retired \o u, MaxStaleJobs)
         /\ staleJobs' = ToSet(staleOrder')
         /\ staleOrder' \in Seq(JobId) /\ Len(staleOrder') <= MaxStaleJobs
         /\ staleJobs' \subseteq JobId
         /\ retired \o u \in Seq(JobId) /\ Injective(retired \o u)
         /\ ToSet(retired \o u) = ToSet(retired) \cup ToSet(u)
<1> DEFINE past == Newest(u, MaxPastJobs)
           longer == staleOrder \o past
<1>1. /\ MaxPastJobs \in Nat /\ MaxStaleJobs \in Nat /\ MaxStaleJobs <= MaxPastJobs
      /\ MaxStaleJobs <= MaxStaleJobs
      /\ retired \in Seq(JobId) /\ staleOrder \in Seq(JobId)
  BY StoreAssumption DEF IInv, TypeOK
<1>2. past \in Seq(JobId) /\ Injective(past) /\ ToSet(past) \subseteq ToSet(u)
  BY <1>1, NewestProperties, NewestDistinct, PruneSplit
<1>3. /\ staleOrder = Newest(retired, MaxStaleJobs) /\ staleJobs = ToSet(staleOrder)
      /\ Injective(retired)
  BY DEF IInv, StoreIsWindow, MapsMatchOrders, Distinct
<1>4. Injective(staleOrder) /\ ToSet(staleOrder) \subseteq ToSet(retired)
  BY <1>1, <1>3, NewestDistinct, WindowFacts
<1> HIDE DEF past
<1>5. ToSet(staleOrder) \cap ToSet(past) = {}
  BY <1>2, <1>4
<1>6. /\ staleOrder' = Newest(longer, MaxStaleJobs)
      /\ staleJobs' = (staleJobs \cup ToSet(past)) \ ToSet(Oldest(longer, MaxStaleJobs))
      /\ pastOrder' = <<>> /\ pastJobs' = {}
  <2>1. PastBecomesStale(past, ToSet(past))
    BY DEF past
  <2>2. Known(past, ToSet(past)) = past
    BY DEF Known
  <2>3. Without(staleOrder, ToSet(past)) = staleOrder
    BY <1>5 DEF Without
  <2>4. QED
    BY <2>1, <2>2, <2>3 DEF PastBecomesStale
<1>7. longer \in Seq(JobId) /\ Injective(longer)
  BY <1>1, <1>2, <1>4, <1>5, ConcatProperties, ConcatDistinct
<1>8. ToSet(longer) = ToSet(staleOrder) \cup ToSet(past)
  BY <1>1, <1>2, ToSetConcat
<1>9. Newest(longer, MaxStaleJobs) = Newest(retired \o u, MaxStaleJobs)
  <2>1. Newest(Newest(retired, MaxStaleJobs) \o past, MaxStaleJobs)
          = Newest(retired \o past, MaxStaleJobs)
    BY <1>1, <1>2, NewestConcat
  <2>2. Newest(retired \o past, MaxStaleJobs) = Newest(retired \o u, MaxStaleJobs)
    BY <1>1, NewestConcatNewest DEF past
  <2>3. QED
    BY <2>1, <2>2, <1>3
<1> HIDE DEF longer
<1>10. ToSet(longer) \ ToSet(Oldest(longer, MaxStaleJobs)) = ToSet(Newest(longer, MaxStaleJobs))
  BY <1>1, <1>7, PruneInjective
<1>11. staleJobs' = ToSet(staleOrder')
  BY <1>3, <1>6, <1>8, <1>10
<1>12. staleOrder' \in Seq(JobId) /\ Len(staleOrder') <= MaxStaleJobs
  BY <1>1, <1>6, <1>7, BoundedWindow
<1>13. staleJobs' \subseteq JobId
  BY <1>11, <1>12, LenProperties, ElementOfSeq DEF ToSet
<1>14. /\ retired \o u \in Seq(JobId) /\ Injective(retired \o u)
       /\ ToSet(retired \o u) = ToSet(retired) \cup ToSet(u)
  BY <1>1, <1>3, ConcatProperties, ConcatDistinct, ToSetConcat
<1>15. QED
  BY <1>6, <1>9, <1>11, <1>12, <1>13, <1>14

\* The sequence of one job.
LEMMA SingleJob ==
  ASSUME NEW id \in JobId
  PROVE  /\ <<id>> \in Seq(JobId) /\ <<id>> # <<>>
         /\ Front(<<id>>) = <<>> /\ Last(<<id>>) = id
         /\ ToSet(<<id>>) = {id} /\ Injective(<<id>>)
<1>1. <<>> \in Seq(JobId) /\ Append(<<>>, id) = <<id>>
  BY EmptySeq, AppendProperties
<1>2. /\ Append(<<>>, id) \in Seq(JobId) /\ Append(<<>>, id) # <<>>
      /\ Front(Append(<<>>, id)) = <<>> /\ Last(Append(<<>>, id)) = id
  <2> DEFINE none == <<>>
  <2>1. none \in Seq(JobId)
    BY <1>1
  <2> HIDE DEF none
  <2>2. /\ Append(none, id) \in Seq(JobId) /\ Append(none, id) # <<>>
        /\ Front(Append(none, id)) = none /\ Last(Append(none, id)) = id
    BY <2>1, AppendProperties, FrontOfAppend
  <2>3. QED
    BY <2>2 DEF none
<1>3. ToSet(<<id>>) = {id} /\ Injective(<<id>>)
  BY DEF ToSet, Injective
<1>4. QED
  BY <1>1, <1>2, <1>3

\* Every past job becomes stale; the active job stays.
LEMMA MarkPastJobsAsStaleStep ==
  ASSUME IInv, MarkPastJobsAsStale
  PROVE  IInv'
<1> DEFINE u == IF run = <<>> THEN <<>> ELSE Front(run)
<1>1. MaxPastJobs \in Nat /\ run \in Seq(JobId) /\ retired \in Seq(JobId)
  BY StoreAssumption DEF IInv, TypeOK
<1>2. /\ u \in Seq(JobId) /\ Injective(u) /\ ToSet(u) \subseteq ToSet(run)
      /\ pastOrder = Newest(u, MaxPastJobs)
  <2>1. CASE run = <<>>
    <3>1. u = <<>> /\ <<>> \in Seq(JobId) /\ DOMAIN <<>> = {}
      BY <2>1, EmptySeq
    <3>2. pastOrder = <<>> /\ Newest(<<>>, MaxPastJobs) = <<>>
      BY <2>1, <1>1, WindowFacts, EmptyWindow
    <3>3. QED
      BY <3>1, <3>2 DEF Injective, ToSet
  <2>2. CASE run # <<>>
    <3>1. u \in Seq(JobId) /\ Len(u) = Len(run) - 1 /\ \A i \in 1..(Len(run) - 1) : u[i] = run[i]
      BY <2>2, <1>1, FrontAndLast
    <3>2. pastOrder = Newest(u, MaxPastJobs)
      BY <2>2 DEF IInv, StoreIsWindow
    <3> HIDE DEF u
    <3>3. DOMAIN u = 1..Len(u) /\ DOMAIN run = 1..Len(run) /\ Len(run) \in Nat
      BY <1>1, <3>1, LenProperties
    <3>4. DOMAIN u \subseteq DOMAIN run /\ \A i \in DOMAIN u : u[i] = run[i]
      BY <3>1, <3>3
    <3>5. QED
      BY <3>1, <3>2, <3>4 DEF IInv, Distinct, Injective, ToSet
  <2>3. QED
    BY <2>1, <2>2
<1>3. ToSet(u) \cap ToSet(retired) = {}
  BY <1>2 DEF IInv, Distinct
<1>4. PastBecomesStale(Newest(u, MaxPastJobs), ToSet(Newest(u, MaxPastJobs)))
  <2>1. pastJobs = ToSet(pastOrder)
    BY DEF IInv, MapsMatchOrders
  <2>2. PastBecomesStale(pastOrder, pastJobs)
    BY DEF MarkPastJobsAsStale
  <2>3. QED
    BY <2>1, <2>2, <1>2
<1>5. /\ pastOrder' = <<>> /\ pastJobs' = {}
      /\ staleOrder' = Newest(retired \o u, MaxStaleJobs)
      /\ staleJobs' = ToSet(staleOrder')
      /\ staleOrder' \in Seq(JobId) /\ Len(staleOrder') <= MaxStaleJobs
      /\ staleJobs' \subseteq JobId
      /\ retired \o u \in Seq(JobId) /\ Injective(retired \o u)
      /\ ToSet(retired \o u) = ToSet(retired) \cup ToSet(u)
  BY <1>2, <1>3, <1>4, DrainFacts
<1>6. /\ retired' = retired \o u
      /\ run' = IF run = <<>> THEN run ELSE <<Last(run)>>
      /\ UNCHANGED <<templateToJob, futureJobs, futureOrder, active, proposed,
                     usedJobs, usedTemplates>>
  <2>1. retired \o <<>> = retired
    BY <1>1, ConcatEmptySeq
  <2>2. QED
    BY <2>1 DEF MarkPastJobsAsStale
<1>7. /\ run' \in Seq(JobId) /\ Injective(run') /\ ToSet(run') \subseteq ToSet(run)
      /\ ToSet(run') \cap ToSet(u) = {}
      /\ run' = <<>> <=> run = <<>>
      /\ run' # <<>> => Front(run') = <<>> /\ Last(run') = Last(run)
  <2>1. CASE run = <<>>
    BY <2>1, <1>1, <1>6 DEF ToSet, IInv, Distinct
  <2>2. CASE run # <<>>
    <3> DEFINE x == Last(run)
    <3>1. x \in JobId /\ u \in Seq(JobId) /\ Append(u, x) = run
      BY <2>2, <1>1, FrontAndLast
    <3>2. /\ <<x>> \in Seq(JobId) /\ <<x>> # <<>> /\ Front(<<x>>) = <<>> /\ Last(<<x>>) = x
          /\ ToSet(<<x>>) = {x} /\ Injective(<<x>>)
      BY <3>1, SingleJob
    <3>3. x \in ToSet(run)
      BY <2>2, WindowFacts
    <3>4. x \notin ToSet(u)
      <4>1. PICK l : /\ DOMAIN Append(u, x) = DOMAIN u \cup {l}
                     /\ l \notin DOMAIN u /\ Append(u, x)[l] = x
                     /\ \A i \in DOMAIN u : Append(u, x)[i] = u[i]
        BY <3>1, AppendIndex
      <4>2. /\ DOMAIN run = DOMAIN u \cup {l}
            /\ l \notin DOMAIN u /\ run[l] = x
            /\ \A i \in DOMAIN u : run[i] = u[i]
        BY <4>1, <3>1
      <4> HIDE DEF u, x
      <4>3. \A i \in DOMAIN u : u[i] # x
        BY <4>2 DEF IInv, Distinct, Injective
      <4>4. QED
        BY <4>3 DEF ToSet
    <3>5. run' = <<x>>
      BY <2>2, <1>6
    <3> HIDE DEF u, x
    <3>6. QED
      BY <2>2, <3>2, <3>3, <3>4, <3>5 DEF x
  <2>3. QED
    BY <2>1, <2>2
<1> HIDE DEF u
<1>8. TypeOK'
  <2>1. <<>> \in Seq(JobId) /\ Len(<<>>) = 0
    BY EmptySeq
  <2>2. QED
    BY <2>1, <1>1, <1>5, <1>6, <1>7 DEF IInv, TypeOK
<1>9. MapsMatchOrders'
  BY <1>5, <1>6 DEF IInv, MapsMatchOrders, ToSet
<1>10. StoreIsWindow'
  <2>1. Newest(<<>>, MaxPastJobs) = <<>>
    BY <1>1, EmptyWindow
  <2>2. QED
    BY <2>1, <1>5, <1>6, <1>7 DEF IInv, StoreIsWindow
<1>11. Fresh'
  BY <1>2, <1>5, <1>6, <1>7 DEF IInv, Fresh
<1>12. Distinct'
  BY <1>2, <1>5, <1>6, <1>7 DEF IInv, Distinct
<1>13. QED
  BY <1>8, <1>9, <1>10, <1>11, <1>12 DEF IInv

\* The job proposed for template t becomes the first job of a new tip.
LEMMA ActivateFutureJobStep ==
  ASSUME IInv, NEW t \in Template, ActivateFutureJob(t)
  PROVE  IInv'
<1> DEFINE id == templateToJob[t]
<1>1. /\ MaxPastJobs \in Nat /\ MaxFutureJobs \in Nat
      /\ run \in Seq(JobId) /\ retired \in Seq(JobId)
  BY StoreAssumption DEF IInv, TypeOK
<1>2. PICK e \in ToSet(proposed) : e.job = id
  <2>1. t \in DOMAIN templateToJob
    BY DEF ActivateFutureJob, CanActivate
  <2>2. PICK e \in ToSet(futureOrder) : e.template = t
    BY <2>1 DEF IInv, MapsMatchOrders
  <2>3. e.job = id /\ e \in ToSet(proposed)
    BY <2>2, WindowFacts DEF IInv, MapsMatchOrders
  <2>4. QED
    BY <2>3
<1>3. /\ id \in JobId /\ id \in usedJobs
      /\ id \notin ToSet(run) /\ id \notin ToSet(retired)
  <2>1. id \in JobId
    BY DEF ActivateFutureJob, CanActivate, IInv, TypeOK
  <2>2. QED
    BY <2>1, <1>2 DEF IInv, Fresh, Distinct
<1>4. PastBecomesStale(Newest(run, MaxPastJobs), ToSet(Newest(run, MaxPastJobs)))
  <2>1. PastBecomesStale(Newest(PastOrderWithActive, MaxPastJobs), PastJobsWithActive)
    BY DEF ActivateFutureJob
  <2>2. QED
    BY <2>1, PastWithActive
<1>5. /\ pastOrder' = <<>> /\ pastJobs' = {}
      /\ staleOrder' = Newest(retired \o run, MaxStaleJobs)
      /\ staleJobs' = ToSet(staleOrder')
      /\ staleOrder' \in Seq(JobId) /\ Len(staleOrder') <= MaxStaleJobs
      /\ staleJobs' \subseteq JobId
      /\ retired \o run \in Seq(JobId) /\ Injective(retired \o run)
      /\ ToSet(retired \o run) = ToSet(retired) \cup ToSet(run)
  <2>1. Injective(run) /\ ToSet(run) \cap ToSet(retired) = {}
    BY DEF IInv, Distinct
  <2>2. QED
    BY <2>1, <1>1, <1>4, DrainFacts
<1>6. /\ active' = id /\ DOMAIN templateToJob' = {} /\ futureJobs' = {} /\ futureOrder' = <<>>
      /\ retired' = retired \o run /\ run' = <<id>> /\ proposed' = <<>>
      /\ UNCHANGED <<usedJobs, usedTemplates>>
  BY DEF ActivateFutureJob
<1> HIDE DEF id
<1>7. /\ run' \in Seq(JobId) /\ run' # <<>> /\ Front(run') = <<>> /\ Last(run') = id
      /\ ToSet(run') = {id} /\ Injective(run')
  BY <1>3, <1>6, SingleJob
<1>8. /\ <<>> \in Seq(JobId) /\ <<>> \in Seq(Entry) /\ Len(<<>>) = 0
      /\ ToSet(<<>>) = {} /\ DOMAIN <<>> = {}
  BY EmptySeq DEF ToSet
<1>9. TypeOK'
  BY <1>1, <1>3, <1>5, <1>6, <1>7, <1>8 DEF IInv, TypeOK
<1>10. MapsMatchOrders'
  BY <1>5, <1>6, <1>8 DEF MapsMatchOrders
<1>11. StoreIsWindow'
  <2>1. Newest(<<>>, MaxPastJobs) = <<>> /\ Newest(<<>>, MaxFutureJobs) = <<>>
    BY <1>1, EmptyWindow
  <2>2. QED
    BY <2>1, <1>5, <1>6, <1>7 DEF StoreIsWindow
<1>12. Fresh' /\ Distinct'
  BY <1>3, <1>5, <1>6, <1>7, <1>8 DEF IInv, Fresh, Distinct, DistinctEntries
<1>13. QED
  BY <1>9, <1>10, <1>11, <1>12 DEF IInv

\* A failed activation finds nothing to forget.
LEMMA ActivationFailsStep ==
  ASSUME IInv, NEW t \in Template, ActivationFails(t)
  PROVE  IInv'
<1>1. t \notin DOMAIN templateToJob
  BY DEF ActivationFails, CanActivate, IInv, MapsMatchOrders
<1>2. /\ DOMAIN templateToJob' = DOMAIN templateToJob
      /\ \A v \in DOMAIN templateToJob : templateToJob'[v] = templateToJob[v]
  BY <1>1 DEF ActivationFails
<1>3. UNCHANGED <<futureJobs, futureOrder, active, pastJobs, pastOrder, staleJobs,
                  staleOrder, proposed, run, retired, usedJobs, usedTemplates>>
  BY DEF ActivationFails, history
<1>4. TypeOK'
  BY <1>2, <1>3 DEF IInv, TypeOK
<1>5. MapsMatchOrders'
  BY <1>2, <1>3 DEF IInv, MapsMatchOrders
<1>6. StoreIsWindow' /\ Fresh' /\ Distinct'
  BY <1>3 DEF IInv, StoreIsWindow, Fresh, Distinct, DistinctEntries, Injective
<1>7. QED
  BY <1>4, <1>5, <1>6 DEF IInv

-----------------------------------------------------------------------------
\* Every operation of the store keeps the invariant.
LEMMA StepIInv == IInv /\ [Next]_vars => IInv'
<1> SUFFICES ASSUME IInv, [Next]_vars PROVE IInv'
  OBVIOUS
<1>1. CASE \E t \in Template \ usedTemplates, id \in JobId \ usedJobs : AddFutureJob(t, id)
  BY <1>1, AddFutureJobStep
<1>2. CASE \E id \in JobId \ usedJobs : AddActiveJob(id)
  BY <1>2, AddActiveJobStep
<1>3. CASE MarkPastJobsAsStale
  BY <1>3, MarkPastJobsAsStaleStep
<1>4. CASE \E t \in Template : ActivateFutureJob(t)
  BY <1>4, ActivateFutureJobStep
<1>5. CASE \E t \in Template : ActivationFails(t)
  BY <1>5, ActivationFailsStep
<1>6. CASE UNCHANGED vars
  BY <1>6 DEF vars, store, history, IInv, TypeOK, MapsMatchOrders, StoreIsWindow,
              Fresh, Distinct, DistinctEntries, Injective
<1>7. QED
  BY <1>1, <1>2, <1>3, <1>4, <1>5, <1>6 DEF Next

\* Whatever the sequence of calls and whatever the caps, the strengthened
\* invariant holds: job_store.rs keeps a window on what it was given.
THEOREM StoreInvariant == Spec => []IInv
<1>1. Init => IInv
  BY InitIInv
<1>2. IInv /\ [Next]_vars => IInv'
  BY StepIInv
<1>3. QED
  BY <1>1, <1>2, PTL DEF Spec

\* The store stays within MAX_FUTURE_JOBS, MAX_PAST_JOBS and MAX_STALE_JOBS.
THEOREM StoreTypes == Spec => []TypeOK
<1>1. IInv => TypeOK
  BY DEF IInv
<1>2. QED
  BY <1>1, StoreInvariant, PTL

\* The HashMaps never leak an id that their Vec no longer lists.
THEOREM MapsFollowOrders == Spec => []MapsMatchOrders
<1>1. IInv => MapsMatchOrders
  BY DEF IInv
<1>2. QED
  BY <1>1, StoreInvariant, PTL

\* Pruning forgets only jobs older than the newest ones of their class.
THEOREM StoreKeepsTheNewest == Spec => []StoreIsWindow
<1>1. IInv => StoreIsWindow
  BY DEF IInv
<1>2. QED
  BY <1>1, StoreInvariant, PTL

\* No share is judged by a chain tip its job was not active under.
THEOREM SharesJudgedByTip == Spec => []JudgedByTip
<1>1. IInv => JudgedByTip
  <2> SUFFICES ASSUME IInv PROVE JudgedByTip
    OBVIOUS
  <2>1. /\ ToSet(futureOrder) \subseteq ToSet(proposed)
        /\ ToSet(pastOrder) \subseteq ToSet(run)
        /\ ToSet(staleOrder) \subseteq ToSet(retired)
        /\ active \in ToSet(run) \/ active = NoJob
    BY WindowFacts
  <2>2. /\ pastJobs = ToSet(pastOrder) /\ staleJobs = ToSet(staleOrder)
        /\ futureJobs = {e.job : e \in ToSet(futureOrder)}
    BY DEF IInv, MapsMatchOrders
  <2>3. /\ ToSet(run) \cap ToSet(retired) = {}
        /\ \A e \in ToSet(proposed) : e.job \notin ToSet(run) \cup ToSet(retired)
    BY DEF IInv, Distinct
  <2>4. /\ \A id \in ToSet(retired) : id \in JobId
        /\ futureJobs \subseteq JobId /\ NoJob \notin JobId
    BY StoreAssumption, LenProperties, ElementOfSeq DEF IInv, TypeOK, Fresh
  <2>5. QED
    BY <2>1, <2>2, <2>3, <2>4 DEF JudgedByTip
<1>2. QED
  BY <1>1, StoreInvariant, PTL

\* set_new_prev_hash can activate each of the MAX_FUTURE_JOBS templates
\* announced last, whatever happened to the store in between.
THEOREM TipCanMove == Spec => []NewestTemplatesActivate
<1>1. IInv => NewestTemplatesActivate
  <2> SUFFICES ASSUME IInv, NEW i \in DOMAIN proposed, i > Len(proposed) - MaxFutureJobs
               PROVE  CanActivate(proposed[i].template)
    BY DEF NewestTemplatesActivate
  <2>1. /\ MaxFutureJobs \in Nat /\ proposed \in Seq(Entry)
        /\ futureOrder = Newest(proposed, MaxFutureJobs)
    BY StoreAssumption DEF IInv, TypeOK, StoreIsWindow
  <2>2. DOMAIN proposed = 1..Len(proposed) /\ Len(proposed) \in Nat
    BY <2>1, LenProperties
  <2>3. i \in (Len(proposed) - Kept(proposed, MaxFutureJobs) + 1)..Len(proposed)
    <3> DEFINE l == Len(proposed)
               k == Kept(proposed, MaxFutureJobs)
    <3>1. /\ l \in Nat /\ i \in 1..l /\ i > l - MaxFutureJobs
          /\ k = IF l <= MaxFutureJobs THEN l ELSE MaxFutureJobs
      BY <2>1, <2>2 DEF Kept
    <3> HIDE DEF l, k
    <3>2. i \in (l - k + 1)..l
      BY <2>1, <3>1
    <3>3. QED
      BY <3>2 DEF l, k
  <2>4. proposed[i] \in ToSet(futureOrder)
    BY <2>1, <2>3, NewestOldestSets
  <2>5. QED
    BY <2>4 DEF CanActivate, IInv, MapsMatchOrders
<1>2. QED
  BY <1>1, StoreInvariant, PTL

\* The store is a window on what it was given, and no map holds on to a job
\* that its order has dropped.
THEOREM StoreIsExactWindow == Spec => []WindowWithoutLeaks
<1>1. IInv => WindowWithoutLeaks
  BY DEF IInv, WindowWithoutLeaks
<1>2. QED
  BY <1>1, StoreInvariant, PTL
=============================================================================
