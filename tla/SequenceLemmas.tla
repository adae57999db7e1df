--------------------------- MODULE SequenceLemmas -----------------------------
(***************************************************************************)
(* What the list operations of the program do to a list without            *)
(* duplicates: CNodeList::AddTail appends, RemoveHead takes the head and   *)
(* Remove takes one position out.  The proofs about the queues cite these  *)
(* lemmas instead of reasoning about indices.                              *)
(***************************************************************************)
EXTENDS Integers, SequencesExt, SequenceTheorems, WellFoundedInduction, TLAPS

(* A set of naturals has a least element. *)
LEMMA LeastOfNat ==
  ASSUME NEW T, T \subseteq Nat, T # {}
  PROVE  \E x \in T : \A y \in T : x <= y
<1> DEFINE R == OpToRel(<, Nat)
<1>1. \E x \in T : \A y \in T : ~(<<y, x>> \in R)
  <2>1. IsWellFoundedOn(R, Nat)
    BY NatLessThanWellFounded
  <2> HIDE DEF R
  <2> QED BY <2>1, WFMin
<1>2. \A x \in Nat, y \in Nat : y < x => <<y, x>> \in R
  BY DEF OpToRel
<1> HIDE DEF R
<1>3. PICK x \in T : \A y \in T : ~(<<y, x>> \in R)
  BY <1>1
<1>4. \A y \in T : ~(y < x)
  <2> TAKE y \in T
  <2>1. x \in Nat /\ y \in Nat /\ ~(<<y, x>> \in R)
    BY <1>3
  <2> QED BY <1>2, <2>1
<1>5. \A y \in T : x <= y
  <2> TAKE y \in T
  <2>1. x \in Nat /\ y \in Nat /\ ~(y < x)
    BY <1>4
  <2> QED BY <2>1
<1> QED BY <1>5

(* A set of positions of a list has a greatest one. *)
LEMMA GreatestPosition ==
  ASSUME NEW n \in Nat, NEW S, S \subseteq 0..n, S # {}
  PROVE  \E x \in S : \A y \in S : x >= y
<1> DEFINE T == {i \in 0..n : n - i \in S}
<1>1. T \subseteq Nat
  OBVIOUS
<1>2. T # {}
  <2>1. PICK j \in S : TRUE
    OBVIOUS
  <2>2. n - j \in 0..n /\ n - (n - j) = j
    BY <2>1
  <2> QED BY <2>1, <2>2
<1>3. PICK x \in T : \A y \in T : x <= y
  BY <1>1, <1>2, LeastOfNat
<1>4. n - x \in S /\ x \in 0..n
  BY <1>3
<1>5. \A j \in S : n - x >= j
  <2> TAKE j \in S
  <2>1. j \in 0..n /\ n - j \in 0..n /\ n - (n - j) = j
    OBVIOUS
  <2>2. n - j \in T
    BY <2>1
  <2>3. x <= n - j
    BY <1>3, <2>2
  <2> HIDE DEF T
  <2> QED BY <1>4, <2>1, <2>3
<1> QED BY <1>4, <1>5

(* Removing a position removes exactly its element. *)
LEMMA RemoveAtProperties ==
  ASSUME NEW S, NEW s \in Seq(S), NEW i \in 1..Len(s)
  PROVE  /\ RemoveAt(s, i) \in Seq(S)
         /\ Len(RemoveAt(s, i)) = Len(s) - 1
         /\ \A j \in 1..(Len(s) - 1) :
              RemoveAt(s, i)[j] = IF j < i THEN s[j] ELSE s[j + 1]
<1> DEFINE a == SubSeq(s, 1, i - 1)
           b == SubSeq(s, i + 1, Len(s))
<1>1. a \in Seq(S) /\ Len(a) = i - 1 /\ \A j \in 1..(i - 1) : a[j] = s[j]
  BY SubSeqProperties
<1>2. b \in Seq(S) /\ Len(b) = Len(s) - i /\ \A j \in 1..(Len(s) - i) : b[j] = s[i + j]
  BY SubSeqProperties
<1>3. /\ a \o b \in Seq(S) /\ Len(a \o b) = Len(s) - 1
      /\ \A j \in 1..(Len(s) - 1) :
           (a \o b)[j] = IF j <= Len(a) THEN a[j] ELSE b[j - Len(a)]
  <2>1. Len(s) \in Nat /\ i \in Int /\ a \in Seq(S) /\ b \in Seq(S)
    BY <1>1, <1>2
  <2> HIDE DEF a, b
  <2>2. Len(a) + Len(b) = Len(s) - 1
    BY <1>1, <1>2, <2>1
  <2>3. /\ a \o b \in Seq(S) /\ Len(a \o b) = Len(a) + Len(b)
        /\ \A j \in 1..(Len(a) + Len(b)) :
             (a \o b)[j] = IF j <= Len(a) THEN a[j] ELSE b[j - Len(a)]
    BY <2>1, ConcatProperties
  <2> QED BY <2>2, <2>3
<1> HIDE DEF a, b
<1>4. \A j \in 1..(Len(s) - 1) : (a \o b)[j] = IF j < i THEN s[j] ELSE s[j + 1]
  <2> TAKE j \in 1..(Len(s) - 1)
  <2>1. CASE j < i
    BY <2>1, <1>1, <1>3
  <2>2. CASE ~(j < i)
    <3>1. j - Len(a) \in 1..(Len(s) - i) /\ i + (j - Len(a)) = j + 1
      BY <2>2, <1>1
    <3> QED BY <2>2, <3>1, <1>1, <1>2, <1>3
  <2> QED BY <2>1, <2>2
<1>5. RemoveAt(s, i) = a \o b
  BY DEF RemoveAt, a, b
<1> QED BY <1>3, <1>4, <1>5

LEMMA RemoveAtDistinct ==
  ASSUME NEW S, NEW s \in Seq(S), NEW i \in 1..Len(s), IsInjective(s)
  PROVE  /\ RemoveAt(s, i) \in Seq(S)
         /\ IsInjective(RemoveAt(s, i))
         /\ Range(RemoveAt(s, i)) = Range(s) \ {s[i]}
<1> DEFINE r == RemoveAt(s, i)
<1>1. /\ r \in Seq(S) /\ Len(r) = Len(s) - 1 /\ Len(s) \in Nat
      /\ \A j \in 1..(Len(s) - 1) : r[j] = IF j < i THEN s[j] ELSE s[j + 1]
  BY RemoveAtProperties
<1>2. DOMAIN s = 1..Len(s) /\ DOMAIN r = 1..(Len(s) - 1)
  BY <1>1
<1> HIDE DEF r
<1>3. IsInjective(r)
  <2> SUFFICES ASSUME NEW j \in 1..(Len(s) - 1), NEW k \in 1..(Len(s) - 1), r[j] = r[k]
               PROVE  j = k
    BY <1>2 DEF IsInjective
  <2> DEFINE at(n) == IF n < i THEN n ELSE n + 1
  <2>1. at(j) \in 1..Len(s) /\ at(k) \in 1..Len(s)
    BY <1>1
  <2>2. r[j] = s[at(j)] /\ r[k] = s[at(k)]
    BY <1>1
  <2>3. at(j) = at(k)
    BY <1>2, <2>1, <2>2 DEF IsInjective
  <2> QED BY <2>3
<1>4. \A x \in Range(r) : x \in Range(s) /\ x # s[i]
  BY <1>1, <1>2 DEF IsInjective, Range
<1>5. \A x \in Range(s) : x # s[i] => x \in Range(r)
  <2> SUFFICES ASSUME NEW k \in 1..Len(s), s[k] # s[i]
               PROVE  \E j \in 1..(Len(s) - 1) : r[j] = s[k]
    BY <1>2 DEF Range
  <2>1. CASE k < i
    BY <2>1, <1>1
  <2>2. CASE k > i
    <3>1. k - 1 \in 1..(Len(s) - 1) /\ r[k - 1] = s[k]
      BY <2>2, <1>1
    <3> QED BY <3>1
  <2> QED BY <2>1, <2>2, <1>1
<1> QED BY <1>1, <1>3, <1>4, <1>5 DEF r

LEMMA AppendDistinct ==
  ASSUME NEW S, NEW s \in Seq(S), NEW e \in S, IsInjective(s), e \notin Range(s)
  PROVE  /\ IsInjective(Append(s, e))
         /\ Range(Append(s, e)) = Range(s) \cup {e}
<1> DEFINE r == Append(s, e)
<1>1. /\ r \in Seq(S) /\ Len(r) = Len(s) + 1 /\ Len(s) \in Nat /\ r[Len(s) + 1] = e
      /\ \A i \in 1..Len(s) : r[i] = s[i]
  BY AppendProperties
<1>2. DOMAIN s = 1..Len(s) /\ DOMAIN r = 1..(Len(s) + 1)
  BY <1>1
<1> HIDE DEF r
<1>3. IsInjective(r)
  BY <1>1, <1>2 DEF IsInjective, Range
<1>4. Range(r) = Range(s) \cup {e}
  <2>1. Range(r) \subseteq Range(s) \cup {e}
    BY <1>1, <1>2 DEF Range
  <2>2. \A x \in Range(s) : x \in Range(r)
    BY <1>1, <1>2 DEF Range
  <2>3. e \in Range(r)
    BY <1>1, <1>2 DEF Range
  <2> QED BY <2>1, <2>2, <2>3
<1> QED BY <1>3, <1>4 DEF r

LEMMA TailDistinct ==
  ASSUME NEW S, NEW s \in Seq(S), s # <<>>, IsInjective(s)
  PROVE  /\ Head(s) \in S /\ Tail(s) \in Seq(S)
         /\ Head(s) \in Range(s)
         /\ IsInjective(Tail(s))
         /\ Range(Tail(s)) = Range(s) \ {Head(s)}
<1> DEFINE r == Tail(s)
<1>1. /\ r \in Seq(S) /\ Len(r) = Len(s) - 1 /\ Len(s) \in Nat /\ Len(s) >= 1
      /\ Head(s) = s[1] /\ Head(s) \in S
      /\ \A i \in 1..(Len(s) - 1) : r[i] = s[i + 1]
  BY HeadTailProperties, EmptySeq
<1>2. DOMAIN s = 1..Len(s) /\ DOMAIN r = 1..(Len(s) - 1)
  BY <1>1
<1> HIDE DEF r
<1>3. IsInjective(r)
  BY <1>1, <1>2 DEF IsInjective
<1>4. Head(s) \in Range(s)
  BY <1>1, <1>2 DEF Range
<1>5. \A x \in Range(r) : x \in Range(s) /\ x # Head(s)
  BY <1>1, <1>2 DEF Range, IsInjective
<1>6. \A x \in Range(s) : x # Head(s) => x \in Range(r)
  <2>1. ASSUME NEW k \in 1..Len(s), s[k] # s[1] PROVE s[k] \in Range(r)
    <3>1. k - 1 \in 1..(Len(s) - 1) /\ r[k - 1] = s[k]
      BY <1>1, <2>1
    <3> QED BY <1>2, <3>1 DEF Range
  <2> QED BY <1>1, <1>2, <2>1 DEF Range
<1> QED BY <1>1, <1>3, <1>4, <1>5, <1>6 DEF r

(* Removing a position and appending commute. *)
LEMMA RemoveAtAppend ==
  ASSUME NEW S, NEW s \in Seq(S), NEW i \in 1..Len(s), NEW e \in S
  PROVE  RemoveAt(Append(s, e), i) = Append(RemoveAt(s, i), e)
<1> DEFINE t == Append(s, e)
           r == RemoveAt(s, i)
           a == RemoveAt(t, i)
           b == Append(r, e)
           n == Len(s)
<1>1. n \in Nat /\ i \in 1..n
  BY LenProperties
<1>2. t \in Seq(S) /\ Len(t) = n + 1 /\ t[n + 1] = e /\ \A j \in 1..n : t[j] = s[j]
  BY AppendProperties
<1>3. r \in Seq(S) /\ Len(r) = n - 1 /\ \A j \in 1..(n - 1) : r[j] = IF j < i THEN s[j] ELSE s[j + 1]
  BY RemoveAtProperties
<1>4. b \in Seq(S) /\ Len(b) = Len(r) + 1 /\ b[Len(r) + 1] = e /\ \A j \in 1..Len(r) : b[j] = r[j]
  BY <1>3, AppendProperties
<1> HIDE DEF t, r, b, n
<1>5. i \in 1..Len(t)
  BY <1>1, <1>2
<1>6. /\ a \in Seq(S) /\ Len(a) = Len(t) - 1
      /\ \A j \in 1..(Len(t) - 1) : a[j] = IF j < i THEN t[j] ELSE t[j + 1]
  BY <1>2, <1>5, RemoveAtProperties
<1> HIDE DEF a
<1>7. Len(a) = n /\ Len(b) = n
  BY <1>1, <1>2, <1>3, <1>4, <1>6
<1>8. \A j \in 1..n : a[j] = b[j]
  <2> TAKE j \in 1..n
  <2>1. CASE j = n
    BY <2>1, <1>1, <1>2, <1>3, <1>4, <1>6
  <2>2. CASE j # n
    <3>1. j \in 1..(n - 1) /\ j \in 1..n /\ j + 1 \in 1..n
      BY <1>1, <2>2
    <3>2. b[j] = IF j < i THEN s[j] ELSE s[j + 1]
      BY <1>3, <1>4, <3>1
    <3>3. a[j] = IF j < i THEN t[j] ELSE t[j + 1]
      BY <1>1, <1>2, <1>6, <3>1
    <3> QED BY <1>2, <3>1, <3>2, <3>3
  <2> QED BY <2>1, <2>2
<1>9. a = b
  BY <1>4, <1>6, <1>7, <1>8, SeqEqual
<1> QED BY <1>9 DEF a, b, t, r

(* Removing two positions: the other way round, one of them is one less. *)
LEMMA RemoveAtTwice ==
  ASSUME NEW S, NEW s \in Seq(S), NEW i \in 1..Len(s), NEW k \in 1..Len(s), i < k
  PROVE  /\ i \in 1..Len(RemoveAt(s, k)) /\ k - 1 \in 1..Len(RemoveAt(s, i))
         /\ RemoveAt(RemoveAt(s, k), i) = RemoveAt(RemoveAt(s, i), k - 1)
<1> DEFINE n == Len(s)
           p == RemoveAt(s, k)
           q == RemoveAt(s, i)
           a == RemoveAt(p, i)
           b == RemoveAt(q, k - 1)
<1>1. n \in Nat /\ i \in 1..n /\ k \in 1..n /\ i < k
  BY LenProperties
<1>2. p \in Seq(S) /\ Len(p) = n - 1 /\ \A j \in 1..(n - 1) : p[j] = IF j < k THEN s[j] ELSE s[j + 1]
  BY RemoveAtProperties
<1>3. q \in Seq(S) /\ Len(q) = n - 1 /\ \A j \in 1..(n - 1) : q[j] = IF j < i THEN s[j] ELSE s[j + 1]
  BY RemoveAtProperties
<1> HIDE DEF n, p, q
<1>4. i \in 1..Len(p) /\ k - 1 \in 1..Len(q)
  BY <1>1, <1>2, <1>3
<1>5. /\ a \in Seq(S) /\ Len(a) = Len(p) - 1
      /\ \A j \in 1..(Len(p) - 1) : a[j] = IF j < i THEN p[j] ELSE p[j + 1]
  BY <1>2, <1>4, RemoveAtProperties
<1>6. /\ b \in Seq(S) /\ Len(b) = Len(q) - 1
      /\ \A j \in 1..(Len(q) - 1) : b[j] = IF j < k - 1 THEN q[j] ELSE q[j + 1]
  BY <1>3, <1>4, RemoveAtProperties
<1> HIDE DEF a, b
<1>7. Len(a) = n - 2 /\ Len(b) = n - 2
  BY <1>1, <1>2, <1>3, <1>5, <1>6
<1>8. \A j \in 1..(n - 2) : a[j] = b[j]
  <2> TAKE j \in 1..(n - 2)
  <2>1. j \in 1..(n - 1) /\ j + 1 \in 1..(n - 1)
    BY <1>1
  <2>2. a[j] = (IF j < i THEN p[j] ELSE p[j + 1]) /\ b[j] = (IF j < k - 1 THEN q[j] ELSE q[j + 1])
    BY <1>1, <1>2, <1>3, <1>5, <1>6
  <2>3. /\ p[j] = (IF j < k THEN s[j] ELSE s[j + 1])
        /\ p[j + 1] = (IF j + 1 < k THEN s[j + 1] ELSE s[j + 2])
    BY <1>1, <1>2, <2>1
  <2>4. /\ q[j] = (IF j < i THEN s[j] ELSE s[j + 1])
        /\ q[j + 1] = (IF j + 1 < i THEN s[j + 1] ELSE s[j + 2])
    BY <1>1, <1>3, <2>1
  <2> QED BY <1>1, <2>1, <2>2, <2>3, <2>4
<1>9. a = b
  BY <1>5, <1>6, <1>7, <1>8, SeqEqual
<1> QED BY <1>4, <1>9 DEF a, b, p, q

(* The list of what a function gives for the elements of a list. *)
Mapped(s, f) == [k \in 1..Len(s) |-> f[s[k]]]

LEMMA MappedElements ==
  ASSUME NEW S, NEW s \in Seq(S), NEW f
  PROVE  /\ Len(Mapped(s, f)) = Len(s) /\ DOMAIN Mapped(s, f) = 1..Len(s)
         /\ \A k \in 1..Len(s) : Mapped(s, f)[k] = f[s[k]]
<1> DEFINE T == {f[s[k]] : k \in 1..Len(s)}
<1>1. Len(s) \in Nat
  BY LenProperties
<1>2. Mapped(s, f) \in [1..Len(s) -> T]
  BY DEF Mapped
<1>3. Mapped(s, f) \in Seq(T)
  BY <1>1, <1>2, SeqDef
<1>4. DOMAIN Mapped(s, f) = 1..Len(s)
  BY <1>2
<1>5. Len(Mapped(s, f)) \in Nat /\ DOMAIN Mapped(s, f) = 1..Len(Mapped(s, f))
  BY <1>3, LenProperties
<1>6. Len(Mapped(s, f)) = Len(s)
  BY <1>1, <1>4, <1>5
<1> QED BY <1>4, <1>6 DEF Mapped

LEMMA MappedType ==
  ASSUME NEW S, NEW T, NEW s \in Seq(S), NEW f, \A x \in S : f[x] \in T
  PROVE  Mapped(s, f) \in Seq(T)
<1>1. Len(s) \in Nat /\ \A k \in 1..Len(s) : s[k] \in S
  BY LenProperties, ElementOfSeq
<1>2. Mapped(s, f) \in [1..Len(s) -> T]
  BY <1>1 DEF Mapped
<1> QED BY <1>1, <1>2, SeqDef

LEMMA MappedEmpty ==
  ASSUME NEW S, NEW s \in Seq(S), NEW f
  PROVE  Mapped(s, f) = <<>> <=> s = <<>>
<1> DEFINE T == {f[x] : x \in S}
<1>1. Len(Mapped(s, f)) = Len(s)
  BY MappedElements
<1>2. Mapped(s, f) \in Seq(T)
  BY MappedType
<1> QED BY <1>1, <1>2, EmptySeq

SameBut(f, g, S, i) == \A j \in S : j # i => g[j] = f[j]

LEMMA MappedAppend ==
  ASSUME NEW S, NEW s \in Seq(S), NEW i \in S, i \notin Range(s),
         NEW f, NEW g, SameBut(f, g, S, i)
  PROVE  Mapped(Append(s, i), g) = Append(Mapped(s, f), g[i])
<1> DEFINE T == {f[x] : x \in S} \cup {g[x] : x \in S}
           m == g[i]
           t == Append(s, i)
           u == Append(Mapped(s, f), m)
<1>1. m \in T /\ (\A x \in S : f[x] \in T) /\ (\A x \in S : g[x] \in T)
  OBVIOUS
<1>2. /\ t \in Seq(S) /\ Len(t) = Len(s) + 1 /\ t[Len(s) + 1] = i
      /\ \A k \in 1..Len(s) : t[k] = s[k]
  BY AppendProperties
<1>3. /\ Len(s) \in Nat /\ \A k \in 1..Len(s) : s[k] \in S /\ s[k] # i
  BY LenProperties, ElementOfSeq DEF Range
<1>4. /\ Mapped(s, f) \in Seq(T) /\ Len(Mapped(s, f)) = Len(s)
      /\ \A k \in 1..Len(s) : Mapped(s, f)[k] = f[s[k]]
  <2>1. Mapped(s, f) \in Seq(T)
    BY <1>1, MappedType
  <2> QED BY <2>1, MappedElements
<1>5. /\ u \in Seq(T) /\ Len(u) = Len(s) + 1 /\ u[Len(s) + 1] = m
      /\ \A k \in 1..Len(s) : u[k] = f[s[k]]
  BY <1>1, <1>4, AppendProperties
<1> HIDE DEF T, t, u
<1>6. /\ Mapped(t, g) \in Seq(T) /\ Len(Mapped(t, g)) = Len(t)
      /\ \A k \in 1..Len(t) : Mapped(t, g)[k] = g[t[k]]
  <2>1. Mapped(t, g) \in Seq(T)
    BY <1>1, <1>2, MappedType
  <2> QED BY <1>2, <2>1, MappedElements
<1>7. \A k \in 1..(Len(s) + 1) : Mapped(t, g)[k] = u[k]
  <2> TAKE k \in 1..(Len(s) + 1)
  <2>1. CASE k = Len(s) + 1
    BY <2>1, <1>2, <1>3, <1>5, <1>6 DEF m
  <2>2. CASE k \in 1..Len(s)
    BY <2>2, <1>2, <1>3, <1>5, <1>6 DEF SameBut
  <2> QED BY <2>1, <2>2, <1>3
<1>8. Mapped(t, g) = u
  BY <1>2, <1>5, <1>6, <1>7, SeqEqual
<1> QED BY <1>8 DEF m, t, u

LEMMA MappedTail ==
  ASSUME NEW S, NEW s \in Seq(S), NEW f, s # <<>>
  PROVE  /\ Mapped(s, f) = <<f[Head(s)]>> \o Mapped(Tail(s), f)
         /\ Head(s) \in S /\ Tail(s) \in Seq(S)
<1> DEFINE T == {f[x] : x \in S}
<1>0. \A p \in Seq(S) : /\ Mapped(p, f) \in Seq(T) /\ Len(Mapped(p, f)) = Len(p)
                        /\ \A k \in 1..Len(p) : Mapped(p, f)[k] = f[p[k]]
  <2>1. ASSUME NEW p \in Seq(S) PROVE Mapped(p, f) \in Seq(T)
    BY MappedType
  <2>2. ASSUME NEW p \in Seq(S)
        PROVE  Len(Mapped(p, f)) = Len(p) /\ \A k \in 1..Len(p) : Mapped(p, f)[k] = f[p[k]]
    BY MappedElements
  <2> QED BY <2>1, <2>2
<1> HIDE DEF T
<1>1. /\ Head(s) \in S /\ Head(s) = s[1] /\ Tail(s) \in Seq(S)
      /\ Len(s) \in Nat \ {0} /\ Len(Tail(s)) = Len(s) - 1
      /\ \A k \in 1..Len(Tail(s)) : Tail(s)[k] = s[k + 1]
  BY HeadTailProperties, EmptySeq
<1> DEFINE h == <<f[Head(s)]>>
           t == Tail(s)
           v == Mapped(t, f)
<1>2. h \in Seq(T) /\ Len(h) = 1 /\ h[1] = f[s[1]]
  BY <1>1 DEF T
<1>3. /\ v \in Seq(T) /\ Len(v) = Len(s) - 1
      /\ \A k \in 1..(Len(s) - 1) : v[k] = f[s[k + 1]]
  <2>1. t \in Seq(S) /\ Len(t) = Len(s) - 1 /\ \A k \in 1..(Len(s) - 1) : t[k] = s[k + 1]
    BY <1>1
  <2> HIDE DEF t
  <2>2. v \in Seq(T) /\ Len(v) = Len(t) /\ \A k \in 1..Len(t) : v[k] = f[t[k]]
    BY <1>0, <2>1
  <2> HIDE DEF v
  <2> QED BY <2>1, <2>2
<1>4. /\ Mapped(s, f) \in Seq(T) /\ Len(Mapped(s, f)) = Len(s)
      /\ \A k \in 1..Len(s) : Mapped(s, f)[k] = f[s[k]]
  BY <1>0, Zenon
<1> HIDE DEF h, t, v
<1>5. /\ h \o v \in Seq(T) /\ Len(h \o v) = Len(s)
      /\ \A k \in 1..Len(s) : (h \o v)[k] = IF k <= 1 THEN h[k] ELSE v[k - 1]
  <2>1. /\ h \o v \in Seq(T) /\ Len(h \o v) = Len(h) + Len(v)
        /\ \A k \in 1..(Len(h) + Len(v)) :
             (h \o v)[k] = IF k <= Len(h) THEN h[k] ELSE v[k - Len(h)]
    BY <1>2, <1>3, ConcatProperties
  <2>2. Len(h) = 1 /\ Len(h) + Len(v) = Len(s)
    BY <1>1, <1>2, <1>3
  <2> QED BY <2>1, <2>2
<1>6. \A k \in 1..Len(s) : Mapped(s, f)[k] = (h \o v)[k]
  <2> TAKE k \in 1..Len(s)
  <2>1. CASE k = 1
    BY <2>1, <1>1, <1>2, <1>4, <1>5
  <2>2. CASE k # 1
    <3>1. k - 1 \in 1..(Len(s) - 1) /\ (k - 1) + 1 = k /\ ~(k <= 1)
      BY <2>2, <1>1
    <3>2. (h \o v)[k] = v[k - 1]
      BY <3>1, <1>1, <1>5
    <3>3. v[k - 1] = f[s[k]]
      BY <3>1, <1>3
    <3> QED BY <3>2, <3>3, <1>4
  <2> QED BY <2>1, <2>2
<1>7. Mapped(s, f) = h \o v
  BY <1>1, <1>4, <1>5, <1>6, SeqEqual
<1> QED BY <1>1, <1>7 DEF h, t, v

LEMMA MappedRemoveAt ==
  ASSUME NEW S, NEW s \in Seq(S), NEW f, NEW i \in 1..Len(s)
  PROVE  Mapped(RemoveAt(s, i), f) = RemoveAt(Mapped(s, f), i)
<1> DEFINE T == {f[x] : x \in S}
<1>0. \A p \in Seq(S) : /\ Mapped(p, f) \in Seq(T) /\ Len(Mapped(p, f)) = Len(p)
                        /\ \A k \in 1..Len(p) : Mapped(p, f)[k] = f[p[k]]
  <2>1. ASSUME NEW p \in Seq(S) PROVE Mapped(p, f) \in Seq(T)
    BY MappedType
  <2>2. ASSUME NEW p \in Seq(S)
        PROVE  Len(Mapped(p, f)) = Len(p) /\ \A k \in 1..Len(p) : Mapped(p, f)[k] = f[p[k]]
    BY MappedElements
  <2> QED BY <2>1, <2>2
<1> HIDE DEF T
<1> DEFINE n == Len(s)
           r == RemoveAt(s, i)
           m == Mapped(s, f)
           a == Mapped(r, f)
           b == RemoveAt(m, i)
<1>1. n \in Nat /\ i \in 1..n /\ s \in [1..n -> S]
  BY LenProperties
<1>2. r \in Seq(S) /\ Len(r) = n - 1 /\ \A j \in 1..(n - 1) : r[j] = IF j < i THEN s[j] ELSE s[j + 1]
  BY RemoveAtProperties
<1>3. m \in Seq(T) /\ Len(m) = n /\ \A k \in 1..n : m[k] = f[s[k]]
  BY <1>0
<1> HIDE DEF n, r, m
<1>4. a \in Seq(T) /\ Len(a) = Len(r) /\ \A k \in 1..Len(r) : a[k] = f[r[k]]
  BY <1>0, <1>2, Zenon
<1>5. i \in 1..Len(m)
  BY <1>1, <1>3
<1>6. /\ b \in Seq(T) /\ Len(b) = Len(m) - 1
      /\ \A j \in 1..(Len(m) - 1) : b[j] = IF j < i THEN m[j] ELSE m[j + 1]
  BY <1>3, <1>5, RemoveAtProperties
<1> HIDE DEF a, b
<1>7. Len(a) = n - 1 /\ Len(b) = n - 1
  BY <1>1, <1>2, <1>3, <1>4, <1>6
<1>8. \A j \in 1..(n - 1) : a[j] = b[j]
  <2> TAKE j \in 1..(n - 1)
  <2>1. j \in 1..n /\ j + 1 \in 1..n
    BY <1>1
  <2>2. a[j] = f[r[j]] /\ r[j] = IF j < i THEN s[j] ELSE s[j + 1]
    BY <1>2, <1>4
  <2>3. b[j] = IF j < i THEN m[j] ELSE m[j + 1]
    BY <1>3, <1>6
  <2>4. m[j] = f[s[j]] /\ m[j + 1] = f[s[j + 1]]
    BY <1>3, <2>1
  <2> QED BY <2>2, <2>3, <2>4
<1>9. a = b
  BY <1>4, <1>6, <1>7, <1>8, SeqEqual
<1> QED BY <1>9 DEF a, b, m, r

(* A list with an element in front. *)
LEMMA ConsHeadTail ==
  ASSUME NEW S, NEW s \in Seq(S), NEW m \in S
  PROVE  <<m>> \o s # <<>> /\ Head(<<m>> \o s) = m /\ Tail(<<m>> \o s) = s
<1> DEFINE h == <<m>>
           t == h \o s
<1>1. h \in Seq(S) /\ Len(h) = 1 /\ h[1] = m /\ Len(s) \in Nat
  BY LenProperties
<1> HIDE DEF h
<1>2. /\ t \in Seq(S) /\ Len(t) = Len(h) + Len(s)
      /\ \A k \in 1..(Len(h) + Len(s)) : t[k] = IF k <= Len(h) THEN h[k] ELSE s[k - Len(h)]
  BY <1>1, ConcatProperties
<1> HIDE DEF t
<1>3. t # <<>> /\ Head(t) = m
  BY <1>1, <1>2
<1>4. /\ Tail(t) \in Seq(S) /\ Len(Tail(t)) = Len(t) - 1
      /\ \A k \in 1..Len(Tail(t)) : Tail(t)[k] = t[k + 1]
  BY <1>2, <1>3, HeadTailProperties
<1>5. Len(Tail(t)) = Len(s) /\ \A k \in 1..Len(s) : Tail(t)[k] = s[k]
  BY <1>1, <1>2, <1>4
<1>6. Tail(t) = s
  BY <1>4, <1>5, SeqEqual
<1> QED BY <1>3, <1>6 DEF h, t

-----------------------------------------------------------------------------
(* A part of a list, and an element inserted into one. *)

LEMMA PartOfSeq ==
  ASSUME NEW S, NEW s \in Seq(S), NEW i \in Nat \ {0}, NEW j \in 0..Len(s)
  PROVE  /\ SubSeq(s, i, j) \in Seq(S)
         /\ Len(SubSeq(s, i, j)) = IF i <= j THEN j - i + 1 ELSE 0
         /\ \A k \in 1..(j - i + 1) : SubSeq(s, i, j)[k] = s[i + k - 1]
<1>1. Len(s) \in Nat /\ i \in Int /\ j \in Int
  BY LenProperties
<1>2. \A k \in i..j : s[k] \in S
  BY <1>1, ElementOfSeq
<1> QED BY <1>1, <1>2, SubSeqProperties

LEMMA InsertAtProperties ==
  ASSUME NEW S, NEW s \in Seq(S), NEW e \in S, NEW i \in 1..(Len(s) + 1)
  PROVE  /\ InsertAt(s, i, e) \in Seq(S)
         /\ Len(InsertAt(s, i, e)) = Len(s) + 1
         /\ \A k \in 1..(Len(s) + 1) :
              InsertAt(s, i, e)[k] = IF k < i THEN s[k] ELSE IF k = i THEN e ELSE s[k - 1]
<1> DEFINE a == SubSeq(s, 1, i - 1)
           b == SubSeq(s, i, Len(s))
           m == <<e>>
<1>0. Len(s) \in Nat /\ i \in Nat \ {0} /\ i - 1 \in 0..Len(s)
  BY LenProperties
<1>1. /\ a \in Seq(S) /\ Len(a) = i - 1 /\ \A k \in 1..(i - 1) : a[k] = s[k]
  <2>1. \A k \in 1..(i - 1) : 1 + k - 1 = k
    BY <1>0
  <2> QED BY <1>0, <2>1, PartOfSeq
<1>2. /\ b \in Seq(S) /\ Len(b) = Len(s) - i + 1 /\ \A k \in 1..(Len(s) - i + 1) : b[k] = s[i + k - 1]
  BY <1>0, PartOfSeq
<1>3. m \in Seq(S) /\ Len(m) = 1 /\ m[1] = e
  OBVIOUS
<1>4. InsertAt(s, i, e) = a \o m \o b
  BY DEF InsertAt
<1> HIDE DEF a, b, m
<1>5. a \o m \in Seq(S) /\ Len(a \o m) = i /\ \A k \in 1..i : (a \o m)[k] = IF k < i THEN s[k] ELSE e
  <2>1. /\ a \o m \in Seq(S) /\ Len(a \o m) = Len(a) + Len(m)
        /\ \A k \in 1..(Len(a) + Len(m)) : (a \o m)[k] = IF k <= Len(a) THEN a[k] ELSE m[k - Len(a)]
    BY <1>1, <1>3, ConcatProperties
  <2> QED BY <1>0, <1>1, <1>3, <2>1
<1> DEFINE am == a \o m
<1>6. /\ am \o b \in Seq(S) /\ Len(am \o b) = Len(am) + Len(b)
      /\ \A k \in 1..(Len(am) + Len(b)) : (am \o b)[k] = IF k <= Len(am) THEN am[k] ELSE b[k - Len(am)]
  BY <1>2, <1>5, ConcatProperties
<1>7. Len(am) = i /\ \A k \in 1..i : am[k] = IF k < i THEN s[k] ELSE e
  BY <1>5
<1>8. InsertAt(s, i, e) = am \o b
  BY <1>4
<1> HIDE DEF am
<1>9. ASSUME NEW k \in 1..(Len(s) + 1)
      PROVE  (am \o b)[k] = IF k < i THEN s[k] ELSE IF k = i THEN e ELSE s[k - 1]
  <2>1. CASE k <= i
    BY <1>0, <1>2, <1>6, <1>7, <2>1
  <2>2. CASE k > i
    <3>1. k - i \in 1..(Len(s) - i + 1) /\ i + (k - i) - 1 = k - 1
      BY <1>0, <2>2
    <3>2. (am \o b)[k] = b[k - i]
      BY <1>0, <1>2, <1>6, <1>7, <2>2
    <3>3. b[k - i] = s[k - 1]
      BY <1>2, <3>1
    <3> QED BY <1>0, <2>2, <3>2, <3>3
  <2>3. k \in Int /\ i \in Int
    BY <1>0
  <2>4. k <= i \/ k > i
    BY <2>3
  <2> QED BY <2>1, <2>2, <2>4
<1> QED BY <1>0, <1>2, <1>6, <1>7, <1>8, <1>9

-----------------------------------------------------------------------------
(* Functions that a loop over a list computes: step tells what the k-th    *)
(* element makes of what was computed before it.                           *)

IsLoop(f, a, n, step) == f[0] = a /\ \A k \in 1..n : f[k] = step[k][f[k - 1]]

LEMMA LoopExists ==
  ASSUME NEW S, NEW a \in S, NEW n \in Nat, NEW step \in [1..n -> [S -> S]]
  PROVE  \E f \in [0..n -> S] : IsLoop(f, a, n, step)
<1> DEFINE Good(m, f) == f[0] = a /\ \A k \in 1..m : f[k] = step[k][f[k - 1]]
           Bad == {m \in 0..n : ~ \E f \in [0..m -> S] : Good(m, f)}
<1> SUFFICES ASSUME Bad # {} PROVE FALSE
  <2>1. n \in 0..n
    OBVIOUS
  <2>2. n \notin Bad => \E f \in [0..n -> S] : Good(n, f)
    BY <2>1
  <2> QED BY <2>2 DEF IsLoop
<1>1. PICK m \in Bad : \A x \in Bad : m <= x
  <2>1. Bad \subseteq Nat
    OBVIOUS
  <2> HIDE DEF Bad
  <2> QED BY <2>1, LeastOfNat
<1>2. m \in 0..n /\ ~ \E f \in [0..m -> S] : Good(m, f)
  BY <1>1
<1>3. m # 0
  <2> SUFFICES ASSUME m = 0 PROVE FALSE
    OBVIOUS
  <2>1. [k \in 0..0 |-> a] \in [0..m -> S] /\ Good(0, [k \in 0..0 |-> a])
    OBVIOUS
  <2> QED BY <1>2, <2>1
<1>4. m - 1 \in 0..n /\ m - 1 \notin Bad
  <2>1. m - 1 \in 0..n /\ ~(m <= m - 1)
    BY <1>2, <1>3
  <2> HIDE DEF Bad
  <2> QED BY <1>1, <2>1
<1>5. PICK f \in [0..(m - 1) -> S] : Good(m - 1, f)
  BY <1>4
<1> DEFINE g == [k \in 0..m |-> IF k = m THEN step[m][f[m - 1]] ELSE f[k]]
<1>6. step[m][f[m - 1]] \in S
  <2>1. m \in 1..n /\ m - 1 \in 0..(m - 1)
    BY <1>2, <1>3
  <2>2. f[m - 1] \in S
    BY <2>1
  <2> QED BY <2>1, <2>2
<1>7. g \in [0..m -> S]
  <2> SUFFICES ASSUME NEW k \in 0..m PROVE (IF k = m THEN step[m][f[m - 1]] ELSE f[k]) \in S
    OBVIOUS
  <2>1. k # m => k \in 0..(m - 1)
    BY <1>2
  <2> QED BY <1>6, <2>1
<1>8. Good(m, g)
  <2>1. g[0] = a
    BY <1>2, <1>3, <1>5
  <2>2. ASSUME NEW k \in 1..m PROVE g[k] = step[k][g[k - 1]]
    <3>1. k \in 0..m /\ k - 1 \in 0..m /\ k - 1 # m
      BY <1>2
    <3>2. g[k - 1] = f[k - 1]
      BY <3>1
    <3>3. CASE k = m
      BY <3>1, <3>2, <3>3
    <3>4. CASE k # m
      <4>1. m \in Nat /\ k \in 1..m
        BY <1>2
      <4>3. k \in 1..(m - 1)
        <5> HIDE DEF Bad
        <5> QED BY <3>4, <4>1
      <4>2. g[k] = f[k] /\ f[k] = step[k][f[k - 1]]
        BY <1>5, <3>1, <3>4, <4>3
      <4> QED BY <3>2, <4>2
    <3> QED BY <3>3, <3>4
  <2> QED BY <2>1, <2>2
<1> QED BY <1>2, <1>7, <1>8

(* What every step preserves is true at the end.  P is the set of what may *)
(* have been computed after each element.                                  *)
LEMMA LoopStays ==
  ASSUME NEW n \in Nat, NEW f, NEW P, f[0] \in P[0],
         \A k \in 1..n : f[k - 1] \in P[k - 1] => f[k] \in P[k]
  PROVE  \A k \in 0..n : f[k] \in P[k]
<1> DEFINE Bad == {k \in 0..n : f[k] \notin P[k]}
<1> SUFFICES ASSUME Bad # {} PROVE FALSE
  OBVIOUS
<1>1. PICK m \in Bad : \A x \in Bad : m <= x
  <2>1. Bad \subseteq Nat
    OBVIOUS
  <2> HIDE DEF Bad
  <2> QED BY <2>1, LeastOfNat
<1>2. m \in 1..n /\ f[m] \notin P[m]
  BY <1>1
<1>3. m - 1 \in 0..n /\ m - 1 \notin Bad
  <2>1. m - 1 \in 0..n /\ ~(m <= m - 1)
    BY <1>2
  <2> HIDE DEF Bad
  <2> QED BY <1>1, <2>1
<1> QED BY <1>2, <1>3
==============================================================================
