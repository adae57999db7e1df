----------------------------- MODULE BuffMngProof -----------------------------
(***************************************************************************)
(* Lemmas about the operators of BuffMng: what GetEmpty, Send, Read,       *)
(* Return, SetPos and FlushBuff take out of the lists and put back.  A     *)
(* buffer that is dropped from m_lst is free and goes to the front of      *)
(* m_lstEmpty; one that a decoder uses is returned to its end.             *)
(***************************************************************************)
EXTENDS BuffMng, SequenceLemmas

(* LastOf takes the greatest of a set of positions. *)
LEMMA LastOfPositions ==
  ASSUME NEW n \in Nat, NEW S, S \subseteq 0..n, S # {}
  PROVE  LastOf(S) \in S
<1>1. \E i \in S : \A j \in S : i >= j
  BY GreatestPosition
<1> QED BY <1>1 DEF LastOf

LEMMA FrameTimes ==
  ASSUME NEW l \in Seq(Frame)
  PROVE  Len(l) \in Nat /\ \A i \in 1..Len(l) : l[i] \in Frame /\ l[i].time \in Nat
<1>1. Len(l) \in Nat /\ \A i \in 1..Len(l) : l[i] \in Frame
  OBVIOUS
<1>2. \A f \in Frame : f.time \in Nat
  BY DEF Frame
<1> QED BY <1>1, <1>2

(* The search of a list for a time. *)
LEMMA FirstFromType ==
  ASSUME NEW l \in Seq(Frame), NEW p \in Int
  PROVE  /\ FirstFrom(l, p) \in 1..(Len(l) + 1)
         /\ FirstFrom(l, p) <= Len(l) => l[FirstFrom(l, p)].time >= p
<1> DEFINE Is(i) == /\ i <= Len(l) => l[i].time >= p
                    /\ \A j \in 1..(i - 1) : l[j].time < p
           T == {i \in 1..(Len(l) + 1) : i <= Len(l) => l[i].time >= p}
<1>1. Len(l) \in Nat /\ \A i \in 1..Len(l) : l[i].time \in Nat
  BY FrameTimes
<1>2. Len(l) + 1 \in T /\ T \subseteq Nat
  BY <1>1
<1>3. PICK x \in T : \A y \in T : x <= y
  BY <1>2, LeastOfNat
<1>4. x \in 1..(Len(l) + 1) /\ Is(x)
  <2>1. x \in 1..(Len(l) + 1) /\ (x <= Len(l) => l[x].time >= p)
    BY <1>3
  <2>2. ASSUME NEW j \in 1..(x - 1) PROVE l[j].time < p
    <3>1. j \in 1..(Len(l) + 1) /\ j < x /\ j \in 1..Len(l)
      BY <1>1, <2>1
    <3>2. j \notin T
      BY <1>3, <2>1, <3>1
    <3> QED BY <1>1, <3>1, <3>2
  <2> QED BY <2>1, <2>2
<1>5. FirstFrom(l, p) = CHOOSE i \in 1..(Len(l) + 1) : Is(i)
  BY DEF FirstFrom
<1> HIDE DEF Is
<1>6. FirstFrom(l, p) \in 1..(Len(l) + 1) /\ Is(FirstFrom(l, p))
  BY <1>4, <1>5
<1> QED BY <1>6 DEF Is

LEMMA FirstFromIs ==
  ASSUME NEW l \in Seq(Frame), NEW p \in Int, NEW i \in 1..(Len(l) + 1),
         i <= Len(l) => l[i].time >= p, \A j \in 1..(i - 1) : l[j].time < p
  PROVE  FirstFrom(l, p) = i
<1> DEFINE Is(n) == /\ n <= Len(l) => l[n].time >= p
                    /\ \A j \in 1..(n - 1) : l[j].time < p
           at == FirstFrom(l, p)
<1>1. Len(l) \in Nat /\ \A j \in 1..Len(l) : l[j].time \in Nat
  BY FrameTimes
<1>2. Is(i)
  OBVIOUS
<1>3. at = CHOOSE n \in 1..(Len(l) + 1) : Is(n)
  BY DEF FirstFrom
<1> HIDE DEF Is, at
<1>4. at \in 1..(Len(l) + 1) /\ Is(at)
  BY <1>2, <1>3
<1>5. ~(at < i)
  <2> SUFFICES ASSUME at < i PROVE FALSE
    OBVIOUS
  <2>1. at \in 1..(i - 1) /\ at \in 1..Len(l)
    BY <1>1, <1>4
  <2> QED BY <1>1, <1>4, <2>1 DEF Is
<1>6. ~(i < at)
  <2> SUFFICES ASSUME i < at PROVE FALSE
    OBVIOUS
  <2>1. i \in 1..(at - 1) /\ i \in 1..Len(l)
    BY <1>1, <1>4
  <2> QED BY <1>1, <1>4, <2>1 DEF Is
<1> QED BY <1>1, <1>4, <1>5, <1>6 DEF at

LEMMA FreeType ==
  ASSUME NEW n \in Nat
  PROVE  /\ Free(n) \in Seq({"free", "used"}) /\ Len(Free(n)) = n
         /\ \A i \in 1..n : Free(n)[i] = "free"
BY DEF Free

LEMMA ListParts ==
  ASSUME NEW l \in Seq(Frame), NEW i \in 1..(Len(l) + 1)
  PROVE  /\ From(l, i) \in Seq(Frame) /\ Len(From(l, i)) = Len(l) - i + 1
         /\ \A j \in 1..(Len(l) - i + 1) : From(l, i)[j] = l[i + j - 1]
         /\ Before(l, i) \in Seq(Frame) /\ Len(Before(l, i)) = i - 1
<1>1. Len(l) \in Nat /\ i - 1 \in (1-1)..Len(l)
  OBVIOUS
<1>2. /\ SubSeq(l, i, Len(l)) \in Seq(Frame) /\ Len(SubSeq(l, i, Len(l))) = Len(l) - i + 1
      /\ \A j \in 1..(Len(l) - i + 1) : SubSeq(l, i, Len(l))[j] = l[i + j - 1]
  BY <1>1, SubSeqProperties
<1>3. SubSeq(l, 1, i - 1) \in Seq(Frame) /\ Len(SubSeq(l, 1, i - 1)) = i - 1
  BY <1>1, SubSeqProperties
<1> QED BY <1>2, <1>3 DEF From, Before

LEMMA ConcatType ==
  ASSUME NEW S, NEW a \in Seq(S), NEW b \in Seq(S)
  PROVE  /\ a \o b \in Seq(S) /\ Len(a \o b) = Len(a) + Len(b)
         /\ Len(a) \in Nat /\ Len(b) \in Nat
         /\ \A i \in 1..(Len(a) + Len(b)) : (a \o b)[i] = IF i <= Len(a) THEN a[i] ELSE b[i - Len(a)]
BY ConcatProperties

LEMMA BehindType ==
  ASSUME NEW l \in Seq(Frame), NEW n \in 1..Len(l)
  PROVE  Behind(l, n) \in 0..(Len(l) - n)
<1>1. Len(l) \in Nat /\ l[n].time \in Nat /\ n + 1 \in 1..(Len(l) + 1)
  BY FrameTimes
<1> DEFINE b == From(l, n + 1)
<1>2. b \in Seq(Frame) /\ Len(b) = Len(l) - n
  BY <1>1, ListParts
<1> HIDE DEF b
<1>3. FirstFrom(b, l[n].time) \in 1..(Len(l) - n + 1)
  <2>1. l[n].time \in Int
    BY <1>1
  <2>2. FirstFrom(b, l[n].time) \in 1..(Len(b) + 1)
    BY <1>2, <2>1, FirstFromType
  <2> QED BY <1>1, <1>2, <2>2
<1>4. Behind(l, n) = IF n = 1 THEN 0 ELSE FirstFrom(b, l[n].time) - 1
  BY DEF Behind, b
<1> QED BY <1>1, <1>3, <1>4

(* The search of a list for the next key frame. *)
LEMMA NextKeyType ==
  ASSUME NEW l \in Seq(Frame), NEW pos \in Nat, m_llNextKeyTime \in Nat
  PROVE  /\ NextKey(l, pos) \in Nat
         /\ \/ NextKey(l, pos) \in {0, m_llNextKeyTime}
            \/ \E i \in 1..Len(l) : l[i].flag = "key" /\ NextKey(l, pos) = l[i].time
<1> DEFINE keys == {i \in 1..Len(l) : l[i].flag = "key"}
           good == {i \in keys : l[i].time >= pos}
           first == CHOOSE i \in good : \A j \in good : i <= j
           last1 == CHOOSE i \in keys : \A j \in keys : i >= j
<1>1. Len(l) \in Nat /\ \A i \in 1..Len(l) : l[i].time \in Nat
  BY FrameTimes
<1>2. keys \subseteq 0..Len(l) /\ good \subseteq keys /\ keys \subseteq 1..Len(l)
  OBVIOUS
<1> HIDE DEF keys, good
<1>3. good # {} => first \in keys
  <2>1. ASSUME good # {} PROVE \E i \in good : \A j \in good : i <= j
    <3>1. good \subseteq Nat
      <4>1. good \subseteq 1..Len(l) /\ Len(l) \in Nat
        BY <1>1, <1>2
      <4> QED BY <4>1
    <3> QED BY <2>1, <3>1, LeastOfNat
  <2> QED BY <1>2, <2>1
<1>4. keys # {} => last1 \in keys
  BY <1>1, <1>2, LastOfPositions DEF LastOf
<1>5. NextKey(l, pos) = IF m_llNextKeyTime # 0 THEN m_llNextKeyTime
                        ELSE IF keys = {} THEN 0
                        ELSE l[IF good # {} THEN first ELSE last1].time
  BY DEF NextKey, keys, good
<1> HIDE DEF first, last1
<1>6. keys # {} => (IF good # {} THEN first ELSE last1) \in keys
  BY <1>2, <1>3, <1>4
<1>7. \A i \in keys : i \in 1..Len(l) /\ l[i].flag = "key"
  BY DEF keys
<1> QED BY <1>1, <1>5, <1>6, <1>7

(* What ReadVideo takes is in the list, and what it drops in front of it    *)
(* too.                                                                     *)
LEMMA ReadVideoType ==
  ASSUME NEW l \in Seq(Frame), NEW pos \in Nat, m_llNextKeyTime \in Nat
  PROVE  LET r == ReadVideo(l, pos) IN
         /\ r.key \in Nat /\ r.res \in {"none", "frame", "crash"}
         /\ r.n \in 0..Len(l) /\ (r.res = "frame" => r.n >= 1)
<1> DEFINE key == NextKey(l, pos)
           n == FirstFrom(l, key)
           r == ReadVideo(l, pos)
<1>1. key \in Nat /\ n \in 1..(Len(l) + 1) /\ Len(l) \in Nat
  <2>1. key \in Nat /\ Len(l) \in Nat
    BY NextKeyType
  <2> HIDE DEF key
  <2>2. key \in Int
    BY <2>1
  <2> QED BY <2>1, <2>2, FirstFromType
<1>2. r = IF l = <<>> THEN Result("none", 0, m_llNextKeyTime)
          ELSE IF OnTime(l[1], pos) THEN Result("frame", 1, m_llNextKeyTime)
          ELSE IF key > 0 /\ key > pos THEN Result("frame", 1, key)
          ELSE IF n > Len(l) THEN Result("none", Len(l), 0)
          ELSE IF n > 1 /\ n + Behind(l, n) = Len(l) THEN Result("crash", n, 0)
          ELSE Result("frame", n, 0)
  BY DEF ReadVideo
<1> HIDE DEF key, n, r
<1>3. l # <<>> => Len(l) >= 1
  BY EmptySeq, <1>1
<1>4. \/ r = Result("none", 0, m_llNextKeyTime)
      \/ l # <<>> /\ (r = Result("frame", 1, m_llNextKeyTime) \/ r = Result("frame", 1, key))
      \/ r = Result("none", Len(l), 0)
      \/ n <= Len(l) /\ (r = Result("crash", n, 0) \/ r = Result("frame", n, 0))
  BY <1>1, <1>2
<1> QED BY <1>1, <1>3, <1>4 DEF Result, r

EmptyBuffer == {"free", "used"}

(* All buffers of e are free. *)
AllFree(e) == \A i \in 1..Len(e) : e[i] = "free"

(* e2 is e with free buffers in front. *)
InFront(e, e2) == \E a \in Nat : /\ Len(e2) = Len(e) + a
                                /\ \A i \in 1..Len(e2) : e2[i] = "used" => i - a \in 1..Len(e) /\ e[i - a] = "used"

LEMMA DroppedType ==
  ASSUME NEW e \in Seq(EmptyBuffer), NEW a \in Nat
  PROVE  LET s == Free(a) \o e IN
         /\ s \in Seq(EmptyBuffer) /\ Len(s) = a + Len(e)
         /\ InFront(e, s) /\ (AllFree(e) => AllFree(s))
<1> DEFINE s == Free(a) \o e
<1>1. Free(a) \in Seq(EmptyBuffer) /\ Len(Free(a)) = a /\ \A i \in 1..a : Free(a)[i] = "free"
  BY FreeType DEF EmptyBuffer
<1> HIDE DEF EmptyBuffer
<1>2. /\ s \in Seq(EmptyBuffer) /\ Len(s) = a + Len(e) /\ Len(e) \in Nat
      /\ \A i \in 1..(a + Len(e)) : s[i] = IF i <= a THEN Free(a)[i] ELSE e[i - a]
  <2> DEFINE f == Free(a)
  <2>1. f \in Seq(EmptyBuffer) /\ Len(f) = a
    BY <1>1
  <2> HIDE DEF f
  <2>2. /\ f \o e \in Seq(EmptyBuffer) /\ Len(f \o e) = a + Len(e) /\ Len(e) \in Nat
        /\ \A i \in 1..(a + Len(e)) : (f \o e)[i] = IF i <= a THEN f[i] ELSE e[i - a]
    BY <2>1, ConcatType
  <2> QED BY <2>2 DEF f
<1> HIDE DEF s
<1>3. \A i \in 1..Len(s) : s[i] # "free" => i - a \in 1..Len(e) /\ s[i] = e[i - a]
  <2> TAKE i \in 1..Len(s)
  <2>1. CASE i <= a
    BY <2>1, <1>1, <1>2
  <2>2. CASE i > a
    BY <2>2, <1>2
  <2> QED BY <2>1, <2>2, <1>2
<1>4. InFront(e, s)
  BY <1>2, <1>3 DEF InFront
<1>5. AllFree(e) => AllFree(s)
  BY <1>3 DEF AllFree
<1> QED BY <1>2, <1>4, <1>5 DEF s

LEMMA AroundType ==
  ASSUME NEW e \in Seq(EmptyBuffer), NEW a \in Nat, NEW b \in Nat
  PROVE  LET s == Free(a) \o e \o Free(b) IN
         /\ s \in Seq(EmptyBuffer) /\ Len(s) = a + Len(e) + b
         /\ AllFree(e) => AllFree(s)
<1> DEFINE d == Free(a) \o e
           f == Free(b)
           s == d \o f
<1>1. d \in Seq(EmptyBuffer) /\ Len(d) = a + Len(e) /\ (AllFree(e) => AllFree(d)) /\ Len(e) \in Nat
  <2>1. Len(e) \in Nat
    OBVIOUS
  <2> QED BY <2>1, DroppedType
<1>2. f \in Seq(EmptyBuffer) /\ Len(f) = b /\ \A i \in 1..b : f[i] = "free"
  BY FreeType DEF EmptyBuffer
<1> HIDE DEF d, f
<1>3. /\ s \in Seq(EmptyBuffer) /\ Len(s) = a + Len(e) + b
      /\ \A i \in 1..(a + Len(e) + b) : s[i] = IF i <= Len(d) THEN d[i] ELSE f[i - Len(d)]
  <2>1. /\ s \in Seq(EmptyBuffer) /\ Len(s) = Len(d) + Len(f)
        /\ \A i \in 1..(Len(d) + Len(f)) : s[i] = IF i <= Len(d) THEN d[i] ELSE f[i - Len(d)]
    BY <1>1, <1>2, ConcatType
  <2> QED BY <1>1, <1>2, <2>1
<1> HIDE DEF s
<1>4. AllFree(e) => AllFree(s)
  <2> SUFFICES ASSUME AllFree(e), NEW i \in 1..Len(s) PROVE s[i] = "free"
    BY DEF AllFree
  <2>1. CASE i <= Len(d)
    <3>1. i \in 1..Len(d) /\ s[i] = d[i]
      BY <1>1, <1>3, <2>1
    <3> QED BY <1>1, <3>1 DEF AllFree
  <2>2. CASE i > Len(d)
    <3>1. i - Len(d) \in 1..b /\ s[i] = f[i - Len(d)]
      BY <1>1, <1>3, <2>2
    <3> QED BY <1>2, <3>1
  <2> QED BY <2>1, <2>2, <1>1, <1>3
<1> QED BY <1>3, <1>4 DEF s, d, f

(* What a list of empty buffers becomes when buffers are freed in front.     *)
LEMMA InFrontAll ==
  ASSUME NEW e \in Seq(EmptyBuffer), NEW e2 \in Seq(EmptyBuffer), InFront(e, e2), AllFree(e)
  PROVE  AllFree(e2)
<1>1. \A i \in 1..Len(e2) : e2[i] \in EmptyBuffer
  OBVIOUS
<1> QED BY <1>1 DEF AllFree, InFront, EmptyBuffer

-----------------------------------------------------------------------------
(* What a read takes out of the lists. *)

LEMMA SyncAtType ==
  ASSUME BuffTypeOK
  PROVE  SyncAt \in 1..(Len(m_lst["audio"]) + 1)
<1>1. m_lst["audio"] \in Seq(Frame) /\ m_lst["video"] \in Seq(Frame)
  BY DEF BuffTypeOK, Type
<1>2. Len(m_lst["audio"]) \in Nat /\ Len(m_lst["video"]) \in Nat
  BY <1>1
<1>3. CASE Syncing /\ m_lst["video"] # <<>>
  <2>1. m_lst["video"][1].time \in Int
    <3>1. 1 \in 1..Len(m_lst["video"])
      BY <1>1, <1>2, <1>3, EmptySeq
    <3> QED BY <1>1, <3>1, FrameTimes
  <2>2. FirstFrom(m_lst["audio"], m_lst["video"][1].time) \in 1..(Len(m_lst["audio"]) + 1)
    BY <1>1, <2>1, FirstFromType
  <2> QED BY <1>3, <2>2 DEF SyncAt
<1>4. CASE ~(Syncing /\ m_lst["video"] # <<>>)
  BY <1>2, <1>4 DEF SyncAt
<1> QED BY <1>3, <1>4

(* What is taken out of a list: a result in it, and what follows. *)
Taken(r, l) == IF r.res = "frame" THEN Behind(l, r.n) ELSE 0

LEMMA TakenType ==
  ASSUME NEW l \in Seq(Frame), NEW r, r.n \in 0..Len(l), r.res = "frame" => r.n >= 1
  PROVE  Taken(r, l) \in 0..(Len(l) - r.n) /\ r.n + Taken(r, l) + 1 \in 1..(Len(l) + 1)
<1>1. Len(l) \in Nat
  OBVIOUS
<1>2. CASE r.res = "frame"
  <2>1. r.n \in 1..Len(l)
    BY <1>1, <1>2
  <2> DEFINE n == r.n
             k == Behind(l, n)
  <2>2. k \in 0..(Len(l) - n) /\ n \in 1..Len(l)
    BY <2>1, BehindType
  <2>3. Taken(r, l) = k
    BY <1>2 DEF Taken
  <2> HIDE DEF k
  <2> QED BY <1>1, <2>2, <2>3
<1>3. CASE r.res # "frame"
  BY <1>1, <1>3 DEF Taken
<1> QED BY <1>2, <1>3

(* Buffers on each side of a read, for each type. *)
LEMMA SyncedType ==
  ASSUME BuffTypeOK
  PROVE  LET synced == [m_lst EXCEPT !["audio"] = From(@, SyncAt)]
             empty  == [m_lstEmpty EXCEPT !["audio"] = Dropped(Before(m_lst["audio"], SyncAt), @)]
         IN  /\ synced \in [Type -> Seq(Frame)] /\ empty \in [Type -> Seq(EmptyBuffer)]
             /\ \A x \in Type : /\ Len(synced[x]) + Len(empty[x]) = Len(m_lst[x]) + Len(m_lstEmpty[x])
                                /\ AllFree(m_lstEmpty[x]) => AllFree(empty[x])
                                /\ InFront(m_lstEmpty[x], empty[x])
<1> DEFINE a == m_lst["audio"]
           e == m_lstEmpty["audio"]
           f == From(a, SyncAt)
           d == Dropped(Before(a, SyncAt), e)
           synced == [m_lst EXCEPT !["audio"] = f]
           empty  == [m_lstEmpty EXCEPT !["audio"] = d]
<1>1. /\ m_lst \in [Type -> Seq(Frame)] /\ m_lstEmpty \in [Type -> Seq(EmptyBuffer)]
      /\ a \in Seq(Frame) /\ e \in Seq(EmptyBuffer)
  BY DEF BuffTypeOK, EmptyBuffer, Type
<1>2. SyncAt \in 1..(Len(a) + 1) /\ Len(a) \in Nat /\ Len(e) \in Nat
  BY <1>1, SyncAtType
<1>3. f \in Seq(Frame) /\ Len(f) = Len(a) - SyncAt + 1 /\ Len(Before(a, SyncAt)) = SyncAt - 1
  <2> HIDE DEF a
  <2> QED BY <1>1, <1>2, ListParts
<1>4. /\ d \in Seq(EmptyBuffer) /\ Len(d) = SyncAt - 1 + Len(e)
      /\ InFront(e, d) /\ (AllFree(e) => AllFree(d))
  <2>1. SyncAt - 1 \in Nat /\ d = Free(SyncAt - 1) \o e
    BY <1>2, <1>3 DEF Dropped
  <2> DEFINE n == SyncAt - 1
  <2>2. n \in Nat /\ d = Free(n) \o e
    BY <2>1
  <2> HIDE DEF a, e, d, n
  <2>3. /\ d \in Seq(EmptyBuffer) /\ Len(d) = n + Len(e)
        /\ InFront(e, d) /\ (AllFree(e) => AllFree(d))
    BY <1>1, <2>2, DroppedType
  <2> QED BY <2>3 DEF n
<1> HIDE DEF f, d
<1>5. synced \in [Type -> Seq(Frame)] /\ empty \in [Type -> Seq(EmptyBuffer)]
  BY <1>1, <1>3, <1>4
<1>6. ASSUME NEW x \in Type
      PROVE  /\ Len(synced[x]) + Len(empty[x]) = Len(m_lst[x]) + Len(m_lstEmpty[x])
             /\ AllFree(m_lstEmpty[x]) => AllFree(empty[x])
             /\ InFront(m_lstEmpty[x], empty[x])
  <2>1. CASE x = "audio"
    <3>1. synced[x] = f /\ empty[x] = d
      BY <1>1, <2>1
    <3> HIDE DEF synced, empty
    <3>2. m_lst[x] = a /\ m_lstEmpty[x] = e
      BY <2>1
    <3>3. Len(f) + Len(d) = Len(a) + Len(e)
      <4>1. SyncAt \in Nat
        BY <1>2
      <4> HIDE DEF a, e
      <4> QED BY <1>2, <1>3, <1>4, <4>1
    <3> QED BY <1>4, <3>1, <3>2, <3>3
  <2>2. CASE x # "audio"
    <3>1. synced[x] = m_lst[x] /\ empty[x] = m_lstEmpty[x] /\ Len(m_lstEmpty[x]) \in Nat
      BY <1>1, <2>2
    <3> HIDE DEF synced, empty
    <3>2. InFront(m_lstEmpty[x], m_lstEmpty[x])
      <4>1. \A i \in 1..Len(m_lstEmpty[x]) : i - 0 = i
        BY <3>1
      <4>2. Len(m_lstEmpty[x]) = Len(m_lstEmpty[x]) + 0
        BY <3>1
      <4> QED BY <4>1, <4>2 DEF InFront
    <3> QED BY <3>1, <3>2
  <2> QED BY <2>1, <2>2
<1> QED BY <1>5, <1>6 DEF f, d

(* What Read takes out of a list and frees. *)
LEMMA TakeType ==
  ASSUME NEW l \in Seq(Frame), NEW e \in Seq(EmptyBuffer),
         NEW r, r.n \in 0..Len(l), r.res = "frame" => r.n >= 1
  PROVE  LET late == IF r.res = "frame" THEN r.n - 1 ELSE r.n
             l2   == From(l, r.n + Taken(r, l) + 1)
             e2   == Free(late) \o e \o Free(Taken(r, l))
         IN  /\ l2 \in Seq(Frame) /\ e2 \in Seq(EmptyBuffer)
             /\ Len(l2) + Len(e2) + (IF r.res = "frame" THEN 1 ELSE 0) = Len(l) + Len(e)
             /\ AllFree(e) => AllFree(e2)
<1> DEFINE late == IF r.res = "frame" THEN r.n - 1 ELSE r.n
           k  == Taken(r, l)
           i  == r.n + k + 1
           l2 == From(l, i)
           e2 == Free(late) \o e \o Free(k)
<1>1. k \in 0..(Len(l) - r.n) /\ i \in 1..(Len(l) + 1)
  BY TakenType
<1>2. Len(l) \in Nat /\ Len(e) \in Nat /\ late \in Nat
  OBVIOUS
<1>3. k \in Nat
  <2> HIDE DEF k
  <2> QED BY <1>1, <1>2
<1>4. i = r.n + k + 1
  OBVIOUS
<1>5. late = IF r.res = "frame" THEN r.n - 1 ELSE r.n
  OBVIOUS
<1> HIDE DEF late, k, i
<1>6. l2 \in Seq(Frame) /\ Len(l2) = Len(l) - i + 1
  BY <1>1, ListParts
<1>7. e2 \in Seq(EmptyBuffer) /\ Len(e2) = late + Len(e) + k /\ (AllFree(e) => AllFree(e2))
  BY <1>2, <1>3, AroundType
<1> HIDE DEF l2, e2
<1>8. Len(l2) + Len(e2) + (IF r.res = "frame" THEN 1 ELSE 0) = Len(l) + Len(e)
  <2>1. /\ Len(l2) = Len(l) - i + 1 /\ Len(e2) = late + Len(e) + k
        /\ r.n \in 0..Len(l) /\ i \in 1..(Len(l) + 1)
    BY <1>1, <1>6, <1>7
  <2> DEFINE n == r.n
  <2>2. n \in Int /\ Len(l) \in Int /\ Len(e) \in Int /\ k \in Int
    BY <1>2, <1>3
  <2>3. CASE r.res = "frame"
    <3>1. late = n - 1 /\ i = n + k + 1
      BY <1>4, <1>5, <2>3
    <3> HIDE DEF n
    <3>2. Len(l2) + Len(e2) + 1 = Len(l) + Len(e)
      BY <2>1, <2>2, <3>1
    <3> QED BY <2>3, <3>2
  <2>4. CASE r.res # "frame"
    <3>1. late = n /\ i = n + k + 1
      BY <1>4, <1>5, <2>4
    <3> HIDE DEF n
    <3>2. Len(l2) + Len(e2) + 0 = Len(l) + Len(e)
      BY <2>1, <2>2, <3>1
    <3> QED BY <2>4, <3>2
  <2> QED BY <2>3, <2>4
<1> QED BY <1>6, <1>7, <1>8 DEF l2, e2, late, i, k

LEMMA ReadResultType ==
  ASSUME BuffTypeOK, NEW t \in Type, NEW pos \in Nat
  PROVE  LET r == ReadResult(t, pos) IN
         /\ r.rc \in {"frame", "retry", "finish", "crash"} /\ r.f \in Frame /\ r.key \in Nat
         /\ r.lst \in [Type -> Seq(Frame)] /\ r.empty \in [Type -> Seq(EmptyBuffer)]
         /\ r.rc = "finish" => m_bEOS
         /\ \A x \in Type :
              /\ Len(r.lst[x]) + Len(r.empty[x]) + (IF r.rc = "frame" /\ x = t THEN 1 ELSE 0)
                   = Len(m_lst[x]) + Len(m_lstEmpty[x])
              /\ AllFree(m_lstEmpty[x]) => AllFree(r.empty[x])
              /\ x # t => InFront(m_lstEmpty[x], r.empty[x])
<1> DEFINE R == ReadResult(t, pos)
<1>0. /\ m_lst \in [Type -> Seq(Frame)] /\ m_lstEmpty \in [Type -> Seq(EmptyBuffer)]
      /\ m_llNextKeyTime \in Nat /\ Null \in Frame
  BY DEF BuffTypeOK, EmptyBuffer, Null, Frame, Flag
<1>1. CASE SyncWaits
  <2>1. R = [rc |-> "retry", f |-> Null, lst |-> m_lst, empty |-> m_lstEmpty,
             key |-> m_llNextKeyTime]
    BY <1>1 DEF ReadResult
  <2> HIDE DEF R
  <2>2. ASSUME NEW x \in Type PROVE InFront(m_lstEmpty[x], m_lstEmpty[x])
                                    /\ Len(m_lst[x]) \in Nat /\ Len(m_lstEmpty[x]) \in Nat
    <3>1. Len(m_lstEmpty[x]) \in Nat /\ Len(m_lst[x]) \in Nat
      BY <1>0
    <3>2. \A i \in 1..Len(m_lstEmpty[x]) : i - 0 = i
      BY <3>1
    <3>3. Len(m_lstEmpty[x]) = Len(m_lstEmpty[x]) + 0
      BY <3>1
    <3> QED BY <3>1, <3>2, <3>3 DEF InFront
  <2>3. R.rc = "retry" /\ R.f = Null /\ R.lst = m_lst /\ R.empty = m_lstEmpty /\ R.key = m_llNextKeyTime
    BY <2>1
  <2> QED BY <1>0, <2>2, <2>3 DEF R
<1>2. CASE ~SyncWaits
  <2> DEFINE synced == [m_lst EXCEPT !["audio"] = From(@, SyncAt)]
             empty  == [m_lstEmpty EXCEPT !["audio"] = Dropped(Before(m_lst["audio"], SyncAt), @)]
             l == synced[t]
             e == empty[t]
             r == IF l = <<>> \/ (Syncing /\ synced["audio"] = <<>>)
                  THEN Result("none", 0, m_llNextKeyTime)
                  ELSE IF t = "video" THEN ReadVideo(l, pos)
                  ELSE Result("frame", 1, m_llNextKeyTime)
             k == Taken(r, l)
             late == IF r.res = "frame" THEN r.n - 1 ELSE r.n
             l2 == From(l, r.n + k + 1)
             e2 == Free(late) \o e \o Free(k)
  <2>1. /\ synced \in [Type -> Seq(Frame)] /\ empty \in [Type -> Seq(EmptyBuffer)]
        /\ \A x \in Type : /\ Len(synced[x]) + Len(empty[x]) = Len(m_lst[x]) + Len(m_lstEmpty[x])
                           /\ AllFree(m_lstEmpty[x]) => AllFree(empty[x])
                           /\ InFront(m_lstEmpty[x], empty[x])
    BY SyncedType
  <2>2. R = [rc |-> IF r.res # "none" THEN r.res
                    ELSE IF m_bEOS /\ r.n = Len(l) THEN "finish" ELSE "retry",
             f |-> IF r.res = "frame" THEN l[r.n] ELSE Null,
             lst |-> [synced EXCEPT ![t] = From(@, r.n + k + 1)],
             empty |-> [empty EXCEPT ![t] = Free(late) \o @ \o Free(k)],
             key |-> r.key]
    BY <1>2 DEF ReadResult, Taken
  <2> HIDE DEF synced, empty, R
  <2>3. l \in Seq(Frame) /\ e \in Seq(EmptyBuffer) /\ Len(l) \in Nat
    BY <2>1
  <2>4. /\ r.key \in Nat /\ r.res \in {"none", "frame", "crash"}
        /\ r.n \in 0..Len(l) /\ (r.res = "frame" => r.n >= 1)
    <3>1. CASE l = <<>> \/ (Syncing /\ synced["audio"] = <<>>)
      <4>1. r = Result("none", 0, m_llNextKeyTime)
        BY <3>1
      <4> HIDE DEF r
      <4> QED BY <1>0, <2>3, <4>1 DEF Result
    <3>2. CASE l # <<>> /\ ~(Syncing /\ synced["audio"] = <<>>) /\ t = "video"
      <4>1. r = ReadVideo(l, pos)
        BY <3>2
      <4> HIDE DEF r, l
      <4> QED BY <1>0, <2>3, <4>1, ReadVideoType
    <3>3. CASE l # <<>> /\ ~(Syncing /\ synced["audio"] = <<>>) /\ t # "video"
      <4>1. r = Result("frame", 1, m_llNextKeyTime)
        BY <3>3
      <4> HIDE DEF r, l
      <4>2. Len(l) >= 1
        BY <2>3, <3>3, EmptySeq
      <4> QED BY <1>0, <2>3, <4>1, <4>2 DEF Result
    <3> QED BY <3>1, <3>2, <3>3
  <2>5. l = synced[t] /\ e = empty[t]
    OBVIOUS
  <2> HIDE DEF l, e, r
  <2>6. /\ l2 \in Seq(Frame) /\ e2 \in Seq(EmptyBuffer)
        /\ Len(l2) + Len(e2) + (IF r.res = "frame" THEN 1 ELSE 0) = Len(l) + Len(e)
        /\ AllFree(e) => AllFree(e2)
    BY <2>3, <2>4, TakeType
  <2>7. /\ R.rc = (IF r.res # "none" THEN r.res
                   ELSE IF m_bEOS /\ r.n = Len(l) THEN "finish" ELSE "retry")
        /\ R.f = (IF r.res = "frame" THEN l[r.n] ELSE Null)
        /\ R.lst = [synced EXCEPT ![t] = l2] /\ R.empty = [empty EXCEPT ![t] = e2]
        /\ R.key = r.key
    BY <2>2, <2>5
  <2> HIDE DEF l2, e2, k, late
  <2>8. /\ R.rc \in {"frame", "retry", "finish", "crash"} /\ R.f \in Frame /\ R.key \in Nat
        /\ (R.rc = "finish" => m_bEOS) /\ (R.rc = "frame" <=> r.res = "frame")
    <3>1. r.res = "frame" => l[r.n] \in Frame
      BY <2>3, <2>4
    <3> QED BY <1>0, <2>4, <2>7, <3>1
  <2>9. R.lst \in [Type -> Seq(Frame)] /\ R.empty \in [Type -> Seq(EmptyBuffer)]
    BY <2>1, <2>6, <2>7
  <2>10. ASSUME NEW x \in Type
         PROVE  /\ Len(R.lst[x]) + Len(R.empty[x]) + (IF R.rc = "frame" /\ x = t THEN 1 ELSE 0)
                     = Len(m_lst[x]) + Len(m_lstEmpty[x])
                /\ AllFree(m_lstEmpty[x]) => AllFree(R.empty[x])
                /\ x # t => InFront(m_lstEmpty[x], R.empty[x])
    <3>1. CASE x = t
      <4>1. R.lst[x] = l2 /\ R.empty[x] = e2
        BY <2>1, <2>7, <3>1
      <4> QED BY <2>1, <2>5, <2>6, <2>8, <3>1, <4>1
    <3>2. CASE x # t
      <4>1. R.lst[x] = synced[x] /\ R.empty[x] = empty[x]
        BY <2>1, <2>7, <3>2
      <4>2. Len(synced[x]) \in Nat /\ Len(empty[x]) \in Nat
        BY <2>1
      <4>3. Len(R.lst[x]) + Len(R.empty[x]) + 0 = Len(m_lst[x]) + Len(m_lstEmpty[x])
        <5>1. Len(synced[x]) + Len(empty[x]) = Len(m_lst[x]) + Len(m_lstEmpty[x])
          BY <2>1
        <5>2. Len(synced[x]) + Len(empty[x]) + 0 = Len(synced[x]) + Len(empty[x])
          BY <4>2
        <5> QED BY <4>1, <5>1, <5>2
      <4> QED BY <2>1, <3>2, <4>1, <4>3
    <3> QED BY <3>1, <3>2
  <2> QED BY <2>8, <2>9, <2>10 DEF R
<1> QED BY <1>1, <1>2

-----------------------------------------------------------------------------
(* The other operations on the lists. *)

(* When k reads of the parser have failed since a frame was delivered, a    *)
(* buffer that a decoder uses is at most k places from the end.              *)
UsedAtEnd(e, k) ==
  \A i \in 1..Len(e) : e[i] = "used" /\ k < nKeepFrames => i >= Len(e) - k

LEMMA FreeIsKept ==
  ASSUME NEW e \in Seq(EmptyBuffer), AllFree(e), NEW k
  PROVE  UsedAtEnd(e, k)
BY DEF AllFree, UsedAtEnd

LEMMA InFrontKept ==
  ASSUME NEW e \in Seq(EmptyBuffer), NEW e2 \in Seq(EmptyBuffer), InFront(e, e2),
         NEW k \in Nat, UsedAtEnd(e, k)
  PROVE  UsedAtEnd(e2, k)
<1>1. Len(e) \in Nat /\ Len(e2) \in Nat
  OBVIOUS
<1>2. PICK a \in Nat : /\ Len(e2) = Len(e) + a
                       /\ \A i \in 1..Len(e2) : e2[i] = "used" => i - a \in 1..Len(e) /\ e[i - a] = "used"
  BY DEF InFront
<1> SUFFICES ASSUME NEW i \in 1..Len(e2), e2[i] = "used", k < nKeepFrames
             PROVE  i >= Len(e2) - k
  BY DEF UsedAtEnd
<1>3. i - a \in 1..Len(e) /\ e[i - a] = "used"
  BY <1>2
<1>4. i - a >= Len(e) - k
  BY <1>3 DEF UsedAtEnd
<1> QED BY <1>1, <1>2, <1>4

LEMMA SameInFront ==
  ASSUME NEW e \in Seq(EmptyBuffer)
  PROVE  InFront(e, e)
<1>1. Len(e) \in Nat
  OBVIOUS
<1>2. Len(e) = Len(e) + 0 /\ \A i \in 1..Len(e) : i - 0 = i
  BY <1>1
<1> QED BY <1>2 DEF InFront

LEMMA AppendEmpty ==
  ASSUME NEW e \in Seq(EmptyBuffer), NEW b \in EmptyBuffer
  PROVE  LET s == Append(e, b) IN
         /\ s \in Seq(EmptyBuffer) /\ Len(s) = Len(e) + 1 /\ Len(e) \in Nat
         /\ \A i \in 1..Len(e) : s[i] = e[i]
         /\ s[Len(e) + 1] = b
BY AppendProperties

LEMMA ReturnUsed ==
  ASSUME NEW e \in Seq(EmptyBuffer), AllFree(e)
  PROVE  UsedAtEnd(Append(e, "used"), 0)
<1> DEFINE s == Append(e, "used")
<1>1. s \in Seq(EmptyBuffer) /\ Len(s) = Len(e) + 1 /\ Len(e) \in Nat /\ \A i \in 1..Len(e) : s[i] = e[i]
  BY AppendEmpty DEF EmptyBuffer
<1> HIDE DEF s
<1>2. ASSUME NEW i \in 1..Len(s), s[i] = "used" PROVE i >= Len(s) - 0
  <2>1. i \notin 1..Len(e)
    BY <1>1, <1>2 DEF AllFree
  <2> QED BY <1>1, <2>1
<1> QED BY <1>2 DEF UsedAtEnd, s

LEMMA ReturnFree ==
  ASSUME NEW e \in Seq(EmptyBuffer), NEW k \in Nat, UsedAtEnd(e, k)
  PROVE  /\ UsedAtEnd(Append(e, "free"), IF k < nKeepFrames THEN k + 1 ELSE k)
         /\ AllFree(e) => AllFree(Append(e, "free"))
<1> DEFINE s == Append(e, "free")
           k2 == IF k < nKeepFrames THEN k + 1 ELSE k
<1>1. /\ s \in Seq(EmptyBuffer) /\ Len(s) = Len(e) + 1 /\ Len(e) \in Nat
      /\ \A i \in 1..Len(e) : s[i] = e[i]
      /\ s[Len(e) + 1] = "free"
  BY AppendEmpty DEF EmptyBuffer
<1> HIDE DEF s
<1>2. ASSUME NEW i \in 1..Len(s), s[i] = "used", k2 < nKeepFrames PROVE i >= Len(s) - k2
  <2>1. i \in 1..Len(e) /\ e[i] = "used"
    BY <1>1, <1>2
  <2>2. k < nKeepFrames /\ k2 = k + 1
    BY <1>2, KeepAssumption
  <2>3. i >= Len(e) - k
    BY <2>1, <2>2 DEF UsedAtEnd
  <2> QED BY <1>1, <2>2, <2>3
<1>3. AllFree(e) => AllFree(s)
  <2> SUFFICES ASSUME AllFree(e), NEW i \in 1..Len(s) PROVE s[i] = "free"
    BY DEF AllFree
  <2>1. i \in 1..Len(e) \/ i = Len(e) + 1
    BY <1>1
  <2> QED BY <1>1, <2>1 DEF AllFree
<1> HIDE DEF k2
<1>4. UsedAtEnd(s, k2)
  BY <1>2 DEF UsedAtEnd
<1> QED BY <1>3, <1>4 DEF s, k2

(* An empty buffer taken out, of those GetEmpty may take. *)
LEMMA TakeEmpty ==
  ASSUME NEW e \in Seq(EmptyBuffer), ~MustCreate(Len(e)), NEW i \in Reusable(Len(e))
  PROVE  /\ RemoveAt(e, i) \in Seq(EmptyBuffer) /\ Len(RemoveAt(e, i)) = Len(e) - 1
         /\ AllFree(e) => AllFree(RemoveAt(e, i))
         /\ \A k \in Nat : UsedAtEnd(e, k) =>
              /\ UsedAtEnd(RemoveAt(e, i), k)
              /\ k < nKeepFrames => e[i] # "used"
<1>1. Len(e) \in Nat /\ nKeepFrames \in Nat /\ Len(e) > nKeepFrames
  BY KeepAssumption DEF MustCreate
<1>2. i \in 1..Len(e) /\ (i = 1 \/ i <= Len(e) - nKeepFrames - 1)
  BY <1>1 DEF Reusable
<1> DEFINE s == RemoveAt(e, i)
<1>3. /\ s \in Seq(EmptyBuffer) /\ Len(s) = Len(e) - 1
      /\ \A j \in 1..(Len(e) - 1) : s[j] = IF j < i THEN e[j] ELSE e[j + 1]
  BY <1>2, RemoveAtProperties
<1> HIDE DEF s
<1>4. AllFree(e) => AllFree(s)
  <2> SUFFICES ASSUME AllFree(e), NEW j \in 1..(Len(e) - 1) PROVE s[j] = "free"
    BY <1>3 DEF AllFree
  <2>1. j \in 1..Len(e) /\ j + 1 \in 1..Len(e)
    BY <1>1
  <2> QED BY <1>3, <2>1 DEF AllFree
<1>5. ASSUME NEW k \in Nat, UsedAtEnd(e, k), k < nKeepFrames
      PROVE  /\ e[i] # "used"
             /\ \A j \in 1..Len(s) : s[j] = "used" => j >= Len(s) - k
  <2>1. \A j \in 1..Len(e) : e[j] = "used" => j >= Len(e) - k
    BY <1>5 DEF UsedAtEnd
  <2>2. Len(e) - k >= 2 /\ i < Len(e) - k
    BY <1>1, <1>2, <1>5
  <2>3. e[i] # "used"
    BY <1>1, <1>2, <2>1, <2>2
  <2>4. ASSUME NEW j \in 1..Len(s), s[j] = "used" PROVE j >= Len(s) - k
    <3>1. j \in 1..(Len(e) - 1) /\ j \in 1..Len(e) /\ j + 1 \in 1..Len(e)
      BY <1>1, <1>3
    <3>2. CASE j < i
      <4>1. j >= Len(e) - k
        BY <1>3, <2>1, <2>4, <3>1, <3>2
      <4> QED BY <1>1, <1>3, <3>1, <4>1
    <3>3. CASE ~(j < i)
      <4>1. j + 1 >= Len(e) - k
        BY <1>3, <2>1, <2>4, <3>1, <3>3
      <4> QED BY <1>1, <1>3, <3>1, <4>1
    <3> QED BY <3>2, <3>3
  <2> QED BY <2>3, <2>4
<1>6. \A k \in Nat : UsedAtEnd(e, k) => UsedAtEnd(s, k) /\ (k < nKeepFrames => e[i] # "used")
  BY <1>5 DEF UsedAtEnd
<1> QED BY <1>3, <1>4, <1>6 DEF s

LEMMA GetEmptyType ==
  ASSUME BuffTypeOK, NEW t \in Type, NEW b, GetEmpty(t, b)
  PROVE  /\ m_lstEmpty' \in [Type -> Seq(EmptyBuffer)] /\ m_nNewEmptyNum' \in [Type -> Nat]
         /\ m_nNewEmptyNum'[t] - Len(m_lstEmpty'[t]) = m_nNewEmptyNum[t] - Len(m_lstEmpty[t]) + 1
         /\ AllFree(m_lstEmpty[t]) => AllFree(m_lstEmpty'[t])
         /\ \A k \in Nat : UsedAtEnd(m_lstEmpty[t], k) =>
              /\ UsedAtEnd(m_lstEmpty'[t], k)
              /\ k < nKeepFrames => b # "used"
         /\ \A x \in Type : x # t => /\ m_lstEmpty'[x] = m_lstEmpty[x]
                                     /\ m_nNewEmptyNum'[x] = m_nNewEmptyNum[x]
<1> DEFINE e == m_lstEmpty[t]
<1>1. /\ m_lstEmpty \in [Type -> Seq(EmptyBuffer)] /\ m_nNewEmptyNum \in [Type -> Nat]
      /\ e \in Seq(EmptyBuffer) /\ Len(e) \in Nat /\ m_nNewEmptyNum[t] \in Nat
  BY DEF BuffTypeOK, EmptyBuffer
<1>2. CASE MustCreate(Len(e))
  <2>1. /\ b = "free" /\ m_lstEmpty' = m_lstEmpty
        /\ m_nNewEmptyNum' = [m_nNewEmptyNum EXCEPT ![t] = @ + 1]
    BY <1>2 DEF GetEmpty
  <2>2. m_nNewEmptyNum' \in [Type -> Nat] /\ m_nNewEmptyNum'[t] = m_nNewEmptyNum[t] + 1
    BY <1>1, <2>1
  <2>3. m_nNewEmptyNum'[t] - Len(m_lstEmpty'[t]) = m_nNewEmptyNum[t] - Len(m_lstEmpty[t]) + 1
    BY <1>1, <2>1, <2>2
  <2>4. \A x \in Type : x # t => m_nNewEmptyNum'[x] = m_nNewEmptyNum[x]
    BY <1>1, <2>1
  <2> QED BY <1>1, <2>1, <2>2, <2>3, <2>4
<1>3. CASE ~MustCreate(Len(e))
  <2>1. PICK i \in Reusable(Len(e)) :
          /\ b = e[i] /\ m_lstEmpty' = [m_lstEmpty EXCEPT ![t] = RemoveAt(@, i)]
          /\ m_nNewEmptyNum' = m_nNewEmptyNum
    BY <1>3 DEF GetEmpty
  <2> DEFINE s == RemoveAt(e, i)
  <2>2. /\ s \in Seq(EmptyBuffer) /\ Len(s) = Len(e) - 1
        /\ AllFree(e) => AllFree(s)
        /\ \A k \in Nat : UsedAtEnd(e, k) => UsedAtEnd(s, k) /\ (k < nKeepFrames => e[i] # "used")
    <3> HIDE DEF e
    <3> QED BY <1>1, <1>3, TakeEmpty
  <2>3. m_lstEmpty' = [m_lstEmpty EXCEPT ![t] = s]
    BY <2>1
  <2> HIDE DEF s
  <2>4. /\ m_lstEmpty' \in [Type -> Seq(EmptyBuffer)] /\ m_lstEmpty'[t] = s
        /\ \A x \in Type : x # t => m_lstEmpty'[x] = m_lstEmpty[x]
    BY <1>1, <2>2, <2>3
  <2>5. m_nNewEmptyNum'[t] - Len(m_lstEmpty'[t]) = m_nNewEmptyNum[t] - Len(m_lstEmpty[t]) + 1
    <3>1. Len(m_lstEmpty'[t]) = Len(e) - 1 /\ m_nNewEmptyNum'[t] = m_nNewEmptyNum[t]
      BY <2>1, <2>2, <2>4
    <3> QED BY <1>1, <3>1
  <2> QED BY <1>1, <2>1, <2>2, <2>4, <2>5
<1> QED BY <1>2, <1>3

LEMMA RetimedType ==
  ASSUME NEW l \in Seq(Frame), NEW f \in Frame
  PROVE  Retimed(l, f) \in Seq(Frame) /\ Len(Retimed(l, f)) = Len(l)
<1>1. Len(l) \in Nat
  OBVIOUS
<1>2. CASE l = <<>>
  BY <1>2 DEF Retimed
<1>3. CASE l # <<>>
  <2>1. Len(l) \in 1..Len(l) /\ l[Len(l)] \in Frame /\ f.time \in Nat
    <3>1. Len(l) \in 1..Len(l)
      BY <1>1, <1>3, EmptySeq
    <3>2. l[Len(l)] \in Frame
      BY <3>1
    <3>3. f.time \in Nat
      BY DEF Frame
    <3> QED BY <3>1, <3>2, <3>3
  <2>2. [l[Len(l)] EXCEPT !.time = f.time] \in Frame
    BY <2>1 DEF Frame
  <2>3. Retimed(l, f) = [l EXCEPT ![Len(l)] = [l[Len(l)] EXCEPT !.time = f.time]]
        \/ Retimed(l, f) = l
    BY DEF Retimed
  <2> DEFINE g == [l[Len(l)] EXCEPT !.time = f.time]
  <2> HIDE DEF g
  <2>4. [l EXCEPT ![Len(l)] = g] \in Seq(Frame) /\ Len([l EXCEPT ![Len(l)] = g]) = Len(l)
    BY <2>1, <2>2, ExceptSeq DEF g
  <2> QED BY <2>3, <2>4 DEF g
<1> QED BY <1>2, <1>3

LEMMA SendType ==
  ASSUME BuffTypeOK, NEW t \in Type, NEW f \in Frame, Send(t, f)
  PROVE  /\ BuffTypeOK' /\ m_bEOS' = m_bEOS /\ m_nNewEmptyNum' = m_nNewEmptyNum
         /\ \A x \in Type :
              /\ Len(m_lst'[x]) + Len(m_lstEmpty'[x])
                   = Len(m_lst[x]) + Len(m_lstEmpty[x]) + (IF x = t THEN 1 ELSE 0)
              /\ InFront(m_lstEmpty[x], m_lstEmpty'[x])
<1> DEFINE l == m_lst[t]
           e == m_lstEmpty[t]
<1>1. /\ m_lst \in [Type -> Seq(Frame)] /\ m_lstEmpty \in [Type -> Seq(EmptyBuffer)]
      /\ l \in Seq(Frame) /\ Len(l) \in Nat /\ e \in Seq(EmptyBuffer) /\ Len(e) \in Nat
  BY DEF BuffTypeOK, EmptyBuffer
<1>2. m_nNewEmptyNum' = m_nNewEmptyNum /\ m_bBuffEO' = m_bBuffEO /\ m_bEOS' = m_bEOS
      /\ m_llNextKeyTime' = m_llNextKeyTime /\ bNumRead' = bNumRead
  BY DEF Send
<1>3. ASSUME NEW x \in Type
      PROVE  InFront(m_lstEmpty[x], m_lstEmpty[x]) /\ Len(m_lst[x]) \in Nat /\ Len(m_lstEmpty[x]) \in Nat
  BY <1>1, SameInFront
<1>4. CASE Skipped(t, f)
  <2> DEFINE e2 == Free(1) \o e
  <2>1. /\ m_lst' = m_lst /\ m_llSeekPos' = m_llSeekPos /\ bStarted' = bStarted /\ m_bFlush' = m_bFlush
        /\ m_lstEmpty' = [m_lstEmpty EXCEPT ![t] = e2]
    <3>1. Len(<<f>>) = 1
      OBVIOUS
    <3> QED BY <1>4, <3>1 DEF Send, Dropped
  <2>2. e2 \in Seq(EmptyBuffer) /\ Len(e2) = 1 + Len(e) /\ InFront(e, e2)
    <3> HIDE DEF e
    <3> QED BY <1>1, DroppedType
  <2> HIDE DEF e2
  <2>3. /\ m_lstEmpty' \in [Type -> Seq(EmptyBuffer)] /\ m_lstEmpty'[t] = e2
        /\ \A x \in Type : x # t => m_lstEmpty'[x] = m_lstEmpty[x]
    BY <1>1, <2>1, <2>2
  <2>4. BuffTypeOK'
    BY <1>2, <2>1, <2>3 DEF BuffTypeOK, EmptyBuffer
  <2>5. ASSUME NEW x \in Type
        PROVE  /\ Len(m_lst'[x]) + Len(m_lstEmpty'[x])
                    = Len(m_lst[x]) + Len(m_lstEmpty[x]) + (IF x = t THEN 1 ELSE 0)
               /\ InFront(m_lstEmpty[x], m_lstEmpty'[x])
    <3>1. CASE x = t
      <4>1. Len(m_lst'[x]) = Len(l) /\ Len(m_lstEmpty'[x]) = 1 + Len(e)
        BY <2>1, <2>2, <2>3, <3>1
      <4>2. Len(m_lst'[x]) + Len(m_lstEmpty'[x]) = Len(l) + Len(e) + 1
        BY <1>1, <4>1
      <4> QED BY <2>2, <2>3, <3>1, <4>2
    <3>2. CASE x # t
      BY <1>3, <2>1, <2>3, <3>2
    <3> QED BY <3>1, <3>2
  <2> QED BY <1>2, <2>4, <2>5
<1>5. CASE ~Skipped(t, f)
  <2> DEFINE l2 == Append(Retimed(l, f), f)
  <2>1. /\ m_lstEmpty' = m_lstEmpty /\ m_lst' = [m_lst EXCEPT ![t] = l2]
        /\ m_bFlush' = (m_bFlush /\ ~(t = "video" /\ f.flag = "key"))
        /\ bStarted' = (bStarted \/ f.flag # "head")
        /\ (m_llSeekPos' = m_llSeekPos \/ m_llSeekPos' = f.time)
    BY <1>5 DEF Send
  <2>2. l2 \in Seq(Frame) /\ Len(l2) = Len(l) + 1
    <3> DEFINE r == Retimed(l, f)
    <3>1. r \in Seq(Frame) /\ Len(r) = Len(l)
      <4> HIDE DEF l
      <4> QED BY <1>1, RetimedType
    <3> HIDE DEF r
    <3>2. Append(r, f) \in Seq(Frame) /\ Len(Append(r, f)) = Len(r) + 1
      BY <3>1, AppendProperties
    <3> QED BY <3>1, <3>2 DEF r
  <2> HIDE DEF l2
  <2>3. /\ m_lst' \in [Type -> Seq(Frame)] /\ m_lst'[t] = l2
        /\ \A x \in Type : x # t => m_lst'[x] = m_lst[x]
    BY <1>1, <2>1, <2>2
  <2>4. f.time \in Nat
    BY DEF Frame
  <2>5. BuffTypeOK'
    BY <1>2, <2>1, <2>3, <2>4 DEF BuffTypeOK
  <2>6. ASSUME NEW x \in Type
        PROVE  /\ Len(m_lst'[x]) + Len(m_lstEmpty'[x])
                    = Len(m_lst[x]) + Len(m_lstEmpty[x]) + (IF x = t THEN 1 ELSE 0)
               /\ InFront(m_lstEmpty[x], m_lstEmpty'[x])
    <3>1. CASE x = t
      <4>1. Len(m_lst'[x]) = Len(l) + 1 /\ Len(m_lstEmpty'[x]) = Len(e)
        BY <2>1, <2>2, <2>3, <3>1
      <4>2. Len(m_lst'[x]) + Len(m_lstEmpty'[x]) = Len(l) + Len(e) + 1
        BY <1>1, <4>1
      <4> QED BY <1>3, <2>1, <3>1, <4>2
    <3>2. CASE x # t
      BY <1>3, <2>1, <2>3, <3>2
    <3> QED BY <3>1, <3>2
  <2> QED BY <1>2, <2>5, <2>6
<1> QED BY <1>4, <1>5

LEMMA KeptType ==
  ASSUME NEW l \in Seq(Frame), NEW i \in 1..(Len(l) + 1)
  PROVE  /\ Kept(l, i) \in Seq(Frame) /\ Discarded(l, i) \in Nat
         /\ Len(Kept(l, i)) + Discarded(l, i) = Len(l)
<1> DEFINE heads == {j \in 1..(i - 1) : l[j].flag = "head"}
           f == From(l, i)
           h == LastOf(heads)
<1>1. Len(l) \in Nat /\ f \in Seq(Frame) /\ Len(f) = Len(l) - i + 1
  <2>1. Len(l) \in Nat
    OBVIOUS
  <2> QED BY <2>1, ListParts
<1>2. Kept(l, i) = IF heads = {} THEN f ELSE <<l[h]>> \o f
  BY DEF Kept
<1>3. heads # {} => h \in 1..Len(l) /\ i >= 2
  <2>1. i - 1 \in Nat /\ heads \subseteq 0..(i - 1) /\ heads \subseteq 1..(i - 1)
    BY <1>1
  <2>2. heads # {} => h \in heads
    <3> HIDE DEF heads
    <3>1. \A n \in Nat : heads \subseteq 0..n /\ heads # {} => LastOf(heads) \in heads
      BY LastOfPositions
    <3> QED BY <2>1, <3>1 DEF h
  <2> HIDE DEF heads, h, f
  <2>3. ASSUME heads # {} PROVE h \in 1..(i - 1)
    BY <2>1, <2>2, <2>3
  <2>4. Len(l) \in Nat /\ i \in 1..(Len(l) + 1)
    BY <1>1
  <2> QED BY <2>3, <2>4
<1> HIDE DEF heads, h, f
<1>4. Kept(l, i) \in Seq(Frame) /\ Len(Kept(l, i)) <= Len(l) /\ Len(Kept(l, i)) \in Nat
  <2>1. CASE heads = {}
    <3>1. Kept(l, i) = f
      BY <1>2, <2>1
    <3> QED BY <1>1, <3>1
  <2>2. CASE heads # {}
    <3> DEFINE a == <<l[h]>>
    <3>1. a \in Seq(Frame) /\ Len(a) = 1
      <4>1. l[h] \in Frame
        BY <1>3, <2>2
      <4> QED BY <4>1
    <3> HIDE DEF a
    <3>2. a \o f \in Seq(Frame) /\ Len(a \o f) = Len(a) + Len(f)
      BY <1>1, <3>1, ConcatType
    <3>3. Kept(l, i) = a \o f
      BY <1>2, <2>2 DEF a
    <3>4. Len(Kept(l, i)) = 1 + (Len(l) - i + 1) /\ i >= 2 /\ i \in 1..(Len(l) + 1)
      BY <1>1, <1>3, <2>2, <3>1, <3>2, <3>3
    <3> QED BY <1>1, <3>2, <3>3, <3>4
  <2> QED BY <2>1, <2>2
<1>5. Discarded(l, i) = Len(l) - Len(Kept(l, i))
  BY DEF Discarded
<1> QED BY <1>1, <1>4, <1>5

LEMMA SeekKeyType ==
  ASSUME NEW l \in Seq(Frame), NEW pos \in Nat, SeekKey(l, pos) # 0
  PROVE  SeekKey(l, pos) \in 1..Len(l) /\ l[SeekKey(l, pos)].flag = "key"
<1> DEFINE at == FirstFrom(l, pos)
           keys == {i \in 1..at : i <= Len(l) /\ l[i].flag = "key"}
<1>1. Len(l) \in Nat /\ at \in 1..(Len(l) + 1) /\ at \in Nat
  <2>1. Len(l) \in Nat /\ pos \in Int
    OBVIOUS
  <2>2. at \in 1..(Len(l) + 1)
    BY <2>1, FirstFromType
  <2> HIDE DEF at
  <2> QED BY <2>1, <2>2
<1>2. SeekKey(l, pos) = LastOf(keys) /\ keys # {}
  BY DEF SeekKey
<1> HIDE DEF at
<1>3. keys \subseteq 0..at /\ \A i \in keys : i \in 1..Len(l) /\ l[i].flag = "key"
  BY <1>1
<1> HIDE DEF keys
<1>4. LastOf(keys) \in keys
  BY <1>1, <1>2, <1>3, LastOfPositions
<1> QED BY <1>2, <1>3, <1>4

LEMMA FreedType ==
  ASSUME BuffTypeOK, NEW n \in [Type -> Nat],
         m_lstEmpty' = [t \in Type |-> Free(n[t]) \o m_lstEmpty[t]]
  PROVE  /\ m_lstEmpty' \in [Type -> Seq(EmptyBuffer)]
         /\ \A x \in Type : /\ Len(m_lstEmpty'[x]) = n[x] + Len(m_lstEmpty[x])
                            /\ InFront(m_lstEmpty[x], m_lstEmpty'[x])
<1>1. m_lstEmpty \in [Type -> Seq(EmptyBuffer)]
  BY DEF BuffTypeOK, EmptyBuffer
<1>2. ASSUME NEW x \in Type
      PROVE  LET s == Free(n[x]) \o m_lstEmpty[x] IN
             /\ s \in Seq(EmptyBuffer) /\ Len(s) = n[x] + Len(m_lstEmpty[x])
             /\ InFront(m_lstEmpty[x], s)
  <2>1. m_lstEmpty[x] \in Seq(EmptyBuffer) /\ n[x] \in Nat
    BY <1>1
  <2> QED BY <2>1, DroppedType
<1>3. \A x \in Type : m_lstEmpty'[x] = Free(n[x]) \o m_lstEmpty[x]
  OBVIOUS
<1>4. m_lstEmpty' \in [Type -> Seq(EmptyBuffer)]
  BY <1>2
<1> QED BY <1>2, <1>3, <1>4

(* A seek and a flush keep the number of buffers of a type, and free in     *)
(* front.                                                                   *)
LEMMA BuffSetPosType ==
  ASSUME BuffTypeOK, NEW pos \in Nat, BuffSetPos(pos)
  PROVE  /\ BuffTypeOK' /\ m_bEOS' = FALSE /\ m_nNewEmptyNum' = m_nNewEmptyNum
         /\ \A x \in Type :
              /\ Len(m_lst'[x]) + Len(m_lstEmpty'[x]) = Len(m_lst[x]) + Len(m_lstEmpty[x])
              /\ InFront(m_lstEmpty[x], m_lstEmpty'[x])
<1> DEFINE in == InBuff(pos)
           at == [t \in Type |-> IF ~in THEN Len(m_lst[t]) + 1
                                 ELSE IF t = "video" THEN SeekKey(m_lst[t], pos)
                                 ELSE FirstFrom(m_lst[t], pos)]
           n  == [t \in Type |-> IF in THEN Discarded(m_lst[t], at[t]) ELSE Len(m_lst[t])]
<1>1. m_lst \in [Type -> Seq(Frame)] /\ m_lstEmpty \in [Type -> Seq(EmptyBuffer)]
  BY DEF BuffTypeOK, EmptyBuffer
<1>2. \A t \in Type : Len(m_lst[t]) \in Nat /\ Len(m_lstEmpty[t]) \in Nat
  BY <1>1
<1>3. /\ m_lst' = [t \in Type |-> IF in THEN Kept(m_lst[t], at[t]) ELSE <<>>]
      /\ m_lstEmpty' = [t \in Type |-> Free(n[t]) \o m_lstEmpty[t]]
      /\ ResetParam /\ m_llSeekPos' \in {0, -1}
      /\ m_nNewEmptyNum' = m_nNewEmptyNum /\ bStarted' = bStarted
  BY DEF BuffSetPos
<1>4. ASSUME in, NEW t \in Type PROVE at[t] \in 1..(Len(m_lst[t]) + 1)
  <2> DEFINE l == m_lst[t]
  <2>1. l \in Seq(Frame) /\ pos \in Int
    BY <1>1
  <2>2. CASE t = "video"
    <3>1. at[t] = SeekKey(l, pos) /\ SeekKey(l, pos) # 0
      BY <1>4, <2>2 DEF InBuff
    <3> HIDE DEF l, at
    <3> QED BY <2>1, <3>1, SeekKeyType DEF l
  <2>3. CASE t # "video"
    <3>1. at[t] = FirstFrom(l, pos)
      BY <1>4, <2>3
    <3> HIDE DEF l, at
    <3>2. FirstFrom(l, pos) \in 1..(Len(l) + 1)
      BY <2>1, FirstFromType
    <3> QED BY <3>1, <3>2 DEF l
  <2> QED BY <2>2, <2>3
<1> HIDE DEF at, in
<1>5. ASSUME NEW t \in Type
      PROVE  /\ n[t] \in Nat /\ m_lst'[t] \in Seq(Frame)
             /\ Len(m_lst'[t]) \in Nat /\ Len(m_lst'[t]) + n[t] = Len(m_lst[t])
  <2>1. CASE in
    <3> DEFINE l == m_lst[t]
               i == at[t]
    <3>1. l \in Seq(Frame) /\ i \in 1..(Len(l) + 1)
      BY <1>1, <1>4, <2>1
    <3>2. n[t] = Discarded(l, i) /\ m_lst'[t] = Kept(l, i)
      BY <1>3, <2>1
    <3> HIDE DEF l, i, n
    <3>3. /\ Kept(l, i) \in Seq(Frame) /\ Discarded(l, i) \in Nat
          /\ Len(Kept(l, i)) + Discarded(l, i) = Len(l)
      BY <3>1, KeptType
    <3>4. Len(Kept(l, i)) \in Nat
      BY <3>3
    <3> QED BY <3>2, <3>3, <3>4 DEF l
  <2>2. CASE ~in
    <3>1. n[t] = Len(m_lst[t]) /\ m_lst'[t] = <<>>
      BY <1>3, <2>2
    <3>2. Len(<<>>) = 0 /\ <<>> \in Seq(Frame)
      OBVIOUS
    <3> HIDE DEF n
    <3> QED BY <1>2, <3>1, <3>2
  <2> QED BY <2>1, <2>2
<1>6. n \in [Type -> Nat]
  BY <1>5
<1> HIDE DEF n
<1>7. /\ m_lstEmpty' \in [Type -> Seq(EmptyBuffer)]
      /\ \A x \in Type : /\ Len(m_lstEmpty'[x]) = n[x] + Len(m_lstEmpty[x])
                         /\ InFront(m_lstEmpty[x], m_lstEmpty'[x])
  BY <1>3, <1>6, FreedType
<1>8. m_lst' \in [Type -> Seq(Frame)]
  BY <1>3, <1>5
<1>9. BuffTypeOK'
  <2>1. m_lstEmpty' \in [Type -> Seq({"free", "used"})] /\ m_lst' \in [Type -> Seq(Frame)]
    BY <1>7, <1>8 DEF EmptyBuffer
  <2>2. /\ m_nNewEmptyNum' \in [Type -> Nat] /\ bStarted' \in BOOLEAN
        /\ m_llSeekPos' \in Nat \cup {-1}
    BY <1>3 DEF BuffTypeOK
  <2>3. /\ m_bBuffEO' \in [Type -> BOOLEAN] /\ m_bEOS' \in BOOLEAN /\ bNumRead' \in BOOLEAN
        /\ m_bFlush' \in BOOLEAN /\ m_llNextKeyTime' \in Nat
    BY <1>3 DEF ResetParam
  <2> QED BY <2>1, <2>2, <2>3 DEF BuffTypeOK
<1>10. ASSUME NEW x \in Type
       PROVE  Len(m_lst'[x]) + Len(m_lstEmpty'[x]) = Len(m_lst[x]) + Len(m_lstEmpty[x])
  <2>1. Len(m_lstEmpty'[x]) = n[x] + Len(m_lstEmpty[x])
    BY <1>7
  <2>2. n[x] \in Nat /\ Len(m_lst'[x]) \in Nat /\ Len(m_lst'[x]) + n[x] = Len(m_lst[x])
    BY <1>5
  <2>3. Len(m_lstEmpty[x]) \in Nat
    BY <1>2
  <2>4. \A a, b, c \in Nat : a + (b + c) = (a + b) + c
    OBVIOUS
  <2>5. Len(m_lst'[x]) + (n[x] + Len(m_lstEmpty[x])) = (Len(m_lst'[x]) + n[x]) + Len(m_lstEmpty[x])
    BY <2>2, <2>3, <2>4
  <2> QED BY <2>1, <2>2, <2>5
<1> QED BY <1>3, <1>7, <1>9, <1>10 DEF ResetParam

LEMMA FlushBuffType ==
  ASSUME BuffTypeOK, FlushBuff
  PROVE  /\ BuffTypeOK' /\ m_bEOS' = m_bEOS /\ m_nNewEmptyNum' = m_nNewEmptyNum
         /\ \A x \in Type :
              /\ Len(m_lst'[x]) + Len(m_lstEmpty'[x]) = Len(m_lst[x]) + Len(m_lstEmpty[x])
              /\ InFront(m_lstEmpty[x], m_lstEmpty'[x])
<1> DEFINE n == [t \in Type |-> Len(m_lst[t])]
<1>1. m_lst \in [Type -> Seq(Frame)] /\ m_lstEmpty \in [Type -> Seq(EmptyBuffer)]
  BY DEF BuffTypeOK, EmptyBuffer
<1>2. \A t \in Type : Len(m_lst[t]) \in Nat /\ Len(m_lstEmpty[t]) \in Nat
  BY <1>1
<1>3. n \in [Type -> Nat] /\ \A t \in Type : n[t] = Len(m_lst[t])
  BY <1>2
<1>4. /\ m_lst' = [t \in Type |-> <<>>]
      /\ m_lstEmpty' = [t \in Type |-> Free(n[t]) \o m_lstEmpty[t]]
  BY DEF FlushBuff, Dropped
<1> HIDE DEF n
<1>5. /\ m_lstEmpty' \in [Type -> Seq(EmptyBuffer)]
      /\ \A x \in Type : /\ Len(m_lstEmpty'[x]) = n[x] + Len(m_lstEmpty[x])
                         /\ InFront(m_lstEmpty[x], m_lstEmpty'[x])
  BY <1>3, <1>4, FreedType
<1>6. m_lst' \in [Type -> Seq(Frame)] /\ \A x \in Type : Len(m_lst'[x]) = 0
  BY <1>4
<1>7. BuffTypeOK'
  BY <1>5, <1>6 DEF BuffTypeOK, EmptyBuffer, FlushBuff
<1>8. ASSUME NEW x \in Type
      PROVE  Len(m_lst'[x]) + Len(m_lstEmpty'[x]) = Len(m_lst[x]) + Len(m_lstEmpty[x])
  <2>1. Len(m_lstEmpty'[x]) = Len(m_lst[x]) + Len(m_lstEmpty[x]) /\ Len(m_lst'[x]) = 0
    BY <1>3, <1>5, <1>6
  <2> QED BY <1>2, <2>1
<1> QED BY <1>5, <1>7, <1>8 DEF FlushBuff

(* The decoder is done with its buffer: all are free. *)
LEMMA ReleasedType ==
  ASSUME BuffTypeOK, NEW t \in Type, m_lstEmpty' = Released(t)
  PROVE  /\ m_lstEmpty' \in [Type -> Seq(EmptyBuffer)]
         /\ Len(m_lstEmpty'[t]) = Len(m_lstEmpty[t]) /\ AllFree(m_lstEmpty'[t])
         /\ \A x \in Type : x # t => m_lstEmpty'[x] = m_lstEmpty[x]
<1> DEFINE n == Len(m_lstEmpty[t])
           f == Free(n)
<1>1. m_lstEmpty \in [Type -> Seq(EmptyBuffer)] /\ n \in Nat
  BY DEF BuffTypeOK, EmptyBuffer
<1>2. m_lstEmpty' = [m_lstEmpty EXCEPT ![t] = f]
  BY DEF Released
<1>3. f \in Seq(EmptyBuffer) /\ Len(f) = n /\ \A i \in 1..n : f[i] = "free"
  <2> HIDE DEF n
  <2> QED BY <1>1, FreeType DEF EmptyBuffer
<1> HIDE DEF f
<1>4. /\ m_lstEmpty' \in [Type -> Seq(EmptyBuffer)] /\ m_lstEmpty'[t] = f
      /\ \A x \in Type : x # t => m_lstEmpty'[x] = m_lstEmpty[x]
  BY <1>1, <1>2, <1>3
<1> QED BY <1>3, <1>4 DEF AllFree

LEMMA ReturnedType ==
  ASSUME BuffTypeOK, NEW t \in Type, NEW b \in EmptyBuffer, Return(t, b)
  PROVE  /\ m_lstEmpty' \in [Type -> Seq(EmptyBuffer)]
         /\ m_lstEmpty'[t] = Append(m_lstEmpty[t], b)
         /\ Len(m_lstEmpty'[t]) = Len(m_lstEmpty[t]) + 1
         /\ \A x \in Type : x # t => m_lstEmpty'[x] = m_lstEmpty[x]
<1> DEFINE s == Append(m_lstEmpty[t], b)
<1>1. m_lstEmpty \in [Type -> Seq(EmptyBuffer)]
  BY DEF BuffTypeOK, EmptyBuffer
<1>2. s \in Seq(EmptyBuffer) /\ Len(s) = Len(m_lstEmpty[t]) + 1
  BY <1>1, AppendEmpty
<1>3. m_lstEmpty' = [m_lstEmpty EXCEPT ![t] = s]
  BY DEF Return, Returned
<1> HIDE DEF s
<1>4. /\ m_lstEmpty' \in [Type -> Seq(EmptyBuffer)] /\ m_lstEmpty'[t] = s
      /\ \A x \in Type : x # t => m_lstEmpty'[x] = m_lstEmpty[x]
  BY <1>1, <1>2, <1>3
<1> QED BY <1>2, <1>4 DEF s

-----------------------------------------------------------------------------
(* The order of the audio. *)

(* l2 is l without its first k buffers. *)
Suffix(l2, l, k) ==
  Len(l2) = Len(l) - k /\ \A i \in 1..(Len(l) - k) : l2[i] = l[i + k]

LEMMA FromSuffix ==
  ASSUME NEW l \in Seq(Frame), NEW i \in 1..(Len(l) + 1)
  PROVE  Suffix(From(l, i), l, i - 1)
<1>1. /\ Len(From(l, i)) = Len(l) - i + 1 /\ Len(l) \in Nat
      /\ \A j \in 1..(Len(l) - i + 1) : From(l, i)[j] = l[i + j - 1]
  <2>1. Len(l) \in Nat
    OBVIOUS
  <2>2. /\ Len(From(l, i)) = Len(l) - i + 1
        /\ \A j \in 1..(Len(l) - i + 1) : From(l, i)[j] = l[i + j - 1]
    BY ListParts
  <2> QED BY <2>1, <2>2
<1>2. Len(From(l, i)) = Len(l) - (i - 1)
  BY <1>1
<1>3. ASSUME NEW j \in 1..(Len(l) - (i - 1)) PROVE From(l, i)[j] = l[j + (i - 1)]
  <2>1. j \in 1..(Len(l) - i + 1) /\ i + j - 1 = j + (i - 1)
    BY <1>1
  <2> QED BY <1>1, <2>1
<1> QED BY <1>2, <1>3 DEF Suffix

LEMMA SuffixOfSuffix ==
  ASSUME NEW l \in Seq(Frame), NEW k \in 0..Len(l), NEW l2, Suffix(l2, l, k),
         NEW k2 \in 0..(Len(l) - k), NEW l3, Suffix(l3, l2, k2)
  PROVE  Suffix(l3, l, k + k2)
<1>1. Len(l) \in Nat /\ Len(l2) = Len(l) - k /\ Len(l3) = Len(l2) - k2
  BY DEF Suffix
<1>2. Len(l3) = Len(l) - (k + k2)
  BY <1>1
<1>3. ASSUME NEW i \in 1..(Len(l) - (k + k2)) PROVE l3[i] = l[i + (k + k2)]
  <2>1. i \in 1..(Len(l2) - k2) /\ i + k2 \in 1..(Len(l) - k) /\ (i + k2) + k = i + (k + k2)
    BY <1>1
  <2>2. l3[i] = l2[i + k2]
    BY <2>1 DEF Suffix
  <2>3. l2[i + k2] = l[(i + k2) + k]
    BY <2>1 DEF Suffix
  <2> QED BY <2>1, <2>2, <2>3
<1> QED BY <1>2, <1>3 DEF Suffix

(* A read takes the audio in order, and drops some only before the first    *)
(* read after a seek.                                                       *)
LEMMA AudioRead ==
  ASSUME BuffTypeOK, NEW t \in Type, NEW pos \in Nat
  PROVE  LET r == ReadResult(t, pos)
             a == m_lst["audio"]
         IN  \E k \in 0..Len(a) :
               /\ Suffix(r.lst["audio"], a, k)
               /\ t = "audio" /\ r.rc = "frame" => k >= 1 /\ r.f = a[k] /\ (k = 1 \/ Syncing)
               /\ ~(t = "audio" /\ r.rc = "frame") => k = 0 \/ Syncing
<1> DEFINE R == ReadResult(t, pos)
           a == m_lst["audio"]
           at == SyncAt
           s == From(a, at)
<1>1. m_lst \in [Type -> Seq(Frame)] /\ a \in Seq(Frame) /\ Len(a) \in Nat
  BY DEF BuffTypeOK, Type
<1>2. at \in 1..(Len(a) + 1) /\ (at = 1 \/ Syncing)
  BY SyncAtType DEF SyncAt
<1>3. CASE SyncWaits
  <2>1. R.rc = "retry" /\ R.lst = m_lst
    BY <1>3 DEF ReadResult
  <2>2. Suffix(a, a, 0) /\ 0 \in 0..Len(a)
    BY <1>1 DEF Suffix
  <2> HIDE DEF R, a
  <2>3. R.rc # "frame" /\ R.lst["audio"] = a
    BY <2>1 DEF a
  <2> QED BY <2>2, <2>3 DEF R, a
<1>4. CASE ~SyncWaits
  <2> DEFINE synced == [m_lst EXCEPT !["audio"] = s]
             l == synced[t]
             r == IF l = <<>> \/ (Syncing /\ synced["audio"] = <<>>)
                  THEN Result("none", 0, m_llNextKeyTime)
                  ELSE IF t = "video" THEN ReadVideo(l, pos)
                  ELSE Result("frame", 1, m_llNextKeyTime)
             i == r.n + Taken(r, l) + 1
  <2>1. /\ R.lst = [synced EXCEPT ![t] = From(@, i)]
        /\ R.rc = (IF r.res # "none" THEN r.res
                   ELSE IF m_bEOS /\ r.n = Len(l) THEN "finish" ELSE "retry")
        /\ R.f = (IF r.res = "frame" THEN l[r.n] ELSE Null)
    BY <1>4 DEF ReadResult, Taken
  <2>2. s \in Seq(Frame) /\ Suffix(s, a, at - 1) /\ Len(s) = Len(a) - at + 1
    <3> HIDE DEF a, at
    <3> QED BY <1>1, <1>2, ListParts, FromSuffix
  <2>3. synced \in [Type -> Seq(Frame)] /\ synced["audio"] = s
    <3>1. "audio" \in Type
      BY DEF Type
    <3> HIDE DEF s
    <3> QED BY <1>1, <2>2, <3>1
  <2> HIDE DEF R
  <2>4. CASE t = "video"
    <3>1. R.lst["audio"] = s
      <4>1. R.lst["audio"] = synced["audio"]
        <5>1. "audio" \in Type /\ "audio" # t
          BY <2>4 DEF Type
        <5> HIDE DEF synced, i
        <5> QED BY <2>1, <2>3, <5>1
      <4> QED BY <2>3, <4>1
    <3>2. at - 1 \in 0..Len(a) /\ (at - 1 = 0 \/ Syncing) /\ t # "audio"
      BY <1>1, <1>2, <2>4
    <3> HIDE DEF s, at
    <3>3. Suffix(R.lst["audio"], a, at - 1)
      BY <2>2, <3>1
    <3> QED BY <3>2, <3>3 DEF R
  <2>5. CASE t = "audio"
    <3>1. l = s
      BY <2>3, <2>5
    <3>2. R.lst["audio"] = From(s, i)
      <4>1. t \in DOMAIN synced /\ synced[t] = s
        BY <2>3, <2>5
      <4> HIDE DEF synced, i, s
      <4> QED BY <2>1, <2>5, <4>1
    <3>3. CASE r = Result("none", 0, m_llNextKeyTime)
      <4>1. r.n = 0 /\ r.res = "none"
        BY <3>3 DEF Result
      <4>2. i = 1 /\ R.rc # "frame"
        <5> HIDE DEF r, l
        <5> QED BY <2>1, <4>1 DEF Taken
      <4> HIDE DEF i, r, l, synced, s, at, a
      <4>3. R.lst["audio"] = From(s, 1) /\ 1 \in 1..(Len(s) + 1) /\ 1 - 1 = 0
        BY <2>2, <3>2, <4>2
      <4>4. Suffix(R.lst["audio"], s, 0)
        BY <2>2, <4>3, FromSuffix
      <4>5. at - 1 \in 0..Len(a) /\ 0 \in 0..(Len(a) - (at - 1)) /\ (at - 1) + 0 = at - 1
        BY <1>1, <1>2
      <4>6. Suffix(R.lst["audio"], a, (at - 1) + 0)
        BY <1>1, <2>2, <4>4, <4>5, SuffixOfSuffix
      <4> QED BY <1>2, <4>2, <4>5, <4>6 DEF R, a
    <3>4. CASE l # <<>> /\ r = Result("frame", 1, m_llNextKeyTime)
      <4>1. r.n = 1 /\ r.res = "frame"
        BY <3>4 DEF Result
      <4>2. i = 2 /\ R.rc = "frame" /\ R.f = s[1]
        <5>1. Taken(r, l) = 0
          <6> HIDE DEF r, l
          <6> QED BY <4>1 DEF Taken, Behind
        <5> HIDE DEF r, l
        <5> QED BY <2>1, <3>1, <4>1, <5>1
      <4>3. s # <<>>
        BY <3>1, <3>4
      <4> HIDE DEF i, r, l, synced, s, at, a
      <4>4. Len(s) >= 1 /\ Len(s) \in Nat
        BY <2>2, <4>3, EmptySeq
      <4>5. R.lst["audio"] = From(s, 2) /\ 2 \in 1..(Len(s) + 1) /\ 2 - 1 = 1
        BY <3>2, <4>2, <4>4
      <4>6. Suffix(R.lst["audio"], s, 1)
        BY <2>2, <4>5, FromSuffix
      <4>7. at - 1 \in 0..Len(a) /\ 1 \in 0..(Len(a) - (at - 1)) /\ (at - 1) + 1 = at /\ at \in 1..Len(a)
        BY <1>1, <1>2, <2>2, <4>4
      <4>8. Suffix(R.lst["audio"], a, (at - 1) + 1)
        BY <1>1, <2>2, <4>6, <4>7, SuffixOfSuffix
      <4>9. s[1] = a[at]
        <5>1. 1 \in 1..(Len(a) - (at - 1)) /\ 1 + (at - 1) = at
          BY <1>1, <4>7
        <5>2. s[1] = a[1 + (at - 1)]
          BY <2>2, <5>1 DEF Suffix
        <5> QED BY <5>1, <5>2
      <4>10. at \in 0..Len(a) /\ at >= 1 /\ Suffix(R.lst["audio"], a, at)
        BY <4>7, <4>8
      <4> QED BY <1>2, <2>5, <4>2, <4>9, <4>10 DEF R, a
    <3>5. \/ r = Result("none", 0, m_llNextKeyTime)
          \/ l # <<>> /\ r = Result("frame", 1, m_llNextKeyTime)
      <4>1. t # "video"
        BY <2>5
      <4>2. r = IF l = <<>> \/ (Syncing /\ synced["audio"] = <<>>)
                THEN Result("none", 0, m_llNextKeyTime)
                ELSE Result("frame", 1, m_llNextKeyTime)
        BY <4>1
      <4> HIDE DEF r, l, synced
      <4> QED BY <4>2
    <3> QED BY <3>3, <3>4, <3>5
  <2>6. t = "video" \/ t = "audio"
    BY DEF Type
  <2> QED BY <2>4, <2>5, <2>6
<1> QED BY <1>3, <1>4

(* What a seek within the buffers keeps of a list without heads. *)
LEMMA SeekAudio ==
  ASSUME BuffTypeOK, NEW pos \in Nat, BuffSetPos(pos),
         \A i \in 1..Len(m_lst["audio"]) : m_lst["audio"][i].flag # "head"
  PROVE  \/ InBuff(pos) /\ \E k \in 0..Len(m_lst["audio"]) : Suffix(m_lst'["audio"], m_lst["audio"], k)
         \/ ~InBuff(pos) /\ m_lst'["audio"] = <<>>
<1> DEFINE a == m_lst["audio"]
           i == FirstFrom(a, pos)
<1>1. a \in Seq(Frame) /\ Len(a) \in Nat /\ pos \in Int
  BY DEF BuffTypeOK, Type
<1>2. i \in 1..(Len(a) + 1)
  <2> HIDE DEF a
  <2> QED BY <1>1, FirstFromType
<1>3. CASE InBuff(pos)
  <2>1. m_lst'["audio"] = Kept(a, i)
    BY <1>3 DEF BuffSetPos, Type
  <2> HIDE DEF i
  <2>2. Kept(a, i) = From(a, i)
    <3>1. {j \in 1..(i - 1) : a[j].flag = "head"} = {}
      BY <1>1, <1>2
    <3> QED BY <3>1 DEF Kept
  <2> HIDE DEF a
  <2>3. Suffix(m_lst'["audio"], a, i - 1) /\ i - 1 \in 0..Len(a)
    BY <1>1, <1>2, <2>1, <2>2, FromSuffix
  <2> QED BY <1>3, <2>3 DEF a
<1>4. CASE ~InBuff(pos)
  BY <1>4 DEF BuffSetPos, Type
<1> QED BY <1>3, <1>4

LEMMA SuffixSame ==
  ASSUME NEW l \in Seq(Frame), NEW l2 \in Seq(Frame), Suffix(l2, l, 0)
  PROVE  l2 = l
<1>1. Len(l) \in Nat /\ Len(l2) = Len(l)
  BY DEF Suffix
<1>2. \A i \in 1..Len(l2) : l2[i] = l[i]
  BY <1>1 DEF Suffix
<1> QED BY <1>1, <1>2, SeqEqual

(* The order of the video.  A read takes at most one frame of a list in the *)
(* order of its times, with those before it.                                *)
LEMMA VideoRead ==
  ASSUME BuffTypeOK, NEW t \in Type, NEW pos \in Nat
  PROVE  LET R == ReadResult(t, pos)
             l == m_lst["video"]
             r == ReadVideo(l, pos)
         IN  \/ R.lst["video"] = l /\ R.key = m_llNextKeyTime /\ ~(t = "video" /\ R.rc = "frame")
             \/ /\ t = "video" /\ l # <<>>
                /\ R.rc = (IF r.res # "none" THEN r.res
                           ELSE IF m_bEOS /\ r.n = Len(l) THEN "finish" ELSE "retry")
                /\ R.f = (IF r.res = "frame" THEN l[r.n] ELSE Null) /\ R.key = r.key
                /\ Suffix(R.lst["video"], l, r.n + Taken(r, l))
<1> DEFINE R == ReadResult(t, pos)
           l == m_lst["video"]
<1>1. m_lst \in [Type -> Seq(Frame)] /\ l \in Seq(Frame) /\ Len(l) \in Nat /\ "video" \in Type
  BY DEF BuffTypeOK, Type
<1>2. CASE SyncWaits
  <2>1. R.rc = "retry" /\ R.lst = m_lst /\ R.key = m_llNextKeyTime
    BY <1>2 DEF ReadResult
  <2> HIDE DEF R
  <2> QED BY <2>1 DEF R
<1>3. CASE ~SyncWaits
  <2> DEFINE s == From(m_lst["audio"], SyncAt)
             synced == [m_lst EXCEPT !["audio"] = s]
             q == IF synced[t] = <<>> \/ (Syncing /\ synced["audio"] = <<>>)
                  THEN Result("none", 0, m_llNextKeyTime)
                  ELSE IF t = "video" THEN ReadVideo(synced[t], pos)
                  ELSE Result("frame", 1, m_llNextKeyTime)
             i == q.n + Taken(q, synced[t]) + 1
  <2>1. /\ R.lst = [synced EXCEPT ![t] = From(@, i)] /\ R.key = q.key
        /\ R.rc = (IF q.res # "none" THEN q.res
                   ELSE IF m_bEOS /\ q.n = Len(synced[t]) THEN "finish" ELSE "retry")
        /\ R.f = (IF q.res = "frame" THEN synced[t][q.n] ELSE Null)
    BY <1>3 DEF ReadResult, Taken
  <2>2. synced["video"] = l /\ "video" \in DOMAIN synced /\ DOMAIN synced = Type
    BY <1>1
  <2> HIDE DEF R, s, synced
  <2>3. CASE t = "audio"
    <3>1. R.lst["video"] = synced["video"]
      BY <2>1, <2>2, <2>3
    <3>2. q.key = m_llNextKeyTime
      BY <2>3 DEF Result
    <3> QED BY <2>1, <2>2, <2>3, <3>1, <3>2 DEF R
  <2>4. CASE t = "video"
    <3>1. R.lst["video"] = From(l, i) /\ synced[t] = l
      <4> HIDE DEF i
      <4> QED BY <2>1, <2>2, <2>4
    <3>2. CASE q = Result("none", 0, m_llNextKeyTime)
      <4>1. q.n = 0 /\ q.res = "none" /\ q.key = m_llNextKeyTime
        BY <3>2 DEF Result
      <4>2. i = 1 /\ R.rc # "frame"
        <5> HIDE DEF q
        <5> QED BY <2>1, <4>1 DEF Taken
      <4> HIDE DEF i, q, l
      <4>3. From(l, 1) \in Seq(Frame) /\ Suffix(From(l, 1), l, 0)
        <5>1. 1 \in 1..(Len(l) + 1) /\ 1 - 1 = 0
          BY <1>1
        <5> QED BY <1>1, <5>1, ListParts, FromSuffix
      <4>4. R.lst["video"] = l
        BY <1>1, <3>1, <4>2, <4>3, SuffixSame
      <4> QED BY <2>1, <4>1, <4>2, <4>4 DEF R, l
    <3>3. CASE l # <<>> /\ q = ReadVideo(l, pos)
      <4>0. m_llNextKeyTime \in Nat
        BY DEF BuffTypeOK
      <4>1. q.n \in 0..Len(l) /\ (q.res = "frame" => q.n >= 1)
        <5> HIDE DEF q, l
        <5> QED BY <1>1, <3>3, <4>0, ReadVideoType
      <4> DEFINE k == q.n + Taken(q, l)
      <4>2. i = k + 1 /\ k + 1 \in 1..(Len(l) + 1) /\ k \in Nat
        <5>1. i = k + 1
          BY <3>1
        <5> HIDE DEF q, l, i
        <5>2. Taken(q, l) \in 0..(Len(l) - q.n) /\ k + 1 \in 1..(Len(l) + 1)
          BY <1>1, <4>1, TakenType
        <5> QED BY <1>1, <4>1, <5>1, <5>2
      <4> HIDE DEF i, k, l
      <4>3. Suffix(From(l, k + 1), l, k)
        <5>1. (k + 1) - 1 = k
          BY <4>2
        <5> QED BY <1>1, <4>2, <5>1, FromSuffix
      <4> HIDE DEF q
      <4> QED BY <2>1, <2>4, <3>1, <3>3, <4>2, <4>3 DEF R, l, k
    <3>4. q = Result("none", 0, m_llNextKeyTime) \/ (l # <<>> /\ q = ReadVideo(l, pos))
      BY <2>4, <3>1
    <3> QED BY <3>2, <3>3, <3>4
  <2> QED BY <2>3, <2>4 DEF Type
<1> QED BY <1>2, <1>3

===============================================================================
