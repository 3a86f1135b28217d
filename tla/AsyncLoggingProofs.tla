------------------------- MODULE AsyncLoggingProofs -------------------------
(***************************************************************************)
(* What the asynchronous logger keeps to, for any lines, every size         *)
(* of the buffers and every number of failed writes.                        *)
(*                                                                          *)
(* The argument for the order of the lines: laid end to end, the five places*)
(* where a line can be are the lines appended without the dropped ones.  An *)
(* Append adds its line at the end of both; the swap under mutex_ and a     *)
(* write that succeeds only change where the places are divided; and a write*)
(* that fails takes a stretch out of the middle and adds it to the dropped  *)
(* ones.  For this the buffers to write must be empty when the swap replaces*)
(* them, and no line be appended twice: WriterIdle and AppendedOnce.        *)
(*                                                                          *)
(* FlattenSeq is a recursive function, treated like the folds of            *)
(* LogStreamProofs.                                                         *)
(***************************************************************************)
EXTENDS AsyncLogging, LogStreamProofs

-----------------------------------------------------------------------------
(* Sequences of sequences, laid end to end.                                 *)
FlattenMap(f, n, ss) ==
  f = [i \in 1 .. n |-> IF i = 1 THEN ss[i] ELSE f[i - 1] \o ss[i]]

(* FlattenSeq is the last value of that function.                           *)
LEMMA FlattenSeqDef ==
  ASSUME NEW ss
  PROVE  FlattenSeq(ss) = IF Len(ss) = 0 THEN ss
                          ELSE (CHOOSE f : FlattenMap(f, Len(ss), ss))[Len(ss)]
BY Zenon DEF FlattenSeq, FlattenMap

(* The recursive function in FlattenSeq exists.                             *)
LEMMA FlattenExists ==
  ASSUME NEW L, NEW ss \in Seq(Seq(L))
  PROVE  \E f \in [1 .. Len(ss) -> Seq(L)] : FlattenMap(f, Len(ss), ss)
<1> DEFINE n == Len(ss)
           S == {k \in 0 .. n : \E f \in [1 .. k -> Seq(L)] : FlattenMap(f, k, ss)}
<1>1. n \in Nat /\ \A i \in 1 .. n : ss[i] \in Seq(L)
  BY ElementOfSeq, LenProperties
<1> HIDE DEF n
<1>2. 0 \in S
  <2> DEFINE f == [i \in 1 .. 0 |-> <<>>]
  <2>1. f \in [1 .. 0 -> Seq(L)] /\ FlattenMap(f, 0, ss) /\ 0 \in 0 .. n
    BY <1>1 DEF FlattenMap
  <2> QED BY <2>1
<1>3. ASSUME NEW k \in 0 .. n, k \in S, k + 1 <= n PROVE k + 1 \in S
  <2>1. PICK f \in [1 .. k -> Seq(L)] : FlattenMap(f, k, ss)
    BY <1>3
  <2>2. k \in Nat /\ k + 1 \in 0 .. n /\ ss[k + 1] \in Seq(L)
    BY <1>1, <1>3
  <2> DEFINE top == IF k = 0 THEN ss[1] ELSE f[k] \o ss[k + 1]
             g == [i \in 1 .. k + 1 |-> IF i = k + 1 THEN top ELSE f[i]]
  <2>3. top \in Seq(L)
    <3>1. CASE k = 0
      BY <2>2, <3>1
    <3>2. CASE k # 0
      <4>1. f[k] \in Seq(L)
        BY <2>2, <3>2
      <4> QED BY <2>2, <3>2, <4>1, ConcatProperties
    <3> QED BY <3>1, <3>2
  <2> HIDE DEF top
  <2>4. g \in [1 .. k + 1 -> Seq(L)]
    BY <2>2, <2>3
  <2>5. ASSUME NEW i \in 1 .. k + 1
        PROVE  g[i] = IF i = 1 THEN ss[i] ELSE g[i - 1] \o ss[i]
    <3>1. CASE i = k + 1
      <4>1. g[i] = top
        BY <3>1
      <4>2. k # 0 => k \in 1 .. k + 1 /\ k # k + 1 /\ g[k] = f[k] /\ i # 1 /\ i - 1 = k
        BY <2>2, <3>1
      <4> QED BY <2>2, <3>1, <4>1, <4>2 DEF top
    <3>2. CASE i # k + 1
      <4>1. i \in 1 .. k /\ g[i] = f[i]
        BY <2>2, <3>2
      <4>2. f[i] = IF i = 1 THEN ss[i] ELSE f[i - 1] \o ss[i]
        BY <2>1, <4>1 DEF FlattenMap
      <4>3. i # 1 => i - 1 \in 1 .. k + 1 /\ i - 1 # k + 1
        BY <2>2, <4>1
      <4>4. i # 1 => g[i - 1] = f[i - 1]
        BY <4>3
      <4> QED BY <4>1, <4>2, <4>4
    <3> QED BY <3>1, <3>2
  <2>6. FlattenMap(g, k + 1, ss)
    BY <2>5 DEF FlattenMap
  <2> QED BY <2>2, <2>4, <2>6
<1>4. \A k \in 0 .. n : k \in S
  <2> HIDE DEF S
  <2> QED BY <1>1, <1>2, <1>3, SetInduction
<1>5. n \in S
  BY <1>1, <1>4
<1> QED BY <1>5 DEF n

(* FlattenSeq is reached sequence by sequence.                              *)
Joined(h, ss, L) ==
  /\ h \in [0 .. Len(ss) -> Seq(L)]
  /\ h[0] = <<>>
  /\ \A k \in 1 .. Len(ss) : h[k] = h[k - 1] \o ss[k]

(* Such steps exist, and their last value is FlattenSeq.                    *)
LEMMA FlattenSteps ==
  ASSUME NEW L, NEW ss \in Seq(Seq(L))
  PROVE  \E h : Joined(h, ss, L) /\ FlattenSeq(ss) = h[Len(ss)]
<1> DEFINE n == Len(ss)
           f == CHOOSE x : FlattenMap(x, n, ss)
           h == [k \in 0 .. n |-> IF k = 0 THEN <<>> ELSE f[k]]
<1>1. n \in Nat /\ \A i \in 1 .. n : ss[i] \in Seq(L)
  BY ElementOfSeq, LenProperties
<1>2. FlattenMap(f, n, ss)
  BY FlattenExists, Zenon
<1>3. FlattenSeq(ss) = h[n]
  <2>1. FlattenSeq(ss) = IF n = 0 THEN ss ELSE f[n]
    BY FlattenSeqDef, Zenon
  <2>2. n = 0 => ss = <<>>
    BY EmptySeq
  <2> HIDE DEF f, n
  <2> QED BY <1>1, <2>1, <2>2
<1> HIDE DEF f, n
<1>4. \A i \in 1 .. n : f[i] = IF i = 1 THEN ss[i] ELSE f[i - 1] \o ss[i]
  BY <1>2 DEF FlattenMap
<1>5. ASSUME NEW k \in 1 .. n PROVE h[k] = h[k - 1] \o ss[k]
  <2>1. k \in 0 .. n /\ k - 1 \in 0 .. n /\ k # 0 /\ (k # 1 => k - 1 # 0)
    BY <1>1
  <2>2. h[k] = f[k] /\ (k = 1 => h[k - 1] = <<>>) /\ (k # 1 => h[k - 1] = f[k - 1])
    BY <2>1
  <2>3. <<>> \o ss[k] = ss[k]
    BY <1>1, ConcatEmptySeq
  <2> QED BY <1>4, <2>2, <2>3
<1>6. h \in [0 .. n -> Seq(L)]
  <2> DEFINE S == {k \in 0 .. n : h[k] \in Seq(L)}
  <2>1. 0 \in S
    BY <1>1
  <2>2. ASSUME NEW k \in 0 .. n, k \in S, k + 1 <= n PROVE k + 1 \in S
    <3>1. k + 1 \in 1 .. n /\ (k + 1) - 1 = k /\ h[k] \in Seq(L) /\ k + 1 \in 0 .. n
      BY <1>1, <2>2
    <3>2. h[k + 1] = h[k] \o ss[k + 1]
      BY <1>5, <3>1
    <3>3. ss[k + 1] \in Seq(L)
      BY <1>1, <3>1, Zenon
    <3>4. h[k] \o ss[k + 1] \in Seq(L)
      BY <3>1, <3>3, ConcatProperties, Zenon
    <3>5. h[k + 1] \in Seq(L)
      BY <3>2, <3>4, Zenon
    <3> QED BY <3>1, <3>5
  <2>3. \A k \in 0 .. n : k \in S
    <3> HIDE DEF S
    <3> QED BY <1>1, <2>1, <2>2, SetInduction
  <2> QED BY <2>3
<1>7. h[0] = <<>>
  BY <1>1
<1>8. Joined(h, ss, L)
  BY <1>5, <1>6, <1>7 DEF Joined, n
<1> QED BY <1>3, <1>8 DEF n

(* A flattened sequence has the elements of its sequences.                  *)
LEMMA FlattenType ==
  ASSUME NEW L, NEW ss \in Seq(Seq(L))
  PROVE  FlattenSeq(ss) \in Seq(L)
<1>1. PICK h : Joined(h, ss, L) /\ FlattenSeq(ss) = h[Len(ss)]
  BY FlattenSteps
<1>2. Len(ss) \in 0 .. Len(ss)
  BY LenProperties
<1> QED BY <1>1, <1>2 DEF Joined

(* Of no sequences, nothing is left.                                        *)
LEMMA FlattenEmpty == FlattenSeq(<<>>) = <<>>
BY FlattenSeqDef

(* A sequence at the end comes at the end.                                  *)
LEMMA FlattenAppend ==
  ASSUME NEW L, NEW ss \in Seq(Seq(L)), NEW s \in Seq(L)
  PROVE  FlattenSeq(Append(ss, s)) = FlattenSeq(ss) \o s
<1> DEFINE n == Len(ss)
           more == Append(ss, s)
<1>1. /\ more \in Seq(Seq(L)) /\ Len(more) = n + 1 /\ n \in Nat
      /\ more[n + 1] = s /\ \A k \in 1 .. n : more[k] = ss[k]
  BY AppendProperties, LenProperties
<1> HIDE DEF n, more
<1>2. PICK h : Joined(h, ss, L) /\ FlattenSeq(ss) = h[n]
  BY FlattenSteps, Zenon DEF n
<1>3. PICK m : Joined(m, more, L) /\ FlattenSeq(more) = m[n + 1]
  BY <1>1, FlattenSteps
<1> DEFINE S == {k \in 0 .. n : h[k] = m[k]}
<1>4. 0 \in S
  BY <1>1, <1>2, <1>3 DEF Joined
<1>5. ASSUME NEW k \in 0 .. n, k \in S, k + 1 <= n PROVE k + 1 \in S
  <2>1. k + 1 \in 1 .. n /\ k + 1 \in 1 .. n + 1 /\ (k + 1) - 1 = k /\ k + 1 \in 0 .. n
    BY <1>1, <1>5
  <2>2. h[k + 1] = h[k] \o ss[k + 1]
    BY <1>2, <2>1 DEF Joined, n
  <2>3. m[k + 1] = m[k] \o more[k + 1]
    BY <1>1, <1>3, <2>1 DEF Joined
  <2> QED BY <1>1, <1>5, <2>1, <2>2, <2>3
<1>6. n \in S
  <2>1. \A k \in 0 .. n : k \in S
    <3> HIDE DEF S
    <3> QED BY <1>1, <1>4, <1>5, SetInduction
  <2>2. n \in 0 .. n
    BY <1>1
  <2> QED BY <2>1, <2>2, Zenon
<1>7. m[n + 1] = m[n] \o s
  <2>1. n + 1 \in 1 .. n + 1 /\ (n + 1) - 1 = n
    BY <1>1
  <2> QED BY <1>1, <1>3, <2>1 DEF Joined
<1> QED BY <1>2, <1>3, <1>6, <1>7 DEF more

(* Cat is \o.  The operator hides it, because the provers would undo its    *)
(* grouping.                                                                *)
Cat(x, y) == x \o y

(* It groups as one likes.                                                  *)
LEMMA CatAssociative ==
  ASSUME NEW L, NEW x \in Seq(L), NEW y \in Seq(L), NEW z \in Seq(L)
  PROVE  Cat(Cat(x, y), z) = Cat(x, Cat(y, z))
<1> DEFINE left == Cat(Cat(x, y), z)
           right == Cat(x, Cat(y, z))
           a == Len(x)
           b == Len(y)
           c == Len(z)
<1>1. /\ Cat(x, y) \in Seq(L) /\ Cat(y, z) \in Seq(L)
      /\ a \in Nat /\ b \in Nat /\ c \in Nat
      /\ Len(Cat(x, y)) = a + b /\ Len(Cat(y, z)) = b + c
  BY DEF Cat
<1>2. left \in Seq(L) /\ right \in Seq(L) /\ Len(left) = (a + b) + c /\ Len(right) = a + (b + c)
  BY <1>1 DEF Cat
<1> HIDE DEF a, b, c
<1>3. ASSUME NEW i \in 1 .. a PROVE left[i] = right[i]
  <2>1. Cat(x, y)[i] = x[i] /\ i \in 1 .. a + b
    BY DEF Cat, a, b
  <2>2. left[i] = Cat(x, y)[i] /\ right[i] = x[i]
    BY <1>1, <2>1 DEF Cat, a
  <2> QED BY <2>1, <2>2, Zenon
<1>4. ASSUME NEW i \in 1 .. b PROVE left[a + i] = right[a + i]
  <2>1. Cat(x, y)[a + i] = y[i] /\ a + i \in 1 .. a + b /\ Cat(y, z)[i] = y[i] /\ i \in 1 .. b + c
    BY DEF Cat, a, b, c
  <2>2. left[a + i] = Cat(x, y)[a + i] /\ right[a + i] = Cat(y, z)[i]
    BY <1>1, <2>1 DEF Cat, a
  <2> QED BY <2>1, <2>2, Zenon
<1>5. ASSUME NEW i \in 1 .. c PROVE left[(a + b) + i] = right[(a + b) + i]
  <2>1. Cat(y, z)[b + i] = z[i] /\ b + i \in 1 .. b + c
    BY DEF Cat, b, c
  <2>2. right[a + (b + i)] = Cat(y, z)[b + i]
    BY <1>1, <2>1 DEF Cat, a
  <2>3. (a + b) + i = a + (b + i)
    BY <1>1
  <2>4. left[(a + b) + i] = z[i]
    <3>1. /\ (a + b) + i \in 1 .. (a + b) + c
          /\ ~((a + b) + i <= a + b) /\ ((a + b) + i) - (a + b) = i
      BY <1>1
    <3> HIDE DEF left
    <3> DEFINE xy == Cat(x, y)
    <3>2. xy \in Seq(L) /\ Len(xy) = a + b /\ left = xy \o z /\ Len(z) = c
      BY <1>1 DEF left, Cat, c
    <3> HIDE DEF xy
    <3>3. \A k \in 1 .. Len(xy) + Len(z) :
            (xy \o z)[k] = IF k <= Len(xy) THEN xy[k] ELSE z[k - Len(xy)]
      BY <3>2, ConcatProperties
    <3>4. \A k \in 1 .. (a + b) + c :
            left[k] = IF k <= a + b THEN xy[k] ELSE z[k - (a + b)]
      BY <3>2, <3>3, Zenon
    <3> QED BY <3>1, <3>4, Zenon
  <2> QED BY <2>1, <2>2, <2>3, <2>4, Zenon
<1>6. ASSUME NEW k \in 1 .. Len(left) PROVE left[k] = right[k]
  <2>1. \/ k \in 1 .. a
        \/ k - a \in 1 .. b /\ k = a + (k - a)
        \/ k - (a + b) \in 1 .. c /\ k = (a + b) + (k - (a + b))
    BY <1>1, <1>2
  <2> QED BY <1>3, <1>4, <1>5, <2>1, Zenon
<1>7. Len(left) = Len(right)
  BY <1>1, <1>2
<1> HIDE DEF left, right
<1>8. left = right
  BY <1>2, <1>6, <1>7, SeqEqual, Zenon
<1> QED BY <1>8, Zenon DEF left, right

(* The first sequence comes first.                                          *)
LEMMA FlattenHeadTail ==
  ASSUME NEW L, NEW ss \in Seq(Seq(L)), ss # <<>>
  PROVE  FlattenSeq(ss) = Head(ss) \o FlattenSeq(Tail(ss))
<1> DEFINE n == Len(Tail(ss))
<1>1. /\ Tail(ss) \in Seq(Seq(L)) /\ n \in Nat /\ Len(ss) = n + 1
      /\ Head(ss) \in Seq(L) /\ ss[1] = Head(ss)
      /\ \A k \in 1 .. n : Tail(ss)[k] = ss[k + 1] /\ Tail(ss)[k] \in Seq(L)
  BY HeadTailProperties, LenProperties, ElementOfSeq
<1> HIDE DEF n
<1>2. PICK h : Joined(h, ss, L) /\ FlattenSeq(ss) = h[n + 1]
  BY <1>1, FlattenSteps
<1>3. PICK m : Joined(m, Tail(ss), L) /\ FlattenSeq(Tail(ss)) = m[n]
  BY <1>1, FlattenSteps, Zenon DEF n
<1> DEFINE S == {k \in 0 .. n : h[k + 1] = Head(ss) \o m[k]}
<1>4. 0 \in S
  <2>1. 1 \in 1 .. n + 1 /\ 1 - 1 = 0 /\ 0 + 1 = 1 /\ 0 \in 0 .. n
    BY <1>1
  <2>2. h[1] = <<>> \o ss[1] /\ m[0] = <<>>
    <3>1. h[1] = h[1 - 1] \o ss[1] /\ h[0] = <<>>
      BY <1>1, <1>2, <2>1, Zenon DEF Joined
    <3>2. m[0] = <<>>
      BY <1>3, Zenon DEF Joined
    <3> QED BY <2>1, <3>1, <3>2, Zenon
  <2>3. h[1] = Head(ss) \o m[0]
    BY <1>1, <2>2, ConcatEmptySeq
  <2> QED BY <2>1, <2>3
<1>5. ASSUME NEW k \in 0 .. n, k \in S, k + 1 <= n PROVE k + 1 \in S
  <2>1. /\ k + 1 \in 1 .. n /\ (k + 1) - 1 = k /\ k + 1 \in 0 .. n
        /\ (k + 1) + 1 \in 1 .. n + 1 /\ ((k + 1) + 1) - 1 = k + 1
    BY <1>1, <1>5
  <2>2. h[(k + 1) + 1] = h[k + 1] \o ss[(k + 1) + 1]
    BY <1>1, <1>2, <2>1 DEF Joined
  <2>3. m[k + 1] = m[k] \o Tail(ss)[k + 1] /\ m[k] \in Seq(L)
    BY <1>3, <2>1 DEF Joined, n
  <2>4. Tail(ss)[k + 1] = ss[(k + 1) + 1] /\ Tail(ss)[k + 1] \in Seq(L)
    BY <1>1, <2>1
  <2>5. h[k + 1] \o Tail(ss)[k + 1] = Head(ss) \o m[k + 1]
    <3>1. Head(ss) \in Seq(L) /\ m[k] \in Seq(L) /\ Tail(ss)[k + 1] \in Seq(L)
      BY <1>1, <2>3, <2>4, Zenon
    <3>2. h[k + 1] = Head(ss) \o m[k]
      BY <1>5
    <3> DEFINE p == Head(ss)
               q == m[k]
               r == Tail(ss)[k + 1]
    <3>3. p \in Seq(L) /\ q \in Seq(L) /\ r \in Seq(L)
      BY <3>1
    <3> HIDE DEF p, q, r
    <3>4. Cat(Cat(p, q), r) = Cat(p, Cat(q, r))
      BY <3>3, CatAssociative
    <3> QED BY <2>3, <3>2, <3>4, Zenon DEF p, q, r, Cat
  <2>6. h[(k + 1) + 1] = Head(ss) \o m[k + 1]
    BY <2>2, <2>4, <2>5, Zenon
  <2> QED BY <2>1, <2>6
<1>6. n \in S
  <2>1. \A k \in 0 .. n : k \in S
    <3> HIDE DEF S
    <3> QED BY <1>1, <1>4, <1>5, SetInduction
  <2>2. n \in 0 .. n
    BY <1>1
  <2> QED BY <2>1, <2>2, Zenon
<1> QED BY <1>2, <1>3, <1>6

-----------------------------------------------------------------------------
(* What is kept, in order.                                                  *)
Kept(lines, all, gone) == Range(lines) = Range(all) \ gone /\ InOrder(lines, all)

(* No element comes twice.                                                  *)
NoRepeats(all) == \A i, j \in 1 .. Len(all) : all[i] = all[j] => i = j

(* What is in the order of a sequence without repetition has none itself.   *)
LEMMA KeptNoRepeats ==
  ASSUME NEW L, NEW lines \in Seq(L), NEW all \in Seq(L), NoRepeats(all), InOrder(lines, all)
  PROVE  NoRepeats(lines)
<1> SUFFICES ASSUME NEW i \in 1 .. Len(lines), NEW j \in 1 .. Len(lines),
                    lines[i] = lines[j], i < j
             PROVE  FALSE
  BY LenProperties DEF NoRepeats
<1>1. PICK m, n \in 1 .. Len(all) : m < n /\ all[m] = lines[i] /\ all[n] = lines[j]
  BY DEF InOrder
<1>2. m = n
  BY <1>1 DEF NoRepeats
<1> QED BY <1>1, <1>2, LenProperties

(* The elements of a sequence with one more at its end.                     *)
LEMMA RangeOfLonger ==
  ASSUME NEW L, NEW s \in Seq(L), NEW e \in L
  PROVE  Range(Append(s, e)) = Range(s) \cup {e}
<1> DEFINE n == Len(s)
           t == Append(s, e)
<1>1. /\ n \in Nat /\ DOMAIN s = 1 .. n /\ DOMAIN t = 1 .. n + 1
      /\ t[n + 1] = e /\ \A i \in 1 .. n : t[i] = s[i]
  BY AppendProperties, LenProperties
<1> HIDE DEF n, t
<1>2. n + 1 \in 1 .. n + 1 /\ \A i \in 1 .. n : i \in 1 .. n + 1
  BY <1>1
<1>3. \A i \in 1 .. n + 1 : i \in 1 .. n \/ i = n + 1
  BY <1>1
<1>4. ASSUME NEW x \in Range(t) PROVE x \in Range(s) \cup {e}
  BY <1>1, <1>3, <1>4, Zenon DEF Range
<1>5. ASSUME NEW x \in Range(s) PROVE x \in Range(t)
  BY <1>1, <1>2, <1>5, Zenon DEF Range
<1>6. e \in Range(t)
  BY <1>1, <1>2, Zenon DEF Range
<1>7. Range(t) = Range(s) \cup {e}
  BY <1>4, <1>5, <1>6, Zenon
<1> QED BY <1>7, Zenon DEF t

(* A new element at the end of both is kept in order.                       *)
LEMMA KeptAppend ==
  ASSUME NEW L, NEW lines \in Seq(L), NEW all \in Seq(L), NEW gone, NEW line \in L,
         Kept(lines, all, gone), gone \subseteq Range(all), line \notin Range(all)
  PROVE  Kept(Append(lines, line), Append(all, line), gone)
<1> DEFINE n == Len(lines)
           m == Len(all)
           lines1 == Append(lines, line)
           all1 == Append(all, line)
<1>1. /\ n \in Nat /\ DOMAIN lines = 1 .. n /\ DOMAIN lines1 = 1 .. n + 1
      /\ lines1[n + 1] = line /\ \A i \in 1 .. n : lines1[i] = lines[i]
  BY AppendProperties, LenProperties
<1>2. /\ m \in Nat /\ DOMAIN all = 1 .. m /\ DOMAIN all1 = 1 .. m + 1
      /\ all1[m + 1] = line /\ \A i \in 1 .. m : all1[i] = all[i]
  BY AppendProperties, LenProperties
<1>9. lines1 \in Seq(L) /\ all1 \in Seq(L) /\ Len(lines1) = n + 1 /\ Len(all1) = m + 1
  BY AppendProperties
<1>10. \A i, j \in 1 .. n : i < j =>
         \E k, l \in 1 .. m : k < l /\ all[k] = lines[i] /\ all[l] = lines[j]
  BY DEF Kept, InOrder
<1> HIDE DEF n, m, lines1, all1
<1>3. Range(lines1) = Range(lines) \cup {line} /\ Range(all1) = Range(all) \cup {line}
  <2>1. Range(lines1) = Range(lines) \cup {line}
    BY RangeOfLonger DEF lines1
  <2>2. Range(all1) = Range(all) \cup {line}
    BY RangeOfLonger DEF all1
  <2> QED BY <2>1, <2>2, Zenon
<1>4. Range(lines1) = Range(all1) \ gone
  <2>1. Range(lines) = Range(all) \ gone /\ line \notin gone
    BY DEF Kept
  <2> QED BY <1>3, <2>1
<1>5. InOrder(lines1, all1)
  <2> SUFFICES ASSUME NEW i \in 1 .. Len(lines1), NEW j \in 1 .. Len(lines1), i < j
               PROVE  \E k, l \in 1 .. Len(all1) :
                        k < l /\ all1[k] = lines1[i] /\ all1[l] = lines1[j]
    BY Zenon DEF InOrder
  <2>0. Len(all1) = m + 1 /\ i \in 1 .. n + 1 /\ j \in 1 .. n + 1
    BY <1>9
  <2>1. i \in 1 .. n /\ lines1[i] = lines[i]
    BY <1>1, <2>0
  <2>2. CASE j \in 1 .. n
    <3>1. PICK k, l \in 1 .. m : k < l /\ all[k] = lines[i] /\ all[l] = lines[j]
      BY <1>10, <2>1, <2>2
    <3>2. k \in 1 .. m + 1 /\ l \in 1 .. m + 1
      BY <1>2
    <3> QED BY <1>1, <1>2, <2>0, <2>1, <2>2, <3>1, <3>2
  <2>3. CASE j = n + 1
    <3>1. lines[i] \in Range(all)
      BY <1>1, <2>1 DEF Kept, Range
    <3>2. PICK k \in 1 .. m : all[k] = lines[i]
      BY <1>2, <3>1 DEF Range
    <3>3. k \in 1 .. m + 1 /\ m + 1 \in 1 .. m + 1 /\ k < m + 1
      BY <1>2
    <3> QED BY <1>1, <1>2, <2>0, <2>1, <2>3, <3>2, <3>3
  <2> QED BY <1>1, <2>0, <2>2, <2>3
<1> QED BY <1>4, <1>5 DEF Kept, lines1, all1

(* A stretch taken out of the middle leaves the rest in order.              *)
LEMMA KeptDrop ==
  ASSUME NEW L, NEW x \in Seq(L), NEW y \in Seq(L), NEW z \in Seq(L), NEW all \in Seq(L),
         NEW gone, NoRepeats(all), Kept((x \o y) \o z, all, gone)
  PROVE  Kept(x \o z, all, gone \cup Range(y))
<1> DEFINE lines == (x \o y) \o z
           rest == x \o z
           a == Len(x)
           b == Len(y)
           c == Len(z)
<1>1. /\ a \in Nat /\ b \in Nat /\ c \in Nat
      /\ DOMAIN x = 1 .. a /\ DOMAIN y = 1 .. b /\ DOMAIN z = 1 .. c
  BY LenProperties
<1>2. x \o y \in Seq(L) /\ lines \in Seq(L) /\ rest \in Seq(L)
  BY ConcatProperties
<1>3. /\ DOMAIN rest = 1 .. a + c /\ Len(rest) = a + c
      /\ \A i \in 1 .. a + c : rest[i] = IF i <= a THEN x[i] ELSE z[i - a]
  BY <1>2, ConcatProperties, LenProperties
<1>4. /\ Len(x \o y) = a + b
      /\ \A i \in 1 .. a + b : (x \o y)[i] = IF i <= a THEN x[i] ELSE y[i - a]
  BY ConcatProperties
<1>5. /\ DOMAIN lines = 1 .. (a + b) + c /\ Len(lines) = (a + b) + c
      /\ \A i \in 1 .. (a + b) + c : lines[i] = IF i <= a + b THEN (x \o y)[i] ELSE z[i - (a + b)]
  BY <1>2, <1>4, ConcatProperties, LenProperties
<1> HIDE DEF lines, rest, a, b, c
<1>6. \A i \in 1 .. a : i \in 1 .. (a + b) + c /\ lines[i] = x[i]
  BY <1>1, <1>4, <1>5
<1>7. \A i \in 1 .. b : a + i \in 1 .. (a + b) + c /\ lines[a + i] = y[i]
  <2> SUFFICES ASSUME NEW i \in 1 .. b
               PROVE  a + i \in 1 .. (a + b) + c /\ lines[a + i] = y[i]
    OBVIOUS
  <2>1. /\ a + i \in 1 .. (a + b) + c /\ a + i \in 1 .. a + b
        /\ a + i <= a + b /\ ~(a + i <= a) /\ (a + i) - a = i
    BY <1>1
  <2> QED BY <1>4, <1>5, <2>1, Zenon
<1>8. \A i \in 1 .. c : (a + b) + i \in 1 .. (a + b) + c /\ lines[(a + b) + i] = z[i]
  <2> SUFFICES ASSUME NEW i \in 1 .. c
               PROVE  (a + b) + i \in 1 .. (a + b) + c /\ lines[(a + b) + i] = z[i]
    OBVIOUS
  <2>1. /\ (a + b) + i \in 1 .. (a + b) + c /\ ~((a + b) + i <= a + b)
        /\ ((a + b) + i) - (a + b) = i
    BY <1>1
  <2> QED BY <1>5, <2>1
<1> DEFINE at(i) == IF i <= a THEN i ELSE i + b
<1>9. \A i \in 1 .. a + c : at(i) \in 1 .. (a + b) + c /\ rest[i] = lines[at(i)]
  <2> SUFFICES ASSUME NEW i \in 1 .. a + c
               PROVE  at(i) \in 1 .. (a + b) + c /\ rest[i] = lines[at(i)]
    OBVIOUS
  <2>1. CASE i <= a
    BY <1>1, <1>3, <1>5, <1>6, <2>1
  <2>2. CASE ~(i <= a)
    <3>1. i - a \in 1 .. c /\ (a + b) + (i - a) = i + b
      BY <1>1, <2>2
    <3>2. i + b \in 1 .. (a + b) + c /\ lines[i + b] = z[i - a]
      BY <1>8, <3>1
    <3> QED BY <1>3, <1>5, <2>2, <3>2
  <2> QED BY <2>1, <2>2
<1>10. NoRepeats(lines) /\ Range(lines) = Range(all) \ gone /\ InOrder(lines, all)
  BY <1>2, KeptNoRepeats DEF Kept, lines
<1>11. InOrder(rest, all)
  <2>1. ASSUME NEW i \in 1 .. a + c, NEW j \in 1 .. a + c, i < j
        PROVE  \E k, l \in 1 .. Len(all) : k < l /\ all[k] = rest[i] /\ all[l] = rest[j]
    <3>1. at(i) \in 1 .. (a + b) + c /\ at(j) \in 1 .. (a + b) + c
          /\ rest[i] = lines[at(i)] /\ rest[j] = lines[at(j)]
      BY <1>9
    <3>2. at(i) < at(j)
      BY <1>1, <2>1
    <3> HIDE DEF at
    <3>3. PICK k, l \in 1 .. Len(all) : k < l /\ all[k] = lines[at(i)] /\ all[l] = lines[at(j)]
      BY <1>5, <1>10, <3>1, <3>2 DEF InOrder
    <3> QED BY <3>1, <3>3, Zenon
  <2>2. \A i, j \in 1 .. a + c : i < j =>
          \E k, l \in 1 .. Len(all) : k < l /\ all[k] = rest[i] /\ all[l] = rest[j]
    BY <2>1
  <2>3. Len(rest) = a + c
    BY <1>3
  <2> HIDE DEF at
  <2> QED BY <2>2, <2>3 DEF InOrder
<1>12. Range(rest) = Range(all) \ (gone \cup Range(y))
  <2>1. \A v : v \in Range(rest) <=> \E i \in 1 .. a + c : v = rest[i]
    BY <1>3 DEF Range
  <2>2. \A v : v \in Range(lines) <=> \E i \in 1 .. (a + b) + c : v = lines[i]
    BY <1>5 DEF Range
  <2>3. \A v : v \in Range(y) <=> \E i \in 1 .. b : v = y[i]
    BY <1>1 DEF Range
  <2>4. ASSUME NEW i \in 1 .. a + c PROVE rest[i] \in Range(lines) /\ rest[i] \notin Range(y)
    <3>1. rest[i] \in Range(lines)
      BY <1>5, <1>9, <2>2
    <3>2. ASSUME NEW j \in 1 .. b, rest[i] = y[j] PROVE FALSE
      <4>1. lines[at(i)] = lines[a + j] /\ at(i) \in 1 .. (a + b) + c /\ a + j \in 1 .. (a + b) + c
        BY <1>5, <1>7, <1>9, <3>2
      <4>2. at(i) # a + j
        BY <1>1
      <4> QED BY <1>5, <1>10, <4>1, <4>2 DEF NoRepeats
    <3> QED BY <2>3, <3>1, <3>2
  <2>5. ASSUME NEW i \in 1 .. (a + b) + c PROVE lines[i] \in Range(rest) \/ lines[i] \in Range(y)
    <3>1. CASE i <= a
      <4>1. i \in 1 .. a /\ i \in 1 .. a + c /\ rest[i] = x[i] /\ lines[i] = x[i]
        BY <1>1, <1>3, <1>6, <3>1
      <4> QED BY <2>1, <4>1
    <3>2. CASE a < i /\ i <= a + b
      <4>1. i - a \in 1 .. b /\ a + (i - a) = i
        BY <1>1, <3>2
      <4> QED BY <1>7, <2>3, <4>1
    <3>3. CASE i > a + b
      <4>1. i - (a + b) \in 1 .. c /\ (a + b) + (i - (a + b)) = i /\ i - b \in 1 .. a + c
            /\ ~(i - b <= a) /\ (i - b) - a = i - (a + b)
        BY <1>1, <3>3
      <4>2. rest[i - b] = z[i - (a + b)] /\ lines[i] = z[i - (a + b)]
        BY <1>3, <1>8, <4>1
      <4> QED BY <2>1, <4>1, <4>2
    <3> QED BY <1>1, <3>1, <3>2, <3>3
  <2>6. Range(rest) = Range(lines) \ Range(y)
    <3>1. \A v \in Range(rest) : v \in Range(lines) \ Range(y)
      BY <2>1, <2>4, Zenon
    <3>2. \A v \in Range(lines) \ Range(y) : v \in Range(rest)
      BY <2>2, <2>5, Zenon
    <3> QED BY <3>1, <3>2, Zenon
  <2> QED BY <1>10, <2>6
<1> QED BY <1>11, <1>12 DEF Kept, rest

-----------------------------------------------------------------------------
(* The shape of the state.                                                  *)
LEMMA LineLength ==
  ASSUME NEW line \in Lines
  PROVE  Length[line] \in Nat /\ Length[line] < SmallBuffer /\ Length[line] < LargeBuffer
<1>1. Statement[line] \in Seq(Pieces)
  BY LoggingAssumption
<1>2. Length[line] = TotalLength(LoggedPieces(Statement[line]))
  BY DEF Length, Logged
<1>3. /\ TotalLength(LoggedPieces(Statement[line])) \in Nat
      /\ TotalLength(LoggedPieces(Statement[line])) < SmallBuffer
  BY <1>1, LoggedFits, TotalLengthType
<1>4. SmallBuffer \in Nat /\ LargeBuffer \in Nat /\ SmallBuffer <= LargeBuffer
  BY SmallBufferAssumption, LoggingAssumption
<1> QED BY <1>2, <1>3, <1>4

(* The cuts of a sequence of lines are sequences of lines.                  *)
LEMMA SubSeqType ==
  ASSUME NEW lines \in Seq(Lines), NEW m \in 0 .. Len(lines), NEW n \in 0 .. m
  PROVE  /\ SubSeq(lines, 1, n) \in Seq(Lines) /\ SubSeq(lines, n + 1, m) \in Seq(Lines)
         /\ SubSeq(lines, m + 1, Len(lines)) \in Seq(Lines)
OBVIOUS

(* What a write passes on, and what it keeps, are lines.                    *)
LEMMA PassOnType ==
  ASSUME file \in Seq(Lines), NEW lines \in Seq(Lines),
         NEW m \in 0 .. Len(lines), NEW n \in 0 .. m, PassOn(lines, n, m)
  PROVE  file' \in Seq(Lines) /\ stdio' \in Seq(Lines)
<1>1. SubSeq(lines, 1, n) \in Seq(Lines) /\ SubSeq(lines, n + 1, m) \in Seq(Lines)
  BY SubSeqType
<1> QED BY <1>1, ConcatProperties DEF PassOn

(* So are they, and what it drops, when it fails.                           *)
LEMMA FailedWriteType ==
  ASSUME TypeOK, NEW lines \in Seq(Lines), FailedWrite(lines)
  PROVE  /\ file' \in Seq(Lines) /\ stdio' \in Seq(Lines)
         /\ failures' \in 0 .. MaxFailures /\ lost' \subseteq Lines
<1>1. PICK m \in 0 .. Len(lines) : \E n \in 0 .. m :
        PassOn(lines, n, m) /\ lost' = lost \cup Range(SubSeq(lines, m + 1, Len(lines)))
  BY Zenon DEF FailedWrite
<1>2. file' \in Seq(Lines) /\ stdio' \in Seq(Lines)
  <2>1. PICK n \in 0 .. m : PassOn(lines, n, m)
    BY <1>1
  <2> QED BY <2>1, PassOnType DEF TypeOK
<1>3. Range(SubSeq(lines, m + 1, Len(lines))) \subseteq Lines
  <2>1. m \in 0 .. m
    BY LenProperties
  <2>2. SubSeq(lines, m + 1, Len(lines)) \in Seq(Lines)
    BY <2>1, SubSeqType, Zenon
  <2> QED BY <2>2, RangeOfSeq, Zenon
<1>4. failures \in 0 .. MaxFailures /\ failures < MaxFailures /\ failures' = failures + 1
      /\ MaxFailures \in Nat /\ lost \subseteq Lines
  BY LoggingAssumption DEF TypeOK, FailedWrite
<1> QED BY <1>1, <1>2, <1>3, <1>4

(* A write that keeps all it does not pass on.                              *)
LEMMA PassAllType ==
  ASSUME TypeOK, NEW lines \in Seq(Lines), NEW n \in 0 .. Len(lines), PassOn(lines, n, Len(lines))
  PROVE  file' \in Seq(Lines) /\ stdio' \in Seq(Lines)
<1>1. Len(lines) \in 0 .. Len(lines)
  BY LenProperties
<1> QED BY <1>1, PassOnType DEF TypeOK

(* The buffer at hand, the rest, and what stdio holds with it are lines.    *)
LEMMA HeldType ==
  ASSUME TypeOK, toWrite # <<>>
  PROVE  /\ Head(toWrite) \in Seq(Lines) /\ Tail(toWrite) \in Seq(Seq(Lines))
         /\ Held \in Seq(Lines)
<1>1. Head(toWrite) \in Seq(Lines) /\ Tail(toWrite) \in Seq(Seq(Lines))
  BY HeadTailProperties DEF TypeOK
<1> QED BY <1>1, ConcatProperties DEF TypeOK, Held

(* The initial state has the right shape.                                   *)
LEMMA TypeInit == Init => TypeOK
<1>1. 0 \in 0 .. LargeBuffer - 1 /\ 0 \in 0 .. MaxFailures
  BY SmallBufferAssumption, LoggingAssumption
<1>2. <<>> \in Seq(Lines) /\ <<>> \in Seq(Seq(Lines))
  BY EmptySeq
<1> SUFFICES ASSUME Init PROVE TypeOK
  OBVIOUS
<1>3. /\ used \in 0 .. LargeBuffer - 1 /\ failures \in 0 .. MaxFailures
      /\ current \in Seq(Lines) /\ buffers \in Seq(Seq(Lines)) /\ toWrite \in Seq(Seq(Lines))
      /\ stdio \in Seq(Lines) /\ file \in Seq(Lines) /\ appended \in Seq(Lines)
  BY <1>1, <1>2, Zenon DEF Init
<1> QED BY <1>3, Zenon DEF Init, TypeOK

(* Every step keeps the shape; Append needs the bound on a line's length.   *)
LEMMA TypeNext == TypeOK /\ [Next]_vars => TypeOK'
<1> SUFFICES ASSUME TypeOK, [Next]_vars PROVE TypeOK'
  OBVIOUS
<1>1. CASE Owner
  BY <1>1 DEF TypeOK, Owner, StartThread, WaitForThread, Constructed, Destroy, NotifyWriter, Join,
     data, output
<1>2. ASSUME NEW line \in Lines, AppendLine(line) PROVE TypeOK'
  <2>1. UNCHANGED <<owner, latched, writer, running, toWrite, stdio, file, failures, lost>>
    BY <1>2 DEF AppendLine, output
  <2>2. appended' \in Seq(Lines)
    BY <1>2 DEF AppendLine, TypeOK
  <2>3. Length[line] \in Nat /\ used \in Int /\ 0 <= used /\ used < LargeBuffer /\ LargeBuffer \in Nat
    BY LineLength, LoggingAssumption DEF TypeOK
  <2>4. /\ current' \in Seq(Lines) /\ used' \in 0 .. LargeBuffer - 1
        /\ buffers' \in Seq(Seq(Lines)) /\ notified' \in BOOLEAN
    <3>1. CASE AppendToCurrent(line)
      <4>1. used' = used + Length[line] /\ LargeBuffer - used > Length[line]
        BY <3>1 DEF AppendToCurrent, Fits
      <4>2. used' \in 0 .. LargeBuffer - 1
        BY <2>3, <4>1
      <4> QED BY <3>1, <4>2 DEF AppendToCurrent, TypeOK
    <3>2. CASE AppendToNew(line)
      <4>1. buffers' \in Seq(Seq(Lines)) /\ notified' \in BOOLEAN
        BY <3>2, AppendProperties DEF AppendToNew, TypeOK
      <4>2. \/ current' = <<line>> /\ used' = Length[line] /\ LargeBuffer > Length[line]
            \/ current' = <<>> /\ used' = 0
        BY <3>2 DEF AppendToNew
      <4>3. current' \in Seq(Lines)
        <5>1. <<line>> \in Seq(Lines) /\ <<>> \in Seq(Lines)
          OBVIOUS
        <5> QED BY <4>2, <5>1, Zenon
      <4>4. used' \in 0 .. LargeBuffer - 1
        BY <2>3, <4>2
      <4> QED BY <4>1, <4>3, <4>4
    <3> QED BY <1>2, <3>1, <3>2 DEF AppendLine
  <2> QED BY <2>1, <2>2, <2>4 DEF TypeOK
<1>3. CASE NotifyConstructor \/ CheckRunning \/ LockAndWait
  BY <1>3 DEF TypeOK, NotifyConstructor, CheckRunning, LockAndWait, data, output
<1>4. CASE LockAndTake \/ WakeNotified \/ WakeTimeout
  <2>1. TakeBuffers /\ notified' \in BOOLEAN
    BY <1>4 DEF LockAndTake, WakeNotified, WakeTimeout, TypeOK
  <2>2. toWrite' \in Seq(Seq(Lines))
    BY <2>1, AppendProperties DEF TakeBuffers, TypeOK
  <2>3. used' \in 0 .. LargeBuffer - 1
    BY <2>1, SmallBufferAssumption, LoggingAssumption DEF TakeBuffers
  <2> QED BY <2>1, <2>2, <2>3 DEF TypeOK, TakeBuffers, output
<1>5. CASE WriteBuffer
  <2>1. Tail(toWrite) \in Seq(Seq(Lines)) /\ Held \in Seq(Lines)
    BY <1>5, HeldType DEF WriteBuffer
  <2>2. file' \in Seq(Lines) /\ stdio' \in Seq(Lines)
    BY <1>5, <2>1, PassAllType DEF WriteBuffer
  <2> QED BY <1>5, <2>1, <2>2 DEF WriteBuffer, TypeOK
<1>6. CASE WriteFails
  <2>1. Tail(toWrite) \in Seq(Seq(Lines)) /\ Held \in Seq(Lines)
    BY <1>6, HeldType DEF WriteFails
  <2>2. /\ file' \in Seq(Lines) /\ stdio' \in Seq(Lines)
        /\ failures' \in 0 .. MaxFailures /\ lost' \subseteq Lines
    BY <1>6, <2>1, FailedWriteType DEF WriteFails
  <2> QED BY <1>6, <2>1, <2>2 DEF WriteFails, TypeOK
<1>7. CASE Flush \/ Exit
  <2>1. stdio \in Seq(Lines) /\ Len(stdio) \in 0 .. Len(stdio)
    BY LenProperties DEF TypeOK
  <2>2. /\ file' \in Seq(Lines) /\ stdio' \in Seq(Lines)
        /\ failures' \in 0 .. MaxFailures /\ lost' \subseteq Lines
    <3>1. CASE PassOn(stdio, Len(stdio), Len(stdio)) /\ UNCHANGED <<failures, lost>>
      BY <2>1, <3>1, PassAllType DEF TypeOK
    <3>2. CASE FailedWrite(stdio)
      BY <2>1, <3>2, FailedWriteType
    <3> QED BY <1>7, <3>1, <3>2 DEF Flush, Exit
  <2> QED BY <1>7, <2>2 DEF Flush, Exit, TypeOK
<1>8. CASE UNCHANGED vars
  BY <1>8 DEF vars, TypeOK
<1> QED BY <1>1, <1>2, <1>3, <1>4, <1>5, <1>6, <1>7, <1>8 DEF Next, Writer

(* The state of the logger has its shape, always: in particular a buffer is *)
(* never filled to its end, so FixedBuffer::Append never drops a line that  *)
(* the check before it has admitted.                                        *)
THEOREM LoggerTypeCorrect == Spec => []TypeOK
BY TypeInit, TypeNext, PTL DEF Spec

-----------------------------------------------------------------------------
(* The places of the lines, laid end to end: the file, stdio, the buffers   *)
(* to write, the full buffers, the current one.                             *)
Places(f, s, w, b, c) == Cat(Cat(Cat(Cat(f, s), w), b), c)

(* Cat makes sequences,                                                     *)
LEMMA CatType ==
  ASSUME NEW L, NEW x \in Seq(L), NEW y \in Seq(L)
  PROVE  Cat(x, y) \in Seq(L)
BY ConcatProperties DEF Cat

(* groups as one likes (CatAssociative), and has <<>> as its unit.          *)
LEMMA CatEmpty ==
  ASSUME NEW L, NEW x \in Seq(L)
  PROVE  Cat(x, <<>>) = x /\ Cat(<<>>, x) = x
BY ConcatEmptySeq DEF Cat

(* An element appended to the second is appended to the whole.              *)
LEMMA CatAppend ==
  ASSUME NEW L, NEW x \in Seq(L), NEW c \in Seq(L), NEW line \in L
  PROVE  /\ Cat(x, Append(c, line)) = Append(Cat(x, c), line)
         /\ Cat(x, <<line>>) = Append(x, line)
BY DEF Cat

(* The first half, for the lines of this module.                            *)
LEMMA AppendedLast ==
  ASSUME NEW x \in Seq(Lines), NEW c \in Seq(Lines), NEW line \in Lines
  PROVE  Cat(x, Append(c, line)) = Append(Cat(x, c), line)
BY DEF Cat

(* What the writer has in hand, and what Append has filled.                 *)
LEMMA PlacesGrouped ==
  ASSUME NEW L, NEW f \in Seq(L), NEW s \in Seq(L), NEW w \in Seq(L), NEW b \in Seq(L), NEW c \in Seq(L)
  PROVE  /\ Places(f, s, w, b, c) \in Seq(L)
         /\ Places(f, s, w, b, c) = Cat(Cat(f, s), Cat(Cat(w, b), c))
<1> DEFINE fs == Cat(f, s)
<1>1. fs \in Seq(L) /\ Cat(w, b) \in Seq(L) /\ Cat(Cat(w, b), c) \in Seq(L)
  BY CatType
<1> HIDE DEF fs
<1>2. Cat(Cat(fs, w), b) = Cat(fs, Cat(w, b))
  BY <1>1, CatAssociative
<1>3. Cat(Cat(fs, Cat(w, b)), c) = Cat(fs, Cat(Cat(w, b), c))
  BY <1>1, CatAssociative
<1>4. Cat(fs, Cat(Cat(w, b), c)) \in Seq(L)
  BY <1>1, CatType
<1> QED BY <1>2, <1>3, <1>4, Zenon DEF Places, fs

(* Two sequences end to end have the elements of both.                      *)
LEMMA RangeCat ==
  ASSUME NEW L, NEW x \in Seq(L), NEW y \in Seq(L)
  PROVE  Range(Cat(x, y)) = Range(x) \cup Range(y)
<1>1. Range(x \o y) = Range(x) \cup Range(y)
  BY RangeConcatenation
<1> QED BY <1>1, Zenon DEF Cat

(* What stdio holds is among the lines.                                     *)
LEMMA PlacesHold ==
  ASSUME NEW L, NEW f \in Seq(L), NEW s \in Seq(L), NEW w \in Seq(L), NEW b \in Seq(L), NEW c \in Seq(L)
  PROVE  Range(s) \subseteq Range(Places(f, s, w, b, c))
<1> DEFINE fs == Cat(f, s)
           r == Cat(Cat(w, b), c)
<1>1. fs \in Seq(L) /\ Cat(w, b) \in Seq(L) /\ r \in Seq(L)
  BY CatType
<1>2. Range(fs) = Range(f) \cup Range(s)
  BY RangeCat
<1>3. Places(f, s, w, b, c) = Cat(fs, r)
  BY PlacesGrouped
<1> HIDE DEF fs, r
<1>4. Range(Cat(fs, r)) = Range(fs) \cup Range(r)
  BY <1>1, RangeCat
<1> QED BY <1>2, <1>3, <1>4

(* A sequence cut after n and after m elements is its three stretches.      *)
LEMMA CutTwice ==
  ASSUME NEW L, NEW s \in Seq(L), NEW m \in 0 .. Len(s), NEW n \in 0 .. m
  PROVE  /\ SubSeq(s, 1, m) \in Seq(L) /\ SubSeq(s, m + 1, Len(s)) \in Seq(L)
         /\ SubSeq(s, 1, n) \in Seq(L) /\ SubSeq(s, n + 1, m) \in Seq(L)
         /\ Cat(SubSeq(s, 1, m), SubSeq(s, m + 1, Len(s))) = s
         /\ Cat(SubSeq(s, 1, n), SubSeq(s, n + 1, m)) = SubSeq(s, 1, m)
<1>1. /\ SubSeq(s, 1, m) \in Seq(L) /\ SubSeq(s, m + 1, Len(s)) \in Seq(L)
      /\ SubSeq(s, 1, n) \in Seq(L) /\ SubSeq(s, n + 1, m) \in Seq(L)
  OBVIOUS
<1>2. /\ 1 \in 1 .. Len(s) + 1 /\ m \in 1 - 1 .. Len(s) /\ Len(s) \in m .. Len(s)
      /\ n \in 1 - 1 .. Len(s) /\ m \in n .. Len(s)
  BY LenProperties
<1>3. SubSeq(s, 1, m) \o SubSeq(s, m + 1, Len(s)) = SubSeq(s, 1, Len(s))
  BY <1>2, ConcatAdjacentSubSeq, Zenon
<1>4. SubSeq(s, 1, n) \o SubSeq(s, n + 1, m) = SubSeq(s, 1, m)
  BY <1>2, ConcatAdjacentSubSeq, Zenon
<1>5. SubSeq(s, 1, Len(s)) = s
  BY SubSeqFull
<1> QED BY <1>1, <1>3, <1>4, <1>5, Zenon DEF Cat

(* What a write passes on, keeps and drops.                                 *)
LEMMA KeptPassOn ==
  ASSUME NEW f \in Seq(Lines), NEW s \in Seq(Lines), NEW w \in Seq(Lines), NEW b \in Seq(Lines),
         NEW c \in Seq(Lines), NEW all \in Seq(Lines), NEW gone, NoRepeats(all),
         Kept(Places(f, s, w, b, c), all, gone),
         NEW m \in 0 .. Len(s), NEW n \in 0 .. m
  PROVE  Kept(Places(Cat(f, SubSeq(s, 1, n)), SubSeq(s, n + 1, m), w, b, c), all,
              gone \cup Range(SubSeq(s, m + 1, Len(s))))
<1> DEFINE rest == Cat(Cat(w, b), c)
           u == SubSeq(s, 1, m)
           y == SubSeq(s, m + 1, Len(s))
           p == SubSeq(s, 1, n)
           q == SubSeq(s, n + 1, m)
<1>1. /\ u \in Seq(Lines) /\ y \in Seq(Lines) /\ p \in Seq(Lines) /\ q \in Seq(Lines)
      /\ Cat(u, y) = s /\ Cat(p, q) = u
  BY CutTwice, Zenon
<1>2. rest \in Seq(Lines)
  BY CatType
<1> HIDE DEF u, y, p, q, rest
<1>3. Cat(f, u) \in Seq(Lines) /\ Cat(f, p) \in Seq(Lines)
  BY <1>1, CatType
<1>4. Places(f, s, w, b, c) = Cat(Cat(Cat(f, u), y), rest)
  <2>1. Places(f, s, w, b, c) = Cat(Cat(f, s), rest)
    BY PlacesGrouped DEF rest
  <2>2. Cat(Cat(f, u), y) = Cat(f, Cat(u, y))
    BY <1>1, CatAssociative
  <2> QED BY <1>1, <2>1, <2>2, Zenon
<1>5. Places(Cat(f, p), q, w, b, c) = Cat(Cat(f, u), rest)
  <2>1. Places(Cat(f, p), q, w, b, c) = Cat(Cat(Cat(f, p), q), rest)
    <3>1. /\ Cat(f, p) \in Seq(Lines) /\ q \in Seq(Lines)
      BY <1>1, <1>3, Zenon
    <3> QED BY <3>1, PlacesGrouped DEF rest
  <2>2. Cat(Cat(f, p), q) = Cat(f, Cat(p, q))
    BY <1>1, CatAssociative
  <2> QED BY <1>1, <2>1, <2>2, Zenon
<1>6. Kept(Cat(Cat(f, u), rest), all, gone \cup Range(y))
  <2>1. Kept(Cat(Cat(Cat(f, u), y), rest), all, gone)
    BY <1>4, Zenon
  <2> DEFINE x == Cat(f, u)
  <2>2. Kept((x \o y) \o rest, all, gone) /\ x \in Seq(Lines)
    BY <1>3, <2>1, Zenon DEF Cat
  <2> HIDE DEF x
  <2>3. Kept(x \o rest, all, gone \cup Range(y))
    BY <1>1, <1>2, <2>2, KeptDrop, Zenon
  <2> QED BY <2>3, Zenon DEF Cat, x
<1> QED BY <1>5, <1>6, Zenon DEF p, q, y

-----------------------------------------------------------------------------
(* The inductive invariant.                                                 *)

(* No line is appended twice.                                               *)
AppendedOnce == NoRepeats(appended)

(* A dropped line was appended.                                             *)
DroppedWereAppended == lost \subseteq Range(appended)

(* The writer has buffers to write only while it writes; the thread begins  *)
(* with the constructor, leaves nothing in stdio, and is joined at its end. *)
WriterIdle ==
  /\ owner = "constructing" => writer = "none"
  /\ writer # "write" => toWrite = <<>>
  /\ writer = "exited" => stdio = <<>>
  /\ owner = "joined" => writer = "exited"

(* The inductive invariant.                                                 *)
Inv == TypeOK /\ LinesInOrder /\ AppendedOnce /\ DroppedWereAppended /\ WriterIdle

(* LinesInOrder says that the places keep the lines appended,               *)
LEMMA OrderIsKept ==
  LinesInOrder <=>
    Kept(Places(file, stdio, FlattenSeq(toWrite), FlattenSeq(buffers), current), appended, lost)
BY Zenon DEF LinesInOrder, AreKept, Kept, Places, Cat

(* and so it does of the next state.                                        *)
LEMMA OrderIsKeptNext ==
  LinesInOrder' <=>
    Kept(Places(file', stdio', FlattenSeq(toWrite'), FlattenSeq(buffers'), current'), appended', lost')
BY Zenon DEF LinesInOrder, AreKept, Kept, Places, Cat

(* Every place is a sequence of lines.                                      *)
LEMMA PartTypes ==
  ASSUME TypeOK
  PROVE  /\ file \in Seq(Lines) /\ stdio \in Seq(Lines) /\ current \in Seq(Lines)
         /\ toWrite \in Seq(Seq(Lines)) /\ buffers \in Seq(Seq(Lines)) /\ appended \in Seq(Lines)
         /\ FlattenSeq(toWrite) \in Seq(Lines) /\ FlattenSeq(buffers) \in Seq(Lines)
<1>1. /\ file \in Seq(Lines) /\ stdio \in Seq(Lines) /\ current \in Seq(Lines)
      /\ toWrite \in Seq(Seq(Lines)) /\ buffers \in Seq(Seq(Lines)) /\ appended \in Seq(Lines)
  BY Zenon DEF TypeOK
<1> QED BY <1>1, FlattenType

(* AsyncLogging::Append adds its line at the end, in either buffer.         *)
LEMMA AppendKeepsOrder ==
  ASSUME Inv, NEW line \in Lines, AppendLine(line)
  PROVE  LinesInOrder'
<1> DEFINE w == FlattenSeq(toWrite)
           b == FlattenSeq(buffers)
           fsw == Cat(Cat(file, stdio), w)
<1>1. /\ file \in Seq(Lines) /\ stdio \in Seq(Lines) /\ current \in Seq(Lines)
      /\ buffers \in Seq(Seq(Lines)) /\ appended \in Seq(Lines)
      /\ w \in Seq(Lines) /\ b \in Seq(Lines)
  BY PartTypes DEF Inv
<1>2. fsw \in Seq(Lines) /\ Cat(fsw, b) \in Seq(Lines) /\ Cat(Cat(fsw, b), current) \in Seq(Lines)
  BY <1>1, CatType
<1>3. /\ Kept(Cat(Cat(fsw, b), current), appended, lost)
      /\ lost \subseteq Range(appended) /\ line \notin Range(appended)
  BY OrderIsKept, Zenon DEF Inv, Places, AppendLine, DroppedWereAppended
<1>4. Kept(Append(Cat(Cat(fsw, b), current), line), Append(appended, line), lost)
  <2> HIDE DEF fsw, b
  <2> QED BY <1>1, <1>2, <1>3, KeptAppend
<1>5. /\ file' = file /\ stdio' = stdio /\ FlattenSeq(toWrite') = w
      /\ appended' = Append(appended, line) /\ lost' = lost
  BY Zenon DEF AppendLine, output
<1>6. Cat(Cat(fsw, FlattenSeq(buffers')), current') = Append(Cat(Cat(fsw, b), current), line)
  <2>1. CASE AppendToCurrent(line)
    <3>1. FlattenSeq(buffers') = b /\ current' = Append(current, line)
      BY <2>1, Zenon DEF AppendToCurrent
    <3> HIDE DEF fsw, b
    <3>2. ASSUME NEW x \in Seq(Lines)
          PROVE  Cat(x, Append(current, line)) = Append(Cat(x, current), line)
      BY <1>1, AppendedLast, Zenon
    <3> QED BY <1>2, <3>1, <3>2, Zenon
  <2>2. CASE AppendToNew(line)
    <3>1. buffers' = Append(buffers, current) /\ current' = <<line>>
      BY <2>2, LineLength DEF AppendToNew
    <3>2. FlattenSeq(buffers') = Cat(b, current)
      BY <1>1, <3>1, FlattenAppend DEF Cat
    <3> HIDE DEF fsw, b
    <3>3. Cat(fsw, Cat(b, current)) = Cat(Cat(fsw, b), current)
      BY <1>1, <1>2, CatAssociative
    <3> DEFINE all == Cat(Cat(fsw, b), current)
    <3>4. Cat(all, <<line>>) = Append(all, line)
      <4>1. all \in Seq(Lines) /\ current \in Seq(Lines)
        BY <1>1, <1>2, Zenon
      <4> HIDE DEF all
      <4> QED BY <4>1, CatAppend
    <3> QED BY <3>1, <3>2, <3>3, <3>4, Zenon
  <2> QED BY <2>1, <2>2 DEF AppendLine
<1> QED BY <1>4, <1>5, <1>6, OrderIsKeptNext, Zenon DEF Places

(* The swap moves the buffers to a place that was empty.                    *)
LEMMA TakeKeepsOrder ==
  ASSUME Inv, TakeBuffers, writer # "write"
  PROVE  LinesInOrder'
<1> DEFINE b == FlattenSeq(buffers)
           fs == Cat(file, stdio)
<1>1. /\ file \in Seq(Lines) /\ stdio \in Seq(Lines) /\ current \in Seq(Lines)
      /\ buffers \in Seq(Seq(Lines)) /\ b \in Seq(Lines)
  BY PartTypes DEF Inv
<1>2. FlattenSeq(toWrite) = <<>>
  BY FlattenEmpty DEF Inv, WriterIdle
<1>3. FlattenSeq(toWrite') = Cat(b, current) /\ FlattenSeq(buffers') = <<>> /\ current' = <<>>
  BY <1>1, FlattenAppend, FlattenEmpty DEF TakeBuffers, Cat
<1>4. UNCHANGED <<file, stdio, appended, lost>>
  BY DEF TakeBuffers, output
<1>5. Places(file', stdio', FlattenSeq(toWrite'), FlattenSeq(buffers'), current')
        = Places(file, stdio, FlattenSeq(toWrite), b, current)
  <2>1. fs \in Seq(Lines) /\ Cat(b, current) \in Seq(Lines) /\ Cat(fs, Cat(b, current)) \in Seq(Lines)
    BY <1>1, CatType
  <2> HIDE DEF fs, b
  <2>2. Cat(Cat(fs, Cat(b, current)), <<>>) = Cat(fs, Cat(b, current))
    BY <2>1, CatEmpty
  <2>3. Cat(fs, <<>>) = fs
    BY <2>1, CatEmpty
  <2>4. Cat(Cat(fs, b), current) = Cat(fs, Cat(b, current))
    BY <1>1, <2>1, CatAssociative
  <2> QED BY <1>2, <1>3, <1>4, <2>2, <2>3, <2>4, Zenon DEF Places, fs, b
<1> QED BY <1>4, <1>5, OrderIsKept, OrderIsKeptNext, Zenon DEF Inv

(* A write, of lines that stdio held and of the buffer at hand, if any.     *)
LEMMA PassOnKeepsOrder ==
  ASSUME Inv, NEW lines \in Seq(Lines), NEW rest \in Seq(Lines),
         Cat(stdio, FlattenSeq(toWrite)) = Cat(lines, rest), FlattenSeq(toWrite') = rest,
         NEW m \in 0 .. Len(lines), NEW n \in 0 .. m, PassOn(lines, n, m),
         lost' = lost \cup Range(SubSeq(lines, m + 1, Len(lines))),
         UNCHANGED <<buffers, current, appended>>
  PROVE  LinesInOrder' /\ DroppedWereAppended'
<1> DEFINE b == FlattenSeq(buffers)
           w == FlattenSeq(toWrite)
           y == SubSeq(lines, m + 1, Len(lines))
<1>1. /\ file \in Seq(Lines) /\ stdio \in Seq(Lines) /\ current \in Seq(Lines)
      /\ w \in Seq(Lines) /\ b \in Seq(Lines) /\ appended \in Seq(Lines)
  BY PartTypes DEF Inv
<1>2. Places(file, stdio, w, b, current) = Places(file, lines, rest, b, current)
  <2> HIDE DEF w, b
  <2>1. Cat(Cat(file, stdio), w) = Cat(file, Cat(stdio, w))
    BY <1>1, CatAssociative
  <2>2. Cat(Cat(file, lines), rest) = Cat(file, Cat(lines, rest))
    BY <1>1, CatAssociative
  <2> QED BY <2>1, <2>2, Zenon DEF Places, w
<1>3. Kept(Places(file, lines, rest, b, current), appended, lost) /\ NoRepeats(appended)
  BY <1>2, OrderIsKept, Zenon DEF Inv, AppendedOnce
<1>4. Kept(Places(Cat(file, SubSeq(lines, 1, n)), SubSeq(lines, n + 1, m), rest, b, current),
           appended, lost \cup Range(y))
  <2> HIDE DEF b
  <2> QED BY <1>1, <1>3, KeptPassOn, Zenon
<1>5. LinesInOrder'
  BY <1>4, OrderIsKeptNext, Zenon DEF PassOn, Cat
<1>6. Range(y) \subseteq Range(appended)
  <2>1. Range(lines) \subseteq Range(Places(file, lines, rest, b, current))
    <3> HIDE DEF b
    <3> QED BY <1>1, PlacesHold, Zenon
  <2>2. Range(y) \subseteq Range(lines)
    <3>1. \A i \in 1 .. Len(y) : y[i] = lines[m + i] /\ m + i \in 1 .. Len(lines)
      OBVIOUS
    <3>2. DOMAIN y = 1 .. Len(y) /\ DOMAIN lines = 1 .. Len(lines)
      OBVIOUS
    <3> HIDE DEF y
    <3> QED BY <3>1, <3>2, Zenon DEF Range
  <2>3. Range(Places(file, lines, rest, b, current)) \subseteq Range(appended)
    BY <1>3, Zenon DEF Kept
  <2> QED BY <2>1, <2>2, <2>3, Zenon
<1>7. DroppedWereAppended'
  <2>1. appended' = appended /\ lost' = lost \cup Range(y) /\ lost \subseteq Range(appended)
    BY Zenon DEF Inv, DroppedWereAppended
  <2> HIDE DEF y
  <2> QED BY <1>6, <2>1, Zenon DEF DroppedWereAppended
<1> QED BY <1>5, <1>7

(* fwrite without an error drops nothing.                                   *)
LEMMA DropsNothing ==
  ASSUME NEW lines \in Seq(Lines)
  PROVE  /\ Len(lines) \in 0 .. Len(lines)
         /\ Range(SubSeq(lines, Len(lines) + 1, Len(lines))) = {}
<1>1. Len(lines) \in Nat
  BY LenProperties
<1>2. SubSeq(lines, Len(lines) + 1, Len(lines)) = <<>>
  BY <1>1, SubSeqEmpty
<1>3. DOMAIN <<>> = {}
  OBVIOUS
<1> QED BY <1>1, <1>2, <1>3 DEF Range

(* LogFile::Append moves the buffer at hand on, or drops some of it.        *)
LEMMA WriteKeepsOrder ==
  ASSUME Inv, WriteBuffer \/ WriteFails
  PROVE  LinesInOrder' /\ DroppedWereAppended'
<1> DEFINE rest == FlattenSeq(Tail(toWrite))
<1>1. /\ toWrite # <<>> /\ toWrite' = Tail(toWrite)
      /\ UNCHANGED <<buffers, current, appended>>
  BY DEF WriteBuffer, WriteFails
<1>2. /\ Head(toWrite) \in Seq(Lines) /\ Tail(toWrite) \in Seq(Seq(Lines)) /\ Held \in Seq(Lines)
      /\ rest \in Seq(Lines) /\ stdio \in Seq(Lines) /\ toWrite \in Seq(Seq(Lines))
  BY <1>1, HeldType, FlattenType, PartTypes DEF Inv
<1>3. Cat(stdio, FlattenSeq(toWrite)) = Cat(Held, rest) /\ FlattenSeq(toWrite') = rest
  <2>1. FlattenSeq(toWrite) = Cat(Head(toWrite), rest)
    BY <1>1, <1>2, FlattenHeadTail, Zenon DEF Cat
  <2> DEFINE h == Head(toWrite)
  <2> HIDE DEF rest, h
  <2>2. Cat(stdio, Cat(h, rest)) = Cat(Cat(stdio, h), rest)
    BY <1>2, CatAssociative DEF h
  <2> QED BY <1>1, <2>1, <2>2, Zenon DEF Held, Cat, h, rest
<1> HIDE DEF rest
<1>4. CASE WriteBuffer
  <2>1. PICK n \in 0 .. Len(Held) : PassOn(Held, n, Len(Held))
    BY <1>4, Zenon DEF WriteBuffer
  <2>2. lost' = lost \cup Range(SubSeq(Held, Len(Held) + 1, Len(Held)))
        /\ Len(Held) \in 0 .. Len(Held)
    BY <1>2, <1>4, DropsNothing DEF WriteBuffer
  <2> QED BY <1>1, <1>2, <1>3, <2>1, <2>2, PassOnKeepsOrder, Zenon
<1>5. CASE WriteFails
  <2>1. PICK m \in 0 .. Len(Held) : \E n \in 0 .. m :
          PassOn(Held, n, m) /\ lost' = lost \cup Range(SubSeq(Held, m + 1, Len(Held)))
    BY <1>5, Zenon DEF WriteFails, FailedWrite
  <2>2. PICK n \in 0 .. m : PassOn(Held, n, m)
    BY <2>1, Zenon
  <2> QED BY <1>1, <1>2, <1>3, <2>1, <2>2, PassOnKeepsOrder, Zenon
<1> QED BY <1>4, <1>5

(* So do the flush at the end of a round and the last one.                  *)
LEMMA FlushKeepsOrder ==
  ASSUME Inv, Flush \/ Exit
  PROVE  LinesInOrder' /\ DroppedWereAppended'
<1>1. toWrite = <<>> /\ UNCHANGED <<toWrite, buffers, current, appended>>
  BY DEF Flush, Exit, Inv, WriterIdle
<1>2. stdio \in Seq(Lines) /\ <<>> \in Seq(Lines)
  BY PartTypes, EmptySeq DEF Inv
<1>3. Cat(stdio, FlattenSeq(toWrite)) = Cat(stdio, <<>>) /\ FlattenSeq(toWrite') = <<>>
  BY <1>1, FlattenEmpty
<1>4. CASE PassOn(stdio, Len(stdio), Len(stdio)) /\ UNCHANGED <<failures, lost>>
  <2>1. /\ lost' = lost \cup Range(SubSeq(stdio, Len(stdio) + 1, Len(stdio)))
        /\ Len(stdio) \in 0 .. Len(stdio)
    BY <1>2, <1>4, DropsNothing
  <2> QED BY <1>1, <1>2, <1>3, <1>4, <2>1, PassOnKeepsOrder, Zenon
<1>5. CASE FailedWrite(stdio)
  <2>1. PICK m \in 0 .. Len(stdio) : \E n \in 0 .. m :
          PassOn(stdio, n, m) /\ lost' = lost \cup Range(SubSeq(stdio, m + 1, Len(stdio)))
    BY <1>5, Zenon DEF FailedWrite
  <2>2. PICK n \in 0 .. m : PassOn(stdio, n, m)
    BY <2>1, Zenon
  <2> QED BY <1>1, <1>2, <1>3, <2>1, <2>2, PassOnKeepsOrder, Zenon
<1> QED BY <1>4, <1>5, Zenon DEF Flush, Exit

(* It holds at the start, where there are no lines.                         *)
LEMMA InvInit == Init => Inv
<1> SUFFICES ASSUME Init PROVE Inv
  OBVIOUS
<1>1. TypeOK
  BY TypeInit
<1>2. /\ file = <<>> /\ stdio = <<>> /\ toWrite = <<>> /\ buffers = <<>> /\ current = <<>>
      /\ appended = <<>> /\ lost = {}
  BY DEF Init
<1>3. Len(<<>>) = 0 /\ DOMAIN <<>> = {} /\ <<>> \in Seq(Lines)
  BY EmptySeq
<1>4. Kept(<<>>, <<>>, {})
  <2>1. \A i \in 1 .. 0 : FALSE
    OBVIOUS
  <2>2. InOrder(<<>>, <<>>)
    BY <1>3, <2>1 DEF InOrder
  <2>3. Range(<<>>) = {}
    BY <1>3 DEF Range
  <2> QED BY <2>2, <2>3 DEF Kept
<1>5. Places(<<>>, <<>>, <<>>, <<>>, <<>>) = <<>>
  <2>1. Cat(<<>>, <<>>) = <<>>
    BY <1>3, CatEmpty, Zenon
  <2> QED BY <2>1, Zenon DEF Places
<1>6. LinesInOrder
  <2>1. FlattenSeq(toWrite) = <<>> /\ FlattenSeq(buffers) = <<>>
    BY <1>2, FlattenEmpty
  <2> QED BY <1>2, <1>4, <1>5, <2>1, OrderIsKept, Zenon
<1>7. AppendedOnce /\ DroppedWereAppended
  BY <1>2, <1>3 DEF AppendedOnce, DroppedWereAppended, NoRepeats
<1>8. WriterIdle
  BY DEF Init, WriterIdle
<1> QED BY <1>1, <1>6, <1>7, <1>8 DEF Inv

(* Append is called once for a line.                                        *)
LEMMA AppendOnce ==
  ASSUME Inv, NEW line \in Lines, AppendLine(line)
  PROVE  AppendedOnce' /\ DroppedWereAppended'
<1> DEFINE m == Len(appended)
           all == Append(appended, line)
<1>1. appended \in Seq(Lines) /\ NoRepeats(appended) /\ lost \subseteq Range(appended)
  BY PartTypes DEF Inv, AppendedOnce, DroppedWereAppended
<1>2. line \notin Range(appended) /\ appended' = all /\ lost' = lost
  BY DEF AppendLine, output
<1>3. /\ m \in Nat /\ DOMAIN appended = 1 .. m /\ DOMAIN all = 1 .. m + 1 /\ Len(all) = m + 1
      /\ all[m + 1] = line /\ \A i \in 1 .. m : all[i] = appended[i]
  BY <1>1, AppendProperties, LenProperties
<1> HIDE DEF m, all
<1>4. \A i \in 1 .. m : all[i] \in Range(appended)
  BY <1>3 DEF Range
<1>5. NoRepeats(all)
  <2> SUFFICES ASSUME NEW i \in 1 .. m + 1, NEW j \in 1 .. m + 1, all[i] = all[j], i # j
               PROVE  FALSE
    BY <1>3 DEF NoRepeats
  <2>1. (i \in 1 .. m \/ i = m + 1) /\ (j \in 1 .. m \/ j = m + 1)
    BY <1>3
  <2>2. \A k, l \in 1 .. m : appended[k] = appended[l] => k = l
    BY <1>1 DEF NoRepeats, m
  <2> QED BY <1>2, <1>3, <1>4, <2>1, <2>2
<1>6. Range(appended) \subseteq Range(all)
  <2>1. \A i \in 1 .. m : i \in 1 .. m + 1
    BY <1>3
  <2> QED BY <1>3, <2>1 DEF Range
<1> QED BY <1>1, <1>2, <1>5, <1>6, Zenon DEF AppendedOnce, DroppedWereAppended

(* Every step keeps the invariant.                                          *)
LEMMA InvNext == Inv /\ [Next]_vars => Inv'
<1> SUFFICES ASSUME Inv, [Next]_vars PROVE Inv'
  OBVIOUS
<1>1. TypeOK'
  BY TypeNext DEF Inv
<1>2. LinesInOrder /\ AppendedOnce /\ DroppedWereAppended /\ WriterIdle
  BY DEF Inv
<1>3. ASSUME UNCHANGED data
      PROVE  LinesInOrder' /\ AppendedOnce' /\ DroppedWereAppended'
  <2>1. UNCHANGED <<file, stdio, toWrite, buffers, current, appended, lost>>
    BY <1>3 DEF data, output
  <2>2. LinesInOrder'
    BY <1>2, <2>1, OrderIsKept, OrderIsKeptNext, Zenon
  <2>3. AppendedOnce' /\ DroppedWereAppended'
    BY <1>2, <2>1, Zenon DEF AppendedOnce, DroppedWereAppended
  <2> QED BY <2>2, <2>3
<1>4. ASSUME appended' = appended
      PROVE  AppendedOnce'
  BY <1>2, <1>4, Zenon DEF AppendedOnce
<1>5. CASE Owner
  <2>1. UNCHANGED data
    BY <1>5 DEF Owner, StartThread, WaitForThread, Constructed, Destroy, NotifyWriter, Join
  <2>2. WriterIdle'
    BY <1>2, <1>5 DEF Owner, StartThread, WaitForThread, Constructed, Destroy, NotifyWriter, Join,
       WriterIdle, data, output
  <2> QED BY <1>1, <1>3, <2>1, <2>2 DEF Inv
<1>6. ASSUME NEW line \in Lines, AppendLine(line) PROVE Inv'
  <2>1. WriterIdle'
    BY <1>2, <1>6 DEF WriterIdle, AppendLine, output
  <2> QED BY <1>1, <1>6, <2>1, AppendKeepsOrder, AppendOnce DEF Inv
<1>7. CASE NotifyConstructor \/ CheckRunning \/ LockAndWait
  <2>1. UNCHANGED data
    BY <1>7 DEF NotifyConstructor, CheckRunning, LockAndWait
  <2>2. WriterIdle'
    BY <1>2, <1>7 DEF NotifyConstructor, CheckRunning, LockAndWait, WriterIdle, data, output
  <2> QED BY <1>1, <1>3, <2>1, <2>2 DEF Inv
<1>8. CASE LockAndTake \/ WakeNotified \/ WakeTimeout
  <2>1. TakeBuffers /\ writer # "write" /\ writer # "none" /\ writer # "exited"
    BY <1>8 DEF LockAndTake, WakeNotified, WakeTimeout
  <2>2. LinesInOrder'
    BY <2>1, TakeKeepsOrder
  <2>3. AppendedOnce' /\ DroppedWereAppended'
    BY <1>2, <2>1, Zenon DEF TakeBuffers, output, AppendedOnce, DroppedWereAppended
  <2>4. WriterIdle'
    BY <1>2, <2>1 DEF TakeBuffers, WriterIdle
  <2> QED BY <1>1, <2>2, <2>3, <2>4 DEF Inv
<1>9. CASE WriteBuffer \/ WriteFails
  <2>1. appended' = appended /\ writer = "write" /\ writer' = writer /\ owner' = owner
    BY <1>9 DEF WriteBuffer, WriteFails
  <2>2. WriterIdle'
    BY <1>2, <2>1 DEF WriterIdle
  <2> QED BY <1>1, <1>4, <1>9, <2>1, <2>2, WriteKeepsOrder DEF Inv
<1>10. CASE Flush \/ Exit
  <2>1. appended' = appended
    BY <1>10 DEF Flush, Exit
  <2>2. stdio \in Seq(Lines)
    BY PartTypes DEF Inv
  <2>3. writer' = "exited" => stdio' = <<>>
    <3>1. SubSeq(stdio, Len(stdio) + 1, Len(stdio)) = <<>>
      BY <2>2, LenProperties, SubSeqEmpty
    <3> QED BY <1>10, <3>1 DEF Flush, Exit, PassOn
  <2>4. /\ writer' # "write" /\ toWrite' = <<>> /\ owner' = owner
        /\ writer # "none" /\ (owner = "joined" => writer = "exited") /\ writer # "exited"
        /\ (owner = "constructing" => writer = "none")
    BY <1>2, <1>10 DEF Flush, Exit, WriterIdle
  <2>5. WriterIdle'
    BY <2>3, <2>4 DEF WriterIdle
  <2> QED BY <1>1, <1>4, <1>10, <2>1, <2>5, FlushKeepsOrder DEF Inv
<1>11. CASE UNCHANGED vars
  <2>1. UNCHANGED data
    BY <1>11 DEF vars, data, output
  <2>2. WriterIdle'
    BY <1>2, <1>11 DEF vars, WriterIdle
  <2> QED BY <1>1, <1>3, <2>1, <2>2 DEF Inv
<1> QED BY <1>5, <1>6, <1>7, <1>8, <1>9, <1>10, <1>11 DEF Next, Writer

(* The invariant holds in every reachable state.                            *)
LEMMA Invariance == Spec => []Inv
BY InvInit, InvNext, PTL DEF Spec

-----------------------------------------------------------------------------
(* Moving and swapping the buffers of AsyncLogging::Append and ThreadFunc   *)
(* loses, repeats or reorders no line, but for those a failed write drops.  *)
THEOREM LinesAlwaysInOrder == Spec => []LinesInOrder
<1>1. Inv => LinesInOrder
  BY DEF Inv
<1> QED BY <1>1, Invariance, PTL

(* Once ~AsyncLogging has joined the thread, no line is left in stdio or in *)
(* the buffers to write.                                                    *)
THEOREM NothingEverLeftHalfWay == Spec => []NothingLeftHalfWay
<1>1. Inv => NothingLeftHalfWay
  <2> SUFFICES ASSUME Inv, owner = "joined"
               PROVE  AreKept(file \o FlattenSeq(buffers) \o current)
    BY Zenon DEF NothingLeftHalfWay
  <2>1. stdio = <<>> /\ FlattenSeq(toWrite) = <<>>
    BY FlattenEmpty DEF Inv, WriterIdle
  <2>2. Cat(file, <<>>) = file
    BY PartTypes, CatEmpty DEF Inv
  <2>3. Places(file, stdio, FlattenSeq(toWrite), FlattenSeq(buffers), current)
          = Cat(Cat(file, FlattenSeq(buffers)), current)
    BY <2>1, <2>2, Zenon DEF Places
  <2>4. Kept(Cat(Cat(file, FlattenSeq(buffers)), current), appended, lost)
    BY <2>3, OrderIsKept, Zenon DEF Inv
  <2> QED BY <2>4, Zenon DEF AreKept, Kept, Cat
<1> QED BY <1>1, Invariance, PTL

(* A line in the file misses only the pieces for which its LogStream had no *)
(* room.                                                                    *)
THEOREM MissingPieceNeverFits == Spec => []MissingPieceDidNotFit
<1>1. TypeOK => MissingPieceDidNotFit
  <2> SUFFICES ASSUME TypeOK, NEW line \in Range(file), NEW piece \in Range(Statement[line]),
                      Occurrences(piece, Logged[line]) < Occurrences(piece, Statement[line])
               PROVE  Length[line] + piece.length >= SmallBuffer
    BY Zenon DEF MissingPieceDidNotFit
  <2>1. line \in Lines
    BY RangeOfSeq DEF TypeOK
  <2>2. Statement[line] \in Seq(Pieces)
    BY <2>1, LoggingAssumption
  <2>3. piece \in Pieces
    BY <2>2, RangeOfSeq
  <2>4. Logged[line] = LoggedPieces(Statement[line]) /\ Length[line] = TotalLength(Logged[line])
    BY <2>1 DEF Logged, Length
  <2> QED BY <2>2, <2>3, <2>4, MissingDidNotFit
<1> QED BY <1>1, LoggerTypeCorrect, PTL
-----------------------------------------------------------------------------
(* The latch of the constructor, whose wait has no predicate.              *)

(* The thread has notified nobody, and the constructor has yet to return.  *)
Missed ==
  owner \in {"started", "waiting"} /\ ~latched /\ writer \notin {"none", "starting"}

(* The constructor has returned, or waits for what is there or to come.     *)
Awaited ==
  \/ owner = "waiting" /\ (writer = "starting" \/ latched)
  \/ owner \in {"ready", "stopping", "joining", "joined"}

(* Neither is left again, whatever the threads do. *)
LEMMA LatchNext ==
  ASSUME [Next]_vars
  PROVE  (Missed => Missed') /\ (Awaited => Awaited')
<1> USE DEF data, output, Missed, Awaited
<1>1. CASE Owner
  BY <1>1 DEF Owner, StartThread, WaitForThread, Constructed, Destroy, NotifyWriter, Join
<1>2. ASSUME NEW line \in Lines, AppendLine(line)
      PROVE  (Missed => Missed') /\ (Awaited => Awaited')
  BY <1>2 DEF AppendLine
<1>3. CASE NotifyConstructor
  BY <1>3 DEF NotifyConstructor
<1>4. CASE Writer /\ ~NotifyConstructor
  <2>1. /\ UNCHANGED <<owner, latched>> /\ writer \notin {"none", "starting"}
        /\ writer' \notin {"none", "starting"}
    BY <1>4 DEF Writer, CheckRunning, LockAndTake, LockAndWait, WakeNotified, WakeTimeout,
           TakeBuffers, WriteBuffer, WriteFails, Flush, Exit
  <2> QED BY <2>1
<1>5. CASE UNCHANGED vars
  BY <1>5 DEF vars
<1> QED BY <1>1, <1>2, <1>3, <1>4, <1>5 DEF Next

(* A constructor that the thread's notify_all does not find waiting never   *)
(* returns, unless its wait ends for no reason (which is not modelled), and *)
(* so the process never logs a line.                                        *)
THEOREM MissedNotificationHangs == Spec => [](Missed => []Missed)
<1>1. Missed /\ [Next]_vars => Missed'
  BY LatchNext
<1> QED BY <1>1, PTL DEF Spec

(* One that waits before the thread notifies has what it waits for: with    *)
(* threads that run, this is why ConstructorReturns holds.                  *)
THEOREM AwaitedNotificationArrives ==
  Spec => [](owner = "waiting" /\ writer = "starting"
             => [](owner = "waiting" => writer = "starting" \/ latched))
<1>1. owner = "waiting" /\ writer = "starting" => Awaited
  BY DEF Awaited
<1>2. Awaited /\ [Next]_vars => Awaited'
  BY LatchNext
<1>3. Awaited => (owner = "waiting" => writer = "starting" \/ latched)
  BY DEF Awaited
<1> QED BY <1>1, <1>2, <1>3, PTL DEF Spec
=============================================================================
