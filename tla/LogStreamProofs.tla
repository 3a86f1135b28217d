--------------------------- MODULE LogStreamProofs ---------------------------
(***************************************************************************)
(* What a LOG statement's buffer holds, for every statement and every size  *)
(* of the buffer: it fits, and what it misses had no room.                  *)
(*                                                                          *)
(* FoldLeft is a recursive function over the sets of indices, unique once it*)
(* exists.  That it exists is shown from the least element of the sizes for *)
(* which it would not (NatMin, from the well-foundedness of < on Nat); then *)
(* one step of the fold is one piece, and the facts follow piece by piece.  *)
(***************************************************************************)
EXTENDS LogStream, WellFoundedInduction, FiniteSetTheorems, SequenceTheorems, TLAPS

-----------------------------------------------------------------------------
(* Induction: a set of naturals that is not empty has a least element.      *)
LEMMA NatMin ==
  ASSUME NEW S, S \subseteq Nat, S # {}
  PROVE  \E m \in S : \A k \in S : m <= k
<1>1. IsWellFoundedOn(OpToRel(<, Nat), Nat)
  BY NatLessThanWellFounded, Zenon
<1>2. PICK m \in S : \A k \in S : ~(<<k, m>> \in OpToRel(<, Nat))
  BY <1>1, WFMin, Zenon
<1>3. ASSUME NEW k \in S PROVE m <= k
  <2>1. k \in Nat /\ m \in Nat
    OBVIOUS
  <2>2. k < m => <<k, m>> \in OpToRel(<, Nat)
    BY <2>1 DEF OpToRel
  <2>3. ~(k < m)
    BY <1>2, <2>2, Zenon
  <2> QED BY <2>1, <2>3
<1> QED BY <1>3, Zenon

(* What holds for 0 and for the successor of each natural up to n for which *)
(* it holds, holds up to n; what holds is given by the set of naturals.     *)
LEMMA SetInduction ==
  ASSUME NEW n \in Nat, NEW S, 0 \in S,
         \A k \in 0 .. n : k \in S /\ k + 1 <= n => k + 1 \in S
  PROVE  \A k \in 0 .. n : k \in S
<1> DEFINE T == {k \in 0 .. n : k \notin S}
<1> SUFFICES ASSUME T # {} PROVE FALSE
  OBVIOUS
<1>1. T \subseteq Nat
  OBVIOUS
<1>2. PICK m \in T : \A k \in T : m <= k
  BY <1>1, NatMin, Zenon
<1>3. m \in 0 .. n /\ m \notin S /\ m # 0
  OBVIOUS
<1>4. m - 1 \in 0 .. n /\ ~(m <= m - 1) /\ (m - 1) + 1 = m /\ m <= n
  BY <1>3
<1>5. m - 1 \in S
  BY <1>2, <1>4
<1> QED BY <1>3, <1>4, <1>5

(* The maximum of a set of indices that holds the last one is that one.     *)
LEMMA MaxOfTop ==
  ASSUME NEW k \in Nat, NEW s \in SUBSET (1 .. k), k \in s
  PROVE  Max(s) = k
<1>1. k \in s /\ \A y \in s : k >= y
  OBVIOUS
<1>2. \A x \in s : (\A y \in s : x >= y) => x = k
  OBVIOUS
<1> QED BY <1>1, <1>2 DEF Max

(* A set of indices that is not empty holds its maximum.                    *)
LEMMA MaxOfSet ==
  ASSUME NEW n \in Nat, NEW s \in SUBSET (1 .. n), s # {}
  PROVE  Max(s) \in s
<1> DEFINE Above == {k \in 0 .. n : \A y \in s : k >= y}
<1>1. Above \subseteq Nat /\ n \in Above
  OBVIOUS
<1>2. PICK m \in Above : \A k \in Above : m <= k
  <2>1. Above # {}
    BY <1>1
  <2> QED BY <1>1, <2>1, NatMin, Zenon
<1>3. m \in s
  <2> SUFFICES ASSUME m \notin s PROVE FALSE
    OBVIOUS
  <2>1. PICK y \in s : y \in 1 .. n
    OBVIOUS
  <2>2. m >= y /\ m \in 0 .. n
    BY <1>2
  <2>3. m - 1 \in 0 .. n
    BY <2>1, <2>2
  <2>4. \A z \in s : m - 1 >= z
    BY <1>2, <2>2
  <2>5. m - 1 \in Above
    BY <2>3, <2>4
  <2>6. ~(m <= m - 1)
    BY <2>2
  <2> QED BY <1>2, <2>5, <2>6
<1>4. \E x \in s : \A y \in s : x >= y
  BY <1>2, <1>3
<1> QED BY <1>4, Zenon DEF Max

-----------------------------------------------------------------------------
(* The folds of sequences.                                                  *)
FoldMap(f, n, base, step) ==
  f = [s \in SUBSET (1 .. n) |->
         IF s = {} THEN base ELSE step[Max(s)][f[s \ {Max(s)}]]]

(* The recursive function exists: a step takes the largest index away.      *)
LEMMA FoldExists ==
  ASSUME NEW D, NEW base \in D, NEW n \in Nat, NEW step \in [1 .. n -> [D -> D]]
  PROVE  \E f \in [SUBSET (1 .. n) -> D] : FoldMap(f, n, base, step)
<1> DEFINE S == {k \in 0 .. n : \E f \in [SUBSET (1 .. k) -> D] : FoldMap(f, k, base, step)}
<1>1. 0 \in S
  <2> DEFINE f == [s \in SUBSET (1 .. 0) |-> base]
  <2>1. f \in [SUBSET (1 .. 0) -> D]
    OBVIOUS
  <2>2. \A s \in SUBSET (1 .. 0) : s = {}
    OBVIOUS
  <2>3. FoldMap(f, 0, base, step)
    BY <2>2 DEF FoldMap
  <2>4. 0 \in 0 .. n
    OBVIOUS
  <2> QED BY <2>1, <2>3, <2>4
<1>2. ASSUME NEW k \in 0 .. n, k \in S, k + 1 <= n
      PROVE  k + 1 \in S
  <2>1. PICK f \in [SUBSET (1 .. k) -> D] : FoldMap(f, k, base, step)
    BY <1>2
  <2> DEFINE g == [s \in SUBSET (1 .. k + 1) |->
                     IF k + 1 \in s THEN step[k + 1][f[s \ {k + 1}]] ELSE f[s]]
  <2>2. ASSUME NEW s \in SUBSET (1 .. k + 1)
        PROVE  /\ k + 1 \in s => s \ {k + 1} \in SUBSET (1 .. k) /\ Max(s) = k + 1
               /\ k + 1 \notin s => s \in SUBSET (1 .. k)
    <3>1. k + 1 \in Nat /\ \A i \in 1 .. k + 1 : i # k + 1 => i \in 1 .. k
      BY <1>2
    <3> QED BY <3>1, MaxOfTop
  <2>3. step[k + 1] \in [D -> D]
    BY <1>2
  <2>4. g \in [SUBSET (1 .. k + 1) -> D]
    BY <2>2, <2>3
  <2>5. ASSUME NEW s \in SUBSET (1 .. k + 1)
        PROVE  g[s] = IF s = {} THEN base ELSE step[Max(s)][g[s \ {Max(s)}]]
    <3>1. CASE k + 1 \in s
      <4>1. s \ {k + 1} \in SUBSET (1 .. k + 1) /\ k + 1 \notin s \ {k + 1}
        OBVIOUS
      <4>2. g[s \ {k + 1}] = f[s \ {k + 1}]
        BY <4>1
      <4>3. s # {} /\ Max(s) = k + 1 /\ g[s] = step[k + 1][f[s \ {k + 1}]]
        BY <2>2, <3>1
      <4> QED BY <4>2, <4>3
    <3>2. CASE k + 1 \notin s
      <4>1. s \in SUBSET (1 .. k) /\ g[s] = f[s]
        BY <2>2, <3>2
      <4>2. f[s] = IF s = {} THEN base ELSE step[Max(s)][f[s \ {Max(s)}]]
        BY <2>1, <4>1 DEF FoldMap
      <4>3. s \ {Max(s)} \in SUBSET (1 .. k + 1) /\ k + 1 \notin s \ {Max(s)}
        BY <3>2
      <4>4. g[s \ {Max(s)}] = f[s \ {Max(s)}]
        BY <4>3
      <4> QED BY <4>1, <4>2, <4>4
    <3> QED BY <3>1, <3>2
  <2>6. FoldMap(g, k + 1, base, step)
    BY <2>5 DEF FoldMap
  <2>7. k + 1 \in 0 .. n
    BY <1>2
  <2> QED BY <2>4, <2>6, <2>7
<1>3. \A k \in 0 .. n : k \in S
  <2> HIDE DEF S
  <2> QED BY <1>1, <1>2, SetInduction
<1>4. n \in 0 .. n
  OBVIOUS
<1> QED BY <1>3, <1>4

(* Of 1 .. k, the maximum is k, and the rest 1 .. k - 1.                    *)
LEMMA TopOfInterval ==
  ASSUME NEW k \in Nat, k > 0
  PROVE  1 .. k # {} /\ Max(1 .. k) = k /\ (1 .. k) \ {Max(1 .. k)} = 1 .. k - 1
<1>1. k \in 1 .. k /\ (1 .. k) \ {k} = 1 .. k - 1
  OBVIOUS
<1>2. Max(1 .. k) = k
  BY <1>1, MaxOfTop
<1> QED BY <1>1, <1>2

-----------------------------------------------------------------------------
(* The length of pieces.                                                    *)
LEMMA PieceOfSeq ==
  ASSUME NEW pieces \in Seq(Pieces), NEW i \in 1 .. Len(pieces)
  PROVE  pieces[i] \in Pieces /\ pieces[i].length \in Nat
<1>1. pieces[i] \in Pieces
  BY ElementOfSeq
<1> QED BY <1>1 DEF Pieces

(* The recursive function in TotalLength.                                   *)
TotalMap(f, pieces) ==
  f = [s \in SUBSET (DOMAIN pieces) |->
         IF s = {} THEN 0 ELSE f[s \ {Max(s)}] + pieces[Max(s)].length]

(* TotalLength is its value for all the pieces.                             *)
LEMMA TotalLengthDef ==
  ASSUME NEW pieces
  PROVE  TotalLength(pieces) = (CHOOSE f : TotalMap(f, pieces))[DOMAIN pieces]
BY Zenon DEF TotalLength, FoldLeft, MapThenFoldSet, TotalMap

(* TotalLength is reached piece by piece.                                   *)
Totals(h, pieces) ==
  /\ h \in [0 .. Len(pieces) -> Nat]
  /\ h[0] = 0
  /\ \A k \in 1 .. Len(pieces) : h[k] = h[k - 1] + pieces[k].length

(* Such a running total exists, and its last value is TotalLength.          *)
LEMMA TotalLengthSteps ==
  ASSUME NEW pieces \in Seq(Pieces)
  PROVE  \E h : Totals(h, pieces) /\ TotalLength(pieces) = h[Len(pieces)]
<1> DEFINE n == Len(pieces)
           step == [i \in 1 .. n |-> [x \in Nat |-> x + pieces[i].length]]
<1>1. n \in Nat /\ DOMAIN pieces = 1 .. n /\ \A i \in 1 .. n : pieces[i].length \in Nat
  BY PieceOfSeq, LenProperties
<1>2. step \in [1 .. n -> [Nat -> Nat]]
  BY <1>1
<1>3. PICK f \in [SUBSET (1 .. n) -> Nat] : FoldMap(f, n, 0, step)
  <2> HIDE DEF step, n
  <2> QED BY <1>1, <1>2, FoldExists
<1>4. TotalMap(f, pieces)
  <2>1. ASSUME NEW s \in SUBSET (1 .. n)
        PROVE  f[s] = IF s = {} THEN 0 ELSE f[s \ {Max(s)}] + pieces[Max(s)].length
    <3>1. f[s] = IF s = {} THEN 0 ELSE step[Max(s)][f[s \ {Max(s)}]]
      BY <1>3 DEF FoldMap
    <3>2. CASE s # {}
      <4>1. Max(s) \in 1 .. n /\ s \ {Max(s)} \in SUBSET (1 .. n)
        BY <1>1, <3>2, MaxOfSet
      <4>2. f[s \ {Max(s)}] \in Nat
        BY <4>1
      <4> QED BY <3>1, <3>2, <4>1, <4>2
    <3> QED BY <3>1, <3>2
  <2> QED BY <1>1, <2>1 DEF TotalMap
<1> DEFINE g == CHOOSE x : TotalMap(x, pieces)
           h == [k \in 0 .. n |-> g[1 .. k]]
<1>5. TotalMap(g, pieces)
  BY <1>4, Zenon
<1>6. \A s \in SUBSET (1 .. n) :
        g[s] = IF s = {} THEN 0 ELSE g[s \ {Max(s)}] + pieces[Max(s)].length
  <2> HIDE DEF g
  <2> QED BY <1>1, <1>5 DEF TotalMap
<1> HIDE DEF g
<1>7. h[0] = 0
  <2>1. 1 .. 0 = {} /\ 1 .. 0 \in SUBSET (1 .. n) /\ h[0] = g[1 .. 0]
    BY <1>1
  <2> QED BY <1>6, <2>1
<1>8. ASSUME NEW k \in 1 .. n PROVE h[k] = h[k - 1] + pieces[k].length
  <2>1. k \in Nat /\ k > 0 /\ 1 .. k \in SUBSET (1 .. n) /\ k \in 0 .. n /\ k - 1 \in 0 .. n
    BY <1>1
  <2>2. g[1 .. k] = g[1 .. k - 1] + pieces[k].length
    BY <1>6, <2>1, TopOfInterval
  <2>3. h[k] = g[1 .. k] /\ h[k - 1] = g[1 .. k - 1]
    BY <2>1
  <2> QED BY <2>2, <2>3
<1>9. h \in [0 .. n -> Nat]
  <2> DEFINE S == {k \in 0 .. n : h[k] \in Nat}
  <2>1. 0 \in S
    BY <1>1, <1>7
  <2>2. ASSUME NEW k \in 0 .. n, k \in S, k + 1 <= n PROVE k + 1 \in S
    <3>1. k + 1 \in 1 .. n /\ (k + 1) - 1 = k /\ h[k] \in Nat
      BY <1>1, <2>2
    <3>2. h[k + 1] = h[k] + pieces[k + 1].length
      BY <1>8, <3>1
    <3>3. h[k + 1] \in Nat /\ k + 1 \in 0 .. n
      BY <1>1, <3>1, <3>2
    <3> QED BY <3>3
  <2>3. \A k \in 0 .. n : k \in S
    <3> HIDE DEF S, n
    <3> QED BY <1>1, <2>1, <2>2, SetInduction
  <2> QED BY <2>3
<1>10. TotalLength(pieces) = h[n]
  <2>1. TotalLength(pieces) = g[1 .. n]
    BY <1>1, TotalLengthDef, Zenon DEF g
  <2> QED BY <1>1, <2>1
<1>11. Totals(h, pieces)
  BY <1>1, <1>7, <1>8, <1>9 DEF Totals
<1> QED BY <1>10, <1>11

(* The length of a buffer is a natural number.                              *)
LEMMA TotalLengthType ==
  ASSUME NEW pieces \in Seq(Pieces)
  PROVE  TotalLength(pieces) \in Nat
<1>1. PICK h : Totals(h, pieces) /\ TotalLength(pieces) = h[Len(pieces)]
  BY TotalLengthSteps
<1>2. Len(pieces) \in 0 .. Len(pieces)
  BY LenProperties
<1> QED BY <1>1, <1>2 DEF Totals

(* An empty buffer has length 0.                                            *)
LEMMA TotalLengthEmpty == TotalLength(<<>>) = 0
<1>1. <<>> \in Seq(Pieces) /\ Len(<<>>) = 0
  OBVIOUS
<1> QED BY <1>1, TotalLengthSteps DEF Totals

(* A piece adds its length.                                                 *)
LEMMA TotalLengthAppend ==
  ASSUME NEW pieces \in Seq(Pieces), NEW piece \in Pieces
  PROVE  TotalLength(Append(pieces, piece)) = TotalLength(pieces) + piece.length
<1> DEFINE n == Len(pieces)
           more == Append(pieces, piece)
<1>1. /\ more \in Seq(Pieces) /\ Len(more) = n + 1 /\ n \in Nat
      /\ more[n + 1] = piece /\ \A k \in 1 .. n : more[k] = pieces[k]
  BY AppendProperties, LenProperties
<1> HIDE DEF n, more
<1>2. PICK h : Totals(h, pieces) /\ TotalLength(pieces) = h[n]
  BY TotalLengthSteps, Zenon DEF n
<1>3. PICK m : Totals(m, more) /\ TotalLength(more) = m[n + 1]
  BY <1>1, TotalLengthSteps
<1> DEFINE S == {k \in 0 .. n : h[k] = m[k]}
<1>4. 0 \in S
  BY <1>1, <1>2, <1>3 DEF Totals
<1>5. ASSUME NEW k \in 0 .. n, k \in S, k + 1 <= n PROVE k + 1 \in S
  <2>1. k + 1 \in 1 .. n /\ k + 1 \in 1 .. n + 1 /\ (k + 1) - 1 = k /\ k + 1 \in 0 .. n
    BY <1>1, <1>5
  <2>2. h[k + 1] = h[k] + pieces[k + 1].length
    BY <1>2, <2>1 DEF Totals, n
  <2>3. m[k + 1] = m[k] + more[k + 1].length
    BY <1>1, <1>3, <2>1 DEF Totals
  <2> QED BY <1>1, <1>5, <2>1, <2>2, <2>3
<1>6. n \in S
  <2>1. \A k \in 0 .. n : k \in S
    <3> HIDE DEF S
    <3> QED BY <1>1, <1>4, <1>5, SetInduction
  <2>2. n \in 0 .. n
    BY <1>1
  <2> QED BY <2>1, <2>2
<1>7. m[n + 1] = m[n] + piece.length
  <2>1. n + 1 \in 1 .. n + 1 /\ (n + 1) - 1 = n
    BY <1>1
  <2> QED BY <1>1, <1>3, <2>1 DEF Totals
<1> QED BY <1>2, <1>3, <1>6, <1>7 DEF more

-----------------------------------------------------------------------------
(* The pieces that a statement leaves in the buffer.                        *)
LoggedMap(f, statement) ==
  f = [s \in SUBSET (DOMAIN statement) |->
         IF s = {} THEN <<>> ELSE Put(f[s \ {Max(s)}], statement[Max(s)])]

(* LoggedPieces is its value for the whole statement.                       *)
LEMMA LoggedPiecesDef ==
  ASSUME NEW statement
  PROVE  LoggedPieces(statement) = (CHOOSE f : LoggedMap(f, statement))[DOMAIN statement]
BY Zenon DEF LoggedPieces, FoldLeft, MapThenFoldSet, LoggedMap

(* operator<< keeps the buffer short of its size: it appends the piece, or  *)
(* has no room for it and leaves the buffer alone.                          *)
LEMMA PutCases ==
  ASSUME NEW pieces \in Seq(Pieces), NEW piece \in Pieces,
         TotalLength(pieces) < SmallBuffer
  PROVE  /\ Put(pieces, piece) \in Seq(Pieces)
         /\ TotalLength(Put(pieces, piece)) < SmallBuffer
         /\ \/ Put(pieces, piece) = Append(pieces, piece)
            \/ /\ Put(pieces, piece) = pieces
               /\ TotalLength(pieces) + piece.length >= SmallBuffer
<1>1. piece.length \in Nat /\ TotalLength(pieces) \in Nat /\ SmallBuffer \in Nat
  BY TotalLengthType, SmallBufferAssumption DEF Pieces
<1>2. TotalLength(Append(pieces, piece)) = TotalLength(pieces) + piece.length
  BY TotalLengthAppend
<1>3. Append(pieces, piece) \in Seq(Pieces)
  BY AppendProperties
<1>4. \/ Put(pieces, piece) = Append(pieces, piece) /\ SmallBuffer - TotalLength(pieces) > piece.length
      \/ Put(pieces, piece) = pieces /\ ~(SmallBuffer - TotalLength(pieces) > piece.length)
      \/ Put(pieces, piece) = pieces /\ ~(SmallBuffer - TotalLength(pieces) >= piece.length)
  BY Zenon DEF Put, PutNumber, PutText, HasRoom, Available
<1>5. CASE Put(pieces, piece) = Append(pieces, piece)
            /\ SmallBuffer - TotalLength(pieces) > piece.length
  <2>1. TotalLength(pieces) + piece.length < SmallBuffer
    BY <1>1, <1>5
  <2>2. TotalLength(Append(pieces, piece)) < SmallBuffer
    BY <1>2, <2>1
  <2> QED BY <1>3, <1>5, <2>2, Zenon
<1>6. CASE Put(pieces, piece) = pieces
            /\ (\/ ~(SmallBuffer - TotalLength(pieces) > piece.length)
                \/ ~(SmallBuffer - TotalLength(pieces) >= piece.length))
  <2>1. TotalLength(pieces) + piece.length >= SmallBuffer
    BY <1>1, <1>6
  <2> QED BY <1>6, <2>1, Zenon
<1> QED BY <1>4, <1>5, <1>6, Zenon

(* What a LogStream's buffer can hold.                                      *)
Buffers == {pieces \in Seq(Pieces) : TotalLength(pieces) < SmallBuffer}

(* The same, of such buffers.                                               *)
LEMMA PutBuffers ==
  ASSUME NEW pieces \in Buffers, NEW piece \in Pieces
  PROVE  /\ Put(pieces, piece) \in Buffers
         /\ \/ Put(pieces, piece) = Append(pieces, piece)
            \/ /\ Put(pieces, piece) = pieces
               /\ TotalLength(pieces) + piece.length >= SmallBuffer
<1>1. pieces \in Seq(Pieces) /\ TotalLength(pieces) < SmallBuffer
  BY Zenon DEF Buffers
<1> QED BY <1>1, PutCases, Zenon DEF Buffers

(* LoggedPieces is reached piece by piece.                                  *)
LoggedSteps(h, statement) ==
  /\ h \in [0 .. Len(statement) -> Buffers]
  /\ h[0] = <<>>
  /\ \A k \in 1 .. Len(statement) : h[k] = Put(h[k - 1], statement[k])

(* Such steps exist, and the last buffer is LoggedPieces.                   *)
LEMMA LoggedPiecesSteps ==
  ASSUME NEW statement \in Seq(Pieces)
  PROVE  \E h : LoggedSteps(h, statement) /\ LoggedPieces(statement) = h[Len(statement)]
<1> DEFINE n == Len(statement)
           step == [i \in 1 .. n |-> [x \in Buffers |-> Put(x, statement[i])]]
<1>1. n \in Nat /\ DOMAIN statement = 1 .. n /\ \A i \in 1 .. n : statement[i] \in Pieces
  BY ElementOfSeq, LenProperties
<1>0. <<>> \in Buffers
  <2>1. <<>> \in Seq(Pieces) /\ 0 < SmallBuffer
    BY SmallBufferAssumption
  <2> QED BY <2>1, TotalLengthEmpty, Zenon DEF Buffers
<1>2. step \in [1 .. n -> [Buffers -> Buffers]]
  BY <1>1, PutBuffers
<1>3. PICK f \in [SUBSET (1 .. n) -> Buffers] : FoldMap(f, n, <<>>, step)
  <2> HIDE DEF step, n
  <2> QED BY <1>0, <1>1, <1>2, FoldExists
<1>4. LoggedMap(f, statement)
  <2>1. ASSUME NEW s \in SUBSET (1 .. n)
        PROVE  f[s] = IF s = {} THEN <<>> ELSE Put(f[s \ {Max(s)}], statement[Max(s)])
    <3>1. f[s] = IF s = {} THEN <<>> ELSE step[Max(s)][f[s \ {Max(s)}]]
      BY <1>3 DEF FoldMap
    <3>2. CASE s # {}
      <4>1. Max(s) \in 1 .. n /\ s \ {Max(s)} \in SUBSET (1 .. n)
        BY <1>1, <3>2, MaxOfSet
      <4>2. f[s \ {Max(s)}] \in Buffers
        BY <4>1
      <4> QED BY <3>1, <3>2, <4>1, <4>2
    <3> QED BY <3>1, <3>2
  <2> QED BY <1>1, <2>1 DEF LoggedMap
<1> DEFINE g == CHOOSE x : LoggedMap(x, statement)
           h == [k \in 0 .. n |-> g[1 .. k]]
<1>5. LoggedMap(g, statement)
  BY <1>4, Zenon
<1>6. \A s \in SUBSET (1 .. n) :
        g[s] = IF s = {} THEN <<>> ELSE Put(g[s \ {Max(s)}], statement[Max(s)])
  <2> HIDE DEF g
  <2> QED BY <1>1, <1>5 DEF LoggedMap
<1> HIDE DEF g
<1>7. h[0] = <<>>
  <2>1. 1 .. 0 = {} /\ 1 .. 0 \in SUBSET (1 .. n) /\ h[0] = g[1 .. 0]
    BY <1>1
  <2> QED BY <1>6, <2>1
<1>8. ASSUME NEW k \in 1 .. n PROVE h[k] = Put(h[k - 1], statement[k])
  <2>1. k \in Nat /\ k > 0 /\ 1 .. k \in SUBSET (1 .. n) /\ k \in 0 .. n /\ k - 1 \in 0 .. n
    BY <1>1
  <2>2. g[1 .. k] = Put(g[1 .. k - 1], statement[k])
    BY <1>6, <2>1, TopOfInterval
  <2>3. h[k] = g[1 .. k] /\ h[k - 1] = g[1 .. k - 1]
    BY <2>1
  <2> QED BY <2>2, <2>3
<1>9. h \in [0 .. n -> Buffers]
  <2> DEFINE S == {k \in 0 .. n : h[k] \in Buffers}
  <2>1. 0 \in S
    BY <1>0, <1>1, <1>7
  <2>2. ASSUME NEW k \in 0 .. n, k \in S, k + 1 <= n PROVE k + 1 \in S
    <3>1. k + 1 \in 1 .. n /\ (k + 1) - 1 = k /\ h[k] \in Buffers /\ k + 1 \in 0 .. n
      BY <1>1, <2>2
    <3>2. h[k + 1] = Put(h[k], statement[k + 1])
      BY <1>8, <3>1
    <3>3. h[k + 1] \in Buffers
      BY <1>1, <3>1, <3>2, PutBuffers
    <3> QED BY <3>1, <3>3
  <2>3. \A k \in 0 .. n : k \in S
    <3> HIDE DEF S, n
    <3> QED BY <1>1, <2>1, <2>2, SetInduction
  <2> QED BY <2>3
<1>10. LoggedPieces(statement) = h[n]
  <2>1. LoggedPieces(statement) = g[1 .. n]
    BY <1>1, LoggedPiecesDef, Zenon DEF g
  <2> QED BY <1>1, <2>1
<1>11. LoggedSteps(h, statement)
  BY <1>1, <1>7, <1>8, <1>9 DEF LoggedSteps
<1> QED BY <1>10, <1>11

(* A line is shorter than the LogStream's buffer.                           *)
LEMMA LoggedFits ==
  ASSUME NEW statement \in Seq(Pieces)
  PROVE  LoggedPieces(statement) \in Seq(Pieces) /\ TotalLength(LoggedPieces(statement)) < SmallBuffer
<1>1. PICK h : LoggedSteps(h, statement) /\ LoggedPieces(statement) = h[Len(statement)]
  BY LoggedPiecesSteps
<1>2. Len(statement) \in 0 .. Len(statement)
  BY LenProperties
<1>3. LoggedPieces(statement) \in Buffers
  BY <1>1, <1>2 DEF LoggedSteps
<1> QED BY <1>3, Zenon DEF Buffers

-----------------------------------------------------------------------------
(* Pieces left out.                                                         *)
LEMMA OneMore ==
  ASSUME NEW k \in Nat, NEW T \in SUBSET (1 .. k)
  PROVE  /\ Cardinality(T) \in Nat
         /\ Cardinality(T \cup {k + 1}) = Cardinality(T) + 1
<1>1. IsFiniteSet(1 .. k)
  BY FS_Interval
<1>2. IsFiniteSet(T)
  BY <1>1, FS_Subset, Zenon
<1>3. k + 1 \notin T
  OBVIOUS
<1> QED BY <1>2, <1>3, FS_AddElement, FS_CardinalityType

(* Appending a piece adds one to its occurrences, and to no other's.        *)
LEMMA OccurrencesAppend ==
  ASSUME NEW pieces \in Seq(Pieces), NEW more \in Pieces, NEW piece
  PROVE  /\ Occurrences(piece, pieces) \in Nat
         /\ Occurrences(piece, Append(pieces, more)) =
              Occurrences(piece, pieces) + (IF more = piece THEN 1 ELSE 0)
<1> DEFINE n == Len(pieces)
           all == Append(pieces, more)
           T == {i \in 1 .. n : pieces[i] = piece}
           U == {i \in 1 .. n + 1 : all[i] = piece}
<1>1. /\ DOMAIN all = 1 .. n + 1 /\ n \in Nat /\ DOMAIN pieces = 1 .. n
      /\ all[n + 1] = more /\ \A k \in 1 .. n : all[k] = pieces[k]
  BY AppendProperties, LenProperties
<1>2. U = IF more = piece THEN T \cup {n + 1} ELSE T
  <2> HIDE DEF all, n
  <2> QED BY <1>1
<1>3. Cardinality(T) \in Nat /\ Cardinality(T \cup {n + 1}) = Cardinality(T) + 1
  <2> HIDE DEF n
  <2> QED BY <1>1, OneMore
<1>4. Occurrences(piece, pieces) = Cardinality(T) /\ Occurrences(piece, all) = Cardinality(U)
  BY <1>1, Zenon DEF Occurrences
<1> HIDE DEF T, U, all
<1>5. Cardinality(U) = Cardinality(T) + (IF more = piece THEN 1 ELSE 0)
  BY <1>2, <1>3
<1> QED BY <1>3, <1>4, <1>5 DEF all

(* A piece that the line has fewer times than the statement was left out at *)
(* some step, where it did not fit; the line has only grown since.          *)
LEMMA MissingDidNotFit ==
  ASSUME NEW statement \in Seq(Pieces), NEW piece \in Pieces,
         Occurrences(piece, LoggedPieces(statement)) < Occurrences(piece, statement)
  PROVE  TotalLength(LoggedPieces(statement)) + piece.length >= SmallBuffer
<1> DEFINE n == Len(statement)
           Upto(k) == {i \in 1 .. k : statement[i] = piece}
<1>1. n \in Nat /\ DOMAIN statement = 1 .. n /\ \A i \in 1 .. n : statement[i] \in Pieces
  BY ElementOfSeq, LenProperties
<1>2. PICK h : LoggedSteps(h, statement) /\ LoggedPieces(statement) = h[n]
  BY LoggedPiecesSteps
<1>3. \A k \in 0 .. n : h[k] \in Seq(Pieces) /\ TotalLength(h[k]) \in Nat
  <2>1. \A k \in 0 .. n : h[k] \in Buffers
    BY <1>2 DEF LoggedSteps
  <2> QED BY <2>1, TotalLengthType DEF Buffers
<1> DEFINE S == {k \in 0 .. n : \/ Cardinality(Upto(k)) <= Occurrences(piece, h[k])
                               \/ TotalLength(h[k]) + piece.length >= SmallBuffer}
<1>4. 0 \in S
  <2>1. Upto(0) = {} /\ Cardinality({}) = 0
    BY FS_EmptySet
  <2>2. Occurrences(piece, h[0]) \in Nat /\ 0 \in 0 .. n
    BY <1>1, <1>3, OccurrencesAppend
  <2>3. Cardinality(Upto(0)) = 0
    BY <2>1, Zenon
  <2>4. Cardinality(Upto(0)) <= Occurrences(piece, h[0])
    BY <2>2, <2>3
  <2> QED BY <2>2, <2>4
<1>5. ASSUME NEW k \in 0 .. n, k \in S, k + 1 <= n PROVE k + 1 \in S
  <2>1. /\ k + 1 \in 1 .. n /\ k + 1 \in 0 .. n /\ (k + 1) - 1 = k /\ k \in Nat
        /\ h[k] \in Buffers /\ statement[k + 1] \in Pieces
    BY <1>1, <1>2, <1>5 DEF LoggedSteps
  <2>2. h[k + 1] = Put(h[k], statement[k + 1])
    BY <1>2, <2>1 DEF LoggedSteps
  <2>3. /\ Upto(k) \in SUBSET (1 .. k)
        /\ Upto(k + 1) = IF statement[k + 1] = piece THEN Upto(k) \cup {k + 1} ELSE Upto(k)
    BY <2>1
  <2> HIDE DEF Upto
  <2>4. /\ Cardinality(Upto(k)) \in Nat
        /\ Cardinality(Upto(k + 1)) =
             Cardinality(Upto(k)) + (IF statement[k + 1] = piece THEN 1 ELSE 0)
    <3>1. /\ Cardinality(Upto(k)) \in Nat
          /\ Cardinality(Upto(k) \cup {k + 1}) = Cardinality(Upto(k)) + 1
      BY <2>1, <2>3, OneMore, Zenon
    <3>2. CASE statement[k + 1] = piece
      <4>1. Upto(k + 1) = Upto(k) \cup {k + 1}
        BY <2>3, <3>2
      <4> QED BY <3>1, <3>2, <4>1
    <3>3. CASE statement[k + 1] # piece
      <4>1. Upto(k + 1) = Upto(k)
        BY <2>3, <3>3
      <4> QED BY <3>1, <3>3, <4>1
    <3> QED BY <3>2, <3>3
  <2>5. SmallBuffer \in Nat /\ piece.length \in Nat /\ statement[k + 1].length \in Nat
        /\ TotalLength(h[k]) \in Nat /\ h[k] \in Seq(Pieces)
    BY <1>3, <2>1, SmallBufferAssumption DEF Pieces
  <2>6. Occurrences(piece, h[k]) \in Nat
    BY <2>1, <2>5, OccurrencesAppend
  <2>7. CASE h[k + 1] = Append(h[k], statement[k + 1])
    <3>1. Occurrences(piece, h[k + 1]) =
            Occurrences(piece, h[k]) + (IF statement[k + 1] = piece THEN 1 ELSE 0)
      <4>1. h[k] \in Seq(Pieces) /\ statement[k + 1] \in Pieces
        BY <2>1, <2>5, Zenon
      <4>2. Occurrences(piece, Append(h[k], statement[k + 1])) =
              Occurrences(piece, h[k]) + (IF statement[k + 1] = piece THEN 1 ELSE 0)
        BY <4>1, OccurrencesAppend, Zenon
      <4> QED BY <2>7, <4>2, Zenon
    <3>2. TotalLength(h[k + 1]) = TotalLength(h[k]) + statement[k + 1].length
      BY <2>1, <2>5, <2>7, TotalLengthAppend
    <3>3. CASE Cardinality(Upto(k)) <= Occurrences(piece, h[k])
      <4>1. Cardinality(Upto(k + 1)) <= Occurrences(piece, h[k + 1])
        BY <2>4, <2>6, <3>1, <3>3
      <4> QED BY <2>1, <4>1, Zenon
    <3>4. CASE TotalLength(h[k]) + piece.length >= SmallBuffer
      <4>1. TotalLength(h[k + 1]) + piece.length >= SmallBuffer
        <5>1. \A total, more, len, limit \in Nat :
                total + len >= limit => total + more + len >= limit
          OBVIOUS
        <5> QED BY <2>5, <3>2, <3>4, <5>1, Zenon
      <4> QED BY <2>1, <4>1, Zenon
    <3> QED BY <1>5, <3>3, <3>4, Zenon
  <2>8. CASE h[k + 1] = h[k] /\ TotalLength(h[k]) + statement[k + 1].length >= SmallBuffer
    <3>1. CASE TotalLength(h[k]) + piece.length >= SmallBuffer
      <4>1. TotalLength(h[k + 1]) + piece.length >= SmallBuffer
        BY <2>8, <3>1, Zenon
      <4> QED BY <2>1, <4>1, Zenon
    <3>2. CASE statement[k + 1] = piece
      <4>1. TotalLength(h[k + 1]) + piece.length >= SmallBuffer
        BY <2>8, <3>2, Zenon
      <4> QED BY <2>1, <4>1, Zenon
    <3>3. CASE statement[k + 1] # piece /\ Cardinality(Upto(k)) <= Occurrences(piece, h[k])
      <4>1. Cardinality(Upto(k + 1)) = Cardinality(Upto(k))
        BY <2>4, <3>3
      <4>2. Cardinality(Upto(k + 1)) <= Occurrences(piece, h[k + 1])
        BY <2>8, <3>3, <4>1, Zenon
      <4> QED BY <2>1, <4>2, Zenon
    <3> QED BY <1>5, <3>1, <3>2, <3>3, Zenon
  <2> QED BY <2>1, <2>2, <2>7, <2>8, PutBuffers
<1>6. n \in S
  <2>1. \A k \in 0 .. n : k \in S
    <3> HIDE DEF S, n
    <3> QED BY <1>1, <1>4, <1>5, SetInduction
  <2>2. n \in 0 .. n
    BY <1>1
  <2> QED BY <2>1, <2>2
<1>7. Occurrences(piece, statement) = Cardinality(Upto(n))
  BY <1>1, Zenon DEF Occurrences
<1>8. Occurrences(piece, h[n]) \in Nat /\ Cardinality(Upto(n)) \in Nat
  <2>1. n \in 0 .. n /\ Upto(n) \in SUBSET (1 .. n)
    BY <1>1
  <2> HIDE DEF Upto, n
  <2> QED BY <1>1, <1>3, <2>1, OccurrencesAppend, OneMore
<1> HIDE DEF Upto
<1> QED BY <1>2, <1>6, <1>7, <1>8
=============================================================================
