------------------------- MODULE CircularBufferProofs -------------------------
(***************************************************************************)
(* The circular buffer keeps the order of its bytes, for every initial size,*)
(* every alphabet, every growth and every position of the two indices.      *)
(*                                                                          *)
(* Every index the code reduces by size() is below twice that size, so the  *)
(* remainder is the index itself or the index less the size (Modulo, Wrap); *)
(* what is left is linear arithmetic.  The lemmas speak of any array b of s *)
(* bytes with its indices r and w, so that they apply to the state before a *)
(* step and to the one after it.  An Append that grows the buffer moves the *)
(* wrapped part in a larger array, and is then one that fits.               *)
(***************************************************************************)
EXTENDS CircularBuffer, SequenceTheorems, TLAPS

USE BufferAssumption

(* An array of s bytes and two indices into it.                             *)
Shaped(b, s, r, w) ==
  /\ s \in Nat \ {0}
  /\ b \in [0 .. s - 1 -> Bytes]
  /\ r \in 0 .. s - 1
  /\ w \in 0 .. s - 1

(* How many bytes of it are readable.                                       *)
Readable(s, r, w) == IF r <= w THEN w - r ELSE s - (r - w)

(* The readable bytes of such an array, in the order they are read in.      *)
Queued(b, s, r, w) == [i \in 1 .. Readable(s, r, w) |-> b[(r + i - 1) % s]]

(* An index that has passed the end of the array at most once.              *)
Wrap(a, n) == IF a < n THEN a ELSE a - n

(* Taking the remainder is wrapping once.                                   *)
LEMMA Modulo ==
  ASSUME NEW n \in Nat \ {0}, NEW a \in 0 .. 2 * n - 1
  PROVE  a % n = Wrap(a, n) /\ Wrap(a, n) \in 0 .. n - 1
<1>1. CASE a < n
  <2>1. a % n = a
    BY <1>1
  <2> QED BY <1>1, <2>1 DEF Wrap
<1>2. CASE ~(a < n)
  <2>1. a % n = a - n
    BY <1>2
  <2> QED BY <1>2, <2>1 DEF Wrap
<1> QED BY <1>1, <1>2

(* The contents are ReadableBytes bytes, found from r on.                   *)
LEMMA QueuedBytes ==
  ASSUME NEW b, NEW s, NEW r, NEW w, Shaped(b, s, r, w)
  PROVE  /\ Readable(s, r, w) \in 0 .. s - 1
         /\ Queued(b, s, r, w) \in Seq(Bytes)
         /\ Len(Queued(b, s, r, w)) = Readable(s, r, w)
         /\ \A i \in 1 .. Readable(s, r, w) :
              Queued(b, s, r, w)[i] = b[Wrap(r + i - 1, s)]
<1> DEFINE n == Readable(s, r, w)
           q == Queued(b, s, r, w)
<1>1. n \in 0 .. s - 1 /\ s \in Nat \ {0} /\ r \in 0 .. s - 1
  BY DEF Shaped, Readable
<1>2. q = [i \in 1 .. n |-> b[(r + i - 1) % s]]
  BY DEF Queued
<1> HIDE DEF n, q
<1>3. \A i \in 1 .. n : r + i - 1 \in 0 .. 2 * s - 1
  BY <1>1
<1>4. \A i \in 1 .. n : (r + i - 1) % s = Wrap(r + i - 1, s) /\ Wrap(r + i - 1, s) \in 0 .. s - 1
  BY <1>1, <1>3, Modulo
<1>5. \A i \in 1 .. n : q[i] = b[Wrap(r + i - 1, s)] /\ q[i] \in Bytes
  BY <1>2, <1>4 DEF Shaped
<1>6. q \in Seq(Bytes) /\ Len(q) = n
  <2>1. DOMAIN q = 1 .. n /\ n \in Nat
    BY <1>1, <1>2
  <2>2. q \in [1 .. n -> Bytes]
    BY <1>2, <1>5, <2>1
  <2> QED BY <2>1, <2>2
<1> QED BY <1>1, <1>5, <1>6 DEF n, q

(* x is the array with the m bytes of data behind at.                       *)
IsWritten(x, array, n, at, data, m) ==
  /\ x \in [0 .. n - 1 -> Bytes]
  /\ \A i \in 0 .. n - 1 :
       /\ Wrap(i + n - at, n) < m => x[i] = data[Wrap(i + n - at, n) + 1]
       /\ ~(Wrap(i + n - at, n) < m) => x[i] = array[i]

(* Which is what Written makes.                                             *)
LEMMA WrittenAt ==
  ASSUME NEW n \in Nat \ {0}, NEW array, NEW at \in 0 .. n - 1, NEW data,
         NEW m \in 0 .. n, data \in [1 .. m -> Bytes], Len(data) = m,
         \A i \in 0 .. n - 1 : array[i] \in Bytes
  PROVE  IsWritten(Written(array, n, at, data), array, n, at, data, m)
<1> DEFINE W == Written(array, n, at, data)
           v(i) == IF Wrap(i + n - at, n) < m THEN data[Wrap(i + n - at, n) + 1] ELSE array[i]
<1>1. \A i \in 0 .. n - 1 : i + n - at \in 0 .. 2 * n - 1
  OBVIOUS
<1>2. \A i \in 0 .. n - 1 : /\ (i + n - at) % n = Wrap(i + n - at, n)
                            /\ Wrap(i + n - at, n) \in 0 .. n - 1
  BY <1>1, Modulo
<1>3. W = [i \in 0 .. n - 1 |-> IF (i + n - at) % n < m THEN data[((i + n - at) % n) + 1] ELSE array[i]]
  BY Zenon DEF Written
<1>4. \A i \in 0 .. n - 1 : W[i] = v(i)
  BY <1>2, <1>3
<1>5. ASSUME NEW i \in 0 .. n - 1 PROVE v(i) \in Bytes
  <2>1. CASE Wrap(i + n - at, n) < m
    <3> DEFINE k == Wrap(i + n - at, n)
    <3>1. k \in 0 .. n - 1 /\ k < m
      BY <1>2, <2>1, Zenon
    <3> HIDE DEF k
    <3>2. k + 1 \in 1 .. m
      BY <3>1
    <3>3. data[k + 1] \in Bytes
      BY <3>2
    <3> QED BY <2>1, <3>3, Zenon DEF k
  <2>2. CASE ~(Wrap(i + n - at, n) < m)
    <3>1. array[i] \in Bytes
      OBVIOUS
    <3> QED BY <2>2, <3>1, Zenon
  <2> QED BY <2>1, <2>2
<1> HIDE DEF v
<1>6. W = [i \in 0 .. n - 1 |-> W[i]]
  BY <1>3
<1> HIDE DEF W
<1>7. W \in [0 .. n - 1 -> Bytes]
  BY <1>4, <1>5, <1>6
<1> QED BY <1>4, <1>7, Zenon DEF v, W, IsWritten

(* Data that fits goes behind the contents, which stay.                     *)
LEMMA AppendedFits ==
  ASSUME NEW b, NEW s, NEW r, NEW w, Shaped(b, s, r, w),
         NEW data, NEW m \in Nat, data \in [1 .. m -> Bytes], Len(data) = m,
         NEW n, n = Readable(s, r, w), n + m <= s - 1,
         NEW b2, b2 = Written(b, s, w, data), NEW w2, w2 = Wrap(w + m, s)
  PROVE  /\ Shaped(b2, s, r, w2)
         /\ Readable(s, r, w2) = n + m
         /\ \A i \in 1 .. n : Queued(b2, s, r, w2)[i] = Queued(b, s, r, w)[i]
         /\ \A i \in 1 .. m : Queued(b2, s, r, w2)[n + i] = data[i]
<1>1. /\ s \in Nat \ {0} /\ b \in [0 .. s - 1 -> Bytes] /\ r \in 0 .. s - 1 /\ w \in 0 .. s - 1
      /\ n \in 0 .. s - 1 /\ m \in 0 .. s /\ n + m <= s - 1
  <2>1. n \in 0 .. s - 1
    BY QueuedBytes, Zenon
  <2> QED BY <2>1 DEF Shaped
<1>2. w2 \in 0 .. s - 1
  BY <1>1 DEF Wrap
<1>3. IsWritten(b2, b, s, w, data, m)
  <2>1. \A i \in 0 .. s - 1 : b[i] \in Bytes
    BY <1>1
  <2>2. m \in 0 .. s /\ data \in [1 .. m -> Bytes] /\ Len(data) = m /\ s \in Nat \ {0} /\ w \in 0 .. s - 1
    BY <1>1
  <2>3. IsWritten(Written(b, s, w, data), b, s, w, data, m)
    BY <2>1, <2>2, WrittenAt, Zenon
  <2> QED BY <2>3
<1>4. Shaped(b2, s, r, w2)
  BY <1>1, <1>2, <1>3 DEF Shaped, IsWritten
<1>5. Readable(s, r, w2) = n + m
  BY <1>1, <1>2 DEF Readable, Wrap
<1>6. /\ \A i \in 1 .. n + m : Queued(b2, s, r, w2)[i] = b2[Wrap(r + i - 1, s)]
      /\ \A i \in 1 .. n : Queued(b, s, r, w)[i] = b[Wrap(r + i - 1, s)]
  BY <1>4, <1>5, QueuedBytes
<1>7. n = IF r <= w THEN w - r ELSE s - (r - w)
  BY DEF Readable
<1>8. ASSUME NEW i \in 1 .. n
      PROVE  Queued(b2, s, r, w2)[i] = Queued(b, s, r, w)[i]
  <2> DEFINE k == Wrap(r + i - 1, s)
  <2>1. k \in 0 .. s - 1 /\ ~(Wrap(k + s - w, s) < m) /\ i \in 1 .. n + m
    BY <1>1, <1>7 DEF Wrap
  <2> HIDE DEF k
  <2>2. b2[k] = b[k]
    BY <1>3, <2>1 DEF IsWritten
  <2> QED BY <1>6, <2>1, <2>2 DEF k
<1>9. ASSUME NEW i \in 1 .. m
      PROVE  Queued(b2, s, r, w2)[n + i] = data[i]
  <2> DEFINE k == Wrap(r + (n + i) - 1, s)
  <2>1. k \in 0 .. s - 1 /\ Wrap(k + s - w, s) = i - 1 /\ n + i \in 1 .. n + m
    BY <1>1, <1>7 DEF Wrap
  <2> HIDE DEF k
  <2>2. i - 1 < m /\ (i - 1) + 1 = i
    BY <1>1
  <2>3. b2[k] = data[i]
    BY <1>3, <2>1, <2>2, Zenon DEF IsWritten
  <2> QED BY <1>6, <2>1, <2>3 DEF k
<1> QED BY <1>4, <1>5, <1>8, <1>9, Zenon

(* Resized, of any array.                                                   *)
Moved(b, s, r, w, n) ==
  [i \in 0 .. n - 1 |->
     IF i < s THEN b[i]
     ELSE IF r > w /\ i < s + w THEN b[i - s]
     ELSE Zero]

(* In an array of twice the size the contents are the same, w behind them.  *)
LEMMA MovedKeeps ==
  ASSUME NEW b, NEW s, NEW r, NEW w, Shaped(b, s, r, w), NEW t \in Nat, t >= 2 * s
  PROVE  LET x == Moved(b, s, r, w, t)
             at == IF r > w THEN s + w ELSE w
         IN  /\ Shaped(x, t, r, at)
             /\ Readable(t, r, at) = Readable(s, r, w)
             /\ \A i \in 1 .. Readable(s, r, w) : Queued(x, t, r, at)[i] = Queued(b, s, r, w)[i]
<1> DEFINE x == Moved(b, s, r, w, t)
           at == IF r > w THEN s + w ELSE w
           n == Readable(s, r, w)
<1>1. /\ s \in Nat \ {0} /\ b \in [0 .. s - 1 -> Bytes] /\ r \in 0 .. s - 1 /\ w \in 0 .. s - 1
      /\ t \in Nat \ {0} /\ t >= s + s
  BY DEF Shaped
<1>2. at \in 0 .. t - 1 /\ r \in 0 .. t - 1
  BY <1>1
<1>3. \A i \in 0 .. t - 1 : x[i] = IF i < s THEN b[i]
                                  ELSE IF r > w /\ i < s + w THEN b[i - s] ELSE Zero
  BY DEF Moved
<1>4. x \in [0 .. t - 1 -> Bytes]
  <2>1. ASSUME NEW i \in 0 .. t - 1 PROVE x[i] \in Bytes
    <3>1. CASE i < s
      BY <1>1, <1>3, <3>1
    <3>2. CASE ~(i < s) /\ r > w /\ i < s + w
      <4>1. i - s \in 0 .. s - 1
        BY <1>1, <3>2
      <4> QED BY <1>1, <1>3, <3>2, <4>1
    <3>3. CASE ~(i < s) /\ ~(r > w /\ i < s + w)
      BY <1>3, <3>3
    <3> QED BY <3>1, <3>2, <3>3
  <2>2. x = [i \in 0 .. t - 1 |-> x[i]]
    BY DEF Moved
  <2> HIDE DEF x
  <2> QED BY <2>1, <2>2
<1>5. Shaped(x, t, r, at)
  <2> HIDE DEF x, at
  <2> QED BY <1>1, <1>2, <1>4 DEF Shaped
<1>6. Readable(t, r, at) = n
  BY <1>1 DEF Readable
<1>7. n = IF r <= w THEN w - r ELSE s - (r - w)
  BY DEF Readable
<1>8. /\ \A i \in 1 .. n : Queued(x, t, r, at)[i] = x[Wrap(r + i - 1, t)]
      /\ \A i \in 1 .. n : Queued(b, s, r, w)[i] = b[Wrap(r + i - 1, s)]
  <2> HIDE DEF x, at, n
  <2>1. \A i \in 1 .. Readable(t, r, at) : Queued(x, t, r, at)[i] = x[Wrap(r + i - 1, t)]
    BY <1>5, QueuedBytes
  <2>2. \A i \in 1 .. Readable(s, r, w) : Queued(b, s, r, w)[i] = b[Wrap(r + i - 1, s)]
    BY QueuedBytes
  <2> QED BY <1>6, <2>1, <2>2, Zenon DEF n
<1> HIDE DEF x, n
<1>9. ASSUME NEW i \in 1 .. n
      PROVE  Queued(x, t, r, at)[i] = Queued(b, s, r, w)[i]
  <2> DEFINE k == r + i - 1
  <2>1. k \in 0 .. t - 1 /\ Wrap(k, t) = k /\ Wrap(k, s) = IF k < s THEN k ELSE k - s
    BY <1>1, <1>7 DEF Wrap
  <2>2. k < s \/ (r > w /\ k < s + w)
    BY <1>1, <1>7
  <2> HIDE DEF k
  <2>3. x[k] = b[Wrap(k, s)]
    BY <1>3, <2>1, <2>2
  <2> QED BY <1>8, <2>1, <2>3, Zenon DEF k
<1> QED BY <1>5, <1>6, <1>9, Zenon DEF x, n

(* Advancing r by k takes the first k bytes away.                           *)
LEMMA TakenFrom ==
  ASSUME NEW b, NEW s, NEW r, NEW w, Shaped(b, s, r, w), NEW k \in 0 .. Readable(s, r, w)
  PROVE  LET r2 == (r + k) % s
             q == Queued(b, s, r, w)
         IN  /\ Shaped(b, s, r2, w)
             /\ Queued(b, s, r2, w) = SubSeq(q, k + 1, Len(q))
<1> DEFINE r2 == (r + k) % s
           q == Queued(b, s, r, w)
           q2 == Queued(b, s, r2, w)
           n == Readable(s, r, w)
<1>1. /\ s \in Nat \ {0} /\ b \in [0 .. s - 1 -> Bytes] /\ r \in 0 .. s - 1 /\ w \in 0 .. s - 1
      /\ n \in 0 .. s - 1 /\ n = IF r <= w THEN w - r ELSE s - (r - w)
  BY DEF Shaped, Readable
<1>2. k \in 0 .. n
  OBVIOUS
<1> HIDE DEF n
<1>3. r2 = Wrap(r + k, s) /\ r2 \in 0 .. s - 1
  <2>1. r + k \in 0 .. 2 * s - 1
    BY <1>1, <1>2
  <2> QED BY <1>1, <2>1, Modulo
<1> HIDE DEF r2
<1>4. Shaped(b, s, r2, w)
  BY <1>1, <1>3 DEF Shaped
<1>5. Readable(s, r2, w) = n - k
  BY <1>1, <1>2, <1>3 DEF Readable, Wrap
<1>6. /\ q \in Seq(Bytes) /\ Len(q) = n
      /\ \A i \in 1 .. n : q[i] = b[Wrap(r + i - 1, s)]
  <2> HIDE DEF q
  <2> QED BY QueuedBytes DEF n, q
<1>7. /\ q2 \in Seq(Bytes) /\ Len(q2) = n - k
      /\ \A i \in 1 .. n - k : q2[i] = b[Wrap(r2 + i - 1, s)]
  BY <1>4, <1>5, QueuedBytes
<1> HIDE DEF q, q2
<1>8. \A i \in 1 .. n - k : q2[i] = q[k + i]
  <2> SUFFICES ASSUME NEW i \in 1 .. n - k PROVE q2[i] = q[k + i]
    OBVIOUS
  <2>1. Wrap(r2 + i - 1, s) = Wrap(r + (k + i) - 1, s) /\ k + i \in 1 .. n
    BY <1>1, <1>2, <1>3 DEF Wrap
  <2> QED BY <1>6, <1>7, <2>1
<1>9. q2 = SubSeq(q, k + 1, n)
  <2>1. SubSeq(q, k + 1, n) \in Seq(Bytes) /\ Len(SubSeq(q, k + 1, n)) = n - k
    BY <1>1, <1>2, <1>6
  <2>2. \A i \in 1 .. n - k : SubSeq(q, k + 1, n)[i] = q[k + i]
    BY <1>1, <1>2, <1>6
  <2> QED BY <1>7, <1>8, <2>1, <2>2, SeqEqual
<1> QED BY <1>4, <1>6, <1>9 DEF r2, q, q2

-----------------------------------------------------------------------------
(* TypeOK says that the buffer is such an array,                            *)
LEMMA ShapeOfState ==
  TypeOK <=> /\ Shaped(bytes, size, readIndex, writeIndex)
             /\ size >= InitialSize /\ line \in Seq(Bytes)
BY DEF TypeOK, Shaped

(* and so it does of the next state.                                        *)
LEMMA ShapeOfNextState ==
  TypeOK' <=> /\ Shaped(bytes', size', readIndex', writeIndex')
              /\ size' >= InitialSize /\ line' \in Seq(Bytes)
BY DEF TypeOK, Shaped

(* Its contents, before and after a step.                                   *)
LEMMA ContentsOfState ==
  /\ ReadableBytes = Readable(size, readIndex, writeIndex)
  /\ Contents = Queued(bytes, size, readIndex, writeIndex)
  /\ ReadableBytes' = Readable(size', readIndex', writeIndex')
  /\ Contents' = Queued(bytes', size', readIndex', writeIndex')
BY Zenon DEF ReadableBytes, Contents, Readable, Queued

(* q2 is q with data behind it.                                             *)
Extends(q2, q, data) ==
  /\ q \in Seq(Bytes) /\ q2 \in Seq(Bytes)
  /\ Len(q2) = Len(q) + Len(data)
  /\ \A i \in 1 .. Len(q) : q2[i] = q[i]
  /\ \A i \in 1 .. Len(data) : q2[Len(q) + i] = data[i]

(* What an Append is given is not empty.                                    *)
LEMMA DataType ==
  ASSUME NEW data \in Data
  PROVE  Len(data) \in Nat \ {0} /\ data \in [1 .. Len(data) -> Bytes]
<1>1. PICK n \in 1 .. MaxAppend : data \in [1 .. n -> Bytes]
  BY DEF Data
<1>2. n \in Nat \ {0} /\ Len(data) = n
  BY <1>1
<1> QED BY <1>1, <1>2

(* Append puts its data behind the contents, whether or not it grows.       *)
LEMMA AppendExtends ==
  ASSUME TypeOK, NEW data \in Data, AppendBytes(data)
  PROVE  TypeOK' /\ Extends(Contents', Contents, data)
<1> DEFINE m == Len(data)
           n == Readable(size, readIndex, writeIndex)
           q == Queued(bytes, size, readIndex, writeIndex)
           q2 == Queued(bytes', size', readIndex', writeIndex')
<1>1. m \in Nat \ {0} /\ data \in [1 .. m -> Bytes]
  BY DataType
<1>2. /\ Shaped(bytes, size, readIndex, writeIndex)
      /\ size \in Nat \ {0} /\ size >= InitialSize /\ line \in Seq(Bytes)
  BY ShapeOfState DEF TypeOK
<1>3. n \in 0 .. size - 1
  BY <1>2, QueuedBytes, Zenon
<1>4. WriteableBytes = size - n - 1 /\ readIndex' = readIndex /\ line' = line
  BY ContentsOfState, Zenon DEF WriteableBytes, AppendBytes
<1> HIDE DEF m, n
<1>5. /\ Shaped(bytes', size', readIndex', writeIndex') /\ size' >= size
      /\ Readable(size', readIndex', writeIndex') = n + m
      /\ \A i \in 1 .. n : q2[i] = q[i]
      /\ \A i \in 1 .. m : q2[n + i] = data[i]
  <2>1. CASE AppendFits(data)
    <3>1. /\ n + m <= size - 1 /\ size' = size
          /\ bytes' = Written(bytes, size, writeIndex, data)
          /\ writeIndex' = (writeIndex + m) % size
      BY <1>1, <1>2, <1>3, <1>4, <2>1 DEF AppendFits, m
    <3>2. m \in Nat /\ data \in [1 .. m -> Bytes] /\ Len(data) = m
      BY <1>1 DEF m
    <3>3. n = Readable(size, readIndex, writeIndex)
      BY DEF n
    <3>4. /\ Shaped(bytes', size, readIndex, writeIndex')
          /\ Readable(size, readIndex, writeIndex') = n + m
          /\ \A i \in 1 .. n :
               Queued(bytes', size, readIndex, writeIndex')[i]
                 = Queued(bytes, size, readIndex, writeIndex)[i]
          /\ \A i \in 1 .. m :
               Queued(bytes', size, readIndex, writeIndex')[n + i] = data[i]
      <4>1. writeIndex \in 0 .. size - 1 /\ writeIndex + m \in 0 .. 2 * size - 1
        BY <1>2, <1>3, <3>1, <3>2 DEF Shaped
      <4>2. writeIndex' = Wrap(writeIndex + m, size)
        BY <1>2, <3>1, <4>1, Modulo
      <4>3. n + m <= size - 1 /\ bytes' = Written(bytes, size, writeIndex, data)
        BY <3>1, Zenon
      <4>4. Shaped(bytes, size, readIndex, writeIndex)
        BY <1>2, Zenon
      <4> QED BY <3>2, <3>3, <4>2, <4>3, <4>4, AppendedFits
    <3> QED BY <1>2, <1>4, <3>1, <3>4
  <2>2. CASE AppendGrows(data)
    <3> DEFINE t == size * 2 + m
               at == IF readIndex > writeIndex THEN size + writeIndex ELSE writeIndex
               x == Moved(bytes, size, readIndex, writeIndex, t)
    <3>1. /\ size' = t /\ t \in Nat /\ t >= 2 * size /\ t >= size /\ n + m <= t - 1
          /\ bytes' = Written(x, t, at, data)
          /\ writeIndex' = (at + m) % t
      <4>1. size' = t /\ writeIndex' = (at + m) % size' /\ bytes' = Written(Resized(size'), size', at, data)
        BY <2>2 DEF AppendGrows, m
      <4>2. Resized(t) = x
        BY Zenon DEF Resized, Moved
      <4>3. t \in Nat /\ t >= 2 * size /\ t >= size /\ n + m <= t - 1
        BY <1>1, <1>2, <1>3
      <4> QED BY <4>1, <4>2, <4>3
    <3>2. /\ Shaped(x, t, readIndex, at)
          /\ Readable(t, readIndex, at) = n
          /\ \A i \in 1 .. n : Queued(x, t, readIndex, at)[i] = q[i]
      <4> HIDE DEF t
      <4> QED BY <1>2, <3>1, MovedKeeps DEF n
    <3> HIDE DEF t, at, x
    <3>3. /\ Shaped(bytes', t, readIndex, writeIndex')
          /\ Readable(t, readIndex, writeIndex') = n + m
          /\ \A i \in 1 .. n :
               Queued(bytes', t, readIndex, writeIndex')[i] = Queued(x, t, readIndex, at)[i]
          /\ \A i \in 1 .. m :
               Queued(bytes', t, readIndex, writeIndex')[n + i] = data[i]
      <4>1. m \in Nat /\ data \in [1 .. m -> Bytes] /\ Len(data) = m
        BY <1>1 DEF m
      <4>2. n + m <= t - 1 /\ bytes' = Written(x, t, at, data)
            /\ n = Readable(t, readIndex, at)
        BY <3>1, <3>2, Zenon
      <4>3. Shaped(x, t, readIndex, at)
        BY <3>2, Zenon
      <4>4. writeIndex' = Wrap(at + m, t)
        <5>1. at + m \in 0 .. 2 * t - 1 /\ t \in Nat \ {0}
          BY <1>3, <3>1, <4>1, <4>2, <4>3 DEF Shaped
        <5> QED BY <3>1, <5>1, Modulo
      <4> QED BY <4>1, <4>2, <4>3, <4>4, AppendedFits
    <3> QED BY <1>2, <1>4, <3>1, <3>2, <3>3
  <2> QED BY <2>1, <2>2 DEF AppendBytes
<1> HIDE DEF q, q2
<1>6. /\ q \in Seq(Bytes) /\ Len(q) = n
      /\ q2 \in Seq(Bytes) /\ Len(q2) = n + m
  <2>1. q \in Seq(Bytes) /\ Len(q) = n
    BY <1>2, QueuedBytes DEF q, n
  <2>2. q2 \in Seq(Bytes) /\ Len(q2) = n + m
    BY <1>5, QueuedBytes DEF q2
  <2> QED BY <2>1, <2>2
<1>7. TypeOK'
  <2>1. size' >= InitialSize
    BY <1>2, <1>5 DEF Shaped
  <2> QED BY <1>2, <1>4, <1>5, <2>1, ShapeOfNextState
<1>8. Extends(q2, q, data)
  BY <1>5, <1>6 DEF Extends, m
<1> QED BY <1>7, <1>8, ContentsOfState, Zenon DEF q, q2

(* Reading takes bytes from the front and leaves the rest.                  *)
LEMMA TakeKeepsRest ==
  ASSUME TypeOK, NEW k \in 0 .. ReadableBytes, readIndex' = (readIndex + k) % size,
         UNCHANGED <<bytes, size, writeIndex>>, line' \in Seq(Bytes)
  PROVE  TypeOK' /\ Contents' = SubSeq(Contents, k + 1, Len(Contents))
<1>1. /\ Shaped(bytes, size, readIndex, writeIndex)
      /\ size >= InitialSize /\ k \in 0 .. Readable(size, readIndex, writeIndex)
  BY ShapeOfState, ContentsOfState, Zenon
<1>2. LET r2 == (readIndex + k) % size
          q == Queued(bytes, size, readIndex, writeIndex)
      IN  /\ Shaped(bytes, size, r2, writeIndex)
          /\ Queued(bytes, size, r2, writeIndex) = SubSeq(q, k + 1, Len(q))
  BY <1>1, TakenFrom
<1>3. Shaped(bytes', size', readIndex', writeIndex') /\ size' >= InitialSize
  BY <1>1, <1>2
<1>4. TypeOK'
  BY <1>3, ShapeOfNextState
<1>5. Contents' = SubSeq(Contents, k + 1, Len(Contents))
  BY <1>2, ContentsOfState, Zenon
<1> QED BY <1>4, <1>5

(* The contents are a sequence of bytes.                                    *)
LEMMA ContentsType ==
  ASSUME TypeOK
  PROVE  /\ ReadableBytes \in Nat /\ Contents \in Seq(Bytes) /\ Len(Contents) = ReadableBytes
         /\ DOMAIN Contents = 1 .. ReadableBytes
<1>1. Shaped(bytes, size, readIndex, writeIndex) /\ size \in Nat
  BY ShapeOfState DEF TypeOK
<1>2. /\ Readable(size, readIndex, writeIndex) \in 0 .. size - 1
      /\ Queued(bytes, size, readIndex, writeIndex) \in Seq(Bytes)
      /\ Len(Queued(bytes, size, readIndex, writeIndex)) = Readable(size, readIndex, writeIndex)
  BY <1>1, QueuedBytes
<1>3. ReadableBytes \in Nat /\ Contents \in Seq(Bytes) /\ Len(Contents) = ReadableBytes
  BY <1>1, <1>2, ContentsOfState
<1> QED BY <1>3, LenProperties

(* An empty buffer is an empty queue.                                       *)
LEMMA InitMaps == Init => TypeOK /\ Queue!Init
<1> SUFFICES ASSUME Init PROVE TypeOK /\ Queue!Init
  OBVIOUS
<1>1. TypeOK
  BY DEF Init, TypeOK
<1>2. ReadableBytes = 0
  BY DEF Init, ReadableBytes
<1>3. Contents \in Seq(Bytes) /\ Len(Contents) = 0
  BY <1>1, <1>2, ContentsType
<1> QED BY <1>1, <1>3 DEF Queue!Init, Init

(* Every step keeps the shape, and is a step of the queue or none.          *)
LEMMA StepMaps == TypeOK /\ [Next]_vars => TypeOK' /\ [Queue!Next]_(Queue!vars)
<1> SUFFICES ASSUME TypeOK, [Next]_vars PROVE TypeOK' /\ [Queue!Next]_(Queue!vars)
  OBVIOUS
<1>1. /\ ReadableBytes \in Nat /\ Contents \in Seq(Bytes) /\ Len(Contents) = ReadableBytes
      /\ DOMAIN Contents = 1 .. ReadableBytes
  BY ContentsType
<1>2. ASSUME NEW data \in Data, AppendBytes(data) PROVE TypeOK' /\ Queue!Next
  <2>1. TypeOK' /\ Extends(Contents', Contents, data) /\ Len(data) \in Nat \ {0}
    BY <1>2, AppendExtends, DataType
  <2>2. /\ Contents' \in Seq(Bytes) /\ Len(Contents) < Len(Contents')
        /\ SubSeq(Contents', 1, Len(Contents)) = Contents
    <3> DEFINE q == Contents
               q2 == Contents'
    <3>1. Extends(q2, q, data)
      BY <2>1
    <3> HIDE DEF q, q2
    <3>2. /\ q \in Seq(Bytes) /\ q2 \in Seq(Bytes) /\ Len(q) < Len(q2)
          /\ \A i \in 1 .. Len(q) : q2[i] = q[i]
      BY <2>1, <3>1 DEF Extends
    <3>3. SubSeq(q2, 1, Len(q)) = q
      <4>1. /\ SubSeq(q2, 1, Len(q)) \in Seq(Bytes) /\ Len(SubSeq(q2, 1, Len(q))) = Len(q)
            /\ \A i \in 1 .. Len(q) : SubSeq(q2, 1, Len(q))[i] = q2[i]
        BY <3>2
      <4> QED BY <3>2, <4>1, SeqEqual
    <3> QED BY <3>2, <3>3 DEF q, q2
  <2>3. Queue!Put
    BY <1>2, <2>2 DEF Queue!Put, AppendBytes
  <2> QED BY <2>1, <2>3 DEF Queue!Next
<1>3. ASSUME NEW n \in 1 .. ReadableBytes, ReadBytesBy(n) PROVE TypeOK' /\ Queue!Next
  <2>1. /\ n \in 0 .. ReadableBytes /\ readIndex' = (readIndex + n) % size
        /\ UNCHANGED <<bytes, size, writeIndex, line>> /\ line' \in Seq(Bytes)
    BY <1>1, <1>3 DEF ReadBytesBy, TypeOK
  <2>2. TypeOK' /\ Contents' = SubSeq(Contents, n + 1, Len(Contents))
    BY <2>1, TakeKeepsRest
  <2>3. Queue!Take(n) /\ n \in 1 .. Len(Contents)
    BY <1>1, <2>1, <2>2 DEF Queue!Take
  <2> QED BY <2>2, <2>3 DEF Queue!Next
<1>4. CASE ParseLine
  <2>1. ASSUME NEW k \in LineLengths, line' = SubSeq(Contents, 1, k - 2),
               readIndex' = (readIndex + k) % size, UNCHANGED <<bytes, size, writeIndex>>
        PROVE  TypeOK' /\ Queue!Next
    <3>1. /\ k \in 1 .. ReadableBytes /\ k > 2 /\ Contents[k - 1] = CR /\ Contents[k] = LF
          /\ \A i \in 1 .. k - 1 : Contents[i] # LF
      BY <1>1, <2>1 DEF LineLengths, FirstLF
    <3>2. SubSeq(Contents, 1, k - 2) \in Seq(Bytes)
      <4> DEFINE q == Contents
      <4> HIDE DEF q
      <4>1. q \in Seq(Bytes) /\ k \in 1 .. Len(q) /\ k > 2
        BY <1>1, <3>1 DEF q
      <4>2. SubSeq(q, 1, k - 2) \in Seq(Bytes)
        BY <4>1
      <4> QED BY <4>2 DEF q
    <3>3. TypeOK' /\ Contents' = SubSeq(Contents, k + 1, Len(Contents))
      BY <1>1, <2>1, <3>1, <3>2, TakeKeepsRest
    <3>4. Queue!TakeLine(k) /\ k \in 1 .. Len(Contents)
      BY <1>1, <2>1, <3>1, <3>3 DEF Queue!TakeLine
    <3> QED BY <3>3, <3>4 DEF Queue!Next
  <2>2. ASSUME line' = <<>>, UNCHANGED <<bytes, size, readIndex, writeIndex>>
        PROVE  TypeOK' /\ Queue!Next
    <3>1. TypeOK'
      BY <2>2 DEF TypeOK
    <3>2. Contents' = Contents
      BY <2>2, ContentsOfState, Zenon
    <3> QED BY <2>2, <3>1, <3>2 DEF Queue!Next, Queue!NoLine
  <2> QED BY <1>4, <2>1, <2>2 DEF ParseLine
<1>5. CASE UNCHANGED vars
  <2>1. TypeOK'
    BY <1>5 DEF vars, TypeOK
  <2>2. Contents' = Contents /\ line' = line
    BY <1>5, ContentsOfState, Zenon DEF vars
  <2> QED BY <2>1, <2>2 DEF Queue!vars
<1> QED BY <1>2, <1>3, <1>4, <1>5 DEF Next

(* Both indices stay inside buffer_, whatever is appended, read and parsed. *)
THEOREM BufferTypeCorrect == Spec => []TypeOK
BY InitMaps, StepMaps, PTL DEF Spec

(* CircularBuffer implements a queue of bytes: wrap-around, growth and      *)
(* the move of the wrapped part keep the order of the bytes, lose none, and *)
(* ParseLine takes a line only when its CRLF is there.                      *)
THEOREM RefinesByteQueue == Spec => ImplementsByteQueue
BY InitMaps, StepMaps, BufferTypeCorrect, PTL DEF Spec, ImplementsByteQueue, Queue!Spec

(* What Append adds to the contents is its data, in order, and nothing else.*)
THEOREM AppendPutsItsData ==
  Spec => [][\A data \in Data : AppendBytes(data) => Contents' = Contents \o data]_vars
<1>1. ASSUME TypeOK, NEW data \in Data, AppendBytes(data)
      PROVE  Contents' = Contents \o data
  <2> DEFINE q == Contents
             q2 == Contents'
  <2>1. Extends(q2, q, data) /\ data \in Seq(Bytes)
    BY <1>1, AppendExtends, DataType
  <2> HIDE DEF q, q2
  <2>2. q \o data \in Seq(Bytes) /\ Len(q \o data) = Len(q2) /\ q2 \in Seq(Bytes)
    BY <2>1, ConcatProperties DEF Extends
  <2>3. \A i \in 1 .. Len(q2) : q2[i] = (q \o data)[i]
    <3>1. Len(q) \in Nat /\ Len(data) \in Nat /\ Len(q2) = Len(q) + Len(data)
      BY <2>1, LenProperties DEF Extends
    <3>2. ASSUME NEW i \in 1 .. Len(q2) PROVE q2[i] = (q \o data)[i]
      <4>1. (q \o data)[i] = IF i <= Len(q) THEN q[i] ELSE data[i - Len(q)]
        BY <2>1, <3>1, ConcatProperties DEF Extends
      <4>2. CASE i <= Len(q)
        BY <2>1, <3>1, <4>1, <4>2 DEF Extends
      <4>3. CASE ~(i <= Len(q))
        <5>1. i - Len(q) \in 1 .. Len(data) /\ Len(q) + (i - Len(q)) = i
          BY <3>1, <4>3
        <5> QED BY <2>1, <4>1, <4>3, <5>1 DEF Extends
      <4> QED BY <4>2, <4>3
    <3> QED BY <3>2
  <2>4. q2 = q \o data
    BY <2>2, <2>3, SeqEqual
  <2> QED BY <2>4 DEF q, q2
<1>2. TypeOK => \A data \in Data : AppendBytes(data) => Contents' = Contents \o data
  BY <1>1
<1> QED BY <1>2, BufferTypeCorrect, PTL DEF Spec
=============================================================================
