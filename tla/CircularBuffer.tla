---------------------------- MODULE CircularBuffer ----------------------------
(***************************************************************************)
(* CircularBuffer: a vector of bytes and two indices into it, one byte of   *)
(* which stays free so that equal indices mean empty.  Used by one thread.  *)
(***************************************************************************)
EXTENDS Naturals, Sequences

CONSTANTS
  Bytes,            \* what a byte may be; Zero is what resize() fills with
  Zero, CR, LF,
  InitialSize,      \* initial_size
  MaxAppend,        \* bound: the most bytes one Append is given
  MaxSize           \* bound: the size the vector does not grow beyond

ASSUME BufferAssumption ==
  /\ {Zero, CR, LF} \subseteq Bytes
  /\ InitialSize \in Nat \ {0}
  /\ MaxAppend \in Nat /\ MaxSize \in Nat

VARIABLES
  bytes,            \* buffer_, indexed from 0
  size,             \* buffer_.size()
  readIndex,        \* read_index_
  writeIndex,       \* write_index_
  line              \* what ParseLine returned last

vars == <<bytes, size, readIndex, writeIndex, line>>

Init ==
  /\ size = InitialSize
  /\ bytes = [i \in 0 .. InitialSize - 1 |-> Zero]
  /\ readIndex = 0 /\ writeIndex = 0
  /\ line = <<>>

-----------------------------------------------------------------------------
ReadableBytes ==
  IF readIndex <= writeIndex THEN writeIndex - readIndex
                             ELSE size - (readIndex - writeIndex)

WriteableBytes == size - ReadableBytes - 1

(* The readable bytes, in the order in which they are read. *)
Contents == [i \in 1 .. ReadableBytes |-> bytes[(readIndex + i - 1) % size]]

(* The array after a mere resize(n). *)
ResizedInPlace(n) == [i \in 0 .. n - 1 |-> IF i < size THEN bytes[i] ELSE Zero]

(* The array after resize(n), and with the bytes before write_index_ moved  *)
(* behind its old end if they are there because the contents wrap.          *)
Resized(n) ==
  [i \in 0 .. n - 1 |->
     IF i < size THEN bytes[i]
     ELSE IF readIndex > writeIndex /\ i < size + writeIndex THEN bytes[i - size]
     ELSE Zero]

(* data goes behind at, wrapping at the end. *)
Written(array, n, at, data) ==
  [i \in 0 .. n - 1 |->
     LET k == (i + n - at) % n IN IF k < Len(data) THEN data[k + 1] ELSE array[i]]

AppendFitsUnwrapped(data) ==
  /\ WriteableBytes >= Len(data)
  /\ bytes' = Written(bytes, size, writeIndex, data)
  /\ writeIndex' = writeIndex + Len(data)
  /\ UNCHANGED size

AppendFits(data) ==
  /\ WriteableBytes >= Len(data)
  /\ bytes' = Written(bytes, size, writeIndex, data)
  /\ writeIndex' = (writeIndex + Len(data)) % size
  /\ UNCHANGED size

AppendGrows(data) ==
  /\ WriteableBytes < Len(data)
  /\ size * 2 + Len(data) <= MaxSize
  /\ size' = size * 2 + Len(data)
  /\ LET at == IF readIndex > writeIndex THEN size + writeIndex ELSE writeIndex
     IN  /\ bytes' = Written(Resized(size'), size', at, data)
         /\ writeIndex' = (at + Len(data)) % size'

(* Append, which is also all that ReadFd does with what it read. *)
AppendBytes(data) ==
  /\ AppendFits(data) \/ AppendGrows(data)
  /\ UNCHANGED <<readIndex, line>>

(* ReadBytesBy; its callers take no more than there is. *)
ReadBytesBy(n) ==
  /\ readIndex' = (readIndex + n) % size
  /\ UNCHANGED <<bytes, size, writeIndex, line>>

FirstLF == {k \in DOMAIN Contents : /\ Contents[k] = LF
                                    /\ \A i \in 1 .. k - 1 : Contents[i] # LF}

(* The line before the first LF must have a text before its CR. *)
LineLengths == {k \in FirstLF : k > 2 /\ Contents[k - 1] = CR}

ParseLine ==
  \/ \E k \in LineLengths :
       /\ line' = SubSeq(Contents, 1, k - 2)
       /\ readIndex' = (readIndex + k) % size
       /\ UNCHANGED <<bytes, size, writeIndex>>
  \/ /\ LineLengths = {}
     /\ line' = <<>>
     /\ UNCHANGED <<bytes, size, readIndex, writeIndex>>

Data == UNION {[1 .. n -> Bytes] : n \in 1 .. MaxAppend}

Next ==
  \/ \E data \in Data : AppendBytes(data)
  \/ \E n \in 1 .. ReadableBytes : ReadBytesBy(n)
  \/ ParseLine

Spec == Init /\ [][Next]_vars

-----------------------------------------------------------------------------
(* The shape of the state: both indices stay inside the array. *)
TypeOK ==
  /\ size \in Nat /\ size >= InitialSize
  /\ bytes \in [0 .. size - 1 -> Bytes]
  /\ readIndex \in 0 .. size - 1
  /\ writeIndex \in 0 .. size - 1
  /\ line \in Seq(Bytes)

(* The vector, its indices and its growth implement a queue of bytes: the   *)
(* wrap-around and the move of the wrapped part keep the order and lose     *)
(* nothing, at every position of the two indices.                           *)
Queue == INSTANCE ByteQueue WITH contents <- Contents, line <- line
ImplementsByteQueue == Queue!Spec
=============================================================================
