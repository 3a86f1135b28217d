------------------------------ MODULE ByteQueue ------------------------------
(***************************************************************************)
(* What a CircularBuffer promises: bytes come out in the order they went    *)
(* in, none lost, repeated or invented, whatever its size; and a line is    *)
(* taken, whole and without its CRLF, only when its CRLF is there.          *)
(***************************************************************************)
EXTENDS Naturals, Sequences

CONSTANTS Bytes, CR, LF

VARIABLES
  contents,         \* the bytes put in and not taken out yet
  line              \* the line taken last; blank when there was none

vars == <<contents, line>>

Init == contents = <<>> /\ line = <<>>

Put ==
  /\ contents' \in Seq(Bytes)
  /\ Len(contents) < Len(contents')
  /\ SubSeq(contents', 1, Len(contents)) = contents
  /\ UNCHANGED line

Take(n) ==
  /\ contents' = SubSeq(contents, n + 1, Len(contents))
  /\ UNCHANGED line

(* k is the length of the first line, with its CRLF. *)
TakeLine(k) ==
  /\ k > 1 /\ contents[k - 1] = CR /\ contents[k] = LF
  /\ \A i \in 1 .. k - 1 : contents[i] # LF
  /\ line' = SubSeq(contents, 1, k - 2)
  /\ contents' = SubSeq(contents, k + 1, Len(contents))

NoLine ==
  /\ line' = <<>>
  /\ UNCHANGED contents

Next ==
  \/ Put
  \/ \E n \in 1 .. Len(contents) : Take(n)
  \/ \E k \in 1 .. Len(contents) : TakeLine(k)
  \/ NoLine

Spec == Init /\ [][Next]_vars
=============================================================================
