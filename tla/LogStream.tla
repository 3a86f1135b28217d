------------------------------ MODULE LogStream ------------------------------
(***************************************************************************)
(* What a LOG statement hands to AsyncLogging::Append: the header that      *)
(* Logger's constructor puts into its LogStream, and what operator<< puts   *)
(* after it, each piece kept or left out as a whole.  A piece is [kind,     *)
(* length]: "text" (strings, characters) goes straight to the FixedBuffer,  *)
(* a "number" is tested against the space that is left first.               *)
(***************************************************************************)
EXTENDS Naturals, Sequences, SequencesExt

CONSTANT SmallBuffer    \* kSmallBuffer, the size of a LogStream's buffer

Pieces == [kind : {"text", "number"}, length : Nat]

ASSUME SmallBufferAssumption == SmallBuffer \in Nat \ {0}

(* FixedBuffer::Length of a buffer that holds these pieces. *)
TotalLength(pieces) == FoldLeft(LAMBDA n, piece : n + piece.length, 0, pieces)

Available(pieces) == SmallBuffer - TotalLength(pieces)

(* FixedBuffer::Append keeps a byte free. *)
HasRoom(pieces, n) == Available(pieces) > n

PutText(pieces, piece) ==
  IF HasRoom(pieces, piece.length) THEN Append(pieces, piece) ELSE pieces

PutNumber(pieces, piece) ==
  IF Available(pieces) >= piece.length THEN PutText(pieces, piece) ELSE pieces

(* operator<< *)
Put(pieces, piece) ==
  IF piece.kind = "number" THEN PutNumber(pieces, piece) ELSE PutText(pieces, piece)

StopsAtFirstMisfit(statement) ==
  LET fits == {n \in 0 .. Len(statement) :
                 TotalLength(SubSeq(statement, 1, n)) < SmallBuffer}
  IN  SubSeq(statement, 1, CHOOSE n \in fits : \A m \in fits : m <= n)

(* What is in the buffer when ~Logger takes it. *)
LoggedPieces(statement) == FoldLeft(Put, <<>>, statement)

Occurrences(piece, pieces) == Cardinality({i \in DOMAIN pieces : pieces[i] = piece})
=============================================================================
