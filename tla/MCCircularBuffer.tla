--------------------------- MODULE MCCircularBuffer ---------------------------
(* A small buffer that grows once.  CR also plays the text of a line and the *)
(* byte resize() fills with; LF tells a lost or moved byte from it.          *)
EXTENDS CircularBuffer

MCBytes == {CR, LF}
=============================================================================
