---------------------------- MODULE MCAsyncLogging ----------------------------
(* Short and long lines for buffers that hold two short ones or a long one.   *)
(* Some statements have a piece too long for the line, at the end or before   *)
(* one that fits.                                                             *)
EXTENDS AsyncLogging

CONSTANTS s1, s2, s3, l1

Text(n) == [kind |-> "text", length |-> n]
Number(n) == [kind |-> "number", length |-> n]
Header == Text(1)

MCLines == {s1, s2, s3, l1}
MCStatement ==
  [line \in MCLines |->
     CASE line = s1 -> <<Header>>
       [] line = s2 -> <<Header, Text(2)>>
       [] line = s3 -> <<Header, Number(2)>>
       [] line = l1 -> <<Header, Text(3), Number(1)>>]
===============================================================================
