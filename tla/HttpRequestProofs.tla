-------------------------- MODULE HttpRequestProofs --------------------------
(***************************************************************************)
(* What one thread's parser keeps to, for every buffer size, every set of   *)
(* requests, well formed or not, and every way they are cut.                *)
(*                                                                         *)
(* The argument: the parser reads a message from one line's end to the      *)
(* next, so its two indices are enough to say what it has read.  In a       *)
(* thread's first line it takes the method, which from then on picks the    *)
(* state that follows the headers; a blank line behind a line's end is the  *)
(* end of the message's headers, and a line that is merely cut off leaves   *)
(* nothing to read behind it.                                               *)
(***************************************************************************)
EXTENDS HttpRequest, SequenceTheorems, TLAPS

(* What readv put into the buffer: behind it write_index_ leaves room       *)
(* unless the buffer is full.                                               *)
Received ==
  /\ writeIndex = IF Len(message) <= InitialSize THEN Len(message) ELSE InitialSize
  /\ size = SizeAfter(Len(message))

(* The part of the invariant that TypeOK needs. *)
Shape == TypeOK /\ Received

(* While it parses, read_index_ stands at the message's start or behind a   *)
(* CRLF, and at the start whenever a request line is expected.              *)
AtLine ==
  pc = "parsing" =>
    /\ parseState = "PARSE_REQUESTLINE" => readIndex = 0
    /\ \/ readIndex = 0
       \/ /\ readIndex >= 2
          /\ readIndex <= writeIndex =>
               message[readIndex - 1] = CR /\ message[readIndex] = LF

(* Which method_ goes with which parse_state_; nothing but the thread's     *)
(* first line sets method_, and only the end of the headers reads it.       *)
MethodKnown ==
  /\ parseState = "PARSE_REQUESTLINE" => method = <<>>
  /\ parseState = "PARSE_BODY" => method = POST
  /\ parseState = "PARSE_COMPLETE" => method = GET

(* A message whose first line was taken as a request line: method_ is its   *)
(* own, and the parser is past the headers only where they end, or with     *)
(* nothing left to read.                                                    *)
FreshOnTrack ==
  /\ fresh /\ pc = "parsing" =>
       /\ method = GET => IsGet(message) /\ readIndex >= 2
       /\ parseState = "PARSE_COMPLETE" => readIndex > writeIndex \/ HeadersEnd(message)
  /\ FirstGoodIsComplete

(* No end of the headers has been read over. *)
HeadersAhead ==
  \A b \in 4 .. Len(message) - 3 : HeadersEndAt(message, b) => readIndex <= b + 1

(* A whole GET: if it is the thread's first, it has set method_; and with   *)
(* that method its blank line is still ahead while headers are expected,    *)
(* and past them there is a last line, be it an empty one, for Complete.    *)
WholeGetOnTrack ==
  /\ WholeGet(message) /\ pc = "parsing" =>
       /\ fresh /\ parseState # "PARSE_REQUESTLINE" => method = GET
       /\ method = GET /\ parseState = "PARSE_HEADER" => HeadersAhead
       /\ method = GET /\ parseState = "PARSE_COMPLETE" => readIndex <= writeIndex
  /\ WholeGetIsGood

(* The inductive invariant. *)
Inv == Shape /\ AtLine /\ MethodKnown /\ FreshOnTrack /\ WholeGetOnTrack

USE RequestAssumption

-----------------------------------------------------------------------------
(* The facts about the message at hand and the two indices; a whole GET     *)
(* leaves room behind it.                                                   *)
LEMMA Bounds ==
  ASSUME Shape
  PROVE  /\ message \in Seq(Items) /\ Len(message) \in Nat
         /\ writeIndex \in Nat /\ writeIndex <= Len(message)
         /\ readIndex \in Nat /\ readIndex <= writeIndex + 2
         /\ WholeGet(message) => writeIndex = Len(message) /\ writeIndex < size
<1>1. message \in Seq(Items) /\ Len(message) \in Nat
  BY DEF Shape, TypeOK
<1>2. writeIndex \in 0 .. InitialSize /\ readIndex \in 0 .. writeIndex + 2
  BY DEF Shape, TypeOK
<1>3. /\ writeIndex = IF Len(message) <= InitialSize THEN Len(message) ELSE InitialSize
      /\ size = IF Len(message) <= InitialSize THEN InitialSize
                ELSE InitialSize * 2 + (Len(message) - InitialSize)
  BY DEF Shape, Received, SizeAfter
<1>4. WholeGet(message) => Len(message) < InitialSize
  BY DEF WholeGet
<1> QED BY <1>1, <1>2, <1>3, <1>4

(* A line goes from read_index_ to the first CRLF, or to the end of what    *)
(* was written; read_index_ moves two beyond its end.                       *)
LEMMA LineShape ==
  ASSUME Shape, NEW e \in readIndex .. writeIndex, LineOk(e)
  PROVE  /\ e \in Nat /\ readIndex <= e /\ e <= writeIndex /\ readIndex' = e + 2
         /\ \/ e + 2 <= writeIndex /\ message[e + 1] = CR /\ message[e + 2] = LF
            \/ e = writeIndex /\ writeIndex < size
         /\ \A i \in readIndex .. writeIndex - 2 :
              message[i + 1] = CR /\ message[i + 2] = LF => e <= i
<1>1. readIndex \in Nat /\ writeIndex \in Nat
  BY Bounds
<1>2. e \in Nat /\ readIndex <= e /\ e <= writeIndex
  BY <1>1
<1>3. CASE FirstEnd(e)
  <2>1. readIndex' = e + 2
    BY DEF LineOk
  <2>2. e <= writeIndex - 2 /\ message[e + 1] = CR /\ message[e + 2] = LF
    BY <1>1, <1>3 DEF FirstEnd, LineEnds
  <2>3. \A i \in readIndex .. writeIndex - 2 :
          message[i + 1] = CR /\ message[i + 2] = LF => e <= i
    BY <1>3 DEF FirstEnd, LineEnds
  <2> QED BY <1>1, <1>2, <2>1, <2>2, <2>3
<1>4. CASE RestIsLine(e)
  <2>1. readIndex' = e + 2
    BY DEF LineOk
  <2>2. e = writeIndex /\ writeIndex < size /\ LineEnds = {}
    BY <1>4 DEF RestIsLine
  <2>3. \A i \in readIndex .. writeIndex - 2 :
          ~(message[i + 1] = CR /\ message[i + 2] = LF)
    BY <2>2 DEF LineEnds
  <2> QED BY <1>1, <1>2, <2>1, <2>2, <2>3
<1> QED BY <1>3, <1>4 DEF LineOk

(* The text of that line. *)
LEMMA LineText ==
  ASSUME Shape, NEW e \in readIndex .. writeIndex
  PROVE  /\ LineTo(e) \in Seq(Items) /\ Len(LineTo(e)) = e - readIndex
         /\ \A j \in 1 .. e - readIndex : LineTo(e)[j] = message[readIndex + j]
         /\ LineTo(e) = <<>> <=> e = readIndex
<1>1. /\ message \in Seq(Items) /\ readIndex \in Nat /\ writeIndex \in Nat
      /\ writeIndex <= Len(message) /\ Len(message) \in Nat
  BY Bounds
<1>2. /\ LineTo(e) \in Seq(Items) /\ Len(LineTo(e)) = e - readIndex
      /\ \A j \in 1 .. e - readIndex : LineTo(e)[j] = message[readIndex + j]
  <2>1. readIndex + 1 \in 1 .. Len(message) + 1 /\ e \in readIndex .. Len(message)
    BY <1>1
  <2>2. e - (readIndex + 1) + 1 = e - readIndex
    BY <1>1
  <2>3. SubSeq(message, readIndex + 1, e) \in Seq(Items)
        /\ Len(SubSeq(message, readIndex + 1, e)) = e - readIndex
    BY <1>1, <2>1, <2>2
  <2>4. ASSUME NEW j \in 1 .. e - readIndex
        PROVE  SubSeq(message, readIndex + 1, e)[j] = message[readIndex + j]
    <3>1. readIndex + 1 + j - 1 = readIndex + j
      BY <1>1
    <3> QED BY <1>1, <2>1, <2>2, <3>1
  <2> QED BY <2>3, <2>4 DEF LineTo
<1>3. LineTo(e) = <<>> <=> Len(LineTo(e)) = 0
  BY <1>2
<1> QED BY <1>1, <1>2, <1>3

-----------------------------------------------------------------------------
(* Shape holds at the start and is kept by every step, whatever is sent. *)
LEMMA InitShape == Init => Shape
<1> SUFFICES ASSUME Init PROVE Shape
  OBVIOUS
<1>1. /\ message = <<>> /\ pc = "idle" /\ method = <<>>
      /\ size = InitialSize /\ readIndex = 0 /\ writeIndex = 0
      /\ parseState = "PARSE_REQUESTLINE" /\ result = "NO_REQUEST" /\ fresh = TRUE
  BY Zenon DEF Init
<1>2. Received
  BY <1>1 DEF Received, SizeAfter
<1>3. /\ writeIndex \in 0 .. InitialSize /\ readIndex \in 0 .. writeIndex + 2 /\ size \in Nat
      /\ message \in Seq(Items) /\ method \in Seq(MethodParts)
  BY <1>1
<1>4. TypeOK
  BY <1>1, <1>3 DEF TypeOK
<1> QED BY <1>2, <1>4 DEF Shape

(* A new message keeps it: readv fills what the buffer has. *)
LEMMA ReceiveShape ==
  ASSUME Shape, NEW r \in Requests, NEW n \in 1 .. Len(r), Receive(r, n)
  PROVE  Shape'
<1>1. r \in Seq(Items) /\ Len(r) \in Nat /\ n \in Nat /\ n <= Len(r)
  OBVIOUS
<1>2. /\ message' = SubSeq(r, 1, n) /\ readIndex' = 0 /\ pc' = "parsing"
      /\ writeIndex' = IF Len(message') <= InitialSize THEN Len(message') ELSE InitialSize
      /\ size' = SizeAfter(Len(message'))
      /\ fresh' \in BOOLEAN /\ UNCHANGED <<parseState, method, result>>
  BY DEF Receive, ReadFd
<1>3. message' \in Seq(Items) /\ Len(message') = n
  BY <1>1, <1>2
<1>4. Received'
  BY <1>2 DEF Received, SizeAfter
<1>5. writeIndex' \in 0 .. InitialSize /\ readIndex' \in 0 .. writeIndex' + 2 /\ size' \in Nat
  BY <1>1, <1>2, <1>3 DEF SizeAfter
<1>6. TypeOK'
  BY <1>2, <1>3, <1>5 DEF Shape, TypeOK
<1> QED BY <1>4, <1>6 DEF Shape

(* A request line's first token consists of parts of a method. *)
LEMMA TokenShape ==
  ASSUME NEW line \in Seq(Items), NEW n \in 0 .. Len(line), Token(line, n)
  PROVE  SubSeq(line, 1, n) \in Seq(MethodParts) /\ Len(SubSeq(line, 1, n)) = n
<1>1. /\ SubSeq(line, 1, n) \in Seq(Items) /\ Len(SubSeq(line, 1, n)) = n
      /\ \A i \in 1 .. n : SubSeq(line, 1, n)[i] = line[i]
  OBVIOUS
<1>2. \A i \in 1 .. n : SubSeq(line, 1, n)[i] \in MethodParts
  BY <1>1 DEF Token
<1> QED BY <1>1, <1>2

(* A line keeps it: read_index_ passes write_index_ by two at most. *)
LEMMA ParseLineShape ==
  ASSUME Shape, ParseLine
  PROVE  Shape'
<1>1. UNCHANGED <<message, size, writeIndex, fresh>>
  BY DEF ParseLine
<1>2. readIndex \in 0 .. writeIndex + 2 /\ writeIndex \in Nat
  BY Bounds
<1>3. /\ pc \in {"idle", "parsing", "done", "undefined", "terminated"}
      /\ parseState \in {"PARSE_REQUESTLINE", "PARSE_HEADER", "PARSE_BODY", "PARSE_COMPLETE"}
      /\ result \in {"NO_REQUEST", "GOOD_REQUEST"} /\ method \in Seq(MethodParts)
  BY DEF Shape, TypeOK
<1>4. AfterHeaders \in {"PARSE_HEADER", "PARSE_BODY", "PARSE_COMPLETE"}
  BY DEF AfterHeaders
<1>5. /\ readIndex' \in 0 .. writeIndex + 2
      /\ pc' \in {"idle", "parsing", "done", "undefined", "terminated"}
      /\ parseState' \in {"PARSE_REQUESTLINE", "PARSE_HEADER", "PARSE_BODY", "PARSE_COMPLETE"}
      /\ result' \in {"NO_REQUEST", "GOOD_REQUEST"} /\ method' \in Seq(MethodParts)
  <2>1. ASSUME NEW e \in readIndex .. writeIndex, LineOk(e),
               \/ ParseRequestLine(LineTo(e)) \/ ParseHeaders(LineTo(e)) \/ SkipBody \/ Complete
        PROVE  /\ readIndex' \in 0 .. writeIndex + 2
               /\ pc' \in {"idle", "parsing", "done", "undefined", "terminated"}
               /\ parseState' \in {"PARSE_REQUESTLINE", "PARSE_HEADER", "PARSE_BODY",
                                  "PARSE_COMPLETE"}
               /\ result' \in {"NO_REQUEST", "GOOD_REQUEST"} /\ method' \in Seq(MethodParts)
    <3>1. readIndex' \in 0 .. writeIndex + 2
      BY <1>2, <2>1, LineShape
    <3>2. CASE ParseRequestLine(LineTo(e))
      <4>1. PICK n \in 0 .. Len(LineTo(e)) :
              Token(LineTo(e), n) /\ method' = IF n = 0 THEN method ELSE SubSeq(LineTo(e), 1, n)
        BY <3>2 DEF ParseRequestLine
      <4>2. method' \in Seq(MethodParts)
        BY <1>3, <4>1, LineText, TokenShape
      <4> QED BY <1>3, <3>1, <3>2, <4>2 DEF ParseRequestLine
    <3>3. CASE ParseHeaders(LineTo(e))
      BY <1>3, <1>4, <3>1, <3>3 DEF ParseHeaders
    <3>4. CASE SkipBody \/ Complete
      BY <1>3, <3>1, <3>4 DEF SkipBody, Complete
    <3> QED BY <2>1, <3>2, <3>3, <3>4
  <2>2. CASE ReadLine
    BY <2>1, <2>2 DEF ReadLine
  <2>3. CASE ReturnOpen
    BY <1>2, <1>3, <2>3 DEF ReturnOpen
  <2>4. CASE ReadPastEnd
    BY <1>2, <1>3, <1>4, <2>4 DEF ReadPastEnd
  <2> QED BY <2>2, <2>3, <2>4 DEF ParseLine
<1>6. TypeOK'
  BY <1>1, <1>5 DEF Shape, TypeOK
<1>7. Received'
  BY <1>1 DEF Shape, Received
<1> QED BY <1>6, <1>7 DEF Shape

(* So every step does. *)
LEMMA ShapeNext == Shape /\ [Next]_vars => Shape'
<1> SUFFICES ASSUME Shape, [Next]_vars PROVE Shape'
  OBVIOUS
<1>1. CASE UNCHANGED vars
  BY <1>1 DEF vars, buffer, Shape, TypeOK, Received
<1> QED BY <1>1, ReceiveShape, ParseLineShape DEF Next

(* For every set of requests and every buffer size, the indices of the      *)
(* buffer and the parser's state stay in their ranges: read_index_ goes     *)
(* beyond write_index_ by one CRLF, never further.                          *)
THEOREM ParserTypeCorrect == Spec => []TypeOK
<1>1. Shape => TypeOK
  BY DEF Shape
<1> QED BY <1>1, InitShape, ShapeNext, PTL DEF Spec

-----------------------------------------------------------------------------
(* Steps of the parser.                                                    *)

(* read_index_ moves from one line's end to the next, or past all there is. *)
LEMMA LinesEndAtLines ==
  ASSUME Shape, ParseLine
  PROVE  AtLine'
<1>1. UNCHANGED <<message, writeIndex>> /\ writeIndex \in Nat
  BY Bounds DEF ParseLine
<1>2. ASSUME NEW e \in readIndex .. writeIndex, LineOk(e), parseState' # "PARSE_REQUESTLINE"
      PROVE  AtLine'
  BY <1>1, <1>2, LineShape DEF AtLine
<1>3. AfterHeaders # "PARSE_REQUESTLINE"
  BY DEF AfterHeaders
<1>4. ASSUME NEW e \in readIndex .. writeIndex, LineOk(e),
             \/ ParseRequestLine(LineTo(e)) \/ ParseHeaders(LineTo(e)) \/ SkipBody \/ Complete
      PROVE  AtLine'
  <2>1. parseState' # "PARSE_REQUESTLINE"
    BY <1>3, <1>4 DEF ParseRequestLine, ParseHeaders, SkipBody, Complete
  <2> QED BY <1>2, <1>4, <2>1
<1>5. CASE ReturnOpen \/ ReadPastEnd
  BY <1>5 DEF ReturnOpen, ReadPastEnd, AtLine
<1> QED BY <1>4, <1>5 DEF ParseLine, ReadLine

(* The headers' end asks for the method, and nothing sets it again. *)
LEMMA MethodKnownNext ==
  ASSUME MethodKnown, ParseLine
  PROVE  MethodKnown'
<1>1. /\ AfterHeaders \in {"PARSE_HEADER", "PARSE_BODY", "PARSE_COMPLETE"}
      /\ AfterHeaders = "PARSE_BODY" => method = POST
      /\ AfterHeaders = "PARSE_COMPLETE" => method = GET
  BY DEF AfterHeaders
<1>2. ASSUME NEW line, ParseRequestLine(line) PROVE MethodKnown'
  BY <1>2 DEF ParseRequestLine, MethodKnown
<1>3. ASSUME NEW line, ParseHeaders(line) PROVE MethodKnown'
  BY <1>1, <1>3 DEF ParseHeaders, MethodKnown
<1>4. CASE SkipBody \/ Complete \/ ReturnOpen
  BY <1>4 DEF SkipBody, Complete, ReturnOpen, MethodKnown
<1>5. CASE ReadPastEnd
  BY <1>1, <1>5 DEF ReadPastEnd, MethodKnown
<1> QED BY <1>2, <1>3, <1>4, <1>5 DEF ParseLine, ReadLine

(* A request line gives "GET" only if the message begins with it; and if    *)
(* what follows that is no part of a method, it does give it.               *)
LEMMA RequestLineOfGet ==
  ASSUME Shape, readIndex = 0, NEW e \in readIndex .. writeIndex, method = <<>>,
         ParseRequestLine(LineTo(e))
  PROVE  /\ method' = GET => IsGet(message)
         /\ IsGet(message) /\ e >= 3 /\ message[3] = "target" => method' = GET
<1>1. PICK n \in 0 .. Len(LineTo(e)) :
        Token(LineTo(e), n) /\ method' = IF n = 0 THEN <<>> ELSE SubSeq(LineTo(e), 1, n)
  BY DEF ParseRequestLine
<1>2. /\ e \in Nat /\ e <= Len(message) /\ Len(message) \in Nat
      /\ LineTo(e) \in Seq(Items) /\ Len(LineTo(e)) = e
      /\ \A j \in 1 .. e : LineTo(e)[j] = message[j]
  BY Bounds, LineText
<1>3. n \in Nat /\ n <= e
  BY <1>1, <1>2
<1>4. Len(GET) = 2 /\ GET[1] = "GE" /\ GET[2] = "T" /\ GET # <<>>
  BY DEF GET
<1>5. \A j \in 1 .. n : SubSeq(LineTo(e), 1, n)[j] = message[j]
  BY <1>2, <1>3
<1>6. Len(SubSeq(LineTo(e), 1, n)) = n /\ SubSeq(LineTo(e), 1, n) \in Seq(MethodParts)
  BY <1>1, <1>2, TokenShape
<1>7. ASSUME method' = GET PROVE IsGet(message)
  <2>1. n = 2
    BY <1>1, <1>4, <1>6, <1>7
  <2> QED BY <1>1, <1>2, <1>3, <1>4, <1>5, <1>7, <2>1 DEF IsGet
<1>8. ASSUME IsGet(message), e >= 3, message[3] = "target" PROVE method' = GET
  <2>1. LineTo(e)[1] = "GE" /\ LineTo(e)[2] = "T" /\ LineTo(e)[3] = "target"
    BY <1>2, <1>8 DEF IsGet
  <2>2. "GE" \in MethodParts /\ "T" \in MethodParts /\ "target" \notin MethodParts
    BY DEF MethodParts
  <2>3. n <= 2
    BY <1>1, <1>3, <2>1, <2>2 DEF Token
  <2>4. n # 0 /\ n # 1
    BY <1>1, <1>2, <1>8, <2>1, <2>2 DEF Token
  <2>5. n = 2 /\ method' = SubSeq(LineTo(e), 1, 2)
    BY <1>1, <1>3, <2>3, <2>4
  <2>6. method'[1] = "GE" /\ method'[2] = "T"
    BY <1>5, <1>8, <2>5 DEF IsGet
  <2>7. method' \in Seq(MethodParts) /\ Len(method') = 2
    BY <1>6, <2>5
  <2>8. method' = <<method'[1], method'[2]>>
    BY <2>7
  <2> QED BY <2>6, <2>8 DEF GET
<1> QED BY <1>7, <1>8

(* A blank line that ends a GET's headers follows a line's end, so the      *)
(* message has them both; where it just stops, read_index_ is past it.      *)
LEMMA FreshOnTrackNext ==
  ASSUME Shape, AtLine, MethodKnown, FreshOnTrack, ParseLine
  PROVE  FreshOnTrack'
<1>1. UNCHANGED <<message, writeIndex, fresh>> /\ pc = "parsing"
  BY DEF ParseLine
<1>2. ASSUME NEW e \in readIndex .. writeIndex, LineOk(e), ParseRequestLine(LineTo(e))
      PROVE  FreshOnTrack'
  <2>1. readIndex = 0 /\ method = <<>> /\ pc' = "parsing" /\ parseState' = "PARSE_HEADER"
    BY <1>1, <1>2 DEF ParseRequestLine, AtLine, MethodKnown
  <2>2. method' = GET => IsGet(message)
    BY <1>2, <2>1, RequestLineOfGet
  <2>3. readIndex' >= 2
    BY <1>2, LineShape
  <2> QED BY <1>1, <2>1, <2>2, <2>3 DEF FreshOnTrack, FirstGoodIsComplete
<1>3. ASSUME NEW e \in readIndex .. writeIndex, LineOk(e), ParseHeaders(LineTo(e))
      PROVE  FreshOnTrack'
  <2>1. UNCHANGED method /\ parseState = "PARSE_HEADER" /\ pc' # "done"
    BY <1>1, <1>3 DEF ParseHeaders
  <2>2. e \in Nat /\ readIndex' \in Nat /\ readIndex' >= 2
    BY <1>3, LineShape
  <2>3. ASSUME fresh, parseState' = "PARSE_COMPLETE"
        PROVE  readIndex' > writeIndex \/ HeadersEnd(message)
    <3>1. LineTo(e) = <<>> /\ method = GET
      BY <1>3, <2>1, <2>3 DEF ParseHeaders, AfterHeaders
    <3>2. e = readIndex /\ readIndex >= 2
      BY <1>1, <1>3, <2>3, <3>1, LineText DEF FreshOnTrack
    <3>3. CASE e = writeIndex
      BY <1>3, <2>2, <3>3, LineShape
    <3>4. CASE e + 2 <= writeIndex /\ message[e + 1] = CR /\ message[e + 2] = LF
      <4>1. message[e - 1] = CR /\ message[e] = LF
        BY <1>1, <2>2, <3>2, <3>4, Bounds DEF AtLine
      <4>2. e - 1 \in 1 .. Len(message) - 3
        BY <2>2, <3>2, <3>4, Bounds
      <4>3. (e - 1) + 1 = e /\ (e - 1) + 2 = e + 1 /\ (e - 1) + 3 = e + 2
        BY <2>2
      <4>4. HeadersEndAt(message, e - 1)
        BY <3>4, <4>1, <4>3 DEF HeadersEndAt
      <4> QED BY <4>2, <4>4 DEF HeadersEnd
    <3> QED BY <1>3, <3>3, <3>4, LineShape
  <2> QED BY <1>1, <2>1, <2>2, <2>3 DEF FreshOnTrack, FirstGoodIsComplete
<1>4. ASSUME NEW e \in readIndex .. writeIndex, LineOk(e), SkipBody
      PROVE  FreshOnTrack'
  <2>1. readIndex' >= 2
    BY <1>4, LineShape
  <2> QED BY <1>1, <1>4, <2>1 DEF SkipBody, FreshOnTrack, FirstGoodIsComplete
<1>5. ASSUME NEW e \in readIndex .. writeIndex, LineOk(e), Complete
      PROVE  FreshOnTrack'
  <2>1. ~(readIndex > writeIndex)
    BY <1>5, LineShape, Bounds
  <2>2. fresh => IsGet(message) /\ HeadersEnd(message)
    BY <1>1, <1>5, <2>1 DEF Complete, FreshOnTrack, MethodKnown
  <2> QED BY <1>1, <1>5, <2>2 DEF Complete, FreshOnTrack, FirstGoodIsComplete, IsGet, HeadersEnd,
       HeadersEndAt
<1>6. CASE ReturnOpen \/ ReadPastEnd
  BY <1>6 DEF ReturnOpen, ReadPastEnd, FreshOnTrack, FirstGoodIsComplete
<1> QED BY <1>2, <1>3, <1>4, <1>5, <1>6 DEF ParseLine, ReadLine

(* In a whole GET, with its headers' end at b still ahead: a line that is   *)
(* not blank ends at b or before, since it would hold a CRLF otherwise; and *)
(* read_index_ is within the message behind any line.                       *)
LEMMA HeaderLineEnds ==
  ASSUME Shape, AtLine, pc = "parsing", WholeGet(message),
         NEW b \in 4 .. Len(message) - 3, HeadersEndAt(message, b), readIndex <= b + 1,
         NEW e \in readIndex .. writeIndex, LineOk(e)
  PROVE  /\ readIndex' <= writeIndex
         /\ e # readIndex => e <= b - 1
<1>1. /\ b \in Nat /\ b >= 4 /\ b + 3 <= Len(message) /\ Len(message) \in Nat
      /\ writeIndex = Len(message) /\ readIndex \in Nat
  BY Bounds
<1>2. e \in Nat /\ readIndex <= e /\ readIndex' = e + 2
  BY LineShape
<1>3. \A i \in readIndex .. writeIndex - 2 :
        message[i + 1] = CR /\ message[i + 2] = LF => e <= i
  BY LineShape
<1>4. e <= b + 1
  <2>1. b + 1 \in readIndex .. writeIndex - 2 /\ (b + 1) + 1 = b + 2 /\ (b + 1) + 2 = b + 3
    BY <1>1
  <2> QED BY <1>3, <2>1 DEF HeadersEndAt
<1>5. readIndex # b
  <2> SUFFICES ASSUME readIndex = b PROVE FALSE
    OBVIOUS
  <2>1. message[b] = LF
    BY <1>1 DEF AtLine
  <2> QED BY <2>1 DEF HeadersEndAt, CR, LF
<1>6. ASSUME readIndex <= b - 1 PROVE e <= b - 1
  <2>1. b - 1 \in readIndex .. writeIndex - 2 /\ (b - 1) + 1 = b /\ (b - 1) + 2 = b + 1
    BY <1>1, <1>6
  <2> QED BY <1>3, <2>1 DEF HeadersEndAt
<1> QED BY <1>1, <1>2, <1>4, <1>5, <1>6

(* A GET that is there as a whole: as long as the headers go on, the blank  *)
(* line is still ahead, and behind it there is room for one more line.      *)
LEMMA WholeGetOnTrackNext ==
  ASSUME Shape, AtLine, MethodKnown, WholeGetOnTrack, ParseLine
  PROVE  WholeGetOnTrack'
<1>1. UNCHANGED <<message, writeIndex, size, fresh>> /\ pc = "parsing"
      /\ (WholeGet(message)' <=> WholeGet(message))
  BY DEF ParseLine, WholeGet, IsGet, HeadersEndAt
<1> SUFFICES ASSUME WholeGet(message)
             PROVE  /\ pc' = "parsing" =>
                         /\ fresh /\ parseState' # "PARSE_REQUESTLINE" => method' = GET
                         /\ method' = GET /\ parseState' = "PARSE_HEADER" => HeadersAhead'
                         /\ method' = GET /\ parseState' = "PARSE_COMPLETE"
                              => readIndex' <= writeIndex
                    /\ pc' \in {"done", "undefined", "terminated"} =>
                         /\ pc' = "done" /\ result' = "GOOD_REQUEST" <=> method' = GET
                         /\ fresh => method' = GET
  BY <1>1 DEF WholeGetOnTrack, WholeGetIsGood
<1>2. /\ message \in Seq(Items) /\ Len(message) \in Nat /\ IsGet(message)
      /\ writeIndex = Len(message) /\ writeIndex < size /\ readIndex \in Nat
  BY Bounds DEF WholeGet
<1>3. PICK b \in 4 .. Len(message) - 3 :
        /\ message[3] = "target" /\ HeadersEndAt(message, b)
        /\ \A i \in 1 .. b - 1 : message[i] = ":" => message[i + 1] # CR
  BY DEF WholeGet
<1>4. HeadersAhead' <=> \A c \in 4 .. Len(message) - 3 :
                          HeadersEndAt(message, c) => readIndex' <= c + 1
  BY <1>1 DEF HeadersAhead, HeadersEndAt
<1>5. ASSUME NEW e \in readIndex .. writeIndex, LineOk(e), e # readIndex, HeadersAhead
      PROVE  HeadersAhead'
  <2>1. ASSUME NEW c \in 4 .. Len(message) - 3, HeadersEndAt(message, c)
        PROVE  readIndex' <= c + 1
    <3>1. e <= c - 1
      BY <1>1, <1>5, <2>1, HeaderLineEnds DEF HeadersAhead
    <3>2. readIndex' = e + 2 /\ e \in Nat
      BY <1>5, LineShape
    <3> QED BY <1>2, <3>1, <3>2
  <2> QED BY <1>4, <2>1
<1>6. ASSUME NEW e \in readIndex .. writeIndex, LineOk(e), ParseRequestLine(LineTo(e))
      PROVE  /\ pc' = "parsing" /\ parseState' = "PARSE_HEADER" /\ method' = GET
             /\ HeadersAhead'
  <2>1. /\ readIndex = 0 /\ method = <<>> /\ pc' = "parsing" /\ parseState' = "PARSE_HEADER"
    BY <1>1, <1>6 DEF ParseRequestLine, AtLine, MethodKnown
  <2>2. HeadersAhead
    BY <2>1 DEF HeadersAhead
  <2>3. e >= 3
    <3>1. message[1] # CR /\ message[2] # CR /\ message[3] # CR
      BY <1>2, <1>3 DEF IsGet, CR
    <3>2. e \in Nat /\ (e = writeIndex \/ message[e + 1] = CR)
      BY <1>6, LineShape
    <3>3. e # 0 /\ e # 1 /\ e # 2
      BY <1>2, <1>3, <3>1, <3>2
    <3> QED BY <3>2, <3>3
  <2>4. method' = GET
    BY <1>2, <1>3, <1>6, <2>1, <2>3, RequestLineOfGet
  <2>5. HeadersAhead'
    BY <1>5, <1>6, <2>1, <2>2, <2>3
  <2> QED BY <2>1, <2>4, <2>5
<1>7. ASSUME NEW e \in readIndex .. writeIndex, LineOk(e), ParseHeaders(LineTo(e)), method = GET
      PROVE  /\ pc' = "parsing" /\ method' = GET
             /\ parseState' = "PARSE_HEADER" => HeadersAhead'
             /\ parseState' = "PARSE_COMPLETE" => readIndex' <= writeIndex
  <2>1. parseState = "PARSE_HEADER" /\ UNCHANGED method
    BY <1>7 DEF ParseHeaders
  <2>2. HeadersAhead
    BY <1>1, <1>7, <2>1 DEF WholeGetOnTrack
  <2>3. readIndex' <= writeIndex /\ (e # readIndex => e <= b - 1)
    BY <1>1, <1>3, <1>7, <2>2, HeaderLineEnds DEF HeadersAhead
  <2>4. LineTo(e) = <<>> <=> e = readIndex
    BY LineText
  <2>5. ~EndsWithColon(LineTo(e))
    <3> SUFFICES ASSUME EndsWithColon(LineTo(e)) PROVE FALSE
      OBVIOUS
    <3>1. /\ e \in Nat /\ e > readIndex /\ e <= b - 1 /\ b \in Nat /\ b + 3 <= Len(message)
      BY <1>2, <2>3, <2>4 DEF EndsWithColon
    <3>2. Len(LineTo(e)) = e - readIndex /\ e - readIndex \in 1 .. e - readIndex
          /\ readIndex + (e - readIndex) = e
      BY <1>2, <3>1, LineText
    <3>3. LineTo(e)[e - readIndex] = message[e]
      BY <3>2, LineText
    <3>4. message[e] = ":"
      BY <3>2, <3>3 DEF EndsWithColon
    <3>5. message[e + 1] = CR
      BY <1>2, <1>7, <3>1, LineShape
    <3> QED BY <1>2, <1>3, <3>1, <3>4, <3>5
  <2>6. pc' = "parsing"
    BY <1>1, <1>7, <2>5 DEF ParseHeaders
  <2>7. ASSUME parseState' = "PARSE_HEADER" PROVE HeadersAhead'
    <3>1. LineTo(e) # <<>>
      BY <1>7, <2>5, <2>7 DEF ParseHeaders, AfterHeaders
    <3> QED BY <1>5, <1>7, <2>2, <2>4, <3>1
  <2> QED BY <1>7, <2>1, <2>3, <2>6, <2>7
<1>8. ASSUME NEW e \in readIndex .. writeIndex, LineOk(e), ParseHeaders(LineTo(e)), method # GET
      PROVE  method' # GET /\ pc' # "done" /\ ~fresh
  BY <1>1, <1>8 DEF ParseHeaders, WholeGetOnTrack
<1>9. CASE ReadLine
  <2>1. PICK e \in readIndex .. writeIndex :
          /\ LineOk(e)
          /\ \/ ParseRequestLine(LineTo(e)) \/ ParseHeaders(LineTo(e)) \/ SkipBody \/ Complete
    BY <1>9 DEF ReadLine
  <2>2. CASE ParseRequestLine(LineTo(e))
    BY <1>6, <2>1, <2>2
  <2>3. CASE ParseHeaders(LineTo(e))
    BY <1>7, <1>8, <2>1, <2>3
  <2>4. CASE SkipBody
    <3>1. /\ UNCHANGED <<pc, parseState, method>> /\ parseState = "PARSE_BODY"
      BY <2>4 DEF SkipBody
    <3> QED BY <1>1, <3>1 DEF WholeGetOnTrack
  <2>5. CASE Complete
    BY <1>1, <2>5 DEF Complete, MethodKnown
  <2> QED BY <2>1, <2>2, <2>3, <2>4, <2>5
<1>10. CASE ReturnOpen
  BY <1>2, <1>10 DEF ReturnOpen, LineOpen
<1>11. CASE ReadPastEnd
  <2>1. readIndex > writeIndex /\ UNCHANGED method /\ pc' \in {"undefined", "terminated"}
    BY <1>11 DEF ReadPastEnd
  <2>2. parseState # "PARSE_REQUESTLINE"
    BY <1>1, <1>2, <2>1 DEF AtLine
  <2>3. method # GET
    <3> SUFFICES ASSUME method = GET PROVE FALSE
      OBVIOUS
    <3>1. parseState # "PARSE_BODY"
      BY DEF MethodKnown, GET, POST
    <3>2. ~(readIndex <= writeIndex)
      BY <1>2, <2>1
    <3>3. parseState # "PARSE_COMPLETE"
      BY <1>1, <3>2 DEF WholeGetOnTrack
    <3>4. parseState \in {"PARSE_REQUESTLINE", "PARSE_HEADER", "PARSE_BODY", "PARSE_COMPLETE"}
      BY DEF Shape, TypeOK
    <3>5. parseState = "PARSE_HEADER"
      BY <2>2, <3>1, <3>3, <3>4
    <3>6. readIndex <= b + 1
      BY <1>1, <1>3, <3>5 DEF WholeGetOnTrack, HeadersAhead
    <3> QED BY <1>2, <1>3, <2>1, <3>6
  <2>4. ~fresh
    BY <1>1, <2>2, <2>3 DEF WholeGetOnTrack
  <2> QED BY <2>1, <2>3, <2>4
<1> QED BY <1>9, <1>10, <1>11 DEF ParseLine

-----------------------------------------------------------------------------
(* A new message starts where the parser of the thread happens to stand. *)
LEMMA ReceiveKeepsTrack ==
  ASSUME MethodKnown, NEW r \in Requests, NEW n \in 1 .. Len(r), Receive(r, n)
  PROVE  AtLine' /\ MethodKnown' /\ FreshOnTrack' /\ WholeGetOnTrack'
<1>1. /\ message' = SubSeq(r, 1, n) /\ readIndex' = 0 /\ pc' = "parsing"
      /\ writeIndex' = IF Len(message') <= InitialSize THEN Len(message') ELSE InitialSize
      /\ (fresh' <=> parseState = "PARSE_REQUESTLINE") /\ UNCHANGED <<parseState, method>>
  BY DEF Receive, ReadFd
<1>2. message' \in Seq(Items) /\ Len(message') \in Nat
  <2>1. r \in Seq(Items) /\ n \in Nat /\ n <= Len(r) /\ Len(r) \in Nat
    OBVIOUS
  <2> QED BY <1>1, <2>1
<1>3. 0 <= writeIndex'
  BY <1>1, <1>2
<1>4. AtLine'
  BY <1>1 DEF AtLine
<1>5. MethodKnown'
  BY <1>1 DEF MethodKnown
<1>6. FreshOnTrack'
  <2>1. fresh' => method' # GET /\ parseState' = "PARSE_REQUESTLINE"
    <3>1. fresh' => method' = <<>> /\ parseState' = "PARSE_REQUESTLINE"
      BY <1>1 DEF MethodKnown
    <3>2. <<>> # GET
      <4>1. Len(GET) # Len(<<>>)
        BY DEF GET
      <4> QED BY <4>1
    <3> QED BY <3>1, <3>2
  <2> QED BY <1>1, <2>1 DEF FreshOnTrack, FirstGoodIsComplete
<1>7. HeadersAhead'
  BY <1>1, <1>2 DEF HeadersAhead
<1>8. WholeGetOnTrack'
  <2>1. readIndex' <= writeIndex'
    BY <1>1, <1>3
  <2> QED BY <1>1, <1>7, <2>1 DEF WholeGetOnTrack, WholeGetIsGood
<1> QED BY <1>4, <1>5, <1>6, <1>8

(* The invariant holds at the start, is kept by every step, and so holds    *)
(* in every behaviour.                                                      *)
LEMMA InvInit == Init => Inv
<1> SUFFICES ASSUME Init PROVE Inv
  OBVIOUS
<1>1. pc = "idle" /\ parseState = "PARSE_REQUESTLINE" /\ method = <<>>
  BY Zenon DEF Init
<1>2. AtLine /\ FreshOnTrack /\ WholeGetOnTrack
  BY <1>1 DEF AtLine, FreshOnTrack, FirstGoodIsComplete, WholeGetOnTrack, WholeGetIsGood
<1>3. MethodKnown
  BY <1>1 DEF MethodKnown
<1> QED BY <1>2, <1>3, InitShape DEF Inv

(* Every step keeps it: one lemma per part, for a line and for a message. *)
LEMMA InvNext == Inv /\ [Next]_vars => Inv'
<1> SUFFICES ASSUME Inv, [Next]_vars PROVE Inv'
  OBVIOUS
<1>1. Shape'
  BY ShapeNext DEF Inv
<1>2. CASE ParseLine
  BY <1>1, <1>2, LinesEndAtLines, MethodKnownNext, FreshOnTrackNext, WholeGetOnTrackNext DEF Inv
<1>3. ASSUME NEW r \in Requests, NEW n \in 1 .. Len(r), Receive(r, n)
      PROVE  Inv'
  BY <1>1, <1>3, ReceiveKeepsTrack DEF Inv
<1>4. CASE UNCHANGED vars
  <2>1. AtLine' /\ MethodKnown' /\ FreshOnTrack'
    BY <1>4 DEF vars, buffer, Inv, AtLine, MethodKnown, FreshOnTrack, FirstGoodIsComplete,
       HeadersEnd, HeadersEndAt, IsGet
  <2>2. WholeGetOnTrack'
    BY <1>4 DEF vars, buffer, Inv, WholeGetOnTrack, WholeGetIsGood, WholeGet, HeadersAhead,
       HeadersEndAt, IsGet
  <2> QED BY <1>1, <2>1, <2>2 DEF Inv
<1> QED BY <1>2, <1>3, <1>4 DEF Next

(* Hence it holds in every behaviour. *)
LEMMA Invariance == Spec => []Inv
<1>1. Inv /\ [Next]_vars => Inv'
  BY InvNext
<1> QED BY InvInit, <1>1, PTL DEF Spec

(* For every buffer size, whatever clients send and however it is cut: a    *)
(* GET that arrives in one piece, with room left in the buffer and a value  *)
(* in every field, is a GOOD_REQUEST exactly if the thread's method_ is     *)
(* "GET", and so it always is on a thread whose parser is at its start.     *)
THEOREM WholeGetAlwaysGood == Spec => []WholeGetIsGood
<1>1. Inv => WholeGetIsGood
  BY DEF Inv, WholeGetOnTrack
<1> QED BY <1>1, Invariance, PTL

(* Whatever clients send: a message the parser takes from its start is a    *)
(* GOOD_REQUEST only if it is a GET and there as far as its blank line.     *)
THEOREM FirstGoodAlwaysComplete == Spec => []FirstGoodIsComplete
<1>1. Inv => FirstGoodIsComplete
  BY DEF Inv, FreshOnTrack
<1> QED BY <1>1, Invariance, PTL

-----------------------------------------------------------------------------
(* The loop of ParseRequest.                                               *)

(* While ParseRequest goes on, each line it reads moves read_index_ on, and *)
(* never further than two behind write_index_: a message of n bytes is left *)
(* after n + 1 lines at most, whatever the bytes are and whatever state the *)
(* parser was left in.  ParsingEnds rests on it.                            *)
LinesMoveOn ==
  [][pc = "parsing" /\ pc' = "parsing"
       => readIndex' \in readIndex + 1 .. writeIndex + 2]_vars

(* For every size of the buffer and any requests, well formed or not: no    *)
(* line is read twice by the same loop, PARSE_BODY's included.              *)
THEOREM EveryLineMovesOn == Spec => LinesMoveOn
<1> DEFINE MovesOn == pc = "parsing" /\ pc' = "parsing"
                        => readIndex' \in readIndex + 1 .. writeIndex + 2
<1>1. ASSUME Shape, Next PROVE MovesOn
  <2> SUFFICES ASSUME pc = "parsing", pc' = "parsing"
               PROVE  readIndex' \in readIndex + 1 .. writeIndex + 2
    OBVIOUS
  <2>1. ReadLine
    BY <1>1 DEF Next, Receive, ParseLine, ReturnOpen, ReadPastEnd
  <2>2. PICK e \in readIndex .. writeIndex : LineOk(e)
    BY <2>1 DEF ReadLine
  <2>3. e \in Nat /\ readIndex <= e /\ e <= writeIndex /\ readIndex' = e + 2
        /\ readIndex \in Nat /\ writeIndex \in Nat
    BY <1>1, <2>2, LineShape, Bounds
  <2> QED BY <2>3
<1>2. Shape /\ [Next]_vars => [MovesOn]_vars
  BY <1>1
<1>3. Shape /\ [Next]_vars => Shape'
  BY ShapeNext
<1> QED BY InitShape, <1>2, <1>3, PTL DEF Spec, LinesMoveOn
=============================================================================
