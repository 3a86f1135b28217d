----------------------------- MODULE HttpRequest -----------------------------
(***************************************************************************)
(* How one thread parses the requests of its connections: Buffer::ReadFd    *)
(* into the connection's input buffer, Buffer::ReadByLine out of it, and    *)
(* HttpRequest::ParseRequest, whose object is thread_local and outlives     *)
(* the connections.  HttpServer::HandleMessage parses once per connection,  *)
(* which TcpConnection then closes.                                         *)
(*                                                                         *)
(* Bytes are counted in items: CR, LF, and the pieces of text between them  *)
(* after which a message may end: a method in parts, a field's name, its    *)
(* colon and its value.  The target stands for the rest of a request line,  *)
(* with the blank before it; a value begins with a blank too.               *)
(***************************************************************************)
EXTENDS Naturals, Sequences

CONSTANTS
  Requests,         \* the requests clients send, as sequences of items
  InitialSize       \* kInitialSize, in items

CR == "CR"
LF == "LF"
MethodParts == {"GE", "T", "PO", "ST", "HEAD"}      \* HEAD: any other method
Items == MethodParts \cup {"target", "name", ":", "value", "body", CR, LF}

GET == <<"GE", "T">>
POST == <<"PO", "ST">>

(* A request begins with its method, or with the CRLF some clients send     *)
(* after the request before.                                                *)
ASSUME RequestAssumption ==
  /\ InitialSize \in Nat \ {0}
  /\ Requests \subseteq Seq(Items)
  /\ \A r \in Requests :
       /\ Len(r) > 1
       /\ r[1] \in MethodParts \/ (r[1] = CR /\ r[2] = LF)

VARIABLES
  message,          \* the part of a request that readv returned
  pc,               \* "idle", "parsing", "done", "undefined" (it left the
                    \* buffer's end behind) or "terminated" (the process is)
  size,             \* buffer_.size()
  readIndex,        \* read_index_
  writeIndex,       \* write_index_
  parseState,       \* parse_state_, of the thread
  method,           \* method_, of the thread, as its parts
  result,           \* what ParseRequest returned last
  fresh             \* history: the parser expected a request line when it came

buffer == <<size, readIndex, writeIndex>>
vars == <<message, pc, buffer, parseState, method, result,
          fresh>>

(* A thread_local object without initialisers starts zeroed. *)
Init ==
  /\ message = <<>>
  /\ pc = "idle"
  /\ size = InitialSize /\ readIndex = 0 /\ writeIndex = 0
  /\ parseState = "PARSE_REQUESTLINE"
  /\ method = <<>>
  /\ result = "NO_REQUEST"
  /\ fresh = TRUE

-----------------------------------------------------------------------------
(* Buffer.                                                                 *)

(* Append of what did not fit: the vector grows, write_index_ stays.        *)
SizeAfter(n) ==
  IF n <= InitialSize THEN InitialSize ELSE InitialSize * 2 + (n - InitialSize)

ReadFdUncut(part) ==
  /\ message' = part
  /\ readIndex' = 0
  /\ writeIndex' = Len(part)
  /\ size' = SizeAfter(Len(part))

(* What readv returned fills the buffer; what does not fit goes behind      *)
(* write_index_, where nobody reads it.                                     *)
ReadFd(part) ==
  /\ message' = part
  /\ readIndex' = 0
  /\ writeIndex' = IF Len(part) <= InitialSize THEN Len(part) ELSE InitialSize
  /\ size' = SizeAfter(Len(part))

(* Where the CRLFs between the two indices are; the first ends the line. *)
LineEnds ==
  {i \in readIndex .. writeIndex - 2 :
     message[i + 1] = CR /\ message[i + 2] = LF}

FirstEnd(e) == e \in LineEnds /\ \A i \in LineEnds : e <= i

(* Without a CRLF a line is all there is, unless that ends at buffer_.end(). *)
RestIsLine(e) ==
  /\ LineEnds = {} /\ readIndex <= writeIndex /\ writeIndex < size
  /\ e = writeIndex

LineOpen == LineEnds = {} /\ readIndex <= writeIndex /\ writeIndex = size

(* Leaves read_index_ at the end of a line without CRLF. *)
LineOkStaying(e) ==
  \/ FirstEnd(e) /\ readIndex' = e + 2
  \/ RestIsLine(e) /\ readIndex' = e

(* ReadByLine returns the line that ends at e, and steps over a CRLF        *)
(* whether or not there is one.                                             *)
LineOk(e) == (FirstEnd(e) \/ RestIsLine(e)) /\ readIndex' = e + 2

LineTo(e) == SubSeq(message, readIndex + 1, e)

-----------------------------------------------------------------------------
(* HandleMessage of a new connection, whose buffer is new too. *)
Receive(r, n) ==
  /\ pc \in {"idle", "done", "undefined"}
  /\ ReadFd(SubSeq(r, 1, n))
  /\ pc' = "parsing"
  /\ fresh' = (parseState = "PARSE_REQUESTLINE")
  /\ UNCHANGED <<parseState, method, result>>

(* The first n items of a line are its first token. *)
Token(line, n) ==
  /\ \A i \in 1 .. n : line[i] \in MethodParts
  /\ n < Len(line) => line[n + 1] \notin MethodParts

(* iss >> method_ finds no token in a blank line, and leaves method_ alone. *)
ParseRequestLine(line) ==
  /\ parseState = "PARSE_REQUESTLINE"
  /\ \E n \in 0 .. Len(line) :
       Token(line, n) /\ method' = IF n = 0 THEN method ELSE SubSeq(line, 1, n)
  /\ parseState' = "PARSE_HEADER"
  /\ UNCHANGED <<pc, result>>

AfterHeadersSwapped ==
  CASE method = POST -> "PARSE_COMPLETE"
    [] method = GET -> "PARSE_BODY"
    [] OTHER -> "PARSE_HEADER"

(* No other method has a way out of the headers. *)
AfterHeaders ==
  CASE method = GET -> "PARSE_COMPLETE"
    [] method = POST -> "PARSE_BODY"
    [] OTHER -> "PARSE_HEADER"

(* A line whose first colon is its last byte: substr(pos + 2) throws        *)
(* out_of_range, which nobody catches.  Without a colon pos is -1.          *)
EndsWithColon(line) ==
  /\ line # <<>> /\ line[Len(line)] = ":"
  /\ \A i \in 1 .. Len(line) - 1 : line[i] # ":"

(* The blank line ends the headers; a field goes into headers_. *)
ParseHeaders(line) ==
  /\ parseState = "PARSE_HEADER"
  /\ \/ line = <<>> /\ parseState' = AfterHeaders /\ UNCHANGED pc
     \/ line # <<>> /\ ~EndsWithColon(line) /\ UNCHANGED <<pc, parseState>>
     \/ EndsWithColon(line) /\ pc' = "terminated" /\ UNCHANGED parseState
  /\ UNCHANGED <<method, result>>

(* PARSE_BODY has no way out. *)
SkipBody ==
  /\ parseState = "PARSE_BODY"
  /\ UNCHANGED <<pc, parseState, method, result>>

Complete ==
  /\ parseState = "PARSE_COMPLETE"
  /\ pc' = "done"
  /\ result' = "GOOD_REQUEST"
  /\ UNCHANGED <<parseState, method>>

(* The loop of ParseRequest: a line, and the switch over parse_state_. *)
ReadLine ==
  \E e \in readIndex .. writeIndex :
    /\ LineOk(e)
    /\ \/ ParseRequestLine(LineTo(e))
       \/ ParseHeaders(LineTo(e))
       \/ SkipBody
       \/ Complete

ReturnOpen ==
  /\ LineOpen
  /\ pc' = "done"
  /\ result' = "NO_REQUEST"
  /\ UNCHANGED <<readIndex, parseState, method>>

(* read_index_ has passed write_index_: the search runs from behind its     *)
(* end.  That ends the process, or finds lines in what lies behind the      *)
(* buffer, among them perhaps a blank one.                                  *)
ReadPastEnd ==
  /\ readIndex > writeIndex
  /\ pc' \in {"undefined", "terminated"}
  /\ \/ UNCHANGED parseState
     \/ parseState = "PARSE_HEADER" /\ parseState' = AfterHeaders
  /\ UNCHANGED <<readIndex, method, result>>

ParseLine ==
  /\ pc = "parsing"
  /\ ReadLine \/ ReturnOpen \/ ReadPastEnd
  /\ UNCHANGED <<message, size, writeIndex, fresh>>

Next == ParseLine \/ \E r \in Requests : \E n \in 1 .. Len(r) : Receive(r, n)

Spec == Init /\ [][Next]_vars

(* Behaviours in which no search leaves the buffer. *)
DefinedSpec == Init /\ [][Next /\ pc' # "undefined"]_vars

(* The loop of ParseRequest goes on by itself; nobody has to send anything. *)
FairSpec == Spec /\ WF_vars(ParseLine)
-----------------------------------------------------------------------------
(* The shape of the state; read_index_ passes write_index_ by one CRLF at   *)
(* most, and write_index_ never moves beyond the buffer's first size.       *)
TypeOK ==
  /\ message \in Seq(Items)
  /\ pc \in {"idle", "parsing", "done", "undefined", "terminated"}
  /\ size \in Nat
  /\ writeIndex \in 0 .. InitialSize
  /\ readIndex \in 0 .. writeIndex + 2
  /\ parseState \in {"PARSE_REQUESTLINE", "PARSE_HEADER", "PARSE_BODY",
                     "PARSE_COMPLETE"}
  /\ method \in Seq(MethodParts)
  /\ result \in {"NO_REQUEST", "GOOD_REQUEST"}
  /\ fresh \in BOOLEAN

IsGet(m) == Len(m) > 1 /\ m[1] = "GE" /\ m[2] = "T"

(* A line's end and a blank line. *)
HeadersEndAt(m, b) ==
  m[b] = CR /\ m[b + 1] = LF /\ m[b + 2] = CR /\ m[b + 3] = LF

HeadersEnd(m) == \E b \in 1 .. Len(m) - 3 : HeadersEndAt(m, b)

(* A GET that is there as far as its blank line, with a value in every      *)
(* field, and leaves room in the buffer.                                    *)
WholeGet(m) ==
  /\ IsGet(m) /\ Len(m) < InitialSize
  /\ \E b \in 4 .. Len(m) - 3 :
       /\ m[3] = "target" /\ HeadersEndAt(m, b)
       /\ \A i \in 1 .. b - 1 : m[i] = ":" => m[i + 1] # CR

(* What becomes of a GET that arrives in one piece, with room behind it and *)
(* a value in every field, depends on one thing of all the thread has read  *)
(* before: method_, which the first line the thread ever took set, and      *)
(* nothing since.  If that was a GET's, however it went on or was cut off,  *)
(* this one is a GOOD_REQUEST; after a POST, another method, a method cut   *)
(* off or a blank line none ever is.  Where the parser still was at its     *)
(* start, the GET itself has set it.                                        *)
WholeGetIsGood ==
  pc \in {"done", "undefined", "terminated"} /\ WholeGet(message) =>
    /\ pc = "done" /\ result = "GOOD_REQUEST" <=> method = GET
    /\ fresh => method = GET

(* A message that finds the parser at its start is a GOOD_REQUEST only if   *)
(* it is a GET and complete as far as its blank line: a line that is cut    *)
(* off, though taken for a whole one, never ends the headers well.          *)
FirstGoodIsComplete ==
  pc = "done" /\ result = "GOOD_REQUEST" /\ fresh
    => IsGet(message) /\ HeadersEnd(message)

(* GOOD_REQUEST means a complete request has been read, its blank line too. *)
GoodRequestIsComplete ==
  pc = "done" /\ result = "GOOD_REQUEST" => HeadersEnd(message)

(* ParseRequest returns, or leaves the buffer's end behind: no message, cut *)
(* anywhere, keeps its loop going for ever.                                 *)
ParsingEnds == pc = "parsing" ~> pc # "parsing"
=============================================================================
