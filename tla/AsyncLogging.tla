---------------------------- MODULE AsyncLogging ----------------------------
(***************************************************************************)
(* The asynchronous logger: the thread that constructs (and at exit         *)
(* destroys) the singleton, the threads whose LOG lines Append collects in  *)
(* memory, and the thread that writes them to the LogFile.                  *)
(*                                                                         *)
(* A line is what module LogStream makes of a LOG statement.  What stdio    *)
(* does with the bytes it holds is to pass a prefix of them on whenever its *)
(* own buffer, or flush_every_N_, asks for it.  Append runs under mutex_    *)
(* from beginning to end, so which thread calls it does not matter.         *)
(***************************************************************************)
EXTENDS Naturals, Sequences, SequencesExt, LogStream

CONSTANTS
  Lines,            \* the LOG statements executed, each at most once
  Statement,        \* the pieces of each, its header first
  LargeBuffer,      \* kLargeBuffer, the size of the FixedBuffers of the logger
  MaxFailures       \* bound: how many writes of the FILE fail

(* kLargeBuffer is a multiple of kSmallBuffer. *)
ASSUME LoggingAssumption ==
  /\ LargeBuffer \in Nat /\ SmallBuffer <= LargeBuffer
  /\ MaxFailures \in Nat
  /\ Statement \in [Lines -> Seq(Pieces)]

(* The line a statement makes, and its Length(). *)
Logged == [line \in Lines |-> LoggedPieces(Statement[line])]
Length == [line \in Lines |-> TotalLength(Logged[line])]

VARIABLES
  owner,            \* where the constructing and destroying thread is
  latched,          \* the wait on contition_latch_ has been notified
  writer,           \* where ThreadFunc is
  running,          \* running_flag_
  notified,         \* the wait on condition_mutex_ has been notified
  current,          \* current_buffer_: its lines
  used,             \* current_buffer_: cur_ - data_
  buffers,          \* buffers_vector_, each the lines of one buffer
  toWrite,          \* buffers_to_wirte: the buffers left in the for loop
  stdio,            \* lines the FILE holds
  file,             \* lines handed to the operating system
  failures,         \* how many writes have failed
  appended,         \* history: the lines of all Append calls, in order
  lost              \* history: lines a failed write has dropped

vars == <<owner, latched, writer, running, notified, current, used, buffers,
          toWrite, stdio, file, failures, appended, lost>>

Init ==
  /\ owner = "constructing"
  /\ latched = FALSE
  /\ writer = "none"
  /\ running = TRUE
  /\ notified = FALSE
  /\ current = <<>> /\ used = 0
  /\ buffers = <<>>
  /\ toWrite = <<>>
  /\ stdio = <<>>
  /\ file = <<>>
  /\ failures = 0
  /\ appended = <<>>
  /\ lost = {}

output == <<stdio, file, failures, lost>>
data == <<current, used, buffers, toWrite, output, appended>>

-----------------------------------------------------------------------------
(* The owner: constructor and destructor.                                  *)

StartThread ==
  /\ owner = "constructing"
  /\ owner' = "started"
  /\ writer' = "starting"
  /\ UNCHANGED <<latched, running, notified, data>>

(* The wait has no predicate: only a notification that comes while it       *)
(* waits ends it.                                                           *)
WaitForThread ==
  /\ owner = "started"
  /\ owner' = "waiting"
  /\ UNCHANGED <<latched, writer, running, notified, data>>

Constructed ==
  /\ owner = "waiting" /\ latched
  /\ owner' = "ready"
  /\ UNCHANGED <<latched, writer, running, notified, data>>

Destroy ==
  /\ owner = "ready"
  /\ owner' = "stopping"
  /\ running' = FALSE
  /\ UNCHANGED <<latched, writer, notified, data>>

NotifyWriter ==
  /\ owner = "stopping"
  /\ owner' = "joining"
  /\ notified' = (writer = "waiting" \/ notified)
  /\ UNCHANGED <<latched, writer, running, data>>

Detach ==
  /\ owner = "joining"
  /\ owner' = "joined"
  /\ UNCHANGED <<latched, writer, running, notified, data>>

Join ==
  /\ owner = "joining" /\ writer = "exited"
  /\ owner' = "joined"
  /\ UNCHANGED <<latched, writer, running, notified, data>>

-----------------------------------------------------------------------------
(* Append, from any thread, between construction and destruction.          *)

FitsExactly(line) == LargeBuffer - used >= Length[line]

Fits(line) == LargeBuffer - used > Length[line]

AppendToCurrent(line) ==
  /\ Fits(line)
  /\ current' = Append(current, line)
  /\ used' = used + Length[line]
  /\ UNCHANGED <<buffers, notified>>

AppendToNewDroppingFull(line) ==
  /\ ~Fits(line)
  /\ current' = <<line>>
  /\ used' = Length[line]
  /\ buffers' = <<current>>
  /\ notified' = (writer = "waiting" \/ notified)

(* The full buffer goes to the vector, the line to a new one, if its own    *)
(* bound admits it.                                                         *)
AppendToNew(line) ==
  /\ ~Fits(line)
  /\ IF LargeBuffer > Length[line]
     THEN current' = <<line>> /\ used' = Length[line]
     ELSE current' = <<>> /\ used' = 0
  /\ buffers' = Append(buffers, current)
  /\ notified' = (writer = "waiting" \/ notified)

AppendLine(line) ==
  /\ owner = "ready"
  /\ line \notin Range(appended)
  /\ appended' = Append(appended, line)
  /\ AppendToCurrent(line) \/ AppendToNew(line)
  /\ UNCHANGED <<owner, latched, writer, running, toWrite, output>>

-----------------------------------------------------------------------------
(* The writer thread.                                                      *)

NotifyNobody ==
  /\ writer = "starting"
  /\ writer' = "check"
  /\ UNCHANGED <<owner, latched, running, notified, data>>

(* notify_all without latch_: it is lost on a constructor that has not      *)
(* begun to wait.                                                           *)
NotifyConstructor ==
  /\ writer = "starting"
  /\ writer' = "check"
  /\ latched' = (owner = "waiting")
  /\ UNCHANGED <<owner, running, notified, data>>

CheckNothing ==
  /\ writer = "check"
  /\ writer' = "lock"
  /\ UNCHANGED <<owner, latched, running, notified, data>>

CheckRunning ==
  /\ writer = "check"
  /\ writer' = IF running THEN "lock" ELSE "leaving"
  /\ UNCHANGED <<owner, latched, running, notified, data>>

(* Under mutex_: the current buffer joins the vector, which is swapped with *)
(* the empty buffers_to_wirte.                                              *)
TakeBuffers ==
  /\ toWrite' = Append(buffers, current)
  /\ buffers' = <<>>
  /\ current' = <<>>
  /\ used' = 0
  /\ writer' = "write"
  /\ UNCHANGED <<owner, latched, running, output, appended>>

LockAndTake ==
  /\ writer = "lock" /\ buffers # <<>>
  /\ TakeBuffers
  /\ UNCHANGED notified

LockAndWait ==
  /\ writer = "lock" /\ buffers = <<>>
  /\ writer' = "waiting"
  /\ notified' = FALSE
  /\ UNCHANGED <<owner, latched, running, data>>

WakeNotified ==
  /\ writer = "waiting" /\ notified
  /\ notified' = FALSE
  /\ TakeBuffers

NoTimeout ==
  /\ writer = "waiting" /\ notified
  /\ TakeBuffers
  /\ UNCHANGED notified

(* wait_for ends after kFlushInterval_ seconds, or earlier for no reason. *)
WakeTimeout ==
  /\ writer = "waiting"
  /\ TakeBuffers
  /\ UNCHANGED notified

Held == stdio \o Head(toWrite)

(* Of lines, stdio passes the first n on and keeps those up to the m-th. *)
PassOn(lines, n, m) ==
  /\ file' = file \o SubSeq(lines, 1, n)
  /\ stdio' = SubSeq(lines, n + 1, m)

(* A write(2) that fails or is short: what stdio keeps of the rest, if      *)
(* anything, C does not say.                                                *)
FailedWrite(lines) ==
  /\ failures < MaxFailures
  /\ failures' = failures + 1
  /\ \E m \in 0 .. Len(lines) : \E n \in 0 .. m :
       /\ n < Len(lines)
       /\ PassOn(lines, n, m)
       /\ lost' = lost \cup Range(SubSeq(lines, m + 1, Len(lines)))

(* fwrite: stdio may pass any prefix of what it holds on. *)
WriteBuffer ==
  /\ writer = "write" /\ toWrite # <<>>
  /\ toWrite' = Tail(toWrite)
  /\ \E n \in 0 .. Len(Held) : PassOn(Held, n, Len(Held))
  /\ UNCHANGED <<owner, latched, writer, running, notified, current, used,
                 buffers, failures, appended, lost>>

(* ferror: LogFile::Append gives up what is left of this buffer. *)
WriteFails ==
  /\ writer = "write" /\ toWrite # <<>>
  /\ toWrite' = Tail(toWrite)
  /\ FailedWrite(Held)
  /\ UNCHANGED <<owner, latched, writer, running, notified, current, used,
                 buffers, appended>>

(* clear() of the written buffers, and fflush, whose failure nobody sees. *)
Flush ==
  /\ writer = "write" /\ toWrite = <<>>
  /\ writer' = "check"
  /\ \/ PassOn(stdio, Len(stdio), Len(stdio)) /\ UNCHANGED <<failures, lost>>
     \/ FailedWrite(stdio)
  /\ UNCHANGED <<owner, latched, running, notified, current, used, buffers,
                 toWrite, appended>>

(* Out of the loop: the last flush and fclose, and nothing for what was     *)
(* appended since the buffers were last taken.                              *)
Exit ==
  /\ writer = "leaving"
  /\ writer' = "exited"
  /\ \/ PassOn(stdio, Len(stdio), Len(stdio)) /\ UNCHANGED <<failures, lost>>
     \/ FailedWrite(stdio) /\ stdio' = <<>>
  /\ UNCHANGED <<owner, latched, running, notified, current, used, buffers,
                 toWrite, appended>>

-----------------------------------------------------------------------------
Owner ==
  \/ StartThread \/ WaitForThread \/ Constructed
  \/ Destroy \/ NotifyWriter \/ Join

Writer ==
  \/ NotifyConstructor \/ CheckRunning \/ LockAndTake \/ LockAndWait
  \/ WakeNotified \/ WakeTimeout \/ WriteBuffer \/ WriteFails \/ Flush \/ Exit

Next == Owner \/ (\E line \in Lines : AppendLine(line)) \/ Writer

Spec == Init /\ [][Next]_vars

(***************************************************************************)
(* The writer goes on, its wait ending by the timeout if by nothing else;   *)
(* the owner finishes the constructor and, once it has begun, the           *)
(* destructor.  Nobody has to destroy the logger or to log.                 *)
(***************************************************************************)
Fairness ==
  /\ WF_vars(StartThread) /\ WF_vars(WaitForThread) /\ WF_vars(Constructed)
  /\ WF_vars(NotifyWriter) /\ WF_vars(Join)
  /\ WF_vars(NotifyConstructor) /\ WF_vars(CheckRunning)
  /\ WF_vars(LockAndTake) /\ WF_vars(LockAndWait) /\ WF_vars(WakeTimeout)
  /\ WF_vars(WriteBuffer) /\ WF_vars(Flush) /\ WF_vars(Exit)

FairSpec == Spec /\ Fairness

-----------------------------------------------------------------------------
(* The shape of the state; a buffer is never filled to its end. *)
TypeOK ==
  /\ owner \in {"constructing", "started", "waiting", "ready", "stopping",
                "joining", "joined"}
  /\ latched \in BOOLEAN
  /\ writer \in {"none", "starting", "check", "lock", "waiting", "write",
                 "leaving", "exited"}
  /\ running \in BOOLEAN
  /\ notified \in BOOLEAN
  /\ current \in Seq(Lines)
  /\ used \in 0 .. (LargeBuffer - 1)
  /\ buffers \in Seq(Seq(Lines))
  /\ toWrite \in Seq(Seq(Lines))
  /\ stdio \in Seq(Lines)
  /\ file \in Seq(Lines)
  /\ failures \in 0 .. MaxFailures
  /\ appended \in Seq(Lines)
  /\ lost \subseteq Lines

(* These lines come one after the other in the sequence all. *)
InOrder(lines, all) ==
  \A i, j \in 1 .. Len(lines) : i < j =>
    \E m, n \in 1 .. Len(all) : m < n /\ all[m] = lines[i] /\ all[n] = lines[j]

(* They are the lines appended, in that order, without the dropped ones. *)
AreKept(lines) ==
  Range(lines) = Range(appended) \ lost /\ InOrder(lines, appended)

(* Every line that no failed write has dropped is in exactly one place, and *)
(* the places laid end to end are the lines in the order of their Append    *)
(* calls: moving and swapping the buffers loses, repeats and reorders       *)
(* nothing, and a failure only what it drops.                               *)
LinesInOrder ==
  AreKept(file \o stdio \o FlattenSeq(toWrite) \o FlattenSeq(buffers) \o current)

(* A line in the file misses only pieces for which it has no room: a piece  *)
(* that is too long is left out alone, and what follows it is not.          *)
MissingPieceDidNotFit ==
  \A line \in Range(file) : \A piece \in Range(Statement[line]) :
    Occurrences(piece, Logged[line]) < Occurrences(piece, Statement[line])
      => Length[line] + piece.length >= SmallBuffer

(* When the destructor has joined the thread, a line is in the file, was    *)
(* dropped by a failed write, or was appended after the buffers were last   *)
(* taken: none is lost half-way, in stdio or in buffers_to_wirte.           *)
NothingLeftHalfWay ==
  owner = "joined" => AreKept(file \o FlattenSeq(buffers) \o current)

(* A line reaches the file while the logger runs, whether or not its buffer *)
(* ever fills and whichever notification is missed, or a failed write has   *)
(* dropped it: a failure does not stop the writer.                          *)
LineReachesFile ==
  \A line \in Lines :
    line \in Range(appended) ~> line \in Range(file) \cup lost \/ ~running

(* The constructor returns if it waits before the thread notifies it.       *)
ConstructorReturns == owner = "waiting" /\ writer = "starting" ~> owner = "ready"

(* The destructor returns: a notify_one that finds nobody waiting costs at  *)
(* most one flush interval.                                                 *)
DestructorReturns == owner = "stopping" ~> owner = "joined"
=============================================================================
