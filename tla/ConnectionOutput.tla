-------------------------- MODULE ConnectionOutput --------------------------
(***************************************************************************)
(* The calls a user makes on an established TcpConnection: SendInLoop,      *)
(* Shutdown, StartRead and StopRead, by the thread of its loop (a callback) *)
(* or by other threads.  Each test of state_ is made in the caller's        *)
(* thread; what follows runs in the loop, through the queue of functors,    *)
(* whose order is TaskQueue's promise, or on the spot.                      *)
(*                                                                         *)
(* The functors hold a raw this and a raw data pointer: the model takes it  *)
(* from the callers that both are still there when a functor runs.          *)
(***************************************************************************)
EXTENDS Naturals, Sequences, FiniteSets

CONSTANTS
  Users,            \* the threads, other than the loop's, that use the connection
  LoopThread,
  Lengths,          \* what len may be in a call of SendInLoop
  InitialSize,      \* kInitialSize of the output buffer
  MaxPending        \* bound: calls of Users that have not run yet

Nobody == "nobody"

ASSUME OutputAssumption ==
  /\ LoopThread \notin Users /\ Nobody \notin Users
  /\ Lengths \subseteq Nat \ {0}
  /\ InitialSize \in Nat \ {0}
  /\ MaxPending \in Nat

VARIABLES
  state,            \* state_
  registered,       \* the channel is in the loop's epoll
  queue,            \* functors of this connection in pending_functors_
  call,             \* per user: the step of its call that is left, if any
  watch,            \* watch_events_ of the channel; only AddChannel tells the epoll
  readFlag,         \* read_flag_
  buffer,           \* output_buffer_ptr_: size, read_index_, write_index_
  stream,           \* kernel: the sending side of the socket
  process,          \* whether the process still runs, and if not, why
  readSet,          \* history: StartReadInLoop or StopReadInLoop has run
  shutBy            \* history: whose Shutdown has ended the stream

inLoop == <<watch, readFlag, buffer, stream, process, readSet, shutBy>>
vars == <<state, registered, queue, call, inLoop>>

Functor(op, by, len) == [op |-> op, by |-> by, len |-> len]

(* ConnectionEstablished has returned.  No constructor sets read_flag_. *)
Init ==
  /\ state = "kConnected"
  /\ registered = TRUE
  /\ queue = <<>>
  /\ call = [u \in Users |-> {}]
  /\ watch = {"EPOLLIN"}
  /\ readFlag \in BOOLEAN
  /\ buffer = [size |-> InitialSize, readIndex |-> 0, writeIndex |-> 0]
  /\ stream = "open"
  /\ process = "running"
  /\ readSet = FALSE
  /\ shutBy = Nobody

-----------------------------------------------------------------------------
(* What runs in the loop.                                                  *)

ReadableBytes == buffer.writeIndex - buffer.readIndex
WriteableBytes == buffer.size - buffer.writeIndex

(* Buffer::Append: write_index_ stays, and the assertion after growing is   *)
(* strict.                                                                  *)
AppendToBuffer(len) ==
  /\ buffer' = [buffer EXCEPT !.size = IF WriteableBytes < len THEN @ * 2 + len ELSE @]
  /\ process' = IF WriteableBytes' > len THEN process ELSE "aborted"

AlwaysNoRoom == TRUE

NoRoom == WriteableBytes = 0

(* EnableWriting is not followed by UpdateChannel. *)
BufferRest(len) ==
  /\ watch' = IF NoRoom THEN watch \cup {"EPOLLOUT"} ELSE watch
  /\ AppendToBuffer(len)

(* send(2).  bytesSent is compared with len as a size_t, so a failure (-1)  *)
(* is no different from having sent everything.  On a stream that this side *)
(* has shut down, or whose error has been reported, SIGPIPE ends the        *)
(* process.                                                                 *)
SendDirectly(len) ==
  \/ /\ stream = "open"
     /\ \E n \in 1 .. len - 1 : BufferRest(len - n)
     /\ UNCHANGED stream
  \/ /\ stream \in {"open", "reset"}
     /\ stream' = IF stream = "reset" THEN "broken" ELSE stream
     /\ UNCHANGED <<watch, buffer, process>>
  \/ /\ stream \in {"shut", "broken"}
     /\ process' = "killed"
     /\ UNCHANGED <<watch, buffer, stream>>

Send(len) ==
  /\ IF ReadableBytes > 0
     THEN AppendToBuffer(len) /\ UNCHANGED <<watch, stream>>
     ELSE SendDirectly(len)
  /\ UNCHANGED <<readFlag, readSet, shutBy>>

NotReading == "EPOLLIN" \notin watch

NotWriting == "EPOLLOUT" \notin watch

(* ShutdownWrite, which has an effect on a stream that is still open. *)
ShutdownInLoop(by) ==
  /\ IF NotWriting /\ stream = "open"
     THEN stream' = "shut" /\ shutBy' = by
     ELSE UNCHANGED <<stream, shutBy>>
  /\ UNCHANGED <<watch, readFlag, buffer, process, readSet>>

StartReadInLoop ==
  /\ readSet' = TRUE
  /\ IF ~readFlag \/ NotWriting
     THEN watch' = watch \cup {"EPOLLIN"} /\ readFlag' = TRUE
     ELSE UNCHANGED <<watch, readFlag>>
  /\ UNCHANGED <<buffer, stream, process, shutBy>>

StopReadFlagged ==
  /\ readSet' = TRUE
  /\ IF readFlag
     THEN watch' = watch \ {"EPOLLIN"} /\ readFlag' = FALSE
     ELSE UNCHANGED <<watch, readFlag>>
  /\ UNCHANGED <<buffer, stream, process, shutBy>>

StopReadInLoop ==
  /\ readSet' = TRUE
  /\ IF readFlag \/ ~NotReading
     THEN watch' = watch \ {"EPOLLIN"} /\ readFlag' = FALSE
     ELSE UNCHANGED <<watch, readFlag>>
  /\ UNCHANGED <<buffer, stream, process, shutBy>>

RunFunctor ==
  /\ queue # <<>>
  /\ queue' = Tail(queue)
  /\ LET f == Head(queue)
     IN  \/ f.op = "Send" /\ Send(f.len)
         \/ f.op = "ShutdownInLoop" /\ ShutdownInLoop(f.by)
         \/ f.op = "StartReadInLoop" /\ StartReadInLoop
         \/ f.op = "StopReadInLoop" /\ StopReadInLoop
  /\ UNCHANGED <<state, registered, call>>

(* Whatever ends the connection: the end of a HandleRead, or an error. *)
HandleClose ==
  /\ registered
  /\ registered' = FALSE
  /\ state' = "kDisconnected"
  /\ UNCHANGED <<queue, call, inLoop>>

-----------------------------------------------------------------------------
(* Calls by a callback: RunInLoop runs them on the spot.                   *)

SendFromLoop(len) ==
  /\ state = "kConnected"
  /\ Send(len)
  /\ UNCHANGED <<state, registered, queue, call>>

ShutdownUntested ==
  /\ state' = "kDisconnecting"
  /\ ShutdownInLoop(LoopThread)
  /\ UNCHANGED <<registered, queue, call>>

ShutdownFromLoop ==
  /\ state = "kConnected"
  /\ state' = "kDisconnecting"
  /\ ShutdownInLoop(LoopThread)
  /\ UNCHANGED <<registered, queue, call>>

ReadingFromLoop ==
  /\ StartReadInLoop \/ StopReadInLoop
  /\ UNCHANGED <<state, registered, queue, call>>

LoopThreadStep ==
  \/ RunFunctor \/ HandleClose
  \/ (\E len \in Lengths : SendFromLoop(len)) \/ ShutdownFromLoop \/ ReadingFromLoop

-----------------------------------------------------------------------------
(* Calls by another thread u.                                              *)

Calling == {u \in Users : call[u] # {}}

Begin(u, f) ==
  /\ call[u] = {}
  /\ Len(queue) + Cardinality(Calling) < MaxPending
  /\ call' = [call EXCEPT ![u] = {f}]
  /\ UNCHANGED <<state, registered, queue, inLoop>>

(* The assertion of SendInLoop is the caller's to keep. *)
SendFromUser(u, len) == state = "kConnected" /\ Begin(u, Functor("Send", u, len))

ShutdownFromUser(u) == state = "kConnected" /\ Begin(u, Functor("Shutdown", u, 0))

ReadingFromUser(u) ==
  \/ Begin(u, Functor("StartReadInLoop", u, 0))
  \/ Begin(u, Functor("StopReadInLoop", u, 0))

(* Calls ShutdownInLoop in its own thread. *)
SetDisconnectingAndShut(u) ==
  /\ call[u] = {Functor("Shutdown", u, 0)}
  /\ state' = "kDisconnecting"
  /\ call' = [call EXCEPT ![u] = {}]
  /\ ShutdownInLoop(u)
  /\ UNCHANGED <<registered, queue>>

(* Shutdown has seen kConnected a step before. *)
SetDisconnecting(u) ==
  /\ call[u] = {Functor("Shutdown", u, 0)}
  /\ state' = "kDisconnecting"
  /\ call' = [call EXCEPT ![u] = {Functor("ShutdownInLoop", u, 0)}]
  /\ UNCHANGED <<registered, queue, inLoop>>

QueueAgain(u) ==
  /\ \E f \in call[u] : f.op # "Shutdown" /\ queue' = Append(queue, f)
  /\ UNCHANGED <<state, registered, call, inLoop>>

QueueInLoop(u) ==
  /\ \E f \in call[u] : f.op # "Shutdown" /\ queue' = Append(queue, f)
  /\ call' = [call EXCEPT ![u] = {}]
  /\ UNCHANGED <<state, registered, inLoop>>

UserStep(u) ==
  \/ (\E len \in Lengths : SendFromUser(u, len))
  \/ ShutdownFromUser(u) \/ ReadingFromUser(u)
  \/ SetDisconnecting(u) \/ QueueInLoop(u)

(* The peer resets: the next send fails, or, when the peer had ended its    *)
(* own stream before, finds the stream broken already.                      *)
PeerResets ==
  /\ stream \in {"open", "shut"}
  /\ stream' \in {"reset", "broken"}
  /\ UNCHANGED <<state, registered, queue, call, watch, readFlag, buffer, process,
                 readSet, shutBy>>

-----------------------------------------------------------------------------
Next ==
  /\ process = "running"
  /\ LoopThreadStep \/ PeerResets \/ \E u \in Users : UserStep(u)

Spec == Init /\ [][Next]_vars

(***************************************************************************)
(* The loop runs the functors it has (EventLoop's DueTaskRuns) and a user   *)
(* finishes the call it is in; nobody has to begin one.                     *)
(***************************************************************************)
Running(action) == process = "running" /\ action

FairSpec ==
  /\ Spec
  /\ WF_vars(Running(RunFunctor))
  /\ \A u \in Users : WF_vars(Running(SetDisconnecting(u))) /\ WF_vars(Running(QueueInLoop(u)))

-----------------------------------------------------------------------------
(* The shape of the state: a call is in one place, and there is at most the *)
(* bounded number of them.                                                  *)
TypeOK ==
  /\ state \in {"kConnected", "kDisconnecting", "kDisconnected"}
  /\ registered \in BOOLEAN
  /\ \A i \in DOMAIN queue : queue[i].by \in Users /\ queue[i].op # "Shutdown"
  /\ Len(queue) <= MaxPending
  /\ \A u \in Users : \A f \in call[u] : f.by = u
  /\ watch \subseteq {"EPOLLIN", "EPOLLOUT"}
  /\ readFlag \in BOOLEAN
  /\ buffer.size \in Nat
  /\ buffer.readIndex <= buffer.writeIndex /\ buffer.writeIndex <= buffer.size
  /\ stream \in {"open", "shut", "reset", "broken"}
  /\ process \in {"running", "aborted", "killed"}
  /\ readSet \in BOOLEAN
  /\ shutBy \in Users \cup {LoopThread, Nobody}

(* Whatever short sends leave in the output buffer, nobody waits for it:    *)
(* write events are never asked for, so HandleWrite cannot run, and         *)
(* ShutdownInLoop and StartReadInLoop never find the channel writing.       *)
NeverWriting == "EPOLLOUT" \notin watch

(* Once either of them has run, read_flag_ and the channel agree, whatever  *)
(* value read_flag_ began with.                                             *)
ReadFlagAgrees == readSet => (readFlag <=> "EPOLLIN" \in watch)

(* A thread's own Shutdown does not overtake what it has sent: when it ends *)
(* the stream, no Send of that thread is still on its way.  (Another        *)
(* thread's may be, and SIGPIPE then ends the process.)                     *)
OwnSendsPrecedeShutdown ==
  /\ \A i \in DOMAIN queue : queue[i].op = "Send" => queue[i].by # shutBy
  /\ \A u \in Users : \A f \in call[u] : f.op = "Send" => u # shutBy

(* A closed connection stays kDisconnected, but for a Shutdown of another   *)
(* thread that tested state_ before the close and sets it after.            *)
DisconnectedIsFinal ==
  [][state = "kDisconnected" /\ state' # "kDisconnected"
       => \E u \in Users : Functor("Shutdown", u, 0) \in call[u]]_vars

(* Shutdown ends the stream, although it passes through another thread and  *)
(* ShutdownInLoop does nothing while the channel is writing.                *)
ShutdownEndsStream ==
  state = "kDisconnecting" ~> stream # "open" \/ process # "running"

(* assert(WriteableBytes() > len) of Buffer::Append, after it has grown the *)
(* buffer for what did not fit.                                             *)
AppendHasRoom == process # "aborted"
=============================================================================
