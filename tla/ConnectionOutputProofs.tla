----------------------- MODULE ConnectionOutputProofs -----------------------
(***************************************************************************)
(* Whatever the sizes of the buffer and of the data, and however many       *)
(* threads call: write events are never asked for, a thread's own Shutdown  *)
(* does not overtake what it has sent, and a StartRead or StopRead that has *)
(* run leaves read_flag_ in agreement with the channel.                     *)
(***************************************************************************)
EXTENDS ConnectionOutput, FiniteSetTheorems, TLAPS

Operations == {"Send", "Shutdown", "ShutdownInLoop", "StartReadInLoop", "StopReadInLoop"}

Functors == [op : Operations, by : Users, len : Nat]

(* A user is in one call at a time, and the calls in the queue are Users'. *)
CallsTyped ==
  /\ queue \in Seq(Functors)
  /\ call \in [Users -> SUBSET Functors]
  /\ \A u \in Users : \A f \in call[u] : f.by = u /\ call[u] = {f}

(* Nothing moves write_index_, so the buffer always looks empty, with room. *)
BufferStaysEmpty ==
  /\ buffer \in [size : Nat \ {0}, readIndex : {0}, writeIndex : {0}]

(* The part of the invariant that concerns the channel. *)
ChannelInv == BufferStaysEmpty /\ NeverWriting /\ ReadFlagAgrees

(* A Shutdown of u has passed its assignment of state_. *)
ShutdownBegun(u) ==
  \/ shutBy = u
  \/ \E i \in DOMAIN queue : queue[i].op = "ShutdownInLoop" /\ queue[i].by = u
  \/ \E f \in call[u] : f.op = "ShutdownInLoop"

(* No Shutdown is under way while the connection still admits a Send. *)
ShutdownLeavesConnected == \A u \in Users : ShutdownBegun(u) => state # "kConnected"

(* In the queue, and before it, no Send of a thread is behind its Shutdown. *)
SendsInFront ==
  \A i \in DOMAIN queue : queue[i].op = "ShutdownInLoop" =>
    /\ \A j \in DOMAIN queue : i < j /\ queue[j].op = "Send" => queue[j].by # queue[i].by
    /\ \A f \in call[queue[i].by] : f.op # "Send"

Order == ShutdownLeavesConnected /\ SendsInFront /\ OwnSendsPrecedeShutdown

Inv == CallsTyped /\ ChannelInv /\ Order

USE OutputAssumption

-----------------------------------------------------------------------------
(* The channel.                                                            *)

LEMMA ChannelInit == Init => ChannelInv
  BY DEF Init, ChannelInv, BufferStaysEmpty, NeverWriting, ReadFlagAgrees

(* A rest of whatever length finds room by the test of Send, which is why   *)
(* EnableWriting is not reached.                                            *)
LEMMA BufferRestIsSilent ==
  ASSUME BufferStaysEmpty, NEW len \in Nat, BufferRest(len)
  PROVE  BufferStaysEmpty' /\ watch' = watch
<1>1. WriteableBytes = buffer.size /\ buffer.size \in Nat \ {0}
  BY DEF BufferStaysEmpty, WriteableBytes
<1>2. ~NoRoom
  BY <1>1 DEF NoRoom
<1>3. BufferStaysEmpty'
  <2>1. buffer' = [buffer EXCEPT !.size = IF WriteableBytes < len THEN @ * 2 + len ELSE @]
    BY DEF BufferRest, AppendToBuffer
  <2>2. buffer.size * 2 + len \in Nat \ {0}
    BY <1>1
  <2> QED BY <1>1, <2>1, <2>2 DEF BufferStaysEmpty
<1> QED BY <1>2, <1>3 DEF BufferRest

LEMMA SendKeepsChannel ==
  ASSUME ChannelInv, NEW len \in Nat, Send(len)
  PROVE  ChannelInv'
<1>1. ~(ReadableBytes > 0)
  BY DEF ChannelInv, BufferStaysEmpty, ReadableBytes
<1>2. SendDirectly(len) /\ UNCHANGED <<readFlag, readSet>>
  BY <1>1 DEF Send
<1>3. BufferStaysEmpty' /\ watch' = watch
  <2>1. CASE UNCHANGED <<watch, buffer>>
    BY <2>1 DEF ChannelInv, BufferStaysEmpty
  <2>2. ASSUME NEW n \in 1 .. len - 1, BufferRest(len - n)
        PROVE  BufferStaysEmpty' /\ watch' = watch
    <3>1. len - n \in Nat
      OBVIOUS
    <3> QED BY <2>2, <3>1, BufferRestIsSilent DEF ChannelInv
  <2> QED BY <1>2, <2>1, <2>2 DEF SendDirectly
<1> QED BY <1>2, <1>3 DEF ChannelInv, NeverWriting, ReadFlagAgrees

LEMMA ShutdownKeepsChannel ==
  ASSUME ChannelInv, NEW by, ShutdownInLoop(by)
  PROVE  ChannelInv'
  BY DEF ChannelInv, BufferStaysEmpty, NeverWriting, ReadFlagAgrees, ShutdownInLoop

(* Its test finds the channel not writing, so it always sets both. *)
LEMMA StartReadKeepsChannel ==
  ASSUME ChannelInv, StartReadInLoop
  PROVE  ChannelInv'
  BY DEF ChannelInv, BufferStaysEmpty, NeverWriting, ReadFlagAgrees, StartReadInLoop,
         NotWriting

(* It leaves both alone only where both are already off. *)
LEMMA StopReadKeepsChannel ==
  ASSUME ChannelInv, StopReadInLoop
  PROVE  ChannelInv'
  BY DEF ChannelInv, BufferStaysEmpty, NeverWriting, ReadFlagAgrees, StopReadInLoop,
         NotReading

-----------------------------------------------------------------------------
(* The calls.                                                              *)

LEMMA CallsInit == Init => CallsTyped /\ Order
<1> SUFFICES ASSUME Init PROVE CallsTyped /\ Order
  OBVIOUS
<1>1. queue = <<>> /\ shutBy = Nobody /\ call = [u \in Users |-> {}]
  BY DEF Init
<1>2. CallsTyped
  BY <1>1 DEF CallsTyped
<1>3. ShutdownLeavesConnected
  BY <1>1 DEF ShutdownLeavesConnected, ShutdownBegun
<1>4. SendsInFront /\ OwnSendsPrecedeShutdown
  BY <1>1 DEF SendsInFront, OwnSendsPrecedeShutdown
<1> QED BY <1>2, <1>3, <1>4 DEF Order

(* The end of a queue, after one functor is appended: what was there, and   *)
(* the new one in the last place.                                           *)
LEMMA AppendedPlaces ==
  ASSUME NEW S, NEW q \in Seq(S), NEW f \in S
  PROVE  /\ Append(q, f) \in Seq(S)
         /\ \A i \in DOMAIN Append(q, f) :
              \/ i \in DOMAIN q /\ Append(q, f)[i] = q[i]
              \/ i = Len(q) + 1 /\ Append(q, f)[i] = f
  OBVIOUS

(* What the head leaves behind is the same functors one place further on.   *)
LEMMA TailPlaces ==
  ASSUME NEW S, NEW q \in Seq(S), q # <<>>
  PROVE  /\ Tail(q) \in Seq(S)
         /\ 1 \in DOMAIN q /\ Head(q) = q[1] /\ Head(q) \in S
         /\ \A i \in DOMAIN Tail(q) : i + 1 \in DOMAIN q /\ 1 < i + 1 /\ Tail(q)[i] = q[i + 1]
  OBVIOUS

(* A step that begins or moves no call and ends nobody's stream keeps the   *)
(* order, as long as a connection that was given up is not taken back.      *)
LEMMA OrderUndisturbed ==
  ASSUME CallsTyped, Order, UNCHANGED <<queue, call, shutBy>>,
         state' = "kConnected" => state = "kConnected"
  PROVE  CallsTyped' /\ Order'
<1>1. CallsTyped' /\ SendsInFront' /\ OwnSendsPrecedeShutdown'
  BY DEF CallsTyped, Order, SendsInFront, OwnSendsPrecedeShutdown
<1>2. ShutdownLeavesConnected'
  BY DEF Order, ShutdownLeavesConnected, ShutdownBegun
<1> QED BY <1>1, <1>2 DEF Order

(* A call that a user begins, or takes a step of, is its only one. *)
LEMMA CallIs ==
  ASSUME CallsTyped, NEW u \in Users, NEW f \in Functors, f.by = u,
         call' = [call EXCEPT ![u] = {f}], UNCHANGED queue
  PROVE  CallsTyped' /\ call'[u] = {f} /\ \A v \in Users \ {u} : call'[v] = call[v]
<1>1. call \in [Users -> SUBSET Functors] /\ queue' \in Seq(Functors)
  BY DEF CallsTyped
<1>2. /\ call' \in [Users -> SUBSET Functors] /\ call'[u] = {f}
      /\ \A v \in Users \ {u} : call'[v] = call[v]
  BY <1>1
<1>3. ASSUME NEW v \in Users, NEW g \in call'[v] PROVE g.by = v /\ call'[v] = {g}
  <2>1. CASE v = u
    BY <1>2, <2>1
  <2>2. CASE v # u
    BY <1>2, <2>2 DEF CallsTyped
  <2> QED BY <2>1, <2>2
<1> QED BY <1>1, <1>2, <1>3 DEF CallsTyped

(* A Send can only begin while no Shutdown has, and so none of its own.     *)
LEMMA BeginKeepsOrder ==
  ASSUME CallsTyped, Order, NEW u \in Users, NEW f \in Functors,
         f.by = u, f.op # "ShutdownInLoop", f.op = "Send" => state = "kConnected",
         Begin(u, f)
  PROVE  CallsTyped' /\ Order'
<1> USE DEF Begin, inLoop
<1>1. CallsTyped'
  BY DEF CallsTyped
<1>2. ASSUME NEW v \in Users PROVE ShutdownBegun(v)' => ShutdownBegun(v)
  BY DEF ShutdownBegun, CallsTyped
<1>3. ShutdownLeavesConnected'
  BY <1>2 DEF Order, ShutdownLeavesConnected
<1>4. f.op = "Send" => ~ShutdownBegun(u)
  BY DEF Order, ShutdownLeavesConnected
<1>5. SendsInFront'
  BY <1>4 DEF Order, SendsInFront, ShutdownBegun, CallsTyped
<1>6. OwnSendsPrecedeShutdown'
  BY <1>4 DEF Order, OwnSendsPrecedeShutdown, ShutdownBegun, CallsTyped
<1> QED BY <1>1, <1>3, <1>5, <1>6 DEF Order

LEMMA SetDisconnectingKeepsOrder ==
  ASSUME CallsTyped, Order, NEW u \in Users, SetDisconnecting(u)
  PROVE  CallsTyped' /\ Order'
<1> DEFINE f == Functor("ShutdownInLoop", u, 0)
<1> USE DEF SetDisconnecting, inLoop
<1>1. f \in Functors /\ f.by = u /\ f.op = "ShutdownInLoop"
  BY DEF Functor, Functors, Operations
<1>2. call' = [call EXCEPT ![u] = {f}] /\ UNCHANGED <<queue, shutBy>>
  OBVIOUS
<1> HIDE DEF f
<1>3. ShutdownLeavesConnected'
  BY DEF ShutdownLeavesConnected
<1> USE <1>2
<1> HIDE DEF SetDisconnecting, inLoop
<1>4. CallsTyped' /\ call'[u] = {f} /\ \A v \in Users \ {u} : call'[v] = call[v]
  BY <1>1, CallIs
<1>5. SendsInFront'
  <2>1. ASSUME NEW i \in DOMAIN queue, queue[i].op = "ShutdownInLoop"
        PROVE  /\ \A j \in DOMAIN queue :
                    i < j /\ queue[j].op = "Send" => queue[j].by # queue[i].by
               /\ \A g \in call'[queue[i].by] : g.op # "Send"
    <3>1. /\ \A j \in DOMAIN queue :
               i < j /\ queue[j].op = "Send" => queue[j].by # queue[i].by
          /\ \A g \in call[queue[i].by] : g.op # "Send"
      BY <2>1, Zenon DEF Order, SendsInFront
    <3>2. queue[i] \in Functors
      BY DEF CallsTyped
    <3>3. queue[i].by \in Users
      BY <3>2 DEF Functors
    <3>4. \A g \in call'[queue[i].by] : g.op # "Send"
      BY <1>1, <1>4, <3>1, <3>3
    <3> QED BY <3>1, <3>4, Zenon
  <2> QED BY <2>1 DEF SendsInFront
<1>6. OwnSendsPrecedeShutdown'
  <2>1. ASSUME NEW v \in Users, NEW g \in call'[v], g.op = "Send" PROVE v # shutBy
    BY <1>1, <1>4, <2>1 DEF Order, OwnSendsPrecedeShutdown
  <2> QED BY <2>1 DEF Order, OwnSendsPrecedeShutdown
<1> QED BY <1>3, <1>4, <1>5, <1>6 DEF Order

(* A Send that reaches the queue was in call[u], which SendsInFront has kept *)
(* clear of Sends since a Shutdown of u reached it.                         *)
LEMMA QueueInLoopKeepsOrder ==
  ASSUME CallsTyped, Order, NEW u \in Users, QueueInLoop(u)
  PROVE  CallsTyped' /\ Order'
<1> USE DEF QueueInLoop, inLoop
<1>1. PICK f \in call[u] : f.op # "Shutdown" /\ queue' = Append(queue, f)
  OBVIOUS
<1>2. f \in Functors /\ f.by = u /\ queue \in Seq(Functors)
  BY DEF CallsTyped
<1>3. call' = [call EXCEPT ![u] = {}] /\ UNCHANGED <<state, shutBy>>
  OBVIOUS
<1>4. /\ queue' \in Seq(Functors)
      /\ \A i \in DOMAIN queue' :
           \/ i \in DOMAIN queue /\ queue'[i] = queue[i]
           \/ i = Len(queue) + 1 /\ queue'[i] = f
  BY <1>1, <1>2, AppendedPlaces
<1>5. CallsTyped'
  BY <1>3, <1>4 DEF CallsTyped
<1>6. ASSUME NEW v \in Users PROVE ShutdownBegun(v)' => ShutdownBegun(v)
  BY <1>2, <1>3, <1>4 DEF ShutdownBegun, CallsTyped
<1>7. ShutdownLeavesConnected'
  BY <1>3, <1>6 DEF Order, ShutdownLeavesConnected
<1>8. SendsInFront'
  BY <1>2, <1>3, <1>4 DEF Order, SendsInFront, CallsTyped
<1>9. OwnSendsPrecedeShutdown'
  BY <1>2, <1>3, <1>4 DEF Order, OwnSendsPrecedeShutdown, CallsTyped
<1> QED BY <1>5, <1>7, <1>8, <1>9 DEF Order

(* The head leaves the queue.  If it ends the stream, what SendsInFront says *)
(* of it becomes OwnSendsPrecedeShutdown.                                   *)
LEMMA RunFunctorKeepsOrder ==
  ASSUME CallsTyped, Order, RunFunctor
  PROVE  CallsTyped' /\ Order'
<1> DEFINE f == Head(queue)
<1>1. /\ queue' = Tail(queue) /\ queue # <<>> /\ queue \in Seq(Functors)
      /\ UNCHANGED <<state, call>>
  BY DEF RunFunctor, CallsTyped
<1>2. /\ queue' \in Seq(Functors)
      /\ 1 \in DOMAIN queue /\ f = queue[1] /\ f \in Functors
      /\ \A i \in DOMAIN queue' :
           i + 1 \in DOMAIN queue /\ 1 < i + 1 /\ queue'[i] = queue[i + 1]
  BY <1>1, TailPlaces
<1>3. shutBy' = shutBy \/ (f.op = "ShutdownInLoop" /\ shutBy' = f.by)
  BY DEF RunFunctor, Send, ShutdownInLoop, StartReadInLoop, StopReadInLoop
<1> HIDE DEF f
<1>4. CallsTyped'
  BY <1>1, <1>2 DEF CallsTyped
<1>5. ASSUME NEW v \in Users PROVE ShutdownBegun(v)' => ShutdownBegun(v)
  BY <1>1, <1>2, <1>3 DEF ShutdownBegun
<1>6. ShutdownLeavesConnected'
  BY <1>1, <1>5 DEF Order, ShutdownLeavesConnected
<1>7. SendsInFront'
  <2>1. \A i, j \in DOMAIN queue' : i < j => i + 1 < j + 1
    BY <1>2
  <2> QED BY <1>1, <1>2, <2>1 DEF Order, SendsInFront
<1>8. OwnSendsPrecedeShutdown'
  <2>1. CASE shutBy' = shutBy
    BY <1>1, <1>2, <2>1 DEF Order, OwnSendsPrecedeShutdown
  <2>2. CASE f.op = "ShutdownInLoop" /\ shutBy' = f.by
    BY <1>1, <1>2, <2>2 DEF Order, OwnSendsPrecedeShutdown, SendsInFront, CallsTyped
  <2> QED BY <1>3, <2>1, <2>2
<1> QED BY <1>4, <1>6, <1>7, <1>8 DEF Order

(* Calls of the loop's own thread, which is none of Users. *)
LEMMA ShutdownFromLoopKeepsOrder ==
  ASSUME CallsTyped, Order, ShutdownFromLoop
  PROVE  CallsTyped' /\ Order'
<1>1. /\ state' = "kDisconnecting" /\ UNCHANGED <<queue, call>>
      /\ shutBy' \in {shutBy, LoopThread}
  BY DEF ShutdownFromLoop, ShutdownInLoop
<1>2. CallsTyped' /\ SendsInFront'
  BY <1>1 DEF CallsTyped, Order, SendsInFront
<1>3. ShutdownLeavesConnected'
  BY <1>1 DEF ShutdownLeavesConnected
<1>4. OwnSendsPrecedeShutdown'
  <2>1. \A i \in DOMAIN queue : queue[i] \in Functors
    BY DEF CallsTyped
  <2>2. \A g \in Functors : g.by # LoopThread
    BY DEF Functors
  <2> QED BY <1>1, <2>1, <2>2 DEF Order, OwnSendsPrecedeShutdown
<1> QED BY <1>2, <1>3, <1>4 DEF Order

-----------------------------------------------------------------------------
(* The number of calls, and the rest of the shape of the state.            *)

(* Every call that has begun and not run is counted once: where its user    *)
(* keeps it, or in the queue.                                               *)
Bounded == IsFiniteSet(Calling) /\ Len(queue) + Cardinality(Calling) <= MaxPending

(* The rest of what TypeOK says. *)
Shape ==
  /\ state \in {"kConnected", "kDisconnecting", "kDisconnected"}
  /\ registered \in BOOLEAN
  /\ \A i \in DOMAIN queue : queue[i].op # "Shutdown"
  /\ watch \subseteq {"EPOLLIN", "EPOLLOUT"}
  /\ readFlag \in BOOLEAN
  /\ stream \in {"open", "shut", "reset", "broken"}
  /\ process \in {"running", "aborted", "killed"}
  /\ readSet \in BOOLEAN
  /\ shutBy \in Users \cup {LoopThread, Nobody}

(* A functor that runs in the loop leaves the channel, the stream and the   *)
(* process well-formed; a Shutdown is somebody's.                           *)
LEMMA InLoopShape ==
  ASSUME Shape, NEW by \in Users \cup {LoopThread}, NEW len,
         Send(len) \/ ShutdownInLoop(by) \/ StartReadInLoop \/ StopReadInLoop
  PROVE  /\ watch' \subseteq {"EPOLLIN", "EPOLLOUT"}
         /\ readFlag' \in BOOLEAN
         /\ stream' \in {"open", "shut", "reset", "broken"}
         /\ process' \in {"running", "aborted", "killed"}
         /\ readSet' \in BOOLEAN
         /\ shutBy' \in Users \cup {LoopThread, Nobody}
<1>1. CASE Send(len)
  BY <1>1 DEF Shape, Send, SendDirectly, BufferRest, AppendToBuffer
<1>2. CASE ShutdownInLoop(by)
  BY <1>2 DEF Shape, ShutdownInLoop
<1>3. CASE StartReadInLoop
  BY <1>3 DEF Shape, StartReadInLoop
<1>4. CASE StopReadInLoop
  BY <1>4 DEF Shape, StopReadInLoop
<1> QED BY <1>1, <1>2, <1>3, <1>4

(* Every step keeps the shape. *)
LEMMA ShapeNext == CallsTyped /\ Shape /\ [Next]_vars => Shape'
<1> SUFFICES ASSUME CallsTyped, Shape, [Next]_vars PROVE Shape'
  OBVIOUS
<1>1. queue \in Seq(Functors)
  BY DEF CallsTyped
<1>2. CASE RunFunctor
  <2>1. /\ Head(queue) \in Functors /\ queue' = Tail(queue)
        /\ \A i \in DOMAIN Tail(queue) : i + 1 \in DOMAIN queue /\ Tail(queue)[i] = queue[i + 1]
        /\ UNCHANGED <<state, registered>>
    BY <1>1, <1>2, TailPlaces DEF RunFunctor
  <2>2. Head(queue).by \in Users \cup {LoopThread}
    BY <2>1 DEF Functors
  <2>3. \/ Send(Head(queue).len) \/ ShutdownInLoop(Head(queue).by)
        \/ StartReadInLoop \/ StopReadInLoop
    BY <1>2 DEF RunFunctor
  <2>4. \A i \in DOMAIN queue' : queue'[i].op # "Shutdown"
    BY <2>1 DEF Shape
  <2> QED BY <2>1, <2>2, <2>3, <2>4, InLoopShape DEF Shape
<1>3. ASSUME NEW len \in Lengths, SendFromLoop(len) PROVE Shape'
  BY <1>3, InLoopShape DEF SendFromLoop, Shape
<1>4. CASE ShutdownFromLoop
  BY <1>4, InLoopShape DEF ShutdownFromLoop, Shape
<1>5. CASE ReadingFromLoop
  BY <1>5, InLoopShape DEF ReadingFromLoop, Shape
<1>6. CASE HandleClose
  BY <1>6 DEF HandleClose, Shape, inLoop
<1>7. ASSUME NEW u \in Users, UserStep(u) PROVE Shape'
  <2>1. CASE QueueInLoop(u)
    <3>1. PICK f \in call[u] : f.op # "Shutdown" /\ queue' = Append(queue, f)
      BY <2>1 DEF QueueInLoop
    <3>2. f \in Functors
      BY DEF CallsTyped
    <3>3. \A i \in DOMAIN queue' : queue'[i].op # "Shutdown"
      <4>1. \A i \in DOMAIN Append(queue, f) :
              \/ i \in DOMAIN queue /\ Append(queue, f)[i] = queue[i]
              \/ Append(queue, f)[i] = f
        BY <1>1, <3>2, AppendedPlaces, Zenon
      <4> QED BY <3>1, <4>1, Zenon DEF Shape
    <3> QED BY <2>1, <3>3 DEF QueueInLoop, Shape, inLoop
  <2>2. CASE ~QueueInLoop(u)
    <3>1. /\ UNCHANGED <<queue, registered, inLoop>>
          /\ state' = state \/ state' = "kDisconnecting"
      BY <1>7, <2>2, Zenon DEF UserStep, SendFromUser, ShutdownFromUser, ReadingFromUser,
         Begin, SetDisconnecting
    <3> QED BY <3>1 DEF Shape, inLoop
  <2> QED BY <2>1, <2>2
<1>8. CASE PeerResets
  BY <1>8 DEF PeerResets, Shape
<1>9. CASE UNCHANGED vars
  BY <1>9 DEF vars, inLoop, Shape
<1> QED BY <1>2, <1>3, <1>4, <1>5, <1>6, <1>7, <1>8, <1>9 DEF Next, LoopThreadStep

(* Only Begin adds a call, and it keeps to the bound. *)
LEMMA BoundedNext == CallsTyped /\ Bounded /\ [Next]_vars => Bounded'
<1> SUFFICES ASSUME CallsTyped, Bounded, [Next]_vars PROVE Bounded'
  OBVIOUS
<1>1. queue \in Seq(Functors) /\ Len(queue) \in Nat /\ Cardinality(Calling) \in Nat
  BY FS_CardinalityType DEF CallsTyped, Bounded
<1>2. CASE RunFunctor
  <2>1. Len(queue') = Len(queue) - 1 /\ Calling' = Calling
    BY <1>1, <1>2 DEF RunFunctor, Calling
  <2> QED BY <1>1, <2>1 DEF Bounded
<1>3. ASSUME NEW u \in Users, NEW f, Begin(u, f) PROVE Bounded'
  <2>1. u \notin Calling /\ Calling' = Calling \cup {u} /\ queue' = queue
    BY <1>3 DEF Begin, Calling, CallsTyped
  <2>2. IsFiniteSet(Calling') /\ Cardinality(Calling') = Cardinality(Calling) + 1
    BY <2>1, FS_AddElement DEF Bounded
  <2> QED BY <1>1, <1>3, <2>1, <2>2 DEF Bounded, Begin
<1>4. ASSUME NEW u \in Users, SetDisconnecting(u) PROVE Bounded'
  <2>1. Calling' = Calling /\ queue' = queue
    BY <1>4 DEF SetDisconnecting, Calling, CallsTyped
  <2> QED BY <2>1 DEF Bounded
<1>5. ASSUME NEW u \in Users, QueueInLoop(u) PROVE Bounded'
  <2>1. u \in Calling /\ Calling' = Calling \ {u} /\ Len(queue') = Len(queue) + 1
    BY <1>1, <1>5 DEF QueueInLoop, Calling, CallsTyped
  <2>2. IsFiniteSet(Calling') /\ Cardinality(Calling') = Cardinality(Calling) - 1
    BY <2>1, FS_RemoveElement DEF Bounded
  <2> QED BY <1>1, <2>1, <2>2 DEF Bounded
<1>6. ASSUME NEW u \in Users, UserStep(u) PROVE Bounded'
  BY <1>3, <1>4, <1>5, <1>6 DEF UserStep, SendFromUser, ShutdownFromUser, ReadingFromUser
<1>7. ASSUME UNCHANGED <<queue, call>> PROVE Bounded'
  BY <1>7 DEF Bounded, Calling
<1> QED BY <1>2, <1>6, <1>7 DEF Next, LoopThreadStep, SendFromLoop, ShutdownFromLoop,
       ReadingFromLoop, HandleClose, PeerResets, vars, inLoop

-----------------------------------------------------------------------------
(* Every step.                                                             *)

(* Steps that concern the calls and leave the channel alone. *)
LEMMA ChannelUndisturbed ==
  ASSUME ChannelInv, UNCHANGED <<watch, readFlag, buffer, readSet>>
  PROVE  ChannelInv'
  BY DEF ChannelInv, BufferStaysEmpty, NeverWriting, ReadFlagAgrees

LEMMA ChannelNext == CallsTyped /\ ChannelInv /\ [Next]_vars => ChannelInv'
<1> SUFFICES ASSUME CallsTyped, ChannelInv, [Next]_vars PROVE ChannelInv'
  OBVIOUS
<1>1. CASE RunFunctor
  <2>1. Head(queue) \in Functors
    BY <1>1, TailPlaces DEF RunFunctor, CallsTyped
  <2>2. Head(queue).len \in Nat
    BY <2>1 DEF Functors
  <2> QED BY <1>1, <2>2, SendKeepsChannel, ShutdownKeepsChannel, StartReadKeepsChannel,
             StopReadKeepsChannel DEF RunFunctor
<1>2. ASSUME NEW len \in Lengths, SendFromLoop(len) PROVE ChannelInv'
  BY <1>2, SendKeepsChannel DEF SendFromLoop
<1>3. CASE ShutdownFromLoop
  BY <1>3, ShutdownKeepsChannel DEF ShutdownFromLoop
<1>4. CASE ReadingFromLoop
  BY <1>4, StartReadKeepsChannel, StopReadKeepsChannel DEF ReadingFromLoop
<1>5. CASE HandleClose
  BY <1>5, ChannelUndisturbed DEF HandleClose, inLoop
<1>6. ASSUME NEW u \in Users, UserStep(u) PROVE ChannelInv'
  BY <1>6, ChannelUndisturbed
     DEF UserStep, SendFromUser, ShutdownFromUser, ReadingFromUser, Begin,
         SetDisconnecting, QueueInLoop, inLoop
<1>7. CASE PeerResets
  BY <1>7, ChannelUndisturbed DEF PeerResets
<1>8. CASE UNCHANGED vars
  BY <1>8, ChannelUndisturbed DEF vars, inLoop
<1> QED BY <1>1, <1>2, <1>3, <1>4, <1>5, <1>6, <1>7, <1>8 DEF Next, LoopThreadStep

LEMMA CallsNext == CallsTyped /\ Order /\ [Next]_vars => CallsTyped' /\ Order'
<1> SUFFICES ASSUME CallsTyped, Order, [Next]_vars PROVE CallsTyped' /\ Order'
  OBVIOUS
<1>1. CASE RunFunctor
  BY <1>1, RunFunctorKeepsOrder
<1>2. ASSUME NEW len \in Lengths, SendFromLoop(len) PROVE CallsTyped' /\ Order'
  BY <1>2, OrderUndisturbed DEF SendFromLoop, Send
<1>3. CASE ShutdownFromLoop
  BY <1>3, ShutdownFromLoopKeepsOrder
<1>4. CASE ReadingFromLoop
  BY <1>4, OrderUndisturbed DEF ReadingFromLoop, StartReadInLoop, StopReadInLoop
<1>5. CASE HandleClose
  BY <1>5, OrderUndisturbed DEF HandleClose, inLoop
<1>6. ASSUME NEW u \in Users, UserStep(u) PROVE CallsTyped' /\ Order'
  <2>1. \A op \in Operations, len \in Nat :
          Functor(op, u, len) \in Functors /\ Functor(op, u, len).by = u
            /\ Functor(op, u, len).op = op
    BY DEF Functor, Functors
  <2>2. ASSUME NEW len \in Lengths, SendFromUser(u, len) PROVE CallsTyped' /\ Order'
    BY <2>1, <2>2, BeginKeepsOrder DEF SendFromUser, Operations
  <2>3. CASE ShutdownFromUser(u)
    BY <2>1, <2>3, BeginKeepsOrder DEF ShutdownFromUser, Operations
  <2>4. CASE ReadingFromUser(u)
    BY <2>1, <2>4, BeginKeepsOrder DEF ReadingFromUser, Operations
  <2>5. CASE SetDisconnecting(u)
    BY <2>5, SetDisconnectingKeepsOrder
  <2>6. CASE QueueInLoop(u)
    BY <2>6, QueueInLoopKeepsOrder
  <2> QED BY <1>6, <2>2, <2>3, <2>4, <2>5, <2>6 DEF UserStep
<1>7. CASE PeerResets
  BY <1>7, OrderUndisturbed DEF PeerResets
<1>8. CASE UNCHANGED vars
  BY <1>8, OrderUndisturbed DEF vars, inLoop
<1> QED BY <1>1, <1>2, <1>3, <1>4, <1>5, <1>6, <1>7, <1>8 DEF Next, LoopThreadStep

LEMMA Invariance == Spec => []Inv
<1>1. Init => Inv
  BY ChannelInit, CallsInit DEF Inv
<1>2. Inv /\ [Next]_vars => Inv'
  BY ChannelNext, CallsNext DEF Inv
<1> QED BY <1>1, <1>2, PTL DEF Spec

(* The state keeps its shape, however many threads call: in particular the  *)
(* calls under way are never more than the bound on them, and the indices   *)
(* of the output buffer stay inside it.                                     *)
THEOREM OutputTypeCorrect == Spec => []TypeOK
<1> DEFINE All == Inv /\ Shape /\ Bounded
<1>1. Init => All
  <2> SUFFICES ASSUME Init PROVE All
    OBVIOUS
  <2>1. Inv
    BY ChannelInit, CallsInit DEF Inv
  <2>2. Shape
    <3>1. DOMAIN queue = {}
      BY DEF Init
    <3>2. /\ watch = {"EPOLLIN"} /\ readFlag \in BOOLEAN /\ state = "kConnected" /\ registered = TRUE
          /\ stream = "open" /\ process = "running" /\ readSet = FALSE /\ shutBy = Nobody
      BY DEF Init
    <3> QED BY <3>1, <3>2 DEF Shape
  <2>3. Calling = {} /\ Len(queue) = 0
    BY DEF Init, Calling
  <2>4. Bounded
    BY <2>3, FS_EmptySet DEF Bounded
  <2> QED BY <2>1, <2>2, <2>4
<1>2. All /\ [Next]_vars => All'
  BY ChannelNext, CallsNext, ShapeNext, BoundedNext DEF Inv
<1>3. All => TypeOK
  <2> SUFFICES ASSUME All PROVE TypeOK
    OBVIOUS
  <2>1. queue \in Seq(Functors) /\ \A u \in Users : \A f \in call[u] : f.by = u
    BY DEF Inv, CallsTyped
  <2>2. \A i \in DOMAIN queue : queue[i].by \in Users
    <3>1. \A i \in DOMAIN queue : queue[i] \in Functors
      BY <2>1
    <3>2. \A f \in Functors : f.by \in Users
      BY DEF Functors
    <3> QED BY <3>1, <3>2, Zenon
  <2>3. Len(queue) <= MaxPending
    BY <2>1, FS_CardinalityType DEF Bounded
  <2>4. /\ buffer.size \in Nat
        /\ buffer.readIndex <= buffer.writeIndex /\ buffer.writeIndex <= buffer.size
    BY DEF Inv, ChannelInv, BufferStaysEmpty
  <2> QED BY <2>1, <2>2, <2>3, <2>4 DEF TypeOK, Shape
<1> QED BY <1>1, <1>2, <1>3, PTL DEF Spec

(* However many threads send however much: EPOLLOUT is never asked for, so  *)
(* what a short send leaves in the output buffer stays there.               *)
THEOREM WritingIsNeverAskedFor == Spec => []NeverWriting
<1>1. Inv => NeverWriting
  BY DEF Inv, ChannelInv
<1> QED BY <1>1, Invariance, PTL

(* StartReadInLoop and StopReadInLoop leave read_flag_ and the channel in   *)
(* agreement, whatever read_flag_ was before the first of them.             *)
THEOREM ReadFlagAgreesAlways == Spec => []ReadFlagAgrees
<1>1. Inv => ReadFlagAgrees
  BY DEF Inv, ChannelInv
<1> QED BY <1>1, Invariance, PTL

(* For any number of threads: when a thread's Shutdown ends the stream,     *)
(* everything it sent before has been handed to send.                       *)
THEOREM ShutdownStaysBehind == Spec => []OwnSendsPrecedeShutdown
<1>1. Inv => OwnSendsPrecedeShutdown
  BY DEF Inv, Order
<1> QED BY <1>1, Invariance, PTL

(* kDisconnected is only overwritten by a Shutdown whose test came before   *)
(* the close.                                                               *)
THEOREM DisconnectedStays == Spec => DisconnectedIsFinal
<1>1. ASSUME [Next]_vars, state = "kDisconnected", state' # "kDisconnected"
      PROVE  \E u \in Users : Functor("Shutdown", u, 0) \in call[u]
  <2>1. PICK u \in Users : SetDisconnecting(u)
    BY <1>1 DEF Next, vars, LoopThreadStep, RunFunctor, HandleClose, SendFromLoop,
                ShutdownFromLoop, ReadingFromLoop, UserStep, SendFromUser,
                ShutdownFromUser, ReadingFromUser, Begin, QueueInLoop, PeerResets
  <2> QED BY <2>1 DEF SetDisconnecting
<1> QED BY <1>1, PTL DEF Spec, DisconnectedIsFinal

-----------------------------------------------------------------------------
(* No Shutdown is forgotten.                                               *)

(* A ShutdownInLoop of u has yet to run. *)
Ending(u) ==
  \/ \E i \in DOMAIN queue : queue[i].op = "ShutdownInLoop" /\ queue[i].by = u
  \/ \E f \in call[u] : f.op = "ShutdownInLoop"

(* Between the assignment of kDisconnecting and the end of the stream the   *)
(* connection depends on a functor on its way through another thread: it    *)
(* has not been dropped, nor run without an effect.  ShutdownEndsStream     *)
(* rests on it.                                                             *)
ShutdownUnderWay ==
  state = "kDisconnecting" /\ stream = "open" => \E u \in Users : Ending(u)

(* The functor at the head runs; if it is the one that was waited for, the  *)
(* stream is not open after it, for the channel is never writing.           *)
LEMMA RunFunctorKeepsEnding ==
  ASSUME CallsTyped, NeverWriting, RunFunctor, stream' = "open", NEW u \in Users, Ending(u)
  PROVE  stream = "open" /\ Ending(u)'
<1>1. /\ queue' = Tail(queue) /\ queue # <<>> /\ queue \in Seq(Functors) /\ call' = call
  BY DEF RunFunctor, CallsTyped
<1>2. stream = "open" /\ queue[1].op # "ShutdownInLoop"
  <2>1. Head(queue) = queue[1]
    BY <1>1
  <2> QED BY <2>1 DEF RunFunctor, Send, SendDirectly, ShutdownInLoop, StartReadInLoop,
                      StopReadInLoop, NotWriting, NeverWriting
<1>3. ASSUME NEW i \in DOMAIN queue, queue[i].op = "ShutdownInLoop"
      PROVE  \E j \in DOMAIN queue' : queue'[j] = queue[i]
  <2>1. i # 1 /\ i \in 1 .. Len(queue)
    BY <1>1, <1>2, <1>3
  <2>2. i - 1 \in DOMAIN queue' /\ queue'[i - 1] = queue[i]
    BY <1>1, <2>1
  <2> QED BY <2>2
<1> QED BY <1>1, <1>2, <1>3 DEF Ending

(* What a user has pushed is in the queue. *)
LEMMA QueueInLoopKeepsEnding ==
  ASSUME CallsTyped, NEW v \in Users, QueueInLoop(v), NEW u \in Users, Ending(u)
  PROVE  Ending(u)'
<1>1. PICK f \in call[v] : queue' = Append(queue, f)
  BY DEF QueueInLoop
<1>2. f \in Functors /\ f.by = v /\ call[v] = {f} /\ queue \in Seq(Functors)
  BY DEF CallsTyped
<1>3. call' = [call EXCEPT ![v] = {}] /\ DOMAIN call = Users
  BY DEF QueueInLoop, CallsTyped
<1>4. \A i \in DOMAIN queue : i \in DOMAIN queue' /\ queue'[i] = queue[i]
  BY <1>1, <1>2
<1>5. Len(queue) + 1 \in DOMAIN queue' /\ queue'[Len(queue) + 1] = f
  BY <1>1, <1>2
<1>6. CASE \E i \in DOMAIN queue : queue[i].op = "ShutdownInLoop" /\ queue[i].by = u
  BY <1>4, <1>6 DEF Ending
<1>7. CASE u = v /\ \E g \in call[u] : g.op = "ShutdownInLoop"
  BY <1>2, <1>5, <1>7 DEF Ending
<1>8. CASE u # v /\ \E g \in call[u] : g.op = "ShutdownInLoop"
  BY <1>3, <1>8 DEF Ending
<1> QED BY <1>6, <1>7, <1>8 DEF Ending

(* Every step keeps it. *)
LEMMA UnderWayNext ==
  CallsTyped /\ NeverWriting /\ ShutdownUnderWay /\ [Next]_vars => ShutdownUnderWay'
<1> SUFFICES ASSUME CallsTyped, NeverWriting, ShutdownUnderWay, [Next]_vars,
                    state' = "kDisconnecting", stream' = "open"
             PROVE  \E u \in Users : Ending(u)'
  BY DEF ShutdownUnderWay
<1>1. CASE RunFunctor
  <2>1. state = "kDisconnecting"
    BY <1>1 DEF RunFunctor
  <2>2. stream = "open"
    BY <1>1 DEF RunFunctor, Send, SendDirectly, ShutdownInLoop, StartReadInLoop, StopReadInLoop
  <2>3. PICK u \in Users : Ending(u)
    BY <2>1, <2>2 DEF ShutdownUnderWay
  <2> QED BY <1>1, <2>3, RunFunctorKeepsEnding
<1>2. CASE ShutdownFromLoop
  BY <1>2 DEF ShutdownFromLoop, ShutdownInLoop, NotWriting, NeverWriting
<1>3. ASSUME NEW u \in Users, SetDisconnecting(u) PROVE \E v \in Users : Ending(v)'
  <2>1. Functor("ShutdownInLoop", u, 0) \in call'[u]
    BY <1>3 DEF SetDisconnecting, CallsTyped
  <2>2. Functor("ShutdownInLoop", u, 0).op = "ShutdownInLoop"
    BY DEF Functor
  <2> QED BY <2>1, <2>2 DEF Ending
<1>4. ASSUME NEW v \in Users, QueueInLoop(v) PROVE \E u \in Users : Ending(u)'
  <2>1. PICK u \in Users : Ending(u)
    BY <1>4 DEF QueueInLoop, inLoop, ShutdownUnderWay
  <2> QED BY <1>4, <2>1, QueueInLoopKeepsEnding
<1>5. ASSUME NEW v \in Users, NEW f, Begin(v, f) PROVE \E u \in Users : Ending(u)'
  <2>1. PICK u \in Users : Ending(u)
    BY <1>5 DEF Begin, inLoop, ShutdownUnderWay
  <2>2. queue' = queue /\ call[v] = {} /\ \A w \in Users \ {v} : call'[w] = call[w]
    BY <1>5 DEF Begin, CallsTyped
  <2> QED BY <2>1, <2>2 DEF Ending
<1>6. CASE UNCHANGED <<state, queue, call>> /\ stream = "open"
  BY <1>6 DEF ShutdownUnderWay, Ending
<1>7. CASE ReadingFromLoop \/ PeerResets \/ UNCHANGED vars
  BY <1>6, <1>7 DEF ReadingFromLoop, StartReadInLoop, StopReadInLoop, PeerResets, vars, inLoop
<1>8. ASSUME NEW len, SendFromLoop(len) PROVE \E u \in Users : Ending(u)'
  BY <1>6, <1>8 DEF SendFromLoop, Send, SendDirectly
<1>9. ASSUME NEW u \in Users, UserStep(u) PROVE \E v \in Users : Ending(v)'
  BY <1>3, <1>4, <1>5, <1>9 DEF UserStep, SendFromUser, ShutdownFromUser, ReadingFromUser
<1>10. CASE HandleClose
  BY <1>10 DEF HandleClose
<1> QED BY <1>1, <1>2, <1>7, <1>8, <1>9, <1>10 DEF Next, LoopThreadStep

(* For any number of threads that shut down, send and close at the same     *)
(* time: a connection that is kDisconnecting with its stream still open has *)
(* a ShutdownInLoop before it.                                              *)
THEOREM ShutdownIsNeverForgotten == Spec => []ShutdownUnderWay
<1>1. Init => ShutdownUnderWay
  BY DEF Init, ShutdownUnderWay
<1>2. Inv => CallsTyped /\ NeverWriting
  BY DEF Inv, ChannelInv
<1> QED BY <1>1, <1>2, UnderWayNext, Invariance, PTL DEF Spec
=============================================================================
