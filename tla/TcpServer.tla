------------------------------ MODULE TcpServer ------------------------------
(***************************************************************************)
(* The life of the connections of a TcpServer: Acceptor, TcpServer,         *)
(* TcpConnection, Channel and EpollPoller, and the EventLoops that run      *)
(* them, in one thread (an empty pool, what main.cc starts) or with a pool  *)
(* of I/O loops (SetThreadNum).                                             *)
(*                                                                         *)
(* An object owned by shared_ptr exists while somebody holds a reference:   *)
(* connection_map_, a functor that is queued or in a batch not yet          *)
(* destroyed, or the stack of a handler.  The model keeps the holders and   *)
(* derives from them whether a TcpConnection (and with it its Socket, hence *)
(* the descriptor) and its Channel still exist.                             *)
(*                                                                         *)
(* The functors of a loop are the queue TaskQueue promises; the handshake   *)
(* that makes the loop look at it is module EventLoop's.                    *)
(***************************************************************************)
EXTENDS Integers, Sequences, FiniteSets

CONSTANTS
  Conns,            \* the connections clients may make, each at most once
  Names,            \* the values of TcpConnection::name_
  NameOf,           \* the name HandleConnection gives a connection: address
                    \* and port written without a separator
  Fds,              \* the descriptors left for connections
  Base,             \* the loop of the acceptor
  IoLoops,          \* the loops of the thread pool
  Pools,            \* the pools of them a server may be started with
  EventInitSize     \* kEventInitSize, how many events one epoll_wait returns at first

Acceptor == "acceptor"

ASSUME ServerAssumption ==
  /\ Acceptor \notin Conns
  /\ NameOf \in [Conns -> Names]
  /\ Fds \subseteq Nat
  /\ Base \notin IoLoops
  /\ Pools \subseteq Seq(IoLoops)
  /\ EventInitSize \in Nat \ {0}

Loops == {Base} \cup IoLoops
NoFd == -1
NoLoop == "no_loop"

VARIABLES
  backlog,          \* kernel: connections accept4 has not returned yet, oldest first
  refused,          \* kernel: connections accepted only to be closed (EMFILE)
  wire,             \* kernel: what a client sent and nobody has read: data, fin, rst
  state,            \* state_ of each TcpConnection, "none" before its constructor
  fd,               \* sockfd_ of its Socket and fd_ of its Channel
  loopOf,           \* its event_loop_ptr_
  runFlag,          \* run_in_loop_flag_ of its Channel
  handling,         \* event_handling_ of its Channel
  connMap,          \* the values of connection_map_ (its keys are their names)
  pool,             \* loops_pool_ of the thread pool, all of them registered
  next,             \* next_ of the thread pool
  capacity,         \* per loop: events_.size()
  watch,            \* per loop: connections added to its epoll and not deleted
  chanMap,          \* per loop: the values of channels_map_ (its keys are their fds)
  queue,            \* per loop: pending_functors_
  batch,            \* per loop: the vector of DoPendingFunctors, destroyed as a whole
  ran,              \* per loop: how many functors of the batch have run
  pc,               \* per loop: where its thread is
  active,           \* per loop: entries of active_channel_list_ not handled yet
  trigger,          \* trigger_events_ of each Channel
  current,          \* per loop: the connection whose HandleEvent is running
  held,             \* per loop: connections the stack of that HandleEvent refers to
  answered          \* history: connections whose message callback has run

kernel == <<backlog, refused, wire>>
conn == <<state, fd, loopOf, runFlag, handling, trigger>>
tables == <<connMap, pool, next, capacity, watch, chanMap>>
thread == <<queue, batch, ran, pc, active, current, held>>
vars == <<kernel, conn, tables, thread, answered>>

-----------------------------------------------------------------------------
(* Ownership.                                                              *)

Functor(op, c) == [op |-> op, conn |-> c]
Established == "ConnectionEstablished"
Remove == "RemoveConnectionInLoop"

Functors == [op : {Established, Remove}, conn : Conns]

Bound(functors) == {functors[i].conn : i \in DOMAIN functors}

Referenced(c) ==
  \/ c \in connMap
  \/ \E l \in Loops : c \in held[l] \cup Bound(queue[l]) \cup Bound(batch[l])

(* The TcpConnection exists; so does its Socket, and its descriptor is open. *)
Alive(c) == state[c] # "none" /\ Referenced(c)

(* Its Channel exists: owned by it and by channels_map_. *)
ChannelAlive(c) == Alive(c) \/ \E l \in Loops : c \in chanMap[l]

FreeFds == Fds \ {fd[c] : c \in {d \in Conns : Alive(d)}}

(* The kernel returns the lowest free descriptor. *)
LowestFree(f) == f \in FreeFds /\ \A g \in FreeFds : f <= g

-----------------------------------------------------------------------------
Init ==
  /\ backlog = <<>>
  /\ refused = {}
  /\ wire = [c \in Conns |-> {}]
  /\ state = [c \in Conns |-> "none"]
  /\ fd = [c \in Conns |-> NoFd]
  /\ loopOf = [c \in Conns |-> NoLoop]
  /\ runFlag = [c \in Conns |-> FALSE]
  /\ handling = [c \in Conns |-> FALSE]
  /\ connMap = {}
  /\ pool \in Pools
  /\ next = 0
  /\ capacity = [l \in Loops |-> EventInitSize]
  /\ watch = [l \in Loops |-> {}]
  /\ chanMap = [l \in Loops |-> {}]
  /\ queue = [l \in Loops |-> <<>>]
  /\ batch = [l \in Loops |-> <<>>]
  /\ ran = [l \in Loops |-> 0]
  /\ pc = [l \in Loops |-> "poll"]
  /\ active = [l \in Loops |-> {}]
  /\ trigger = [c \in Conns |-> {}]
  /\ current = [l \in Loops |-> {}]
  /\ held = [l \in Loops |-> {}]
  /\ answered = {}

-----------------------------------------------------------------------------
(* The clients and the kernel.                                             *)

InBacklog(c) == \E i \in DOMAIN backlog : backlog[i] = c

Connect(c) ==
  /\ state[c] = "none" /\ ~InBacklog(c) /\ c \notin refused
  /\ backlog' = Append(backlog, c)
  /\ UNCHANGED <<refused, wire, conn, tables, thread, answered>>

(* A client whose connection is open sends its request, closes or resets. *)
ClientSends(c, what) ==
  /\ InBacklog(c) \/ Alive(c)
  /\ wire[c] \cap {what, "fin", "rst"} = {}
  /\ what = "data" => c \notin answered
  /\ wire' = [wire EXCEPT ![c] = @ \cup {what}]
  /\ UNCHANGED <<backlog, refused, conn, tables, thread, answered>>

-----------------------------------------------------------------------------
(* A loop: epoll_wait.                                                     *)

(* Level-triggered: a registered descriptor is ready while something is     *)
(* unread.                                                                  *)
Ready(l) ==
  {c \in watch[l] : Alive(c) /\ wire[c] # {}}
    \cup (IF l = Base /\ backlog # <<>> THEN {Acceptor} ELSE {})

EventsOf(c) == {"EPOLLIN"} \cup (IF "rst" \in wire[c] THEN {"EPOLLERR"} ELSE {})

(* The eventfd, which is readable when functors are queued: NoLostWakeup of *)
(* EventLoop.                                                               *)
Woken(l) == IF queue[l] # <<>> THEN 1 ELSE 0

(* epoll_wait returns as many of the ready channels as events_ has room for *)
(* (the eventfd may be one of them); when it is full events_ is doubled.    *)
(* An eventfd left readable after its functors have run only makes one more *)
(* round of the loop, in which nothing happens.                             *)
Poll(l) ==
  /\ pc[l] = "poll"
  /\ \E some \in SUBSET Ready(l), woken \in 0 .. Woken(l) :
       LET num == Cardinality(some) + woken
       IN  /\ num > 0
           /\ \/ num = Cardinality(Ready(l)) + Woken(l) /\ num < capacity[l] /\ UNCHANGED capacity
              \/ num = capacity[l] /\ capacity' = [capacity EXCEPT ![l] = @ * 2]
           /\ active' = [active EXCEPT ![l] = some]
           /\ trigger' = [c \in Conns |-> IF c \in some THEN EventsOf(c) ELSE trigger[c]]
  /\ pc' = [pc EXCEPT ![l] = "dispatch"]
  /\ UNCHANGED <<kernel, state, fd, loopOf, runFlag, handling, connMap, pool, next,
                 watch, chanMap, queue, batch, ran, current, held, answered>>

-----------------------------------------------------------------------------
(* Accepting.                                                              *)

(* Forgets set_run_in_loop_flag(true). *)
EstablishedUnflagged(l, c, f) ==
  /\ state' = [state EXCEPT ![c] = "kConnected"]
  /\ watch' = [watch EXCEPT ![l] = @ \cup {c}]
  /\ chanMap' = [chanMap EXCEPT ![l] = {d \in @ : fd[d] # f} \cup {c}]
  /\ UNCHANGED runFlag

(* ConnectionEstablished of c on loop l, where its descriptor is f: the     *)
(* channel is added to the epoll and to channels_map_, over whatever entry  *)
(* that descriptor has there.                                               *)
ConnectionEstablished(l, c, f) ==
  /\ state' = [state EXCEPT ![c] = "kConnected"]
  /\ runFlag' = [runFlag EXCEPT ![c] = TRUE]
  /\ watch' = [watch EXCEPT ![l] = @ \cup {c}]
  /\ chanMap' = [chanMap EXCEPT ![l] = {d \in @ : fd[d] # f} \cup {c}]

NextLoop == IF pool = <<>> THEN Base ELSE pool[next + 1]

(* Registers the channel from the base thread, before the connection's own  *)
(* loop has run ConnectionEstablished.                                      *)
EstablishFromBase(l, c, f) ==
  /\ queue' = [queue EXCEPT ![l] = Append(@, Functor(Established, c))]
  /\ state' = [state EXCEPT ![c] = "kConnecting"]
  /\ runFlag' = [runFlag EXCEPT ![c] = TRUE]
  /\ watch' = [watch EXCEPT ![l] = @ \cup {c}]
  /\ chanMap' = [chanMap EXCEPT ![l] = @ \cup {c}]

(* RunInLoop of ConnectionEstablished: on the spot if the connection is the *)
(* base loop's own, else through the queue of its loop.                     *)
EstablishInLoop(l, c, f) ==
  \/ /\ l = Base
     /\ ConnectionEstablished(l, c, f)
     /\ UNCHANGED queue
  \/ /\ l # Base
     /\ queue' = [queue EXCEPT ![l] = Append(@, Functor(Established, c))]
     /\ state' = [state EXCEPT ![c] = "kConnecting"]
     /\ UNCHANGED <<runFlag, watch, chanMap>>

(* connection_map_[name] = conn, whatever it held before. *)
InsertInMap(c) == connMap' = {d \in connMap : NameOf[d] # NameOf[c]} \cup {c}

(* connection_map_.erase(name) *)
EraseFromMap(c) == connMap' = {d \in connMap : NameOf[d] # NameOf[c]}

(* HandleReadEvent of the acceptor and, through its callback, the server's  *)
(* HandleConnection.                                                       *)
HandleConnection(c, f) ==
  /\ pc[Base] = "dispatch" /\ Acceptor \in active[Base]
  /\ backlog # <<>> /\ c = Head(backlog)
  /\ LowestFree(f)
  /\ backlog' = Tail(backlog)
  /\ active' = [active EXCEPT ![Base] = @ \ {Acceptor}]
  /\ fd' = [fd EXCEPT ![c] = f]
  /\ loopOf' = [loopOf EXCEPT ![c] = NextLoop]
  /\ next' = IF pool = <<>> THEN next ELSE (next + 1) % Len(pool)
  /\ InsertInMap(c)
  /\ EstablishInLoop(NextLoop, c, f)
  /\ UNCHANGED <<refused, wire, handling, trigger, pool, capacity, batch, ran, pc,
                 current, held, answered>>

(* Out of descriptors: the spare idlefd_ is given up to accept the oldest   *)
(* connection, which is closed at once, and opened again.                   *)
RefuseConnection ==
  /\ pc[Base] = "dispatch" /\ Acceptor \in active[Base]
  /\ backlog # <<>> /\ FreeFds = {}
  /\ backlog' = Tail(backlog)
  /\ refused' = refused \cup {Head(backlog)}
  /\ active' = [active EXCEPT ![Base] = @ \ {Acceptor}]
  /\ UNCHANGED <<wire, conn, tables, queue, batch, ran, pc, current, held,
                 answered>>

-----------------------------------------------------------------------------
(* Handling the events of a connection.                                    *)

(* Channel::HandleEvent is entered, through the raw pointer of the active   *)
(* list.                                                                    *)
BeginEvent(l, c) ==
  /\ pc[l] = "dispatch" /\ c \in active[l]
  /\ pc' = [pc EXCEPT ![l] = "handling"]
  /\ active' = [active EXCEPT ![l] = @ \ {c}]
  /\ current' = [current EXCEPT ![l] = {c}]
  /\ handling' = [handling EXCEPT ![c] = TRUE]
  /\ UNCHANGED <<kernel, state, fd, loopOf, runFlag, trigger, tables, queue,
                 batch, ran, held, answered>>

StillConnected(c) ==
  /\ handling' = [handling EXCEPT ![c] = FALSE]
  /\ UNCHANGED state

StillHandling(c) ==
  /\ state' = [state EXCEPT ![c] = "kDisconnected"]
  /\ UNCHANGED handling

HalfDisconnected(c) ==
  /\ state' = [state EXCEPT ![c] = "kDisconnecting"]
  /\ handling' = [handling EXCEPT ![c] = FALSE]

SetDisconnected(c) ==
  /\ state' = [state EXCEPT ![c] = "kDisconnected"]
  /\ handling' = [handling EXCEPT ![c] = FALSE]

LeaveChannel(l, c) == UNCHANGED <<runFlag, watch, chanMap>>

RemoveChannel(l, c) ==
  /\ runFlag' = [runFlag EXCEPT ![c] = FALSE]
  /\ watch' = [watch EXCEPT ![l] = @ \ {c}]
  /\ chanMap' = [chanMap EXCEPT ![l] = {d \in @ : fd[d] # fd[c]}]

RemoveOwnOnly(l, c) ==
  /\ IF l = Base THEN EraseFromMap(c) ELSE UNCHANGED connMap
  /\ UNCHANGED queue

(* RunInLoop of RemoveConnectionInLoop, in the base loop. *)
RemoveConnection(l, c) ==
  \/ /\ l = Base
     /\ EraseFromMap(c)
     /\ UNCHANGED queue
  \/ /\ l # Base
     /\ queue' = [queue EXCEPT ![Base] = Append(@, Functor(Remove, c))]
     /\ UNCHANGED connMap

(* HandleClose and HandleError, which do the same, on loop l: the handler's *)
(* stack holds the connection while it asks the base loop to forget it.     *)
HandleClose(l, c) ==
  /\ SetDisconnected(c)
  /\ RemoveChannel(l, c)
  /\ RemoveConnection(l, c)
  /\ held' = [held EXCEPT ![l] = {c}]
  /\ pc' = [pc EXCEPT ![l] = "closing"]
  /\ UNCHANGED <<backlog, refused, fd, loopOf, trigger, pool, next, capacity, batch,
                 ran, active, current>>

Handling(l, c) == pc[l] = "handling" /\ current[l] = {c} /\ Alive(c)

(* HandleRead of a request: the message callback answers it, then the       *)
(* connection is closed.                                                    *)
HandleRequest(l, c) ==
  /\ Handling(l, c)
  /\ "EPOLLERR" \notin trigger[c] /\ "data" \in wire[c]
  /\ wire' = [wire EXCEPT ![c] = @ \ {"data"}]
  /\ answered' = answered \cup {c}
  /\ HandleClose(l, c)

(* Closes at the client's fin, with its request unread. *)
EndOfInputUnread(l, c) ==
  /\ Handling(l, c)
  /\ "EPOLLERR" \notin trigger[c] /\ "fin" \in wire[c]
  /\ HandleClose(l, c)
  /\ UNCHANGED <<wire, answered>>

(* HandleRead at the end of the input (0) or after a reset (-1). *)
HandleEndOfInput(l, c) ==
  /\ Handling(l, c)
  /\ "EPOLLERR" \notin trigger[c] /\ "data" \notin wire[c]
  /\ HandleClose(l, c)
  /\ UNCHANGED <<wire, answered>>

(* EPOLLERR: HandleError, without a read. *)
HandleError(l, c) ==
  /\ Handling(l, c)
  /\ "EPOLLERR" \in trigger[c]
  /\ HandleClose(l, c)
  /\ UNCHANGED <<wire, answered>>

(* The handler's temporaries are gone; with the last reference goes the     *)
(* connection, and its Socket closes the descriptor.                        *)
DropReferences(l) ==
  /\ pc[l] = "closing"
  /\ held' = [held EXCEPT ![l] = {}]
  /\ pc' = [pc EXCEPT ![l] = "leaving"]
  /\ UNCHANGED <<kernel, conn, tables, queue, batch, ran, active, current,
                 answered>>

(* HandleEvent goes on after the callback: EPOLLOUT is not set (it is never *)
(* watched), event_handling_ is cleared, Loop() reads the channel's fd.     *)
EndEvent(l, c) ==
  /\ pc[l] = "leaving" /\ current[l] = {c} /\ ChannelAlive(c)
  /\ handling' = [handling EXCEPT ![c] = FALSE]
  /\ current' = [current EXCEPT ![l] = {}]
  /\ pc' = [pc EXCEPT ![l] = "dispatch"]
  /\ UNCHANGED <<kernel, state, fd, loopOf, runFlag, trigger, tables, queue,
                 batch, ran, active, held, answered>>

(* The same through a destroyed object: the callback of a channel whose     *)
(* connection is gone, or the rest of HandleEvent in a channel that is.     *)
(* The process goes on or dies of it.                                       *)
Dangling(l, c) ==
  /\ current[l] = {c}
  /\ (pc[l] = "handling" /\ ~Alive(c)) \/ (pc[l] = "leaving" /\ ~ChannelAlive(c))

UseDestroyed(l, c) ==
  /\ Dangling(l, c)
  /\ current' = [current EXCEPT ![l] = {}]
  /\ pc' \in {[pc EXCEPT ![l] = "dispatch"], [m \in Loops |-> "dead"]}
  /\ UNCHANGED <<kernel, conn, tables, queue, batch, ran, active, held, answered>>

-----------------------------------------------------------------------------
(* DoPendingFunctors.                                                      *)

SwapFunctors(l) ==
  /\ pc[l] = "dispatch" /\ active[l] = {}
  /\ batch' = [batch EXCEPT ![l] = queue[l]]
  /\ queue' = [queue EXCEPT ![l] = <<>>]
  /\ pc' = [pc EXCEPT ![l] = "run"]
  /\ UNCHANGED <<kernel, conn, tables, ran, active, current, held, answered>>

RunFunctor(l) ==
  /\ pc[l] = "run" /\ ran[l] < Len(batch[l])
  /\ ran' = [ran EXCEPT ![l] = @ + 1]
  /\ LET functor == batch[l][ran[l] + 1]
         c == functor.conn
     IN  \/ /\ functor.op = Established
            /\ ConnectionEstablished(l, c, fd[c])
            /\ UNCHANGED connMap
         \/ /\ functor.op = Remove
            /\ EraseFromMap(c)
            /\ UNCHANGED <<state, runFlag, watch, chanMap>>
  /\ UNCHANGED <<kernel, fd, loopOf, handling, trigger, pool, next, capacity, queue,
                 batch, pc, active, current, held, answered>>

(* The local vector, and with it the references its functors hold, is       *)
(* destroyed when DoPendingFunctors returns.                                *)
EndBatch(l) ==
  /\ pc[l] = "run" /\ ran[l] = Len(batch[l])
  /\ batch' = [batch EXCEPT ![l] = <<>>]
  /\ ran' = [ran EXCEPT ![l] = 0]
  /\ pc' = [pc EXCEPT ![l] = "poll"]
  /\ UNCHANGED <<kernel, conn, tables, queue, active, current, held, answered>>

-----------------------------------------------------------------------------
Client ==
  \E c \in Conns : Connect(c) \/ \E what \in {"data", "fin", "rst"} : ClientSends(c, what)

HandleChannel(l) ==
  \E c \in Conns : \/ BeginEvent(l, c)
                   \/ HandleRequest(l, c)
                   \/ HandleEndOfInput(l, c)
                   \/ HandleError(l, c)
                   \/ EndEvent(l, c)
                   \/ UseDestroyed(l, c)

LoopStep(l) ==
  \/ Poll(l) \/ HandleChannel(l) \/ DropReferences(l)
  \/ SwapFunctors(l) \/ RunFunctor(l) \/ EndBatch(l)

Accept == RefuseConnection \/ \E c \in Conns, f \in Fds : HandleConnection(c, f)

Next == Client \/ Accept \/ \E l \in Loops : LoopStep(l)

Spec == Init /\ [][Next]_vars

Aborted == \E l \in Loops : pc[l] = "dead"

(***************************************************************************)
(* Each loop's thread goes on: epoll_wait returns when something is ready   *)
(* or queued (EventLoop's DueTaskRuns), callbacks return.  Clients need not *)
(* do anything.                                                             *)
(***************************************************************************)
Fairness ==
  /\ \A l \in Loops : WF_vars(LoopStep(l))
  /\ WF_vars(Accept)

FairSpec == Spec /\ Fairness

(* The hypothesis on the addresses: their names tell connections apart. *)
DistinctNames == \A c, d \in Conns : NameOf[c] = NameOf[d] => c = d

-----------------------------------------------------------------------------
(* The shape of the state. *)
TypeOK ==
  /\ backlog \in Seq(Conns)
  /\ refused \subseteq Conns
  /\ wire \in [Conns -> SUBSET {"data", "fin", "rst"}]
  /\ state \in [Conns -> {"none", "kConnecting", "kConnected", "kDisconnected"}]
  /\ fd \in [Conns -> Fds \cup {NoFd}]
  /\ loopOf \in [Conns -> Loops \cup {NoLoop}]
  /\ runFlag \in [Conns -> BOOLEAN]
  /\ handling \in [Conns -> BOOLEAN]
  /\ trigger \in [Conns -> SUBSET {"EPOLLIN", "EPOLLERR"}]
  /\ connMap \subseteq Conns
  /\ pool \in Pools
  /\ next \in Nat
  /\ capacity \in [Loops -> Nat \ {0}]
  /\ watch \in [Loops -> SUBSET Conns]
  /\ chanMap \in [Loops -> SUBSET Conns]
  /\ queue \in [Loops -> Seq(Functors)]
  /\ batch \in [Loops -> Seq(Functors)]
  /\ ran \in [Loops -> Nat]
  /\ pc \in [Loops -> {"poll", "dispatch", "handling", "closing", "leaving", "run",
                    "dead"}]
  /\ active \in [Loops -> SUBSET (Conns \cup {Acceptor})]
  /\ current \in [Loops -> SUBSET Conns]
  /\ held \in [Loops -> SUBSET Conns]
  /\ answered \subseteq Conns

(* A connection whose Channel a loop may still call exists: the callbacks   *)
(* are bound to a raw this, and the epoll and the active list hold raw      *)
(* pointers, so registration must end before the last reference does.       *)
CallbackOwnerAlive ==
  \A l \in Loops : \A c \in (watch[l] \cup active[l]) \ {Acceptor} : Alive(c)

(* channels_map_ of every loop and its epoll hold the same channels, each a *)
(* connection of that loop, under a descriptor no other connection has.     *)
TablesAgree ==
  \A l \in Loops :
    /\ chanMap[l] = watch[l]
    /\ \A c \in chanMap[l] :
         /\ loopOf[c] = l /\ runFlag[c]
         /\ \A d \in Conns : fd[d] = fd[c] /\ Alive(d) => d = c

(* Loop l has yet to run this functor. *)
Awaits(l, functor) ==
  \/ \E i \in DOMAIN queue[l] : queue[l][i] = functor
  \/ \E i \in DOMAIN batch[l] : i > ran[l] /\ batch[l][i] = functor

(* The server keeps track of its connections through two loops' queues:     *)
(* each that is not closed is in connection_map_; one still connecting will *)
(* be established by its own loop; and one that is closed stays in the map  *)
(* only while the base loop has its removal before it, so none is kept, nor *)
(* its descriptor, by a hand-over that was dropped.                         *)
ConnectionsTracked ==
  \A c \in Conns :
    /\ state[c] \in {"kConnecting", "kConnected"} => c \in connMap
    /\ state[c] = "kConnecting" => Awaits(loopOf[c], Functor(Established, c))
    /\ state[c] = "kDisconnected" /\ c \in connMap => Awaits(Base, Functor(Remove, c))

(* The asserts of ~Channel: when the last reference to a channel goes, on   *)
(* whichever thread, it is neither handling an event nor in a loop.         *)
ChannelDtorAsserts ==
  [][\A c \in Conns : ChannelAlive(c) /\ ~ChannelAlive(c)' => ~handling'[c] /\ ~runFlag'[c]]_vars

(* The assert of SendInLoop, which the message callback calls: a request is *)
(* read and answered only between ConnectionEstablished and HandleClose,    *)
(* also when the acceptor's thread hands the connection to another loop.    *)
AnsweredWhenConnected ==
  [][\A c \in answered' \ answered : state[c] = "kConnected"]_vars

(* What assert(!event_handling_) of ~Channel stands for: a channel is not   *)
(* destroyed before its HandleEvent has returned.                           *)
ChannelOutlivesHandleEvent ==
  \A l \in Loops : \A c \in current[l] : ChannelAlive(c)

(* A request that reaches an accepted connection is answered, unless the    *)
(* client resets it.                                                        *)
RequestAnswered ==
  \A c \in Conns : Alive(c) /\ "data" \in wire[c]
                     ~> c \in answered \/ "rst" \in wire[c] \/ Aborted

(* Once a client has sent anything, a close included, the server gives the  *)
(* descriptor back: no interleaving of the two loops leaks a connection.    *)
DescriptorReleased ==
  \A c \in Conns : Alive(c) /\ wire[c] # {} ~> ~Alive(c) \/ Aborted

(* Seen from outside, connections live as ConnectionLife says. *)
Phase(c) ==
  CASE state[c] = "none" -> "absent"
    [] state[c] # "none" /\ ~Alive(c) -> "gone"
    [] Alive(c) /\ state[c] = "kDisconnected" -> "closing"
    [] Alive(c) /\ state[c] # "kDisconnected" -> "open"

Life == INSTANCE ConnectionLife WITH phase <- [c \in Conns |-> Phase(c)],
                                     served <- answered
ImplementsConnectionLife == Life!Spec
=============================================================================
