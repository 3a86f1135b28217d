--------------------------- MODULE TcpServerProofs ---------------------------
(***************************************************************************)
(* What TcpServer promises, for any clients, descriptors, pool of loops and *)
(* interleaving of their threads, as long as no two connections get the     *)
(* same name.  (Without that hypothesis the properties are false: run       *)
(* server_names shows it.)                                                  *)
(*                                                                         *)
(* The argument: a loop may call a connection (it is in the epoll, in the   *)
(* active list, or being handled) only while state_ is kConnected, and then *)
(* connection_map_ holds it; the map loses a connection only after its      *)
(* state_ has become kDisconnected.  That order survives the trip through   *)
(* two loops' queues because of what the queues hold: a queued              *)
(* ConnectionEstablished waits alone for a kConnecting connection of that   *)
(* loop, a queued RemoveConnectionInLoop is for a kDisconnected one.  And   *)
(* one descriptor belongs to one living connection, so that what a loop     *)
(* does to channels_map_ under a descriptor is done to that connection.     *)
(*                                                                         *)
(* On that rest the theorems about the hand-overs between loops, about what *)
(* becomes of a request, and the refinement of ConnectionLife.              *)
(***************************************************************************)
EXTENDS TcpServer, WellFoundedInduction, TLAPS

-----------------------------------------------------------------------------
(* The inductive invariant.                                                *)

(* next_ is a place of the pool. *)
NextLoopInPool == pool # <<>> => next < Len(pool)

(* What the kernel holds for accept4 has no TcpConnection yet, and holds no *)
(* connection twice.                                                       *)
BacklogFresh ==
  /\ \A i \in DOMAIN backlog : state[backlog[i]] = "none"
  /\ \A i, j \in DOMAIN backlog : backlog[i] = backlog[j] => i = j

(* Outside DoPendingFunctors a loop has no batch, and outside HandleClose   *)
(* its stack holds no connection.                                           *)
StacksEmpty ==
  \A l \in Loops :
    /\ pc[l] \notin {"run", "dead"} => batch[l] = <<>> /\ ran[l] = 0
    /\ ran[l] <= Len(batch[l])
    /\ pc[l] \notin {"closing", "dead"} => held[l] = {}

(* The channel of a connection is registered exactly while state_ is        *)
(* kConnected, with the connection's own loop and in both tables of it; its *)
(* events are handled only then.                                            *)
WatchedAreConnected ==
  \A c \in Conns :
    /\ runFlag[c] <=> state[c] = "kConnected"
    /\ handling[c] => state[c] = "kConnected"
    /\ \A l \in Loops :
         /\ c \in watch[l] <=> state[c] = "kConnected" /\ loopOf[c] = l
         /\ c \in chanMap[l] <=> c \in watch[l]

(* The raw pointers a loop still follows are to registered channels, and    *)
(* the one it follows is not in the list any more: HandleClose cannot       *)
(* unregister a channel the same round of the loop would come to again.     *)
ListedAreWatched ==
  \A l \in Loops : \A c \in Conns :
    /\ c \in active[l] => c \in watch[l]
    /\ pc[l] = "handling" /\ c \in current[l] => c \in watch[l] /\ c \notin active[l]

(* What a functor that has yet to run on loop l finds. *)
Due(functor, l) ==
  IF functor.op = Established
  THEN state[functor.conn] = "kConnecting" /\ loopOf[functor.conn] = l
  ELSE state[functor.conn] = "kDisconnected"

(* Every functor that has yet to run finds it. *)
FunctorsDue ==
  \A l \in Loops :
    /\ \A i \in DOMAIN queue[l] : Due(queue[l][i], l)
    /\ \A i \in DOMAIN batch[l] : i > ran[l] => Due(batch[l][i], l)

(* No ConnectionEstablished has yet to run twice: the first would leave the *)
(* second a connection that is not kConnecting.                             *)
EstablishedOnce ==
  \A l \in Loops :
    /\ \A i, j \in DOMAIN queue[l] :
         queue[l][i] = queue[l][j] /\ queue[l][i].op = Established => i = j
    /\ \A i, j \in DOMAIN batch[l] :
         i > ran[l] /\ j > ran[l] /\ batch[l][i] = batch[l][j] /\ batch[l][i].op = Established => i = j
    /\ \A i \in DOMAIN queue[l], j \in DOMAIN batch[l] :
         j > ran[l] /\ queue[l][i] = batch[l][j] => queue[l][i].op # Established

(* connection_map_ holds every connection that is not closed. *)
MapHoldsOpen ==
  \A c \in Conns : state[c] \in {"kConnecting", "kConnected"} => c \in connMap

(* Two living connections have two descriptors. *)
FdsUnique ==
  \A c, d \in Conns : Alive(c) /\ Alive(d) /\ fd[c] = fd[d] => c = d

(* All of it. *)
Inv ==
  /\ TypeOK /\ NextLoopInPool /\ BacklogFresh /\ StacksEmpty
  /\ WatchedAreConnected /\ ListedAreWatched /\ FunctorsDue /\ EstablishedOnce
  /\ MapHoldsOpen /\ FdsUnique

-----------------------------------------------------------------------------
(* Appending a functor keeps the places of the others. *)
LEMMA AppendedPlaces ==
  ASSUME NEW S, NEW q \in Seq(S), NEW e \in S
  PROVE  /\ Append(q, e) \in Seq(S)
         /\ \A j \in DOMAIN Append(q, e) :
              \/ j \in DOMAIN q /\ Append(q, e)[j] = q[j]
              \/ j = Len(q) + 1 /\ Append(q, e)[j] = e
OBVIOUS

(* Taking the head moves the others one place on. *)
LEMMA TailPlaces ==
  ASSUME NEW S, NEW q \in Seq(S), q # <<>>
  PROVE  /\ Tail(q) \in Seq(S) /\ 1 \in DOMAIN q /\ Head(q) = q[1] /\ q[1] \in S
         /\ \A j \in DOMAIN Tail(q) :
              /\ j + 1 \in DOMAIN q /\ j + 1 # 1 /\ Tail(q)[j] = q[j + 1] /\ q[j + 1] \in S
         /\ \A i, j \in DOMAIN Tail(q) : i + 1 = j + 1 => i = j
OBVIOUS

(* The base loop is a loop, and no connection is the acceptor. *)
LEMMA BaseLoop == Base \in Loops /\ \A c \in Conns : c # Acceptor
BY ServerAssumption DEF Loops

(* What the queues hold are functors. *)
LEMMA QueuedAreFunctors ==
  ASSUME TypeOK, NEW m \in Loops
  PROVE  /\ queue[m] \in Seq(Functors) /\ batch[m] \in Seq(Functors)
         /\ \A j \in DOMAIN queue[m] : queue[m][j] \in Functors
         /\ \A j \in DOMAIN batch[m] : batch[m][j] \in Functors
<1>1. queue[m] \in Seq(Functors) /\ batch[m] \in Seq(Functors)
  BY DEF TypeOK
<1> QED BY <1>1

-----------------------------------------------------------------------------
(* Inv is inductive. *)

LEMMA InitInv == Init => Inv
<1> SUFFICES ASSUME Init PROVE Inv
  OBVIOUS
<1>1. TypeOK
  <2>1. 0 \in Nat /\ EventInitSize \in Nat \ {0} /\ pool \in Pools
    BY ServerAssumption DEF Init
  <2>2. <<>> \in Seq(Conns) /\ <<>> \in Seq(Functors)
    OBVIOUS
  <2> QED BY <2>1, <2>2 DEF Init, TypeOK
<1>2. NextLoopInPool /\ BacklogFresh
  <2>1. pool # <<>> => 0 < Len(pool)
    BY ServerAssumption DEF Init
  <2> QED BY <2>1 DEF Init, NextLoopInPool, BacklogFresh
<1>3. StacksEmpty
  BY DEF Init, StacksEmpty
<1>4. WatchedAreConnected /\ ListedAreWatched
  BY DEF Init, WatchedAreConnected, ListedAreWatched
<1>5. FunctorsDue /\ EstablishedOnce
  BY DEF Init, FunctorsDue, EstablishedOnce
<1>6. MapHoldsOpen
  BY DEF Init, MapHoldsOpen
<1>7. FdsUnique
  BY DEF Init, FdsUnique, Alive
<1> QED BY <1>1, <1>2, <1>3, <1>4, <1>5, <1>6, <1>7 DEF Inv

(* EstablishedOnce for one loop, from its queue, its batch and how many of  *)
(* the batch have run.                                                      *)
OnceIn(q, b, n) ==
  /\ \A i, j \in DOMAIN q : q[i] = q[j] /\ q[i].op = Established => i = j
  /\ \A i, j \in DOMAIN b :
       i > n /\ j > n /\ b[i] = b[j] /\ b[i].op = Established => i = j
  /\ \A i \in DOMAIN q, j \in DOMAIN b :
       j > n /\ q[i] = b[j] => q[i].op # Established

LEMMA OnceOnEach ==
  EstablishedOnce <=> \A l \in Loops : OnceIn(queue[l], batch[l], ran[l])
BY Zenon DEF EstablishedOnce, OnceIn

(* It outlives every functor that has run. *)
LEMMA OnceLater ==
  ASSUME EstablishedOnce, UNCHANGED <<queue, batch>>,
         NEW l \in Loops, batch[l] \in Seq(Functors), ran[l] \in Nat,
         ran'[l] = ran[l] + 1, \A m \in Loops \ {l} : ran'[m] = ran[m]
  PROVE  EstablishedOnce'
<1>1. \A i \in DOMAIN batch[l] : i > ran[l] + 1 => i > ran[l]
  OBVIOUS
<1>2. OnceIn(queue[l], batch[l], ran[l] + 1)
  <2>1. OnceIn(queue[l], batch[l], ran[l])
    BY OnceOnEach
  <2> QED BY <1>1, <2>1, Zenon DEF OnceIn
<1>3. \A m \in Loops : OnceIn(queue[m], batch[m], ran'[m])
  BY <1>2, OnceOnEach
<1> QED BY <1>3 DEF EstablishedOnce, OnceIn

(* What decides whether connections exist. *)
holders == <<state, connMap, queue, batch, held>>

(* While the holders are the same, so are the connections that exist. *)
LEMMA SameHolders ==
  ASSUME UNCHANGED holders
  PROVE  \A c \in Conns : Alive(c)' = Alive(c)
  BY DEF holders, Alive, Referenced

(* What a step of the kernel, of epoll_wait or of HandleEvent leaves alone. *)
settled == <<holders, fd, loopOf, runFlag, pool, next, watch, chanMap, ran>>

(* Such a step keeps Inv when it respects the backlog and the active lists. *)
LEMMA QuietStep ==
  ASSUME Inv, UNCHANGED settled,
         TypeOK', BacklogFresh', ListedAreWatched',
         \A c \in Conns : handling'[c] => handling[c] \/ state[c] = "kConnected",
         \A l \in Loops : pc'[l] = pc[l] \/ pc'[l] = "dead"
                           \/ (pc[l] \notin {"run", "closing", "dead"}
                               /\ pc'[l] \notin {"run", "closing", "dead"})
  PROVE  Inv'
<1> USE DEF settled, holders
<1>1. NextLoopInPool'
  BY DEF Inv, NextLoopInPool
<1>2. StacksEmpty'
  BY DEF Inv, StacksEmpty
<1>3. WatchedAreConnected'
  BY DEF Inv, WatchedAreConnected
<1>4. FunctorsDue'
  BY DEF Inv, FunctorsDue, Due
<1>5. EstablishedOnce'
  BY DEF Inv, EstablishedOnce
<1>6. MapHoldsOpen'
  BY DEF Inv, MapHoldsOpen
<1>7. FdsUnique'
  BY SameHolders DEF Inv, FdsUnique
<1> QED BY <1>1, <1>2, <1>3, <1>4, <1>5, <1>6, <1>7 DEF Inv

(* Connect and ClientSends. *)
LEMMA ClientKeepsInv ==
  ASSUME Inv, Client
  PROVE  Inv'
<1> USE DEF kernel, conn, tables, thread
<1>1. UNCHANGED <<settled, handling, pc, active, current>>
  BY DEF Client, Connect, ClientSends, settled, holders
<1>2. TypeOK' /\ BacklogFresh'
  <2>1. ASSUME NEW c \in Conns, Connect(c) PROVE TypeOK' /\ BacklogFresh'
    <3>1. TypeOK'
      BY <2>1 DEF Inv, TypeOK, Connect
    <3>2. BacklogFresh'
      <4>1. backlog \in Seq(Conns) /\ backlog' = Append(backlog, c) /\ ~InBacklog(c)
            /\ state[c] = "none" /\ state' = state
        BY <2>1 DEF Inv, TypeOK, Connect
      <4> QED BY <4>1 DEF Inv, BacklogFresh, InBacklog
    <3> QED BY <3>1, <3>2
  <2>2. ASSUME NEW c \in Conns, NEW what \in {"data", "fin", "rst"}, ClientSends(c, what)
        PROVE  TypeOK' /\ BacklogFresh'
    BY <2>2 DEF Inv, TypeOK, BacklogFresh, ClientSends
  <2> QED BY <2>1, <2>2 DEF Client
<1>3. ListedAreWatched'
  BY <1>1 DEF Inv, ListedAreWatched, settled
<1> QED BY <1>1, <1>2, <1>3, QuietStep

(* Accepting without a descriptor makes no connection. *)
LEMMA RefuseKeepsInv ==
  ASSUME Inv, RefuseConnection
  PROVE  Inv'
<1> USE DEF kernel, conn, tables, thread
<1>1. UNCHANGED <<settled, handling, pc, current>>
  BY DEF RefuseConnection, settled, holders
<1>0. /\ backlog \in Seq(Conns) /\ backlog # <<>> /\ backlog' = Tail(backlog)
      /\ refused' = refused \cup {Head(backlog)} /\ state' = state
      /\ active' = [active EXCEPT ![Base] = @ \ {Acceptor}]
      /\ UNCHANGED <<wire, conn, tables, queue, batch, ran, pc, current, held, answered>>
  BY DEF Inv, TypeOK, RefuseConnection
<1>2. TypeOK'
  <2>1. backlog' \in Seq(Conns) /\ Head(backlog) \in Conns
    BY <1>0, TailPlaces
  <2>2. active' \in [Loops -> SUBSET (Conns \cup {Acceptor})]
    BY <1>0, BaseLoop DEF Inv, TypeOK
  <2>3. refused' \subseteq Conns
    BY <1>0, <2>1 DEF Inv, TypeOK
  <2> QED BY <1>0, <2>1, <2>2, <2>3 DEF Inv, TypeOK
<1>3. BacklogFresh'
  <2>1. /\ \A j \in DOMAIN Tail(backlog) :
             j + 1 \in DOMAIN backlog /\ Tail(backlog)[j] = backlog[j + 1]
        /\ \A i, j \in DOMAIN Tail(backlog) : i + 1 = j + 1 => i = j
    BY <1>0, TailPlaces
  <2>2. ASSUME NEW i \in DOMAIN backlog'
        PROVE  i + 1 \in DOMAIN backlog /\ backlog'[i] = backlog[i + 1]
    BY <1>0, <2>1
  <2>3. ASSUME NEW i \in DOMAIN backlog', NEW j \in DOMAIN backlog', backlog'[i] = backlog'[j]
        PROVE  i = j
    <3>1. i + 1 = j + 1
      BY <2>2, <2>3 DEF Inv, BacklogFresh
    <3> QED BY <1>0, <2>1, <3>1
  <2>4. \A i \in DOMAIN backlog' : state'[backlog'[i]] = "none"
    BY <1>0, <2>2 DEF Inv, BacklogFresh
  <2> QED BY <2>3, <2>4 DEF BacklogFresh
<1>4. ListedAreWatched'
  BY <1>1 DEF Inv, TypeOK, ListedAreWatched, settled, RefuseConnection
<1> QED BY <1>1, <1>2, <1>3, <1>4, QuietStep

(* epoll_wait lists registered channels only. *)
LEMMA PollKeepsInv ==
  ASSUME Inv, NEW l \in Loops, Poll(l)
  PROVE  Inv'
<1> USE DEF kernel, conn, tables, thread
<1>1. UNCHANGED <<settled, backlog, handling, current>>
      /\ pc[l] = "poll" /\ pc' = [pc EXCEPT ![l] = "dispatch"]
  BY DEF Poll, settled, holders
<1>2. PICK some \in SUBSET Ready(l) :
        /\ active' = [active EXCEPT ![l] = some]
        /\ trigger' = [c \in Conns |-> IF c \in some THEN EventsOf(c) ELSE trigger[c]]
  BY DEF Poll
<1>3. some \subseteq watch[l] \cup {Acceptor} /\ watch[l] \subseteq Conns
  BY DEF Ready, Inv, TypeOK
<1>4. TypeOK'
  <2>1. trigger' \in [Conns -> SUBSET {"EPOLLIN", "EPOLLERR"}]
    BY <1>2 DEF Inv, TypeOK, EventsOf
  <2>2. capacity' \in [Loops -> Nat \ {0}]
    <3>1. capacity' = capacity \/ capacity' = [capacity EXCEPT ![l] = @ * 2]
      BY DEF Poll
    <3>2. capacity \in [Loops -> Nat \ {0}]
      BY DEF Inv, TypeOK
    <3> QED BY <3>1, <3>2
  <2>3. active' \in [Loops -> SUBSET (Conns \cup {Acceptor})]
    BY <1>2, <1>3 DEF Inv, TypeOK
  <2>4. pc' \in [Loops -> {"poll", "dispatch", "handling", "closing", "leaving", "run",
                    "dead"}]
    BY <1>1 DEF Inv, TypeOK
  <2>5. UNCHANGED <<kernel, state, fd, loopOf, runFlag, handling, connMap, pool, next,
                    watch, chanMap, queue, batch, ran, current, held, answered>>
    BY DEF Poll
  <2> HIDE DEF Inv
  <2>6. TypeOK
    BY DEF Inv
  <2> QED BY <2>1, <2>2, <2>3, <2>4, <2>5, <2>6 DEF TypeOK
<1>5. BacklogFresh'
  BY <1>1 DEF Inv, BacklogFresh, settled, holders
<1>6. ListedAreWatched'
  <2>1. /\ active'[l] = some /\ pc'[l] = "dispatch"
        /\ \A m \in Loops \ {l} : active'[m] = active[m] /\ pc'[m] = pc[m]
    BY <1>1, <1>2 DEF Inv, TypeOK
  <2>2. watch' = watch /\ current' = current
    BY <1>1 DEF settled
  <2>3. \A c \in Conns : c \in some => c \in watch[l]
    BY <1>3, BaseLoop
  <2> QED BY <2>1, <2>2, <2>3 DEF Inv, ListedAreWatched
<1>7. \A m \in Loops : pc'[m] = pc[m] \/ (m = l /\ pc'[m] = "dispatch")
  BY <1>1 DEF Inv, TypeOK
<1> QED BY <1>1, <1>4, <1>5, <1>6, <1>7, QuietStep

(* The channel whose events are handled is registered, and leaves the list. *)
LEMMA BeginEventKeepsInv ==
  ASSUME Inv, NEW l \in Loops, NEW c \in Conns, BeginEvent(l, c)
  PROVE  Inv'
<1> USE DEF kernel, conn, tables, thread
<1>1. UNCHANGED <<settled, backlog>>
  BY DEF BeginEvent, settled, holders
<1>2. c \in watch[l] /\ state[c] = "kConnected"
  BY DEF BeginEvent, Inv, ListedAreWatched, WatchedAreConnected
<1>3. TypeOK'
  <2> HIDE DEF Inv
  <2>1. TypeOK
    BY DEF Inv
  <2>2. handling' \in [Conns -> BOOLEAN]
    BY <2>1 DEF TypeOK, BeginEvent
  <2>3. active' \in [Loops -> SUBSET (Conns \cup {Acceptor})]
        /\ current' \in [Loops -> SUBSET Conns]
    BY <2>1 DEF TypeOK, BeginEvent
  <2>4. pc' \in [Loops -> {"poll", "dispatch", "handling", "closing", "leaving", "run",
                    "dead"}]
    BY <2>1 DEF TypeOK, BeginEvent
  <2> QED BY <1>1, <2>1, <2>2, <2>3, <2>4 DEF TypeOK, BeginEvent
<1>4. BacklogFresh'
  BY <1>1 DEF Inv, BacklogFresh, settled, holders
<1>5. ListedAreWatched'
  BY <1>1, <1>2 DEF Inv, TypeOK, ListedAreWatched, settled, BeginEvent
<1>6. \A d \in Conns : handling'[d] => handling[d] \/ state[d] = "kConnected"
  BY <1>2 DEF Inv, TypeOK, BeginEvent
<1>7. \A m \in Loops : pc'[m] = pc[m] \/ (m = l /\ pc[m] = "dispatch" /\ pc'[m] = "handling")
  BY DEF Inv, TypeOK, BeginEvent
<1> QED BY <1>1, <1>3, <1>4, <1>5, <1>6, <1>7, QuietStep

(* The end of HandleEvent. *)
LEMMA EndEventKeepsInv ==
  ASSUME Inv, NEW l \in Loops, NEW c \in Conns, EndEvent(l, c)
  PROVE  Inv'
<1> USE DEF kernel, conn, tables, thread
<1>1. UNCHANGED <<settled, backlog, active>>
  BY DEF EndEvent, settled, holders
<1>2. TypeOK'
  BY DEF Inv, TypeOK, EndEvent
<1>3. BacklogFresh'
  BY <1>1 DEF Inv, BacklogFresh, settled, holders
<1>4. ListedAreWatched'
  BY <1>1 DEF Inv, TypeOK, ListedAreWatched, settled, EndEvent
<1>5. \A d \in Conns : handling'[d] => handling[d]
  BY DEF Inv, TypeOK, EndEvent
<1>6. \A m \in Loops : pc'[m] = pc[m] \/ (m = l /\ pc[m] = "leaving" /\ pc'[m] = "dispatch")
  BY DEF Inv, TypeOK, EndEvent
<1> QED BY <1>1, <1>2, <1>3, <1>4, <1>5, <1>6, QuietStep

(* HandleEvent goes on in a channel destroyed under it, as it does when     *)
(* HandleClose dropped the last reference: whatever that does to the loop's *)
(* control flow, the tables stay right.                                     *)
LEMMA UseDestroyedKeepsInv ==
  ASSUME Inv, NEW l \in Loops, NEW c \in Conns, UseDestroyed(l, c)
  PROVE  Inv'
<1> USE DEF kernel, conn, tables, thread
<1>1. UNCHANGED <<settled, backlog, active, handling>>
  BY DEF UseDestroyed, settled, holders
<1>2. pc[l] \in {"handling", "leaving"}
      /\ pc' \in {[pc EXCEPT ![l] = "dispatch"], [m \in Loops |-> "dead"]}
      /\ current' = [current EXCEPT ![l] = {}]
  BY DEF UseDestroyed, Dangling
<1>3. TypeOK'
  BY <1>1, <1>2 DEF Inv, TypeOK, UseDestroyed
<1>4. BacklogFresh'
  BY <1>1 DEF Inv, BacklogFresh, settled, holders
<1>5. \A m \in Loops : pc'[m] = pc[m] \/ pc'[m] = "dead" \/ (m = l /\ pc'[m] = "dispatch")
  BY <1>2 DEF Inv, TypeOK
<1>6. ListedAreWatched'
  BY <1>1, <1>2, <1>5 DEF Inv, TypeOK, ListedAreWatched, settled
<1> QED BY <1>1, <1>2, <1>3, <1>4, <1>5, <1>6, QuietStep

(* A connection that is connecting or connected exists: the map holds it. *)
LEMMA WatchedAreAlive ==
  ASSUME Inv, NEW c \in Conns, state[c] \in {"kConnecting", "kConnected"}
  PROVE  Alive(c) /\ c \in connMap
  BY DEF Inv, MapHoldsOpen, Alive, Referenced

(* The references of HandleClose's stack go. *)
LEMMA DropReferencesKeepsInv ==
  ASSUME Inv, NEW l \in Loops, DropReferences(l)
  PROVE  Inv'
<1> USE DEF kernel, conn, tables, thread
<1>1. TypeOK'
  BY DEF Inv, TypeOK, DropReferences
<1>2. NextLoopInPool' /\ BacklogFresh'
  BY DEF Inv, NextLoopInPool, BacklogFresh, DropReferences
<1>3. StacksEmpty'
  BY DEF Inv, TypeOK, StacksEmpty, DropReferences
<1>4. WatchedAreConnected' /\ ListedAreWatched'
  BY DEF Inv, TypeOK, WatchedAreConnected, ListedAreWatched, DropReferences
<1>5. FunctorsDue'
  BY DEF Inv, FunctorsDue, Due, DropReferences
<1>6. EstablishedOnce'
  BY DEF Inv, EstablishedOnce, DropReferences
<1>7. MapHoldsOpen'
  BY DEF Inv, MapHoldsOpen, DropReferences
<1>8. \A c \in Conns : Alive(c)' => Alive(c)
  BY DEF Inv, TypeOK, Alive, Referenced, DropReferences
<1>9. FdsUnique'
  BY <1>8 DEF Inv, FdsUnique, DropReferences
<1> QED BY <1>1, <1>2, <1>3, <1>4, <1>5, <1>6, <1>7, <1>9 DEF Inv

(* The queue becomes the batch. *)
LEMMA SwapFunctorsKeepsInv ==
  ASSUME Inv, NEW l \in Loops, SwapFunctors(l)
  PROVE  Inv'
<1> USE DEF kernel, conn, tables, thread
<1>1. batch[l] = <<>> /\ ran[l] = 0 /\ held[l] = {} /\ pc[l] = "dispatch"
  BY DEF SwapFunctors, Inv, StacksEmpty
<1>2. /\ batch' = [batch EXCEPT ![l] = queue[l]] /\ queue' = [queue EXCEPT ![l] = <<>>]
      /\ pc' = [pc EXCEPT ![l] = "run"]
      /\ UNCHANGED <<kernel, conn, tables, ran, active, current, held, answered>>
  BY DEF SwapFunctors
<1>3. /\ batch'[l] = queue[l] /\ queue'[l] = <<>> /\ pc'[l] = "run"
      /\ \A m \in Loops \ {l} : batch'[m] = batch[m] /\ queue'[m] = queue[m] /\ pc'[m] = pc[m]
  BY <1>2 DEF Inv, TypeOK
<1>4. TypeOK'
  BY <1>2 DEF Inv, TypeOK
<1>5. NextLoopInPool' /\ BacklogFresh'
  BY <1>2 DEF Inv, NextLoopInPool, BacklogFresh
<1>6. StacksEmpty'
  BY <1>1, <1>2, <1>3 DEF Inv, TypeOK, StacksEmpty
<1>7. WatchedAreConnected' /\ ListedAreWatched'
  BY <1>2, <1>3 DEF Inv, TypeOK, WatchedAreConnected, ListedAreWatched
<1>8. FunctorsDue'
  <2>1. \A functor, m : Due(functor, m)' <=> Due(functor, m)
    BY <1>2 DEF Due
  <2>2. ASSUME NEW m \in Loops
        PROVE  /\ \A i \in DOMAIN queue'[m] : Due(queue'[m][i], m)
               /\ \A i \in DOMAIN batch'[m] : i > ran[m] => Due(batch'[m][i], m)
    <3>1. CASE m = l
      <4>1. DOMAIN queue'[l] = {}
        BY <1>3
      <4> QED BY <1>3, <3>1, <4>1, Zenon DEF Inv, FunctorsDue
    <3>2. CASE m # l
      BY <1>3, <3>2 DEF Inv, FunctorsDue
    <3> QED BY <3>1, <3>2
  <2> QED BY <1>2, <2>1, <2>2, Zenon DEF FunctorsDue
<1>9. EstablishedOnce'
  <2>1. ASSUME NEW m \in Loops
        PROVE  OnceIn(queue'[m], batch'[m], ran[m])
    <3>1. OnceIn(queue[m], batch[m], ran[m])
      BY OnceOnEach DEF Inv
    <3>2. CASE m = l
      <4>1. DOMAIN queue'[l] = {}
        BY <1>3
      <4>2. \A i, j \in DOMAIN queue[l] :
              queue[l][i] = queue[l][j] /\ queue[l][i].op = Established => i = j
        BY <3>1, <3>2 DEF OnceIn
      <4> QED BY <1>3, <3>2, <4>1, <4>2 DEF OnceIn
    <3>3. CASE m # l
      BY <1>3, <3>1, <3>3
    <3> QED BY <3>2, <3>3
  <2> QED BY <1>2, <2>1, Zenon DEF EstablishedOnce, OnceIn
<1>10. MapHoldsOpen'
  BY <1>2 DEF Inv, MapHoldsOpen
<1>11. \A c \in Conns : Alive(c)' => Alive(c)
  BY <1>2, <1>3 DEF Alive, Referenced, Bound
<1>12. FdsUnique'
  BY <1>2, <1>11 DEF Inv, FdsUnique
<1> QED BY <1>4, <1>5, <1>6, <1>7, <1>8, <1>9, <1>10, <1>12 DEF Inv

(* The batch is destroyed, all of it run. *)
LEMMA EndBatchKeepsInv ==
  ASSUME Inv, NEW l \in Loops, EndBatch(l)
  PROVE  Inv'
<1> USE DEF kernel, conn, tables, thread
<1>1. /\ batch' = [batch EXCEPT ![l] = <<>>] /\ ran' = [ran EXCEPT ![l] = 0]
      /\ pc' = [pc EXCEPT ![l] = "poll"] /\ pc[l] = "run"
      /\ UNCHANGED <<kernel, conn, tables, queue, active, current, held, answered>>
  BY DEF EndBatch
<1>2. /\ batch'[l] = <<>> /\ ran'[l] = 0 /\ pc'[l] = "poll"
      /\ \A m \in Loops \ {l} : batch'[m] = batch[m] /\ ran'[m] = ran[m] /\ pc'[m] = pc[m]
  BY <1>1 DEF Inv, TypeOK
<1>3. TypeOK'
  BY <1>1 DEF Inv, TypeOK
<1>4. NextLoopInPool' /\ BacklogFresh'
  BY <1>1 DEF Inv, NextLoopInPool, BacklogFresh
<1>5. StacksEmpty'
  <2>1. Len(batch'[l]) = 0
    BY <1>2
  <2> QED BY <1>1, <1>2, <2>1 DEF Inv, StacksEmpty
<1>6. WatchedAreConnected' /\ ListedAreWatched'
  BY <1>1, <1>2 DEF Inv, TypeOK, WatchedAreConnected, ListedAreWatched
<1>7. FunctorsDue'
  BY <1>1, <1>2 DEF Inv, TypeOK, FunctorsDue, Due
<1>8. EstablishedOnce'
  BY <1>1, <1>2 DEF Inv, TypeOK, EstablishedOnce
<1>9. MapHoldsOpen'
  BY <1>1 DEF Inv, MapHoldsOpen
<1>10. \A c \in Conns : Alive(c)' => Alive(c)
  BY <1>1, <1>2 DEF Alive, Referenced, Bound
<1>11. FdsUnique'
  BY <1>1, <1>10 DEF Inv, FdsUnique
<1> QED BY <1>3, <1>4, <1>5, <1>6, <1>7, <1>8, <1>9, <1>11 DEF Inv

(* ConnectionEstablished on a descriptor no other living connection has     *)
(* overwrites no entry of channels_map_.                                    *)
LEMMA RegisterOnly ==
  ASSUME Inv, NEW l \in Loops, NEW c \in Conns, NEW f,
         ConnectionEstablished(l, c, f),
         \A d \in Conns : Alive(d) /\ fd[d] = f => d = c
  PROVE  /\ state' = [state EXCEPT ![c] = "kConnected"]
         /\ runFlag' = [runFlag EXCEPT ![c] = TRUE]
         /\ watch' = [watch EXCEPT ![l] = @ \cup {c}]
         /\ chanMap' = [chanMap EXCEPT ![l] = @ \cup {c}]
<1>1. \A d \in chanMap[l] : d \in Conns /\ Alive(d)
  <2>1. chanMap[l] \subseteq Conns
    BY DEF Inv, TypeOK
  <2> QED BY <2>1, WatchedAreAlive DEF Inv, WatchedAreConnected
<1>2. {d \in chanMap[l] : fd[d] # f} \cup {c} = chanMap[l] \cup {c}
  BY <1>1
<1> QED BY <1>2 DEF ConnectionEstablished

(* A queued ConnectionEstablished runs: its connection is still connecting, *)
(* and no other functor waits for it.                                       *)
LEMMA RunEstablishedKeepsInv ==
  ASSUME Inv, NEW l \in Loops, RunFunctor(l),
         batch[l][ran[l] + 1].op = Established
  PROVE  Inv'
<1> DEFINE i == ran[l] + 1
           c == batch[l][i].conn
<1> USE DEF kernel, conn, tables, thread
<1>1. /\ batch[l] \in Seq(Functors) /\ ran[l] \in Nat /\ i \in DOMAIN batch[l] /\ i > ran[l]
      /\ pc[l] = "run"
  BY DEF RunFunctor, Inv, TypeOK
<1>2. batch[l][i] \in Functors /\ c \in Conns /\ batch[l][i].op = Established
  <2>1. batch[l][i] \in Functors
    BY <1>1
  <2> QED BY <2>1 DEF Functors
<1>3. state[c] = "kConnecting" /\ loopOf[c] = l
  BY <1>1 DEF Inv, FunctorsDue, Due
<1>4. Alive(c) /\ c \in connMap
  BY <1>2, <1>3, WatchedAreAlive
<1>5. /\ ConnectionEstablished(l, c, fd[c]) /\ UNCHANGED connMap
      /\ ran' = [ran EXCEPT ![l] = i]
      /\ UNCHANGED <<kernel, fd, loopOf, handling, trigger, pool, next, capacity, queue,
                     batch, pc, active, current, held, answered>>
  BY DEF RunFunctor, Established, Remove
<1> HIDE DEF c, i
<1>6. /\ state' = [state EXCEPT ![c] = "kConnected"]
      /\ runFlag' = [runFlag EXCEPT ![c] = TRUE]
      /\ watch' = [watch EXCEPT ![l] = @ \cup {c}]
      /\ chanMap' = [chanMap EXCEPT ![l] = @ \cup {c}]
  <2>1. \A d \in Conns : Alive(d) /\ fd[d] = fd[c] => d = c
    BY <1>2, <1>4 DEF Inv, FdsUnique
  <2> QED BY <1>2, <1>5, <2>1, RegisterOnly
<1>7. /\ state'[c] = "kConnected" /\ runFlag'[c]
      /\ \A d \in Conns \ {c} : state'[d] = state[d] /\ runFlag'[d] = runFlag[d]
      /\ watch'[l] = watch[l] \cup {c} /\ chanMap'[l] = chanMap[l] \cup {c}
      /\ \A m \in Loops \ {l} : watch'[m] = watch[m] /\ chanMap'[m] = chanMap[m]
      /\ ran'[l] = i /\ \A m \in Loops \ {l} : ran'[m] = ran[m]
  BY <1>2, <1>5, <1>6 DEF Inv, TypeOK
<1>8. TypeOK'
  <2> HIDE DEF Inv
  <2>1. TypeOK /\ i \in Nat
    BY <1>1 DEF Inv, i
  <2>2. state' \in [Conns -> {"none", "kConnecting", "kConnected", "kDisconnected"}]
        /\ runFlag' \in [Conns -> BOOLEAN]
    BY <1>6, <2>1 DEF TypeOK
  <2>3. watch' \in [Loops -> SUBSET Conns] /\ chanMap' \in [Loops -> SUBSET Conns]
    <3>1. watch \in [Loops -> SUBSET Conns] /\ chanMap \in [Loops -> SUBSET Conns]
      BY <2>1 DEF TypeOK
    <3> QED BY <1>2, <1>6, <3>1
  <2>4. ran' \in [Loops -> Nat]
    BY <1>5, <2>1 DEF TypeOK
  <2> QED BY <1>5, <2>1, <2>2, <2>3, <2>4 DEF TypeOK
<1>9. NextLoopInPool' /\ BacklogFresh'
  <2>1. \A j \in DOMAIN backlog : backlog[j] # c /\ backlog[j] \in Conns
    BY <1>3 DEF Inv, TypeOK, BacklogFresh
  <2> QED BY <1>5, <1>7, <2>1 DEF Inv, NextLoopInPool, BacklogFresh
<1>10. StacksEmpty'
  <2>1. ran'[l] <= Len(batch[l])
    BY <1>1, <1>7
  <2> QED BY <1>1, <1>5, <1>7, <2>1 DEF Inv, StacksEmpty
<1>11. WatchedAreConnected' /\ ListedAreWatched'
  <2>1. ListedAreWatched'
    <3> SUFFICES ASSUME NEW m \in Loops, NEW d \in Conns
                 PROVE  /\ d \in active[m] => d \in watch'[m]
                        /\ pc[m] = "handling" /\ d \in current[m]
                           => d \in watch'[m] /\ d \notin active[m]
      BY <1>5 DEF ListedAreWatched
    <3>1. d \in watch[m] => d \in watch'[m]
      BY <1>7
    <3> QED BY <3>1 DEF Inv, ListedAreWatched
  <2>2. WatchedAreConnected'
    <3> SUFFICES ASSUME NEW d \in Conns
                 PROVE  /\ runFlag'[d] <=> state'[d] = "kConnected"
                        /\ handling[d] => state'[d] = "kConnected"
                        /\ \A m \in Loops :
                             /\ d \in watch'[m] <=> state'[d] = "kConnected" /\ loopOf[d] = m
                             /\ d \in chanMap'[m] <=> d \in watch'[m]
      BY <1>5 DEF WatchedAreConnected
    <3>1. CASE d = c
      BY <1>2, <1>3, <1>7, <3>1 DEF Inv, WatchedAreConnected
    <3>2. CASE d # c
      BY <1>7, <3>2 DEF Inv, WatchedAreConnected
    <3> QED BY <3>1, <3>2
  <2> QED BY <2>1, <2>2
<1>12. FunctorsDue'
  <2>1. \A g \in Functors, m \in Loops :
          Due(g, m) /\ ~(g = batch[l][i] /\ m = l) => Due(g, m)'
    <3> SUFFICES ASSUME NEW g \in Functors, NEW m \in Loops, Due(g, m),
                        ~(g = batch[l][i] /\ m = l)
                 PROVE  Due(g, m)'
      OBVIOUS
    <3>1. g.conn \in Conns /\ (g.op = batch[l][i].op /\ g.conn = c => g = batch[l][i])
      BY <1>2 DEF Functors, c
    <3>2. CASE g.conn = c
      BY <1>2, <1>3, <3>1, <3>2 DEF Due, Functors, Established, Remove
    <3>3. CASE g.conn # c
      BY <1>5, <1>7, <3>1, <3>3 DEF Due
    <3> QED BY <3>2, <3>3
  <2>2. \A m \in Loops : /\ \A j \in DOMAIN queue[m] : queue[m][j] \in Functors
                         /\ \A j \in DOMAIN batch[m] : batch[m][j] \in Functors
    BY QueuedAreFunctors DEF Inv
  <2>3. \A j \in DOMAIN queue[l] : queue[l][j] # batch[l][i]
    <3>1. \A j \in DOMAIN queue[l], k \in DOMAIN batch[l] :
            k > ran[l] /\ queue[l][j] = batch[l][k] => queue[l][j].op # Established
      BY DEF Inv, EstablishedOnce
    <3> QED BY <1>1, <1>2, <3>1
  <2>4. \A j \in DOMAIN batch[l] : j > i => batch[l][j] # batch[l][i] /\ j > ran[l]
    BY <1>1, <1>2 DEF Inv, EstablishedOnce, i
  <2> QED BY <1>5, <1>7, <2>1, <2>2, <2>3, <2>4 DEF Inv, FunctorsDue
<1>13. EstablishedOnce'
  BY <1>1, <1>5, <1>7, OnceLater DEF Inv, i
<1>14. MapHoldsOpen'
  BY <1>4, <1>5, <1>7 DEF Inv, MapHoldsOpen
<1>15. \A d \in Conns : Alive(d)' => Alive(d)
  BY <1>3, <1>5, <1>7 DEF Alive, Referenced
<1>16. FdsUnique'
  BY <1>5, <1>15 DEF Inv, FdsUnique
<1> QED BY <1>8, <1>9, <1>10, <1>11, <1>12, <1>13, <1>14, <1>16 DEF Inv

(* With distinct names, erasing a name erases its connection and no other. *)
LEMMA EraseOnly ==
  ASSUME DistinctNames, Inv, NEW c \in Conns, EraseFromMap(c)
  PROVE  connMap' = connMap \ {c}
  BY DEF EraseFromMap, DistinctNames, Inv, TypeOK

(* A queued RemoveConnectionInLoop runs: the connection it takes from the   *)
(* map is closed.                                                           *)
LEMMA RunRemoveKeepsInv ==
  ASSUME DistinctNames, Inv, NEW l \in Loops, RunFunctor(l),
         batch[l][ran[l] + 1].op = Remove
  PROVE  Inv'
<1> DEFINE i == ran[l] + 1
           c == batch[l][i].conn
<1> USE DEF kernel, conn, tables, thread
<1>1. /\ batch[l] \in Seq(Functors) /\ ran[l] \in Nat /\ i \in DOMAIN batch[l] /\ i > ran[l]
      /\ pc[l] = "run"
  BY DEF RunFunctor, Inv, TypeOK
<1>2. batch[l][i] \in Functors /\ c \in Conns
  <2>1. batch[l][i] \in Functors
    BY <1>1
  <2> QED BY <2>1 DEF Functors
<1>3. state[c] = "kDisconnected"
  BY <1>1 DEF Inv, FunctorsDue, Due, Remove, Established
<1>4. /\ EraseFromMap(c)
      /\ ran' = [ran EXCEPT ![l] = i]
      /\ UNCHANGED <<state, runFlag, watch, chanMap>>
      /\ UNCHANGED <<kernel, fd, loopOf, handling, trigger, pool, next, capacity, queue,
                     batch, pc, active, current, held, answered>>
  BY DEF RunFunctor, Established, Remove
<1> HIDE DEF c, i
<1>5. connMap' = connMap \ {c}
  BY <1>2, <1>4, EraseOnly
<1>6. ran'[l] = i /\ \A m \in Loops \ {l} : ran'[m] = ran[m]
  BY <1>4 DEF Inv, TypeOK
<1>7. TypeOK'
  <2> HIDE DEF Inv
  <2>1. TypeOK /\ i \in Nat
    BY <1>1 DEF Inv, i
  <2>2. ran' \in [Loops -> Nat]
    BY <1>4, <2>1 DEF TypeOK
  <2>3. connMap' \subseteq Conns
    BY <1>5, <2>1 DEF TypeOK
  <2> QED BY <1>4, <2>1, <2>2, <2>3 DEF TypeOK
<1>8. NextLoopInPool' /\ BacklogFresh'
  BY <1>4 DEF Inv, NextLoopInPool, BacklogFresh
<1>9. StacksEmpty'
  <2>1. ran'[l] <= Len(batch[l])
    BY <1>1, <1>6
  <2> QED BY <1>1, <1>4, <1>6, <2>1 DEF Inv, StacksEmpty
<1>10. WatchedAreConnected' /\ ListedAreWatched'
  BY <1>4 DEF Inv, WatchedAreConnected, ListedAreWatched
<1>11. FunctorsDue'
  <2>1. \A functor, m : Due(functor, m)' <=> Due(functor, m)
    BY <1>4 DEF Due
  <2>2. \A j \in DOMAIN batch[l] : j > ran'[l] => j > ran[l]
    BY <1>1, <1>6 DEF i
  <2> QED BY <1>4, <1>6, <2>1, <2>2 DEF Inv, FunctorsDue
<1>12. EstablishedOnce'
  BY <1>1, <1>4, <1>6, OnceLater DEF Inv, i
<1>13. MapHoldsOpen'
  BY <1>3, <1>4, <1>5 DEF Inv, MapHoldsOpen
<1>14. \A d \in Conns : Alive(d)' => Alive(d)
  BY <1>4, <1>5 DEF Alive, Referenced
<1>15. FdsUnique'
  BY <1>4, <1>14 DEF Inv, FdsUnique
<1> QED BY <1>7, <1>8, <1>9, <1>10, <1>11, <1>12, <1>13, <1>15 DEF Inv

(* HandleClose unregisters the channel before anybody forgets the           *)
(* connection, on the loop that owns it.                                    *)
LEMMA HandleCloseKeepsInv ==
  ASSUME DistinctNames, Inv, NEW l \in Loops, NEW c \in Conns, Handling(l, c),
         HandleClose(l, c), wire' \in [Conns -> SUBSET {"data", "fin", "rst"}],
         answered' \subseteq Conns
  PROVE  Inv'
<1> USE DEF kernel, conn, tables, thread
<1>1. /\ Alive(c) /\ c \in watch[l] /\ c \notin active[l] /\ pc[l] = "handling"
      /\ state[c] = "kConnected" /\ loopOf[c] = l /\ c \in connMap
      /\ batch[l] = <<>> /\ ran[l] = 0 /\ held[l] = {}
  BY DEF Handling, Inv, ListedAreWatched, WatchedAreConnected, StacksEmpty, MapHoldsOpen
<1>2. /\ state' = [state EXCEPT ![c] = "kDisconnected"]
      /\ handling' = [handling EXCEPT ![c] = FALSE]
      /\ runFlag' = [runFlag EXCEPT ![c] = FALSE]
      /\ watch' = [watch EXCEPT ![l] = @ \ {c}]
      /\ held' = [held EXCEPT ![l] = {c}]
      /\ pc' = [pc EXCEPT ![l] = "closing"]
      /\ UNCHANGED <<backlog, refused, fd, loopOf, trigger, pool, next, capacity, batch,
                     ran, active, current>>
  BY DEF HandleClose, SetDisconnected, RemoveChannel
<1>3. chanMap' = [chanMap EXCEPT ![l] = @ \ {c}]
  <2>1. chanMap[l] \subseteq Conns
    BY DEF Inv, TypeOK
  <2>2. \A d \in chanMap[l] : Alive(d)
    BY <2>1, WatchedAreAlive DEF Inv, WatchedAreConnected
  <2>3. {d \in chanMap[l] : fd[d] # fd[c]} = chanMap[l] \ {c}
    BY <1>1, <2>1, <2>2 DEF Inv, FdsUnique
  <2> QED BY <2>3 DEF HandleClose, RemoveChannel
<1>4. \/ connMap' = connMap \ {c} /\ UNCHANGED queue
      \/ /\ UNCHANGED connMap
         /\ queue' = [queue EXCEPT ![Base] = Append(@, Functor(Remove, c))]
  BY EraseOnly DEF HandleClose, RemoveConnection
<1>5. /\ state'[c] = "kDisconnected" /\ ~runFlag'[c] /\ ~handling'[c]
      /\ \A d \in Conns \ {c} : state'[d] = state[d] /\ runFlag'[d] = runFlag[d]
                                /\ handling'[d] = handling[d]
      /\ watch'[l] = watch[l] \ {c} /\ chanMap'[l] = chanMap[l] \ {c}
      /\ held'[l] = {c} /\ pc'[l] = "closing"
      /\ \A m \in Loops \ {l} : watch'[m] = watch[m] /\ chanMap'[m] = chanMap[m]
                                /\ held'[m] = held[m] /\ pc'[m] = pc[m]
  BY <1>2, <1>3 DEF Inv, TypeOK
<1>6. \A d \in connMap : d # c => d \in connMap'
  BY <1>4
<1>7. Functor(Remove, c) \in Functors /\ Functor(Remove, c).op = Remove
      /\ Functor(Remove, c).conn = c /\ Remove # Established
  BY DEF Functor, Functors, Remove, Established
<1>8. /\ queue' \in [Loops -> Seq(Functors)]
      /\ \A m \in Loops : \A j \in DOMAIN queue'[m] :
           \/ j \in DOMAIN queue[m] /\ queue'[m][j] = queue[m][j]
           \/ j = Len(queue[m]) + 1 /\ m = Base /\ queue'[m][j] = Functor(Remove, c)
  <2>1. CASE UNCHANGED queue
    BY <2>1 DEF Inv, TypeOK
  <2>2. CASE queue' = [queue EXCEPT ![Base] = Append(@, Functor(Remove, c))]
    <3> HIDE DEF Inv
    <3>1. queue \in [Loops -> Seq(Functors)] /\ queue[Base] \in Seq(Functors)
      BY BaseLoop DEF Inv, TypeOK
    <3>2. Append(queue[Base], Functor(Remove, c)) \in Seq(Functors)
          /\ \A j \in DOMAIN Append(queue[Base], Functor(Remove, c)) :
               \/ j \in DOMAIN queue[Base]
                  /\ Append(queue[Base], Functor(Remove, c))[j] = queue[Base][j]
               \/ j = Len(queue[Base]) + 1
                  /\ Append(queue[Base], Functor(Remove, c))[j] = Functor(Remove, c)
      BY <1>7, <3>1, AppendedPlaces
    <3>3. queue'[Base] = Append(queue[Base], Functor(Remove, c))
          /\ \A m \in Loops \ {Base} : queue'[m] = queue[m]
      BY <2>2, <3>1, BaseLoop
    <3>4. queue' \in [Loops -> Seq(Functors)]
      BY <2>2, <3>1, <3>2
    <3> QED BY <3>2, <3>3, <3>4
  <2> QED BY <1>4, <2>1, <2>2
<1>9. TypeOK'
  <2> HIDE DEF Inv
  <2>1. TypeOK
    BY DEF Inv
  <2>2. connMap' \subseteq Conns
    BY <1>4, <2>1 DEF TypeOK
  <2>3. state' \in [Conns -> {"none", "kConnecting", "kConnected", "kDisconnected"}]
        /\ runFlag' \in [Conns -> BOOLEAN] /\ handling' \in [Conns -> BOOLEAN]
    BY <1>2, <2>1 DEF TypeOK
  <2>4. watch' \in [Loops -> SUBSET Conns] /\ chanMap' \in [Loops -> SUBSET Conns]
    BY <1>2, <1>3, <2>1 DEF TypeOK
  <2>5. held' \in [Loops -> SUBSET Conns]
    BY <1>2, <2>1 DEF TypeOK
  <2>6. pc' \in [Loops -> {"poll", "dispatch", "handling", "closing", "leaving", "run",
                    "dead"}]
    BY <1>2, <2>1 DEF TypeOK
  <2> QED BY <1>2, <1>8, <2>1, <2>2, <2>3, <2>4, <2>5, <2>6 DEF TypeOK
<1>10. NextLoopInPool' /\ BacklogFresh'
  <2>1. \A j \in DOMAIN backlog : backlog[j] # c /\ backlog[j] \in Conns
    BY <1>1 DEF Inv, TypeOK, BacklogFresh
  <2> QED BY <1>2, <1>5, <2>1 DEF Inv, NextLoopInPool, BacklogFresh
<1>11. StacksEmpty'
  BY <1>1, <1>2, <1>5 DEF Inv, StacksEmpty
<1>12. WatchedAreConnected' /\ ListedAreWatched'
  BY <1>1, <1>2, <1>5 DEF Inv, TypeOK, WatchedAreConnected, ListedAreWatched
<1>13. FunctorsDue'
  <2>1. \A g \in Functors, m \in Loops : Due(g, m) => Due(g, m)'
    <3>1. \A g \in Functors : g.conn \in Conns
      BY DEF Functors
    <3> QED BY <1>1, <1>2, <1>5, <3>1 DEF Due
  <2>2. \A m \in Loops : Due(Functor(Remove, c), m)'
    BY <1>5, <1>7 DEF Due
  <2>3. \A m \in Loops : /\ \A j \in DOMAIN queue[m] : queue[m][j] \in Functors
                         /\ \A j \in DOMAIN batch[m] : batch[m][j] \in Functors
    BY QueuedAreFunctors DEF Inv
  <2>4. ASSUME NEW m \in Loops, NEW j \in DOMAIN queue'[m], NEW g, g = queue'[m][j]
        PROVE  Due(g, m)'
    <3>1. CASE j \in DOMAIN queue[m] /\ g = queue[m][j]
      <4>1. g \in Functors /\ Due(g, m)
        BY <2>3, <3>1 DEF Inv, FunctorsDue
      <4> QED BY <2>1, <4>1
    <3>2. CASE g = Functor(Remove, c)
      BY <2>2, <3>2
    <3> QED BY <1>8, <2>4, <3>1, <3>2
  <2>5. ASSUME NEW m \in Loops, NEW j \in DOMAIN batch[m], j > ran[m], NEW g, g = batch[m][j]
        PROVE  Due(g, m)'
    <3>1. g \in Functors /\ Due(g, m)
      BY <2>3, <2>5 DEF Inv, FunctorsDue
    <3> QED BY <2>1, <3>1
  <2> QED BY <1>2, <2>4, <2>5 DEF FunctorsDue
<1>14. EstablishedOnce'
  <2>1. ASSUME NEW m \in Loops PROVE OnceIn(queue'[m], batch[m], ran[m])
    <3>1. OnceIn(queue[m], batch[m], ran[m])
      BY OnceOnEach DEF Inv
    <3>2. \A j \in DOMAIN queue'[m] :
            \/ j \in DOMAIN queue[m] /\ queue'[m][j] = queue[m][j]
            \/ queue'[m][j].op # Established
      BY <1>7, <1>8
    <3> QED BY <3>1, <3>2 DEF OnceIn
  <2> QED BY <1>2, <2>1 DEF EstablishedOnce, OnceIn
<1>15. MapHoldsOpen'
  BY <1>5, <1>6 DEF Inv, MapHoldsOpen
<1>16. \A d \in Conns : Alive(d)' => Alive(d)
  <2>1. \A d \in Conns \ {c}, m \in Loops : d \in Bound(queue[m])' => d \in Bound(queue[m])
    BY <1>7, <1>8 DEF Bound
  <2> QED BY <1>1, <1>2, <1>4, <1>5, <2>1 DEF Alive, Referenced
<1>17. FdsUnique'
  BY <1>2, <1>16 DEF Inv, FdsUnique
<1> QED BY <1>9, <1>10, <1>11, <1>12, <1>13, <1>14, <1>15, <1>17 DEF Inv

(* What HandleConnection does to the tables, whichever loop it is for. *)
LEMMA HandleConnectionEffect ==
  ASSUME DistinctNames, Inv, NEW c \in Conns, NEW f \in Fds, HandleConnection(c, f)
  PROVE  \E l \in Loops :
    /\ state[c] = "none" /\ \A d \in Conns : Alive(d) => fd[d] # f
    /\ fd' = [fd EXCEPT ![c] = f] /\ loopOf' = [loopOf EXCEPT ![c] = l]
    /\ connMap' = connMap \cup {c}
    /\ \/ /\ state' = [state EXCEPT ![c] = "kConnected"]
          /\ runFlag' = [runFlag EXCEPT ![c] = TRUE]
          /\ watch' = [watch EXCEPT ![l] = @ \cup {c}]
          /\ chanMap' = [chanMap EXCEPT ![l] = @ \cup {c}]
          /\ UNCHANGED queue
       \/ /\ state' = [state EXCEPT ![c] = "kConnecting"]
          /\ queue' = [queue EXCEPT ![l] = Append(@, Functor(Established, c))]
          /\ UNCHANGED <<runFlag, watch, chanMap>>
<1>1. backlog \in Seq(Conns) /\ backlog # <<>> /\ c = Head(backlog)
  BY DEF HandleConnection, Inv, TypeOK
<1>2. state[c] = "none"
  BY <1>1 DEF Inv, BacklogFresh
<1>3. \A d \in Conns : Alive(d) => fd[d] # f
  BY DEF HandleConnection, LowestFree, FreeFds
<1>4. NextLoop \in Loops
  <2>1. CASE pool = <<>>
    BY <2>1, BaseLoop DEF NextLoop
  <2>2. CASE pool # <<>>
    <3>1. pool \in Seq(IoLoops) /\ next \in Nat /\ next < Len(pool)
      BY <2>2, ServerAssumption DEF Inv, TypeOK, NextLoopInPool
    <3>2. pool[next + 1] \in IoLoops
      BY <3>1
    <3> QED BY <2>2, <3>2 DEF NextLoop, Loops
  <2> QED BY <2>1, <2>2
<1>5. connMap' = connMap \cup {c}
  BY DEF HandleConnection, InsertInMap, DistinctNames, Inv, TypeOK
<1>6. /\ fd' = [fd EXCEPT ![c] = f] /\ loopOf' = [loopOf EXCEPT ![c] = NextLoop]
      /\ EstablishInLoop(NextLoop, c, f)
  BY DEF HandleConnection
<1>7. ASSUME ConnectionEstablished(NextLoop, c, f)
      PROVE  /\ state' = [state EXCEPT ![c] = "kConnected"]
             /\ runFlag' = [runFlag EXCEPT ![c] = TRUE]
             /\ watch' = [watch EXCEPT ![NextLoop] = @ \cup {c}]
             /\ chanMap' = [chanMap EXCEPT ![NextLoop] = @ \cup {c}]
  BY <1>3, <1>4, <1>7, RegisterOnly
<1> QED BY <1>2, <1>3, <1>4, <1>5, <1>6, <1>7 DEF EstablishInLoop

(* A connection is made under a free descriptor and a free name.            *)
LEMMA HandleConnectionKeepsInv ==
  ASSUME DistinctNames, Inv, NEW c \in Conns, NEW f \in Fds, HandleConnection(c, f)
  PROVE  Inv'
<1> USE DEF kernel, conn, tables, thread
<1>1. PICK l \in Loops :
    /\ state[c] = "none" /\ \A d \in Conns : Alive(d) => fd[d] # f
    /\ fd' = [fd EXCEPT ![c] = f] /\ loopOf' = [loopOf EXCEPT ![c] = l]
    /\ connMap' = connMap \cup {c}
    /\ \/ /\ state' = [state EXCEPT ![c] = "kConnected"]
          /\ runFlag' = [runFlag EXCEPT ![c] = TRUE]
          /\ watch' = [watch EXCEPT ![l] = @ \cup {c}]
          /\ chanMap' = [chanMap EXCEPT ![l] = @ \cup {c}]
          /\ UNCHANGED queue
       \/ /\ state' = [state EXCEPT ![c] = "kConnecting"]
          /\ queue' = [queue EXCEPT ![l] = Append(@, Functor(Established, c))]
          /\ UNCHANGED <<runFlag, watch, chanMap>>
  BY HandleConnectionEffect
<1>2. /\ backlog \in Seq(Conns) /\ backlog # <<>> /\ c = Head(backlog) /\ backlog' = Tail(backlog)
      /\ active' = [active EXCEPT ![Base] = @ \ {Acceptor}]
      /\ next' = IF pool = <<>> THEN next ELSE (next + 1) % Len(pool)
      /\ UNCHANGED <<refused, wire, handling, trigger, pool, capacity, batch, ran, pc,
                     current, held, answered>>
  BY DEF HandleConnection, Inv, TypeOK
<1> DEFINE g == Functor(Established, c)
<1>3. g \in Functors /\ g.op = Established /\ g.conn = c /\ Established # Remove
  BY DEF Functor, Functors, Established, Remove
<1> HIDE DEF g
<1>4. /\ fd'[c] = f /\ loopOf'[c] = l
      /\ \A d \in Conns \ {c} : /\ fd'[d] = fd[d] /\ loopOf'[d] = loopOf[d]
                               /\ state'[d] = state[d] /\ runFlag'[d] = runFlag[d]
      /\ \A m \in Loops : \A d \in Conns :
           \/ m = l /\ d = c
           \/ (d \in watch'[m] <=> d \in watch[m]) /\ (d \in chanMap'[m] <=> d \in chanMap[m])
  <2>1. /\ DOMAIN state = Conns /\ DOMAIN fd = Conns /\ DOMAIN loopOf = Conns
        /\ DOMAIN runFlag = Conns /\ DOMAIN watch = Loops /\ DOMAIN chanMap = Loops
    BY DEF Inv, TypeOK
  <2> QED BY <1>1, <2>1
<1>5. \/ state'[c] = "kConnected" /\ runFlag'[c] /\ c \in watch'[l] /\ c \in chanMap'[l]
      \/ state'[c] = "kConnecting" /\ UNCHANGED <<runFlag, watch, chanMap>>
  BY <1>1 DEF Inv, TypeOK
<1>6. /\ queue' \in [Loops -> Seq(Functors)]
      /\ \A m \in Loops : \A j \in DOMAIN queue'[m] :
           \/ j \in DOMAIN queue[m] /\ queue'[m][j] = queue[m][j]
           \/ /\ j = Len(queue[m]) + 1 /\ m = l /\ queue'[m][j] = g
              /\ state'[c] = "kConnecting"
  <2>1. CASE UNCHANGED queue
    BY <2>1 DEF Inv, TypeOK
  <2>2. CASE queue' = [queue EXCEPT ![l] = Append(@, g)] /\ state'[c] = "kConnecting"
    <3>1. queue'[l] = Append(queue[l], g) /\ \A m \in Loops \ {l} : queue'[m] = queue[m]
      BY <2>2 DEF Inv, TypeOK
    <3>2. queue[l] \in Seq(Functors)
      BY DEF Inv, TypeOK
    <3>3. /\ queue'[l] \in Seq(Functors)
          /\ \A j \in DOMAIN queue'[l] :
               \/ j \in DOMAIN queue[l] /\ queue'[l][j] = queue[l][j]
               \/ j = Len(queue[l]) + 1 /\ queue'[l][j] = g
      BY <1>3, <3>1, <3>2, AppendedPlaces
    <3>4. queue' \in [Loops -> Seq(Functors)]
      BY <2>2, <3>1, <3>3 DEF Inv, TypeOK
    <3> QED BY <2>2, <3>1, <3>3, <3>4
  <2>3. state' = [state EXCEPT ![c] = "kConnecting"] => state'[c] = "kConnecting"
    BY DEF Inv, TypeOK
  <2> QED BY <1>1, <2>1, <2>2, <2>3 DEF g
<1>7. ~Alive(c)
  BY <1>1 DEF Alive
<1>8. \A m \in Loops : c \notin watch[m] /\ c \notin active[m] /\ ~runFlag[c] /\ ~handling[c]
  BY <1>1 DEF Inv, WatchedAreConnected, ListedAreWatched
<1>9. NextLoopInPool' /\ next' \in Nat
  <2>1. CASE pool = <<>>
    BY <1>2, <2>1 DEF Inv, TypeOK, NextLoopInPool
  <2>2. CASE pool # <<>>
    <3>0. pool \in Seq(IoLoops) /\ next \in Nat
      BY ServerAssumption DEF Inv, TypeOK
    <3>1. Len(pool) \in Nat /\ Len(pool) > 0 /\ next \in Nat
      BY <2>2, <3>0
    <3>2. (next + 1) % Len(pool) \in Nat /\ (next + 1) % Len(pool) < Len(pool)
      BY <3>1
    <3> QED BY <1>2, <2>2, <3>2 DEF NextLoopInPool
  <2> QED BY <2>1, <2>2
<1>10. TypeOK'
  <2> HIDE DEF Inv
  <2>1. TypeOK
    BY DEF Inv
  <2>2. state' \in [Conns -> {"none", "kConnecting", "kConnected", "kDisconnected"}]
        /\ runFlag' \in [Conns -> BOOLEAN]
    <3>1. /\ state' = [state EXCEPT ![c] = "kConnected"] \/ state' = [state EXCEPT ![c] = "kConnecting"]
          /\ runFlag' = [runFlag EXCEPT ![c] = TRUE] \/ runFlag' = runFlag
      BY <1>1
    <3>2. /\ state \in [Conns -> {"none", "kConnecting", "kConnected", "kDisconnected"}]
          /\ runFlag \in [Conns -> BOOLEAN]
      BY <2>1 DEF TypeOK
    <3> QED BY <3>1, <3>2
  <2>3. fd' \in [Conns -> Fds \cup {NoFd}]
    BY <1>1, <2>1 DEF TypeOK
  <2>4. loopOf' \in [Conns -> Loops \cup {NoLoop}]
    BY <1>1, <2>1 DEF TypeOK
  <2>5. connMap' \subseteq Conns
    BY <1>1, <2>1 DEF TypeOK
  <2>6. watch' \in [Loops -> SUBSET Conns] /\ chanMap' \in [Loops -> SUBSET Conns]
    <3>1. /\ watch' = [watch EXCEPT ![l] = @ \cup {c}] \/ watch' = watch
          /\ chanMap' = [chanMap EXCEPT ![l] = @ \cup {c}] \/ chanMap' = chanMap
      BY <1>1
    <3>2. watch \in [Loops -> SUBSET Conns] /\ chanMap \in [Loops -> SUBSET Conns]
      BY <2>1 DEF TypeOK
    <3> QED BY <3>1, <3>2
  <2>7. active' \in [Loops -> SUBSET (Conns \cup {Acceptor})]
    BY <1>2, <2>1 DEF TypeOK
  <2>8. backlog' \in Seq(Conns)
    BY <1>2, TailPlaces
  <2> QED BY <1>2, <1>6, <1>9, <2>1, <2>2, <2>3, <2>4, <2>5, <2>6, <2>7, <2>8 DEF TypeOK
<1>11. BacklogFresh'
  <2>1. \A j \in DOMAIN backlog' : /\ backlog'[j] = backlog[j + 1] /\ j + 1 \in DOMAIN backlog
                                  /\ 1 \in DOMAIN backlog /\ j + 1 # 1 /\ backlog[j + 1] \in Conns
                                  /\ backlog[1] = c
    BY <1>2, TailPlaces
  <2>2. \A j \in DOMAIN backlog' : backlog'[j] # c
    BY <2>1 DEF Inv, BacklogFresh
  <2>3. \A i, j \in DOMAIN backlog' : i + 1 = j + 1 => i = j
    BY <1>2
  <2> QED BY <1>4, <2>1, <2>2, <2>3 DEF Inv, BacklogFresh
<1>12. StacksEmpty'
  BY <1>2 DEF Inv, StacksEmpty
<1>13. WatchedAreConnected'
  <2>1. ASSUME NEW d \in Conns \ {c}, NEW m \in Loops
        PROVE  /\ runFlag'[d] <=> state'[d] = "kConnected"
               /\ handling'[d] => state'[d] = "kConnected"
               /\ d \in watch'[m] <=> state'[d] = "kConnected" /\ loopOf'[d] = m
               /\ d \in chanMap'[m] <=> d \in watch'[m]
    BY <1>2, <1>4 DEF Inv, WatchedAreConnected
  <2>2. ASSUME NEW m \in Loops
        PROVE  /\ runFlag'[c] <=> state'[c] = "kConnected"
               /\ handling'[c] => state'[c] = "kConnected"
               /\ c \in watch'[m] <=> state'[c] = "kConnected" /\ loopOf'[c] = m
               /\ c \in chanMap'[m] <=> c \in watch'[m]
    <3>1. c \notin chanMap[m]
      BY <1>8 DEF Inv, WatchedAreConnected
    <3> QED BY <1>2, <1>4, <1>5, <1>8, <3>1
  <2> QED BY <2>1, <2>2 DEF WatchedAreConnected
<1>14. ListedAreWatched'
  <2>1. \A m \in Loops : \A d \in Conns : d \in active'[m] => d \in active[m]
    BY <1>2 DEF Inv, TypeOK
  <2>2. \A m \in Loops : \A d \in Conns : d \in watch[m] => d \in watch'[m]
    BY <1>4, <1>8
  <2> QED BY <1>2, <2>1, <2>2 DEF Inv, ListedAreWatched
<1>15. FunctorsDue'
  <2>1. \A h \in Functors, m \in Loops : Due(h, m) => h.conn # c /\ Due(h, m)'
    <3>1. \A h \in Functors : h.conn \in Conns
      BY DEF Functors
    <3> QED BY <1>1, <1>4, <3>1 DEF Due
  <2>2. state'[c] = "kConnecting" => Due(g, l)'
    BY <1>3, <1>4 DEF Due
  <2>3. \A m \in Loops : /\ \A j \in DOMAIN queue[m] : queue[m][j] \in Functors
                         /\ \A j \in DOMAIN batch[m] : batch[m][j] \in Functors
    BY QueuedAreFunctors DEF Inv
  <2>4. ASSUME NEW m \in Loops, NEW j \in DOMAIN queue'[m], NEW h, h = queue'[m][j]
        PROVE  Due(h, m)'
    <3>1. CASE j \in DOMAIN queue[m] /\ h = queue[m][j]
      <4>1. h \in Functors /\ Due(h, m)
        BY <2>3, <3>1 DEF Inv, FunctorsDue
      <4> QED BY <2>1, <4>1
    <3>2. CASE m = l /\ h = g /\ state'[c] = "kConnecting"
      BY <2>2, <3>2
    <3> QED BY <1>6, <2>4, <3>1, <3>2
  <2>5. ASSUME NEW m \in Loops, NEW j \in DOMAIN batch[m], j > ran[m], NEW h, h = batch[m][j]
        PROVE  Due(h, m)'
    <3>1. h \in Functors /\ Due(h, m)
      BY <2>3, <2>5 DEF Inv, FunctorsDue
    <3> QED BY <2>1, <3>1
  <2> QED BY <1>2, <2>4, <2>5 DEF FunctorsDue
<1>16. EstablishedOnce'
  <2>1. \A m \in Loops : Len(queue[m]) + 1 \notin DOMAIN queue[m]
    BY QueuedAreFunctors DEF Inv
  <2>2. \A m \in Loops : ~Due(g, m)
    BY <1>1, <1>3 DEF Due
  <2>3. \A m \in Loops : /\ \A j \in DOMAIN queue[m] : queue[m][j] # g
                         /\ \A j \in DOMAIN batch[m] : j > ran[m] => batch[m][j] # g
    BY <2>2 DEF Inv, FunctorsDue
  <2> SUFFICES ASSUME NEW m \in Loops
               PROVE
                 /\ \A i, j \in DOMAIN queue'[m] :
                      queue'[m][i] = queue'[m][j] /\ queue'[m][i].op = Established => i = j
                 /\ \A i \in DOMAIN queue'[m], j \in DOMAIN batch[m] :
                      j > ran[m] /\ queue'[m][i] = batch[m][j] => queue'[m][i].op # Established
    BY <1>2 DEF Inv, EstablishedOnce
  <2>4. /\ \A i, j \in DOMAIN queue[m] :
             queue[m][i] = queue[m][j] /\ queue[m][i].op = Established => i = j
        /\ \A i \in DOMAIN queue[m], j \in DOMAIN batch[m] :
             j > ran[m] /\ queue[m][i] = batch[m][j] => queue[m][i].op # Established
    BY DEF Inv, EstablishedOnce
  <2>5. \A j \in DOMAIN queue'[m] :
           \/ j \in DOMAIN queue[m] /\ queue'[m][j] = queue[m][j]
           \/ j = Len(queue[m]) + 1 /\ queue'[m][j] = g
    BY <1>6
  <2> QED BY <2>3, <2>4, <2>5
<1>17. MapHoldsOpen'
  BY <1>1, <1>4 DEF Inv, MapHoldsOpen
<1>18. \A d \in Conns \ {c} : Alive(d)' => Alive(d)
  <2>1. \A d \in Conns \ {c}, m \in Loops : d \in Bound(queue[m])' => d \in Bound(queue[m])
    BY <1>3, <1>6 DEF Bound
  <2> QED BY <1>1, <1>2, <1>4, <2>1 DEF Alive, Referenced
<1>19. FdsUnique'
  BY <1>1, <1>4, <1>18 DEF Inv, FdsUnique
<1> QED BY <1>9, <1>10, <1>11, <1>12, <1>13, <1>14, <1>15, <1>16, <1>17, <1>19 DEF Inv

-----------------------------------------------------------------------------

(* Every step keeps Inv. *)
LEMMA NextInv == DistinctNames /\ Inv /\ [Next]_vars => Inv'
<1> SUFFICES ASSUME DistinctNames, Inv, [Next]_vars PROVE Inv'
  OBVIOUS
<1>1. CASE Client
  BY <1>1, ClientKeepsInv
<1>2. CASE Accept
  BY <1>2, RefuseKeepsInv, HandleConnectionKeepsInv DEF Accept
<1>3. ASSUME NEW l \in Loops, LoopStep(l) PROVE Inv'
  <2>1. CASE Poll(l)
    BY <2>1, PollKeepsInv
  <2>2. ASSUME NEW c \in Conns, HandleRequest(l, c) \/ HandleEndOfInput(l, c) \/ HandleError(l, c)
        PROVE  Inv'
    <3>1. Handling(l, c) /\ HandleClose(l, c)
      BY <2>2 DEF HandleRequest, HandleEndOfInput, HandleError
    <3>2. wire' \in [Conns -> SUBSET {"data", "fin", "rst"}] /\ answered' \subseteq Conns
      <4>1. /\ wire' = wire \/ wire' = [wire EXCEPT ![c] = @ \ {"data"}]
            /\ answered' = answered \/ answered' = answered \cup {c}
        BY <2>2 DEF HandleRequest, HandleEndOfInput, HandleError
      <4>2. wire \in [Conns -> SUBSET {"data", "fin", "rst"}] /\ answered \subseteq Conns
        BY DEF Inv, TypeOK
      <4> QED BY <4>1, <4>2
    <3> QED BY <3>1, <3>2, HandleCloseKeepsInv
  <2>3. CASE HandleChannel(l)
    BY <2>2, <2>3, BeginEventKeepsInv, EndEventKeepsInv, UseDestroyedKeepsInv
       DEF HandleChannel
  <2>4. CASE DropReferences(l)
    BY <2>4, DropReferencesKeepsInv
  <2>5. CASE SwapFunctors(l)
    BY <2>5, SwapFunctorsKeepsInv
  <2>6. CASE RunFunctor(l)
    <3>1. batch[l][ran[l] + 1].op \in {Established, Remove}
      BY <2>6 DEF RunFunctor
    <3> QED BY <2>6, <3>1, RunEstablishedKeepsInv, RunRemoveKeepsInv
  <2>7. CASE EndBatch(l)
    BY <2>7, EndBatchKeepsInv
  <2> QED BY <1>3, <2>1, <2>3, <2>4, <2>5, <2>6, <2>7 DEF LoopStep
<1>4. CASE UNCHANGED vars
  <2> USE <1>4 DEF vars, kernel, conn, tables, thread
  <2>1. UNCHANGED settled
    BY DEF settled, holders
  <2>2. TypeOK' /\ BacklogFresh' /\ ListedAreWatched'
    BY DEF Inv, TypeOK, BacklogFresh, ListedAreWatched
  <2> QED BY <2>1, <2>2, QuietStep
<1> QED BY <1>1, <1>2, <1>3, <1>4 DEF Next

(* Inv is an invariant of the specification. *)
LEMMA Invariance == ASSUME DistinctNames PROVE Spec => []Inv
<1>1. Inv /\ [Next]_vars => Inv'
  BY NextInv
<1> QED BY InitInv, <1>1, PTL DEF Spec

(* The state keeps its shape. *)
THEOREM TypeCorrect == ASSUME DistinctNames PROVE Spec => []TypeOK
<1>1. Inv => TypeOK
  BY DEF Inv
<1> QED BY <1>1, Invariance, PTL

(* However many loops and connections: no epoll and no active list names a  *)
(* channel whose TcpConnection, and with it the raw this its callbacks are  *)
(* bound to, is gone.                                                       *)
THEOREM CallbackOwnersLive == ASSUME DistinctNames PROVE Spec => []CallbackOwnerAlive
<1>1. ASSUME Inv PROVE CallbackOwnerAlive
  <2> SUFFICES ASSUME NEW l \in Loops, NEW c \in (watch[l] \cup active[l]) \ {Acceptor}
               PROVE  Alive(c)
    BY DEF CallbackOwnerAlive
  <2>1. c \in Conns
    BY <1>1 DEF Inv, TypeOK
  <2>2. state[c] = "kConnected"
    BY <1>1, <2>1 DEF Inv, ListedAreWatched, WatchedAreConnected
  <2> QED BY <1>1, <2>1, <2>2, WatchedAreAlive
<1> QED BY <1>1, Invariance, PTL

(* channels_map_ of every loop and its epoll agree on the channels, and no  *)
(* two living connections share a descriptor.                               *)
THEOREM TablesAlwaysAgree == ASSUME DistinctNames PROVE Spec => []TablesAgree
<1>1. ASSUME Inv PROVE TablesAgree
  <2> SUFFICES ASSUME NEW l \in Loops
               PROVE  /\ chanMap[l] = watch[l]
                      /\ \A c \in chanMap[l] :
                           /\ loopOf[c] = l /\ runFlag[c]
                           /\ \A d \in Conns : fd[d] = fd[c] /\ Alive(d) => d = c
    BY DEF TablesAgree
  <2>1. chanMap[l] \subseteq Conns /\ watch[l] \subseteq Conns
    BY <1>1 DEF Inv, TypeOK
  <2>2. chanMap[l] = watch[l]
    <3>1. \A c \in Conns : c \in chanMap[l] <=> c \in watch[l]
      BY <1>1 DEF Inv, WatchedAreConnected
    <3> QED BY <2>1, <3>1, Zenon
  <2>3. ASSUME NEW c \in chanMap[l]
        PROVE  /\ loopOf[c] = l /\ runFlag[c]
               /\ \A d \in Conns : fd[d] = fd[c] /\ Alive(d) => d = c
    <3>1. state[c] = "kConnected" /\ loopOf[c] = l /\ runFlag[c]
      BY <1>1, <2>1, <2>2 DEF Inv, WatchedAreConnected
    <3>2. Alive(c)
      BY <1>1, <2>1, <3>1, WatchedAreAlive
    <3> QED BY <1>1, <2>1, <3>1, <3>2 DEF Inv, FdsUnique
  <2> QED BY <2>2, <2>3
<1> QED BY <1>1, Invariance, PTL

-----------------------------------------------------------------------------
(* Nothing handed over is lost.                                            *)

(* What Inv, which says what a functor in a queue finds, leaves open: that  *)
(* a connection that waits for a functor has it in a queue.                 *)
HandOversPending ==
  \A c \in Conns :
    /\ state[c] = "kConnecting" => loopOf[c] \in Loops
    /\ \A l \in Loops :
         state[c] = "kConnecting" /\ loopOf[c] = l => Awaits(l, Functor(Established, c))
    /\ state[c] = "kDisconnected" /\ c \in connMap => Awaits(Base, Functor(Remove, c))

(* A functor waits on, where nothing is taken from the queue or the batch. *)
LEMMA StillAwaits ==
  ASSUME TypeOK, NEW m \in Loops, NEW functor, Awaits(m, functor),
         batch'[m] = batch[m], ran'[m] = ran[m],
         \/ queue'[m] = queue[m]
         \/ \E e \in Functors : queue'[m] = Append(queue[m], e)
  PROVE  Awaits(m, functor)'
<1>1. queue[m] \in Seq(Functors)
  BY DEF TypeOK
<1>2. CASE \E i \in DOMAIN queue[m] : queue[m][i] = functor
  <2>1. PICK i \in DOMAIN queue[m] : queue[m][i] = functor
    BY <1>2
  <2>2. i \in DOMAIN queue'[m] /\ queue'[m][i] = queue[m][i]
    <3>1. ASSUME NEW e \in Functors, queue'[m] = Append(queue[m], e)
          PROVE  i \in DOMAIN queue'[m] /\ queue'[m][i] = queue[m][i]
      BY <1>1, <3>1
    <3> QED BY <3>1
  <2> QED BY <2>1, <2>2 DEF Awaits
<1>3. CASE \E i \in DOMAIN batch[m] : i > ran[m] /\ batch[m][i] = functor
  BY <1>3 DEF Awaits
<1> QED BY <1>2, <1>3 DEF Awaits

(* A functor just appended waits. *)
LEMMA AppendedAwaits ==
  ASSUME TypeOK, NEW m \in Loops, NEW e \in Functors, queue'[m] = Append(queue[m], e)
  PROVE  Awaits(m, e)'
<1>1. queue[m] \in Seq(Functors)
  BY DEF TypeOK
<1>2. Len(queue[m]) + 1 \in DOMAIN queue'[m] /\ queue'[m][Len(queue[m]) + 1] = e
  BY <1>1
<1> QED BY <1>2 DEF Awaits

(* A step that touches neither queues nor states nor the map. *)
LEMMA HandOversUndisturbed ==
  ASSUME HandOversPending, UNCHANGED <<state, loopOf, connMap, queue, batch, ran>>
  PROVE  HandOversPending'
BY DEF HandOversPending, Awaits

(* A new connection either is established at once or is handed over.        *)
LEMMA HandleConnectionHandsOver ==
  ASSUME DistinctNames, Inv, HandOversPending,
         NEW c \in Conns, NEW f \in Fds, HandleConnection(c, f)
  PROVE  HandOversPending'
<1>1. PICK l \in Loops :
    /\ state[c] = "none" /\ loopOf' = [loopOf EXCEPT ![c] = l] /\ connMap' = connMap \cup {c}
    /\ \/ state' = [state EXCEPT ![c] = "kConnected"] /\ UNCHANGED queue
       \/ /\ state' = [state EXCEPT ![c] = "kConnecting"]
          /\ queue' = [queue EXCEPT ![l] = Append(@, Functor(Established, c))]
  BY HandleConnectionEffect
<1>2. UNCHANGED <<batch, ran>>
  BY DEF HandleConnection
<1>3. TypeOK
  BY DEF Inv
<1>4. Functor(Established, c) \in Functors
  BY DEF Functor, Functors
<1>0. DOMAIN queue = Loops /\ DOMAIN state = Conns /\ DOMAIN loopOf = Conns
  BY <1>3 DEF TypeOK
<1>5. \A m \in Loops : queue'[m] = queue[m] \/ \E e \in Functors : queue'[m] = Append(queue[m], e)
  BY <1>0, <1>1, <1>4
<1>6. \A m \in Loops : \A functor : Awaits(m, functor) => Awaits(m, functor)'
  BY <1>2, <1>3, <1>5, StillAwaits
<1>7. state'[c] \in {"kConnecting", "kConnected"} /\ loopOf'[c] = l
      /\ \A d \in Conns \ {c} : state'[d] = state[d] /\ loopOf'[d] = loopOf[d]
                                /\ (d \in connMap' => d \in connMap)
  BY <1>0, <1>1
<1>8. state'[c] = "kConnecting" => Awaits(l, Functor(Established, c))'
  <2>1. state'[c] = "kConnecting" => queue'[l] = Append(queue[l], Functor(Established, c))
    BY <1>0, <1>1
  <2> QED BY <1>3, <1>4, <2>1, AppendedAwaits
<1>9. ASSUME NEW d \in Conns, d # c
      PROVE  /\ state'[d] = "kConnecting" => loopOf'[d] \in Loops
             /\ \A m \in Loops : state'[d] = "kConnecting" /\ loopOf'[d] = m
                                => Awaits(m, Functor(Established, d))'
             /\ state'[d] = "kDisconnected" /\ d \in connMap' => Awaits(Base, Functor(Remove, d))'
  BY <1>6, <1>7, <1>9, BaseLoop DEF HandOversPending
<1> QED BY <1>7, <1>8, <1>9 DEF HandOversPending

(* HandleClose takes the connection out of the map or asks the base loop to.*)
LEMMA HandleCloseHandsOver ==
  ASSUME DistinctNames, Inv, HandOversPending,
         NEW l \in Loops, NEW c \in Conns, HandleClose(l, c)
  PROVE  HandOversPending'
<1>1. TypeOK
  BY DEF Inv
<1>2. /\ state' = [state EXCEPT ![c] = "kDisconnected"] /\ UNCHANGED <<loopOf, batch, ran>>
      /\ \/ connMap' = connMap \ {c} /\ UNCHANGED queue
         \/ queue' = [queue EXCEPT ![Base] = Append(@, Functor(Remove, c))] /\ UNCHANGED connMap
  BY <1>1, EraseOnly DEF HandleClose, SetDisconnected, RemoveConnection
<1>3. Functor(Remove, c) \in Functors
  BY DEF Functor, Functors
<1>0. DOMAIN queue = Loops /\ DOMAIN state = Conns
  BY <1>1 DEF TypeOK
<1>4. \A m \in Loops : queue'[m] = queue[m] \/ \E e \in Functors : queue'[m] = Append(queue[m], e)
  BY <1>0, <1>2, <1>3
<1>5. \A m \in Loops : \A functor : Awaits(m, functor) => Awaits(m, functor)'
  BY <1>1, <1>2, <1>4, StillAwaits
<1>6. state'[c] = "kDisconnected" /\ \A d \in Conns \ {c} : state'[d] = state[d]
  BY <1>0, <1>2
<1>7. c \in connMap' => Awaits(Base, Functor(Remove, c))'
  <2>1. c \in connMap' => queue'[Base] = Append(queue[Base], Functor(Remove, c))
    BY <1>0, <1>2, BaseLoop
  <2> QED BY <1>1, <1>3, <2>1, AppendedAwaits, BaseLoop
<1>8. connMap' \subseteq connMap
  BY <1>2
<1>9. ASSUME NEW d \in Conns, d # c
      PROVE  /\ state'[d] = "kConnecting" => loopOf'[d] \in Loops
             /\ \A m \in Loops : state'[d] = "kConnecting" /\ loopOf'[d] = m
                                => Awaits(m, Functor(Established, d))'
             /\ state'[d] = "kDisconnected" /\ d \in connMap' => Awaits(Base, Functor(Remove, d))'
  BY <1>2, <1>5, <1>6, <1>8, <1>9, BaseLoop DEF HandOversPending
<1> QED BY <1>6, <1>7, <1>9 DEF HandOversPending

(* What waited in the queue waits in the batch. *)
LEMMA SwapKeepsHandOvers ==
  ASSUME Inv, HandOversPending, NEW l \in Loops, SwapFunctors(l)
  PROVE  HandOversPending'
<1>1. TypeOK /\ batch[l] = <<>> /\ ran[l] = 0
  BY DEF SwapFunctors, Inv, StacksEmpty
<1>2. batch'[l] = queue[l] /\ UNCHANGED <<state, loopOf, connMap, ran>>
      /\ \A m \in Loops \ {l} : batch'[m] = batch[m] /\ queue'[m] = queue[m]
  BY <1>1 DEF SwapFunctors, TypeOK, conn, tables
<1>3. \A functor : Awaits(l, functor) => Awaits(l, functor)'
  <2>1. queue[l] \in Seq(Functors) /\ DOMAIN batch[l] = {}
    BY <1>1 DEF TypeOK
  <2> QED BY <1>1, <1>2, <2>1 DEF Awaits
<1>4. \A m \in Loops \ {l} : \A functor : Awaits(m, functor) => Awaits(m, functor)'
  BY <1>2 DEF Awaits
<1>5. \A m \in Loops : \A functor : Awaits(m, functor) => Awaits(m, functor)'
  BY <1>3, <1>4
<1> QED BY <1>2, <1>5, BaseLoop DEF HandOversPending

(* A functor that has run did what was waited for. *)
LEMMA RunFunctorKeepsHandOvers ==
  ASSUME DistinctNames, Inv, HandOversPending, NEW l \in Loops, RunFunctor(l)
  PROVE  HandOversPending'
<1> DEFINE functor == batch[l][ran[l] + 1]
           c == functor.conn
<1>1. TypeOK /\ ran' = [ran EXCEPT ![l] = @ + 1] /\ UNCHANGED <<queue, batch, loopOf>>
      /\ \/ /\ functor.op = Established
            /\ ConnectionEstablished(l, c, fd[c])
            /\ UNCHANGED connMap
         \/ functor.op = Remove /\ EraseFromMap(c) /\ UNCHANGED state
  BY DEF RunFunctor, Inv
<1>2. ran[l] + 1 \in DOMAIN batch[l] /\ ran[l] \in Nat /\ batch[l] \in Seq(Functors)
  BY <1>1 DEF RunFunctor, TypeOK
<1>3. functor \in Functors
  BY <1>2
<1> HIDE DEF functor
<1>4. c \in Conns /\ functor = Functor(functor.op, c)
  BY <1>3 DEF Functors, Functor
<1>5. \A m \in Loops : \A g : Awaits(m, g) => Awaits(m, g)' \/ g = functor
  <2>1. ran'[l] = ran[l] + 1 /\ \A m \in Loops \ {l} : ran'[m] = ran[m]
    BY <1>1 DEF TypeOK
  <2>2. ASSUME NEW m \in Loops \ {l}, NEW g, Awaits(m, g) PROVE Awaits(m, g)'
    BY <1>1, <2>1, <2>2 DEF Awaits
  <2>3. ASSUME NEW g, Awaits(l, g), g # functor PROVE Awaits(l, g)'
    <3>1. CASE \E i \in DOMAIN queue[l] : queue[l][i] = g
      BY <1>1, <3>1 DEF Awaits
    <3>2. CASE \E i \in DOMAIN batch[l] : i > ran[l] /\ batch[l][i] = g
      <4>1. PICK i \in DOMAIN batch[l] : i > ran[l] /\ batch[l][i] = g
        BY <3>2
      <4>2. i # ran[l] + 1
        BY <2>3, <4>1 DEF functor
      <4>3. i > ran'[l]
        BY <1>2, <2>1, <4>1, <4>2
      <4> QED BY <1>1, <4>1, <4>3 DEF Awaits
    <3> QED BY <2>3, <3>1, <3>2 DEF Awaits
  <2> QED BY <2>2, <2>3
<1>6. CASE functor.op = Established
  <2>1. state' = [state EXCEPT ![c] = "kConnected"] /\ UNCHANGED connMap
    BY <1>1, <1>6 DEF ConnectionEstablished, Established, Remove
  <2>2. state'[c] = "kConnected" /\ \A d \in Conns \ {c} : state'[d] = state[d]
    BY <1>1, <1>4, <2>1 DEF TypeOK
  <2>3. \A d \in Conns : Functor(Remove, d) # functor
    BY <1>6 DEF Functor, Established, Remove
  <2>4. \A d \in Conns \ {c} : Functor(Established, d) # functor
    BY DEF Functor
  <2> QED BY <1>1, <1>5, <2>1, <2>2, <2>3, <2>4, BaseLoop DEF HandOversPending
<1>7. CASE functor.op = Remove
  <2>1. connMap' = connMap \ {c} /\ UNCHANGED state
    BY <1>1, <1>4, <1>7, EraseOnly DEF Established, Remove
  <2>2. \A d \in Conns : Functor(Established, d) # functor
    BY <1>7 DEF Functor, Established, Remove
  <2>3. \A d \in connMap' : Functor(Remove, d) # functor
    BY <2>1 DEF Functor
  <2> QED BY <1>1, <1>5, <2>1, <2>2, <2>3, BaseLoop DEF HandOversPending
<1> QED BY <1>1, <1>6, <1>7

(* Every step keeps what was handed over. *)
LEMMA HandOversNext == DistinctNames /\ Inv /\ HandOversPending /\ [Next]_vars => HandOversPending'
<1> SUFFICES ASSUME DistinctNames, Inv, HandOversPending, [Next]_vars
             PROVE  HandOversPending'
  OBVIOUS
<1> USE DEF kernel, conn, tables, thread
<1>1. CASE Client \/ RefuseConnection \/ UNCHANGED vars
  <2>1. UNCHANGED <<state, loopOf, connMap, queue, batch, ran>>
    BY <1>1 DEF Client, Connect, ClientSends, RefuseConnection, vars
  <2> QED BY <2>1, HandOversUndisturbed
<1>2. ASSUME NEW c \in Conns, NEW f \in Fds, HandleConnection(c, f) PROVE HandOversPending'
  BY <1>2, HandleConnectionHandsOver
<1>3. ASSUME NEW l \in Loops, LoopStep(l) PROVE HandOversPending'
  <2>1. CASE Poll(l) \/ DropReferences(l)
    BY <2>1, HandOversUndisturbed DEF Poll, DropReferences
  <2>2. ASSUME NEW c \in Conns, BeginEvent(l, c) \/ EndEvent(l, c) \/ UseDestroyed(l, c)
        PROVE  HandOversPending'
    BY <2>2, HandOversUndisturbed DEF BeginEvent, EndEvent, UseDestroyed
  <2>3. ASSUME NEW c \in Conns,
               HandleRequest(l, c) \/ HandleEndOfInput(l, c) \/ HandleError(l, c)
        PROVE  HandOversPending'
    BY <2>3, HandleCloseHandsOver DEF HandleRequest, HandleEndOfInput, HandleError
  <2>4. CASE SwapFunctors(l)
    BY <2>4, SwapKeepsHandOvers
  <2>5. CASE RunFunctor(l)
    BY <2>5, RunFunctorKeepsHandOvers
  <2>6. CASE EndBatch(l)
    <3>1. \A m \in Loops : \A functor : Awaits(m, functor) => Awaits(m, functor)'
      <4>1. ran[l] = Len(batch[l]) /\ batch[l] \in Seq(Functors) /\ UNCHANGED queue
            /\ \A m \in Loops \ {l} : batch'[m] = batch[m] /\ ran'[m] = ran[m]
        BY <2>6 DEF EndBatch, Inv, TypeOK
      <4>2. ~\E i \in DOMAIN batch[l] : i > ran[l]
        BY <4>1
      <4> QED BY <4>1, <4>2 DEF Awaits
    <3>2. UNCHANGED <<state, loopOf, connMap>>
      BY <2>6 DEF EndBatch
    <3> QED BY <3>1, <3>2, BaseLoop DEF HandOversPending
  <2> QED BY <1>3, <2>1, <2>2, <2>3, <2>4, <2>5, <2>6 DEF LoopStep, HandleChannel
<1> QED BY <1>1, <1>2, <1>3 DEF Next, Accept

(* Every open connection is in connection_map_, a connecting one has its    *)
(* ConnectionEstablished before it, and a closed one stays in the map only  *)
(* while the base loop has its removal to run, however the threads          *)
(* interleave.                                                              *)
THEOREM ConnectionsAlwaysTracked == ASSUME DistinctNames PROVE Spec => []ConnectionsTracked
<1>1. Init => HandOversPending
  <2>1. Init => \A c \in Conns : state[c] = "none"
    BY DEF Init
  <2> QED BY <2>1 DEF HandOversPending
<1>2. Inv /\ HandOversPending /\ [Next]_vars => HandOversPending'
  BY HandOversNext
<1>3. Inv /\ HandOversPending => ConnectionsTracked
  BY Zenon DEF Inv, MapHoldsOpen, HandOversPending, ConnectionsTracked
<1> QED BY <1>1, <1>2, <1>3, Invariance, PTL DEF Spec

-----------------------------------------------------------------------------
(* Steps. *)

(* Only HandleRequest runs the message callback. *)
LEMMA AnsweredByHandleRequest ==
  ASSUME [Next]_vars, NEW c \in answered' \ answered
  PROVE  \E l \in Loops : Handling(l, c)
<1> USE DEF kernel, conn, tables, thread
<1>1. CASE Client \/ UNCHANGED vars
  BY <1>1 DEF vars, Client, Connect, ClientSends
<1>2. CASE Accept
  BY <1>2 DEF Accept, RefuseConnection, HandleConnection
<1>3. ASSUME NEW l \in Loops, LoopStep(l) PROVE Handling(l, c)
  <2>1. CASE Poll(l) \/ DropReferences(l) \/ SwapFunctors(l) \/ RunFunctor(l) \/ EndBatch(l)
    BY <2>1 DEF Poll, DropReferences, SwapFunctors, RunFunctor, EndBatch
  <2>2. ASSUME NEW d \in Conns,
               BeginEvent(l, d) \/ HandleEndOfInput(l, d) \/ HandleError(l, d)
               \/ EndEvent(l, d) \/ UseDestroyed(l, d)
        PROVE  UNCHANGED answered
    BY <2>2 DEF BeginEvent, HandleEndOfInput, HandleError, EndEvent, UseDestroyed
  <2>3. ASSUME NEW d \in Conns, HandleRequest(l, d) PROVE Handling(l, c)
    BY <2>3 DEF HandleRequest
  <2> QED BY <1>3, <2>1, <2>2, <2>3 DEF LoopStep, HandleChannel
<1> QED BY <1>1, <1>2, <1>3 DEF Next

(* A request is answered only in a connection in state kConnected, however  *)
(* late its own loop ran ConnectionEstablished.                             *)
THEOREM AnsweredOnlyWhenConnected == ASSUME DistinctNames PROVE Spec => AnsweredWhenConnected
<1>1. ASSUME Inv, [Next]_vars, NEW c \in answered' \ answered
      PROVE  state[c] = "kConnected"
  <2>1. PICK l \in Loops : Handling(l, c)
    BY <1>1, AnsweredByHandleRequest
  <2>2. current[l] \subseteq Conns
    BY <1>1 DEF Inv, TypeOK
  <2> QED BY <1>1, <2>1, <2>2 DEF Handling, Inv, ListedAreWatched, WatchedAreConnected
<1>2. Inv /\ [Next]_vars => \A c \in answered' \ answered : state[c] = "kConnected"
  BY <1>1
<1> QED BY <1>2, Invariance, PTL DEF Spec, AnsweredWhenConnected

(* Whichever thread lets go of a channel last, the asserts of its           *)
(* destructor hold.                                                         *)
THEOREM ChannelDtorAssertsHold == ASSUME DistinctNames PROVE Spec => ChannelDtorAsserts
<1>1. ASSUME Inv', NEW c \in Conns, ~ChannelAlive(c)'
      PROVE  ~handling'[c] /\ ~runFlag'[c]
  <2>1. state'[c] = "kConnected" => c \in connMap'
    BY <1>1 DEF Inv, MapHoldsOpen
  <2>2. state'[c] # "kConnected"
    BY <1>1, <2>1 DEF ChannelAlive, Alive, Referenced
  <2> QED BY <1>1, <2>2 DEF Inv, WatchedAreConnected
<1>2. Inv' => \A c \in Conns : ChannelAlive(c) /\ ~ChannelAlive(c)' => ~handling'[c] /\ ~runFlag'[c]
  BY <1>1
<1>3. DistinctNames => (Inv /\ [Next]_vars => Inv')
  BY NextInv
<1> QED BY <1>2, <1>3, Invariance, PTL DEF Spec, ChannelDtorAsserts

-----------------------------------------------------------------------------
(* What the liveness properties rest on, step by step: a request is never   *)
(* given up, and no loop's thread comes to a point it cannot leave.         *)

(* A connection is closed because its client was answered, reset it, or     *)
(* ended its input with nothing left to read.                               *)
ServedOrWithdrawn ==
  \A c \in Conns :
    state[c] = "kDisconnected" /\ c \notin answered
      => "rst" \in wire[c] \/ ("fin" \in wire[c] /\ "data" \notin wire[c])

(* An event is handled for what its client really sent: EPOLLERR is for a   *)
(* reset, and something is unread wherever a connection is listed.          *)
EventsTrue ==
  \A c \in Conns :
    /\ "EPOLLERR" \in trigger[c] => "rst" \in wire[c]
    /\ \A l \in Loops :
         c \in active[l] \/ (pc[l] = "handling" /\ c \in current[l]) => wire[c] # {}

(* A step that reads nothing, closes nothing and lists nothing. *)
LEMMA ServingUndisturbed ==
  ASSUME ServedOrWithdrawn, EventsTrue, UNCHANGED <<wire, trigger, answered>>,
         \A c \in Conns : state'[c] = "kDisconnected" => state[c] = "kDisconnected",
         \A l \in Loops :
           /\ active'[l] \subseteq active[l]
           /\ pc'[l] = "handling" => pc[l] = "handling" /\ current'[l] \subseteq current[l]
  PROVE  ServedOrWithdrawn' /\ EventsTrue'
<1>1. ServedOrWithdrawn'
  BY DEF ServedOrWithdrawn
<1>2. EventsTrue'
  BY DEF EventsTrue
<1> QED BY <1>1, <1>2

(* A client that has closed or reset sends nothing more. *)
LEMMA ClientServing ==
  ASSUME Inv, ServedOrWithdrawn, EventsTrue, Client
  PROVE  ServedOrWithdrawn' /\ EventsTrue'
<1> USE DEF kernel, conn, tables, thread
<1>1. ASSUME NEW c \in Conns, Connect(c) PROVE ServedOrWithdrawn' /\ EventsTrue'
  BY <1>1, ServingUndisturbed DEF Connect
<1>2. ASSUME NEW c \in Conns, NEW what \in {"data", "fin", "rst"}, ClientSends(c, what)
      PROVE  ServedOrWithdrawn' /\ EventsTrue'
  <2>1. /\ wire[c] \cap {what, "fin", "rst"} = {}
        /\ UNCHANGED <<state, answered, trigger, active, pc, current>>
    BY <1>2 DEF ClientSends
  <2>2. wire'[c] = wire[c] \cup {what} /\ \A d \in Conns \ {c} : wire'[d] = wire[d]
    BY <1>2 DEF ClientSends, Inv, TypeOK
  <2>3. ServedOrWithdrawn'
    <3>1. ASSUME state[c] = "kDisconnected" PROVE c \in answered
      BY <2>1, <3>1 DEF ServedOrWithdrawn
    <3> QED BY <2>1, <2>2, <3>1 DEF ServedOrWithdrawn
  <2>4. EventsTrue'
    <3>1. \A d \in Conns : wire[d] \subseteq wire'[d]
      BY <2>2
    <3> QED BY <2>1, <3>1 DEF EventsTrue
  <2> QED BY <2>3, <2>4
<1> QED BY <1>1, <1>2 DEF Client

(* epoll_wait reports what is unread. *)
LEMMA PollServing ==
  ASSUME Inv, ServedOrWithdrawn, EventsTrue, NEW l \in Loops, Poll(l)
  PROVE  ServedOrWithdrawn' /\ EventsTrue'
<1> USE DEF kernel
<1>1. PICK some \in SUBSET Ready(l) :
        /\ active' = [active EXCEPT ![l] = some]
        /\ trigger' = [c \in Conns |-> IF c \in some THEN EventsOf(c) ELSE trigger[c]]
  BY DEF Poll
<1>2. UNCHANGED <<wire, state, answered, current>> /\ pc' = [pc EXCEPT ![l] = "dispatch"]
  BY DEF Poll
<1>3. \A c \in Conns : c \in some => wire[c] # {}
  BY BaseLoop DEF Ready
<1>4. /\ active'[l] = some /\ pc'[l] = "dispatch"
      /\ \A m \in Loops \ {l} : active'[m] = active[m] /\ pc'[m] = pc[m]
  BY <1>1, <1>2 DEF Inv, TypeOK
<1>5. ASSUME NEW c \in Conns, "EPOLLERR" \in trigger'[c] PROVE "rst" \in wire[c]
  <2>1. CASE c \in some
    <3>1. "EPOLLERR" \in EventsOf(c)
      BY <1>1, <1>5, <2>1
    <3> QED BY <3>1 DEF EventsOf
  <2>2. CASE c \notin some
    BY <1>1, <1>5, <2>2 DEF EventsTrue
  <2> QED BY <2>1, <2>2
<1>6. EventsTrue'
  <2>1. ASSUME NEW c \in Conns, NEW m \in Loops,
               c \in active'[m] \/ (pc'[m] = "handling" /\ c \in current'[m])
        PROVE  wire[c] # {}
    BY <1>2, <1>3, <1>4, <2>1 DEF EventsTrue
  <2> QED BY <1>2, <1>5, <2>1 DEF EventsTrue
<1>7. ServedOrWithdrawn'
  BY <1>2 DEF ServedOrWithdrawn
<1> QED BY <1>6, <1>7

(* The channel whose events are handled was listed. *)
LEMMA BeginEventServing ==
  ASSUME Inv, ServedOrWithdrawn, EventsTrue, NEW l \in Loops, NEW c \in Conns,
         BeginEvent(l, c)
  PROVE  ServedOrWithdrawn' /\ EventsTrue'
<1> USE DEF kernel
<1>1. UNCHANGED <<wire, trigger, state, answered>>
  BY DEF BeginEvent
<1>2. wire[c] # {}
  BY DEF BeginEvent, EventsTrue
<1>3. /\ active'[l] \subseteq active[l] /\ current'[l] = {c}
      /\ \A m \in Loops \ {l} : /\ active'[m] = active[m]
                                /\ current'[m] = current[m] /\ pc'[m] = pc[m]
  BY DEF BeginEvent, Inv, TypeOK
<1>4. EventsTrue'
  BY <1>1, <1>2, <1>3 DEF EventsTrue
<1>5. ServedOrWithdrawn'
  BY <1>1 DEF ServedOrWithdrawn
<1> QED BY <1>4, <1>5

(* HandleClose comes after an answer, an EPOLLERR, or a read that found     *)
(* nothing; and a connection it has closed is listed by no loop.            *)
LEMMA HandleCloseServing ==
  ASSUME Inv, Inv', ServedOrWithdrawn, EventsTrue, NEW l \in Loops, NEW c \in Conns,
         HandleRequest(l, c) \/ HandleEndOfInput(l, c) \/ HandleError(l, c)
  PROVE  ServedOrWithdrawn' /\ EventsTrue'
<1>1. Handling(l, c) /\ HandleClose(l, c)
  BY DEF HandleRequest, HandleEndOfInput, HandleError
<1>2. /\ state' = [state EXCEPT ![c] = "kDisconnected"] /\ pc' = [pc EXCEPT ![l] = "closing"]
      /\ UNCHANGED <<trigger, active, current>>
  BY <1>1 DEF HandleClose, SetDisconnected
<1>3. /\ state'[c] = "kDisconnected" /\ \A d \in Conns \ {c} : state'[d] = state[d]
      /\ pc'[l] = "closing" /\ \A m \in Loops \ {l} : pc'[m] = pc[m]
  BY <1>2 DEF Inv, TypeOK
<1>4. /\ \A d \in Conns \ {c} : wire'[d] = wire[d] /\ (d \in answered' <=> d \in answered)
      /\ "EPOLLERR" \in trigger[c] => wire'[c] = wire[c]
  <2>1. CASE HandleRequest(l, c)
    <3>1. /\ "EPOLLERR" \notin trigger[c] /\ answered' = answered \cup {c}
          /\ wire' = [wire EXCEPT ![c] = @ \ {"data"}]
      BY <2>1 DEF HandleRequest
    <3>2. \A d \in Conns \ {c} : wire'[d] = wire[d]
      BY <3>1 DEF Inv, TypeOK
    <3> QED BY <3>1, <3>2
  <2>2. CASE HandleEndOfInput(l, c) \/ HandleError(l, c)
    BY <2>2 DEF HandleEndOfInput, HandleError
  <2> QED BY <2>1, <2>2
<1>5. \A m \in Loops : c \notin active'[m] /\ ~(pc'[m] = "handling" /\ c \in current'[m])
  BY <1>3 DEF Inv, ListedAreWatched, WatchedAreConnected
<1>6. c \in answered' \/ "rst" \in wire'[c] \/ ("fin" \in wire'[c] /\ "data" \notin wire'[c])
  <2>1. CASE HandleRequest(l, c)
    BY <2>1 DEF HandleRequest
  <2>2. CASE HandleError(l, c)
    BY <2>2 DEF HandleError, EventsTrue
  <2>3. CASE HandleEndOfInput(l, c)
    <3>1. wire[c] # {} /\ wire[c] \in SUBSET {"data", "fin", "rst"}
      BY <1>1 DEF Handling, EventsTrue, Inv, TypeOK
    <3>2. "data" \notin wire[c] /\ wire' = wire
      BY <2>3 DEF HandleEndOfInput
    <3> QED BY <3>1, <3>2
  <2> QED BY <2>1, <2>2, <2>3
<1>7. ServedOrWithdrawn'
  BY <1>3, <1>4, <1>6 DEF ServedOrWithdrawn
<1>8. EventsTrue'
  <2>1. ASSUME NEW d \in Conns \ {c}, NEW m \in Loops,
               d \in active'[m] \/ (pc'[m] = "handling" /\ d \in current'[m])
        PROVE  wire'[d] # {}
    BY <1>2, <1>3, <1>4, <2>1 DEF EventsTrue
  <2>2. \A d \in Conns : "EPOLLERR" \in trigger'[d] => "rst" \in wire'[d]
    BY <1>2, <1>4 DEF EventsTrue
  <2> QED BY <1>5, <2>1, <2>2 DEF EventsTrue
<1> QED BY <1>7, <1>8

(* Every step keeps both. *)
LEMMA ServingNext ==
  ASSUME DistinctNames, Inv, Inv', ServedOrWithdrawn, EventsTrue, [Next]_vars
  PROVE  ServedOrWithdrawn' /\ EventsTrue'
<1> USE DEF kernel, conn, tables, thread
<1>1. CASE RefuseConnection \/ UNCHANGED vars
  <2>1. /\ UNCHANGED <<wire, trigger, answered, state, pc, current>>
        /\ active' = active \/ active' = [active EXCEPT ![Base] = @ \ {Acceptor}]
    BY <1>1 DEF RefuseConnection, vars
  <2>2. \A m \in Loops : active'[m] \subseteq active[m]
    <3>1. active \in [Loops -> SUBSET (Conns \cup {Acceptor})]
      BY DEF Inv, TypeOK
    <3> QED BY <2>1, <3>1
  <2> QED BY <2>1, <2>2, ServingUndisturbed
<1>2. ASSUME NEW c \in Conns, NEW f \in Fds, HandleConnection(c, f)
      PROVE  ServedOrWithdrawn' /\ EventsTrue'
  <2>1. /\ UNCHANGED <<wire, trigger, answered, pc, current>>
        /\ \A m \in Loops : active'[m] \subseteq active[m]
    BY <1>2 DEF HandleConnection, Inv, TypeOK
  <2>2. \A d \in Conns : state'[d] = "kDisconnected" => state[d] = "kDisconnected"
    <3>1. state' \in {[state EXCEPT ![c] = "kConnected"], [state EXCEPT ![c] = "kConnecting"]}
      BY <1>2 DEF HandleConnection, EstablishInLoop, ConnectionEstablished
    <3> QED BY <3>1 DEF Inv, TypeOK
  <2> QED BY <2>1, <2>2, ServingUndisturbed
<1>3. ASSUME NEW l \in Loops, LoopStep(l) PROVE ServedOrWithdrawn' /\ EventsTrue'
  <2>1. ASSUME NEW c \in Conns, EndEvent(l, c) \/ UseDestroyed(l, c)
        PROVE  ServedOrWithdrawn' /\ EventsTrue'
    <3>1. /\ UNCHANGED <<wire, trigger, answered, state, active>>
          /\ current' = [current EXCEPT ![l] = {}]
          /\ pc' = [pc EXCEPT ![l] = "dispatch"] \/ pc' = [m \in Loops |-> "dead"]
      BY <2>1 DEF EndEvent, UseDestroyed
    <3>2. \A m \in Loops : pc'[m] = "handling" => pc[m] = "handling" /\ current'[m] = current[m]
      <4>1. current \in [Loops -> SUBSET Conns] /\ DOMAIN pc = Loops
        BY DEF Inv, TypeOK
      <4>2. \A m \in Loops \ {l} : current'[m] = current[m]
        BY <3>1, <4>1
      <4>3. CASE pc' = [pc EXCEPT ![l] = "dispatch"]
        BY <4>1, <4>2, <4>3
      <4>4. CASE pc' = [m \in Loops |-> "dead"]
        BY <4>4
      <4> QED BY <3>1, <4>3, <4>4
    <3> QED BY <3>1, <3>2, ServingUndisturbed
  <2>2. CASE DropReferences(l) \/ SwapFunctors(l) \/ EndBatch(l)
    <3>1. /\ UNCHANGED <<wire, trigger, answered, state, active, current>>
          /\ \E there \in {"leaving", "run", "poll"} : pc' = [pc EXCEPT ![l] = there]
      BY <2>2 DEF DropReferences, SwapFunctors, EndBatch
    <3>2. \A m \in Loops : pc'[m] = "handling" => pc[m] = "handling"
      BY <3>1 DEF Inv, TypeOK
    <3> QED BY <3>1, <3>2, ServingUndisturbed
  <2>3. CASE RunFunctor(l)
    <3>1. UNCHANGED <<wire, trigger, answered, pc, active, current>>
      BY <2>3 DEF RunFunctor
    <3>2. state' = state \/ \E c : state' = [state EXCEPT ![c] = "kConnected"]
      BY <2>3 DEF RunFunctor, ConnectionEstablished
    <3>3. \A d \in Conns : state'[d] = "kDisconnected" => state[d] = "kDisconnected"
      <4>1. state \in [Conns -> {"none", "kConnecting", "kConnected", "kDisconnected"}]
        BY DEF Inv, TypeOK
      <4> QED BY <3>2, <4>1
    <3> QED BY <3>1, <3>3, ServingUndisturbed
  <2> QED BY <1>3, <2>1, <2>2, <2>3, PollServing, BeginEventServing, HandleCloseServing
          DEF LoopStep, HandleChannel
<1> QED BY <1>1, <1>2, <1>3, ClientServing DEF Next, Accept

(* No request is given up: however the loops interleave, the server closes  *)
(* a connection only once it has answered it, or its client has reset it or *)
(* ended its input with nothing unread.  With RequestAnswered, which says   *)
(* that something of the kind happens, this says that the right thing does. *)
THEOREM RequestsServedOrWithdrawn ==
  ASSUME DistinctNames PROVE Spec => []ServedOrWithdrawn
<1>1. Init => ServedOrWithdrawn /\ EventsTrue
  BY DEF Init, ServedOrWithdrawn, EventsTrue
<1>2. Inv /\ Inv' /\ ServedOrWithdrawn /\ EventsTrue /\ [Next]_vars
      => ServedOrWithdrawn' /\ EventsTrue'
  BY ServingNext
<1> QED BY <1>1, <1>2, Invariance, PTL DEF Spec

(* What the thread of loop l needs to go on: a channel of the list that can *)
(* be handled, the acceptor's with a connection to accept and a descriptor  *)
(* for it or none at all; inside HandleEvent, the one connection it is for, *)
(* alive before its callback; a batch that has not been overrun.            *)
CanGoOn(l) ==
  /\ pc[l] = "dispatch"
     => \/ active[l] = {}
        \/ \E c \in Conns : c \in active[l]
        \/ /\ l = Base /\ Acceptor \in active[l] /\ backlog # <<>>
           /\ FreeFds = {} \/ \E f \in Fds : LowestFree(f)
  /\ pc[l] = "handling" => \E c \in Conns : Handling(l, c)
  /\ pc[l] = "leaving" => \E c \in Conns : current[l] = {c}
  /\ pc[l] = "run" => ran[l] <= Len(batch[l])

NoLoopStuck == \A l \in Loops : CanGoOn(l)

(* A loop inside HandleEvent is there for one connection, and the acceptor  *)
(* is listed only in its own loop, while a connection waits for accept4.    *)
OneAtATime ==
  \A l \in Loops :
    /\ pc[l] \in {"handling", "closing", "leaving"} => \E c \in Conns : current[l] = {c}
    /\ Acceptor \in active[l] => l = Base /\ backlog # <<>>

(* A set of naturals that is not empty has a least element: the kernel has  *)
(* a lowest descriptor to return.                                           *)
LEMMA LeastOf ==
  ASSUME NEW S, S \subseteq Nat, S # {}
  PROVE  \E m \in S : \A k \in S : m <= k
<1>1. IsWellFoundedOn(OpToRel(<, Nat), Nat)
  BY NatLessThanWellFounded, Zenon
<1>2. PICK m \in S : \A k \in S : ~(<<k, m>> \in OpToRel(<, Nat))
  BY <1>1, WFMin, Zenon
<1>3. ASSUME NEW k \in S PROVE m <= k
  <2>1. k \in Nat /\ m \in Nat
    OBVIOUS
  <2>2. k < m => <<k, m>> \in OpToRel(<, Nat)
    BY <2>1 DEF OpToRel
  <2>3. ~(k < m)
    BY <1>2, <2>2, Zenon
  <2> QED BY <2>1, <2>3
<1> QED BY <1>3, Zenon

(* A step of one loop, or of none, that leaves the others where they are    *)
(* and accepts nothing.                                                     *)
LEMMA OneAtATimeElsewhere ==
  ASSUME OneAtATime, NEW l \in Loops,
         \A m \in Loops \ {l} : pc'[m] = pc[m] /\ current'[m] = current[m] /\ active'[m] = active[m],
         backlog # <<>> => backlog' # <<>>,
         pc'[l] \in {"handling", "closing", "leaving"} => \E c \in Conns : current'[l] = {c},
         Acceptor \in active'[l] => l = Base /\ backlog' # <<>>
  PROVE  OneAtATime'
<1>1. ASSUME NEW m \in Loops \ {l}
      PROVE  /\ pc'[m] \in {"handling", "closing", "leaving"} => \E c \in Conns : current'[m] = {c}
             /\ Acceptor \in active'[m] => m = Base /\ backlog' # <<>>
  BY DEF OneAtATime
<1> QED BY <1>1 DEF OneAtATime

(* Accepting or refusing the oldest connection takes the acceptor off the   *)
(* list of the one loop that could have it there.                           *)
LEMMA AcceptedOneAtATime ==
  ASSUME Inv, OneAtATime, UNCHANGED <<pc, current>>,
         active' = [active EXCEPT ![Base] = @ \ {Acceptor}]
  PROVE  OneAtATime'
<1>1. \A l \in Loops : Acceptor \notin active'[l]
  <2>1. /\ \A l \in Loops \ {Base} : active'[l] = active[l]
        /\ active'[Base] = active[Base] \ {Acceptor}
    BY BaseLoop DEF Inv, TypeOK
  <2> QED BY <2>1 DEF OneAtATime
<1> QED BY <1>1 DEF OneAtATime

(* Every step of a loop keeps it. *)
LEMMA LoopOneAtATime ==
  ASSUME Inv, OneAtATime, NEW l \in Loops, LoopStep(l)
  PROVE  OneAtATime'
<1> USE DEF kernel, conn, tables
<1>1. CASE Poll(l)
  <2>1. PICK some \in SUBSET Ready(l) : active' = [active EXCEPT ![l] = some]
    BY <1>1 DEF Poll
  <2>2. pc' = [pc EXCEPT ![l] = "dispatch"] /\ UNCHANGED <<current, backlog>>
    BY <1>1 DEF Poll
  <2>3. Acceptor \in some => l = Base /\ backlog # <<>>
    BY BaseLoop DEF Ready, Inv, TypeOK
  <2> QED BY <2>1, <2>2, <2>3, OneAtATimeElsewhere DEF Inv, TypeOK
<1>2. ASSUME NEW c \in Conns, BeginEvent(l, c) PROVE OneAtATime'
  <2>1. /\ active' = [active EXCEPT ![l] = @ \ {c}] /\ current' = [current EXCEPT ![l] = {c}]
        /\ pc' = [pc EXCEPT ![l] = "handling"] /\ UNCHANGED backlog
    BY <1>2 DEF BeginEvent
  <2>2. Acceptor \in active'[l] => l = Base /\ backlog # <<>>
    BY <2>1 DEF Inv, TypeOK, OneAtATime
  <2> QED BY <2>1, <2>2, OneAtATimeElsewhere DEF Inv, TypeOK
<1>3. ASSUME NEW c \in Conns,
             HandleRequest(l, c) \/ HandleEndOfInput(l, c) \/ HandleError(l, c)
      PROVE  OneAtATime'
  <2>1. current[l] = {c} /\ HandleClose(l, c)
    BY <1>3 DEF HandleRequest, HandleEndOfInput, HandleError, Handling
  <2>2. pc' = [pc EXCEPT ![l] = "closing"] /\ UNCHANGED <<backlog, active, current>>
    BY <2>1 DEF HandleClose
  <2> QED BY <2>1, <2>2, OneAtATimeElsewhere DEF Inv, TypeOK, OneAtATime
<1>4. CASE DropReferences(l)
  <2>1. /\ pc[l] = "closing" /\ pc' = [pc EXCEPT ![l] = "leaving"]
        /\ UNCHANGED <<backlog, active, current>>
    BY <1>4 DEF DropReferences
  <2> QED BY <2>1, OneAtATimeElsewhere DEF Inv, TypeOK, OneAtATime
<1>5. ASSUME NEW c \in Conns, EndEvent(l, c) \/ UseDestroyed(l, c) PROVE OneAtATime'
  <2>1. /\ current' = [current EXCEPT ![l] = {}] /\ UNCHANGED <<backlog, active>>
        /\ pc' \in {[pc EXCEPT ![l] = "dispatch"], [m \in Loops |-> "dead"]}
    BY <1>5 DEF EndEvent, UseDestroyed
  <2>2. CASE pc' = [pc EXCEPT ![l] = "dispatch"]
    BY <2>1, <2>2, OneAtATimeElsewhere DEF Inv, TypeOK, OneAtATime
  <2>3. CASE pc' = [m \in Loops |-> "dead"]
    BY <2>1, <2>3 DEF OneAtATime
  <2> QED BY <2>1, <2>2, <2>3
<1>6. CASE SwapFunctors(l) \/ EndBatch(l)
  <2>1. /\ pc' = [pc EXCEPT ![l] = "run"] \/ pc' = [pc EXCEPT ![l] = "poll"]
        /\ UNCHANGED <<backlog, active, current>>
    BY <1>6 DEF SwapFunctors, EndBatch
  <2>2. pc'[l] \in {"run", "poll"} /\ \A m \in Loops \ {l} : pc'[m] = pc[m]
    BY <2>1 DEF Inv, TypeOK
  <2> QED BY <2>1, <2>2, OneAtATimeElsewhere DEF OneAtATime
<1>7. CASE RunFunctor(l)
  <2>1. UNCHANGED <<backlog, active, current, pc>>
    BY <1>7 DEF RunFunctor
  <2> QED BY <2>1 DEF OneAtATime
<1> QED BY <1>1, <1>2, <1>3, <1>4, <1>5, <1>6, <1>7 DEF LoopStep, HandleChannel

(* Every step keeps it. *)
LEMMA OneAtATimeNext ==
  ASSUME Inv, OneAtATime, [Next]_vars
  PROVE  OneAtATime'
<1> USE DEF kernel, conn, tables, thread
<1>1. CASE Client \/ UNCHANGED vars
  <2>1. UNCHANGED <<pc, current, active>>
    BY <1>1 DEF Client, Connect, ClientSends, vars
  <2>2. backlog # <<>> => backlog' # <<>>
    <3>1. backlog \in Seq(Conns)
      BY DEF Inv, TypeOK
    <3>2. backlog' = backlog \/ \E c \in Conns : backlog' = Append(backlog, c)
      BY <1>1 DEF Client, Connect, ClientSends, vars
    <3> QED BY <3>1, <3>2
  <2> QED BY <2>1, <2>2 DEF OneAtATime
<1>2. CASE Accept
  BY <1>2, AcceptedOneAtATime DEF Accept, RefuseConnection, HandleConnection
<1> QED BY <1>1, <1>2, LoopOneAtATime DEF Next

(* No loop's thread comes to a point it cannot leave: of the ways the       *)
(* loops' hand-overs, epoll lists and descriptors can stand to each other,  *)
(* none leaves a thread inside a round without a step to take.  A loop of   *)
(* this server rests only in epoll_wait, unless the process has died of     *)
(* UseDestroyed.                                                            *)
THEOREM LoopsNeverStuck == ASSUME DistinctNames PROVE Spec => []NoLoopStuck
<1>1. Init => OneAtATime
  BY DEF Init, OneAtATime
<1>2. Inv /\ OneAtATime /\ [Next]_vars => OneAtATime'
  BY OneAtATimeNext
<1>3. ASSUME Inv, OneAtATime, NEW l \in Loops PROVE CanGoOn(l)
  <2>1. ASSUME pc[l] = "dispatch", active[l] # {}, \A c \in Conns : c \notin active[l]
        PROVE  /\ l = Base /\ Acceptor \in active[l] /\ backlog # <<>>
               /\ FreeFds = {} \/ \E f \in Fds : LowestFree(f)
    <3>1. Acceptor \in active[l]
      BY <1>3, <2>1 DEF Inv, TypeOK
    <3>2. FreeFds \subseteq Nat /\ FreeFds \subseteq Fds
      BY ServerAssumption DEF FreeFds
    <3>3. FreeFds # {} => \E f \in FreeFds : \A g \in FreeFds : f <= g
      BY <3>2, LeastOf
    <3> QED BY <1>3, <3>1, <3>2, <3>3 DEF OneAtATime, LowestFree
  <2>2. ASSUME pc[l] = "handling" PROVE \E c \in Conns : Handling(l, c)
    <3>1. PICK c \in Conns : current[l] = {c}
      BY <1>3, <2>2 DEF OneAtATime
    <3>2. state[c] = "kConnected"
      BY <1>3, <2>2, <3>1 DEF Inv, ListedAreWatched, WatchedAreConnected
    <3> QED BY <1>3, <2>2, <3>1, <3>2, WatchedAreAlive DEF Handling
  <2>3. pc[l] = "leaving" => \E c \in Conns : current[l] = {c}
    BY <1>3 DEF OneAtATime
  <2>4. ran[l] <= Len(batch[l])
    BY <1>3 DEF Inv, StacksEmpty
  <2> QED BY <2>1, <2>2, <2>3, <2>4, Zenon DEF CanGoOn
<1>4. Inv /\ OneAtATime => NoLoopStuck
  BY <1>3 DEF NoLoopStuck
<1> QED BY <1>1, <1>2, <1>4, Invariance, PTL DEF Spec

-----------------------------------------------------------------------------
(* The refinement of ConnectionLife.  What a step does to the phases        *)
(* depends on the states and on who still holds each connection: every loop *)
(* step but HandleConnection, HandleClose and the two steps that destroy    *)
(* references leaves both alone.                                            *)

(* The value of Phase, without CASE. *)
LEMMA PhaseValue ==
  ASSUME NEW c
  PROVE  /\ state[c] = "none" => Phase(c) = "absent"
         /\ Alive(c) /\ state[c] = "kDisconnected" => Phase(c) = "closing"
         /\ Alive(c) /\ state[c] # "kDisconnected" => Phase(c) = "open"
BY DEF Phase, Alive

(* The same after a step. *)
LEMMA PhaseValueNext ==
  ASSUME NEW c
  PROVE  /\ state'[c] # "none" /\ ~Alive(c)' => Phase(c)' = "gone"
         /\ Alive(c)' /\ state'[c] = "kDisconnected" => Phase(c)' = "closing"
         /\ Alive(c)' /\ state'[c] # "kDisconnected" => Phase(c)' = "open"
BY DEF Phase, Alive

(* A step that keeps what Phase looks at of a connection keeps its phase. *)
LEMMA SamePhase ==
  ASSUME NEW c, Alive(c)' = Alive(c),
         \/ state'[c] = state[c]
         \/ state[c] = "kConnecting" /\ state'[c] = "kConnected"
  PROVE  Phase(c)' = Phase(c)
BY DEF Phase

(* Steps that answer nobody and keep every phase are invisible. *)
LEMMA Invisible ==
  ASSUME UNCHANGED answered, \A c \in Conns : Phase(c)' = Phase(c)
  PROVE  UNCHANGED Life!vars
BY DEF Life!vars

(* In particular steps that leave every holder and state_ alone. *)
LEMMA HoldersKeepPhases ==
  ASSUME UNCHANGED <<holders, answered>>
  PROVE  UNCHANGED Life!vars
<1>1. \A c \in Conns : Alive(c)' = Alive(c) /\ state'[c] = state[c]
  BY SameHolders DEF holders
<1> QED BY <1>1, SamePhase, Invisible

(* Taking the queue over as the batch moves references, and drops none: the *)
(* previous batch is gone.                                                  *)
LEMMA SwapKeepsPhases ==
  ASSUME Inv, NEW l \in Loops, SwapFunctors(l)
  PROVE  UNCHANGED Life!vars
<1> USE DEF conn, tables
<1>1. batch[l] = <<>>
  BY DEF SwapFunctors, Inv, StacksEmpty
<1>2. /\ batch'[l] = queue[l] /\ queue'[l] = batch[l]
      /\ \A m \in Loops \ {l} : batch'[m] = batch[m] /\ queue'[m] = queue[m]
      /\ UNCHANGED <<state, connMap, held, answered>>
  BY <1>1 DEF SwapFunctors, Inv, TypeOK
<1>3. \A m \in Loops : Bound(queue'[m]) \cup Bound(batch'[m])
                        = Bound(queue[m]) \cup Bound(batch[m])
  BY <1>2
<1>4. \A c \in Conns : Alive(c)' = Alive(c)
  BY <1>2, <1>3 DEF Alive, Referenced
<1> QED BY <1>2, <1>4, SamePhase, Invisible

(* A functor that runs stays in the batch, and holds its connection until   *)
(* the whole batch is destroyed.                                            *)
LEMMA FunctorKeepsPhases ==
  ASSUME DistinctNames, Inv, NEW l \in Loops, RunFunctor(l)
  PROVE  UNCHANGED Life!vars
<1> DEFINE i == ran[l] + 1
           c == batch[l][i].conn
<1>1. batch[l] \in Seq(Functors) /\ i \in DOMAIN batch[l] /\ i > ran[l]
  BY DEF RunFunctor, Inv, TypeOK
<1>2. batch[l][i] \in Functors /\ c \in Conns /\ c \in Bound(batch[l])
  <2>1. batch[l][i] \in Functors /\ c \in Bound(batch[l])
    BY <1>1 DEF Bound
  <2> QED BY <2>1 DEF Functors
<1>3. UNCHANGED <<queue, batch, held, answered>>
  BY DEF RunFunctor
<1>4. state[c] # "none"
  BY <1>1 DEF Inv, FunctorsDue, Due
<1>5. CASE batch[l][i].op = Established
  <2>1. ConnectionEstablished(l, c, fd[c]) /\ UNCHANGED connMap
    BY <1>5 DEF RunFunctor, Established, Remove
  <2>2. state[c] = "kConnecting"
    BY <1>1, <1>5 DEF Inv, FunctorsDue, Due
  <2> HIDE DEF c
  <2>3. state'[c] = "kConnected" /\ \A d \in Conns \ {c} : state'[d] = state[d]
    BY <1>2, <2>1 DEF ConnectionEstablished, Inv, TypeOK
  <2>4. \A d \in Conns : Alive(d)' = Alive(d)
    BY <1>3, <2>1, <2>2, <2>3 DEF Alive, Referenced
  <2>5. \A d \in Conns : state'[d] = state[d]
                        \/ (state[d] = "kConnecting" /\ state'[d] = "kConnected")
    BY <2>2, <2>3
  <2> QED BY <1>3, <2>4, <2>5, SamePhase, Invisible
<1>6. CASE batch[l][i].op = Remove
  <2>1. EraseFromMap(c) /\ UNCHANGED state
    BY <1>6 DEF RunFunctor, Established, Remove
  <2> HIDE DEF c
  <2>2. connMap' = connMap \ {c}
    BY <1>2, <2>1, EraseOnly
  <2>3. \A d \in Conns : Alive(d)' = Alive(d)
    BY <1>2, <1>3, <2>1, <2>2 DEF Alive, Referenced
  <2> QED BY <1>3, <2>1, <2>3, SamePhase, Invisible
<1> QED BY <1>2, <1>5, <1>6 DEF Functors

(* Queueing a functor adds a reference to its connection and to no other. *)
LEMMA BoundAppend ==
  ASSUME NEW q \in Seq(Functors), NEW e \in Functors
  PROVE  Bound(Append(q, e)) = Bound(q) \cup {e.conn}
<1>1. DOMAIN Append(q, e) = DOMAIN q \cup {Len(q) + 1}
      /\ Append(q, e)[Len(q) + 1] = e
      /\ \A i \in DOMAIN q : Append(q, e)[i] = q[i]
  OBVIOUS
<1> QED BY <1>1 DEF Bound

(* So a step that queues one on some loop changes who holds its connection. *)
LEMMA QueuedForOne ==
  ASSUME Inv, NEW l \in Loops, NEW op \in {Established, Remove}, NEW c \in Conns,
         queue' = [queue EXCEPT ![l] = Append(@, Functor(op, c))]
  PROVE  \A m \in Loops : \A d \in Conns \ {c} : d \in Bound(queue'[m]) <=> d \in Bound(queue[m])
<1>1. queue[l] \in Seq(Functors) /\ \A m \in Loops \ {l} : queue'[m] = queue[m]
  BY DEF Inv, TypeOK
<1>2. queue'[l] = Append(queue[l], Functor(op, c))
  BY DEF Inv, TypeOK
<1>3. Functor(op, c) \in Functors /\ Functor(op, c).conn = c
  BY DEF Functors, Functor
<1>4. Bound(queue'[l]) = Bound(queue[l]) \cup {c}
  BY <1>1, <1>2, <1>3, BoundAppend
<1> QED BY <1>1, <1>4

(* What HandleConnection makes is open: connection_map_ holds it. *)
LEMMA HandleConnectionOpens ==
  ASSUME DistinctNames, Inv, NEW c \in Conns, NEW f \in Fds, HandleConnection(c, f)
  PROVE  Life!Open(c)
<1>1. PICK l \in Loops :
    /\ state[c] = "none" /\ connMap' = connMap \cup {c}
    /\ \/ state' = [state EXCEPT ![c] = "kConnected"] /\ UNCHANGED queue
       \/ /\ state' = [state EXCEPT ![c] = "kConnecting"]
          /\ queue' = [queue EXCEPT ![l] = Append(@, Functor(Established, c))]
  BY HandleConnectionEffect
<1>2. UNCHANGED <<batch, held, answered>>
  BY DEF HandleConnection
<1>3. state'[c] \in {"kConnected", "kConnecting"} /\ \A d \in Conns \ {c} : state'[d] = state[d]
  BY <1>1 DEF Inv, TypeOK
<1>4. Alive(c)'
  BY <1>1, <1>3 DEF Alive, Referenced
<1>5. ASSUME NEW d \in Conns \ {c} PROVE Alive(d)' = Alive(d)
  <2>1. \A m \in Loops : d \in Bound(queue'[m]) <=> d \in Bound(queue[m])
    BY <1>1, QueuedForOne
  <2> QED BY <1>1, <1>2, <1>3, <2>1 DEF Alive, Referenced
<1>6. Phase(c) = "absent" /\ Phase(c)' = "open"
  BY <1>1, <1>3, <1>4, PhaseValue, PhaseValueNext
<1>7. \A d \in Conns \ {c} : Phase(d)' = Phase(d)
  BY <1>3, <1>5, SamePhase
<1> QED BY <1>2, <1>6, <1>7 DEF Life!Open, Life!In

(* HandleClose closes the one connection it is called for, which its own    *)
(* stack keeps; the message callback before it answered that connection.    *)
LEMMA HandleCloseCloses ==
  ASSUME DistinctNames, Inv, NEW l \in Loops, NEW c \in Conns, Handling(l, c),
         HandleClose(l, c), answered' \in {answered, answered \cup {c}}
  PROVE  Life!Close(c)
<1>1. Alive(c) /\ state[c] = "kConnected" /\ held[l] = {}
  BY DEF Handling, Inv, ListedAreWatched, WatchedAreConnected, StacksEmpty
<1>2. /\ state' = [state EXCEPT ![c] = "kDisconnected"]
      /\ held' = [held EXCEPT ![l] = {c}] /\ UNCHANGED batch
  BY DEF HandleClose, SetDisconnected
<1>3. /\ state'[c] = "kDisconnected" /\ \A d \in Conns \ {c} : state'[d] = state[d]
      /\ held'[l] = {c} /\ \A m \in Loops \ {l} : held'[m] = held[m]
  BY <1>2 DEF Inv, TypeOK
<1>4. \/ connMap' = connMap \ {c} /\ UNCHANGED queue
      \/ UNCHANGED connMap /\ queue' = [queue EXCEPT ![Base] = Append(@, Functor(Remove, c))]
  BY EraseOnly DEF HandleClose, RemoveConnection
<1>5. Alive(c)'
  BY <1>3 DEF Alive, Referenced
<1>6. ASSUME NEW d \in Conns \ {c} PROVE Alive(d)' = Alive(d)
  <2>1. \A m \in Loops : d \in Bound(queue'[m]) <=> d \in Bound(queue[m])
    BY <1>4, QueuedForOne DEF Loops
  <2> QED BY <1>1, <1>2, <1>3, <1>4, <2>1 DEF Alive, Referenced
<1>7. Phase(c) = "open" /\ Phase(c)' = "closing"
  BY <1>1, <1>3, <1>5, PhaseValue, PhaseValueNext
<1>8. \A d \in Conns \ {c} : Phase(d)' = Phase(d)
  BY <1>3, <1>6, SamePhase
<1> QED BY <1>7, <1>8 DEF Life!Close, Life!In

(* A step that only destroys references releases connections that are       *)
(* closed: connection_map_, which it leaves alone, holds every other.       *)
LEMMA DestroyingReleases ==
  ASSUME Inv, UNCHANGED <<state, connMap, answered>>,
         \A c \in Conns : Alive(c)' => Alive(c)
  PROVE  (\E S \in SUBSET Life!In("closing") : Life!Release(S)) \/ UNCHANGED Life!vars
<1> DEFINE S == {c \in Conns : Alive(c) /\ ~Alive(c)'}
<1>1. \A c \in S : state[c] = "kDisconnected"
  <2>1. \A c \in S : state[c] # "none" /\ c \notin connMap
    BY DEF Alive, Referenced
  <2> QED BY <2>1 DEF Inv, TypeOK, MapHoldsOpen
<1>2. \A c \in S : Phase(c) = "closing" /\ Phase(c)' = "gone"
  <2>1. \A c \in S : state[c] = state'[c] /\ state'[c] # "none" /\ Alive(c) /\ ~Alive(c)'
    BY <1>1
  <2> QED BY <1>1, <2>1, PhaseValue, PhaseValueNext
<1>3. \A c \in Conns \ S : Phase(c)' = Phase(c)
  <2>1. \A c \in Conns \ S : Alive(c)' = Alive(c)
    BY DEF Alive
  <2> QED BY <2>1, SamePhase
<1>4. S \subseteq Life!In("closing")
  BY <1>2 DEF Life!In
<1>5. CASE S = {}
  BY <1>3, <1>5, Invisible
<1>6. CASE S # {}
  <2>1. Life!Release(S)
    BY <1>2, <1>3, <1>6 DEF Life!Release
  <2> QED BY <1>4, <2>1
<1> QED BY <1>5, <1>6

-----------------------------------------------------------------------------
(* Nothing exists at first. *)
LEMMA InitMaps == Init => Life!Init
<1> SUFFICES ASSUME Init PROVE Life!Init
  OBVIOUS
<1>1. \A c \in Conns : Phase(c) = "absent"
  BY PhaseValue DEF Init
<1> QED BY <1>1 DEF Init, Life!Init

(* Every step is a step of ConnectionLife, or invisible to it. *)
LEMMA StepMaps == DistinctNames /\ Inv /\ [Next]_vars => [Life!Next]_(Life!vars)
<1> SUFFICES ASSUME DistinctNames, Inv, [Next]_vars PROVE [Life!Next]_(Life!vars)
  OBVIOUS
<1> USE DEF kernel, conn, tables, thread
<1>1. CASE Client \/ RefuseConnection \/ UNCHANGED vars
  BY <1>1, HoldersKeepPhases DEF vars, Client, Connect, ClientSends, RefuseConnection, holders
<1>2. ASSUME NEW c \in Conns, NEW f \in Fds, HandleConnection(c, f)
      PROVE  Life!Next
  BY <1>2, HandleConnectionOpens DEF Life!Next
<1>3. ASSUME NEW l \in Loops, LoopStep(l)
      PROVE  Life!Next \/ UNCHANGED Life!vars
  <2>1. CASE Poll(l)
    BY <2>1, HoldersKeepPhases DEF Poll, holders
  <2>2. ASSUME NEW c \in Conns, BeginEvent(l, c) \/ EndEvent(l, c) \/ UseDestroyed(l, c)
        PROVE  UNCHANGED Life!vars
    BY <2>2, HoldersKeepPhases DEF BeginEvent, EndEvent, UseDestroyed, holders
  <2>3. ASSUME NEW c \in Conns, HandleRequest(l, c) \/ HandleEndOfInput(l, c) \/ HandleError(l, c)
        PROVE  Life!Next
    <3>1. Handling(l, c) /\ HandleClose(l, c) /\ answered' \in {answered, answered \cup {c}}
      BY <2>3 DEF HandleRequest, HandleEndOfInput, HandleError
    <3>2. Life!Close(c)
      BY <3>1, HandleCloseCloses
    <3> QED BY <3>2 DEF Life!Next
  <2>4. CASE HandleChannel(l)
    BY <2>2, <2>3, <2>4 DEF HandleChannel
  <2>5. CASE SwapFunctors(l) \/ RunFunctor(l)
    BY <2>5, SwapKeepsPhases, FunctorKeepsPhases
  <2>6. CASE DropReferences(l)
    <3>1. UNCHANGED <<state, connMap, answered>> /\ \A c \in Conns : Alive(c)' => Alive(c)
      BY <2>6 DEF DropReferences, Inv, TypeOK, Alive, Referenced
    <3> QED BY <3>1, DestroyingReleases DEF Life!Next
  <2>7. CASE EndBatch(l)
    <3>1. UNCHANGED <<state, connMap, answered, queue, held>>
          /\ batch'[l] = <<>> /\ \A m \in Loops \ {l} : batch'[m] = batch[m]
      BY <2>7 DEF EndBatch, Inv, TypeOK
    <3>2. \A c \in Conns : Alive(c)' => Alive(c)
      BY <3>1 DEF Alive, Referenced, Bound
    <3> QED BY <3>1, <3>2, DestroyingReleases DEF Life!Next
  <2> QED BY <1>3, <2>1, <2>4, <2>5, <2>6, <2>7 DEF LoopStep
<1> QED BY <1>1, <1>2, <1>3 DEF Next, Accept

(* Seen from outside, for any clients, pool and interleaving: a connection  *)
(* is opened once, answered only as the last thing before it closes, and    *)
(* destroyed only after that, and never comes back.                         *)
THEOREM RefinesConnectionLife == ASSUME DistinctNames PROVE Spec => ImplementsConnectionLife
<1>1. Inv /\ [Next]_vars => [Life!Next]_(Life!vars)
  BY StepMaps
<1> QED BY <1>1, InitMaps, Invariance, PTL DEF Spec, ImplementsConnectionLife, Life!Spec
=============================================================================
