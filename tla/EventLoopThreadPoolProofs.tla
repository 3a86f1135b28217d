---------------------- MODULE EventLoopThreadPoolProofs ----------------------
(***************************************************************************)
(* However large the pool and however long it serves, as long as NextLoop   *)
(* and emplace_back do not overlap: next_ stays inside loops_pool_, and the *)
(* loops are handed out evenly.                                             *)
(*                                                                         *)
(* For the second, the turns since the pool last grew are followed from the *)
(* place next_ was at then: the loops from there up to next_, cyclically,   *)
(* have been taken once more than the others.                               *)
(*                                                                         *)
(* Of the destructor: when the pool it finds is in order, it asks each      *)
(* thread to quit before it joins it, and nothing undoes that.              *)
(***************************************************************************)
EXTENDS EventLoopThreadPool, TLAPS

(* What the steps preserve: no pool, nothing taken from it; and next_ below *)
(* its size, which only grows.                                              *)
InRange ==
  ~raced =>
    /\ loops = <<>> => next = 0 /\ owner # "advancing"
    /\ loops # <<>> => next < Size

(* A join is one of threadNum. *)
Joining == owner = "joining" => index < threadNum

Inv == TypeOK /\ Joining /\ InRange

USE PoolAssumption DEF Threads, Base

(* The shape of the state at first. *)
LEMMA TypeInit == Init => TypeOK
<1> SUFFICES ASSUME Init PROVE TypeOK
  OBVIOUS
<1>1. loops \in Seq({Base} \cup Threads)
  BY DEF Init
<1>2. /\ stage \in [Threads -> {"none", "init", "registering", "registered",
                                "looping", "returned"}]
      /\ asked \in [Threads -> BOOLEAN]
      /\ given \in [{Base} \cup Threads -> Nat]
  BY DEF Init
<1>3. /\ threadNum \in 0 .. MaxThreads
      /\ created \in 0 .. threadNum /\ index \in 0 .. threadNum
      /\ next \in Nat
  BY DEF Init
<1>4. callback \in BOOLEAN /\ raced \in BOOLEAN
  BY DEF Init
<1> QED BY <1>1, <1>2, <1>3, <1>4 DEF Init, TypeOK

(* The shape of the state survives every step. *)
LEMMA TypeNext == TypeOK /\ Joining /\ [Next]_vars => TypeOK'
<1> SUFFICES ASSUME TypeOK, Joining, [Next]_vars PROVE TypeOK'
  OBVIOUS
<1> USE DEF setup, pool, stopping, history
<1>1. CASE Start
  BY <1>1 DEF TypeOK, Start
<1>2. CASE CreateThread
  BY <1>2 DEF TypeOK, CreateThread
<1>3. CASE Started
  BY <1>3 DEF TypeOK, Started
<1>4. ASSUME NEW t \in Threads, ThreadStep(t) PROVE TypeOK'
  <2>1. CASE Lock(t)
    BY <2>1 DEF TypeOK, Lock
  <2>2. CASE Register(t)
    BY <2>2 DEF TypeOK, Register
  <2>3. CASE EnterLoop(t)
    BY <2>3 DEF TypeOK, EnterLoop
  <2>4. CASE LoopReturns(t)
    BY <2>4 DEF TypeOK, LoopReturns
  <2> QED BY <1>4, <2>1, <2>2, <2>3, <2>4 DEF ThreadStep
<1>5. CASE TakeBase
  BY <1>5 DEF TypeOK, TakeBase, Took
<1>6. CASE TakeNext
  <2> HIDE DEF Threads, Base
  <2>1. loops \in Seq({Base} \cup Threads) /\ next + 1 \in 1 .. Len(loops)
    BY <1>6 DEF TypeOK, TakeNext, Size
  <2>2. loops[next + 1] \in {Base} \cup Threads
    BY <2>1
  <2>3. given' \in [{Base} \cup Threads -> Nat]
    BY <1>6, <2>2 DEF TypeOK, TakeNext, Took
  <2> QED BY <1>6, <2>3 DEF TypeOK, TakeNext
<1>7. CASE TakeRaced
  <2>1. PICK t \in Threads : Took(t)
    BY <1>7 DEF TakeRaced
  <2> HIDE DEF Threads, Base
  <2>2. given' \in [{Base} \cup Threads -> Nat]
    BY <2>1 DEF TypeOK, Took
  <2> QED BY <1>7, <2>2 DEF TypeOK, TakeRaced
<1>8. CASE Advance
  <2>1. (next + 1) % Size \in Nat
    <3> HIDE DEF Threads, Base
    <3>1. next \in Nat /\ Size \in Nat /\ Size > 0
      BY <1>8 DEF TypeOK, Advance, Size
    <3> QED BY <3>1
  <2> QED BY <1>8, <2>1 DEF TypeOK, Advance
<1>9. CASE AdvanceRaced
  BY <1>9 DEF TypeOK, AdvanceRaced
<1>10. CASE Destroy
  BY <1>10 DEF TypeOK, Destroy
<1>11. CASE QuitLoop
  BY <1>11 DEF TypeOK, QuitLoop
<1>12. CASE JoinThread
  BY <1>12 DEF TypeOK, Joining, JoinThread
<1>13. CASE Destroyed
  BY <1>13 DEF TypeOK, Destroyed
<1>14. CASE Die
  BY <1>14 DEF TypeOK, Die
<1>15. CASE UNCHANGED vars
  BY <1>15 DEF TypeOK, vars
<1> QED
  BY <1>1, <1>2, <1>3, <1>4, <1>5, <1>6, <1>7, <1>8, <1>9, <1>10, <1>11,
     <1>12, <1>13, <1>14, <1>15 DEF Next, NextLoop, Destructor

(* A join is begun only within the pool. *)
LEMMA JoiningNext == TypeOK /\ Joining /\ [Next]_vars => Joining'
<1> SUFFICES ASSUME TypeOK, Joining, [Next]_vars PROVE Joining'
  OBVIOUS
<1> QED
  BY DEF TypeOK, Joining, vars, setup, pool, stopping, history, Next, Start,
         CreateThread, Started, ThreadStep, Lock, Register, EnterLoop,
         LoopReturns, NextLoop, TakeBase, TakeNext, TakeRaced, Advance,
         AdvanceRaced, Die, Destroy, Destructor, QuitLoop, JoinThread, Destroyed

(* A step that leaves the pool, next_ and raced alone and does not begin to *)
(* advance leaves next_ in range.                                           *)
LEMMA InRangeStutter ==
  InRange /\ UNCHANGED <<pool, raced>> /\ (owner' = "advancing" => owner = "advancing")
    => InRange'
  BY DEF InRange, pool, Size

(* Nor does next_ leave the pool when the pool grows. *)
LEMMA InRangeGrown ==
  ASSUME TypeOK, InRange, NEW e, loops' = Append(loops, e), UNCHANGED <<next, raced>>
  PROVE  InRange'
<1> HIDE DEF Threads, Base
<1>1. Len(loops) \in Nat /\ next \in Nat /\ (loops = <<>> => Len(loops) = 0)
  BY DEF TypeOK
<1>2. Len(loops') = Len(loops) + 1
  BY DEF TypeOK
<1>3. loops' # <<>>
  BY <1>1, <1>2
<1>4. ~raced => next <= Len(loops)
  BY <1>1 DEF InRange, Size
<1> QED BY <1>1, <1>2, <1>3, <1>4 DEF InRange, Size

(* The steps that move next_ or the end of the pool. *)
LEMMA InRangeNext == TypeOK /\ InRange /\ [Next]_vars => InRange'
<1> SUFFICES ASSUME TypeOK, InRange, [Next]_vars PROVE InRange'
  OBVIOUS
<1> USE DEF setup, pool, stopping, history
<1>1. CASE Start \/ CreateThread \/ TakeBase \/ Destroy \/ Destructor
  BY <1>1, InRangeStutter DEF Start, CreateThread, TakeBase, Destroy,
     Destructor, QuitLoop, JoinThread, Destroyed
<1>2. CASE Started
  <2>1. CASE UNCHANGED loops
    BY <1>2, <2>1, InRangeStutter DEF Started
  <2>2. CASE loops' = Append(loops, Base)
    BY <1>2, <2>2, InRangeGrown DEF Started
  <2> QED BY <1>2, <2>1, <2>2 DEF Started
<1>3. ASSUME NEW t \in Threads, ThreadStep(t) PROVE InRange'
  <2>1. CASE Register(t)
    BY <2>1, InRangeGrown DEF Register
  <2>2. CASE Lock(t) \/ EnterLoop(t) \/ LoopReturns(t)
    BY <2>2, InRangeStutter DEF Lock, EnterLoop, LoopReturns
  <2> QED BY <1>3, <2>1, <2>2 DEF ThreadStep
<1>4. CASE TakeNext
  BY <1>4 DEF TakeNext, TypeOK, InRange, Size
<1>5. CASE Advance
  <2>1. Size \in Nat /\ Size > 0 /\ next \in Nat
    BY <1>5 DEF Advance, TypeOK, Size
  <2>2. (next + 1) % Size < Size
    BY <2>1
  <2> QED BY <1>5, <2>1, <2>2 DEF Advance, InRange, Size, TypeOK
<1>6. CASE TakeRaced \/ AdvanceRaced
  BY <1>6 DEF TakeRaced, AdvanceRaced, InRange
<1>7. CASE Die
  BY <1>7 DEF Die, InRange, Size, TypeOK
<1>8. CASE UNCHANGED vars
  BY <1>8, InRangeStutter DEF vars
<1> QED
  BY <1>1, <1>2, <1>3, <1>4, <1>5, <1>6, <1>7, <1>8 DEF Next, NextLoop

(* A pool that is not started is empty. *)
LEMMA InvInit == Init => Inv
  BY TypeInit DEF Init, Inv, Joining, InRange

(* Every pool, of any number of threads, is as TypeOK says. *)
THEOREM PoolTypeCorrect == Spec => []TypeOK
<1>1. TypeOK /\ Joining /\ [Next]_vars => (TypeOK /\ Joining)'
  BY TypeNext, JoiningNext
<1>2. Init => TypeOK /\ Joining
  BY InvInit DEF Inv
<1> QED BY <1>1, <1>2, PTL DEF Spec

(* NextLoop never reads beyond loops_pool_, for every number of threads and *)
(* every interleaving of their registrations with it, unless it has run     *)
(* into one of them.                                                        *)
THEOREM NextStaysInPool == Spec => []NextInPool
<1>1. Inv /\ [Next]_vars => Inv'
  BY TypeNext, JoiningNext, InRangeNext DEF Inv
<1>2. Inv => NextInPool
  BY DEF Inv, InRange, NextInPool
<1> QED BY InvInit, <1>1, <1>2, PTL DEF Spec

-----------------------------------------------------------------------------
(* The turns.                                                              *)

(* A thread is in loops_pool_ once, and when it has registered, which a     *)
(* thread not made yet has not; the base loop is there at most once, too.   *)
Distinct ==
  /\ \A t \in Threads : t > created => stage[t] = "none"
  /\ \A i, j \in DOMAIN loops : loops[i] = loops[j] => i = j
  /\ \A i \in DOMAIN loops :
       /\ loops[i] \in Threads => stage[loops[i]] \in {"registered", "looping", "returned"}
       /\ loops[i] = Base => owner \notin {"made", "starting"}

(* Going round from place s, place i comes before next_. *)
Before(s, i) == IF s <= next THEN s <= i /\ i < next ELSE i < next \/ s <= i

(* In a round begun at s each loop has been taken v times, those next_ has  *)
(* passed once more.                                                        *)
Turn(s, v) ==
  \A i \in 0 .. Size - 1 : given[loops[i + 1]] = IF Before(s, i) THEN v + 1 ELSE v

(* The one at next_ has just been taken, too. *)
TurnTaken(s, v) ==
  \A i \in 0 .. Size - 1 : given[loops[i + 1]] = IF Before(s, i) \/ i = next THEN v + 1 ELSE v

(* Nothing was taken since the pool last grew. *)
Fresh == \A l \in {Base} \cup Threads : given[l] = 0

(* A thread that registers between the two halves of NextLoop makes the     *)
(* counts Fresh before next_ advances.                                      *)
Even ==
  ~raced =>
    /\ owner \in {"made", "starting"} => Fresh
    /\ owner = "advancing" =>
         Fresh \/ \E s \in 0 .. Size - 1, v \in Nat : TurnTaken(s, v)
    /\ owner = "dead" => EvenHandout
    /\ owner \notin {"advancing", "dead"} /\ loops # <<>> =>
         \E s \in 0 .. Size - 1, v \in Nat : Turn(s, v)

(* The invariant of the turns. *)
InvEven == Inv /\ Distinct /\ Even

(* Along a turn, and between turns, the loops were handed out evenly.       *)
LEMMA TurnsAreEven ==
  ASSUME TypeOK, Even
  PROVE  EvenHandout
<1> SUFFICES ASSUME ~raced, NEW l \in Range(loops), NEW m \in Range(loops)
             PROVE  given[l] <= given[m] + 1
  BY DEF EvenHandout
<1>1. \A k \in Range(loops) : k \in {Base} \cup Threads /\ \E i \in 0 .. Size - 1 : k = loops[i + 1]
  <2>1. \A j \in DOMAIN loops : j - 1 \in 0 .. Size - 1 /\ (j - 1) + 1 = j
                                /\ loops[j] \in {Base} \cup Threads
    BY DEF TypeOK, Size
  <2> QED BY <2>1 DEF Range
<1>2. PICK i \in 0 .. Size - 1, j \in 0 .. Size - 1 : l = loops[i + 1] /\ m = loops[j + 1]
  BY <1>1
<1>3. loops # <<>>
  BY <1>2 DEF TypeOK, Size
<1>4. CASE Fresh
  BY <1>1, <1>4 DEF Fresh
<1>5. ASSUME NEW s, NEW v \in Nat, Turn(s, v) \/ TurnTaken(s, v)
      PROVE  given[l] <= given[m] + 1
  <2>1. given[l] \in {v, v + 1} /\ given[m] \in {v, v + 1}
    BY <1>2, <1>5 DEF Turn, TurnTaken
  <2> QED BY <2>1
<1>6. CASE owner = "dead"
  BY <1>6 DEF Even, EvenHandout
<1> QED BY <1>3, <1>4, <1>5, <1>6 DEF Even

(* Nothing was taken, and nothing is in the pool. *)
LEMMA EvenInit == Init => Distinct /\ Even
  BY DEF Init, Distinct, Even, Fresh

(* A loop that takes its place in the pool is not there yet. *)
LEMMA DistinctNext == TypeOK /\ Distinct /\ [Next]_vars => Distinct'
<1> SUFFICES ASSUME TypeOK, Distinct, [Next]_vars PROVE Distinct'
  OBVIOUS
<1> USE DEF setup, pool, stopping, history
<1>1. ASSUME UNCHANGED <<loops, created>>, owner' \in {"made", "starting"} => owner \in {"made", "starting"},
             \A t \in Threads : stage'[t] = stage[t] \/ (stage[t] # "none"
               /\ (stage[t] = "init" \/ stage'[t] \in {"registered", "looping", "returned"}))
      PROVE  Distinct'
  BY <1>1 DEF Distinct
<1>2. CASE Start \/ TakeBase \/ TakeNext \/ TakeRaced \/ Advance \/ AdvanceRaced
           \/ Destroy \/ Destructor \/ Die \/ UNCHANGED vars
  BY <1>1, <1>2 DEF Start, TakeBase, TakeNext, TakeRaced, Advance, AdvanceRaced, Destroy,
     Destructor, QuitLoop, JoinThread, Destroyed, Die, vars
<1>3. CASE CreateThread
  <2>1. created \in Nat /\ created + 1 \in Threads /\ threadNum \in Nat
        /\ created' = created + 1 /\ UNCHANGED <<loops, owner>>
    BY <1>3 DEF CreateThread, TypeOK
  <2>2. stage[created + 1] = "none"
    BY <2>1 DEF Distinct
  <2>3. \A t \in Threads : t = created + 1 \/ stage'[t] = stage[t]
    BY <1>3, <2>1 DEF CreateThread, TypeOK
  <2>4. \A i \in DOMAIN loops : loops[i] # created + 1
    BY <2>1, <2>2 DEF Distinct
  <2> QED BY <2>1, <2>3, <2>4 DEF Distinct
<1>4. CASE Started
  <2>1. /\ owner = "starting" /\ owner' = "serving" /\ UNCHANGED <<created, stage>>
        /\ loops' \in {loops, Append(loops, Base)}
        /\ loops \in Seq({Base} \cup Threads)
    BY <1>4 DEF Started, TypeOK
  <2>2. \A i \in DOMAIN loops : loops[i] # Base
    BY <2>1 DEF Distinct
  <2>3. CASE UNCHANGED loops
    BY <1>1, <2>1, <2>3
  <2>4. CASE loops' = Append(loops, Base)
    <3>1. \A i \in DOMAIN loops' : \/ i \in DOMAIN loops /\ loops'[i] = loops[i]
                                   \/ i = Len(loops) + 1 /\ loops'[i] = Base
      BY <2>1, <2>4
    <3>2. Base \notin Threads
      OBVIOUS
    <3> HIDE DEF Base, Threads
    <3>3. \A i, j \in DOMAIN loops' : loops'[i] = loops'[j] => i = j
      BY <2>2, <3>1 DEF Distinct
    <3> QED BY <2>1, <3>1, <3>2, <3>3 DEF Distinct
  <2> QED BY <2>1, <2>3, <2>4
<1>5. ASSUME NEW t \in Threads, ThreadStep(t) PROVE Distinct'
  <2>1. CASE Register(t)
    <3>1. loops \in Seq({Base} \cup Threads) /\ loops' = Append(loops, t)
          /\ stage' = [stage EXCEPT ![t] = "registered"] /\ stage[t] = "registering"
          /\ UNCHANGED <<owner, created>>
      BY <2>1 DEF Register, TypeOK
    <3>2. \A i \in DOMAIN loops : loops[i] # t
      BY <3>1 DEF Distinct
    <3>3. \A u \in Threads \ {t} : stage'[u] = stage[u]
      BY <3>1
    <3>4. stage'[t] = "registered"
      BY <3>1 DEF TypeOK
    <3> QED BY <3>1, <3>2, <3>3, <3>4 DEF Distinct
  <2>2. CASE Lock(t) \/ EnterLoop(t) \/ LoopReturns(t)
    BY <1>1, <2>2 DEF Lock, EnterLoop, LoopReturns, TypeOK
  <2> QED BY <1>5, <2>1, <2>2 DEF ThreadStep
<1> QED
  BY <1>2, <1>3, <1>4, <1>5 DEF Next, NextLoop

(* When the pool has just grown a round begins where next_ stands. *)
LEMMA FreshTurnNext ==
  ASSUME Fresh', InRange', next' \in Nat, loops' \in Seq({Base} \cup Threads), owner' # "dead"
  PROVE  Even'
<1>1. Size' \in Nat /\ \A i \in 0 .. Size' - 1 : loops'[i + 1] \in {Base} \cup Threads
  BY DEF Size
<1>2. \A i \in 0 .. Size' - 1 : ~Before(next, i)'
  BY <1>1 DEF Before
<1>3. Turn(next, 0)'
  BY <1>1, <1>2 DEF Turn, Fresh
<1>4. ~raced' /\ loops' # <<>> => next' \in 0 .. Size' - 1
  BY <1>1 DEF InRange, Size
<1> QED BY <1>3, <1>4 DEF Even

(* The turns are about the loops, their counts and next_. *)
LEMMA SameTurns ==
  ASSUME UNCHANGED <<loops, next, given>>
  PROVE  /\ Size' = Size /\ (Fresh <=> Fresh')
         /\ \A s, v : Turn(s, v) <=> Turn(s, v)'
BY DEF Fresh, Turn, Before, Size

(* A step that touches nothing of it keeps the turn. *)
LEMMA EvenStutter ==
  ASSUME Even, UNCHANGED <<loops, next, given, owner, raced>>
  PROVE  Even'
BY DEF Even, Fresh, Turn, TurnTaken, Before, Size, EvenHandout

(* The first half of NextLoop. *)
LEMMA TakeKeepsEven ==
  ASSUME TypeOK, InRange, Distinct, Even, TakeNext
  PROVE  Even'
<1> USE DEF setup, pool, stopping, history
<1> SUFFICES ASSUME ~raced
             PROVE  \E s \in 0 .. Size - 1, v \in Nat : TurnTaken(s, v)'
  BY DEF TakeNext, Even, Size
<1>1. loops \in Seq({Base} \cup Threads) /\ next \in 0 .. Size - 1 /\ Size \in Nat
      /\ given \in [{Base} \cup Threads -> Nat]
  BY DEF TakeNext, TypeOK, Size
<1>2. PICK s \in 0 .. Size - 1, v \in Nat : Turn(s, v)
  <2>1. loops # <<>> /\ owner = "serving"
    BY <1>1 DEF TakeNext, Size
  <2> QED BY <2>1 DEF Even
<1>3. given' = [given EXCEPT ![loops[next + 1]] = @ + 1] /\ UNCHANGED <<loops, next>>
  BY DEF TakeNext, Took
<1>4. ASSUME NEW i \in 0 .. Size - 1
      PROVE  given'[loops[i + 1]] = IF Before(s, i) \/ i = next THEN v + 1 ELSE v
  <2>1. loops[i + 1] \in {Base} \cup Threads /\ loops[next + 1] \in {Base} \cup Threads
        /\ (i = next \/ loops[i + 1] # loops[next + 1])
    BY <1>1 DEF Distinct, Size
  <2>2. given[loops[i + 1]] = IF Before(s, i) THEN v + 1 ELSE v
    BY <1>2 DEF Turn
  <2>3. i = next => ~Before(s, i)
    BY <1>1 DEF Before
  <2>4. i # next => given'[loops[i + 1]] = given[loops[i + 1]]
    BY <1>1, <1>3, <2>1
  <2>5. i = next => given'[loops[i + 1]] = given[loops[i + 1]] + 1
    BY <1>1, <1>3, <2>1
  <2> QED BY <2>2, <2>3, <2>4, <2>5
<1>5. TurnTaken(s, v)'
  BY <1>3, <1>4 DEF TurnTaken, Before, Size
<1> QED BY <1>3, <1>5 DEF Size

(* The second half: next_ passes the loop taken, and when it comes to where *)
(* the round began, every loop has been taken once more.                    *)
LEMMA AdvanceKeepsEven ==
  ASSUME TypeOK, InRange, Even, Advance
  PROVE  Even'
<1> USE DEF setup, pool, stopping, history
<1>1. loops \in Seq({Base} \cup Threads) /\ next \in Nat /\ Size \in Nat /\ Size > 0
      /\ UNCHANGED <<loops, given, raced>> /\ owner = "advancing" /\ owner' = "serving"
      /\ loops # <<>>
  BY DEF Advance, TypeOK, Size
<1>2. next' = (next + 1) % Size
  BY DEF Advance
<1> SUFFICES ASSUME ~raced
             PROVE  \E s \in 0 .. Size - 1, v \in Nat : Turn(s, v)'
  BY <1>1 DEF Even, Size
<1>3. next < Size
  BY <1>1 DEF InRange
<1>4. next' = IF next + 1 = Size THEN 0 ELSE next + 1
  BY <1>1, <1>2, <1>3
<1>5. CASE Fresh
  <2>1. Turn(next, 0)'
    BY <1>1, <1>4, <1>5 DEF Fresh, Turn, Before, Size
  <2> QED BY <1>1, <1>3, <1>4, <2>1
<1>6. ASSUME NEW s \in 0 .. Size - 1, NEW v \in Nat, TurnTaken(s, v)
      PROVE  \E w \in Nat : Turn(s, w)'
  <2>1. CASE next' = s
    <3>1. \A i \in 0 .. Size - 1 : Before(s, i) \/ i = next
      BY <1>1, <1>3, <1>4, <2>1 DEF Before
    <3>2. \A i \in 0 .. Size - 1 : ~Before(s, i)'
      BY <1>1, <2>1 DEF Before
    <3>3. Turn(s, v + 1)'
      BY <1>1, <1>6, <3>1, <3>2 DEF Turn, TurnTaken, Size
    <3> QED BY <3>3
  <2>2. CASE next' # s
    <3>1. \A i \in 0 .. Size - 1 : Before(s, i)' <=> (Before(s, i) \/ i = next)
      BY <1>1, <1>3, <1>4, <2>2 DEF Before
    <3>2. Turn(s, v)'
      BY <1>1, <1>6, <3>1 DEF Turn, TurnTaken, Size
    <3> QED BY <3>2
  <2> QED BY <2>1, <2>2
<1> QED BY <1>1, <1>5, <1>6 DEF Even

(* Every step keeps the turns. *)
LEMMA EvenNext == Inv /\ InRange' /\ TypeOK' /\ Distinct /\ Even /\ [Next]_vars => Even'
<1> SUFFICES ASSUME TypeOK, InRange, Distinct, Even, [Next]_vars, TypeOK', InRange'
             PROVE  Even'
  BY DEF Inv
<1> USE DEF setup, pool, stopping, history
<1>1. CASE Start \/ CreateThread
  <2>1. /\ UNCHANGED <<loops, next, given, raced>>
        /\ owner \in {"made", "starting"} /\ owner' \in {"made", "starting"}
    BY <1>1 DEF Start, CreateThread
  <2> QED BY <2>1, SameTurns DEF Even
<1>2. CASE Started
  <2>1. \/ Fresh' /\ owner' = "serving" /\ next' \in Nat /\ loops' \in Seq({Base} \cup Threads)
        \/ raced'
    BY <1>2 DEF Started, Even, Fresh, TypeOK
  <2>2. CASE raced'
    BY <2>2 DEF Even
  <2> QED BY <2>1, <2>2, FreshTurnNext
<1>3. ASSUME NEW t \in Threads, ThreadStep(t), owner # "dead" PROVE Even'
  <2>1. CASE Register(t)
    <3>1. Fresh' /\ next' \in Nat /\ loops' \in Seq({Base} \cup Threads) /\ UNCHANGED owner
      BY <2>1 DEF Register, Fresh, TypeOK
    <3> QED BY <1>3, <3>1, FreshTurnNext
  <2>2. CASE Lock(t) \/ EnterLoop(t) \/ LoopReturns(t)
    BY <2>2, EvenStutter DEF Lock, EnterLoop, LoopReturns
  <2> QED BY <1>3, <2>1, <2>2 DEF ThreadStep
<1>4. CASE TakeBase
  BY <1>4 DEF TakeBase, Even
<1>5. CASE TakeNext
  BY <1>5, TakeKeepsEven
<1>6. CASE Advance
  BY <1>6, AdvanceKeepsEven
<1>7. CASE TakeRaced \/ AdvanceRaced
  BY <1>7 DEF TakeRaced, AdvanceRaced, Even
<1>8. CASE Destroy \/ Destructor
  <2>1. /\ UNCHANGED <<loops, next, given, raced>>
        /\ owner \notin {"advancing", "dead", "made", "starting"}
        /\ owner' \notin {"advancing", "dead", "made", "starting"}
    BY <1>8 DEF Destroy, Destructor, QuitLoop, JoinThread, Destroyed
  <2> QED BY <2>1, SameTurns DEF Even
<1>9. CASE Die
  <2>1. EvenHandout /\ UNCHANGED <<loops, given>> /\ owner' = "dead" /\ (raced => raced')
    BY <1>9, TurnsAreEven DEF Die
  <2> QED BY <2>1 DEF Even, EvenHandout
<1>10. CASE UNCHANGED vars
  BY <1>10, EvenStutter DEF vars
<1> QED
  BY <1>1, <1>2, <1>3, <1>4, <1>5, <1>6, <1>7, <1>8, <1>9, <1>10 DEF Next, NextLoop

(* Round robin, for any number of threads and of turns: the loops in the    *)
(* pool are used evenly, whenever the threads registered and wherever next_ *)
(* stood then, unless NextLoop ran into an emplace_back.                    *)
THEOREM HandoutIsEven == Spec => []EvenHandout
<1>1. Inv /\ [Next]_vars => Inv'
  BY TypeNext, JoiningNext, InRangeNext DEF Inv
<1>2. InvEven /\ [Next]_vars => InvEven'
  BY <1>1, DistinctNext, EvenNext DEF InvEven, Inv
<1>3. Init => InvEven
  BY InvInit, EvenInit DEF InvEven
<1>4. InvEven => EvenHandout
  BY TurnsAreEven DEF InvEven, Inv
<1> QED BY <1>2, <1>3, <1>4, PTL DEF Spec
-----------------------------------------------------------------------------
(* The destructor of an orderly pool.                                      *)

(* Where DestructorReturns begins: the loops are in loops_pool_ in the      *)
(* order of their threads, and every thread is in Loop().                   *)
Orderly == owner = "stopping" /\ index = 0 /\ InOrder /\ AllLooping

(* What it rests on: the thread joined has been asked to quit, or has       *)
(* returned, and the process does not die.                                  *)
JoinsTheAsked ==
  /\ owner \in {"stopping", "joining", "destroyed"}
  /\ owner = "joining" => stage[index + 1] = "returned" \/ asked[index + 1]
  /\ ~Dies

(* While the destructor goes on no thread registers, so the loops stay in   *)
(* order, nor enters Loop(), which would forget that it was asked.          *)
OrderlyStop ==
  /\ owner \in {"stopping", "joining", "destroyed"}
  /\ InOrder
  /\ \A t \in 1 .. threadNum : stage[t] \in {"looping", "returned"}
  /\ owner = "joining" => stage[index + 1] = "returned" \/ asked[index + 1]

(* The threads beyond threadNum were never made. *)
LEMMA OnlyLoopingThreads ==
  ASSUME TypeOK, Distinct, OrderlyStop, NEW t \in Threads
  PROVE  stage[t] \in {"none", "looping", "returned"}
<1>1. CASE t <= threadNum
  BY <1>1 DEF OrderlyStop, TypeOK
<1>2. CASE t > threadNum
  <2>1. t > created
    BY <1>2 DEF TypeOK
  <2> QED BY <2>1 DEF Distinct
<1> QED BY <1>1, <1>2 DEF TypeOK

(* So none is inside emplace_back, and loops_pool_ has a loop for each i.   *)
LEMMA OrderlyStopLives ==
  ASSUME TypeOK, Distinct, OrderlyStop
  PROVE  ~Dies
<1>1. ~Changing
  BY OnlyLoopingThreads DEF Changing
<1>2. Size = threadNum
  BY DEF OrderlyStop, InOrder, Size, TypeOK
<1> QED BY <1>1, <1>2 DEF Dies, OrderlyStop, TypeOK

(* Every step of it stays orderly. *)
LEMMA OrderlyStopNext ==
  ASSUME TypeOK, Joining, Distinct, OrderlyStop, [Next]_vars
  PROVE  OrderlyStop'
<1> USE DEF setup, pool, stopping, history
<1>1. ASSUME NEW t \in Threads, ThreadStep(t) PROVE OrderlyStop'
  <2>1. stage[t] \in {"none", "looping", "returned"}
    BY OnlyLoopingThreads
  <2>2. LoopReturns(t)
    BY <1>1, <2>1 DEF ThreadStep, Lock, Register, EnterLoop
  <2>3. stage' = [stage EXCEPT ![t] = "returned"] /\ UNCHANGED <<owner, loops, threadNum, asked, index>>
    BY <2>2 DEF LoopReturns
  <2>4. \A u \in Threads : stage'[u] = stage[u] \/ stage'[u] = "returned"
    BY <2>3 DEF TypeOK
  <2>5. owner = "joining" => index + 1 \in Threads
    BY DEF Joining, TypeOK
  <2>6. 1 .. threadNum \subseteq Threads
    BY DEF TypeOK
  <2> QED BY <2>3, <2>4, <2>5, <2>6 DEF OrderlyStop, InOrder
<1>2. CASE QuitLoop
  <2>1. index + 1 \in 1 .. threadNum /\ index + 1 \in Threads /\ loops[index + 1] = index + 1
    BY <1>2 DEF QuitLoop, TypeOK, OrderlyStop, InOrder
  <2>2. asked' = [asked EXCEPT ![index + 1] = TRUE] /\ owner' = "joining"
        /\ UNCHANGED <<loops, threadNum, stage, index>>
    BY <1>2, <2>1 DEF QuitLoop
  <2>3. asked'[index + 1]
    BY <2>1, <2>2 DEF TypeOK
  <2> QED BY <2>2, <2>3 DEF OrderlyStop, InOrder
<1>3. CASE JoinThread \/ Destroyed
  BY <1>3 DEF JoinThread, Destroyed, OrderlyStop, InOrder
<1>4. CASE UNCHANGED vars
  BY <1>4 DEF vars, OrderlyStop, InOrder
<1>5. ~Die
  BY OrderlyStopLives DEF Die
<1>6. ~(Start \/ CreateThread \/ Started \/ NextLoop \/ Destroy)
  BY DEF OrderlyStop, Start, CreateThread, Started, NextLoop, TakeBase, TakeNext, TakeRaced,
         Advance, AdvanceRaced, Destroy
<1> QED BY <1>1, <1>2, <1>3, <1>4, <1>5, <1>6 DEF Next, Destructor

(* The destructor that finds the pool in order asks each thread before it   *)
(* joins it, and no Quit is forgotten, whatever the threads do meanwhile:   *)
(* with threads that run, this is why DestructorReturns holds.              *)
THEOREM OrderlyDestructorAsksFirst == Spec => [](Orderly => []JoinsTheAsked)
<1> DEFINE Known == TypeOK /\ Joining /\ Distinct
<1>1. Known /\ [Next]_vars => Known'
  BY TypeNext, JoiningNext, DistinctNext
<1>2. Init => Known
  BY InvInit, EvenInit DEF Inv
<1>3. Known /\ Orderly => OrderlyStop
  BY DEF Orderly, AllLooping, OrderlyStop
<1>4. Known /\ OrderlyStop /\ [Next]_vars => OrderlyStop'
  BY OrderlyStopNext
<1>5. Known /\ OrderlyStop => JoinsTheAsked
  BY OrderlyStopLives DEF OrderlyStop, JoinsTheAsked
<1> HIDE DEF Known
<1> QED BY <1>1, <1>2, <1>3, <1>4, <1>5, PTL DEF Spec
=============================================================================
