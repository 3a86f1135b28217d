-------------------------- MODULE EventLoopProofs --------------------------
(***************************************************************************)
(* Theorems about EventLoop for any number of callers and functors.        *)
(*                                                                         *)
(* Inv, the conjunction of the type invariant and Conservation with two    *)
(* facts about the batch and the history, is inductive; NoLostWakeup and   *)
(* QuitIsNotSleptOver are inductive relative to it; the refinement of      *)
(* TaskQueue follows from Conservation, which identifies the head of the   *)
(* batch as the next functor of the history.                               *)
(***************************************************************************)
EXTENDS EventLoop, SequenceTheorems, TLAPS

(* Outside DoPendingFunctors its local vector does not exist. *)
BatchOnlyInRun == loopPc # "run" => functors = <<>>

(* Only what was queued is due. *)
DueWasQueued == due \subseteq Range(queued)

Inv == TypeOK /\ BatchOnlyInRun /\ Conservation /\ DueWasQueued

-----------------------------------------------------------------------------
(* Running the head of the batch does not change the history that the     *)
(* queues, laid end to end, stand for.                                     *)

LEMMA RunKeepsOrder ==
  ASSUME NEW S, NEW e \in Seq(S), NEW f \in Seq(S), f # <<>>
  PROVE  Append(e, Head(f)) \o Tail(f) = e \o f
<1>1. Head(f) \in S /\ Tail(f) \in Seq(S) /\ Len(Tail(f)) = Len(f) - 1
  BY HeadTailProperties
<1>2. Append(e, Head(f)) \in Seq(S) /\ Len(Append(e, Head(f))) = Len(e) + 1
  BY <1>1, AppendProperties
<1>3. Len(Append(e, Head(f)) \o Tail(f)) = Len(e \o f)
  BY <1>1, <1>2, ConcatProperties, LenProperties
<1>4. ASSUME NEW i \in 1 .. Len(e \o f)
      PROVE  (Append(e, Head(f)) \o Tail(f))[i] = (e \o f)[i]
  <2>1. i \in 1 .. Len(e) + Len(f) /\ Len(e) \in Nat /\ Len(f) \in Nat \ {0}
    BY <1>4, ConcatProperties, LenProperties, EmptySeq
  <2>2. (Append(e, Head(f)) \o Tail(f))[i]
          = IF i <= Len(e) + 1 THEN Append(e, Head(f))[i]
                               ELSE Tail(f)[i - (Len(e) + 1)]
    BY <1>1, <1>2, <2>1, ConcatProperties
  <2>3. (e \o f)[i] = IF i <= Len(e) THEN e[i] ELSE f[i - Len(e)]
    BY <2>1, ConcatProperties
  <2>4. CASE i <= Len(e)
    BY <1>1, <2>1, <2>2, <2>3, <2>4, AppendProperties
  <2>5. CASE i = Len(e) + 1
    <3>1. Append(e, Head(f))[i] = f[1]
      BY <1>1, <2>5, AppendProperties
    <3> QED
      BY <2>1, <2>2, <2>3, <2>5, <3>1
  <2>6. CASE i > Len(e) + 1
    <3>1. i - (Len(e) + 1) \in 1 .. Len(Tail(f))
      BY <1>1, <2>1, <2>6
    <3>2. Tail(f)[i - (Len(e) + 1)] = f[(i - (Len(e) + 1)) + 1]
      BY <3>1, HeadTailProperties
    <3> QED
      BY <2>1, <2>2, <2>3, <2>6, <3>2
  <2> QED
    BY <2>1, <2>4, <2>5, <2>6
<1>5. Append(e, Head(f)) \o Tail(f) \in Seq(S) /\ e \o f \in Seq(S)
  BY <1>1, <1>2, ConcatProperties
<1> QED
  <2> DEFINE a == Append(e, Head(f)) \o Tail(f)
             b == e \o f
  <2>1. a \in Seq(S) /\ b \in Seq(S) /\ Len(a) = Len(b)
        /\ \A i \in 1 .. Len(a) : a[i] = b[i]
    BY <1>3, <1>4, <1>5, Zenon
  <2> HIDE DEF a, b
  <2>2. a = b
    BY <2>1, SeqEqual, Zenon
  <2> QED BY <2>2, Zenon DEF a, b

(* The next functor to run is the one the history holds at that place. *)
LEMMA NextInHistory ==
  ASSUME NEW S, NEW e \in Seq(S), NEW f \in Seq(S), NEW p \in Seq(S), f # <<>>
  PROVE  /\ Len(e) < Len(e \o f \o p)
         /\ (e \o f \o p)[Len(e) + 1] = Head(f)
<1>1. e \o f \in Seq(S) /\ Len(e \o f) = Len(e) + Len(f)
  BY ConcatProperties
<1>2. Len(e) \in Nat /\ Len(f) \in Nat \ {0} /\ Len(p) \in Nat
  BY LenProperties, EmptySeq
<1>3. Len(e \o f \o p) = Len(e) + Len(f) + Len(p)
  BY <1>1, ConcatProperties
<1>4. (e \o f \o p)[Len(e) + 1] = (e \o f)[Len(e) + 1]
  <2>1. Len(e) + 1 \in 1 .. Len(e \o f) + Len(p) /\ Len(e) + 1 <= Len(e \o f)
    BY <1>1, <1>2
  <2> QED
    BY <1>1, <2>1, ConcatProperties
<1>5. (e \o f)[Len(e) + 1] = f[1]
  BY <1>2, ConcatProperties
<1> QED
  BY <1>2, <1>3, <1>4, <1>5

LEMMA RangeAppend ==
  ASSUME NEW S, NEW s \in Seq(S), NEW k \in S
  PROVE  Range(Append(s, k)) = Range(s) \cup {k}
<1>1. <<k>> \in Seq(S) /\ Append(s, k) = s \o <<k>>
  BY AppendIsConcat
<1>2. Range(<<k>>) = {k}
  <2>1. DOMAIN <<k>> = {1} /\ <<k>>[1] = k
    OBVIOUS
  <2> QED BY <2>1 DEF Range
<1>3. Range(s \o <<k>>) = Range(s) \cup Range(<<k>>)
  <2> DEFINE one == <<k>>
  <2>1. one \in Seq(S)
    BY <1>1
  <2> HIDE DEF one
  <2>2. Range(s \o one) = Range(s) \cup Range(one)
    BY <2>1, RangeConcatenation
  <2> QED BY <2>2 DEF one
<1> QED
  BY <1>1, <1>2, <1>3, Zenon

LEMMA RangeEmpty == Range(<<>>) = {}
BY DEF Range

-----------------------------------------------------------------------------
(* Inv is inductive. *)

LEMMA InitInv == Init => Inv
<1> SUFFICES ASSUME Init PROVE Inv
  OBVIOUS
<1>1. TypeOK
  BY EmptySeq DEF Init, TypeOK, Channels
<1>2. <<>> \o <<>> \o <<>> = <<>>
  <2>1. <<>> \in Seq(Tasks)
    BY EmptySeq
  <2> QED
    BY <2>1, ConcatEmptySeq
<1> QED
  BY <1>1, <1>2 DEF Init, Inv, BatchOnlyInRun, Conservation, DueWasQueued

(* A push, whoever makes it. *)
LEMMA PushInv ==
  ASSUME Inv, NEW k \in Tasks, Push(k), UNCHANGED <<functors, executed>>
  PROVE  /\ pending' \in Seq(Tasks) /\ queued' \in Seq(Tasks)
         /\ Conservation'
         /\ Range(queued') = Range(queued) \cup {k}
<1>1. pending' \in Seq(Tasks) /\ queued' \in Seq(Tasks)
  BY AppendProperties DEF Inv, TypeOK, Push
<1>2. Append(queued, k) = executed \o functors \o Append(pending, k)
  <2>1. PICK taken : taken = executed \o functors
    OBVIOUS
  <2>2. taken \in Seq(Tasks) /\ pending \in Seq(Tasks) /\ queued = taken \o pending
    BY <2>1, ConcatProperties DEF Inv, TypeOK, Conservation
  <2>3. taken \in Seq(Tasks) /\ pending \in Seq(Tasks)
    BY <2>2
  <2>4. Append(taken \o pending, k) = taken \o Append(pending, k)
    <3> DEFINE a == Append(taken \o pending, k)
               b == taken \o Append(pending, k)
    <3>1. taken \o pending \in Seq(Tasks) /\ Append(pending, k) \in Seq(Tasks)
      BY <2>3, ConcatProperties, AppendProperties, Zenon
    <3>2. a \in Seq(Tasks) /\ b \in Seq(Tasks)
      BY <2>3, <3>1, ConcatProperties, AppendProperties, Zenon
    <3>3. Len(taken) \in Nat /\ Len(pending) \in Nat
      BY <2>3
    <3>4. Len(a) = Len(taken) + Len(pending) + 1 /\ Len(b) = Len(a)
      BY <2>3, <3>1, <3>3
    <3>5. ASSUME NEW i \in 1 .. Len(a) PROVE a[i] = b[i]
      BY <2>3, <3>1, <3>3, <3>4
    <3> HIDE DEF a, b
    <3>6. a = b
      BY <3>2, <3>4, <3>5, SeqEqual, Zenon
    <3> QED BY <3>6, Zenon DEF a, b
  <2> QED
    BY <2>1, <2>2, <2>4
<1>3. Range(queued') = Range(queued) \cup {k}
  BY RangeAppend DEF Inv, TypeOK, Push
<1> QED
  BY <1>1, <1>2, <1>3 DEF Push, Conservation

LEMMA NextInv == Inv /\ [Next]_vars => Inv'
<1> SUFFICES ASSUME Inv, [Next]_vars PROVE Inv'
  OBVIOUS
<1> USE DEF Inv, TypeOK, BatchOnlyInRun, DueWasQueued
<1>1. ASSUME NEW t \in Threads, NEW k \in Tasks, QueueFromCaller(t, k) PROVE Inv'
  <2>1. /\ pending' \in Seq(Tasks) /\ queued' \in Seq(Tasks)
        /\ Conservation'
        /\ Range(queued') = Range(queued) \cup {k}
    BY <1>1, PushInv DEF QueueFromCaller
  <2> QED
    BY <1>1, <2>1 DEF QueueFromCaller
<1>2. ASSUME NEW t \in Threads, NEW k \in Tasks, QueueFromLoop(t, k) PROVE Inv'
  <2>1. /\ pending' \in Seq(Tasks) /\ queued' \in Seq(Tasks)
        /\ Conservation'
        /\ Range(queued') = Range(queued) \cup {k}
    BY <1>2, PushInv DEF QueueFromLoop
  <2> QED
    BY <1>2, <2>1 DEF QueueFromLoop
<1>3. ASSUME NEW t \in Threads, NEW k \in Tasks, CallInline(t, k) PROVE Inv'
  BY <1>3 DEF CallInline, Conservation
<1>4. ASSUME NEW t \in Threads, Quit(t) PROVE Inv'
  BY <1>4 DEF Quit, Conservation
<1>5. ASSUME NEW t \in Callers, Wakeup(t) PROVE Inv'
  BY <1>5 DEF Wakeup, Conservation
<1>6. CASE Loop
  BY <1>6 DEF Loop, Conservation
<1>7. CASE CheckQuit
  BY <1>7 DEF CheckQuit, Conservation
<1>8. CASE Poll
  BY <1>8 DEF Poll, Conservation
<1>9. CASE HandleWakeUpEvent
  BY <1>9 DEF HandleWakeUpEvent, Conservation
<1>10. CASE HandleIoEvent
  BY <1>10 DEF HandleIoEvent, Conservation
<1>11. CASE SwapFunctors
  <2>1. functors = <<>> /\ functors' = pending /\ pending' = <<>>
        /\ executed' = executed /\ queued' = queued
    BY <1>11 DEF SwapFunctors
  <2>2. <<>> \in Seq(Tasks) /\ executed \o <<>> = executed
    BY EmptySeq, ConcatEmptySeq
  <2>3. executed \o pending \in Seq(Tasks)
    BY ConcatProperties
  <2>4. (executed \o pending) \o <<>> = executed \o pending
    BY <2>3, ConcatEmptySeq
  <2>5. Conservation'
    BY <2>1, <2>2, <2>4 DEF Conservation
  <2> QED
    BY <1>11, <2>2, <2>5 DEF SwapFunctors
<1>12. CASE RunFunctor
  <2>1. Head(functors) \in Tasks /\ Tail(functors) \in Seq(Tasks)
    BY <1>12, HeadTailProperties DEF RunFunctor
  <2>2. Append(executed, Head(functors)) \in Seq(Tasks)
    BY <2>1, AppendProperties
  <2>3. Append(executed, Head(functors)) \o Tail(functors) = executed \o functors
    BY <1>12, RunKeepsOrder DEF RunFunctor
  <2>4. Conservation'
    BY <1>12, <2>3 DEF RunFunctor, Conservation
  <2> QED
    BY <1>12, <2>1, <2>2, <2>4 DEF RunFunctor
<1>13. CASE EndRun
  BY <1>13 DEF EndRun, Conservation
<1>14. CASE UNCHANGED vars
  BY <1>14 DEF vars, Conservation
<1> QED
  BY <1>1, <1>2, <1>3, <1>4, <1>5, <1>6, <1>7, <1>8, <1>9, <1>10, <1>11,
     <1>12, <1>13, <1>14
     DEF Next, Call, QueueInLoop, RunInLoop, LoopStep, Stopped

(* The variables keep their types: whatever the callers do, the loop's      *)
(* state stays within TypeOK.                                               *)
THEOREM TypeCorrect == Spec => []TypeOK
BY InitInv, NextInv, PTL DEF Spec, Inv

(* Functors are neither lost, duplicated nor reordered by QueueInLoop and   *)
(* DoPendingFunctors, for any number of threads and functors.               *)
THEOREM ConservationHolds == Spec => []Conservation
BY InitInv, NextInv, PTL DEF Spec, Inv

-----------------------------------------------------------------------------
(* The two properties of the wakeup handshake: a step either makes the     *)
(* premise false, or leaves the eventfd and the callers inside a call as    *)
(* they were, or makes the conclusion true.                                 *)

Awake == NoLostWakeup /\ QuitIsNotSleptOver

LEMMA NextAwake == Inv /\ Awake /\ [Next]_vars => Awake'
<1> SUFFICES ASSUME Inv, Awake, [Next]_vars PROVE Awake'
  OBVIOUS
<1> USE DEF Awake, NoLostWakeup, QuitIsNotSleptOver, Inv, TypeOK
<1>1. ASSUME NEW t \in Threads, NEW k \in Tasks, QueueFromCaller(t, k) PROVE Awake'
  BY <1>1 DEF QueueFromCaller
<1>2. ASSUME NEW t \in Threads, NEW k \in Tasks, QueueFromLoop(t, k) PROVE Awake'
  <2>1. CASE callingFlag
    BY <1>2, <2>1 DEF QueueFromLoop
  <2>2. CASE loopPc = "handle"
    BY <1>2, <2>2 DEF QueueFromLoop
  <2>3. CASE ~callingFlag /\ loopPc # "handle"
    <3>1. /\ due' = due /\ readable' = readable /\ waking' = waking
          /\ loopPc' = loopPc /\ quit' = quit
      BY <1>2, <2>3 DEF QueueFromLoop
    <3>2. Range(pending') = Range(pending) \cup {k}
      BY <1>2, RangeAppend DEF QueueFromLoop, Push
    <3>3. k \notin due
      BY <1>2 DEF QueueFromLoop, Push, Fresh, DueWasQueued
    <3> QED
      BY <3>1, <3>2, <3>3
  <2> QED
    BY <2>1, <2>2, <2>3
<1>3. ASSUME NEW t \in Threads, NEW k \in Tasks, CallInline(t, k) PROVE Awake'
  BY <1>3 DEF CallInline
<1>4. ASSUME NEW t \in Threads, Quit(t) PROVE Awake'
  BY <1>4 DEF Quit, CanCall, InCallback
<1>5. ASSUME NEW t \in Callers, Wakeup(t) PROVE Awake'
  BY <1>5 DEF Wakeup
<1>6. CASE Loop
  BY <1>6 DEF Loop
<1>7. CASE CheckQuit
  BY <1>7 DEF CheckQuit
<1>8. CASE Poll
  BY <1>8 DEF Poll
<1>9. CASE HandleWakeUpEvent
  BY <1>9 DEF HandleWakeUpEvent
<1>10. CASE HandleIoEvent
  BY <1>10 DEF HandleIoEvent
<1>11. CASE SwapFunctors
  BY <1>11, RangeEmpty DEF SwapFunctors
<1>12. CASE RunFunctor
  BY <1>12 DEF RunFunctor
<1>13. CASE EndRun
  BY <1>13 DEF EndRun
<1>14. CASE UNCHANGED vars
  BY <1>14 DEF vars
<1> QED
  BY <1>1, <1>2, <1>3, <1>4, <1>5, <1>6, <1>7, <1>8, <1>9, <1>10, <1>11,
     <1>12, <1>13, <1>14
     DEF Next, Call, QueueInLoop, RunInLoop, LoopStep, Stopped

LEMMA InitAwake == Init => Awake
BY DEF Init, Awake, NoLostWakeup, QuitIsNotSleptOver

(* The loop cannot go to sleep on a due functor: the eventfd is readable or *)
(* a caller is about to write it.                                           *)
THEOREM NoWakeupIsLost == Spec => []NoLostWakeup
<1>1. Spec => [](Inv /\ Awake)
  BY InitInv, NextInv, InitAwake, NextAwake, PTL DEF Spec
<1> QED
  BY <1>1, PTL DEF Awake

(* The loop cannot sleep over a Quit that came after Loop() was entered.    *)
THEOREM QuitIsSeen == Spec => []QuitIsNotSleptOver
<1>1. Spec => [](Inv /\ Awake)
  BY InitInv, NextInv, InitAwake, NextAwake, PTL DEF Spec
<1> QED
  BY <1>1, PTL DEF Awake

-----------------------------------------------------------------------------
(* EventLoop implements TaskQueue. *)

LEMMA InitMaps == Init => Queue!Init
BY DEF Init, Queue!Init

LEMMA StepMaps == Inv /\ [Next]_vars => [Queue!Next]_(Queue!vars)
<1> SUFFICES ASSUME Inv, [Next]_vars PROVE [Queue!Next]_(Queue!vars)
  OBVIOUS
<1> USE DEF Queue!Next, Queue!vars
<1>1. ASSUME NEW k \in Tasks, Push(k), executed' = executed, loopPc' = loopPc
      PROVE  Queue!Post(k)
  BY <1>1 DEF Push, Fresh, Range, Queue!Post, Queue!Range
<1>2. ASSUME NEW t \in Threads, NEW k \in Tasks, QueueFromCaller(t, k)
      PROVE  Queue!Next
  BY <1>1, <1>2 DEF QueueFromCaller
<1>3. ASSUME NEW t \in Threads, NEW k \in Tasks, QueueFromLoop(t, k)
      PROVE  Queue!Next
  BY <1>1, <1>3 DEF QueueFromLoop
<1>4. CASE CheckQuit
  <2>1. CASE quit
    BY <1>4, <2>1 DEF CheckQuit, Queue!Close
  <2>2. CASE ~quit
    BY <1>4, <2>2 DEF CheckQuit
  <2> QED
    BY <2>1, <2>2
<1>5. CASE RunFunctor
  <2>1. /\ functors # <<>> /\ queued = executed \o functors \o pending
        /\ executed \in Seq(Tasks) /\ functors \in Seq(Tasks) /\ pending \in Seq(Tasks)
    BY <1>5 DEF RunFunctor, Inv, TypeOK, Conservation
  <2>2. Len(executed) < Len(queued) /\ queued[Len(executed) + 1] = Head(functors)
    BY <2>1, NextInHistory, Zenon
  <2> QED
    BY <1>5, <2>2 DEF RunFunctor, Queue!Run
<1>6. ASSUME UNCHANGED <<queued, executed>>, loopPc # "done", loopPc' # "done"
      PROVE  UNCHANGED Queue!vars
  BY <1>6
<1>7. CASE Loop \/ Poll \/ HandleWakeUpEvent \/ HandleIoEvent \/ SwapFunctors \/ EndRun
  BY <1>6, <1>7 DEF Loop, Poll, HandleWakeUpEvent, HandleIoEvent, SwapFunctors, EndRun
<1>8. ASSUME UNCHANGED <<queued, executed, loopPc>>
      PROVE  UNCHANGED Queue!vars
  BY <1>8
<1>9. ASSUME NEW t \in Threads, NEW k \in Tasks, CallInline(t, k)
      PROVE  UNCHANGED Queue!vars
  BY <1>8, <1>9 DEF CallInline
<1>10. ASSUME NEW t \in Threads, Quit(t) \/ Wakeup(t)
       PROVE  UNCHANGED Queue!vars
  BY <1>8, <1>10 DEF Quit, Wakeup
<1>11. CASE UNCHANGED vars
  BY <1>8, <1>11 DEF vars
<1> QED
  BY <1>2, <1>3, <1>4, <1>5, <1>7, <1>9, <1>10, <1>11
     DEF Next, Call, QueueInLoop, RunInLoop, LoopStep, Stopped, Threads

(* The loop runs functors exactly as TaskQueue says: in the order of the    *)
(* calls, each once, none after Loop() has returned.                        *)
THEOREM RefinesTaskQueue == Spec => ImplementsTaskQueue
<1>1. Spec => []Inv
  BY InitInv, NextInv, PTL DEF Spec
<1> QED
  BY <1>1, InitMaps, StepMaps, PTL DEF Spec, ImplementsTaskQueue, Queue!Spec
=============================================================================
