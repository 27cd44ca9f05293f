--------------------------- MODULE WaitListProofs ---------------------------
(***************************************************************************)
(* What WaitList promises for any number of producers, consumers and       *)
(* nodes: its safety invariants, and that it implements TaskQueue.         *)
(***************************************************************************)
EXTENDS WaitList, FiniteSetTheorems, SequenceTheorems, TLAPS

-----------------------------------------------------------------------------
(* Type correctness.  num is only a natural number because it is the length *)
(* of the list, and waiting only changes together with cpc.                 *)

WaitersWait == waiting = {c \in Consumers : cpc[c] = "wait"}

OnlyTimedTimeOut == \A c \in Consumers : cpc[c] = "timeout" => kind[c] = "get_timed"

TypeInv ==
    /\ TypeOK
    /\ num = Len(list)
    /\ WaitersWait
    /\ OnlyTimedTimeOut

LEMMA InitTypeInv == Init => TypeInv
  BY DEF Init, TypeInv, TypeOK, WaitersWait, OnlyTimedTimeOut

\* The list without its oldest node, which is what get() leaves.
LEMMA FrontType ==
  ASSUME NEW S, NEW s \in Seq(S), s # <<>>
  PROVE  /\ SubSeq(s, 1, Len(s) - 1) \in Seq(S)
         /\ Len(SubSeq(s, 1, Len(s) - 1)) = Len(s) - 1
         /\ s[Len(s)] \in S
         /\ Len(s) \in Nat \ {0}
         /\ \A i \in 1..(Len(s) - 1) : SubSeq(s, 1, Len(s) - 1)[i] = s[i]
<1>1. Len(s) \in Nat \ {0}
  BY EmptySeq, LenProperties
<1>2. s[Len(s)] \in S
  BY <1>1, ElementOfSeq
<1> DEFINE n == Len(s) - 1
<1>3. n \in Int /\ \A i \in 1..n : s[i] \in S
  BY <1>1, ElementOfSeq
<1>4. /\ SubSeq(s, 1, n) \in Seq(S)
      /\ Len(SubSeq(s, 1, n)) = IF 1 <= n THEN n - 1 + 1 ELSE 0
      /\ \A i \in 1..(n - 1 + 1) : SubSeq(s, 1, n)[i] = s[1 + i - 1]
  <2> HIDE DEF n
  <2> QED BY <1>3, SubSeqProperties
<1>5. Len(SubSeq(s, 1, n)) = n
  <2>1. n \in Nat
    BY <1>1
  <2> HIDE DEF n
  <2>2. (IF 1 <= n THEN n - 1 + 1 ELSE 0) = n
    BY <2>1
  <2> QED BY <1>4, <2>2
<1>6. ASSUME NEW i \in 1..n PROVE SubSeq(s, 1, n)[i] = s[i]
  <2>1. n \in Nat /\ i \in 1..(n - 1 + 1) /\ 1 + i - 1 = i
    BY <1>1
  <2> HIDE DEF n
  <2> QED BY <1>4, <2>1
<1> QED BY <1>1, <1>2, <1>4, <1>5, <1>6

\* The list without its newest node, which is what get_from_head() leaves.
LEMMA TailType ==
  ASSUME NEW S, NEW s \in Seq(S), s # <<>>
  PROVE  /\ Tail(s) \in Seq(S)
         /\ Len(Tail(s)) = Len(s) - 1
         /\ s[1] \in S
         /\ Len(s) \in Nat \ {0}
         /\ \A i \in 1..(Len(s) - 1) : Tail(s)[i] = s[i + 1]
<1>1. Len(s) \in Nat \ {0}
  BY EmptySeq, LenProperties
<1>2. s[1] \in S
  BY <1>1, ElementOfSeq
<1> QED BY <1>1, <1>2, HeadTailProperties

\* The list with a node put at its head.
LEMMA ConsType ==
  ASSUME NEW S, NEW s \in Seq(S), NEW x \in S
  PROVE  /\ <<x>> \o s \in Seq(S)
         /\ Len(<<x>> \o s) = Len(s) + 1
         /\ (<<x>> \o s)[1] = x
         /\ \A i \in 1..Len(s) : (<<x>> \o s)[i + 1] = s[i]
  OBVIOUS

LEMMA NextTypeInv == TypeInv /\ [Next]_vars => TypeInv'
<1> SUFFICES ASSUME TypeInv, [Next]_vars PROVE TypeInv'
  OBVIOUS
<1> USE DEF TypeInv, TypeOK, WaitersWait, OnlyTimedTimeOut
<1>1. ASSUME NEW p \in Producers, NEW x \in Nodes, put(p, x) PROVE TypeInv'
  <2>1. CASE alive
    <3>1. list' \in Seq(Nodes) /\ Len(list') = Len(list) + 1 /\ num' = num + 1
      BY <1>1, <2>1, ConsType DEF put, InsertHead
    <3>2. num' \in Nat /\ num' = Len(list')
      BY <3>1
    <3> QED BY <1>1, <2>1, <3>1, <3>2 DEF put
  <2>2. CASE ~alive
    BY <1>1, <2>2 DEF put
  <2> QED BY <2>1, <2>2
<1>2. ASSUME NEW p \in Producers, put_signal(p) PROVE TypeInv'
  BY <1>2 DEF put_signal, Wake
<1>3. ASSUME NEW c \in Consumers, NEW k \in Kinds, Call(c, k) PROVE TypeInv'
  BY <1>3 DEF Call
<1>4. ASSUME NEW c \in Consumers, get_wait(c) PROVE TypeInv'
  BY <1>4 DEF get_wait
<1>5. ASSUME NEW c \in Consumers, get_take(c) PROVE TypeInv'
  <2>1. /\ list' \in Seq(Nodes) /\ Len(list') = Len(list) - 1 /\ Len(list) \in Nat \ {0}
        /\ \E x \in Nodes : Return(c, x)
    <3>1. list # <<>> /\ list \in Seq(Nodes)
      BY <1>5 DEF get_take
    <3>2. CASE kind[c] # "get_from_head"
      <4> DEFINE front == SubSeq(list, 1, Len(list) - 1)
      <4>1. /\ front \in Seq(Nodes) /\ Len(front) = Len(list) - 1
            /\ list[Len(list)] \in Nodes /\ Len(list) \in Nat \ {0}
        BY <3>1, FrontType
      <4>2. list' = front /\ Return(c, list[Len(list)])
        BY <1>5, <3>2 DEF get_take
      <4> HIDE DEF front
      <4> QED BY <4>1, <4>2
    <3>3. CASE kind[c] = "get_from_head"
      BY <1>5, <3>1, <3>3, TailType DEF get_take
    <3> QED BY <3>2, <3>3
  <2>2. num' \in Nat /\ num' = Len(list')
    BY <1>5, <2>1 DEF get_take
  <2>3. UNCHANGED <<alive, waiting, ppc, kind, lost>> /\ cpc[c] = "test"
    BY <1>5 DEF get_take
  <2> QED BY <2>1, <2>2, <2>3 DEF Return
<1>6. ASSUME NEW c \in Consumers, get_dead(c) PROVE TypeInv'
  BY <1>6 DEF get_dead, Return
<1>7. ASSUME NEW c \in Consumers, get_timed_out(c) PROVE TypeInv'
  BY <1>7 DEF get_timed_out, Return
<1>8. ASSUME NEW c \in Consumers, SpuriousWake(c) PROVE TypeInv'
  BY <1>8 DEF SpuriousWake, Wake
<1>9. ASSUME NEW c \in Consumers, TimedWaitExpires(c) PROVE TypeInv'
  BY <1>9 DEF TimedWaitExpires
<1>10. CASE flush
  BY <1>10 DEF flush
<1>11. CASE UNCHANGED vars
  BY <1>11 DEF vars
<1> QED
  BY <1>1, <1>2, <1>3, <1>4, <1>5, <1>6, <1>7, <1>8, <1>9, <1>10, <1>11
     DEF Next, GetStep, Terminated

\* Every variable keeps its type; in particular _num never goes negative,
\* because it is the length of the list (wait_list.hpp:34, :50).
THEOREM TypeCorrect == Spec => []TypeOK
<1>1. Spec => []TypeInv
  BY InitTypeInv, NextTypeInv, PTL DEF Spec
<1>2. TypeInv => TypeOK
  BY DEF TypeInv
<1> QED BY <1>1, <1>2, PTL

-----------------------------------------------------------------------------
\* A flush is never missed: the emptiness test, the wait and the broadcast
\* are made under one mutex (wait_list.hpp:44-45, :108-111), so no consumer
\* sleeps on a dead list.
THEOREM FlushNotMissed == Spec => []NobodySleepsOnDeadList
<1>1. Init => NobodySleepsOnDeadList
  BY DEF Init, NobodySleepsOnDeadList
<1>2. NobodySleepsOnDeadList /\ [Next]_vars => NobodySleepsOnDeadList'
  BY DEF NobodySleepsOnDeadList, Next, vars, put, put_signal, Wake, Call, GetStep,
         get_wait, get_take, get_dead, get_timed_out, SpuriousWake,
         TimedWaitExpires, flush, Terminated
<1> QED BY <1>1, <1>2, PTL DEF Spec

-----------------------------------------------------------------------------
(* No lost wakeup.  The invariant is inductive once the wait set is known   *)
(* to be the set of consumers in pthread_cond_wait.                         *)

LEMMA FiniteCounts ==
  /\ IsFiniteSet(Awake) /\ Cardinality(Awake) \in Nat
  /\ IsFiniteSet(Signalling) /\ Cardinality(Signalling) \in Nat
  BY WaitListAssumption, FS_Subset, FS_CardinalityType DEF Awake, Signalling

LEMMA NextNoLostWakeup ==
  TypeInv /\ NoLostWakeup /\ [Next]_vars => NoLostWakeup'
<1> SUFFICES ASSUME TypeInv, NoLostWakeup, [Next]_vars PROVE NoLostWakeup'
  OBVIOUS
<1>0. /\ Len(list) \in Nat
      /\ waiting = {c \in Consumers : cpc[c] = "wait"}
      /\ cpc \in [Consumers -> {"idle", "test", "wait", "timeout"}]
      /\ ppc \in [Producers -> {"idle", "signal"}]
      /\ list \in Seq(Nodes)
      /\ waiting \subseteq Consumers
  BY DEF TypeInv, TypeOK, WaitersWait, OnlyTimedTimeOut
<1>a. ASSUME NEW c \in Consumers, cpc[c] # "test",
             cpc' = [cpc EXCEPT ![c] = "test"]
      PROVE  Cardinality(Awake') = Cardinality(Awake) + 1
  <2>1. Awake' = Awake \cup {c} /\ c \notin Awake
    BY <1>0, <1>a DEF Awake
  <2> QED BY <2>1, FiniteCounts, FS_AddElement
<1>1. ASSUME NEW p \in Producers, NEW x \in Nodes, put(p, x) PROVE NoLostWakeup'
  <2>1. Signalling' = Signalling \cup {p} /\ p \notin Signalling
    BY <1>0, <1>1 DEF put, Signalling
  <2>2. Cardinality(Signalling') = Cardinality(Signalling) + 1
    BY <2>1, FiniteCounts, FS_AddElement
  <2>3. Awake' = Awake
    BY <1>1 DEF put, Awake
  <2>4. alive => Len(list') = Len(list) + 1
    BY <1>0, <1>1, ConsType DEF put, InsertHead
  <2>5. alive' = alive /\ waiting' = waiting
    BY <1>1 DEF put
  <2> QED BY <1>0, <2>2, <2>3, <2>4, <2>5, FiniteCounts DEF NoLostWakeup
<1>2. ASSUME NEW p \in Producers, put_signal(p) PROVE NoLostWakeup'
  <2>1. CASE waiting = {}
    BY <1>2, <2>1 DEF put_signal, NoLostWakeup
  <2>2. ASSUME NEW c \in waiting, Wake(c) PROVE NoLostWakeup'
    <3>1. Signalling' = Signalling \ {p} /\ p \in Signalling
      BY <1>0, <1>2 DEF put_signal, Signalling
    <3>2. Cardinality(Signalling') = Cardinality(Signalling) - 1
      BY <3>1, FiniteCounts, FS_RemoveElement
    <3>3. Cardinality(Awake') = Cardinality(Awake) + 1
      <4>1. c \in Consumers /\ cpc[c] # "test"
        BY <1>0
      <4> QED BY <1>a, <2>2, <4>1 DEF Wake
    <3>4. alive' = alive /\ list' = list
      BY <1>2 DEF put_signal
    <3> QED BY <1>0, <3>2, <3>3, <3>4, FiniteCounts DEF NoLostWakeup
  <2> QED BY <1>2, <2>1, <2>2 DEF put_signal
<1>3. ASSUME NEW c \in Consumers, NEW k \in Kinds, Call(c, k) PROVE NoLostWakeup'
  <2>1. Cardinality(Awake') = Cardinality(Awake) + 1
    BY <1>0, <1>3, <1>a DEF Call
  <2>2. Signalling' = Signalling
    BY <1>3 DEF Call, Signalling
  <2> QED BY <1>0, <1>3, <2>1, <2>2, FiniteCounts DEF Call, NoLostWakeup
<1>4. ASSUME NEW c \in Consumers, get_wait(c) PROVE NoLostWakeup'
  <2>1. Len(list') = 0
    BY <1>4, EmptySeq DEF get_wait
  <2>2. Signalling' = Signalling
    BY <1>4 DEF get_wait, Signalling
  <2>3. Cardinality(Awake') \in Nat
    BY WaitListAssumption, FS_Subset, FS_CardinalityType DEF Awake
  <2> QED BY <2>1, <2>2, <2>3, FiniteCounts DEF NoLostWakeup
<1>5. ASSUME NEW c \in Consumers, get_take(c) PROVE NoLostWakeup'
  <2>1. Len(list') = Len(list) - 1
    BY <1>0, <1>5, FrontType, TailType DEF get_take
  <2>2. Awake' = Awake \ {c} /\ c \in Awake
    BY <1>0, <1>5 DEF get_take, Return, Awake
  <2>3. Cardinality(Awake') = Cardinality(Awake) - 1
    BY <2>2, FiniteCounts, FS_RemoveElement
  <2>4. alive' = alive /\ waiting' = waiting /\ Signalling' = Signalling
    BY <1>5 DEF get_take, Signalling
  <2> QED BY <1>0, <2>1, <2>3, <2>4, FiniteCounts DEF NoLostWakeup
<1>6. ASSUME NEW c \in Consumers, get_dead(c) PROVE NoLostWakeup'
  BY <1>6 DEF get_dead, NoLostWakeup
<1>7. ASSUME NEW c \in Consumers, get_timed_out(c) PROVE NoLostWakeup'
  <2>1. Awake' = Awake /\ Signalling' = Signalling
    BY <1>0, <1>7 DEF get_timed_out, Return, Awake, Signalling
  <2> QED BY <1>7, <2>1 DEF get_timed_out, NoLostWakeup
<1>8. ASSUME NEW c \in Consumers, SpuriousWake(c) PROVE NoLostWakeup'
  <2>1. Cardinality(Awake') = Cardinality(Awake) + 1
    BY <1>0, <1>8, <1>a DEF SpuriousWake, Wake
  <2>2. Signalling' = Signalling
    BY <1>8 DEF SpuriousWake, Signalling
  <2>3. waiting # {} /\ alive' = alive /\ list' = list
    BY <1>8 DEF SpuriousWake
  <2> QED BY <1>0, <2>1, <2>2, <2>3, FiniteCounts DEF NoLostWakeup
<1>9. ASSUME NEW c \in Consumers, TimedWaitExpires(c) PROVE NoLostWakeup'
  <2>1. Awake' = Awake /\ Signalling' = Signalling
    BY <1>0, <1>9 DEF TimedWaitExpires, Awake, Signalling
  <2> QED BY <1>9, <2>1 DEF TimedWaitExpires, NoLostWakeup
<1>10. CASE flush
  BY <1>10 DEF flush, NoLostWakeup
<1>11. CASE UNCHANGED vars
  BY <1>11 DEF vars, NoLostWakeup, Awake, Signalling
<1> QED
  BY <1>1, <1>2, <1>3, <1>4, <1>5, <1>6, <1>7, <1>8, <1>9, <1>10, <1>11
     DEF Next, GetStep, Terminated

\* Signalling after the unlock (wait_list.hpp:36-37) loses no wakeup: while
\* anyone sleeps on a live list, every node on it is matched by a consumer
\* about to test the list or by a producer about to signal.
THEOREM WakeupsNotLost == Spec => []NoLostWakeup
<1>1. Init => TypeInv /\ NoLostWakeup
  BY InitTypeInv DEF Init, NoLostWakeup
<1>2. (TypeInv /\ NoLostWakeup) /\ [Next]_vars => (TypeInv /\ NoLostWakeup)'
  BY NextTypeInv, NextNoLostWakeup
<1> QED BY <1>1, <1>2, PTL DEF Spec

-----------------------------------------------------------------------------
(* Refinement: the consumers inside a call are those whose cpc is not       *)
(* "idle"; put and take map to Put and Get, waits and wakeups to nothing.   *)

LEMMA NextRefines == TypeInv /\ [Next]_vars => [Queue!Next]_(Queue!qvars)
<1> SUFFICES ASSUME TypeInv, [Next]_vars PROVE [Queue!Next]_(Queue!qvars)
  OBVIOUS
<1> DEFINE incall == {c \in Consumers : cpc[c] # "idle"}
<1>0. /\ cpc \in [Consumers -> {"idle", "test", "wait", "timeout"}]
      /\ waiting = {c \in Consumers : cpc[c] = "wait"}
      /\ \A c \in Consumers : cpc[c] = "timeout" => kind[c] = "get_timed"
  BY DEF TypeInv, TypeOK, WaitersWait, OnlyTimedTimeOut
<1>w. ASSUME NEW c \in waiting, NEW l \in {"test", "timeout"},
             cpc' = [cpc EXCEPT ![c] = l]
      PROVE  incall' = incall
  BY <1>0, <1>w
<1>1. ASSUME NEW p \in Producers, NEW x \in Nodes, put(p, x) PROVE Queue!Put(x)
  BY <1>1 DEF put, InsertHead, Free, Range, Queue!Put, Queue!Free, Queue!Range
<1>2. ASSUME NEW p \in Producers, put_signal(p) PROVE UNCHANGED Queue!qvars
  BY <1>2, <1>w DEF put_signal, Wake, Queue!qvars
<1>3. ASSUME NEW c \in Consumers, NEW k \in Kinds, Call(c, k) PROVE Queue!Call(c, k)
  <2>1. c \notin incall /\ incall' = incall \cup {c}
    BY <1>0, <1>3 DEF Call
  <2> QED BY <1>3, <2>1 DEF Call, Queue!Call
<1>4. ASSUME NEW c \in Consumers, get_wait(c) PROVE UNCHANGED Queue!qvars
  BY <1>0, <1>4 DEF get_wait, Queue!qvars
<1>r. ASSUME NEW c \in Consumers, NEW v, cpc[c] # "idle", Return(c, v)
      PROVE  c \in incall /\ incall' = incall \ {c}
  BY <1>0, <1>r DEF Return
<1>5. ASSUME NEW c \in Consumers, get_take(c) PROVE Queue!Get(c)
  <2>1. c \in incall /\ incall' = incall \ {c}
    BY <1>5, <1>r DEF get_take
  <2> QED BY <1>5, <2>1 DEF get_take, Return, Queue!Get
<1>6. ASSUME NEW c \in Consumers, get_dead(c) PROVE Queue!GetNull(c)
  <2>1. c \in incall /\ incall' = incall \ {c}
    BY <1>6, <1>r DEF get_dead
  <2> QED BY <1>6, <2>1 DEF get_dead, Return, Queue!GetNull
<1>7. ASSUME NEW c \in Consumers, get_timed_out(c) PROVE Queue!GetNull(c)
  <2>1. c \in incall /\ incall' = incall \ {c}
    BY <1>7, <1>r DEF get_timed_out
  <2> QED BY <1>0, <1>7, <2>1 DEF get_timed_out, Return, Queue!GetNull
<1>8. ASSUME NEW c \in Consumers, SpuriousWake(c) PROVE UNCHANGED Queue!qvars
  BY <1>8, <1>w DEF SpuriousWake, Wake, Queue!qvars
<1>9. ASSUME NEW c \in Consumers, TimedWaitExpires(c) PROVE UNCHANGED Queue!qvars
  BY <1>9, <1>w DEF TimedWaitExpires, Queue!qvars
<1>10. ASSUME flush PROVE Queue!Flush
  <2>1. incall' = incall
    BY <1>0, <1>10 DEF flush
  <2> QED BY <1>10, <2>1 DEF flush, Queue!Flush
<1>11. ASSUME UNCHANGED vars PROVE UNCHANGED Queue!qvars
  BY <1>11 DEF vars, Queue!qvars
<1> QED
  BY <1>1, <1>2, <1>3, <1>4, <1>5, <1>6, <1>7, <1>8, <1>9, <1>10, <1>11
     DEF Next, GetStep, Terminated, Queue!Next

\* wait_list_t is a queue with atomic operations: whatever the interleaving of
\* locks, waits, signals, timeouts and spurious wakeups (wait_list.hpp:28-112),
\* its nodes come out as TaskQueue hands them out.
THEOREM IsTaskQueue == Spec => RefinesTaskQueue
<1>1. Init => Queue!Init
  BY DEF Init, Queue!Init
<1>2. Spec => []TypeInv
  BY InitTypeInv, NextTypeInv, PTL DEF Spec
<1> QED BY <1>1, <1>2, NextRefines, PTL DEF Spec, RefinesTaskQueue, Queue!Spec
=============================================================================
