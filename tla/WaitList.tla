------------------------------ MODULE WaitList ------------------------------
(***************************************************************************)
(* wait_list_t (src/src/Worker/wait_list.hpp): the queue between the       *)
(* receiver threads, which put, and the loader threads, which get.         *)
(*                                                                         *)
(* _head, _num and _alive are only touched under _mutex, so each stretch   *)
(* from pthread_mutex_lock to pthread_mutex_unlock is one step.  What is   *)
(* not atomic is kept apart: put signals after it has unlocked, a waiter   *)
(* leaves the mutex, is woken (by a signal, by a broadcast, by its         *)
(* timeout, or for no reason at all) and must take the mutex again before  *)
(* it tests the list again.                                                *)
(***************************************************************************)
EXTENDS Naturals, Sequences, SequencesExt, FiniteSets

CONSTANTS Producers, Consumers, Nodes, Kinds, NULL, NoNode

GetKinds == {"get", "get_timed", "get_from_head"}

ASSUME WaitListAssumption ==
    /\ Kinds \subseteq GetKinds
    /\ NULL \notin Nodes
    /\ NoNode \notin Nodes \cup {NULL}
    /\ IsFiniteSet(Producers)
    /\ IsFiniteSet(Consumers)

VARIABLES
    list,      \* the linked list, _head.next first
    num,       \* _num
    alive,     \* _alive
    waiting,   \* consumers blocked on _cond
    ppc,       \* producer: "idle", or "signal" when it has unlocked
    cpc,       \* consumer: "idle", "test" (wants _mutex), "wait", "timeout"
    kind,      \* the get each consumer is in, or was in last
    ret,       \* what that get returned
    lost       \* nodes put on a dead list: their owner forgets them

vars == <<list, num, alive, waiting, ppc, cpc, kind, ret, lost>>

TypeOK ==
    /\ list \in Seq(Nodes)
    /\ num \in Nat
    /\ alive \in BOOLEAN
    /\ waiting \subseteq Consumers
    /\ ppc \in [Producers -> {"idle", "signal"}]
    /\ cpc \in [Consumers -> {"idle", "test", "wait", "timeout"}]
    /\ kind \in [Consumers -> Kinds]
    /\ ret \in [Consumers -> Nodes \cup {NULL, NoNode}]
    /\ lost \subseteq Nodes

Free(x) == x \notin Range(list) \cup lost \cup Range(ret)

Init ==
    /\ list = <<>>
    /\ num = 0
    /\ alive = TRUE
    /\ waiting = {}
    /\ ppc = [p \in Producers |-> "idle"]
    /\ cpc = [c \in Consumers |-> "idle"]
    /\ kind \in [Consumers -> Kinds]
    /\ ret = [c \in Consumers |-> NoNode]
    /\ lost = {}

-----------------------------------------------------------------------------
(* put.  Definitions with a suffix are mutants: the definition after them   *)
(* with a bug put in, to show that a property notices it.                   *)

\* this->add(node), ++_num
InsertHead_AtTail(x) == list' = list \o <<x>> /\ num' = num + 1
InsertHead(x) == list' = <<x>> \o list /\ num' = num + 1

put(p, x) ==
    /\ ppc[p] = "idle"
    /\ Free(x)
    /\ \/ /\ alive
          /\ InsertHead(x)
          /\ UNCHANGED lost
       \/ /\ ~alive
          /\ lost' = lost \cup {x}
          /\ UNCHANGED <<list, num>>
    /\ ppc' = [ppc EXCEPT ![p] = "signal"]
    /\ UNCHANGED <<alive, waiting, cpc, kind, ret>>

\* A consumer that leaves the wait set goes back to the mutex.
Wake(c) ==
    /\ waiting' = waiting \ {c}
    /\ cpc' = [cpc EXCEPT ![c] = "test"]

put_signal_Forgotten(p) ==
    /\ ppc[p] = "signal"
    /\ ppc' = [ppc EXCEPT ![p] = "idle"]
    /\ UNCHANGED <<waiting, cpc, list, num, alive, kind, ret, lost>>

put_signal(p) ==
    /\ ppc[p] = "signal"
    /\ ppc' = [ppc EXCEPT ![p] = "idle"]
    /\ \/ \E c \in waiting : Wake(c)
       \/ waiting = {} /\ UNCHANGED <<waiting, cpc>>
    /\ UNCHANGED <<list, num, alive, kind, ret, lost>>

-----------------------------------------------------------------------------
(* get(), get(abstime), get_from_head() *)

\* The callers loop: while ((worker = get()) != NULL).  A timed caller may
\* poll again after NULL, which it cannot tell from a timeout.
Call(c, k) ==
    /\ cpc[c] = "idle"
    /\ ret[c] # NULL \/ kind[c] = "get_timed"
    /\ cpc' = [cpc EXCEPT ![c] = "test"]
    /\ kind' = [kind EXCEPT ![c] = k]
    /\ ret' = [ret EXCEPT ![c] = NoNode]
    /\ UNCHANGED <<list, num, alive, waiting, ppc, lost>>

Return(c, r) ==
    /\ ret' = [ret EXCEPT ![c] = r]
    /\ cpc' = [cpc EXCEPT ![c] = "idle"]

\* while (_alive && is_empty()) pthread_cond_wait(...)
get_wait(c) ==
    /\ cpc[c] = "test"
    /\ alive /\ list = <<>>
    /\ waiting' = waiting \cup {c}
    /\ cpc' = [cpc EXCEPT ![c] = "wait"]
    /\ UNCHANGED <<list, num, alive, ppc, kind, ret, lost>>

\* The node is entry(*_head.prev), the oldest; get_from_head takes
\* entry(*_head.next), the newest.
get_take(c) ==
    /\ cpc[c] = "test"
    /\ alive /\ list # <<>>
    /\ num' = num - 1
    /\ \/ /\ kind[c] # "get_from_head"
          /\ Return(c, list[Len(list)])
          /\ list' = SubSeq(list, 1, Len(list) - 1)
       \/ /\ kind[c] = "get_from_head"
          /\ Return(c, list[1])
          /\ list' = Tail(list)
    /\ UNCHANGED <<alive, waiting, ppc, kind, lost>>

get_dead(c) ==
    /\ cpc[c] = "test"
    /\ ~alive
    /\ Return(c, NULL)
    /\ UNCHANGED <<list, num, alive, waiting, ppc, kind, lost>>

\* pthread_cond_wait may return without a signal.
SpuriousWake(c) ==
    /\ c \in waiting
    /\ Wake(c)
    /\ UNCHANGED <<list, num, alive, ppc, kind, ret, lost>>

\* pthread_cond_timedwait gives up; the call returns NULL when it has the
\* mutex again, whatever is on the list by then.
TimedWaitExpires(c) ==
    /\ c \in waiting
    /\ kind[c] = "get_timed"
    /\ waiting' = waiting \ {c}
    /\ cpc' = [cpc EXCEPT ![c] = "timeout"]
    /\ UNCHANGED <<list, num, alive, ppc, kind, ret, lost>>

get_timed_out(c) ==
    /\ cpc[c] = "timeout"
    /\ Return(c, NULL)
    /\ UNCHANGED <<list, num, alive, waiting, ppc, kind, lost>>

-----------------------------------------------------------------------------
(* flush: the broadcast is sent with the mutex held *)

flush_NoBroadcast ==
    /\ alive
    /\ alive' = FALSE
    /\ UNCHANGED <<list, num, waiting, cpc, ppc, kind, ret, lost>>

flush ==
    /\ alive
    /\ alive' = FALSE
    /\ waiting' = {}
    /\ cpc' = [c \in Consumers |-> IF c \in waiting THEN "test" ELSE cpc[c]]
    /\ UNCHANGED <<list, num, ppc, kind, ret, lost>>

\* Nobody has anything left to do on a dead list.
Terminated ==
    /\ ~alive
    /\ \A c \in Consumers : cpc[c] = "idle" /\ ret[c] = NULL
    /\ \A p \in Producers : ppc[p] = "idle"
    /\ UNCHANGED vars

GetStep(c) == get_wait(c) \/ get_take(c) \/ get_dead(c) \/ get_timed_out(c)

Next ==
    \/ \E p \in Producers, x \in Nodes : put(p, x)
    \/ \E p \in Producers : put_signal(p)
    \/ \E c \in Consumers, k \in Kinds : Call(c, k)
    \/ \E c \in Consumers : GetStep(c)
    \/ \E c \in Consumers : SpuriousWake(c) \/ TimedWaitExpires(c)
    \/ flush
    \/ Terminated

Spec == Init /\ [][Next]_vars

\* Threads that can run do run: a producer that has unlocked signals, a
\* consumer that can take the mutex takes it in the end, and the consumers
\* keep calling get.  Nobody is obliged to put or to flush.
Fairness ==
    /\ \A p \in Producers : WF_vars(put_signal(p))
    /\ \A c \in Consumers : WF_vars(GetStep(c))
    /\ \A c \in Consumers : WF_vars(\E k \in Kinds : Call(c, k))

FairSpec == Spec /\ Fairness

-----------------------------------------------------------------------------
(* Properties *)

Awake == {c \in Consumers : cpc[c] = "test"}
Signalling == {p \in Producers : ppc[p] = "signal"}

\* No lost wakeup (wait_list.hpp:37 signals after the unlock at :36): while a
\* consumer sleeps on a live list, every node on it is matched by a consumer
\* on its way to the test or by a producer that has yet to signal.
NoLostWakeup ==
    alive /\ waiting # {} =>
        Len(list) <= Cardinality(Awake) + Cardinality(Signalling)

\* A flush cannot be missed (wait_list.hpp:106): nobody sleeps on a dead
\* list, whether it waited before the flush or tested around it.
NobodySleepsOnDeadList == ~alive => waiting = {}

\* The loaders only ever call get().  The other two forms make no promise: a
\* timed caller may poll for ever, and get_from_head may starve the oldest.
OnlyGet == [](\A c \in Consumers : kind[c] = "get")

\* Every task put on a live list is taken in the end, unless a flush comes
\* first (wait_list.hpp:44).
EveryTaskTaken ==
    OnlyGet => \A x \in Nodes : x \in Range(list) ~> (x \notin Range(list) \/ ~alive)

\* Flush releases every consumer (wait_list.hpp:110): each get in progress
\* returns, and the loops end.
FlushReleasesAll ==
    OnlyGet => (~alive ~> \A c \in Consumers : cpc[c] = "idle" /\ ret[c] = NULL)

Queue == INSTANCE TaskQueue WITH incall <- {c \in Consumers : cpc[c] # "idle"}

\* The code is a queue (wait_list.hpp:28-112): with its mutex, signals and
\* waits it takes no step that the atomic TaskQueue could not take.
RefinesTaskQueue == Queue!Spec

=============================================================================
