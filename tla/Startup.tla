------------------------------ MODULE Startup ------------------------------
(***************************************************************************)
(* The life of the process: main opens the two thread pools, activates     *)
(* them, sleeps in pause() until a signal, and stops them.  A pool is a    *)
(* task_base: open creates its threads one by one, each of them waits at   *)
(* the pool's barrier, and activate, main's own arrival at the barrier,    *)
(* lets them all into svc.                                                 *)
(*                                                                         *)
(* What a thread does inside svc is the subject of HttpServer and          *)
(* WaitList; here it stays there until its pool is told to stop.           *)
(***************************************************************************)
EXTENDS Naturals, FiniteSets

CONSTANT MaxThreads     \* the most threads the configuration asks of a pool

ASSUME MaxThreadsAssumption == MaxThreads \in Nat

Pools   == {"loader", "http"}
Main    == 0            \* main's place at a barrier; the threads are 1..m_thread_num
Sockets == {"epoll", "pipe", "listen"}

VARIABLES pc,          \* where main is: <<step, pool it works on>>
          thread_num,  \* the configured number of threads of each pool
          opened,      \* the descriptors Http_Server::open has made
          thread,      \* what the threads of each pool do
          arrived,     \* who has reached the barrier of each pool
          barrier,     \* the state of each barrier
          stopping,    \* the pools told to stop: _stop_task, or a flushed m_task_list
          joined       \* how many threads of the pool being stopped are joined

vars == <<pc, thread_num, opened, thread, arrived, barrier, stopping, joined>>

Threads == 1..MaxThreads

Failed  == pc[1] = "failed"
Running == pc[1] \notin {"failed", "exited"}
Created(p) == {i \in Threads : thread[p][i] # "none"}

Init ==
    /\ pc = <<"open", "loader">>
    /\ thread_num \in [Pools -> 0..MaxThreads]
    /\ opened = {}
    /\ thread = [p \in Pools |-> [i \in Threads |-> "none"]]
    /\ arrived = [p \in Pools |-> {}]
    /\ barrier = [p \in Pools |-> "none"]
    /\ stopping = {}
    /\ joined = 0

-----------------------------------------------------------------------------
(* main opens the pools: the loader first, then the server. *)

\* exit(-1): the process ends with all its threads.
exit(why) == pc' = <<"failed", why>>

\* config.open or the opening of a pool fails; main exits.
OpenFails ==
    /\ pc[1] \in {"open", "create"}
    /\ exit(pc[2])
    /\ UNCHANGED <<thread_num, opened, thread, arrived, barrier, stopping, joined>>

\* Http_Server::open makes its descriptors, in this order, before its threads.
OpenSocket(s, before) ==
    /\ pc = <<"open", "http">>
    /\ opened = before
    /\ opened' = opened \cup {s}
    /\ UNCHANGED <<pc, thread_num, thread, arrived, barrier, stopping, joined>>

epoll_create  == OpenSocket("epoll", {})
create_pipe   == OpenSocket("pipe", {"epoll"})
create_listen == OpenSocket("listen", {"epoll", "pipe"})

\* The rest of it is task_base::open, here up to its first thread.
open ==
    /\ pc[1] = "open"
    /\ LET p == pc[2]
       IN  /\ p = "http" => opened = Sockets
           /\ IF thread_num[p] = 0
              THEN exit(p) /\ UNCHANGED barrier
              ELSE /\ pc' = <<"create", p>>
                   /\ barrier' = [barrier EXCEPT ![p] = "ready"]
    /\ UNCHANGED <<thread_num, opened, thread, arrived, stopping, joined>>

MoreToCreate_OneLess(p, i) == i + 1 < thread_num[p]

MoreToCreate(p, i) == i < thread_num[p]

\* One pthread_create; after the last one, the next pool or the activation.
pthread_create ==
    /\ pc[1] = "create"
    /\ LET p == pc[2]
           i == Cardinality(Created(p)) + 1
       IN  /\ thread' = [thread EXCEPT ![p][i] = "created"]
           /\ pc' = IF MoreToCreate(p, i) THEN pc
                    ELSE IF p = "loader" THEN <<"open", "http">>
                    ELSE <<"activate", "loader">>
    /\ UNCHANGED <<thread_num, opened, arrived, barrier, stopping, joined>>

-----------------------------------------------------------------------------
(* The barrier. *)

\* pthread_barrier_init(&m_barrier, NULL, thread_num + 1)
BarrierCount(p) == thread_num[p] + 1

BarrierOpen(p) == Cardinality(arrived[p]) >= BarrierCount(p)

\* run_svc, in the new thread: arrive, and enter svc when the barrier opens.
run_svc_arrive(p, i) ==
    /\ Running
    /\ thread[p][i] = "created"
    /\ thread' = [thread EXCEPT ![p][i] = "barrier"]
    /\ arrived' = [arrived EXCEPT ![p] = @ \cup {i}]
    /\ UNCHANGED <<pc, thread_num, opened, barrier, stopping, joined>>

run_svc_enter(p, i) ==
    /\ Running
    /\ thread[p][i] = "barrier"
    /\ BarrierOpen(p)
    /\ thread' = [thread EXCEPT ![p][i] = "svc"]
    /\ UNCHANGED <<pc, thread_num, opened, arrived, barrier, stopping, joined>>

\* svc returns once its pool is told to stop.
run_svc_return(p, i) ==
    /\ Running
    /\ thread[p][i] = "svc"
    /\ p \in stopping
    /\ thread' = [thread EXCEPT ![p][i] = "done"]
    /\ UNCHANGED <<pc, thread_num, opened, arrived, barrier, stopping, joined>>

activate_LoaderOnly ==
    /\ pc[1] = "activate"
    /\ arrived' = [arrived EXCEPT !["loader"] = @ \cup {Main}]
    /\ pc' = IF pc[2] = "loader" THEN <<"wait", "loader">> ELSE <<"pause", "http">>
    /\ UNCHANGED <<thread_num, opened, thread, barrier, stopping, joined>>

\* activate: main arrives at the barrier of the pool ...
activate ==
    /\ pc[1] = "activate"
    /\ arrived' = [arrived EXCEPT ![pc[2]] = @ \cup {Main}]
    /\ pc' = <<"wait", pc[2]>>
    /\ UNCHANGED <<thread_num, opened, thread, barrier, stopping, joined>>

\* ... and leaves it with the others; then the next pool, or pause().
activate_return ==
    /\ pc[1] = "wait"
    /\ BarrierOpen(pc[2])
    /\ pc' = IF pc[2] = "loader" THEN <<"activate", "http">> ELSE <<"pause", "http">>
    /\ UNCHANGED <<thread_num, opened, thread, arrived, barrier, stopping, joined>>

-----------------------------------------------------------------------------
(* main stops the pools: the server first, then the loader. *)

\* A signal ends pause(); anywhere else its handler, which is empty, returns
\* to where main was and nothing remembers it.
pause ==
    /\ pc[1] = "pause"
    /\ pc' = <<"stop", "http">>
    /\ UNCHANGED <<thread_num, opened, thread, arrived, barrier, stopping, joined>>

stop_Unflagged ==
    /\ pc[1] = "stop"
    /\ joined' = 0
    /\ pc' = <<"join", pc[2]>>
    /\ UNCHANGED <<thread_num, opened, thread, arrived, barrier, stopping>>

stop ==
    /\ pc[1] = "stop"
    /\ stopping' = stopping \cup {pc[2]}
    /\ joined' = 0
    /\ pc' = <<"join", pc[2]>>
    /\ UNCHANGED <<thread_num, opened, thread, arrived, barrier>>

\* join waits for the threads in the order they were created.
join ==
    /\ pc[1] = "join"
    /\ joined < thread_num[pc[2]]
    /\ thread[pc[2]][joined + 1] = "done"
    /\ joined' = joined + 1
    /\ UNCHANGED <<pc, thread_num, opened, thread, arrived, barrier, stopping>>

AllJoined_ButLast(p) == joined + 1 >= thread_num[p]

AllJoined(p) == joined = thread_num[p]

\* The end of join: the barrier goes; then the loader is stopped, or main returns.
join_return ==
    /\ pc[1] = "join"
    /\ AllJoined(pc[2])
    /\ barrier' = [barrier EXCEPT ![pc[2]] = "destroyed"]
    /\ pc' = IF pc[2] = "http" THEN <<"stop", "loader">> ELSE <<"exited", "loader">>
    /\ UNCHANGED <<thread_num, opened, thread, arrived, stopping, joined>>

-----------------------------------------------------------------------------
ThreadStep(p, i) == run_svc_arrive(p, i) \/ run_svc_enter(p, i) \/ run_svc_return(p, i)

OpenStep == epoll_create \/ create_pipe \/ create_listen \/ open \/ pthread_create
MainStep == OpenStep \/ activate \/ activate_return \/ stop \/ join \/ join_return

Terminated == ~Running /\ UNCHANGED vars

Next ==
    \/ OpenFails
    \/ pause
    \/ MainStep
    \/ \E p \in Pools, i \in Threads : ThreadStep(p, i)
    \/ Terminated

\* The scheduler runs main and every thread; failures and signals may never come.
Fairness ==
    /\ WF_vars(MainStep)
    /\ \A p \in Pools, i \in Threads : WF_vars(ThreadStep(p, i))

Spec     == Init /\ [][Next]_vars
FairSpec == Spec /\ Fairness

-----------------------------------------------------------------------------
MainSteps == {"open", "create", "activate", "wait", "pause", "stop", "join", "failed", "exited"}

\* The values of the variables; the barrier is never asked for more or fewer
\* parties than the threads of its pool and main.
TypeOK ==
    /\ pc \in MainSteps \X Pools
    /\ thread_num \in [Pools -> 0..MaxThreads]
    /\ opened \in SUBSET Sockets
    /\ thread \in [Pools -> [Threads -> {"none", "created", "barrier", "svc", "done"}]]
    /\ arrived \in [Pools -> SUBSET (0..MaxThreads)]
    /\ \A p \in Pools : arrived[p] \subseteq 0..thread_num[p]
    /\ barrier \in [Pools -> {"none", "ready", "destroyed"}]
    /\ stopping \in SUBSET Pools
    /\ joined \in 0..MaxThreads

InSvc(p) == \E i \in Threads : thread[p][i] \in {"svc", "done"}

\* No thread serves before everything it needs is there: a loader only after
\* both pools are open, a receiver only after the loader pool is activated
\* too.  Hence a start that fails half way has served nobody.
ServeOnlyWhenReady ==
    /\ InSvc("loader") \/ InSvc("http") => opened = Sockets
    /\ InSvc("http") => Main \in arrived["loader"]
    /\ Failed => ~InSvc("loader") /\ ~InSvc("http")

\* A barrier is destroyed only when all its threads are through it and gone:
\* stop may follow activate before a thread has woken up in the barrier.
DestroyedUnused ==
    \A p \in Pools :
       barrier[p] = "destroyed" => \A i \in 1..thread_num[p] : thread[p][i] = "done"

-----------------------------------------------------------------------------
(* The strengthening that makes the two inductive. *)

NotYetOpen(p) ==
    \/ pc = <<"open", p>>
    \/ p = "http" /\ pc \in {<<"open", "loader">>, <<"create", "loader">>}

\* The threads of a pool are created in order, and no more than asked for.
CreatedInOrder ==
    \A p \in Pools : \E k \in 0..thread_num[p] :
       /\ Created(p) = 1..k
       /\ pc = <<"create", p>> => k < thread_num[p]
       /\ NotYetOpen(p) => k = 0

Opening == pc[1] \in {"open", "create", "failed"}

\* main arrives at the loader's barrier, then at the server's, and only with
\* all descriptors open.
ActivationOrder ==
    /\ ~Opening \/ pc = <<"create", "http">> => opened = Sockets
    /\ Main \in arrived["loader"] => ~Opening
    /\ Main \in arrived["http"] => Main \in arrived["loader"]
    /\ pc = <<"activate", "http">> \/ pc[1] \in {"wait", "pause", "stop", "join"} => Main \in arrived["loader"]

\* A thread is past its barrier only if main has come to it.
PastBarrier == \A p \in Pools : InSvc(p) => Main \in arrived[p]

\* The threads counted as joined are done.
JoinedAreDone ==
    pc[1] = "join" => /\ joined <= thread_num[pc[2]]
                      /\ \A i \in 1..joined : thread[pc[2]][i] = "done"

Inv ==
    /\ TypeOK
    /\ CreatedInOrder
    /\ ActivationOrder
    /\ PastBarrier
    /\ JoinedAreDone
    /\ DestroyedUnused

-----------------------------------------------------------------------------
\* A server that reached pause() has, or will have, all its threads serving.
AllServe ==
    (pc[1] = "pause") ~> \A p \in Pools : \A i \in 1..thread_num[p] : thread[p][i] \in {"svc", "done"}

\* A signal that finds main in pause() ends the process in order.
SignalEnds == (pc[1] = "stop") ~> (pc[1] = "exited")

=============================================================================
