--------------------------- MODULE ProcessProofs ---------------------------
(***************************************************************************)
(* Proofs about Startup, Configuration and Process, for any number of      *)
(* threads and files of any length.  The heart of the first part is        *)
(* BarrierNeedsMain: a barrier made for thread_num + 1 parties opens only  *)
(* when main is one of them.  The heart of the second is LineImported: one *)
(* more line changes the tree in what that line says, and nowhere else.    *)
(***************************************************************************)
EXTENDS Process, SeqLemmas, FiniteSetTheorems, TLAPS

-----------------------------------------------------------------------------
(* The start and the stop of the pools. *)

\* A barrier opens only after main has arrived at it: the threads alone are
\* one party too few (task_base.cpp:29).
LEMMA BarrierNeedsMain ==
  ASSUME TypeOK, NEW p \in Pools, BarrierOpen(p)
  PROVE  Main \in arrived[p]
<1>1. thread_num[p] \in Nat /\ arrived[p] \in SUBSET (0..thread_num[p])
  BY MaxThreadsAssumption DEF TypeOK
<1>2. IsFiniteSet(0..thread_num[p]) /\ Cardinality(0..thread_num[p]) = thread_num[p] + 1
  BY <1>1, FS_Interval, 0 \in Int, thread_num[p] \in Int
<1>3. Cardinality(arrived[p]) >= Cardinality(0..thread_num[p])
  BY <1>2 DEF BarrierOpen, BarrierCount
<1>4. /\ IsFiniteSet(arrived[p])
      /\ Cardinality(arrived[p]) <= Cardinality(0..thread_num[p])
      /\ Cardinality(0..thread_num[p]) = Cardinality(arrived[p]) => 0..thread_num[p] = arrived[p]
  BY <1>1, <1>2, FS_Subset
<1>5. Cardinality(arrived[p]) \in Nat
  BY <1>4, FS_CardinalityType
<1>6. 0..thread_num[p] = arrived[p]
  BY <1>1, <1>2, <1>3, <1>4, <1>5
<1> QED
  BY <1>1, <1>6 DEF Main

\* The thread that pthread_create makes next is a new one, and one of those
\* asked for (task_base.cpp:30).
LEMMA NextIsNew ==
  ASSUME TypeOK, CreatedInOrder, NEW p \in Pools, pc = <<"create", p>>
  PROVE  \E k \in Nat : /\ Created(p) = 1..k
                        /\ Cardinality(Created(p)) = k
                        /\ k < thread_num[p]
<1>1. PICK k \in 0..thread_num[p] : Created(p) = 1..k /\ k < thread_num[p]
  BY DEF CreatedInOrder
<1>2. k \in Nat
  BY MaxThreadsAssumption DEF TypeOK
<1>3. Cardinality(1..k) = k
  BY <1>2, FS_Interval, 1 \in Int, k \in Int
<1> QED
  BY <1>1, <1>2, <1>3

\* A step that creates no thread and opens no pool keeps the order of creation.
LEMMA SameThreads ==
  ASSUME CreatedInOrder, thread_num' = thread_num,
         \A p \in Pools : /\ Created(p)' = Created(p)
                          /\ pc' = <<"create", p>> => pc = <<"create", p>>
                          /\ NotYetOpen(p)' => NotYetOpen(p)
  PROVE  CreatedInOrder'
BY DEF CreatedInOrder

LEMMA InvInit == Init => Inv
<1> SUFFICES ASSUME Init PROVE Inv
  OBVIOUS
<1> USE MaxThreadsAssumption DEF Init
<1>1. TypeOK
  BY DEF TypeOK, MainSteps, Pools, Sockets, Threads
<1>2. CreatedInOrder
  <2>1. ASSUME NEW p \in Pools
        PROVE  /\ 0 \in 0..thread_num[p] /\ Created(p) = 1..0
               /\ pc # <<"create", p>>
    BY DEF Created, Pools, Threads
  <2> QED
    BY <2>1 DEF CreatedInOrder
<1>3. ActivationOrder /\ PastBarrier /\ JoinedAreDone /\ DestroyedUnused
  BY DEF ActivationOrder, PastBarrier, JoinedAreDone, DestroyedUnused, Opening, InSvc, Pools
<1> QED
  BY <1>1, <1>2, <1>3 DEF Inv

LEMMA InvNext == Inv /\ [Next]_vars => Inv'
<1> SUFFICES ASSUME Inv, [Next]_vars PROVE Inv'
  OBVIOUS
<1> USE MaxThreadsAssumption DEF Inv
<1>1. CASE OpenFails
  <2>1. TypeOK'
    BY <1>1 DEF OpenFails, exit, TypeOK, MainSteps, Pools, Threads
  <2>2. CreatedInOrder'
    BY <1>1 DEF OpenFails, exit, CreatedInOrder, Created, NotYetOpen, Pools, Threads, TypeOK
  <2>3. ActivationOrder'
    BY <1>1 DEF OpenFails, exit, ActivationOrder, Opening, Pools, Threads, TypeOK
  <2>4. PastBarrier'
    BY <1>1 DEF OpenFails, exit, PastBarrier, InSvc, Pools, Threads, TypeOK, Main
  <2>5. JoinedAreDone'
    BY <1>1 DEF OpenFails, exit, JoinedAreDone, Pools, Threads, TypeOK, CreatedInOrder, Created
  <2>6. DestroyedUnused'
    BY <1>1 DEF OpenFails, exit, DestroyedUnused, Pools, Threads, TypeOK, CreatedInOrder, Created
  <2> QED
    BY <2>1, <2>2, <2>3, <2>4, <2>5, <2>6
<1>2. CASE epoll_create
  <2>1. TypeOK'
    BY <1>2 DEF epoll_create, OpenSocket, TypeOK, MainSteps, Pools, Threads, Sockets
  <2>2. CreatedInOrder'
    BY <1>2 DEF epoll_create, OpenSocket, CreatedInOrder, Created, NotYetOpen, Pools, Threads, TypeOK
  <2>3. ActivationOrder'
    BY <1>2 DEF epoll_create, OpenSocket, ActivationOrder, Opening, Pools, Threads, TypeOK, Sockets
  <2>4. PastBarrier'
    BY <1>2 DEF epoll_create, OpenSocket, PastBarrier, InSvc, Pools, Threads, TypeOK, Main
  <2>5. JoinedAreDone'
    BY <1>2 DEF epoll_create, OpenSocket, JoinedAreDone, Pools, Threads, TypeOK, CreatedInOrder, Created
  <2>6. DestroyedUnused'
    BY <1>2 DEF epoll_create, OpenSocket, DestroyedUnused, Pools, Threads, TypeOK, CreatedInOrder, Created
  <2> QED
    BY <2>1, <2>2, <2>3, <2>4, <2>5, <2>6
<1>3. CASE create_pipe
  <2>1. TypeOK'
    BY <1>3 DEF create_pipe, OpenSocket, TypeOK, MainSteps, Pools, Threads, Sockets
  <2>2. CreatedInOrder'
    BY <1>3 DEF create_pipe, OpenSocket, CreatedInOrder, Created, NotYetOpen, Pools, Threads, TypeOK
  <2>3. ActivationOrder'
    BY <1>3 DEF create_pipe, OpenSocket, ActivationOrder, Opening, Pools, Threads, TypeOK, Sockets
  <2>4. PastBarrier'
    BY <1>3 DEF create_pipe, OpenSocket, PastBarrier, InSvc, Pools, Threads, TypeOK, Main
  <2>5. JoinedAreDone'
    BY <1>3 DEF create_pipe, OpenSocket, JoinedAreDone, Pools, Threads, TypeOK, CreatedInOrder, Created
  <2>6. DestroyedUnused'
    BY <1>3 DEF create_pipe, OpenSocket, DestroyedUnused, Pools, Threads, TypeOK, CreatedInOrder, Created
  <2> QED
    BY <2>1, <2>2, <2>3, <2>4, <2>5, <2>6
<1>4. CASE create_listen
  <2>1. TypeOK'
    BY <1>4 DEF create_listen, OpenSocket, TypeOK, MainSteps, Pools, Threads, Sockets
  <2>2. CreatedInOrder'
    BY <1>4 DEF create_listen, OpenSocket, CreatedInOrder, Created, NotYetOpen, Pools, Threads, TypeOK
  <2>3. ActivationOrder'
    BY <1>4 DEF create_listen, OpenSocket, ActivationOrder, Opening, Pools, Threads, TypeOK, Sockets
  <2>4. PastBarrier'
    BY <1>4 DEF create_listen, OpenSocket, PastBarrier, InSvc, Pools, Threads, TypeOK, Main
  <2>5. JoinedAreDone'
    BY <1>4 DEF create_listen, OpenSocket, JoinedAreDone, Pools, Threads, TypeOK, CreatedInOrder, Created
  <2>6. DestroyedUnused'
    BY <1>4 DEF create_listen, OpenSocket, DestroyedUnused, Pools, Threads, TypeOK, CreatedInOrder, Created
  <2> QED
    BY <2>1, <2>2, <2>3, <2>4, <2>5, <2>6
<1>5. CASE open
  <2>1. TypeOK'
    BY <1>5 DEF open, exit, TypeOK, MainSteps, Pools, Threads
  <2>2. CreatedInOrder'
    BY <1>5 DEF open, exit, CreatedInOrder, Created, NotYetOpen, Pools, Threads, TypeOK
  <2>3. ActivationOrder'
    BY <1>5 DEF open, exit, ActivationOrder, Opening, Pools, Threads, TypeOK
  <2>4. PastBarrier'
    BY <1>5 DEF open, exit, PastBarrier, InSvc, Pools, Threads, TypeOK, Main
  <2>5. JoinedAreDone'
    BY <1>5 DEF open, exit, JoinedAreDone, Pools, Threads, TypeOK, CreatedInOrder, Created
  <2>6. DestroyedUnused'
    BY <1>5 DEF open, exit, DestroyedUnused, Pools, Threads, TypeOK, CreatedInOrder, Created
  <2> QED
    BY <2>1, <2>2, <2>3, <2>4, <2>5, <2>6
<1>6. CASE pthread_create
  <2>a. PICK p \in Pools, k \in Nat :
          pc = <<"create", p>> /\ Created(p) = 1..k /\ Cardinality(Created(p)) = k /\ k < thread_num[p]
    BY <1>6, NextIsNew DEF pthread_create, TypeOK
  <2>b. /\ k + 1 \in Threads
        /\ thread' = [thread EXCEPT ![p][k + 1] = "created"]
        /\ thread[p][k + 1] = "none"
        /\ pc' = IF k + 1 < thread_num[p] THEN pc
                 ELSE IF p = "loader" THEN <<"open", "http">>
                 ELSE <<"activate", "loader">>
        /\ UNCHANGED <<thread_num, opened, arrived, barrier, stopping, joined>>
    <3>1. k + 1 \in Threads /\ k + 1 \notin Created(p)
      BY <2>a DEF TypeOK, Threads
    <3>2. thread[p][k + 1] = "none"
      BY <3>1 DEF Created
    <3>3. pc[2] = p /\ Cardinality(Created(pc[2])) + 1 = k + 1
      BY <2>a
    <3> QED
      BY <1>6, <3>1, <3>2, <3>3 DEF pthread_create, MoreToCreate
  <2>1. TypeOK'
    BY <2>a, <2>b DEF TypeOK, MainSteps, Pools, Threads
  <2>2. CreatedInOrder'
    <3> SUFFICES ASSUME NEW q \in Pools
                 PROVE  \E m \in 0..thread_num[q] : /\ Created(q)' = 1..m
                                                    /\ pc' = <<"create", q>> => m < thread_num[q]
                                                    /\ NotYetOpen(q)' => m = 0
      BY <2>b DEF CreatedInOrder
    <3>1. CASE q = p
      <4>1. Created(q)' = 1..(k + 1)
        BY <2>a, <2>b, <3>1 DEF Created, Threads, TypeOK
      <4>2. k + 1 \in 0..thread_num[q] /\ (pc' = <<"create", q>> => k + 1 < thread_num[q]) /\ ~NotYetOpen(q)'
        BY <2>a, <2>b, <3>1 DEF NotYetOpen, TypeOK, Pools
      <4> QED
        BY <4>1, <4>2
    <3>2. CASE q # p
      <4>1. Created(q)' = Created(q)
        BY <2>a, <2>b, <3>2 DEF Created, TypeOK
      <4>2. pc' # <<"create", q>> /\ (NotYetOpen(q)' => NotYetOpen(q))
        BY <2>a, <2>b, <3>2 DEF NotYetOpen, Pools
      <4> QED
        BY <4>1, <4>2 DEF CreatedInOrder
    <3> QED
      BY <3>1, <3>2
  <2>3. ActivationOrder'
    BY <2>a, <2>b DEF ActivationOrder, Opening, Pools, Threads, TypeOK
  <2>4. PastBarrier'
    BY <2>a, <2>b DEF PastBarrier, InSvc, Pools, Threads, TypeOK, Main
  <2>5. JoinedAreDone'
    BY <2>a, <2>b DEF JoinedAreDone, Pools, Threads, TypeOK, CreatedInOrder, Created
  <2>6. DestroyedUnused'
    BY <2>a, <2>b DEF DestroyedUnused, Pools, Threads, TypeOK, CreatedInOrder, Created
  <2> QED
    BY <2>1, <2>2, <2>3, <2>4, <2>5, <2>6
<1>7. CASE activate
  <2>1. TypeOK'
    BY <1>7 DEF activate, TypeOK, MainSteps, Pools, Threads, Main
  <2>2. CreatedInOrder'
    BY <1>7 DEF activate, CreatedInOrder, Created, NotYetOpen, Pools, Threads, TypeOK
  <2>3. ActivationOrder'
    BY <1>7 DEF activate, ActivationOrder, Opening, Pools, Threads, TypeOK
  <2>4. PastBarrier'
    BY <1>7 DEF activate, PastBarrier, InSvc, Pools, Threads, TypeOK, Main
  <2>5. JoinedAreDone'
    BY <1>7 DEF activate, JoinedAreDone, Pools, Threads, TypeOK, CreatedInOrder, Created
  <2>6. DestroyedUnused'
    BY <1>7 DEF activate, DestroyedUnused, Pools, Threads, TypeOK, CreatedInOrder, Created
  <2> QED
    BY <2>1, <2>2, <2>3, <2>4, <2>5, <2>6
<1>8. CASE activate_return
  <2>a. Main \in arrived[pc[2]]
    BY <1>8, BarrierNeedsMain DEF activate_return, TypeOK
  <2>1. TypeOK'
    BY <1>8, <2>a DEF activate_return, TypeOK, MainSteps, Pools, Threads
  <2>2. CreatedInOrder'
    BY <1>8, <2>a DEF activate_return, CreatedInOrder, Created, NotYetOpen, Pools, Threads, TypeOK
  <2>3. ActivationOrder'
    BY <1>8, <2>a DEF activate_return, ActivationOrder, Opening, Pools, Threads, TypeOK
  <2>4. PastBarrier'
    BY <1>8, <2>a DEF activate_return, PastBarrier, InSvc, Pools, Threads, TypeOK, Main
  <2>5. JoinedAreDone'
    BY <1>8, <2>a DEF activate_return, JoinedAreDone, Pools, Threads, TypeOK, CreatedInOrder, Created
  <2>6. DestroyedUnused'
    BY <1>8, <2>a DEF activate_return, DestroyedUnused, Pools, Threads, TypeOK, CreatedInOrder, Created
  <2> QED
    BY <2>1, <2>2, <2>3, <2>4, <2>5, <2>6
<1>9. CASE pause
  <2>1. TypeOK'
    BY <1>9 DEF pause, TypeOK, MainSteps, Pools, Threads
  <2>2. CreatedInOrder'
    BY <1>9 DEF pause, CreatedInOrder, Created, NotYetOpen, Pools, Threads, TypeOK
  <2>3. ActivationOrder'
    BY <1>9 DEF pause, ActivationOrder, Opening, Pools, Threads, TypeOK
  <2>4. PastBarrier'
    BY <1>9 DEF pause, PastBarrier, InSvc, Pools, Threads, TypeOK, Main
  <2>5. JoinedAreDone'
    BY <1>9 DEF pause, JoinedAreDone, Pools, Threads, TypeOK, CreatedInOrder, Created
  <2>6. DestroyedUnused'
    BY <1>9 DEF pause, DestroyedUnused, Pools, Threads, TypeOK, CreatedInOrder, Created
  <2> QED
    BY <2>1, <2>2, <2>3, <2>4, <2>5, <2>6
<1>10. CASE stop
  <2>a. pc[2] \in Pools /\ pc' = <<"join", pc[2]>> /\ 0 \in 0..MaxThreads
    BY <1>10 DEF stop, TypeOK
  <2>1. TypeOK'
    <3>1. pc' \in MainSteps \X Pools
      BY <2>a DEF MainSteps
    <3>2. stopping' \in SUBSET Pools /\ joined' \in 0..MaxThreads
      BY <1>10, <2>a DEF stop, TypeOK
    <3> QED
      BY <1>10, <3>1, <3>2 DEF stop, TypeOK
  <2>2. CreatedInOrder'
    <3>1. thread_num' = thread_num /\ \A q \in Pools : Created(q)' = Created(q)
      BY <1>10 DEF stop, Created, TypeOK, Threads
    <3>2. \A q \in Pools : pc' # <<"create", q>> \/ pc' = pc
      BY <1>10 DEF stop
    <3>3. \A q \in Pools : NotYetOpen(q)' => NotYetOpen(q)
      BY <1>10 DEF stop, NotYetOpen
    <3> QED
      BY <3>1, <3>2, <3>3, SameThreads
  <2>3. ActivationOrder'
    BY <1>10, <2>a DEF stop, ActivationOrder, Opening, Pools, Threads, TypeOK
  <2>4. PastBarrier'
    BY <1>10, <2>a DEF stop, PastBarrier, InSvc, Pools, Threads, TypeOK, Main
  <2>5. JoinedAreDone'
    BY <1>10, <2>a DEF stop, JoinedAreDone, Pools, Threads, TypeOK, CreatedInOrder, Created
  <2>6. DestroyedUnused'
    BY <1>10, <2>a DEF stop, DestroyedUnused, Pools, Threads, TypeOK, CreatedInOrder, Created
  <2> QED
    BY <2>1, <2>2, <2>3, <2>4, <2>5, <2>6
<1>11. CASE join
  <2>1. TypeOK'
    BY <1>11 DEF join, TypeOK, MainSteps, Pools, Threads
  <2>2. CreatedInOrder'
    BY <1>11 DEF join, CreatedInOrder, Created, NotYetOpen, Pools, Threads, TypeOK
  <2>3. ActivationOrder'
    BY <1>11 DEF join, ActivationOrder, Opening, Pools, Threads, TypeOK
  <2>4. PastBarrier'
    BY <1>11 DEF join, PastBarrier, InSvc, Pools, Threads, TypeOK, Main
  <2>5. JoinedAreDone'
    BY <1>11 DEF join, JoinedAreDone, Pools, Threads, TypeOK, CreatedInOrder, Created
  <2>6. DestroyedUnused'
    BY <1>11 DEF join, DestroyedUnused, Pools, Threads, TypeOK, CreatedInOrder, Created
  <2> QED
    BY <2>1, <2>2, <2>3, <2>4, <2>5, <2>6
<1>12. CASE join_return
  <2>1. TypeOK'
    BY <1>12 DEF join_return, TypeOK, MainSteps, Pools, Threads, AllJoined, JoinedAreDone
  <2>2. CreatedInOrder'
    <3>1. thread_num' = thread_num /\ \A q \in Pools : Created(q)' = Created(q)
      BY <1>12 DEF join_return, Created, TypeOK, Threads
    <3>2. \A q \in Pools : pc' # <<"create", q>> \/ pc' = pc
      BY <1>12 DEF join_return
    <3>3. \A q \in Pools : NotYetOpen(q)' => NotYetOpen(q)
      BY <1>12 DEF join_return, NotYetOpen
    <3> QED
      BY <3>1, <3>2, <3>3, SameThreads
  <2>3. ActivationOrder'
    BY <1>12 DEF join_return, ActivationOrder, Opening, Pools, Threads, TypeOK, AllJoined, JoinedAreDone
  <2>4. PastBarrier'
    BY <1>12 DEF join_return, PastBarrier, InSvc, Pools, Threads, TypeOK, AllJoined, JoinedAreDone, Main
  <2>5. JoinedAreDone'
    BY <1>12 DEF join_return, JoinedAreDone, Pools, Threads, TypeOK, AllJoined, CreatedInOrder, Created
  <2>6. DestroyedUnused'
    BY <1>12 DEF join_return, DestroyedUnused, Pools, Threads, TypeOK, AllJoined, JoinedAreDone, CreatedInOrder, Created
  <2> QED
    BY <2>1, <2>2, <2>3, <2>4, <2>5, <2>6
<1>13. ASSUME NEW p \in Pools, NEW i \in Threads, run_svc_arrive(p, i)
      PROVE  Inv'
  <2>c. i \in 1..thread_num[p]
    BY <1>13 DEF run_svc_arrive, CreatedInOrder, Created, TypeOK
  <2>1. TypeOK'
    <3>1. i \in 0..thread_num[p] /\ i \in 0..MaxThreads
      BY <2>c DEF TypeOK, Threads
    <3>2. arrived' \in [Pools -> SUBSET (0..MaxThreads)]
      BY <1>13, <3>1 DEF run_svc_arrive, TypeOK
    <3>3. \A q \in Pools : arrived'[q] \subseteq 0..thread_num[q]
      BY <1>13, <3>1 DEF run_svc_arrive, TypeOK
    <3>4. thread' \in [Pools -> [Threads -> {"none", "created", "barrier", "svc", "done"}]]
      BY <1>13 DEF run_svc_arrive, TypeOK
    <3> QED
      BY <1>13, <3>2, <3>3, <3>4 DEF run_svc_arrive, TypeOK
  <2>2. CreatedInOrder'
    <3>1. thread_num' = thread_num /\ \A q \in Pools : Created(q)' = Created(q)
      BY <1>13 DEF run_svc_arrive, Created, TypeOK, Threads
    <3>2. \A q \in Pools : pc' # <<"create", q>> \/ pc' = pc
      BY <1>13 DEF run_svc_arrive
    <3>3. \A q \in Pools : NotYetOpen(q)' => NotYetOpen(q)
      BY <1>13 DEF run_svc_arrive, NotYetOpen
    <3> QED
      BY <3>1, <3>2, <3>3, SameThreads
  <2>3. ActivationOrder'
    BY <1>13, <2>c DEF run_svc_arrive, ActivationOrder, Opening, Pools, Threads, TypeOK, Main
  <2>4. PastBarrier'
    BY <1>13, <2>c DEF run_svc_arrive, PastBarrier, InSvc, Pools, Threads, TypeOK, Main
  <2>5. JoinedAreDone'
    BY <1>13, <2>c DEF run_svc_arrive, JoinedAreDone, Pools, Threads, TypeOK, CreatedInOrder, Created
  <2>6. DestroyedUnused'
    BY <1>13, <2>c DEF run_svc_arrive, DestroyedUnused, Pools, Threads, TypeOK, CreatedInOrder, Created
  <2> QED
    BY <2>1, <2>2, <2>3, <2>4, <2>5, <2>6
<1>14. ASSUME NEW p \in Pools, NEW i \in Threads, run_svc_enter(p, i)
      PROVE  Inv'
  <2>a. Main \in arrived[p]
    BY <1>14, BarrierNeedsMain DEF run_svc_enter, TypeOK
  <2>c. i \in 1..thread_num[p]
    BY <1>14 DEF run_svc_enter, CreatedInOrder, Created, TypeOK
  <2>1. TypeOK'
    BY <1>14, <2>a, <2>c DEF run_svc_enter, TypeOK, MainSteps, Pools, Threads
  <2>2. CreatedInOrder'
    <3>1. thread_num' = thread_num /\ \A q \in Pools : Created(q)' = Created(q)
      BY <1>14 DEF run_svc_enter, Created, TypeOK, Threads
    <3>2. \A q \in Pools : pc' # <<"create", q>> \/ pc' = pc
      BY <1>14 DEF run_svc_enter
    <3>3. \A q \in Pools : NotYetOpen(q)' => NotYetOpen(q)
      BY <1>14 DEF run_svc_enter, NotYetOpen
    <3> QED
      BY <3>1, <3>2, <3>3, SameThreads
  <2>3. ActivationOrder'
    BY <1>14, <2>a, <2>c DEF run_svc_enter, ActivationOrder, Opening, Pools, Threads, TypeOK
  <2>4. PastBarrier'
    BY <1>14, <2>a, <2>c DEF run_svc_enter, PastBarrier, InSvc, Pools, Threads, TypeOK, Main
  <2>5. JoinedAreDone'
    BY <1>14, <2>a, <2>c DEF run_svc_enter, JoinedAreDone, Pools, Threads, TypeOK, CreatedInOrder, Created
  <2>6. DestroyedUnused'
    BY <1>14, <2>a, <2>c DEF run_svc_enter, DestroyedUnused, Pools, Threads, TypeOK, CreatedInOrder, Created
  <2> QED
    BY <2>1, <2>2, <2>3, <2>4, <2>5, <2>6
<1>15. ASSUME NEW p \in Pools, NEW i \in Threads, run_svc_return(p, i)
      PROVE  Inv'
  <2>c. i \in 1..thread_num[p]
    BY <1>15 DEF run_svc_return, CreatedInOrder, Created, TypeOK
  <2>1. TypeOK'
    BY <1>15, <2>c DEF run_svc_return, TypeOK, MainSteps, Pools, Threads
  <2>2. CreatedInOrder'
    <3>1. thread_num' = thread_num /\ \A q \in Pools : Created(q)' = Created(q)
      BY <1>15 DEF run_svc_return, Created, TypeOK, Threads
    <3>2. \A q \in Pools : pc' # <<"create", q>> \/ pc' = pc
      BY <1>15 DEF run_svc_return
    <3>3. \A q \in Pools : NotYetOpen(q)' => NotYetOpen(q)
      BY <1>15 DEF run_svc_return, NotYetOpen
    <3> QED
      BY <3>1, <3>2, <3>3, SameThreads
  <2>3. ActivationOrder'
    BY <1>15, <2>c DEF run_svc_return, ActivationOrder, Opening, Pools, Threads, TypeOK
  <2>4. PastBarrier'
    BY <1>15, <2>c DEF run_svc_return, PastBarrier, InSvc, Pools, Threads, TypeOK, Main
  <2>5. JoinedAreDone'
    BY <1>15, <2>c DEF run_svc_return, JoinedAreDone, Pools, Threads, TypeOK, CreatedInOrder, Created
  <2>6. DestroyedUnused'
    BY <1>15, <2>c DEF run_svc_return, DestroyedUnused, Pools, Threads, TypeOK, CreatedInOrder, Created
  <2> QED
    BY <2>1, <2>2, <2>3, <2>4, <2>5, <2>6
<1>16. CASE UNCHANGED vars
  BY <1>16 DEF vars, TypeOK, MainSteps, CreatedInOrder, Created, ActivationOrder, Opening, PastBarrier,
     InSvc, JoinedAreDone, DestroyedUnused, NotYetOpen
<1> QED
  BY <1>1, <1>2, <1>3, <1>4, <1>5, <1>6, <1>7, <1>8, <1>9, <1>10, <1>11, <1>12, <1>13, <1>14, <1>15, <1>16 DEF Next, MainStep, OpenStep, ThreadStep, Terminated

\* The inductive invariant holds in every reachable state.
THEOREM Invariance == Spec => []Inv
<1> QED
  BY InvInit, InvNext, PTL DEF Spec

\* For any number of threads, no receiver and no loader runs svc before the
\* descriptors are open and, for a receiver, the loaders are activated; a
\* failed start has served nobody (main.cpp:55-70, task_base.cpp:29-48).
THEOREM NeverServesEarly == Spec => []ServeOnlyWhenReady
<1>1. Inv => ServeOnlyWhenReady
  BY DEF Inv, ActivationOrder, PastBarrier, ServeOnlyWhenReady, Opening, Failed, Pools
<1> QED
  BY <1>1, Invariance, PTL

\* For any number of threads, join destroys a barrier only after every thread
\* of the pool has left it and returned (task_base.cpp:50-62).
THEOREM BarrierOutlivesThreads == Spec => []DestroyedUnused
<1>1. Inv => DestroyedUnused
  BY DEF Inv
<1> QED
  BY <1>1, Invariance, PTL

-----------------------------------------------------------------------------
(* The configuration: what a lookup finds in a list of nodes. *)

Nodes == [type : {"SECTION", "VALUE"}, key : Keys, value : Values \cup {NotANumber, NotFound}]
Trees == [kids : [Paths -> Seq(Nodes)], cur : Paths]

Matches(node, key) == node.type = "VALUE" /\ node.key = key

\* The first node that matches has the value v, or there is none.
LooksUp(list, key, v) ==
    \/ \E i \in 1..Len(list) : /\ Matches(list[i], key)
                               /\ list[i].value = v
                               /\ \A j \in 1..Len(list) : j < i => ~Matches(list[j], key)
    \/ (\A i \in 1..Len(list) : ~Matches(list[i], key)) /\ v = NotFound

LEMMA HitIsFirst ==
  ASSUME NEW list \in Seq(Nodes), NEW key, NEW i \in 1..Len(list), Matches(list[i], key),
         \A j \in 1..Len(list) : j < i => ~Matches(list[j], key)
  PROVE  Hits(list, "VALUE", key) # {} /\ FirstHit(list, "VALUE", key) = i
<1> DEFINE H == Hits(list, "VALUE", key)
           n == Len(list)
<1>1. n \in Nat
  BY LenProperties
<1>2. i \in H /\ \A j \in H : j \in 1..n /\ ~(j < i)
  BY DEF Hits, Matches
<1> HIDE DEF H, n
<1>3. \A j \in H : i <= j
  BY <1>1, <1>2 DEF n
<1>4. \A k \in H : (\A j \in H : k <= j) => k = i
  BY <1>1, <1>2, <1>3 DEF n
<1>5. (CHOOSE k \in H : \A j \in H : k <= j) = i
  BY <1>2, <1>3, <1>4
<1> QED BY <1>2, <1>5 DEF FirstHit, H

LEMMA LookupIs ==
  ASSUME NEW m \in Trees, NEW p \in Paths, NEW key, NEW v, LooksUp(m.kids[p], key, v)
  PROVE  Lookup(m, p, key) = v
<1> DEFINE list == m.kids[p]
<1>1. list \in Seq(Nodes)
  BY DEF Trees
<1>2. CASE \A i \in 1..Len(list) : ~Matches(list[i], key)
  BY <1>2 DEF LooksUp, Lookup, Hits, Matches
<1>3. CASE \E i \in 1..Len(list) : Matches(list[i], key)
  <2>1. PICK i \in 1..Len(list) : /\ Matches(list[i], key)
                                  /\ list[i].value = v
                                  /\ \A j \in 1..Len(list) : j < i => ~Matches(list[j], key)
    BY <1>3 DEF LooksUp
  <2>2. Hits(list, "VALUE", key) # {} /\ FirstHit(list, "VALUE", key) = i
    <3> HIDE DEF list
    <3> QED BY <1>1, <2>1, HitIsFirst
  <2> QED BY <2>1, <2>2 DEF Lookup
<1> QED BY <1>2, <1>3

\* A node before the list.
LEMMA Prepended ==
  ASSUME NEW list \in Seq(Nodes), NEW node \in Nodes
  PROVE  LET new == <<node>> \o list IN
         /\ new \in Seq(Nodes) /\ Len(list) \in Nat /\ Len(new) = Len(list) + 1
         /\ new[1] = node /\ \A i \in 1..Len(list) : new[1 + i] = list[i]
<1>1. <<node>> \in Seq(Nodes) /\ Len(<<node>>) = 1 /\ <<node>>[1] = node /\ 1 \in 1..1
  OBVIOUS
<1>2. IsCat(Nodes, <<node>>, list)
  BY <1>1, CatAt
<1> DEFINE new == Cat(<<node>>, list)
<1>3. /\ new \in Seq(Nodes) /\ Len(list) \in Nat /\ Len(new) = 1 + Len(list)
      /\ new[1] = node /\ \A i \in 1..Len(list) : new[1 + i] = list[i]
  BY <1>1, <1>2 DEF IsCat
<1>4. new = <<node>> \o list
  BY DEF Cat
<1>5. 1 + Len(list) = Len(list) + 1
  BY <1>3
<1> HIDE DEF new
<1> QED BY <1>3, <1>4, <1>5

LEMMA PrependOther ==
  ASSUME NEW list \in Seq(Nodes), NEW node \in Nodes, NEW key, NEW v,
         ~Matches(node, key), LooksUp(list, key, v)
  PROVE  LooksUp(<<node>> \o list, key, v)
<1> DEFINE new == <<node>> \o list
           n == Len(list)
<1>1. /\ n \in Nat /\ Len(new) = n + 1
      /\ new[1] = node /\ \A i \in 1..n : new[1 + i] = list[i]
  BY Prepended
<1> HIDE DEF new
<1>2. ASSUME NEW j \in 1..(n + 1), j # 1
      PROVE  \E i \in 1..n : j = 1 + i /\ new[j] = list[i]
  <2>1. j - 1 \in 1..n /\ j = 1 + (j - 1)
    <3> HIDE DEF n
    <3> QED BY <1>1, <1>2
  <2> QED BY <1>1, <2>1
<1>3. CASE \A i \in 1..n : ~Matches(list[i], key)
  <2>1. v = NotFound
    BY <1>3 DEF LooksUp
  <2>2. \A j \in 1..(n + 1) : ~Matches(new[j], key)
    BY <1>1, <1>2, <1>3
  <2> QED BY <1>1, <2>1, <2>2 DEF LooksUp, new
<1>4. CASE ~(\A i \in 1..n : ~Matches(list[i], key))
  <2>1. PICK i \in 1..n : /\ Matches(list[i], key)
                          /\ list[i].value = v
                          /\ \A j \in 1..n : j < i => ~Matches(list[j], key)
    BY <1>4 DEF LooksUp
  <2>2. 1 + i \in 1..(n + 1)
    <3> HIDE DEF n
    <3> QED BY <1>1
  <2>3. Matches(new[1 + i], key) /\ new[1 + i].value = v
    BY <1>1, <2>1
  <2>4. ASSUME NEW j \in 1..(n + 1), j < 1 + i PROVE ~Matches(new[j], key)
    <3>1. CASE j = 1
      BY <1>1, <3>1
    <3>2. CASE j # 1
      <4>1. PICK h \in 1..n : j = 1 + h /\ new[j] = list[h]
        BY <1>2, <3>2
      <4>2. h < i
        <5> HIDE DEF n
        <5> QED BY <1>1, <2>4, <4>1
      <4> QED BY <2>1, <4>1, <4>2
    <3> QED BY <3>1, <3>2
  <2> QED BY <1>1, <2>2, <2>3, <2>4 DEF LooksUp, new
<1> QED BY <1>3, <1>4

LEMMA PrependMatch ==
  ASSUME NEW list \in Seq(Nodes), NEW node \in Nodes, NEW key, Matches(node, key)
  PROVE  LooksUp(<<node>> \o list, key, node.value)
<1> DEFINE new == <<node>> \o list
           n == Len(list)
<1>1. n \in Nat /\ Len(new) = n + 1 /\ new[1] = node
  BY Prepended
<1> HIDE DEF new, n
<1>2. 1 \in 1..(n + 1) /\ \A j \in 1..(n + 1) : ~(j < 1)
  BY <1>1
<1> QED BY <1>1, <1>2 DEF LooksUp, new

\* A value that is replaced where it is.
Replaces(new, list, i, v) == new = [list EXCEPT ![i].value = v]

LEMMA Replaced ==
  ASSUME NEW list \in Seq(Nodes), NEW key, NEW i \in 1..Len(list), Matches(list[i], key),
         \A j \in 1..Len(list) : j < i => ~Matches(list[j], key),
         NEW v \in Values \cup {NotANumber, NotFound}, NEW new, Replaces(new, list, i, v)
  PROVE  /\ new \in Seq(Nodes)
         /\ LooksUp(new, key, v)
         /\ \A k, w : k # key /\ LooksUp(list, k, w) => LooksUp(new, k, w)
<1> DEFINE n == Len(list)
<1>1. list \in [1..n -> Nodes] /\ n \in Nat
  BY LenProperties
<1>2. new \in [1..n -> Nodes]
  <2>1. [list[i] EXCEPT !.value = v] \in Nodes
    <3>1. list[i] \in Nodes
      BY <1>1
    <3> QED BY <3>1 DEF Nodes
  <2> HIDE DEF n
  <2> QED BY <1>1, <2>1 DEF Replaces
<1>3. new \in Seq(Nodes) /\ Len(new) = n
  <2> HIDE DEF n
  <2>1. new \in Seq(Nodes)
    BY <1>1, <1>2, SeqDef
  <2> QED BY <1>1, <1>2, <2>1, LenProperties
<1>4. /\ new[i] = [list[i] EXCEPT !.value = v]
      /\ \A j \in 1..n : j # i => new[j] = list[j]
  BY <1>1 DEF Replaces
<1>5. new[i].type = list[i].type /\ new[i].key = list[i].key /\ new[i].value = v
  <2>1. list[i] \in Nodes
    BY <1>1
  <2> QED BY <1>4, <2>1 DEF Nodes
<1>6. \A j \in 1..n : \A k : Matches(new[j], k) <=> Matches(list[j], k)
  BY <1>4, <1>5 DEF Matches
<1>7. LooksUp(new, key, v)
  BY <1>3, <1>5, <1>6 DEF LooksUp
<1>8. ASSUME NEW k, NEW w, k # key, LooksUp(list, k, w) PROVE LooksUp(new, k, w)
  <2>1. ~Matches(list[i], k)
    BY <1>8 DEF Matches
  <2>2. \A j \in 1..n : Matches(list[j], k) => new[j] = list[j]
    BY <1>4, <2>1
  <2> QED BY <1>3, <1>6, <1>8, <2>2 DEF LooksUp
<1> QED BY <1>3, <1>7, <1>8

\* Every key of every section looks up something.
Defined(m) == m \in Trees /\ \A p \in Paths : \A k : \E w : LooksUp(m.kids[p], k, w)

\* What is looked up is kept.
SameLookups(m, q) == \A p \in Paths : \A k, w : LooksUp(m.kids[p], k, w) => LooksUp(q.kids[p], k, w)

LEMMA NodeAdded ==
  ASSUME NEW m \in Trees, NEW node \in Nodes
  PROVE  /\ AddNode(m, node) \in Trees /\ AddNode(m, node).cur = m.cur
         /\ AddNode(m, node).kids[m.cur] = <<node>> \o m.kids[m.cur]
         /\ \A p \in Paths : p # m.cur => AddNode(m, node).kids[p] = m.kids[p]
<1> DEFINE new == <<node>> \o m.kids[m.cur]
<1>1. m.cur \in Paths /\ m.kids \in [Paths -> Seq(Nodes)] /\ m.kids[m.cur] \in Seq(Nodes)
  BY DEF Trees
<1>2. new \in Seq(Nodes)
  BY <1>1, Prepended
<1> HIDE DEF new
<1>3. AddNode(m, node) = [m EXCEPT !.kids = [m.kids EXCEPT ![m.cur] = new]]
  BY DEF AddNode, Trees, new
<1>4. [m.kids EXCEPT ![m.cur] = new] \in [Paths -> Seq(Nodes)]
  BY <1>1, <1>2
<1> QED BY <1>1, <1>3, <1>4 DEF Trees, new

\* q is m with one key of the current section set.
OneSet(m, q, key, v) ==
    /\ q \in Trees /\ q.cur = m.cur
    /\ LooksUp(q.kids[m.cur], key, v)
    /\ \A p \in Paths : \A k, w :
          LooksUp(m.kids[p], k, w) /\ ~(p = m.cur /\ k = key) => LooksUp(q.kids[p], k, w)

LEMMA ValueSet ==
  ASSUME NEW m, Defined(m), NEW key \in Keys, NEW v \in Values \cup {NotANumber}
  PROVE  OneSet(m, set_value(m, key, v), key, v)
<1> DEFINE list == m.kids[m.cur]
           q == set_value(m, key, v)
<1>1. m \in Trees /\ m.cur \in Paths /\ m.kids \in [Paths -> Seq(Nodes)] /\ list \in Seq(Nodes)
  BY DEF Trees, Defined
<1>2. PICK u : LooksUp(list, key, u)
  BY <1>1 DEF Defined
<1>3. CASE \A i \in 1..Len(list) : ~Matches(list[i], key)
  <2> DEFINE node == Node("VALUE", key, v)
  <2>1. node \in Nodes /\ Matches(node, key) /\ node.value = v /\ \A k : k # key => ~Matches(node, k)
    BY DEF Node, Nodes, Matches
  <2>2. q = AddNode(m, node)
    BY <1>3 DEF set_value, Hits, Matches
  <2> HIDE DEF node
  <2>3. /\ q \in Trees /\ q.cur = m.cur /\ q.kids[m.cur] = <<node>> \o list
        /\ \A p \in Paths : p # m.cur => q.kids[p] = m.kids[p]
    BY <1>1, <2>1, <2>2, NodeAdded
  <2> HIDE DEF q, list
  <2>4. LooksUp(q.kids[m.cur], key, v)
    BY <1>1, <2>1, <2>3, PrependMatch
  <2>5. ASSUME NEW k, NEW w, LooksUp(list, k, w), k # key PROVE LooksUp(q.kids[m.cur], k, w)
    BY <1>1, <2>1, <2>3, <2>5, PrependOther
  <2> QED BY <2>3, <2>4, <2>5 DEF OneSet, q, list
<1>4. CASE ~(\A i \in 1..Len(list) : ~Matches(list[i], key))
  <2>1. PICK i \in 1..Len(list) : /\ Matches(list[i], key)
                                  /\ \A j \in 1..Len(list) : j < i => ~Matches(list[j], key)
    BY <1>2, <1>4 DEF LooksUp
  <2>2. Hits(list, "VALUE", key) # {} /\ FirstHit(list, "VALUE", key) = i
    <3> HIDE DEF list
    <3> QED BY <1>1, <2>1, HitIsFirst
  <2> DEFINE new == [list EXCEPT ![i].value = v]
  <2>3. /\ new \in Seq(Nodes)
        /\ LooksUp(new, key, v)
        /\ \A k, w : k # key /\ LooksUp(list, k, w) => LooksUp(new, k, w)
    <3>1. v \in Values \cup {NotANumber, NotFound}
      OBVIOUS
    <3>2. Replaces(new, list, i, v)
      BY DEF Replaces
    <3> HIDE DEF list, new
    <3> QED BY <1>1, <2>1, <3>1, <3>2, Replaced
  <2>4. q = [m EXCEPT !.kids = [m.kids EXCEPT ![m.cur] = new]]
    BY <1>1, <2>2 DEF set_value, Trees
  <2> HIDE DEF new
  <2>5. [m.kids EXCEPT ![m.cur] = new] \in [Paths -> Seq(Nodes)]
    BY <1>1, <2>3
  <2>6. /\ q \in Trees /\ q.cur = m.cur /\ q.kids[m.cur] = new
        /\ \A p \in Paths : p # m.cur => q.kids[p] = m.kids[p]
    BY <1>1, <2>4, <2>5 DEF Trees
  <2> HIDE DEF q
  <2> QED BY <2>3, <2>6 DEF OneSet, q
<1> QED BY <1>3, <1>4

LEMMA SectionEntered ==
  ASSUME NEW m \in Trees, NEW key \in Keys, Append(m.cur, key) \in Paths
  PROVE  LET q == EnterSection(m, key) IN
         q \in Trees /\ q.cur = Append(m.cur, key) /\ SameLookups(m, q)
<1> DEFINE path == Append(m.cur, key)
           node == Node("SECTION", key, NotFound)
           found == Hits(m.kids[m.cur], "SECTION", key) # {}
           made == IF found THEN m ELSE AddNode(m, node)
           q == EnterSection(m, key)
<1>1. node \in Nodes /\ \A k : ~Matches(node, k)
  BY DEF Node, Nodes, Matches
<1>2. q = [made EXCEPT !.cur = path]
  BY DEF EnterSection
<1>3. m.cur \in Paths /\ \A p \in Paths : m.kids[p] \in Seq(Nodes)
  BY DEF Trees
<1> HIDE DEF node, found, q, path
<1>4. made \in Trees /\ SameLookups(m, made)
  <2>1. CASE found
    BY <2>1 DEF SameLookups
  <2>2. CASE ~found
    <3>1. /\ made \in Trees /\ made.kids[m.cur] = <<node>> \o m.kids[m.cur]
          /\ \A p \in Paths : p # m.cur => made.kids[p] = m.kids[p]
      BY <1>1, <2>2, NodeAdded
    <3>2. ASSUME NEW k, NEW w, LooksUp(m.kids[m.cur], k, w) PROVE LooksUp(<<node>> \o m.kids[m.cur], k, w)
      BY <1>1, <1>3, <3>2, PrependOther
    <3> HIDE DEF made
    <3> QED BY <3>1, <3>2 DEF SameLookups
  <2> QED BY <2>1, <2>2
<1> HIDE DEF made
<1>5. q \in Trees /\ q.cur = path /\ q.kids = made.kids
  BY <1>2, <1>4 DEF Trees, path
<1> QED BY <1>4, <1>5 DEF SameLookups, q, path

-----------------------------------------------------------------------------
(* The two loops of the configuration, over the components of a path and over *)
(* the lines of a file. *)

Visit(what, m, x) == IF what = "component" THEN EnterSection(m, x) ELSE ImportLine(m, x)

Visits(what, f, m, s, n) ==
    f = [k \in 0..n |-> IF k = 0 THEN m ELSE Visit(what, f[k - 1], s[k])]

LEMMA VisitsAt ==
  ASSUME NEW what, NEW f, NEW m, NEW s, NEW n \in Nat, Visits(what, f, m, s, n), NEW k \in 0..n
  PROVE  f[k] = IF k = 0 THEN m ELSE Visit(what, f[k - 1], s[k])
<1> DEFINE e(j) == IF j = 0 THEN m ELSE Visit(what, f[j - 1], s[j])
           g == [j \in 0..n |-> e(j)]
<1>1. f = g
  BY DEF Visits
<1>2. g[k] = e(k)
  OBVIOUS
<1>3. f[k] = e(k)
  <2> HIDE DEF g, e
  <2> QED BY <1>1, <1>2
<1> QED BY <1>3

LEMMA VisitsExist ==
  ASSUME NEW what, NEW m, NEW s
  PROVE  \A n \in Nat : \E f : Visits(what, f, m, s, n)
<1> DEFINE T == {n \in Nat : \E f : Visits(what, f, m, s, n)}
<1>1. 0 \in T
  <2> DEFINE e == [k \in 0..0 |-> m]
  <2>1. Visits(what, e, m, s, 0)
    BY DEF Visits
  <2> QED BY <2>1
<1>2. ASSUME NEW n \in Nat, n \in T PROVE n + 1 \in T
  <2>1. PICK f : Visits(what, f, m, s, n)
    BY <1>2
  <2> DEFINE last == Visit(what, f[n], s[n + 1])
             g == [k \in 0..(n + 1) |-> IF k = n + 1 THEN last ELSE f[k]]
  <2>2. ASSUME NEW k \in 0..(n + 1)
        PROVE  g[k] = IF k = 0 THEN m ELSE Visit(what, g[k - 1], s[k])
    <3>1. CASE k = n + 1
      <4>1. k # 0 /\ k - 1 = n /\ n \in 0..(n + 1) /\ n # n + 1
        BY <3>1
      <4>2. g[n] = f[n] /\ g[k] = last
        BY <3>1, <4>1
      <4> HIDE DEF g
      <4> QED BY <3>1, <4>1, <4>2
    <3>2. CASE k # n + 1
      <4>1. k \in 0..n /\ g[k] = f[k] /\ (k # 0 => g[k - 1] = f[k - 1])
        BY <3>2
      <4> HIDE DEF g, last
      <4> QED BY <2>1, <4>1, VisitsAt
    <3> QED BY <3>1, <3>2
  <2>3. g = [k \in 0..(n + 1) |-> g[k]]
    OBVIOUS
  <2>4. Visits(what, g, m, s, n + 1)
    <3> HIDE DEF g, last
    <3> QED BY <2>2, <2>3 DEF Visits
  <2> HIDE DEF g
  <2> QED BY <2>4
<1> HIDE DEF T
<1>3. Nat \subseteq T
  BY <1>1, <1>2, NatSetInduction
<1> QED BY <1>3 DEF T

LEMMA SectionVisits ==
  ASSUME NEW m, NEW path, Len(path) \in Nat
  PROVE  \E f : /\ Visits("component", f, [m EXCEPT !.cur = <<>>], path, Len(path))
                /\ set_section(m, path) = f[Len(path)]
<1> DEFINE b == [m EXCEPT !.cur = <<>>]
           f == CHOOSE h : h = [n \in 0..Len(path) |->
                                  IF n = 0 THEN b ELSE EnterSection(h[n - 1], path[n])]
<1>0. \A q, x : Visit("component", q, x) = EnterSection(q, x)
  BY DEF Visit
<1>1. \E h : h = [n \in 0..Len(path) |-> IF n = 0 THEN b ELSE EnterSection(h[n - 1], path[n])]
  <2> HIDE DEF b
  <2>1. PICK h : Visits("component", h, b, path, Len(path))
    BY VisitsExist
  <2>2. h = [n \in 0..Len(path) |-> IF n = 0 THEN b ELSE EnterSection(h[n - 1], path[n])]
    BY <1>0, <2>1 DEF Visits
  <2> QED BY <2>2, Zenon
<1>2. f = [n \in 0..Len(path) |-> IF n = 0 THEN b ELSE EnterSection(f[n - 1], path[n])]
  <2> HIDE DEF b
  <2> QED BY <1>1, Zenon
<1>3. set_section(m, path) = f[Len(path)]
  BY Zenon DEF set_section
<1> HIDE DEF f, b
<1>4. Visits("component", f, b, path, Len(path))
  BY <1>0, <1>2 DEF Visits
<1> QED BY <1>3, <1>4, Zenon DEF b

LEMMA ImportVisits ==
  ASSUME NEW lines, Len(lines) \in Nat
  PROVE  \E f : Visits("line", f, Empty, lines, Len(lines)) /\ import(lines) = f[Len(lines)]
<1> DEFINE f == CHOOSE h : h = [n \in 0..Len(lines) |->
                                  IF n = 0 THEN Empty ELSE ImportLine(h[n - 1], lines[n])]
<1>0. \A q, x : Visit("line", q, x) = ImportLine(q, x)
  BY DEF Visit
<1>1. \E h : h = [n \in 0..Len(lines) |-> IF n = 0 THEN Empty ELSE ImportLine(h[n - 1], lines[n])]
  <2>1. PICK h : Visits("line", h, Empty, lines, Len(lines))
    BY VisitsExist
  <2>2. h = [n \in 0..Len(lines) |-> IF n = 0 THEN Empty ELSE ImportLine(h[n - 1], lines[n])]
    BY <1>0, <2>1 DEF Visits
  <2> QED BY <2>2, Zenon
<1>2. f = [n \in 0..Len(lines) |-> IF n = 0 THEN Empty ELSE ImportLine(f[n - 1], lines[n])]
  BY <1>1, Zenon
<1>3. import(lines) = f[Len(lines)]
  BY Zenon DEF import
<1> HIDE DEF f
<1>4. Visits("line", f, Empty, lines, Len(lines))
  BY <1>0, <1>2 DEF Visits
<1> QED BY <1>3, <1>4, Zenon

\* The path of the section entered grows by one component.
LEMMA PathGrows ==
  ASSUME NEW path \in Paths, NEW k \in Nat, k + 1 <= Len(path)
  PROVE  /\ path[k + 1] \in Keys
         /\ Append(SubSeq(path, 1, k), path[k + 1]) = SubSeq(path, 1, k + 1)
         /\ SubSeq(path, 1, k) \in Paths /\ SubSeq(path, 1, k + 1) \in Paths
<1>1. PICK n \in 0..MaxDepth : path \in [1..n -> Keys]
  BY DEF Paths
<1>2. n \in Nat /\ MaxDepth \in Nat /\ n <= MaxDepth
  BY <1>1, ConfigTreeAssumption
<1>3. path \in Seq(Keys)
  BY <1>1, <1>2, SeqDef
<1>4. Len(path) = n
  BY <1>1, <1>2, <1>3, LenProperties
<1>5. k <= n /\ k + 1 <= n /\ k + 1 \in Nat /\ k + 1 \in 1..n /\ k \in 0..MaxDepth /\ k + 1 \in 0..MaxDepth
  BY <1>2, <1>4
<1>6. ASSUME NEW j \in Nat, j <= n
      PROVE  /\ SubSeq(path, 1, j) \in Seq(Keys) /\ Len(SubSeq(path, 1, j)) = j
             /\ \A i \in 1..j : SubSeq(path, 1, j)[i] = path[i]
  <2>1. IsSubSeq(Keys, path, 1, j)
    <3>1. 1 \in Nat \ {0} /\ 1 <= j + 1
      OBVIOUS
    <3> QED BY <1>3, <1>4, <1>6, <3>1, SubSeqAt
  <2>2. j - 1 + 1 = j /\ \A i \in 1..j : 1 + i - 1 = i
    OBVIOUS
  <2> QED BY <2>1, <2>2 DEF IsSubSeq
<1>7. ASSUME NEW j \in Nat, j <= n PROVE SubSeq(path, 1, j) \in Paths
  <2> DEFINE p == SubSeq(path, 1, j)
  <2>1. p \in Seq(Keys) /\ Len(p) = j
    BY <1>6, <1>7
  <2> HIDE DEF p
  <2>2. p \in [1..j -> Keys]
    BY <2>1, LenProperties
  <2>3. j \in 0..MaxDepth
    BY <1>2, <1>7
  <2> QED BY <2>2, <2>3 DEF Paths, p
<1>8. path[k + 1] \in Keys
  BY <1>1, <1>5
<1>9. Append(SubSeq(path, 1, k), path[k + 1]) = SubSeq(path, 1, k + 1)
  <2> DEFINE p == SubSeq(path, 1, k)
             q == SubSeq(path, 1, k + 1)
             x == path[k + 1]
  <2>1. p \in Seq(Keys) /\ Len(p) = k /\ \A i \in 1..k : p[i] = path[i]
    BY <1>5, <1>6
  <2>2. q \in Seq(Keys) /\ Len(q) = k + 1 /\ \A i \in 1..(k + 1) : q[i] = path[i]
    BY <1>5, <1>6
  <2> HIDE DEF p, q
  <2>3. /\ Append(p, x) \in Seq(Keys) /\ Len(Append(p, x)) = k + 1
        /\ \A i \in 1..k : Append(p, x)[i] = p[i] /\ Append(p, x)[k + 1] = x
    BY <1>8, <2>1, AppendProperties
  <2>4. Append(p, x)[k + 1] = x
    BY <1>8, <2>1, AppendProperties
  <2>5. \A i \in 1..(k + 1) : i \in 1..k \/ i = k + 1
    OBVIOUS
  <2>6. \A i \in 1..(k + 1) : Append(p, x)[i] = q[i]
    <3> HIDE DEF x
    <3> QED BY <2>1, <2>2, <2>3, <2>4, <2>5 DEF x
  <2> QED BY <2>2, <2>3, <2>6, SameElements DEF p, q
<1> QED BY <1>5, <1>7, <1>8, <1>9

\* set_section makes the section the current one and no lookup different.
LEMMA SectionSet ==
  ASSUME NEW m \in Trees, NEW path \in Paths
  PROVE  LET q == set_section(m, path) IN q \in Trees /\ q.cur = path /\ SameLookups(m, q)
<1> DEFINE n == Len(path)
           b == [m EXCEPT !.cur = <<>>]
<1>1. path \in Seq(Keys) /\ n \in Nat
  <2>1. PICK d \in 0..MaxDepth : path \in [1..d -> Keys]
    BY DEF Paths
  <2>2. d \in Nat
    BY <2>1, ConfigTreeAssumption
  <2>3. path \in Seq(Keys)
    BY <2>1, <2>2, SeqDef
  <2> QED BY <2>3, LenProperties
<1>2. PICK f : Visits("component", f, b, path, n) /\ set_section(m, path) = f[n]
  BY <1>1, SectionVisits
<1> DEFINE T == {k \in Nat : k <= n => /\ f[k] \in Trees /\ f[k].cur = SubSeq(path, 1, k)
                                       /\ SameLookups(m, f[k])}
<1> HIDE DEF n
<1>3. 0 \in T
  <2>1. f[0] = b
    BY <1>1, <1>2, VisitsAt
  <2>2. <<>> \in Paths
    <3>1. <<>> \in [1..0 -> Keys] /\ 0 \in 0..MaxDepth
      BY ConfigTreeAssumption
    <3> QED BY <3>1 DEF Paths
  <2>3. SubSeq(path, 1, 0) = <<>>
    BY <1>1, SubSeqNothing
  <2>4. b \in Trees /\ b.cur = <<>> /\ b.kids = m.kids
    BY <2>2 DEF Trees
  <2> HIDE DEF b
  <2> QED BY <2>1, <2>3, <2>4 DEF SameLookups
<1>4. ASSUME NEW k \in Nat, k \in T PROVE k + 1 \in T
  <2> SUFFICES ASSUME k + 1 <= n
               PROVE  /\ f[k + 1] \in Trees /\ f[k + 1].cur = SubSeq(path, 1, k + 1)
                      /\ SameLookups(m, f[k + 1])
    OBVIOUS
  <2>1. f[k] \in Trees /\ f[k].cur = SubSeq(path, 1, k) /\ SameLookups(m, f[k])
    BY <1>1, <1>4
  <2>2. f[k + 1] = EnterSection(f[k], path[k + 1])
    <3>1. k + 1 \in 0..n /\ k + 1 # 0 /\ (k + 1) - 1 = k
      BY <1>1
    <3>2. f[k + 1] = Visit("component", f[(k + 1) - 1], path[k + 1])
      BY <1>1, <1>2, <3>1, VisitsAt
    <3> QED BY <3>1, <3>2 DEF Visit
  <2>3. /\ path[k + 1] \in Keys /\ Append(f[k].cur, path[k + 1]) = SubSeq(path, 1, k + 1)
        /\ SubSeq(path, 1, k + 1) \in Paths
    BY <2>1, PathGrows DEF n
  <2>4. /\ f[k + 1] \in Trees /\ f[k + 1].cur = Append(f[k].cur, path[k + 1])
        /\ SameLookups(f[k], f[k + 1])
    BY <2>1, <2>2, <2>3, SectionEntered
  <2>5. SameLookups(m, f[k + 1])
    BY <2>1, <2>4 DEF SameLookups
  <2> QED BY <2>3, <2>4, <2>5
<1>5. Nat \subseteq T
  <2> HIDE DEF T
  <2> QED BY <1>3, <1>4, NatSetInduction
<1>6. f[n] \in Trees /\ f[n].cur = SubSeq(path, 1, n) /\ SameLookups(m, f[n])
  <2>1. n \in T /\ n <= n
    BY <1>1, <1>5
  <2> QED BY <2>1
<1>7. SubSeq(path, 1, n) = path
  BY <1>1, SubSeqWhole DEF n
<1> QED BY <1>2, <1>6, <1>7

-----------------------------------------------------------------------------
(* What the file says, line by line. *)

Files == UNION {[1..n -> Lines] : n \in 0..MaxLines}

LEMMA FileType ==
  ASSUME file \in Files
  PROVE  Len(file) \in Nat /\ \A n \in 1..Len(file) : file[n] \in Lines
<1>1. PICK n \in 0..MaxLines : file \in [1..n -> Lines]
  BY DEF Files
<1>2. n \in Nat
  BY <1>1, ConfigurationAssumption
<1>3. file \in Seq(Lines)
  BY <1>1, <1>2, SeqDef
<1>4. Len(file) = n
  BY <1>1, <1>2, <1>3, LenProperties
<1> QED BY <1>1, <1>2, <1>4

\* A line is one of the three kinds.
LEMMA LineKinds ==
  ASSUME NEW l \in Lines
  PROVE  \/ l.line = "section" /\ l.path \in Paths
         \/ l.line = "value" /\ l.key \in Keys /\ l.value \in Values \cup {NotANumber}
         \/ l.line = "ignored"
<1>1. \/ \E p \in Paths : l = SectionLine(p)
      \/ \E k \in Keys, v \in Values \cup {NotANumber} : l = ValueLine(k, v)
      \/ l = IgnoredLine
  BY ConfigurationAssumption
<1>2. CASE \E p \in Paths : l = SectionLine(p)
  BY <1>2 DEF SectionLine
<1>3. CASE \E k \in Keys, v \in Values \cup {NotANumber} : l = ValueLine(k, v)
  BY <1>3 DEF ValueLine
<1>4. CASE l = IgnoredLine
  BY <1>4 DEF IgnoredLine
<1> QED BY <1>1, <1>2, <1>3, <1>4

\* The greatest of a set of lines.
LEMMA LastOf ==
  ASSUME NEW n \in Nat, NEW H, n \in H, H \subseteq 1..n
  PROVE  (CHOOSE j \in H : \A k \in H : k <= j) = n
<1>1. \A k \in H : k <= n
  OBVIOUS
<1>2. \A j \in H : (\A k \in H : k <= j) => j = n
  OBVIOUS
<1> QED BY <1>1, <1>2

LEMMA SectionOfNext ==
  ASSUME NEW n \in Nat
  PROVE  /\ SectionOf(0) = <<>>
         /\ SectionOf(n + 1) = IF file[n + 1].line = "section" THEN file[n + 1].path ELSE SectionOf(n)
<1> DEFINE H(i) == {j \in 1..i : file[j].line = "section"}
<1>1. SectionOf(0) = <<>>
  <2>1. H(0) = {}
    OBVIOUS
  <2> QED BY <2>1, Zenon DEF SectionOf
<1>2. CASE file[n + 1].line = "section"
  <2>1. n + 1 \in Nat /\ n + 1 \in H(n + 1) /\ H(n + 1) \subseteq 1..(n + 1)
    BY <1>2
  <2>2. H(n + 1) # {}
    BY <2>1
  <2>3. (CHOOSE j \in H(n + 1) : \A k \in H(n + 1) : k <= j) = n + 1
    <3> HIDE DEF H
    <3> QED BY <2>1, LastOf
  <2> QED BY <1>1, <1>2, <2>2, <2>3 DEF SectionOf
<1>3. CASE file[n + 1].line # "section"
  <2>1. H(n + 1) = H(n)
    <3>1. \A j \in 1..(n + 1) : j = n + 1 \/ j \in 1..n
      OBVIOUS
    <3>2. 1..n \subseteq 1..(n + 1)
      OBVIOUS
    <3> QED BY <1>3, <3>1, <3>2
  <2> DEFINE L(S) == IF S = {} THEN <<>> ELSE file[CHOOSE j \in S : \A k \in S : k <= j].path
  <2>2. SectionOf(n + 1) = SectionOf(n)
    <3>1. SectionOf(n + 1) = L(H(n + 1)) /\ SectionOf(n) = L(H(n))
      BY Zenon DEF SectionOf
    <3> HIDE DEF L, H
    <3> QED BY <2>1, <3>1
  <2> QED BY <1>1, <1>3, <2>2
<1> QED BY <1>2, <1>3

\* Line i sets a key of a section.
Sets(i, path, key) == file[i].line = "value" /\ file[i].key = key /\ SectionOf(i) = path

\* What the first n lines say.
SettingBy(n, path, key) ==
    LET hits == {i \in 1..n : Sets(i, path, key)} IN
    IF hits = {} THEN NotFound ELSE file[CHOOSE i \in hits : \A j \in hits : j <= i].value

LEMMA SettingByNext ==
  ASSUME NEW n \in Nat, NEW path, NEW key
  PROVE  /\ SettingBy(0, path, key) = NotFound
         /\ SettingBy(n + 1, path, key) =
               IF Sets(n + 1, path, key) THEN file[n + 1].value ELSE SettingBy(n, path, key)
<1> DEFINE H(i) == {j \in 1..i : Sets(j, path, key)}
<1>1. SettingBy(0, path, key) = NotFound
  <2>1. H(0) = {}
    OBVIOUS
  <2> QED BY <2>1, Zenon DEF SettingBy
<1>2. CASE Sets(n + 1, path, key)
  <2>1. n + 1 \in Nat /\ n + 1 \in H(n + 1) /\ H(n + 1) \subseteq 1..(n + 1)
    BY <1>2
  <2>2. H(n + 1) # {}
    BY <2>1
  <2>3. (CHOOSE j \in H(n + 1) : \A k \in H(n + 1) : k <= j) = n + 1
    <3> HIDE DEF H
    <3> QED BY <2>1, LastOf
  <2> QED BY <1>1, <1>2, <2>2, <2>3 DEF SettingBy
<1>3. CASE ~Sets(n + 1, path, key)
  <2>1. H(n + 1) = H(n)
    <3>1. \A j \in 1..(n + 1) : j = n + 1 \/ j \in 1..n
      OBVIOUS
    <3>2. 1..n \subseteq 1..(n + 1)
      OBVIOUS
    <3> QED BY <1>3, <3>1, <3>2
  <2> DEFINE L(S) == IF S = {} THEN NotFound ELSE file[CHOOSE i \in S : \A j \in S : j <= i].value
  <2>2. SettingBy(n + 1, path, key) = SettingBy(n, path, key)
    <3>1. SettingBy(n + 1, path, key) = L(H(n + 1)) /\ SettingBy(n, path, key) = L(H(n))
      BY Zenon DEF SettingBy
    <3> HIDE DEF L, H
    <3> QED BY <2>1, <3>1
  <2> QED BY <1>1, <1>3, <2>2
<1> QED BY <1>2, <1>3

\* The tree says what the first n lines say.
Agrees(m, n) ==
    /\ m \in Trees
    /\ m.cur = SectionOf(n)
    /\ \A p \in Paths : \A k : LooksUp(m.kids[p], k, SettingBy(n, p, k))

LEMMA LineImported ==
  ASSUME file \in Files, NEW n \in Nat, n + 1 <= Len(file), NEW m, Agrees(m, n)
  PROVE  Agrees(ImportLine(m, file[n + 1]), n + 1)
<1> DEFINE l == file[n + 1]
           q == ImportLine(m, l)
<1>1. l \in Lines
  <2>1. n + 1 \in 1..Len(file)
    BY FileType
  <2> QED BY <2>1, FileType
<1>2. m \in Trees /\ m.cur = SectionOf(n) /\ m.cur \in Paths /\ Defined(m)
  BY DEF Agrees, Defined, Trees
<1>3. SectionOf(n + 1) = IF l.line = "section" THEN l.path ELSE SectionOf(n)
  BY SectionOfNext
<1>4. \A p, k : SettingBy(n + 1, p, k) = IF Sets(n + 1, p, k) THEN l.value ELSE SettingBy(n, p, k)
  BY SettingByNext
<1>5. \A p, k : Sets(n + 1, p, k) <=> l.line = "value" /\ l.key = k /\ SectionOf(n + 1) = p
  BY DEF Sets
<1> HIDE DEF l
<1>6. CASE l.line = "section"
  <2>1. q = set_section(m, l.path) /\ l.path \in Paths
    BY <1>1, <1>6, LineKinds DEF ImportLine
  <2>2. q \in Trees /\ q.cur = l.path /\ SameLookups(m, q)
    BY <1>2, <2>1, SectionSet
  <2>3. \A p, k : SettingBy(n + 1, p, k) = SettingBy(n, p, k)
    BY <1>4, <1>5, <1>6
  <2> HIDE DEF q
  <2> QED BY <1>3, <1>6, <2>2, <2>3 DEF Agrees, SameLookups, q, l
<1>7. CASE l.line = "value"
  <2>1. q = set_value(m, l.key, l.value) /\ l.key \in Keys /\ l.value \in Values \cup {NotANumber}
    BY <1>1, <1>7, LineKinds DEF ImportLine
  <2>2. /\ q \in Trees /\ q.cur = m.cur
        /\ LooksUp(q.kids[m.cur], l.key, l.value)
        /\ \A p \in Paths : \A k, w :
              LooksUp(m.kids[p], k, w) /\ ~(p = m.cur /\ k = l.key) => LooksUp(q.kids[p], k, w)
    <3>1. OneSet(m, q, l.key, l.value)
      BY <1>2, <2>1, ValueSet
    <3> QED BY <3>1 DEF OneSet
  <2>3. SectionOf(n + 1) = m.cur
    BY <1>2, <1>3, <1>7
  <2>4. \A p, k : SettingBy(n + 1, p, k) = IF p = m.cur /\ k = l.key THEN l.value ELSE SettingBy(n, p, k)
    BY <1>4, <1>5, <1>7, <2>3
  <2> HIDE DEF q
  <2>5. ASSUME NEW p \in Paths, NEW k PROVE LooksUp(q.kids[p], k, SettingBy(n + 1, p, k))
    <3>1. CASE p = m.cur /\ k = l.key
      BY <2>2, <2>4, <3>1
    <3>2. CASE ~(p = m.cur /\ k = l.key)
      <4>1. LooksUp(m.kids[p], k, SettingBy(n, p, k)) /\ SettingBy(n + 1, p, k) = SettingBy(n, p, k)
        BY <2>4, <3>2 DEF Agrees
      <4> QED BY <2>2, <3>2, <4>1
    <3> QED BY <3>1, <3>2
  <2> QED BY <2>2, <2>3, <2>5 DEF Agrees, q, l
<1>8. CASE l.line = "ignored"
  <2>1. q = m /\ SectionOf(n + 1) = SectionOf(n)
    BY <1>3, <1>8 DEF ImportLine
  <2>2. \A p, k : SettingBy(n + 1, p, k) = SettingBy(n, p, k)
    BY <1>4, <1>5, <1>8
  <2> HIDE DEF q
  <2> QED BY <2>1, <2>2 DEF Agrees, q, l
<1> QED BY <1>1, <1>6, <1>7, <1>8, LineKinds DEF l

LEMMA FileImported ==
  ASSUME file \in Files
  PROVE  Agrees(import(file), Len(file))
<1> DEFINE n == Len(file)
<1>1. n \in Nat
  BY FileType
<1>2. PICK f : Visits("line", f, Empty, file, n) /\ import(file) = f[n]
  BY <1>1, ImportVisits
<1> DEFINE T == {k \in Nat : k <= n => Agrees(f[k], k)}
<1>3. 0 \in T
  <2>1. f[0] = Empty
    <3> HIDE DEF n
    <3> QED BY <1>1, <1>2, VisitsAt
  <2>2. <<>> \in Paths
    <3>1. <<>> \in [1..0 -> Keys] /\ 0 \in 0..MaxDepth
      BY ConfigTreeAssumption
    <3> QED BY <3>1 DEF Paths
  <2>3. Empty \in Trees /\ Empty.cur = <<>> /\ \A p \in Paths : Empty.kids[p] = <<>>
    <3>1. [p \in Paths |-> <<>>] \in [Paths -> Seq(Nodes)]
      OBVIOUS
    <3> QED BY <2>2, <3>1 DEF Empty, Trees
  <2>4. \A k : LooksUp(<<>>, k, NotFound)
    BY DEF LooksUp
  <2>5. SectionOf(0) = <<>> /\ \A p, k : SettingBy(0, p, k) = NotFound
    BY SectionOfNext, SettingByNext
  <2>6. Agrees(Empty, 0)
    BY <2>3, <2>4, <2>5 DEF Agrees
  <2> QED BY <2>1, <2>6
<1>4. ASSUME NEW k \in Nat, k \in T PROVE k + 1 \in T
  <2> SUFFICES ASSUME k + 1 <= n PROVE Agrees(f[k + 1], k + 1)
    OBVIOUS
  <2>1. k + 1 \in 0..n /\ k + 1 # 0 /\ (k + 1) - 1 = k /\ k <= n
    <3> HIDE DEF n
    <3> QED BY <1>1
  <2>2. Agrees(f[k], k)
    BY <1>4, <2>1
  <2>3. f[k + 1] = ImportLine(f[k], file[k + 1])
    <3>1. f[k + 1] = Visit("line", f[(k + 1) - 1], file[k + 1])
      <4> HIDE DEF n
      <4> QED BY <1>1, <1>2, <2>1, VisitsAt
    <3> QED BY <2>1, <3>1 DEF Visit
  <2> QED BY <2>2, <2>3, LineImported
<1>5. Nat \subseteq T
  <2> HIDE DEF T
  <2> QED BY <1>3, <1>4, NatSetInduction
<1>6. n \in T /\ n <= n
  <2> HIDE DEF n
  <2> QED BY <1>1, <1>5
<1> QED BY <1>2, <1>6

\* What open finds in a section is what the file says last.
LEMMA FileFound ==
  ASSUME file \in Files, NEW path \in Paths, NEW key
  PROVE  /\ get_value(set_section(import(file), path), key) = Setting(path, key)
         /\ Setting(path, key) \in Values \cup {NotANumber, NotFound}
<1> DEFINE m == import(file)
           q == set_section(m, path)
           n == Len(file)
<1>1. Agrees(m, n)
  BY FileImported
<1>2. SettingBy(n, path, key) = Setting(path, key)
  BY Zenon DEF SettingBy, Setting, Sets
<1>3. m \in Trees /\ LooksUp(m.kids[path], key, Setting(path, key))
  BY <1>1, <1>2 DEF Agrees
<1>4. q \in Trees /\ q.cur = path /\ SameLookups(m, q)
  <2> HIDE DEF m
  <2> QED BY <1>3, SectionSet
<1> HIDE DEF q, m
<1>5. LooksUp(q.kids[path], key, Setting(path, key))
  BY <1>3, <1>4 DEF SameLookups
<1>6. get_value(q, key) = Setting(path, key)
  BY <1>4, <1>5, LookupIs DEF get_value
<1>7. Setting(path, key) \in Values \cup {NotANumber, NotFound}
  <2> DEFINE list == q.kids[path]
  <2>1. list \in Seq(Nodes)
    BY <1>4 DEF Trees
  <2>2. \A i \in 1..Len(list) : list[i] \in Nodes
    <3> HIDE DEF list
    <3> QED BY <2>1, ElementOfSeq
  <2> QED BY <1>5, <2>2 DEF LooksUp, Nodes
<1> QED BY <1>6, <1>7 DEF q, m

-----------------------------------------------------------------------------
(* The process. *)

\* Before open has returned the pools are as at the start; the port is known
\* after its first half.
ProcessInv ==
    /\ Inv
    /\ step \in {"readParameter", "readThreadNumber", "done", "failed"}
    /\ file \in Files
    /\ ~OpenReturned => Init /\ ret = 0
    /\ step = "readThreadNumber" => listen_port = Setting(ParameterSection, "ListenPort")

LEMMA ProcessStarts == ProcessInit => ProcessInv
<1> SUFFICES ASSUME ProcessInit PROVE ProcessInv
  OBVIOUS
<1>1. Init
  BY DEF ProcessInit
<1>2. Inv
  BY <1>1, InvInit
<1> QED BY <1>1, <1>2 DEF ProcessInit, ConfigInit, ProcessInv, Files

\* The numbers of threads that readThreadNumber finds.
LEMMA NumbersFound ==
  ASSUME file \in Files, readThreadNumber
  PROVE  /\ receiver_num' = Wanted("ReceiverThread", DefaultReceivers)
         /\ worker_loader_num' = Wanted("WorkerLoaderThread", DefaultLoaders)
         /\ receiver_num' \in 0..MaxThreads /\ worker_loader_num' \in 0..MaxThreads
<1> DEFINE m == set_section(import(file), ThreadSection)
           a == Setting(ThreadSection, "ReceiverThread")
           b == Setting(ThreadSection, "WorkerLoaderThread")
<1>1. ThreadSection \in Paths
  BY ConfigurationAssumption
<1>2. /\ get_value(m, "ReceiverThread") = a /\ a \in Values \cup {NotANumber, NotFound}
      /\ get_value(m, "WorkerLoaderThread") = b /\ b \in Values \cup {NotANumber, NotFound}
  BY <1>1, FileFound
<1>3. /\ receiver_num' = Number(m, "ReceiverThread", DefaultReceivers)
      /\ worker_loader_num' = Number(m, "WorkerLoaderThread", DefaultLoaders)
  BY DEF readThreadNumber
<1> HIDE DEF m, a, b
<1>4. /\ receiver_num' = CASE a = NotFound -> DefaultReceivers [] a = NotANumber -> 0 [] OTHER -> a
      /\ worker_loader_num' = CASE b = NotFound -> DefaultLoaders [] b = NotANumber -> 0 [] OTHER -> b
  BY <1>2, <1>3 DEF Number
<1>5. /\ NotANumber # NotFound /\ MaxThreads \in Nat
      /\ Values \subseteq 0..MaxThreads
      /\ DefaultReceivers \in 0..MaxThreads /\ DefaultLoaders \in 0..MaxThreads
  BY ConfigurationAssumption, ProcessAssumption, MaxThreadsAssumption
<1>6. receiver_num' \in 0..MaxThreads /\ worker_loader_num' \in 0..MaxThreads
  BY <1>2, <1>4, <1>5
<1> QED BY <1>4, <1>6 DEF Wanted, a, b

LEMMA PrimedInvInit == Init' => Inv'
  BY InvInit, PTL

LEMMA ConfigureKeeps ==
  ASSUME ProcessInv, Configure
  PROVE  ProcessInv'
<1>1. /\ step \in {"readParameter", "readThreadNumber"} /\ file \in Files /\ Inv /\ Init /\ ret = 0
  BY DEF ProcessInv, Configure, ConfigNext, readParameter, readThreadNumber, import_fails, OpenReturned
<1>2. UNCHANGED <<opened, thread, arrived, barrier, stopping, joined>>
  BY DEF Configure
<1>3. <<>> \in Files
  <2>1. <<>> \in [1..0 -> Lines] /\ 0 \in 0..MaxLines
    BY ConfigurationAssumption
  <2> QED BY <2>1 DEF Files
<1>4. CASE ret' # 0
  <2>1. step' \in {"done", "failed"} /\ file' = <<>>
    BY <1>1, <1>4 DEF Configure, ConfigNext, readParameter, readThreadNumber, import_fails
  <2>2. thread_num' = thread_num /\ exit("loader")
    BY <1>4 DEF Configure
  <2>3. OpenFails
    BY <1>1, <1>2, <2>2 DEF OpenFails, Init
  <2>4. Inv'
    BY <1>1, <2>3, InvNext DEF Next
  <2> QED BY <1>3, <2>1, <2>4 DEF ProcessInv, OpenReturned
<1>5. CASE ret' = 0
  <2>1. UNCHANGED pc
    BY <1>5 DEF Configure
  <2>2. CASE readParameter
    <3> DEFINE m == set_section(import(file), ParameterSection)
               port == get_value(m, "ListenPort")
    <3>1. listen_port' = port /\ step' = "readThreadNumber" /\ UNCHANGED <<file, ret>>
      BY <1>5, <2>2 DEF readParameter
    <3>2. port = Setting(ParameterSection, "ListenPort")
      <4>1. ParameterSection \in Paths
        BY ConfigurationAssumption
      <4> QED BY <1>1, <4>1, FileFound
    <3>3. Setting(ParameterSection, "ListenPort")' = Setting(ParameterSection, "ListenPort")
      BY <3>1 DEF Setting, SectionOf
    <3>4. thread_num' = thread_num
      BY <3>1 DEF Configure
    <3>5. Init'
      BY <1>1, <1>2, <2>1, <3>4 DEF Init
    <3> HIDE DEF port
    <3> QED BY <1>1, <1>5, <3>1, <3>2, <3>3, <3>5, PrimedInvInit DEF ProcessInv, OpenReturned
  <2>3. CASE readThreadNumber
    <3>1. step' = "done" /\ file' = <<>>
      BY <2>3 DEF readThreadNumber
    <3>2. receiver_num' \in 0..MaxThreads /\ worker_loader_num' \in 0..MaxThreads
      BY <1>1, <2>3, NumbersFound
    <3>3. thread_num' = [loader |-> worker_loader_num', http |-> receiver_num']
      BY <1>5, <3>1 DEF Configure
    <3>4. thread_num' \in [Pools -> 0..MaxThreads]
      BY <3>2, <3>3 DEF Pools
    <3>5. Init'
      BY <1>1, <1>2, <2>1, <3>4 DEF Init
    <3> QED BY <1>3, <3>1, <3>5, PrimedInvInit DEF ProcessInv, OpenReturned
  <2>4. CASE import_fails
    BY <1>5, <2>4 DEF import_fails
  <2> QED BY <2>2, <2>3, <2>4 DEF Configure, ConfigNext
<1> QED BY <1>4, <1>5

LEMMA ProcessStep == ProcessInv /\ [ProcessNext]_processVars => ProcessInv'
<1> SUFFICES ASSUME ProcessInv, [ProcessNext]_processVars PROVE ProcessInv'
  OBVIOUS
<1>1. CASE Configure
  BY <1>1, ConfigureKeeps
<1>2. CASE Run
  <2>1. OpenReturned /\ Next /\ UNCHANGED <<file, step, ret, listen_port>>
    BY <1>2 DEF Run, configVars
  <2>2. Inv'
    BY <2>1, InvNext DEF ProcessInv
  <2> QED BY <2>1, <2>2 DEF ProcessInv, OpenReturned
<1>3. CASE UNCHANGED processVars
  <2>1. UNCHANGED vars /\ UNCHANGED <<file, step, ret, listen_port>>
    BY <1>3 DEF processVars, configVars
  <2>2. Inv'
    BY <2>1, InvNext DEF ProcessInv
  <2>3. Init => Init'
    BY <2>1 DEF Init, vars
  <2>4. Setting(ParameterSection, "ListenPort")' = Setting(ParameterSection, "ListenPort")
    BY <2>1 DEF Setting, SectionOf
  <2> QED BY <2>1, <2>2, <2>3, <2>4 DEF ProcessInv, OpenReturned
<1> QED BY <1>1, <1>2, <1>3 DEF ProcessNext

\* For every file and any numbers of threads: the pools are opened as Startup
\* says, with numbers that open has found (main.cpp:30-80).
THEOREM ProcessInvariance == ProcessSpec => []ProcessInv
<1> QED
  BY ProcessStarts, ProcessStep, PTL DEF ProcessSpec

\* For every file, join destroys a barrier only after every thread of the pool
\* has left it and returned (main.cpp:30-80, task_base.cpp:50-62).
THEOREM ProcessBarriers == ProcessSpec => []DestroyedUnused
<1>1. ProcessInv => DestroyedUnused
  BY DEF ProcessInv, Inv
<1> QED
  BY <1>1, ProcessInvariance, PTL

\* For a file of any length, with any sections, keys and values: a successful
\* open leaves in its fields what the file says last (config_map.hpp:62-173,
\* configuration.cpp:58-115).
THEOREM LastSetting == ProcessSpec => LastSettingWins
<1> DEFINE A == step # "done" /\ step' = "done" /\ ret' = 0 =>
                  /\ listen_port' = Setting(ParameterSection, "ListenPort")
                  /\ receiver_num' = Wanted("ReceiverThread", DefaultReceivers)
                  /\ worker_loader_num' = Wanted("WorkerLoaderThread", DefaultLoaders)
<1>1. ProcessInv /\ [ProcessNext]_processVars => [A]_configVars
  <2> SUFFICES ASSUME ProcessInv, [ProcessNext]_processVars, step # "done", step' = "done", ret' = 0
               PROVE  /\ listen_port' = Setting(ParameterSection, "ListenPort")
                      /\ receiver_num' = Wanted("ReceiverThread", DefaultReceivers)
                      /\ worker_loader_num' = Wanted("WorkerLoaderThread", DefaultLoaders)
    OBVIOUS
  <2>1. Configure
    <3>1. ~(UNCHANGED step)
      OBVIOUS
    <3> QED BY <3>1 DEF ProcessNext, Run, processVars, configVars
  <2>2. readThreadNumber
    BY <2>1 DEF Configure, ConfigNext, readParameter, import_fails
  <2>3. listen_port' = listen_port /\ step = "readThreadNumber"
    BY <2>2 DEF readThreadNumber
  <2> QED BY <2>2, <2>3, NumbersFound DEF ProcessInv
<1>2. ProcessSpec => [][A]_configVars
  BY <1>1, ProcessInvariance, PTL DEF ProcessSpec
<1> QED BY <1>2 DEF LastSettingWins
=============================================================================
