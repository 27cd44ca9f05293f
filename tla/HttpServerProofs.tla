-------------------------- MODULE HttpServerProofs --------------------------
(***************************************************************************)
(* The safety of HttpServer for any number of receivers, loaders,          *)
(* connections, descriptors and workers: first the invariant Inv of        *)
(* HttpServerInv and what follows from it, then EventInv, which says that  *)
(* edge-triggered epoll loses no event.                                    *)
(***************************************************************************)
EXTENDS HttpServerInv, FiniteSetTheorems, SequenceTheorems, TLAPS

USE DEF Threads, Events

LEMMA InitInv == Init => Inv
<1> SUFFICES ASSUME Init PROVE Inv
  OBVIOUS
<1> USE HttpServerAssumption DEF Init
<1>1. TypeOK
  <2>1. pc \in [Threads -> ReceiverPC \cup LoaderPC]
    BY DEF ReceiverPC, LoaderPC
  <2>2. ready \in Seq(Events) /\ queue \in Seq(Workers)
    BY EmptySeq
  <2>3. 0 \in 0..MaxSend /\ "top" \in ReceiverPC
    BY DEF ReceiverPC
  <2>4. nowConn \in Int /\ ref \in [Conns -> Int]
    OBVIOUS
  <2>5. main \in {"run", "pipe", "receivers", "loaders", "done"}
        /\ peer \in [Conns -> {"new", "open", "shut"}]
        /\ heap \in [Conns -> {"none", "live", "freed"}]
    OBVIOUS
  <2> QED BY <2>1, <2>2, <2>3, <2>4, <2>5, Zenon DEF TypeOK
<1>2. CountInv
  BY DEF CountInv
<1>3. LockInv
  BY DEF LockInv, HoldsEpollMutex, Busy, Taken, ReceiverPC, LoaderPC
<1>4. JoinInv
  BY DEF JoinInv
<1>5. JobInv
  BY DEF JobInv, HasJob, Reads, Sends
<1>6. RefInv
  <2>1. ASSUME NEW c \in Conns PROVE Cardinality(Held(c)) = 0 /\ ref[c] = 0
    <3>1. Held(c) = {}
      BY DEF Held
    <3> QED BY <3>1, FS_EmptySet
  <2> QED BY <2>1 DEF RefInv
<1>7. MapInv
  BY DEF MapInv
<1>8. FreshInv
  BY DEF FreshInv
<1>9. EpollInv
  BY DEF EpollInv, Range, Busy, Taken
<1>10. WriteInv
  BY DEF WriteInv
<1> QED BY <1>1, <1>2, <1>3, <1>4, <1>5, <1>6, <1>7, <1>8, <1>9, <1>10 DEF Inv

-----------------------------------------------------------------------------
(* Frame lemmas: what a step has to leave alone for a part of the invariant *)
(* to be preserved.                                                         *)

LEMMA CountFrame ==
  ASSUME CountInv, UNCHANGED <<rbuf, unread, sent>>
  PROVE  CountInv'
  BY DEF CountInv

LEMMA JoinFrame ==
  ASSUME JoinInv, TypeOK, UNCHANGED <<joined, main, qalive>>,
         \A t \in Threads : pc[t] = "exit" => pc'[t] = "exit"
  PROVE  JoinInv'
  BY DEF JoinInv, TypeOK

LEMMA JobFrame ==
  ASSUME JobInv, UNCHANGED <<wconn, queue, job>>,
         \A t \in Threads : HasJob(t)' => HasJob(t)
  PROVE  JobInv'
  BY DEF JobInv

LEMMA RefFrame ==
  ASSUME RefInv, UNCHANGED <<wconn, ref>>
  PROVE  RefInv'
  BY DEF RefInv, Held

LEMMA MapFrame ==
  ASSUME MapInv, UNCHANGED <<fdset, heap, hfd, fdt, closing, wconn, cur>>,
         \A r \in Receivers : pc[r] = "insert" <=> pc'[r] = "insert"
  PROVE  MapInv'
  BY DEF MapInv, Held

LEMMA FreshFrame ==
  ASSUME FreshInv, UNCHANGED <<peer, backlog, heap, fdt, err>>
  PROVE  FreshInv'
  BY DEF FreshInv

LEMMA EpollFrame ==
  ASSUME EpollInv, UNCHANGED <<reg, edge, ready, fdset, fdt, err, wconn, job, cur>>,
         \A r \in Receivers : pc'[r] \in Busy =>
            /\ pc[r] \in Busy
            /\ pc[r] = "release" => pc'[r] = "release"
            /\ pc'[r] \in Reads => pc[r] \in Reads
  PROVE  EpollInv'
  BY DEF EpollInv

LEMMA WriteFrame ==
  ASSUME WriteInv, UNCHANGED <<wconn, job, hlock, midway>>,
         \A l \in Loaders : pc'[l] = pc[l] \/ pc'[l] \notin {"head", "body"}
  PROVE  WriteInv'
  BY DEF WriteInv

\* A thread that can move does so before ~Http_Server.
LEMMA ActiveMain ==
  ASSUME Inv, NEW t \in Threads, pc[t] # "exit"
  PROVE  main # "done" /\ t \notin joined
  BY DEF Inv, JoinInv, TypeOK

\* What a thread knows of the handle its worker refers to.
LEMMA JobFacts ==
  ASSUME Inv, NEW t \in Threads, HasJob(t)
  PROVE  /\ job[t] \in Workers
         /\ wconn[job[t]] \in Conns
         /\ heap[wconn[job[t]]] = "live"
         /\ hfd[wconn[job[t]]] \in Fds
         /\ fdset[hfd[wconn[job[t]]]] = wconn[job[t]]
         /\ fdt[hfd[wconn[job[t]]]] = wconn[job[t]]
         /\ closing # wconn[job[t]]
<1>1. pc[t] # "exit"
  BY DEF HasJob, Reads, Sends
<1>2. main # "done"
  BY <1>1, ActiveMain
<1>3. TypeOK /\ JobInv /\ MapInv
  BY <1>2 DEF Inv
<1>4. job[t] \in Workers /\ wconn[job[t]] \in Conns
  BY <1>3 DEF JobInv, TypeOK
<1>5. heap[wconn[job[t]]] = "live" /\ closing # wconn[job[t]]
  BY <1>3, <1>4, HttpServerAssumption DEF MapInv, Held
<1> QED BY <1>3, <1>4, <1>5, HttpServerAssumption DEF MapInv

\* The parts that hold while a thread can move.
Running == JobInv /\ RefInv /\ MapInv /\ FreshInv /\ EpollInv /\ WriteInv

LEMMA ActiveParts ==
  ASSUME Inv, NEW t \in Threads, pc[t] # "exit"
  PROVE  TypeOK /\ CountInv /\ LockInv /\ JoinInv /\ Running /\ main # "done"
  BY ActiveMain DEF Inv, Running

LEMMA InvFromParts ==
  ASSUME TypeOK', CountInv', LockInv', JoinInv', Running'
  PROVE  Inv'
  BY DEF Inv, Running

LEMMA PcType ==
  ASSUME TypeOK, NEW t \in Threads, NEW label \in ReceiverPC \cup LoaderPC,
         Goto(t, label)
  PROVE  /\ pc' \in [Threads -> ReceiverPC \cup LoaderPC]
         /\ pc'[t] = label
         /\ \A u \in Threads : u # t => pc'[u] = pc[u]
  BY DEF TypeOK, Goto

\* The mutexes when a receiver moves outside of release_handle.
LEMMA ReceiverMoves ==
  ASSUME TypeOK, LockInv, NEW r \in Receivers, NEW label \in ReceiverPC, Goto(r, label),
         pc[r] # "erase", label # "erase", UNCHANGED <<mapMutex, closing>>,
         epollMutex' = IF label \in HoldsEpollMutex THEN r
                       ELSE IF pc[r] \in HoldsEpollMutex THEN None ELSE epollMutex,
         label \in HoldsEpollMutex => pc[r] \in HoldsEpollMutex \/ epollMutex = None,
         label \in Busy \cup {"insert"} => cur'[r] \in Fds,
         \A s \in Receivers \ {r} : cur'[s] = cur[s]
  PROVE  LockInv'
<1>1. pc'[r] = label /\ \A u \in Threads : u # r => pc'[u] = pc[u]
  BY PcType
<1>2. r \notin Loaders /\ r # None
  BY HttpServerAssumption
<1>3. \A s \in Receivers : pc'[s] \in HoldsEpollMutex <=> epollMutex' = s
  <2>1. CASE label \in HoldsEpollMutex
    BY <1>1, <2>1, HttpServerAssumption DEF LockInv
  <2>2. CASE label \notin HoldsEpollMutex /\ pc[r] \in HoldsEpollMutex
    BY <1>1, <2>2, HttpServerAssumption DEF LockInv
  <2>3. CASE label \notin HoldsEpollMutex /\ pc[r] \notin HoldsEpollMutex
    BY <1>1, <2>3, HttpServerAssumption DEF LockInv
  <2> QED BY <2>1, <2>2, <2>3
<1>4. \A t \in Threads : pc'[t] = "erase" <=> mapMutex' = t
  BY <1>1 DEF LockInv
<1>5. \A s \in Receivers : pc'[s] \in Busy \cup {"insert"} => cur'[s] \in Fds
  BY <1>1 DEF LockInv
<1> QED BY <1>1, <1>2, <1>3, <1>4, <1>5 DEF LockInv

LEMMA LoaderMoves ==
  ASSUME TypeOK, LockInv, NEW l \in Loaders, NEW label \in LoaderPC, Goto(l, label),
         pc[l] # "erase", label # "erase",
         UNCHANGED <<epollMutex, mapMutex, closing, cur>>
  PROVE  LockInv'
<1>1. pc'[l] = label /\ \A u \in Threads : u # l => pc'[u] = pc[u]
  BY PcType
<1>2. l \notin Receivers
  BY HttpServerAssumption
<1> QED BY <1>1, <1>2 DEF LockInv

\* A step that moves one thread and touches no data.
LEMMA QuietStep ==
  ASSUME Inv, NEW t \in Threads, pc[t] \notin {"exit", "insert"},
         NEW label \in ReceiverPC \cup LoaderPC, Goto(t, label),
         UNCHANGED <<kernel, fdset, ready, closing, handles, tasks, midway, cur, job,
                     joined, main>>,
         label \notin Busy \cup Sends \cup {"insert"}
  PROVE  CountInv' /\ JoinInv' /\ Running'
<1> USE DEF kernel, handles, tasks, Busy, Taken, Reads, Sends
<1>1. TypeOK /\ CountInv /\ LockInv /\ JoinInv /\ Running
  BY ActiveParts
<1>2. pc'[t] = label /\ \A u \in Threads : u # t => pc'[u] = pc[u]
  BY <1>1, PcType
<1>3. CountInv'
  BY <1>1, CountFrame
<1>4. JoinInv'
  BY <1>1, <1>2, JoinFrame
<1>5. JobInv'
  <2>1. \A u \in Threads : HasJob(u)' => HasJob(u)
    BY <1>2 DEF HasJob
  <2> QED BY <1>1, <2>1, JobFrame DEF Running
<1>6. RefInv'
  BY <1>1, RefFrame DEF Running
<1>7. MapInv'
  BY <1>1, <1>2, MapFrame DEF Running
<1>8. FreshInv'
  BY <1>1, FreshFrame DEF Running
<1>9. EpollInv'
  BY <1>1, <1>2, EpollFrame DEF Running
<1>10. WriteInv'
  BY <1>1, <1>2, WriteFrame DEF Running
<1> QED BY <1>3, <1>4, <1>5, <1>6, <1>7, <1>8, <1>9, <1>10 DEF Running

-----------------------------------------------------------------------------
(* Clients. *)

LEMMA ClientStep ==
  ASSUME Inv, NEW c \in Conns, Client(c)
  PROVE  Inv'
<1> USE HttpServerAssumption
        DEF Client, ClientConnect, ClientSend, ClientShut, Arrival, server, handles, tasks,
            locals, mainv
<1>0. TypeOK /\ CountInv /\ LockInv /\ JoinInv
  BY DEF Inv
<1>1. UNCHANGED <<fdt, reg, fdset, ready, epollMutex, mapMutex, closing, heap, hfd, ref, err,
                  rbuf, hlock, wconn, queue, qalive, pc, cur, job, midway, main, joined>>
  OBVIOUS
<1>2. TypeOK'
  <2>1. peer' \in [Conns -> {"new", "open", "shut"}] /\ backlog' \subseteq Conns
    BY <1>0 DEF TypeOK
  <2>2. edge' \subseteq Events
    BY <1>0 DEF TypeOK
  <2>3. sent' \in [Conns -> 0..MaxSend] /\ unread' \in [Conns -> 0..MaxSend]
    <3>1. CASE UNCHANGED <<sent, unread>>
      BY <1>0, <3>1 DEF TypeOK
    <3>2. CASE ClientSend(c)
      <4>1. /\ sent[c] \in Nat /\ unread[c] \in Nat /\ rbuf[c] \in Nat
            /\ rbuf[c] + unread[c] <= sent[c] /\ sent[c] < MaxSend
        BY <1>0, <3>2 DEF TypeOK, CountInv
      <4>2. sent[c] + 1 \in 0..MaxSend /\ unread[c] + 1 \in 0..MaxSend
        BY <4>1
      <4> QED BY <1>0, <3>2, <4>2 DEF TypeOK
    <3> QED BY <3>1, <3>2
  <2> QED BY <1>0, <1>1, <2>1, <2>2, <2>3 DEF TypeOK
<1>3. CountInv'
  <2>1. CASE UNCHANGED <<sent, unread>>
    BY <1>0, <1>1, <2>1, CountFrame
  <2>2. CASE ClientSend(c)
    BY <1>0, <1>1, <2>2 DEF TypeOK, CountInv
  <2> QED BY <2>1, <2>2
<1>4. LockInv' /\ JoinInv'
  BY <1>0, <1>1 DEF LockInv, JoinInv
<1>5. ASSUME main # "done" PROVE Running'
  <2>1. Running
    BY <1>5 DEF Inv, Running
  <2>2. JobInv'
    BY <1>1, <2>1 DEF Running, JobInv, HasJob
  <2>3. RefInv' /\ MapInv'
    BY <1>1, <2>1, RefFrame, MapFrame DEF Running
  <2>4. FreshInv'
    BY <1>0, <1>1, <2>1 DEF Running, FreshInv, MapInv, TypeOK, OpenAtServer
  <2>5. EpollInv'
    BY <1>0, <1>1, <2>1 DEF Running, EpollInv, TypeOK
  <2>6. WriteInv'
    BY <1>1, <2>1, WriteFrame DEF Running
  <2> QED BY <2>2, <2>3, <2>4, <2>5, <2>6 DEF Running
<1> QED BY <1>1, <1>2, <1>3, <1>4, <1>5 DEF Inv, Running

-----------------------------------------------------------------------------
(* Http_Server::svc. *)

LEMMA SvcTop ==
  ASSUME Inv, NEW r \in Receivers, svc_top(r)
  PROVE  Inv'
<1> DEFINE label == IF stopTask THEN "exit" ELSE "lock"
<1>1. TypeOK /\ LockInv
  BY DEF Inv
<1>2. label \in ReceiverPC \cup LoaderPC /\ label \notin Busy \cup Sends \cup {"insert"}
  BY DEF ReceiverPC, Busy, Taken, Sends
<1>3. Goto(r, label)
  BY DEF svc_top
<1>4. CountInv' /\ JoinInv' /\ Running'
  <2> HIDE DEF label
  <2> QED BY <1>2, <1>3, QuietStep DEF svc_top, server, mainv
<1>5. /\ pc' \in [Threads -> ReceiverPC \cup LoaderPC]
      /\ pc'[r] = label
      /\ \A u \in Threads : u # r => pc'[u] = pc[u]
  <2> HIDE DEF label
  <2> QED BY <1>1, <1>2, <1>3, PcType
<1>6. TypeOK'
  BY <1>1, <1>5 DEF TypeOK, svc_top, kernel, server, handles, tasks, mainv
<1>7. LockInv'
  <2>1. label \in ReceiverPC /\ label \notin HoldsEpollMutex \cup {"erase"}
    BY DEF ReceiverPC, HoldsEpollMutex
  <2> HIDE DEF label
  <2> QED BY <1>1, <1>2, <1>3, <2>1, ReceiverMoves DEF svc_top, server, HoldsEpollMutex
<1> QED BY <1>4, <1>6, <1>7, InvFromParts

LEMMA SvcLock ==
  ASSUME Inv, NEW r \in Receivers, svc_lock(r)
  PROVE  Inv'
<1> DEFINE label == IF stopTask THEN "exit" ELSE IF ready = <<>> THEN "wait" ELSE "take"
<1>1. TypeOK /\ LockInv
  BY DEF Inv
<1>2. label \in ReceiverPC \cup LoaderPC /\ label \notin Busy \cup Sends \cup {"insert"}
  BY DEF ReceiverPC, Busy, Taken, Sends
<1>3. Goto(r, label)
  BY DEF svc_lock, NoEventsLeft
<1>4. CountInv' /\ JoinInv' /\ Running'
  <2> HIDE DEF label
  <2> QED BY <1>2, <1>3, QuietStep DEF svc_lock, mainv
<1>5. /\ pc' \in [Threads -> ReceiverPC \cup LoaderPC]
      /\ pc'[r] = label
      /\ \A u \in Threads : u # r => pc'[u] = pc[u]
  <2> HIDE DEF label
  <2> QED BY <1>1, <1>2, <1>3, PcType
<1>6. /\ epollMutex = None
      /\ epollMutex' = IF stopTask THEN None ELSE r
      /\ UNCHANGED <<kernel, fdset, ready, mapMutex, closing, nowConn, stopTask,
                   handles, tasks, midway, cur, job, mainv>>
  BY DEF svc_lock
<1>7. TypeOK'
  BY <1>1, <1>5, <1>6 DEF TypeOK, kernel, handles, tasks, mainv
<1>8. LockInv'
  <2>1. /\ label \in ReceiverPC /\ label # "erase"
        /\ label \in HoldsEpollMutex <=> ~stopTask
    BY DEF ReceiverPC, HoldsEpollMutex
  <2>2. pc[r] = "lock" /\ pc[r] \notin HoldsEpollMutex
    BY DEF svc_lock, HoldsEpollMutex
  <2> HIDE DEF label
  <2> QED BY <1>1, <1>2, <1>3, <1>6, <2>1, <2>2, ReceiverMoves
<1> QED BY <1>4, <1>7, <1>8, InvFromParts

LEMMA AcceptFails ==
  ASSUME Inv, NEW r \in Receivers, accept_fails(r)
  PROVE  Inv'
<1>1. TypeOK /\ LockInv
  BY DEF Inv
<1>2. "top" \in ReceiverPC \cup LoaderPC /\ "top" \notin Busy \cup Sends \cup {"insert"}
  BY DEF ReceiverPC, Busy, Taken, Sends
<1>3. CountInv' /\ JoinInv' /\ Running'
  BY <1>2, QuietStep DEF accept_fails, mainv
<1>4. /\ pc' \in [Threads -> ReceiverPC \cup LoaderPC]
      /\ pc'[r] = "top"
      /\ \A u \in Threads : u # r => pc'[u] = pc[u]
  BY <1>1, <1>2, PcType DEF accept_fails
<1>5. TypeOK'
  BY <1>1, <1>4 DEF accept_fails, TypeOK, kernel, handles, tasks, mainv
<1>6. LockInv'
  BY <1>1, <1>2, ReceiverMoves DEF accept_fails, HoldsEpollMutex, ReceiverPC
<1> QED BY <1>3, <1>5, <1>6, InvFromParts

LEMMA LoaderNull ==
  ASSUME Inv, NEW l \in Loaders, loader_null(l)
  PROVE  Inv'
<1>1. TypeOK /\ LockInv
  BY DEF Inv
<1>2. "exit" \in ReceiverPC \cup LoaderPC /\ "exit" \notin Busy \cup Sends \cup {"insert"}
  BY DEF ReceiverPC, Busy, Taken, Sends
<1>3. CountInv' /\ JoinInv' /\ Running'
  BY <1>2, QuietStep DEF loader_null, server, mainv
<1>4. /\ pc' \in [Threads -> ReceiverPC \cup LoaderPC]
      /\ pc'[l] = "exit"
      /\ \A u \in Threads : u # l => pc'[u] = pc[u]
  BY <1>1, <1>2, PcType DEF loader_null
<1>5. TypeOK'
  BY <1>1, <1>4 DEF loader_null, TypeOK, kernel, server, handles, tasks, mainv
<1>6. LockInv'
  BY <1>1, LoaderMoves DEF loader_null, server, LoaderPC
<1> QED BY <1>3, <1>5, <1>6, InvFromParts

LEMMA EpollWait ==
  ASSUME Inv, NEW r \in Receivers, epoll_wait(r)
  PROVE  Inv'
<1>1. TypeOK /\ CountInv /\ LockInv /\ JoinInv /\ Running
  BY ActiveParts DEF epoll_wait
<1>2. /\ pc[r] = "wait" /\ Goto(r, "take")
      /\ UNCHANGED <<fdt, reg, backlog, peer, sent, unread, fdset, epollMutex, mapMutex,
                     closing, nowConn, stopTask, heap, hfd, ref, err, rbuf, hlock, wconn,
                     queue, qalive, midway, cur, job, main, victim, joined>>
  BY DEF epoll_wait, handles, tasks, mainv
<1>3. "take" \in ReceiverPC
  BY DEF ReceiverPC
<1>4. /\ pc' \in [Threads -> ReceiverPC \cup LoaderPC]
      /\ pc'[r] = "take"
      /\ \A u \in Threads : u # r => pc'[u] = pc[u]
  BY <1>1, <1>2, <1>3, PcType
<1>5. PICK n \in 1..MaxEvents : \E a \in [1..n -> edge] :
          /\ \A i, j \in 1..n : a[i] = a[j] => i = j
          /\ ready' = a
          /\ edge' = edge \ {a[i] : i \in 1..n}
  BY DEF epoll_wait
<1>6. PICK a \in [1..n -> edge] :
          /\ \A i, j \in 1..n : a[i] = a[j] => i = j
          /\ ready' = a
          /\ edge' = edge \ {a[i] : i \in 1..n}
  BY <1>5
<1>7. n \in Nat /\ a \in [1..n -> Events]
  BY <1>1, HttpServerAssumption DEF TypeOK
<1>8. a \in Seq(Events) /\ Len(a) = n /\ DOMAIN a = 1..n
  <2>1. a \in Seq(Events)
    BY <1>7, SeqDef
  <2>2. Len(a) \in Nat /\ DOMAIN a = 1..Len(a) /\ DOMAIN a = 1..n
    BY <1>7, <2>1, LenProperties
  <2> QED BY <1>7, <2>1, <2>2
<1>9. TypeOK'
  BY <1>1, <1>2, <1>4, <1>6, <1>8 DEF TypeOK
<1>10. LockInv'
  <2>1. epollMutex = r /\ "take" \in HoldsEpollMutex
    BY <1>1, <1>2 DEF LockInv, HoldsEpollMutex
  <2> QED BY <1>1, <1>2, <1>3, <2>1, ReceiverMoves DEF HoldsEpollMutex, Busy, Taken
<1>11. CountInv' /\ JoinInv'
  BY <1>1, <1>2, <1>4, CountFrame, JoinFrame
<1>12. JobInv' /\ RefInv' /\ FreshInv'
  BY <1>1, <1>2, <1>4, JobFrame, RefFrame, FreshFrame DEF Running, HasJob, Reads, Sends
<1>13. MapInv' /\ WriteInv'
  BY <1>1, <1>2, <1>4, MapFrame, WriteFrame DEF Running
<1>14. EpollInv'
  <2>1. edge' \cap Fds \subseteq reg' /\ Range(ready') \cap Fds \subseteq reg'
    BY <1>1, <1>2, <1>6, <1>8 DEF Running, EpollInv, Range
  <2>2. \A i, j \in 1..Len(ready') : ready'[i] = ready'[j] => i = j
    BY <1>6, <1>8
  <2> QED BY <1>1, <1>2, <1>4, <2>1, <2>2 DEF Running, EpollInv, Busy, Taken
<1> QED BY <1>9, <1>10, <1>11, <1>12, <1>13, <1>14, InvFromParts DEF Running

\* The list of ready events without its last entry.
LEMMA ReadyFront ==
  ASSUME TypeOK, ready # <<>>, ready' = SubSeq(ready, 1, Len(ready) - 1)
  PROVE  /\ ready' \in Seq(Events)
         /\ Len(ready') = Len(ready) - 1
         /\ Len(ready) \in Nat \ {0}
         /\ ready[Len(ready)] \in Events
         /\ \A i \in 1..(Len(ready) - 1) : ready'[i] = ready[i]
<1> DEFINE n == Len(ready) - 1
<1>1. ready \in Seq(Events) /\ Len(ready) \in Nat \ {0}
  BY EmptySeq DEF TypeOK
<1>2. n \in Nat /\ (\A i \in 1..n : ready[i] \in Events) /\ ready[Len(ready)] \in Events
  BY <1>1, ElementOfSeq
<1>3. /\ SubSeq(ready, 1, n) \in Seq(Events)
      /\ Len(SubSeq(ready, 1, n)) = IF 1 <= n THEN n - 1 + 1 ELSE 0
      /\ \A i \in 1..(n - 1 + 1) : SubSeq(ready, 1, n)[i] = ready[1 + i - 1]
  <2> HIDE DEF n
  <2> QED BY <1>2, SubSeqProperties
<1>4. ready' = SubSeq(ready, 1, n)
  OBVIOUS
<1>5. ready' \in Seq(Events) /\ Len(ready') = n /\ \A i \in 1..n : ready'[i] = ready[i]
  <2> HIDE DEF n
  <2> QED BY <1>2, <1>3, <1>4
<1> QED BY <1>1, <1>2, <1>5

LEMMA SvcTake ==
  ASSUME Inv, NEW r \in Receivers, svc_take(r)
  PROVE  Inv'
<1> DEFINE fd == ready[Len(ready)]
<1>1. TypeOK /\ CountInv /\ LockInv /\ JoinInv /\ Running
  BY ActiveParts DEF svc_take
<1>2. /\ pc[r] = "take" /\ ready # <<>> /\ ready' = SubSeq(ready, 1, Len(ready) - 1)
      /\ UNCHANGED <<fdt, backlog, peer, sent, unread, fdset, mapMutex, closing, nowConn,
                     stopTask, heap, hfd, ref, err, rbuf, hlock, wconn, queue, qalive,
                     midway, job, main, victim, joined>>
  BY DEF svc_take, handles, tasks, mainv
<1>3. /\ ready' \in Seq(Events)
      /\ Len(ready') = Len(ready) - 1
      /\ Len(ready) \in Nat \ {0}
      /\ fd \in Events
      /\ \A i \in 1..(Len(ready) - 1) : ready'[i] = ready[i]
  BY <1>1, <1>2, ReadyFront
<1>4. /\ \A i \in 1..Len(ready') : i \in 1..Len(ready) /\ ready'[i] = ready[i] /\ ready[i] # fd
      /\ Range(ready') = {ready'[i] : i \in 1..Len(ready')}
      /\ Range(ready) = {ready[i] : i \in 1..Len(ready)}
  <2>1. DOMAIN ready' = 1..Len(ready') /\ DOMAIN ready = 1..Len(ready)
    BY <1>1, <1>3, LenProperties DEF TypeOK
  <2> QED BY <1>1, <1>3, <2>1 DEF Running, EpollInv, Range
<1>5. epollMutex = r
  BY <1>1, <1>2 DEF LockInv, HoldsEpollMutex
<1>6. ASSUME fd \notin Fds,
             NEW label \in {"accept", "top"}, Goto(r, label),
             epollMutex' = IF label = "accept" THEN r ELSE None,
             UNCHANGED <<reg, edge, cur>>
      PROVE  Inv'
  <2>1. label \in ReceiverPC \ {"erase"} /\ (label \in HoldsEpollMutex <=> label = "accept")
        /\ label \notin Busy \cup Sends \cup {"insert"}
    BY DEF ReceiverPC, HoldsEpollMutex, Busy, Taken, Sends
  <2>2. /\ pc' \in [Threads -> ReceiverPC \cup LoaderPC]
        /\ pc'[r] = label
        /\ \A u \in Threads : u # r => pc'[u] = pc[u]
    BY <1>1, <1>6, <2>1, PcType
  <2>3. TypeOK'
    BY <1>1, <1>2, <1>3, <1>5, <1>6, <2>2 DEF TypeOK
  <2>4. LockInv'
    BY <1>1, <1>2, <1>5, <1>6, <2>1, ReceiverMoves DEF HoldsEpollMutex
  <2>5. CountInv' /\ JoinInv'
    BY <1>1, <1>2, <2>2, CountFrame, JoinFrame
  <2>6. JobInv' /\ RefInv' /\ FreshInv'
    BY <1>1, <1>2, <2>1, <2>2, JobFrame, RefFrame, FreshFrame
       DEF Running, HasJob, Reads, Sends, Busy, Taken
  <2>7. MapInv' /\ WriteInv'
    BY <1>1, <1>2, <1>6, <2>1, <2>2, MapFrame, WriteFrame DEF Running, Sends
  <2>8. EpollInv'
    BY <1>1, <1>2, <1>4, <1>6, <2>1, <2>2 DEF Running, EpollInv
  <2> QED BY <2>3, <2>4, <2>5, <2>6, <2>7, <2>8, InvFromParts DEF Running
<1>7. ASSUME fd \in Fds, del_input_fd(fd), Goto(r, "handle"), epollMutex' = None,
             cur' = [cur EXCEPT ![r] = fd]
      PROVE  Inv'
  <2>1. "handle" \in ReceiverPC /\ "handle" \notin HoldsEpollMutex \cup Sends \cup Reads
        /\ "handle" \in Busy
    BY DEF ReceiverPC, HoldsEpollMutex, Busy, Taken, Sends, Reads
  <2>2. /\ pc' \in [Threads -> ReceiverPC \cup LoaderPC]
        /\ pc'[r] = "handle"
        /\ \A u \in Threads : u # r => pc'[u] = pc[u]
    BY <1>1, <1>7, <2>1, PcType
  <2>3. /\ cur'[r] = fd
        /\ \A s \in Receivers \ {r} : cur'[s] = cur[s]
        /\ reg' = reg \ {fd} /\ edge' = edge \ {fd}
    BY <1>1, <1>7 DEF TypeOK, del_input_fd
  <2>4. TypeOK'
    BY <1>1, <1>2, <1>3, <1>7, <2>2, <2>3 DEF TypeOK
  <2>5. LockInv'
    BY <1>1, <1>2, <1>5, <1>7, <2>1, <2>3, ReceiverMoves DEF HoldsEpollMutex
  <2>6. CountInv' /\ JoinInv'
    BY <1>1, <1>2, <2>2, CountFrame, JoinFrame
  <2>7. JobInv' /\ RefInv' /\ FreshInv'
    BY <1>1, <1>2, <2>1, <2>2, JobFrame, RefFrame, FreshFrame DEF Running, HasJob
  <2>8. MapInv'
    BY <1>1, <1>2, <2>2, <2>3 DEF Running, MapInv, Held
  <2>9. WriteInv'
    BY <1>1, <1>2, <2>2, WriteFrame DEF Running
  <2>10. EpollInv'
    <3>1. fd \in reg
      BY <1>1, <1>3, <1>4, <1>7 DEF Running, EpollInv
    <3>2. edge' \cap Fds \subseteq reg' /\ Range(ready') \cap Fds \subseteq reg'
      BY <1>1, <1>4, <2>3 DEF Running, EpollInv
    <3>3. \A i, j \in 1..Len(ready') : ready'[i] = ready'[j] => i = j
      BY <1>1, <1>4 DEF Running, EpollInv
    <3> QED BY <1>1, <1>2, <2>1, <2>2, <2>3, <3>1, <3>2, <3>3 DEF Running, EpollInv
  <2> QED BY <2>4, <2>5, <2>6, <2>7, <2>8, <2>9, <2>10, InvFromParts DEF Running
<1> QED BY <1>3, <1>5, <1>6, <1>7, HttpServerAssumption DEF svc_take

-----------------------------------------------------------------------------
(* The accept loop. *)

LEMMA AcceptOne ==
  ASSUME Inv, NEW r \in Receivers, accept(r)
  PROVE  Inv'
<1>1. TypeOK /\ CountInv /\ LockInv /\ JoinInv /\ Running
  BY ActiveParts DEF accept
<1>2. /\ pc[r] = "accept" /\ Goto(r, "insert")
      /\ UNCHANGED <<reg, edge, peer, sent, unread, fdset, ready, epollMutex, mapMutex,
                     closing, stopTask, heap, hfd, ref, err, rbuf, hlock, wconn, queue,
                     qalive, midway, job, main, victim, joined>>
      /\ nowConn' = nowConn + 1
  BY DEF accept, handles, tasks, mainv
<1>3. PICK c \in backlog, f \in Fds :
          /\ fdt[f] = None
          /\ fdt' = [fdt EXCEPT ![f] = c]
          /\ backlog' = backlog \ {c}
          /\ cur' = [cur EXCEPT ![r] = f]
  BY DEF accept
<1>4. "insert" \in ReceiverPC /\ "insert" \in HoldsEpollMutex
      /\ "insert" \notin Busy \cup Sends \cup Reads
  BY DEF ReceiverPC, HoldsEpollMutex, Busy, Taken, Sends, Reads
<1>5. /\ pc' \in [Threads -> ReceiverPC \cup LoaderPC]
      /\ pc'[r] = "insert"
      /\ \A u \in Threads : u # r => pc'[u] = pc[u]
  BY <1>1, <1>2, <1>4, PcType
<1>6. /\ c \in Conns /\ c # None /\ heap[c] = "none"
      /\ cur'[r] = f /\ \A s \in Receivers \ {r} : cur'[s] = cur[s]
      /\ fdt'[f] = c /\ \A g \in Fds \ {f} : fdt'[g] = fdt[g]
  BY <1>1, <1>3, HttpServerAssumption DEF TypeOK, Running, FreshInv
<1>7. epollMutex = r /\ pc[r] \in HoldsEpollMutex
  BY <1>1, <1>2 DEF LockInv, HoldsEpollMutex
<1>8. TypeOK'
  <2>1. /\ fdt' \in [Fds -> Conns \cup {None}] /\ backlog' \subseteq Conns
        /\ cur' \in [Receivers -> Fds \cup {None}] /\ nowConn' \in Int
    BY <1>1, <1>2, <1>3, <1>6 DEF TypeOK
  <2> QED BY <1>1, <1>2, <1>5, <2>1 DEF TypeOK
<1>9. LockInv'
  BY <1>1, <1>2, <1>3, <1>4, <1>6, <1>7, ReceiverMoves
<1>10. CountInv' /\ JoinInv'
  BY <1>1, <1>2, <1>5, CountFrame, JoinFrame
<1>11. JobInv' /\ RefInv' /\ WriteInv'
  BY <1>1, <1>2, <1>4, <1>5, JobFrame, RefFrame, WriteFrame DEF Running, HasJob
<1>12. MapInv'
  <2>1. \A s \in Receivers : pc[s] # "insert" \/ s = r
    BY <1>1, <1>7 DEF LockInv, HoldsEpollMutex
  <2>2. fdset[f] = None \/ fdset[f] = closing
    BY <1>1, <1>3 DEF Running, MapInv
  <2>3. \A g \in Fds : fdset'[g] # None => fdt'[g] = fdset'[g] \/ closing' = fdset'[g]
    BY <1>1, <1>2, <1>6, <2>2 DEF Running, MapInv
  <2>4. \A g \in Fds : fdt'[g] # None =>
            \/ fdset'[g] = fdt'[g]
            \/ \E s \in Receivers : pc'[s] = "insert" /\ cur'[s] = g
    BY <1>1, <1>2, <1>5, <1>6, <2>1 DEF Running, MapInv
  <2>5. \A s \in Receivers : pc'[s] = "insert" =>
            /\ fdt'[cur'[s]] \in Conns
            /\ heap'[fdt'[cur'[s]]] = "none"
            /\ fdset'[cur'[s]] = None \/ fdset'[cur'[s]] = closing'
    BY <1>2, <1>5, <1>6, <2>1, <2>2
  <2>6. closing' # None => /\ heap'[closing'] = "live"
                           /\ fdt'[hfd'[closing']] # closing'
                           /\ Held(closing)' = {}
    BY <1>1, <1>2, <1>6 DEF TypeOK, Running, MapInv, Held
  <2> QED BY <1>1, <1>2, <2>3, <2>4, <2>5, <2>6 DEF Running, MapInv
<1>13. FreshInv'
  BY <1>1, <1>2, <1>3, <1>6 DEF TypeOK, Running, FreshInv
<1>14. EpollInv'
  <2>1. f \notin reg /\ \A s \in Receivers : pc[s] \in Busy => cur[s] # f
    BY <1>1, <1>3 DEF Running, EpollInv
  <2>2. reg \subseteq Fds /\ \A s \in Receivers : pc[s] \in Busy => cur[s] \in Fds
    BY <1>1 DEF TypeOK, LockInv
  <2>3. EpollInv
    BY <1>1 DEF Running
  <2>4. /\ edge' \cap Fds \subseteq reg' /\ Range(ready') \cap Fds \subseteq reg'
        /\ \A i, j \in 1..Len(ready') : ready'[i] = ready'[j] => i = j
    BY <1>2, <2>3 DEF EpollInv
  <2>5. \A g \in reg' : fdset'[g] # None /\ fdt'[g] = fdset'[g] /\ fdset'[g] \notin err'
    BY <1>2, <1>6, <2>1, <2>2, <2>3 DEF EpollInv
  <2>6. \A s \in Receivers : pc'[s] \in Busy =>
            /\ s # r /\ pc[s] \in Busy /\ pc'[s] = pc[s] /\ cur'[s] = cur[s]
            /\ cur[s] \in Fds /\ fdt'[cur[s]] = fdt[cur[s]]
    BY <1>4, <1>5, <1>6, <2>1, <2>2
  <2> QED BY <1>2, <2>3, <2>4, <2>5, <2>6 DEF EpollInv
<1> QED BY <1>8, <1>9, <1>10, <1>11, <1>12, <1>13, <1>14, InvFromParts DEF Running

LEMMA CreateHandle ==
  ASSUME Inv, NEW r \in Receivers, create_handle(r)
  PROVE  Inv'
<1> DEFINE f == cur[r]
           c == fdt[f]
<1>1. TypeOK /\ CountInv /\ LockInv /\ JoinInv /\ Running
  BY ActiveParts DEF create_handle
<1>2. /\ pc[r] = "insert" /\ Goto(r, "register") /\ mapMutex = None
      /\ heap' = [heap EXCEPT ![c] = "live"]
      /\ hfd' = [hfd EXCEPT ![c] = f]
      /\ fdset' = IF fdset[f] = None THEN [fdset EXCEPT ![f] = c] ELSE fdset
      /\ UNCHANGED <<fdt, reg, edge, backlog, peer, sent, unread, ready, epollMutex, mapMutex,
                     closing, nowConn, stopTask, ref, err, rbuf, hlock, wconn, queue, qalive,
                     midway, cur, job, main, victim, joined>>
  BY DEF create_handle, MapMutexFree, kernel, tasks, mainv
<1>3. "register" \in ReceiverPC /\ "register" \in HoldsEpollMutex /\ "register" \in Busy
      /\ "register" \notin Sends \cup Reads
  BY DEF ReceiverPC, HoldsEpollMutex, Busy, Taken, Sends, Reads
<1>4. /\ pc' \in [Threads -> ReceiverPC \cup LoaderPC]
      /\ pc'[r] = "register"
      /\ \A u \in Threads : u # r => pc'[u] = pc[u]
  BY <1>1, <1>2, <1>3, PcType
<1>5. /\ f \in Fds /\ c \in Conns /\ heap[c] = "none" /\ c # None
      /\ closing = None /\ fdset[f] = None
  BY <1>1, <1>2, HttpServerAssumption DEF LockInv, Running, MapInv, Busy
<1>6. /\ heap'[c] = "live" /\ hfd'[c] = f /\ fdset'[f] = c
      /\ \A d \in Conns \ {c} : heap'[d] = heap[d] /\ hfd'[d] = hfd[d]
      /\ \A g \in Fds \ {f} : fdset'[g] = fdset[g]
  BY <1>1, <1>2, <1>5 DEF TypeOK
<1>7. epollMutex = r /\ pc[r] \in HoldsEpollMutex
  BY <1>1, <1>2 DEF LockInv, HoldsEpollMutex
<1>8. \A s \in Receivers : pc[s] # "insert" \/ s = r
  BY <1>1, <1>7 DEF LockInv, HoldsEpollMutex
<1>9. TypeOK'
  BY <1>1, <1>2, <1>4, <1>5 DEF TypeOK
<1>10. LockInv'
  BY <1>1, <1>2, <1>3, <1>5, <1>7, ReceiverMoves
<1>11. CountInv' /\ JoinInv'
  BY <1>1, <1>2, <1>4, CountFrame, JoinFrame
<1>12. JobInv' /\ RefInv' /\ WriteInv'
  BY <1>1, <1>2, <1>3, <1>4, JobFrame, RefFrame, WriteFrame DEF Running, HasJob
<1>13. MapInv'
  <2> HIDE DEF c, f
  <2>0. MapInv /\ None \notin Conns /\ \A g \in Fds : fdset[g] \in Conns \cup {None}
    BY <1>1, HttpServerAssumption DEF TypeOK, Running
  <2>1. \A g \in Fds : fdset'[g] # None => heap'[fdset'[g]] = "live" /\ hfd'[fdset'[g]] = g
    BY <1>5, <1>6, <2>0 DEF MapInv
  <2>2. \A d \in Conns : heap'[d] = "live" => hfd'[d] \in Fds /\ fdset'[hfd'[d]] = d
    BY <1>5, <1>6, <2>0 DEF MapInv
  <2>3. \A g \in Fds : fdset'[g] # None => fdt'[g] = fdset'[g] \/ closing' = fdset'[g]
    BY <1>1, <1>2, <1>5, <1>6 DEF Running, MapInv, c
  <2>4. \A g \in Fds : fdt'[g] # None => fdset'[g] = fdt'[g]
    BY <1>1, <1>2, <1>5, <1>6, <1>8 DEF Running, MapInv, c, f
  <2>5. \A s \in Receivers : pc'[s] # "insert"
    BY <1>4, <1>8
  <2>6. closing' = None
    BY <1>2, <1>5
  <2>7. \A w \in Workers : wconn'[w] # None => heap'[wconn'[w]] = "live"
    BY <1>1, <1>2, <1>5, <1>6 DEF TypeOK, Running, MapInv
  <2> QED BY <2>1, <2>2, <2>3, <2>4, <2>5, <2>6, <2>7 DEF MapInv
<1>14. FreshInv'
  BY <1>1, <1>2, <1>5, <1>6 DEF TypeOK, Running, FreshInv
<1>15. EpollInv'
  <2>1. EpollInv /\ reg \subseteq Fds
    BY <1>1 DEF Running, TypeOK
  <2>2. /\ f \notin reg
        /\ \A s \in Receivers : pc[s] \in Busy => cur[s] # f /\ cur[s] \in Fds
        /\ c \notin err
    BY <1>1, <1>5, <2>1 DEF LockInv, Running, FreshInv, EpollInv
  <2>3. /\ edge' \cap Fds \subseteq reg' /\ Range(ready') \cap Fds \subseteq reg'
        /\ \A i, j \in 1..Len(ready') : ready'[i] = ready'[j] => i = j
    BY <1>2, <2>1 DEF EpollInv
  <2> HIDE DEF c
  <2>4. \A g \in reg' : fdset'[g] # None /\ fdt'[g] = fdset'[g] /\ fdset'[g] \notin err'
    BY <1>2, <1>6, <2>1, <2>2 DEF EpollInv
  <2>5. ASSUME NEW s \in Receivers, pc'[s] \in Busy
        PROVE  /\ cur'[s] \notin reg'
               /\ fdset'[cur'[s]] # None
               /\ fdt'[cur'[s]] = fdset'[cur'[s]]
               /\ pc'[s] # "release" => fdset'[cur'[s]] \notin err'
               /\ pc'[s] \in Reads => wconn'[job'[s]] = fdset'[cur'[s]]
    <3>1. CASE s = r
      BY <1>2, <1>3, <1>4, <1>5, <1>6, <2>2, <3>1 DEF c
    <3>2. CASE s # r
      BY <1>2, <1>4, <1>6, <2>1, <2>2, <2>5, <3>2 DEF EpollInv
    <3> QED BY <3>1, <3>2
  <2>6. \A s, u \in Receivers :
            pc'[s] \in Busy /\ pc'[u] \in Busy /\ cur'[s] = cur'[u] => s = u
    BY <1>2, <1>4, <2>1, <2>2 DEF EpollInv
  <2> QED BY <2>3, <2>4, <2>5, <2>6 DEF EpollInv
<1> QED BY <1>9, <1>10, <1>11, <1>12, <1>13, <1>14, <1>15, InvFromParts DEF Running

\* add_input_fd hands a descriptor from its receiver to epoll.
LEMMA AddInput ==
  ASSUME Inv, NEW r \in Receivers, pc[r] \in {"register", "add"}, add_input_fd(cur[r]),
         NEW label \in {"accept", "top"}, Goto(r, label),
         label = "accept" <=> pc[r] = "register",
         UNCHANGED <<fdt, backlog, peer, sent, unread, server, handles, tasks, midway, cur,
                     job, mainv>>
  PROVE  Inv'
<1> DEFINE f == cur[r]
<1>1. TypeOK /\ CountInv /\ LockInv /\ JoinInv /\ Running
  BY ActiveParts
<1>2. UNCHANGED <<fdt, backlog, peer, sent, unread, fdset, ready, epollMutex, mapMutex,
                  closing, nowConn, stopTask, heap, hfd, ref, err, rbuf, hlock, wconn, queue,
                  qalive, midway, cur, job, main, victim, joined>>
  BY DEF server, handles, tasks, mainv
<1>3. label \in ReceiverPC \ {"erase"} /\ (label \in HoldsEpollMutex <=> label = "accept")
      /\ label \notin Busy \cup Sends \cup Reads \cup {"insert"}
      /\ pc[r] \in Busy /\ (pc[r] \in HoldsEpollMutex <=> pc[r] = "register")
      /\ pc[r] \notin Reads
  BY DEF ReceiverPC, HoldsEpollMutex, Busy, Taken, Sends, Reads
<1>4. /\ pc' \in [Threads -> ReceiverPC \cup LoaderPC]
      /\ pc'[r] = label
      /\ \A u \in Threads : u # r => pc'[u] = pc[u]
  BY <1>1, <1>3, PcType
<1>5. /\ EpollInv /\ reg \subseteq Fds /\ f \in Fds
      /\ f \notin reg /\ fdset[f] # None /\ fdt[f] = fdset[f] /\ fdset[f] \notin err
  BY <1>1, <1>3 DEF TypeOK, LockInv, Running, EpollInv
<1>6. reg' = reg \cup {f} /\ edge \subseteq edge' /\ edge' \subseteq edge \cup {f}
  BY <1>5 DEF add_input_fd
<1>7. TypeOK'
  BY <1>1, <1>2, <1>4, <1>5, <1>6 DEF TypeOK
<1>8. LockInv'
  <2>1. epollMutex' = IF label \in HoldsEpollMutex THEN r
                      ELSE IF pc[r] \in HoldsEpollMutex THEN None ELSE epollMutex
    BY <1>1, <1>2, <1>3 DEF LockInv
  <2> QED BY <1>1, <1>2, <1>3, <2>1, ReceiverMoves
<1>9. CountInv' /\ JoinInv'
  BY <1>1, <1>2, <1>4, CountFrame, JoinFrame
<1>10. JobInv' /\ RefInv' /\ WriteInv' /\ FreshInv'
  BY <1>1, <1>2, <1>3, <1>4, JobFrame, RefFrame, WriteFrame, FreshFrame DEF Running, HasJob
<1>11. MapInv'
  BY <1>1, <1>2, <1>3, <1>4, MapFrame DEF Running
<1>12. EpollInv'
  <2>1. /\ edge' \cap Fds \subseteq reg' /\ Range(ready') \cap Fds \subseteq reg'
        /\ \A i, j \in 1..Len(ready') : ready'[i] = ready'[j] => i = j
    BY <1>2, <1>5, <1>6 DEF EpollInv
  <2>2. \A g \in reg' : fdset'[g] # None /\ fdt'[g] = fdset'[g] /\ fdset'[g] \notin err'
    BY <1>2, <1>5, <1>6 DEF EpollInv
  <2>3. \A s \in Receivers : pc'[s] \in Busy =>
            s # r /\ pc'[s] = pc[s] /\ cur[s] # f
    BY <1>3, <1>4, <1>5 DEF EpollInv
  <2> QED BY <1>2, <1>5, <1>6, <2>1, <2>2, <2>3 DEF EpollInv
<1> QED BY <1>7, <1>8, <1>9, <1>10, <1>11, <1>12, InvFromParts DEF Running

LEMMA AcceptRegister ==
  ASSUME Inv, NEW r \in Receivers, accept_register(r)
  PROVE  Inv'
  BY AddInput DEF accept_register

LEMMA RecvAdd ==
  ASSUME Inv, NEW r \in Receivers, recv_add(r)
  PROVE  Inv'
  BY AddInput DEF recv_add

-----------------------------------------------------------------------------
(* Http_Server::recv_request. *)

LEMMA GetHandle ==
  ASSUME Inv, NEW r \in Receivers, get_handle(r)
  PROVE  Inv'
<1> DEFINE c == fdset[cur[r]]
<1>1. TypeOK /\ CountInv /\ LockInv /\ JoinInv /\ Running
  BY ActiveParts DEF get_handle
<1>2. /\ pc[r] = "handle" /\ Goto(r, "read") /\ mapMutex = None /\ c # None
      /\ ref' = [ref EXCEPT ![c] = @ + 1]
      /\ UNCHANGED <<fdt, reg, edge, backlog, peer, sent, unread, fdset, ready, epollMutex,
                     mapMutex, closing, nowConn, stopTask, heap, hfd, err, rbuf, hlock, queue,
                     qalive, midway, cur, main, victim, joined>>
  BY DEF get_handle, MapMutexFree, kernel, server, mainv
<1>3. PICK w \in Workers : /\ wconn[w] = None
                           /\ wconn' = [wconn EXCEPT ![w] = c]
                           /\ job' = [job EXCEPT ![r] = w]
  BY DEF get_handle
<1>4. "read" \in ReceiverPC /\ "read" \notin HoldsEpollMutex \cup {"release", "insert", "head", "body"}
      /\ "read" \in Busy /\ "read" \in Reads /\ pc[r] \in Busy
      /\ pc[r] \notin HoldsEpollMutex \cup Reads \cup Sends
  BY <1>2 DEF ReceiverPC, HoldsEpollMutex, Busy, Taken, Reads, Sends
<1>5. /\ pc' \in [Threads -> ReceiverPC \cup LoaderPC]
      /\ pc'[r] = "read"
      /\ \A u \in Threads : u # r => pc'[u] = pc[u]
  BY <1>1, <1>2, <1>4, PcType
<1>6. cur[r] \in Fds /\ c \in Conns /\ heap[c] = "live" /\ closing = None
  BY <1>1, <1>2, <1>4 DEF TypeOK, LockInv, Running, MapInv
<1>7. /\ job'[r] = w /\ \A u \in Threads : u # r => job'[u] = job[u]
      /\ wconn'[w] = c /\ \A v \in Workers : v # w => wconn'[v] = wconn[v]
      /\ ref'[c] = ref[c] + 1 /\ \A d \in Conns : d # c => ref'[d] = ref[d]
  BY <1>1, <1>2, <1>3, <1>6 DEF TypeOK
<1>8. /\ \A u \in Threads : HasJob(u) => job[u] \in Workers /\ job[u] # w
      /\ \A i \in 1..Len(queue) : queue[i] \in Workers /\ queue[i] # w
      /\ \A u \in Threads : HasJob(u)' <=> HasJob(u) \/ u = r
  <2>1. \A i \in 1..Len(queue) : queue[i] \in Workers
    BY <1>1, ElementOfSeq DEF TypeOK
  <2>2. \A u \in Threads : HasJob(u)' <=> HasJob(u) \/ u = r
    BY <1>4, <1>5 DEF HasJob
  <2> QED BY <1>1, <1>3, <2>1, <2>2 DEF Running, JobInv
<1>9. TypeOK'
  <2>1. /\ ref' \in [Conns -> Int] /\ wconn' \in [Workers -> Conns \cup {None}]
        /\ job' \in [Threads -> Workers \cup {None}]
    BY <1>1, <1>2, <1>3, <1>6 DEF TypeOK
  <2> QED BY <1>1, <1>2, <1>5, <2>1 DEF TypeOK
<1>10. LockInv'
  BY <1>1, <1>2, <1>4, <1>6, ReceiverMoves
<1>11. CountInv' /\ JoinInv' /\ FreshInv'
  BY <1>1, <1>2, <1>5, CountFrame, JoinFrame, FreshFrame DEF Running
<1>12. JobInv'
  <2> HIDE DEF c
  <2>1. \A t \in Threads : HasJob(t)' => job'[t] \in Workers /\ wconn'[job'[t]] # None
    BY <1>1, <1>2, <1>7, <1>8 DEF Running, JobInv
  <2>2. \A t, u \in Threads : HasJob(t)' /\ HasJob(u)' /\ job'[t] = job'[u] => t = u
    BY <1>1, <1>7, <1>8 DEF Running, JobInv
  <2>3. \A i \in 1..Len(queue) : wconn'[queue[i]] # None
    BY <1>1, <1>7, <1>8 DEF Running, JobInv
  <2>4. \A t \in Threads : HasJob(t)' => \A i \in 1..Len(queue) : queue[i] # job'[t]
    BY <1>1, <1>7, <1>8 DEF Running, JobInv
  <2> QED BY <1>1, <1>2, <2>1, <2>2, <2>3, <2>4 DEF Running, JobInv
<1>13. RefInv'
  <2> HIDE DEF c
  <2>1. ASSUME NEW d \in Conns PROVE Cardinality(Held(d)') <= ref'[d]
    <3>1. IsFiniteSet(Held(d)) /\ Cardinality(Held(d)) \in Nat
          /\ ref[d] \in Int /\ Cardinality(Held(d)) <= ref[d]
      BY <1>1, HttpServerAssumption, FS_Subset, FS_CardinalityType
         DEF TypeOK, Running, RefInv, Held
    <3>2. CASE d = c
      <4>1. Held(d)' = Held(d) \cup {w} /\ w \notin Held(d)
        BY <1>3, <1>6, <1>7, <3>2, HttpServerAssumption DEF Held
      <4>2. Cardinality(Held(d)') = Cardinality(Held(d)) + 1
        BY <3>1, <4>1, FS_AddElement
      <4> QED BY <1>7, <3>1, <3>2, <4>2
    <3>3. CASE d # c
      <4>1. Held(d)' = Held(d)
        BY <1>3, <1>7, <3>3, HttpServerAssumption DEF Held
      <4> QED BY <1>7, <3>1, <3>3, <4>1
    <3> QED BY <3>2, <3>3
  <2> QED BY <2>1 DEF RefInv
<1>14. MapInv'
  <2> HIDE DEF c
  <2>1. \A v \in Workers : wconn'[v] # None => heap'[wconn'[v]] = "live"
    BY <1>1, <1>2, <1>6, <1>7 DEF Running, MapInv
  <2>2. \A s \in Receivers : pc[s] = "insert" <=> pc'[s] = "insert"
    BY <1>2, <1>5
  <2> QED BY <1>1, <1>2, <1>6, <2>1, <2>2 DEF Running, MapInv
<1>15. EpollInv'
  <2>1. EpollInv
    BY <1>1 DEF Running
  <2>2. \A s \in Receivers : pc'[s] \in Busy =>
            /\ pc[s] \in Busy
            /\ pc[s] = "release" => pc'[s] = "release"
            /\ pc'[s] \in Reads => wconn'[job'[s]] = fdset[cur[s]]
    <3>1. \A s \in Receivers : pc[s] \in Reads => HasJob(s)
      BY DEF HasJob
    <3> HIDE DEF c
    <3>2. \A s \in Receivers : s # r /\ pc[s] \in Busy /\ pc[s] \in Reads =>
              wconn'[job'[s]] = fdset[cur[s]]
      BY <1>7, <1>8, <2>1, <3>1 DEF EpollInv
    <3>3. wconn'[job'[r]] = fdset[cur[r]]
      BY <1>7 DEF c
    <3> QED BY <1>2, <1>4, <1>5, <3>2, <3>3
  <2> QED BY <1>2, <2>1, <2>2 DEF EpollInv
<1>16. WriteInv'
  <2>1. \A l \in Loaders : pc'[l] \in {"head", "body"} =>
            /\ pc'[l] = pc[l] /\ job'[l] = job[l] /\ wconn'[job'[l]] = wconn[job[l]]
    <3>1. \A l \in Loaders : l # r /\ (pc[l] \in {"head", "body"} => HasJob(l))
      BY HttpServerAssumption DEF HasJob, Sends
    <3> HIDE DEF c
    <3> QED BY <1>5, <1>7, <1>8, <3>1
  <2> QED BY <1>1, <1>2, <2>1 DEF Running, WriteInv
<1> QED BY <1>9, <1>10, <1>11, <1>12, <1>13, <1>14, <1>15, <1>16, InvFromParts DEF Running

LEMMA TakeRequestCounts ==
  ASSUME TypeOK, CountInv, NEW c \in Conns, TakeRequest(c), UNCHANGED sent
  PROVE  /\ rbuf' \in [Conns -> 0..MaxSend]
         /\ unread' \in [Conns -> 0..MaxSend]
         /\ CountInv'
<1>1. /\ rbuf \in [Conns -> 0..MaxSend] /\ unread \in [Conns -> 0..MaxSend]
      /\ sent \in [Conns -> 0..MaxSend] /\ MaxSend \in Nat
      /\ rbuf[c] + unread[c] <= sent[c]
  BY HttpServerAssumption DEF TypeOK, CountInv
<1>2. PICK x \in 0..MaxSend, y \in 0..MaxSend :
          /\ rbuf' = [rbuf EXCEPT ![c] = x]
          /\ unread' = [unread EXCEPT ![c] = y]
          /\ x + y <= sent[c]
  <2>1. CASE rbuf[c] > 0
    <3>1. rbuf' = [rbuf EXCEPT ![c] = rbuf[c] - 1] /\ unread' = [unread EXCEPT ![c] = unread[c]]
      BY <1>1, <2>1 DEF TakeRequest
    <3>2. rbuf[c] - 1 \in 0..MaxSend /\ unread[c] \in 0..MaxSend
          /\ rbuf[c] - 1 + unread[c] <= sent[c]
      BY <1>1, <2>1
    <3> QED BY <3>1, <3>2
  <2>2. CASE ~(rbuf[c] > 0)
    <3>1. PICK k \in 1..unread[c] : /\ unread' = [unread EXCEPT ![c] = unread[c] - k]
                                    /\ rbuf' = [rbuf EXCEPT ![c] = k - 1]
      BY <1>1, <2>2 DEF TakeRequest
    <3>2. k - 1 \in 0..MaxSend /\ unread[c] - k \in 0..MaxSend
          /\ k - 1 + (unread[c] - k) <= sent[c]
      BY <1>1
    <3> QED BY <3>1, <3>2
  <2> QED BY <2>1, <2>2
<1>3. CountInv'
  BY <1>1, <1>2 DEF CountInv
<1> QED BY <1>1, <1>2, <1>3

\* A receiver goes on with its worker after a read.
LEMMA ReadStep ==
  ASSUME Inv, NEW r \in Receivers, pc[r] = "read", NEW label \in {"submit", "error"},
         Goto(r, label),
         rbuf' \in [Conns -> 0..MaxSend], unread' \in [Conns -> 0..MaxSend], CountInv',
         UNCHANGED <<fdt, reg, edge, backlog, peer, sent, server, heap, hfd, ref, err, hlock,
                     tasks, midway, cur, job, mainv>>
  PROVE  Inv'
<1>1. TypeOK /\ CountInv /\ LockInv /\ JoinInv /\ Running
  BY ActiveParts
<1>2. UNCHANGED <<fdt, reg, edge, backlog, peer, sent, fdset, ready, epollMutex, mapMutex,
                  closing, nowConn, stopTask, heap, hfd, ref, err, hlock, wconn, queue,
                  qalive, midway, cur, job, main, victim, joined>>
  BY DEF server, tasks, mainv
<1>3. /\ label \in ReceiverPC \ {"erase"} /\ label \in Busy /\ label \in Reads
      /\ label \notin HoldsEpollMutex \cup {"release", "insert", "head", "body"}
      /\ pc[r] \in Busy /\ pc[r] \in Reads /\ pc[r] \notin HoldsEpollMutex
  BY DEF ReceiverPC, HoldsEpollMutex, Busy, Taken, Reads
<1>4. /\ pc' \in [Threads -> ReceiverPC \cup LoaderPC]
      /\ pc'[r] = label
      /\ \A u \in Threads : u # r => pc'[u] = pc[u]
  BY <1>1, <1>3, PcType
<1>5. TypeOK'
  BY <1>1, <1>2, <1>4 DEF TypeOK
<1>6. LockInv'
  <2>1. cur[r] \in Fds
    BY <1>1, <1>3 DEF LockInv
  <2> QED BY <1>1, <1>2, <1>3, <2>1, ReceiverMoves
<1>7. JoinInv' /\ RefInv' /\ FreshInv'
  BY <1>1, <1>2, <1>4, JoinFrame, RefFrame, FreshFrame DEF Running
<1>8. JobInv'
  <2>1. \A u \in Threads : HasJob(u)' => HasJob(u)
    BY <1>3, <1>4 DEF HasJob
  <2> QED BY <1>1, <1>2, <2>1, JobFrame DEF Running
<1>9. MapInv' /\ WriteInv'
  BY <1>1, <1>2, <1>3, <1>4, MapFrame, WriteFrame DEF Running
<1>10. EpollInv'
  BY <1>1, <1>2, <1>3, <1>4, EpollFrame DEF Running
<1> QED BY <1>5, <1>6, <1>7, <1>8, <1>9, <1>10, InvFromParts DEF Running

LEMMA RecvComplete ==
  ASSUME Inv, NEW r \in Receivers, recv_complete(r)
  PROVE  Inv'
<1>1. TypeOK /\ CountInv
  BY DEF Inv
<1>2. wconn[job[r]] \in Conns
  BY JobFacts DEF recv_complete, HasJob, Reads
<1>3. rbuf' \in [Conns -> 0..MaxSend] /\ unread' \in [Conns -> 0..MaxSend] /\ CountInv'
  BY <1>1, <1>2, TakeRequestCounts DEF recv_complete
<1> QED BY <1>3, ReadStep DEF recv_complete

LEMMA RecvFails ==
  ASSUME Inv, NEW r \in Receivers, recv_fails(r)
  PROVE  Inv'
<1>1. TypeOK /\ CountInv
  BY DEF Inv
<1>2. UNCHANGED <<rbuf, unread, sent>>
  BY DEF recv_fails, kernel, handles
<1>3. rbuf' \in [Conns -> 0..MaxSend] /\ unread' \in [Conns -> 0..MaxSend] /\ CountInv'
  BY <1>1, <1>2, CountFrame DEF TypeOK
<1> QED BY <1>3, ReadStep DEF recv_fails, kernel, handles

\* A thread deletes its worker.
LEMMA WorkerDeleted ==
  ASSUME Inv, NEW t \in Threads, HasJob(t),
         wconn' = [wconn EXCEPT ![job[t]] = None], job' = [job EXCEPT ![t] = None],
         UNCHANGED queue,
         \A u \in Threads : HasJob(u)' <=> HasJob(u) /\ u # t
  PROVE  /\ wconn' \in [Workers -> Conns \cup {None}]
         /\ job' \in [Threads -> Workers \cup {None}]
         /\ JobInv'
         /\ \A u \in Threads : HasJob(u)' => job'[u] = job[u] /\ wconn'[job[u]] = wconn[job[u]]
         /\ \A w \in Workers : wconn'[w] # None => wconn'[w] = wconn[w]
         /\ \A c \in Conns : Held(c)' = Held(c) \ {job[t]}
<1> DEFINE v == job[t]
<1>1. TypeOK /\ JobInv
  BY ActiveParts DEF HasJob, Reads, Sends, Running
<1>2. v \in Workers
  BY JobFacts
<1>3. /\ wconn \in [Workers -> Conns \cup {None}] /\ job \in [Threads -> Workers \cup {None}]
      /\ None \notin Conns /\ \A i \in 1..Len(queue) : queue[i] \in Workers
  BY <1>1, HttpServerAssumption, ElementOfSeq DEF TypeOK
<1> HIDE DEF v
<1>4. /\ wconn'[v] = None /\ \A w \in Workers : w # v => wconn'[w] = wconn[w]
      /\ \A u \in Threads : u # t => job'[u] = job[u]
      /\ \A u \in Threads : HasJob(u) => job[u] \in Workers
      /\ \A u \in Threads : HasJob(u) /\ u # t => job[u] # v
      /\ \A i \in 1..Len(queue) : queue[i] # v
  BY <1>1, <1>2, <1>3 DEF JobInv, v
<1>5. JobInv'
  <2>1. \A u \in Threads : HasJob(u)' => job'[u] \in Workers /\ wconn'[job'[u]] # None
    BY <1>1, <1>4 DEF JobInv
  <2>2. \A i \in 1..Len(queue) : wconn'[queue[i]] # None
    BY <1>1, <1>3, <1>4 DEF JobInv
  <2>3. \A u, x \in Threads : HasJob(u)' /\ HasJob(x)' /\ job'[u] = job'[x] => u = x
    BY <1>1, <1>4 DEF JobInv
  <2>4. \A u \in Threads : HasJob(u)' => \A i \in 1..Len(queue) : queue[i] # job'[u]
    BY <1>1, <1>4 DEF JobInv
  <2> QED BY <1>1, <2>1, <2>2, <2>3, <2>4 DEF JobInv
<1>6. \A c \in Conns : Held(c)' = Held(c) \ {v}
  BY <1>3, <1>4 DEF Held
<1>7. wconn' \in [Workers -> Conns \cup {None}] /\ job' \in [Threads -> Workers \cup {None}]
  BY <1>3
<1> QED BY <1>2, <1>4, <1>5, <1>6, <1>7 DEF v

LEMMA HeldFinite ==
  ASSUME NEW c PROVE IsFiniteSet(Held(c)) /\ Cardinality(Held(c)) \in Nat
  BY HttpServerAssumption, FS_Subset, FS_CardinalityType DEF Held

LEMMA RecvInvalid ==
  ASSUME Inv, NEW r \in Receivers, recv_invalid(r)
  PROVE  Inv'
<1>1. TypeOK /\ CountInv /\ LockInv /\ JoinInv /\ Running
  BY ActiveParts DEF recv_invalid
<1>2. /\ pc[r] = "read" /\ Goto(r, "add") /\ TakeRequest(wconn[job[r]])
      /\ wconn' = [wconn EXCEPT ![job[r]] = None]
      /\ job' = [job EXCEPT ![r] = None]
      /\ UNCHANGED <<fdt, reg, edge, backlog, peer, sent, fdset, ready, epollMutex, mapMutex,
                     closing, nowConn, stopTask, heap, hfd, ref, err, hlock, queue, qalive,
                     midway, cur, main, victim, joined>>
  BY DEF recv_invalid, server, mainv
<1>3. /\ "add" \in ReceiverPC /\ "add" \in Busy
      /\ "add" \notin HoldsEpollMutex \cup Reads \cup Sends \cup {"insert", "head", "body"}
      /\ pc[r] \in Busy /\ pc[r] \in Reads /\ pc[r] \notin HoldsEpollMutex
  BY <1>2 DEF ReceiverPC, HoldsEpollMutex, Busy, Taken, Reads, Sends
<1>4. /\ pc' \in [Threads -> ReceiverPC \cup LoaderPC]
      /\ pc'[r] = "add"
      /\ \A u \in Threads : u # r => pc'[u] = pc[u]
  BY <1>1, <1>2, <1>3, PcType
<1>5. HasJob(r) /\ \A u \in Threads : HasJob(u)' <=> HasJob(u) /\ u # r
  BY <1>2, <1>3, <1>4 DEF HasJob
<1>6. wconn[job[r]] \in Conns
  BY <1>5, JobFacts
<1>7. rbuf' \in [Conns -> 0..MaxSend] /\ unread' \in [Conns -> 0..MaxSend] /\ CountInv'
  BY <1>1, <1>2, <1>6, TakeRequestCounts
<1>8. /\ wconn' \in [Workers -> Conns \cup {None}]
      /\ job' \in [Threads -> Workers \cup {None}]
      /\ JobInv'
      /\ \A u \in Threads : HasJob(u)' => job'[u] = job[u] /\ wconn'[job[u]] = wconn[job[u]]
      /\ \A w \in Workers : wconn'[w] # None => wconn'[w] = wconn[w]
      /\ \A c \in Conns : Held(c)' = Held(c) \ {job[r]}
  BY <1>2, <1>5, WorkerDeleted
<1>9. TypeOK'
  BY <1>1, <1>2, <1>4, <1>7, <1>8 DEF TypeOK
<1>10. LockInv'
  <2>1. cur[r] \in Fds
    BY <1>1, <1>3 DEF LockInv
  <2> QED BY <1>1, <1>2, <1>3, <2>1, ReceiverMoves
<1>11. JoinInv' /\ FreshInv'
  BY <1>1, <1>2, <1>4, JoinFrame, FreshFrame DEF Running
<1>12. RefInv'
  <2>1. ASSUME NEW c \in Conns PROVE Cardinality(Held(c)') <= ref'[c]
    <3>1. Cardinality(Held(c)') <= Cardinality(Held(c)) /\ Cardinality(Held(c)') \in Nat
      BY <1>8, HeldFinite, FS_Subset, FS_CardinalityType
    <3> QED BY <1>1, <1>2, <3>1, HeldFinite DEF TypeOK, Running, RefInv
  <2> QED BY <2>1 DEF RefInv
<1>13. MapInv'
  <2>1. \A s \in Receivers : pc[s] = "insert" <=> pc'[s] = "insert"
    BY <1>2, <1>4
  <2>2. closing \in Conns => Held(closing)' = Held(closing) \ {job[r]}
    BY <1>2, <1>8
  <2> QED BY <1>1, <1>2, <1>8, <2>1, <2>2 DEF TypeOK, Running, MapInv
<1>14. EpollInv'
  <2>1. EpollInv
    BY <1>1 DEF Running
  <2>2. \A s \in Receivers : pc'[s] \in Busy =>
            /\ pc[s] \in Busy
            /\ pc[s] = "release" => pc'[s] = "release"
            /\ pc'[s] \in Reads => wconn'[job'[s]] = fdset[cur[s]]
    <3>1. \A s \in Receivers : s # r /\ pc[s] \in Reads => HasJob(s) /\ HasJob(s)'
      BY <1>4, <1>5 DEF HasJob
    <3>2. \A s \in Receivers : s # r /\ pc[s] \in Busy /\ pc[s] \in Reads =>
              wconn'[job'[s]] = fdset[cur[s]]
      BY <1>8, <2>1, <3>1 DEF EpollInv
    <3> QED BY <1>2, <1>3, <1>4, <3>2
  <2> QED BY <1>2, <2>1, <2>2 DEF EpollInv
<1>15. WriteInv'
  <2>1. \A l \in Loaders : pc'[l] \in {"head", "body"} =>
            /\ pc'[l] = pc[l] /\ job'[l] = job[l] /\ wconn'[job'[l]] = wconn[job[l]]
    <3>1. \A l \in Loaders : l # r /\ (pc[l] \in {"head", "body"} => HasJob(l))
      BY HttpServerAssumption DEF HasJob, Sends
    <3> QED BY <1>4, <1>5, <1>8, <3>1
  <2> QED BY <1>1, <1>2, <2>1 DEF Running, WriteInv
<1> QED BY <1>7, <1>8, <1>9, <1>10, <1>11, <1>12, <1>13, <1>14, <1>15, InvFromParts DEF Running

LEMMA QueueCons ==
  ASSUME NEW q \in Seq(Workers), NEW w \in Workers, NEW p, p = <<w>> \o q
  PROVE  /\ p \in Seq(Workers)
         /\ Len(q) \in Nat
         /\ Len(p) = Len(q) + 1
         /\ p[1] = w
         /\ \A i \in 2..Len(p) : i - 1 \in 1..Len(q) /\ p[i] = q[i - 1]
<1>1. <<w>> \in Seq(Workers) /\ Len(<<w>>) = 1 /\ <<w>>[1] = w
  OBVIOUS
<1>2. p \in Seq(Workers) /\ Len(p) = 1 + Len(q) /\ Len(q) \in Nat
  BY <1>1, ConcatProperties, LenProperties
<1>3. \A i \in 1..(1 + Len(q)) : p[i] = IF i <= 1 THEN <<w>>[i] ELSE q[i - 1]
  BY <1>1, ConcatProperties
<1> QED BY <1>1, <1>2, <1>3

LEMMA SubmitWorker ==
  ASSUME Inv, NEW r \in Receivers, submit_worker(r)
  PROVE  Inv'
<1> DEFINE w == job[r]
<1>1. TypeOK /\ CountInv /\ LockInv /\ JoinInv /\ Running /\ main # "done"
  BY ActiveParts DEF submit_worker
<1>2. qalive
  BY <1>1 DEF submit_worker, JoinInv, TypeOK
<1>3. /\ pc[r] = "submit" /\ Goto(r, "add")
      /\ queue' = <<w>> \o queue
      /\ job' = [job EXCEPT ![r] = None]
      /\ UNCHANGED <<fdt, reg, edge, backlog, peer, sent, unread, fdset, ready, epollMutex,
                     mapMutex, closing, nowConn, stopTask, heap, hfd, ref, err, rbuf, hlock,
                     wconn, qalive, midway, cur, main, victim, joined>>
  BY <1>2 DEF submit_worker, kernel, server, handles, mainv
<1>4. /\ "add" \in ReceiverPC /\ "add" \in Busy
      /\ "add" \notin HoldsEpollMutex \cup Reads \cup Sends \cup {"insert", "head", "body"}
      /\ pc[r] \in Busy /\ pc[r] \in Reads /\ pc[r] \notin HoldsEpollMutex
  BY <1>3 DEF ReceiverPC, HoldsEpollMutex, Busy, Taken, Reads, Sends
<1>5. /\ pc' \in [Threads -> ReceiverPC \cup LoaderPC]
      /\ pc'[r] = "add"
      /\ \A u \in Threads : u # r => pc'[u] = pc[u]
  BY <1>1, <1>3, <1>4, PcType
<1>6. HasJob(r) /\ \A u \in Threads : HasJob(u)' <=> HasJob(u) /\ u # r
  BY <1>3, <1>4, <1>5 DEF HasJob
<1>7. w \in Workers /\ wconn[w] # None
  BY <1>1, <1>6 DEF Running, JobInv
<1>8. /\ queue' \in Seq(Workers) /\ Len(queue') = Len(queue) + 1 /\ Len(queue) \in Nat
      /\ queue'[1] = w
      /\ \A i \in 2..Len(queue') : i - 1 \in 1..Len(queue) /\ queue'[i] = queue[i - 1]
  BY <1>1, <1>3, <1>7, QueueCons DEF TypeOK
<1>9. TypeOK'
  <2>1. job' \in [Threads -> Workers \cup {None}]
    BY <1>1, <1>3 DEF TypeOK
  <2> QED BY <1>1, <1>3, <1>5, <1>8, <2>1 DEF TypeOK
<1>10. LockInv'
  <2>1. cur[r] \in Fds
    BY <1>1, <1>4 DEF LockInv
  <2> QED BY <1>1, <1>3, <1>4, <2>1, ReceiverMoves
<1>11. CountInv' /\ JoinInv' /\ RefInv' /\ FreshInv'
  BY <1>1, <1>3, <1>5, CountFrame, JoinFrame, RefFrame, FreshFrame DEF Running
<1>12. JobInv'
  <2>1. \A u \in Threads : u # r => job'[u] = job[u]
    BY <1>1, <1>3 DEF TypeOK
  <2>2. /\ \A u \in Threads : HasJob(u) => job[u] \in Workers /\ wconn[job[u]] # None
        /\ \A u \in Threads : HasJob(u) /\ u # r => job[u] # w
        /\ \A u, x \in Threads : HasJob(u) /\ HasJob(x) /\ job[u] = job[x] => u = x
        /\ \A i \in 1..Len(queue) : wconn[queue[i]] # None
        /\ \A i, j \in 1..Len(queue) : queue[i] = queue[j] => i = j
        /\ \A u \in Threads : HasJob(u) => \A i \in 1..Len(queue) : queue[i] # job[u]
    BY <1>1, <1>6 DEF Running, JobInv
  <2>3. \A i \in 1..Len(queue) : queue[i] # w
    BY <1>6, <2>2
  <2> HIDE DEF w
  <2>4. \A i \in 1..Len(queue') : i = 1 \/ i \in 2..Len(queue')
    BY <1>8
  <2>5. 1 \in 1..Len(queue')
    BY <1>8
  <2>6. \A u \in Threads : HasJob(u)' => job'[u] \in Workers /\ wconn'[job'[u]] # None
    BY <1>3, <1>6, <2>1, <2>2
  <2>7. \A u, x \in Threads : HasJob(u)' /\ HasJob(x)' /\ job'[u] = job'[x] => u = x
    BY <1>6, <2>1, <2>2
  <2>8. \A i \in 1..Len(queue') : wconn'[queue'[i]] # None
    BY <1>3, <1>7, <1>8, <2>2, <2>4
  <2>9. \A i, j \in 1..Len(queue') : queue'[i] = queue'[j] => i = j
    <3> SUFFICES ASSUME NEW i \in 1..Len(queue'), NEW j \in 1..Len(queue'),
                        queue'[i] = queue'[j]
                 PROVE  i = j
      OBVIOUS
    <3>1. CASE i = 1
      BY <1>8, <2>3, <2>4, <3>1
    <3>2. CASE j = 1
      BY <1>8, <2>3, <2>4, <3>2
    <3>3. CASE i # 1 /\ j # 1
      <4>1. /\ i - 1 \in 1..Len(queue) /\ queue'[i] = queue[i - 1]
            /\ j - 1 \in 1..Len(queue) /\ queue'[j] = queue[j - 1]
        BY <1>8, <2>4, <3>3
      <4>2. i - 1 = j - 1
        BY <2>2, <4>1
      <4> QED BY <4>2
    <3> QED BY <3>1, <3>2, <3>3
  <2>10. \A u \in Threads : HasJob(u)' => \A i \in 1..Len(queue') : queue'[i] # job'[u]
    BY <1>6, <1>8, <2>1, <2>2, <2>4
  <2> QED BY <2>6, <2>7, <2>8, <2>9, <2>10 DEF JobInv
<1>13. MapInv'
  BY <1>1, <1>3, <1>4, <1>5, MapFrame DEF Running
<1>14. EpollInv'
  <2>1. EpollInv
    BY <1>1 DEF Running
  <2>2. \A u \in Threads : u # r => job'[u] = job[u]
    BY <1>1, <1>3 DEF TypeOK
  <2>3. \A s \in Receivers : pc'[s] \in Busy =>
            /\ pc[s] \in Busy
            /\ pc[s] = "release" => pc'[s] = "release"
            /\ pc'[s] \in Reads => pc[s] \in Reads /\ job'[s] = job[s]
    BY <1>3, <1>4, <1>5, <2>2
  <2> QED BY <1>3, <2>1, <2>3 DEF EpollInv
<1>15. WriteInv'
  <2>1. \A l \in Loaders : pc'[l] = pc[l] /\ job'[l] = job[l]
    BY <1>1, <1>3, <1>5, HttpServerAssumption DEF TypeOK
  <2> QED BY <1>1, <1>3, <2>1 DEF Running, WriteInv
<1> QED BY <1>9, <1>10, <1>11, <1>12, <1>13, <1>14, <1>15, InvFromParts DEF Running

LEMMA RecvError ==
  ASSUME Inv, NEW r \in Receivers, recv_error(r)
  PROVE  Inv'
<1> DEFINE c == wconn[job[r]]
<1>1. TypeOK /\ CountInv /\ LockInv /\ JoinInv /\ Running
  BY ActiveParts DEF recv_error
<1>2. /\ pc[r] = "error" /\ Goto(r, "release") /\ err' = err \cup {c}
      /\ UNCHANGED <<fdt, reg, edge, backlog, peer, sent, unread, fdset, ready, epollMutex,
                     mapMutex, closing, nowConn, stopTask, heap, hfd, ref, rbuf, hlock, wconn,
                     queue, qalive, midway, cur, job, main, victim, joined>>
  BY DEF recv_error, kernel, server, tasks, mainv
<1>3. /\ "release" \in ReceiverPC /\ "release" \in Busy /\ "release" \in Reads
      /\ "release" \notin HoldsEpollMutex \cup {"insert", "head", "body"}
      /\ pc[r] \in Busy /\ pc[r] \in Reads /\ pc[r] \notin HoldsEpollMutex
  BY <1>2 DEF ReceiverPC, HoldsEpollMutex, Busy, Taken, Reads
<1>4. /\ pc' \in [Threads -> ReceiverPC \cup LoaderPC]
      /\ pc'[r] = "release"
      /\ \A u \in Threads : u # r => pc'[u] = pc[u]
  BY <1>1, <1>2, <1>3, PcType
<1>5. HasJob(r) /\ \A u \in Threads : HasJob(u)' => HasJob(u)
  BY <1>2, <1>3, <1>4 DEF HasJob
<1>6. c \in Conns /\ heap[c] = "live" /\ cur[r] \in Fds /\ fdset[cur[r]] = c
  BY <1>1, <1>3, <1>5, JobFacts DEF Running, EpollInv, LockInv
<1>7. TypeOK'
  BY <1>1, <1>2, <1>4, <1>6 DEF TypeOK
<1>8. LockInv'
  BY <1>1, <1>2, <1>3, <1>6, ReceiverMoves
<1>9. CountInv' /\ JoinInv' /\ RefInv'
  BY <1>1, <1>2, <1>4, CountFrame, JoinFrame, RefFrame DEF Running
<1>10. JobInv'
  BY <1>1, <1>2, <1>5, JobFrame DEF Running
<1>11. MapInv' /\ WriteInv'
  BY <1>1, <1>2, <1>3, <1>4, MapFrame, WriteFrame DEF Running
<1>12. FreshInv'
  BY <1>1, <1>2, <1>6 DEF Running, FreshInv
<1>13. EpollInv'
  <2>1. EpollInv /\ reg \subseteq Fds
    BY <1>1 DEF Running, TypeOK
  <2>2. \A f \in Fds : fdset[f] = c => f = cur[r]
    BY <1>1, <1>6, HttpServerAssumption DEF Running, MapInv
  <2>3. \A f \in reg : fdset[f] # c
    BY <1>3, <2>1, <2>2 DEF EpollInv
  <2>4. \A s \in Receivers : s # r /\ pc[s] \in Busy => cur[s] \in Fds /\ fdset[cur[s]] # c
    BY <1>1, <1>3, <2>1, <2>2 DEF EpollInv, LockInv
  <2> HIDE DEF c
  <2>5. \A s \in Receivers : pc'[s] \in Busy =>
            /\ pc[s] \in Busy
            /\ pc'[s] # "release" => fdset[cur[s]] \notin err'
            /\ pc'[s] \in Reads => pc[s] \in Reads
    BY <1>2, <1>3, <1>4, <2>1, <2>4 DEF EpollInv
  <2>6. \A f \in reg : fdset[f] \notin err'
    BY <1>2, <2>1, <2>3 DEF EpollInv
  <2> QED BY <1>2, <2>1, <2>5, <2>6 DEF EpollInv
<1> QED BY <1>7, <1>8, <1>9, <1>10, <1>11, <1>12, <1>13, InvFromParts DEF Running

-----------------------------------------------------------------------------
(* Http_Server::release_handle. *)

\* What release_handle does whether or not it closes the connection.
LEMMA ReleaseCommon ==
  ASSUME Inv, NEW t \in Threads, release_handle(t)
  PROVE  /\ TypeOK /\ CountInv /\ LockInv /\ JoinInv /\ Running
         /\ HasJob(t) /\ pc[t] = "release" /\ closing = None /\ mapMutex = None
         /\ UNCHANGED <<backlog, peer, sent, unread, fdset, ready, epollMutex, nowConn,
                        stopTask, heap, hfd, err, rbuf, hlock, queue, qalive, midway, cur,
                        main, victim, joined>>
         /\ pc' \in [Threads -> ReceiverPC \cup LoaderPC]
         /\ pc'[t] \in {"erase", AfterRelease(t)}
         /\ \A u \in Threads : u # t => pc'[u] = pc[u]
         /\ ref' \in [Conns -> Int]
         /\ wconn' \in [Workers -> Conns \cup {None}]
         /\ job' \in [Threads -> Workers \cup {None}]
         /\ JobInv' /\ RefInv' /\ WriteInv' /\ CountInv' /\ JoinInv'
         /\ \A u \in Threads : HasJob(u)' => job'[u] = job[u] /\ wconn'[job[u]] = wconn[job[u]]
         /\ \A w \in Workers : wconn'[w] # None => wconn'[w] = wconn[w]
         /\ \A c \in Conns : Held(c)' = Held(c) \ {job[t]}
         /\ \A u \in Threads : HasJob(u)' <=> HasJob(u) /\ u # t
<1> DEFINE c == wconn[job[t]]
<1>1. TypeOK /\ CountInv /\ LockInv /\ JoinInv /\ Running
  BY ActiveParts DEF release_handle
<1>2. /\ pc[t] = "release" /\ mapMutex = None
      /\ ref' = [ref EXCEPT ![c] = @ - 1]
      /\ wconn' = [wconn EXCEPT ![job[t]] = None]
      /\ job' = [job EXCEPT ![t] = None]
      /\ Goto(t, "erase") \/ Goto(t, AfterRelease(t))
      /\ UNCHANGED <<backlog, peer, sent, unread, fdset, ready, epollMutex, nowConn,
                     stopTask, heap, hfd, err, rbuf, hlock, queue, qalive, midway, cur,
                     main, victim, joined>>
  BY DEF release_handle, MapMutexFree, mainv
<1>3. {"erase", AfterRelease(t)} \subseteq ReceiverPC \cup LoaderPC
      /\ "erase" \notin Reads \cup Sends /\ AfterRelease(t) \notin Reads \cup Sends
  BY DEF AfterRelease, ReceiverPC, LoaderPC, Reads, Sends
<1>4. /\ pc' \in [Threads -> ReceiverPC \cup LoaderPC]
      /\ pc'[t] \in {"erase", AfterRelease(t)}
      /\ \A u \in Threads : u # t => pc'[u] = pc[u]
  BY <1>1, <1>2, <1>3, PcType
<1>5. HasJob(t) /\ \A u \in Threads : HasJob(u)' <=> HasJob(u) /\ u # t
  BY <1>2, <1>3, <1>4 DEF HasJob, Reads, Sends
<1>6. /\ wconn' \in [Workers -> Conns \cup {None}]
      /\ job' \in [Threads -> Workers \cup {None}]
      /\ JobInv'
      /\ \A u \in Threads : HasJob(u)' => job'[u] = job[u] /\ wconn'[job[u]] = wconn[job[u]]
      /\ \A w \in Workers : wconn'[w] # None => wconn'[w] = wconn[w]
      /\ \A d \in Conns : Held(d)' = Held(d) \ {job[t]}
  BY <1>2, <1>5, WorkerDeleted
<1>7. c \in Conns /\ job[t] \in Held(c)
  BY <1>5, JobFacts DEF Held
<1>8. closing = None
  BY <1>1, <1>2 DEF LockInv
<1>9. /\ ref' \in [Conns -> Int] /\ ref'[c] = ref[c] - 1
      /\ \A d \in Conns : d # c => ref'[d] = ref[d]
  BY <1>1, <1>2, <1>7 DEF TypeOK
<1>10. RefInv'
  <2>1. ASSUME NEW d \in Conns PROVE Cardinality(Held(d)') <= ref'[d]
    <3>1. /\ IsFiniteSet(Held(d)) /\ Cardinality(Held(d)) \in Nat
          /\ ref[d] \in Int /\ Cardinality(Held(d)) <= ref[d]
      BY <1>1, HeldFinite DEF TypeOK, Running, RefInv
    <3>2. CASE d = c
      <4>1. Cardinality(Held(d)') = Cardinality(Held(d)) - 1
        BY <1>6, <1>7, <3>1, <3>2, FS_RemoveElement
      <4> QED BY <1>9, <3>1, <3>2, <4>1
    <3>3. CASE d # c
      <4>1. Held(d)' = Held(d)
        BY <1>6, <3>3 DEF Held
      <4> QED BY <1>9, <3>1, <3>3, <4>1
    <3> QED BY <3>2, <3>3
  <2> QED BY <2>1 DEF RefInv
<1>11. WriteInv'
  <2>1. \A l \in Loaders : pc'[l] \in {"head", "body"} =>
            /\ pc'[l] = pc[l] /\ job'[l] = job[l] /\ wconn'[job'[l]] = wconn[job[l]]
    <3>1. \A l \in Loaders : pc'[l] \in {"head", "body"} => HasJob(l)' /\ l # t
      BY <1>4, HttpServerAssumption DEF HasJob, Sends, AfterRelease
    <3> QED BY <1>4, <1>6, <3>1
  <2> QED BY <1>1, <1>2, <2>1 DEF Running, WriteInv
<1>12. CountInv' /\ JoinInv'
  BY <1>1, <1>2, <1>4, CountFrame, JoinFrame
<1> QED BY <1>1, <1>2, <1>4, <1>5, <1>6, <1>8, <1>9, <1>10, <1>11, <1>12

LEMMA ReleaseKeeps ==
  ASSUME Inv, NEW t \in Threads, release_handle(t), ~LastOfErrored(wconn[job[t]])
  PROVE  Inv'
<1>1. UNCHANGED <<fdt, reg, edge, mapMutex, closing>> /\ Goto(t, AfterRelease(t))
  BY DEF release_handle
<1>2. /\ TypeOK /\ CountInv /\ LockInv /\ JoinInv /\ Running
      /\ HasJob(t) /\ pc[t] = "release" /\ closing = None /\ mapMutex = None
      /\ UNCHANGED <<backlog, peer, sent, unread, fdset, ready, epollMutex, nowConn,
                     stopTask, heap, hfd, err, rbuf, hlock, queue, qalive, midway, cur,
                     main, victim, joined>>
      /\ pc' \in [Threads -> ReceiverPC \cup LoaderPC]
      /\ \A u \in Threads : u # t => pc'[u] = pc[u]
      /\ ref' \in [Conns -> Int]
      /\ wconn' \in [Workers -> Conns \cup {None}]
      /\ job' \in [Threads -> Workers \cup {None}]
      /\ JobInv' /\ RefInv' /\ WriteInv' /\ CountInv' /\ JoinInv'
      /\ \A u \in Threads : HasJob(u)' => job'[u] = job[u] /\ wconn'[job[u]] = wconn[job[u]]
      /\ \A w \in Workers : wconn'[w] # None => wconn'[w] = wconn[w]
  BY ReleaseCommon
<1>3. pc'[t] = AfterRelease(t)
  BY <1>1, <1>2 DEF TypeOK, Goto
<1>4. TypeOK'
  BY <1>1, <1>2 DEF TypeOK
<1>5. LockInv'
  <2>1. CASE t \in Receivers
    BY <1>1, <1>2, <2>1, ReceiverMoves DEF AfterRelease, HoldsEpollMutex, ReceiverPC, Busy, Taken
  <2>2. CASE t \in Loaders
    BY <1>1, <1>2, <2>2, LoaderMoves, HttpServerAssumption DEF AfterRelease, LoaderPC
  <2> QED BY <2>1, <2>2
<1>6. FreshInv'
  BY <1>1, <1>2, FreshFrame DEF Running
<1>7. MapInv'
  <2>1. \A s \in Receivers : pc[s] = "insert" <=> pc'[s] = "insert"
    BY <1>2, <1>3 DEF AfterRelease
  <2> QED BY <1>1, <1>2, <2>1 DEF Running, MapInv
<1>8. EpollInv'
  <2>1. EpollInv
    BY <1>2 DEF Running
  <2>2. \A s \in Receivers : pc'[s] \in Busy =>
            /\ pc[s] = pc'[s]
            /\ pc'[s] \in Reads => wconn'[job'[s]] = wconn[job[s]]
    BY <1>2, <1>3 DEF AfterRelease, Busy, Taken, HasJob
  <2> QED BY <1>1, <1>2, <2>1, <2>2 DEF EpollInv
<1> QED BY <1>2, <1>4, <1>5, <1>6, <1>7, <1>8, InvFromParts DEF Running

LEMMA ReleaseCloses ==
  ASSUME Inv, NEW t \in Threads, release_handle(t), LastOfErrored(wconn[job[t]])
  PROVE  Inv'
<1> DEFINE c == wconn[job[t]]
           f == hfd[c]
<1>1. /\ reg' = reg \ {f} /\ edge' = edge \ {f}
      /\ fdt' = [fdt EXCEPT ![f] = None]
      /\ mapMutex' = t /\ closing' = c /\ Goto(t, "erase")
      /\ ref[c] = 1 /\ c \in err
  BY DEF release_handle, LastOfErrored, del_input_fd
<1>2. /\ TypeOK /\ CountInv /\ LockInv /\ JoinInv /\ Running
      /\ HasJob(t) /\ pc[t] = "release" /\ closing = None /\ mapMutex = None
      /\ UNCHANGED <<backlog, peer, sent, unread, fdset, ready, epollMutex, nowConn,
                     stopTask, heap, hfd, err, rbuf, hlock, queue, qalive, midway, cur,
                     main, victim, joined>>
      /\ pc' \in [Threads -> ReceiverPC \cup LoaderPC]
      /\ \A u \in Threads : u # t => pc'[u] = pc[u]
      /\ ref' \in [Conns -> Int]
      /\ wconn' \in [Workers -> Conns \cup {None}]
      /\ job' \in [Threads -> Workers \cup {None}]
      /\ JobInv' /\ RefInv' /\ WriteInv' /\ CountInv' /\ JoinInv'
      /\ \A u \in Threads : HasJob(u)' => job'[u] = job[u] /\ wconn'[job[u]] = wconn[job[u]]
      /\ \A w \in Workers : wconn'[w] # None => wconn'[w] = wconn[w]
      /\ \A d \in Conns : Held(d)' = Held(d) \ {job[t]}
      /\ \A u \in Threads : HasJob(u)' <=> HasJob(u) /\ u # t
  BY ReleaseCommon
<1>3. pc'[t] = "erase"
  BY <1>1, <1>2 DEF TypeOK, Goto
<1>4. /\ c \in Conns /\ c # None /\ heap[c] = "live" /\ f \in Fds /\ fdset[f] = c /\ fdt[f] = c
      /\ job[t] \in Held(c)
  BY <1>2, JobFacts, HttpServerAssumption DEF Held
<1>5. \A w \in Workers : wconn'[w] # c
  <2>1. IsFiniteSet(Held(c)) /\ Cardinality(Held(c)) <= 1 /\ Cardinality(Held(c)) \in Nat
    BY <1>1, <1>2, <1>4, HeldFinite DEF Running, RefInv
  <2>2. Cardinality(Held(c) \ {job[t]}) = Cardinality(Held(c)) - 1
        /\ IsFiniteSet(Held(c) \ {job[t]})
    BY <1>4, <2>1, FS_RemoveElement
  <2>3. Cardinality(Held(c) \ {job[t]}) = 0
    <3>1. Cardinality(Held(c) \ {job[t]}) \in Nat
      BY <2>2, FS_CardinalityType
    <3> QED BY <2>1, <2>2, <3>1
  <2>4. Held(c) \ {job[t]} = {}
    BY <2>2, <2>3, FS_EmptySet
  <2>5. PICK d \in Conns : d = c
    BY <1>4
  <2>6. Held(d)' = {}
    BY <1>2, <2>4, <2>5
  <2> QED BY <2>5, <2>6 DEF Held
<1>6. fdt'[f] = None /\ \A g \in Fds : g # f => fdt'[g] = fdt[g]
  BY <1>1, <1>2, <1>4 DEF TypeOK
<1>7. TypeOK'
  BY <1>1, <1>2, <1>4 DEF TypeOK
<1>8. LockInv'
  <2>1. "erase" \in ReceiverPC \cap LoaderPC
        /\ "erase" \notin HoldsEpollMutex \cup Busy \cup {"insert"} /\ "release" \notin HoldsEpollMutex
    BY DEF ReceiverPC, LoaderPC, HoldsEpollMutex, Busy, Taken
  <2>2. t # None
    BY HttpServerAssumption
  <2>3. \A r \in Receivers : pc'[r] \in ReceiverPC
    BY <1>2, <1>3, <2>1 DEF LockInv
  <2>4. \A l \in Loaders : pc'[l] \in LoaderPC
    BY <1>2, <1>3, <2>1 DEF LockInv
  <2>5. \A r \in Receivers : pc'[r] \in HoldsEpollMutex <=> epollMutex' = r
    BY <1>2, <1>3, <2>1 DEF LockInv
  <2>6. \A u \in Threads : pc'[u] = "erase" <=> mapMutex' = u
    BY <1>1, <1>2, <1>3, HttpServerAssumption DEF LockInv
  <2>7. \A r \in Receivers : pc'[r] \in Busy \cup {"insert"} => cur'[r] \in Fds
    BY <1>2, <1>3, <2>1 DEF LockInv
  <2> QED BY <1>1, <1>4, <2>2, <2>3, <2>4, <2>5, <2>6, <2>7 DEF LockInv
<1>9. FreshInv'
  BY <1>1, <1>2, <1>6 DEF TypeOK, Running, FreshInv
<1>10. MapInv'
  <2> HIDE DEF c, f
  <2>0. MapInv /\ \A s \in Receivers : pc[s] = "insert" => cur[s] \in Fds
    BY <1>2 DEF Running, LockInv
  <2>1. \A s \in Receivers : (pc[s] = "insert" <=> pc'[s] = "insert")
                             /\ (pc[s] = "insert" => cur[s] # f)
    BY <1>2, <1>3, <1>4, <2>0 DEF MapInv
  <2>2. \A g \in Fds : fdset[g] # None => fdt'[g] = fdset[g] \/ closing' = fdset[g]
    BY <1>1, <1>2, <1>4, <1>6, <2>0 DEF MapInv
  <2>3. \A g \in Fds : fdt'[g] # None =>
          \/ fdset[g] = fdt'[g]
          \/ \E r \in Receivers : pc'[r] = "insert" /\ cur[r] = g
    BY <1>6, <2>0, <2>1 DEF MapInv
  <2>4. \A r \in Receivers : pc'[r] = "insert" =>
          /\ fdt'[cur[r]] \in Conns
          /\ heap[fdt'[cur[r]]] = "none"
          /\ fdset[cur[r]] = None
    BY <1>2, <1>6, <2>0, <2>1 DEF MapInv
  <2>5. /\ heap[closing'] = "live" /\ fdt'[hfd[closing']] # closing' /\ Held(closing)' = {}
    BY <1>1, <1>4, <1>5, <1>6 DEF f, Held
  <2>6. \A w \in Workers : wconn'[w] # None => heap[wconn'[w]] = "live"
    BY <1>2, <2>0 DEF MapInv
  <2> QED BY <1>2, <2>0, <2>2, <2>3, <2>4, <2>5, <2>6 DEF MapInv
<1>11. EpollInv'
  <2> HIDE DEF c, f
  <2>1. EpollInv /\ reg \subseteq Fds
    BY <1>2 DEF Running, TypeOK
  <2>2. f \notin reg
    BY <1>1, <1>4, <2>1 DEF EpollInv
  <2>3. \A s \in Receivers : pc'[s] \in Busy =>
            /\ s # t /\ pc[s] = pc'[s] /\ cur[s] \in Fds
            /\ pc'[s] \in Reads => wconn'[job'[s]] = wconn[job[s]] /\ HasJob(s)'
    BY <1>2, <1>3 DEF Busy, Taken, HasJob, LockInv
  <2>4. \A s \in Receivers : pc'[s] \in Busy => cur[s] # f
    <3> SUFFICES ASSUME NEW s \in Receivers, pc'[s] \in Busy, cur[s] = f PROVE FALSE
      OBVIOUS
    <3>1. pc[s] = "release" /\ "release" \in Reads
      BY <1>1, <1>4, <2>1, <2>3 DEF EpollInv, Reads
    <3>2. wconn'[job'[s]] = c /\ HasJob(s)'
      BY <1>4, <2>1, <2>3, <3>1 DEF EpollInv
    <3>3. job'[s] \in Workers
      BY <1>2, <3>2 DEF JobInv
    <3> QED BY <1>5, <3>2, <3>3
  <2>5. /\ edge' \cap Fds \subseteq reg' /\ Range(ready') \cap Fds \subseteq reg'
        /\ \A i, j \in 1..Len(ready') : ready'[i] = ready'[j] => i = j
    BY <1>1, <1>2, <2>1, <2>2 DEF EpollInv
  <2>6. \A g \in reg' : fdset'[g] # None /\ fdt'[g] = fdset'[g] /\ fdset'[g] \notin err'
    BY <1>1, <1>2, <1>6, <2>1 DEF EpollInv
  <2>7. \A s \in Receivers : pc'[s] \in Busy => fdt'[cur[s]] = fdt[cur[s]]
    BY <1>6, <2>3, <2>4
  <2>8. reg' \subseteq reg
    BY <1>1
  <2> QED BY <1>2, <2>1, <2>3, <2>5, <2>6, <2>7, <2>8 DEF EpollInv
<1> QED BY <1>2, <1>7, <1>8, <1>9, <1>10, <1>11, InvFromParts DEF Running

LEMMA ReleaseErase ==
  ASSUME Inv, NEW t \in Threads, release_erase(t)
  PROVE  Inv'
<1> DEFINE c == closing
           f == hfd[c]
<1>1. TypeOK /\ CountInv /\ LockInv /\ JoinInv /\ Running
  BY ActiveParts DEF release_erase
<1>2. /\ pc[t] = "erase" /\ Goto(t, AfterRelease(t))
      /\ heap' = [heap EXCEPT ![c] = "freed"]
      /\ fdset' = [fdset EXCEPT ![f] = None]
      /\ nowConn' = nowConn - 1 /\ mapMutex' = None /\ closing' = None
      /\ UNCHANGED <<fdt, reg, edge, backlog, peer, sent, unread, ready, epollMutex, stopTask,
                     hfd, ref, err, rbuf, hlock, wconn, queue, qalive, midway, cur, job, main,
                     victim, joined>>
  BY DEF release_erase, CountClosed, kernel, tasks, mainv
<1>3. /\ AfterRelease(t) \in ReceiverPC \cup LoaderPC
      /\ AfterRelease(t) \notin HoldsEpollMutex \cup Busy \cup Reads \cup Sends
                                \cup {"erase", "exit", "insert", "head", "body"}
      /\ "erase" \notin HoldsEpollMutex \cup Busy
  BY DEF AfterRelease, ReceiverPC, LoaderPC, HoldsEpollMutex, Busy, Taken, Reads, Sends
<1>4. /\ pc' \in [Threads -> ReceiverPC \cup LoaderPC]
      /\ pc'[t] = AfterRelease(t)
      /\ \A u \in Threads : u # t => pc'[u] = pc[u]
  BY <1>1, <1>2, <1>3, PcType
<1>5. mapMutex = t /\ c # None /\ c \in Conns
  BY <1>1, <1>2, HttpServerAssumption DEF LockInv, TypeOK
<1>6. heap[c] = "live" /\ f \in Fds /\ fdset[f] = c /\ fdt[f] # c /\ Held(c) = {}
  BY <1>1, <1>5 DEF Running, MapInv
<1>7. /\ heap'[c] = "freed" /\ \A d \in Conns : d # c => heap'[d] = heap[d]
      /\ fdset'[f] = None /\ \A g \in Fds : g # f => fdset'[g] = fdset[g]
  BY <1>1, <1>2, <1>5, <1>6 DEF TypeOK
<1>8. TypeOK'
  <2>1. heap' \in [Conns -> {"none", "live", "freed"}] /\ fdset' \in [Fds -> Conns \cup {None}]
        /\ nowConn' \in Int
    BY <1>1, <1>2, <1>5, <1>6 DEF TypeOK
  <2> QED BY <1>1, <1>2, <1>4, <2>1 DEF TypeOK
<1>9. LockInv'
  <2>1. \A r \in Receivers : pc'[r] \in ReceiverPC
    BY <1>1, <1>4 DEF LockInv, AfterRelease, ReceiverPC
  <2>2. \A l \in Loaders : pc'[l] \in LoaderPC
    BY <1>1, <1>4, HttpServerAssumption DEF LockInv, AfterRelease, LoaderPC
  <2>3. \A r \in Receivers : pc'[r] \in HoldsEpollMutex <=> epollMutex' = r
    BY <1>1, <1>2, <1>3, <1>4 DEF LockInv
  <2>4. \A u \in Threads : pc'[u] = "erase" <=> mapMutex' = u
    BY <1>1, <1>2, <1>3, <1>4, <1>5, HttpServerAssumption DEF LockInv
  <2>5. \A r \in Receivers : pc'[r] \in Busy \cup {"insert"} => cur'[r] \in Fds
    BY <1>1, <1>2, <1>3, <1>4 DEF LockInv
  <2> QED BY <1>2, <2>1, <2>2, <2>3, <2>4, <2>5 DEF LockInv
<1>10. CountInv' /\ JoinInv' /\ RefInv'
  BY <1>1, <1>2, <1>4, CountFrame, JoinFrame, RefFrame DEF Running
<1>11. JobInv' /\ WriteInv'
  <2>1. \A u \in Threads : HasJob(u)' => HasJob(u)
    BY <1>3, <1>4 DEF HasJob
  <2> QED BY <1>1, <1>2, <1>3, <1>4, <2>1, JobFrame, WriteFrame DEF Running
<1>12. FreshInv'
  <2> HIDE DEF c, f
  <2> QED BY <1>1, <1>2, <1>5, <1>6, <1>7 DEF TypeOK, Running, FreshInv
<1>13. MapInv'
  <2>0. /\ MapInv /\ None \notin Conns /\ wconn \in [Workers -> Conns \cup {None}]
        /\ \A g \in Fds : fdset[g] \in Conns \cup {None}
        /\ \A s \in Receivers : pc[s] = "insert" => cur[s] \in Fds
        /\ \A g \in Fds : fdset[g] = c => g = f
    <3>1. \A g \in Fds : fdset[g] = c => g = f
      BY <1>1, <1>5 DEF Running, MapInv
    <3>2. \A s \in Receivers : pc[s] = "insert" => cur[s] \in Fds
      BY <1>1 DEF LockInv
    <3> QED BY <1>1, <3>1, <3>2, HttpServerAssumption DEF TypeOK, Running
  <2>1. \A g \in Fds : fdset[g] # None => fdt[g] = fdset[g] \/ c = fdset[g]
    BY <2>0 DEF MapInv
  <2>2. \A r \in Receivers : pc[r] = "insert" =>
          /\ fdt[cur[r]] \in Conns
          /\ heap[fdt[cur[r]]] = "none"
          /\ fdset[cur[r]] = None \/ fdset[cur[r]] = c
    BY <2>0 DEF MapInv
  <2> HIDE DEF c, f
  <2>3. \A s \in Receivers : pc[s] = "insert" <=> pc'[s] = "insert"
    BY <1>2, <1>3, <1>4
  <2>4. \A g \in Fds : fdset'[g] # None => heap'[fdset'[g]] = "live" /\ hfd'[fdset'[g]] = g
    BY <1>2, <1>7, <2>0 DEF MapInv
  <2>5. \A d \in Conns : heap'[d] = "live" => hfd'[d] \in Fds /\ fdset'[hfd'[d]] = d
    BY <1>2, <1>5, <1>6, <1>7, <2>0 DEF MapInv
  <2>6. \A g \in Fds : fdset'[g] # None => fdt'[g] = fdset'[g] \/ closing' = fdset'[g]
    BY <1>2, <1>7, <2>0, <2>1
  <2>7. \A g \in Fds : fdt'[g] # None =>
          \/ fdset'[g] = fdt'[g]
          \/ \E r \in Receivers : pc'[r] = "insert" /\ cur'[r] = g
    BY <1>2, <1>6, <1>7, <2>0, <2>3 DEF MapInv
  <2>8. \A r \in Receivers : pc'[r] = "insert" =>
          /\ fdt'[cur'[r]] \in Conns
          /\ heap'[fdt'[cur'[r]]] = "none"
          /\ fdset'[cur'[r]] = None
    BY <1>2, <1>6, <1>7, <2>0, <2>2, <2>3
  <2>9. \A w \in Workers : wconn'[w] # None => heap'[wconn'[w]] = "live"
    BY <1>2, <1>6, <1>7, <2>0 DEF MapInv, Held
  <2> QED BY <1>2, <2>4, <2>5, <2>6, <2>7, <2>8, <2>9 DEF MapInv
<1>14. EpollInv'
  <2> HIDE DEF c, f
  <2>1. EpollInv /\ reg \subseteq Fds
    BY <1>1 DEF Running, TypeOK
  <2>2. f \notin reg /\ \A s \in Receivers : pc[s] \in Busy => cur[s] # f /\ cur[s] \in Fds
    BY <1>1, <1>6, <2>1 DEF EpollInv, LockInv
  <2>3. \A s \in Receivers : pc'[s] \in Busy => pc[s] = pc'[s] /\ fdset'[cur[s]] = fdset[cur[s]]
    BY <1>3, <1>4, <1>7, <2>2
  <2>4. \A g \in reg : fdset'[g] = fdset[g]
    BY <1>7, <2>1, <2>2
  <2>5. \A s \in Receivers : pc'[s] \in Busy =>
          /\ cur'[s] \notin reg'
          /\ fdset'[cur'[s]] # None
          /\ fdt'[cur'[s]] = fdset'[cur'[s]]
          /\ pc'[s] # "release" => fdset'[cur'[s]] \notin err'
          /\ pc'[s] \in Reads => wconn'[job'[s]] = fdset'[cur'[s]]
    BY <1>2, <2>1, <2>3 DEF EpollInv
  <2> QED BY <1>2, <2>1, <2>3, <2>4, <2>5 DEF EpollInv
<1> QED BY <1>8, <1>9, <1>10, <1>11, <1>12, <1>13, <1>14, InvFromParts DEF Running

LEMMA ReleaseStep ==
  ASSUME Inv, NEW t \in Threads, Release(t)
  PROVE  Inv'
  BY ReleaseKeeps, ReleaseCloses, ReleaseErase DEF Release

-----------------------------------------------------------------------------
(* Worker_Loader::svc and Http_Server::retrieve_worker. *)

\* The task list without its oldest worker.
LEMMA QueueFront ==
  ASSUME TypeOK, queue # <<>>, queue' = SubSeq(queue, 1, Len(queue) - 1)
  PROVE  /\ queue' \in Seq(Workers)
         /\ Len(queue') = Len(queue) - 1
         /\ Len(queue) \in Nat \ {0}
         /\ queue[Len(queue)] \in Workers
         /\ \A i \in 1..Len(queue') :
               i \in 1..Len(queue) /\ i # Len(queue) /\ queue'[i] = queue[i]
<1> DEFINE n == Len(queue) - 1
<1>1. queue \in Seq(Workers) /\ Len(queue) \in Nat \ {0}
  BY EmptySeq DEF TypeOK
<1>2. n \in Nat /\ (\A i \in 1..n : queue[i] \in Workers) /\ queue[Len(queue)] \in Workers
  BY <1>1, ElementOfSeq
<1>3. /\ SubSeq(queue, 1, n) \in Seq(Workers)
      /\ Len(SubSeq(queue, 1, n)) = IF 1 <= n THEN n - 1 + 1 ELSE 0
      /\ \A i \in 1..(n - 1 + 1) : SubSeq(queue, 1, n)[i] = queue[1 + i - 1]
  <2> HIDE DEF n
  <2> QED BY <1>2, SubSeqProperties
<1>4. queue' = SubSeq(queue, 1, n)
  OBVIOUS
<1>5. queue' \in Seq(Workers) /\ Len(queue') = n /\ \A i \in 1..n : queue'[i] = queue[i]
  <2> HIDE DEF n
  <2> QED BY <1>2, <1>3, <1>4
<1> QED BY <1>1, <1>2, <1>5

LEMMA LoaderGet ==
  ASSUME Inv, NEW l \in Loaders, loader_get(l)
  PROVE  Inv'
<1> DEFINE w == queue[Len(queue)]
<1>1. TypeOK /\ CountInv /\ LockInv /\ JoinInv /\ Running
  BY ActiveParts DEF loader_get
<1> PICK end \in ParseEnds : Goto(l, end)
  BY DEF loader_get
<1>2. /\ pc[l] = "get" /\ Goto(l, end) /\ queue # <<>>
      /\ job' = [job EXCEPT ![l] = w]
      /\ queue' = SubSeq(queue, 1, Len(queue) - 1)
      /\ UNCHANGED <<fdt, reg, edge, backlog, peer, sent, unread, fdset, ready, epollMutex,
                     mapMutex, closing, nowConn, stopTask, heap, hfd, ref, err, rbuf, hlock,
                     wconn, qalive, midway, cur, main, victim, joined>>
  BY DEF loader_get, kernel, server, handles, mainv
<1>3. /\ end \in LoaderPC /\ end \in Sends
      /\ end \notin {"head", "body", "erase"} /\ pc[l] \notin Sends /\ l \notin Receivers
  BY <1>2, HttpServerAssumption DEF ParseEnds, LoaderPC, Sends
<1>4. /\ pc' \in [Threads -> ReceiverPC \cup LoaderPC]
      /\ pc'[l] = end
      /\ \A u \in Threads : u # l => pc'[u] = pc[u]
  BY <1>1, <1>2, <1>3, PcType
<1>5. ~HasJob(l) /\ \A u \in Threads : HasJob(u)' <=> HasJob(u) \/ u = l
  BY <1>2, <1>3, <1>4 DEF HasJob
<1>6. /\ queue' \in Seq(Workers) /\ Len(queue') = Len(queue) - 1 /\ Len(queue) \in Nat \ {0}
      /\ w \in Workers
      /\ \A i \in 1..Len(queue') :
            i \in 1..Len(queue) /\ i # Len(queue) /\ queue'[i] = queue[i]
  BY <1>1, <1>2, QueueFront
<1>7. /\ job' \in [Threads -> Workers \cup {None}] /\ job'[l] = w
      /\ \A u \in Threads : u # l => job'[u] = job[u]
  BY <1>1, <1>2, <1>6 DEF TypeOK
<1>8. TypeOK'
  BY <1>1, <1>2, <1>4, <1>6, <1>7 DEF TypeOK
<1>9. LockInv'
  BY <1>1, <1>2, <1>3, LoaderMoves
<1>10. CountInv' /\ JoinInv' /\ RefInv' /\ FreshInv'
  BY <1>1, <1>2, <1>4, CountFrame, JoinFrame, RefFrame, FreshFrame DEF Running
<1>11. JobInv'
  <2>1. Len(queue) \in 1..Len(queue)
    BY <1>6
  <2>2. /\ \A u \in Threads : HasJob(u) => job[u] \in Workers /\ wconn[job[u]] # None
        /\ \A u, x \in Threads : HasJob(u) /\ HasJob(x) /\ job[u] = job[x] => u = x
        /\ \A i \in 1..Len(queue) : wconn[queue[i]] # None
        /\ \A i, j \in 1..Len(queue) : queue[i] = queue[j] => i = j
        /\ \A u \in Threads : HasJob(u) => \A i \in 1..Len(queue) : queue[i] # job[u]
    BY <1>1 DEF Running, JobInv
  <2>3. /\ wconn[w] # None
        /\ \A u \in Threads : HasJob(u) => job[u] # w
        /\ \A i \in 1..Len(queue') : queue'[i] # w
    BY <1>6, <2>1, <2>2
  <2> HIDE DEF w
  <2>4. \A u \in Threads : HasJob(u)' => job'[u] \in Workers /\ wconn'[job'[u]] # None
    BY <1>2, <1>5, <1>6, <1>7, <2>2, <2>3
  <2>5. \A u, x \in Threads : HasJob(u)' /\ HasJob(x)' /\ job'[u] = job'[x] => u = x
    BY <1>5, <1>7, <2>2, <2>3
  <2>6. \A i \in 1..Len(queue') : wconn'[queue'[i]] # None
    BY <1>2, <1>6, <2>2
  <2>7. \A i, j \in 1..Len(queue') : queue'[i] = queue'[j] => i = j
    BY <1>6, <2>2
  <2>8. \A u \in Threads : HasJob(u)' => \A i \in 1..Len(queue') : queue'[i] # job'[u]
    BY <1>5, <1>6, <1>7, <2>2, <2>3
  <2> QED BY <2>4, <2>5, <2>6, <2>7, <2>8 DEF JobInv
<1>12. MapInv'
  BY <1>1, <1>2, <1>3, <1>4, MapFrame DEF Running
<1>13. EpollInv'
  <2>1. \A s \in Receivers : pc'[s] = pc[s] /\ job'[s] = job[s]
    BY <1>3, <1>4, <1>7
  <2> QED BY <1>1, <1>2, <2>1 DEF Running, EpollInv
<1>14. WriteInv'
  <2>1. \A u \in Loaders : pc'[u] \in {"head", "body"} => pc'[u] = pc[u] /\ job'[u] = job[u]
    BY <1>3, <1>4, <1>7
  <2> QED BY <1>1, <1>2, <2>1 DEF Running, WriteInv
<1> QED BY <1>8, <1>9, <1>10, <1>11, <1>12, <1>13, <1>14, InvFromParts DEF Running

\* A loader that dies keeps its worker.
LEMMA Exhausted ==
  ASSUME Inv, NEW l \in Loaders, makePath_exhausted(l)
  PROVE  Inv'
<1>1. TypeOK /\ CountInv /\ LockInv /\ JoinInv /\ Running
  BY ActiveParts DEF makePath_exhausted
<1>2. /\ pc[l] = "stuck" /\ Goto(l, "died")
      /\ UNCHANGED <<fdt, reg, edge, backlog, peer, sent, unread, fdset, ready, epollMutex,
                     mapMutex, closing, nowConn, stopTask, heap, hfd, ref, err, rbuf, hlock,
                     wconn, queue, qalive, midway, cur, job, main, victim, joined>>
  BY DEF makePath_exhausted, kernel, server, handles, tasks, mainv
<1>3. /\ "died" \in LoaderPC /\ {"stuck", "died"} \subseteq Sends
      /\ l \notin Receivers
  BY HttpServerAssumption DEF LoaderPC, Sends
<1>4. /\ pc' \in [Threads -> ReceiverPC \cup LoaderPC]
      /\ pc'[l] = "died"
      /\ \A u \in Threads : u # l => pc'[u] = pc[u]
  BY <1>1, <1>2, <1>3, PcType
<1>5. \A u \in Threads : HasJob(u)' <=> HasJob(u)
  BY <1>2, <1>3, <1>4 DEF HasJob
<1>6. TypeOK'
  BY <1>1, <1>2, <1>4 DEF TypeOK
<1>7. LockInv'
  BY <1>1, <1>2, <1>3, LoaderMoves
<1>8. CountInv' /\ JoinInv' /\ RefInv' /\ FreshInv'
  BY <1>1, <1>2, <1>4, CountFrame, JoinFrame, RefFrame, FreshFrame DEF Running
<1>9. JobInv'
  BY <1>1, <1>2, <1>5, JobFrame DEF Running
<1>10. MapInv' /\ WriteInv'
  BY <1>1, <1>2, <1>3, <1>4, MapFrame, WriteFrame DEF Running
<1>11. EpollInv'
  BY <1>1, <1>2, <1>3, <1>4, EpollFrame DEF Running
<1> QED BY <1>6, <1>7, <1>8, <1>9, <1>10, <1>11, InvFromParts DEF Running

\* A loader goes on with its answer.
LEMMA SendStep ==
  ASSUME Inv, NEW l \in Loaders, pc[l] \in {"send", "head", "body"},
         NEW label \in {"head", "body", "release"}, Goto(l, label),
         hlock' \in [Conns -> Loaders \cup {None}], midway' \in [Conns -> Workers \cup {None}],
         WriteInv',
         UNCHANGED <<kernel, server, heap, hfd, ref, err, rbuf, tasks, cur, job, mainv>>
  PROVE  Inv'
<1>1. TypeOK /\ CountInv /\ LockInv /\ JoinInv /\ Running
  BY ActiveParts
<1>2. UNCHANGED <<fdt, reg, edge, backlog, peer, sent, unread, fdset, ready, epollMutex,
                  mapMutex, closing, nowConn, stopTask, heap, hfd, ref, err, rbuf, wconn, queue,
                  qalive, cur, job, main, victim, joined>>
  BY DEF kernel, server, tasks, mainv
<1>3. /\ label \in LoaderPC \ {"erase", "exit"} /\ label \in Sends /\ pc[l] \in Sends
      /\ l \notin Receivers
  BY HttpServerAssumption DEF LoaderPC, Sends
<1>4. /\ pc' \in [Threads -> ReceiverPC \cup LoaderPC]
      /\ pc'[l] = label
      /\ \A u \in Threads : u # l => pc'[u] = pc[u]
  BY <1>1, <1>3, PcType
<1>5. TypeOK'
  BY <1>1, <1>2, <1>4 DEF TypeOK
<1>6. LockInv'
  BY <1>1, <1>2, <1>3, LoaderMoves
<1>7. CountInv' /\ JoinInv' /\ RefInv' /\ FreshInv'
  BY <1>1, <1>2, <1>4, CountFrame, JoinFrame, RefFrame, FreshFrame DEF Running
<1>8. JobInv'
  <2>1. \A u \in Threads : HasJob(u)' => HasJob(u)
    BY <1>3, <1>4 DEF HasJob
  <2> QED BY <1>1, <1>2, <2>1, JobFrame DEF Running
<1>9. MapInv' /\ EpollInv'
  <2>1. \A s \in Receivers : pc'[s] = pc[s]
    BY <1>3, <1>4
  <2> QED BY <1>1, <1>2, <2>1, MapFrame, EpollFrame DEF Running
<1> QED BY <1>5, <1>6, <1>7, <1>8, <1>9, InvFromParts DEF Running

LEMMA SendLock ==
  ASSUME Inv, NEW l \in Loaders, send_lock(l)
  PROVE  Inv'
<1> DEFINE c == wconn[job[l]]
<1>1. TypeOK /\ WriteInv
  BY ActiveParts DEF send_lock, Running
<1>2. /\ pc[l] = "send" /\ Goto(l, "head") /\ hlock[c] = None
      /\ hlock' = [hlock EXCEPT ![c] = l]
      /\ UNCHANGED <<wconn, job, midway>>
  BY DEF send_lock, HandleUnlocked, tasks
<1>3. c \in Conns
  BY <1>2, JobFacts, HttpServerAssumption DEF HasJob, Sends
<1>4. /\ pc'[l] = "head" /\ \A u \in Threads : u # l => pc'[u] = pc[u]
      /\ hlock' \in [Conns -> Loaders \cup {None}] /\ hlock'[c] = l
      /\ \A d \in Conns : d # c => hlock'[d] = hlock[d]
  BY <1>1, <1>2, <1>3, PcType DEF TypeOK, LoaderPC
<1>5. WriteInv'
  <2>1. \A u \in Loaders : u # l /\ pc[u] \in {"head", "body"} =>
            wconn[job[u]] \in Conns /\ wconn[job[u]] # c
    BY <1>1, <1>2, JobFacts, HttpServerAssumption DEF WriteInv, HasJob, Sends
  <2> HIDE DEF c
  <2>2. \A u \in Loaders : u # l /\ pc[u] \in {"head", "body"} =>
            hlock'[wconn[job[u]]] = hlock[wconn[job[u]]]
    BY <1>4, <2>1
  <2> QED BY <1>1, <1>2, <1>4, <2>2 DEF WriteInv, c
<1>6. midway' \in [Conns -> Workers \cup {None}]
  BY <1>1, <1>2 DEF TypeOK
<1> QED BY <1>4, <1>5, <1>6, SendStep DEF send_lock

\* The loaders at work on a handle other than l's.
LEMMA OtherWriters ==
  ASSUME Inv, NEW l \in Loaders, pc[l] \in {"head", "body"}
  PROVE  /\ wconn[job[l]] \in Conns /\ job[l] \in Workers
         /\ Target(l) = wconn[job[l]]
         /\ \A u \in Loaders : u # l /\ pc[u] \in {"head", "body"} =>
               wconn[job[u]] \in Conns /\ wconn[job[u]] # wconn[job[l]]
<1>1. WriteInv
  BY ActiveParts DEF Running
<1>2. \A u \in Loaders : pc[u] \in {"head", "body"} => HasJob(u)
  BY HttpServerAssumption DEF HasJob, Sends
<1>3. \A u \in Loaders : pc[u] \in {"head", "body"} => wconn[job[u]] \in Conns
  BY <1>2, JobFacts
<1>4. Target(l) = wconn[job[l]] /\ job[l] \in Workers
  BY <1>2, JobFacts DEF Target
<1> QED BY <1>1, <1>3, <1>4 DEF WriteInv

LEMMA SendHeader ==
  ASSUME Inv, NEW l \in Loaders, send_header(l)
  PROVE  Inv'
<1> DEFINE c == wconn[job[l]]
<1>1. TypeOK /\ WriteInv
  BY ActiveParts DEF send_header, Running
<1>2. pc[l] = "head" /\ Goto(l, "body") /\ UNCHANGED <<wconn, job, hlock>>
  BY DEF send_header, tasks, handles
<1>3. /\ c \in Conns /\ job[l] \in Workers /\ Target(l) = c
      /\ \A u \in Loaders : u # l /\ pc[u] \in {"head", "body"} =>
            wconn[job[u]] \in Conns /\ wconn[job[u]] # c
  BY <1>2, OtherWriters
<1>4. /\ pc'[l] = "body" /\ \A u \in Threads : u # l => pc'[u] = pc[u]
      /\ midway' \in [Conns -> Workers \cup {None}] /\ midway'[c] = job[l]
      /\ \A d \in Conns : d # c => midway'[d] = midway[d]
  BY <1>1, <1>2, <1>3, PcType DEF TypeOK, LoaderPC, send_header
<1>5. WriteInv'
  <2>1. hlock[c] = l
    BY <1>1, <1>2 DEF WriteInv
  <2> HIDE DEF c
  <2>2. \A u \in Loaders : u # l /\ pc[u] \in {"head", "body"} =>
            midway'[wconn[job[u]]] = midway[wconn[job[u]]]
    BY <1>3, <1>4
  <2> QED BY <1>1, <1>2, <1>4, <2>1, <2>2 DEF WriteInv, c
<1>6. hlock' \in [Conns -> Loaders \cup {None}]
  BY <1>1, <1>2 DEF TypeOK
<1> QED BY <1>4, <1>5, <1>6, SendStep DEF send_header, handles

\* An answer ends: the handle is unlocked and the loader goes on to release it.
LEMMA SendEnds ==
  ASSUME Inv, NEW l \in Loaders, send_body(l) \/ send_fails(l)
  PROVE  Inv'
<1> DEFINE c == wconn[job[l]]
<1>1. TypeOK /\ WriteInv
  BY ActiveParts DEF send_body, send_fails, Running
<1>2. /\ pc[l] \in {"head", "body"} /\ Goto(l, "release")
      /\ hlock' = [hlock EXCEPT ![c] = None]
      /\ UNCHANGED <<kernel, server, heap, hfd, ref, err, rbuf, tasks, cur, job, mainv>>
  BY DEF send_body, send_fails, Unlock
<1>3. /\ c \in Conns /\ Target(l) = c
      /\ \A u \in Loaders : u # l /\ pc[u] \in {"head", "body"} =>
            wconn[job[u]] \in Conns /\ wconn[job[u]] # c
  BY <1>2, OtherWriters
<1>4. midway' = midway \/ midway' = [midway EXCEPT ![c] = None]
  BY <1>3 DEF send_body, send_fails
<1>5. /\ pc'[l] = "release" /\ \A u \in Threads : u # l => pc'[u] = pc[u]
      /\ midway' \in [Conns -> Workers \cup {None}]
      /\ hlock' \in [Conns -> Loaders \cup {None}]
      /\ \A d \in Conns : d # c => midway'[d] = midway[d] /\ hlock'[d] = hlock[d]
  <2>1. "release" \in ReceiverPC \cup LoaderPC
    BY DEF LoaderPC
  <2>2. pc'[l] = "release" /\ \A u \in Threads : u # l => pc'[u] = pc[u]
    BY <1>1, <1>2, <2>1, PcType
  <2>3. midway \in [Conns -> Workers \cup {None}] /\ hlock \in [Conns -> Loaders \cup {None}]
    BY <1>1 DEF TypeOK
  <2> HIDE DEF c
  <2> QED BY <1>2, <1>3, <1>4, <2>2, <2>3
<1>6. UNCHANGED <<wconn, job>>
  BY <1>2 DEF tasks
<1>7. WriteInv'
  <2> HIDE DEF c
  <2>1. \A u \in Loaders : u # l /\ pc[u] \in {"head", "body"} =>
            /\ midway'[wconn[job[u]]] = midway[wconn[job[u]]]
            /\ hlock'[wconn[job[u]]] = hlock[wconn[job[u]]]
    BY <1>3, <1>5
  <2> QED BY <1>1, <1>5, <1>6, <2>1 DEF WriteInv
<1> HIDE DEF c
<1> QED BY <1>2, <1>5, <1>7, SendStep

-----------------------------------------------------------------------------
(* main. *)

\* A step of main that leaves the threads and their data alone.
LEMMA MainFrame ==
  ASSUME Inv, UNCHANGED <<fdt, reg, backlog, peer, sent, unread, fdset, ready, epollMutex,
                          mapMutex, closing, nowConn, handles, wconn, queue, midway, locals>>,
         edge' = edge \/ edge' = edge \cup {PipeFd}
  PROVE  CountInv' /\ LockInv' /\ (main # "done" => Running')
<1> USE DEF handles, locals
<1>1. CountInv'
  BY CountFrame DEF Inv
<1>2. LockInv'
  BY DEF Inv, LockInv
<1>3. ASSUME main # "done" PROVE Running'
  <2>1. Running
    BY <1>3 DEF Inv, Running
  <2>2. JobInv'
    BY <2>1 DEF Running, JobInv, HasJob
  <2>3. RefInv' /\ FreshInv'
    BY <2>1, RefFrame, FreshFrame DEF Running
  <2>4. MapInv' /\ WriteInv'
    BY <2>1, MapFrame, WriteFrame DEF Running
  <2>5. EpollInv'
    BY <2>1, HttpServerAssumption DEF Running, EpollInv
  <2> QED BY <2>2, <2>3, <2>4, <2>5 DEF Running
<1> QED BY <1>1, <1>2, <1>3

LEMMA StopTask ==
  ASSUME Inv, stop_task
  PROVE  Inv'
<1>1. TypeOK /\ JoinInv
  BY DEF Inv
<1>2. TypeOK'
  BY <1>1 DEF TypeOK, stop_task, kernel, handles, tasks, locals
<1>3. JoinInv'
  BY <1>1 DEF JoinInv, stop_task, tasks, locals
<1> QED BY <1>2, <1>3, MainFrame, InvFromParts DEF stop_task, kernel, tasks

LEMMA StopWritePipe ==
  ASSUME Inv, stop_write_pipe
  PROVE  Inv'
<1>1. TypeOK /\ JoinInv
  BY DEF Inv
<1>2. TypeOK'
  BY <1>1 DEF TypeOK, stop_write_pipe, server, handles, tasks, locals
<1>3. JoinInv'
  BY <1>1 DEF JoinInv, stop_write_pipe, tasks, locals
<1> QED BY <1>2, <1>3, MainFrame, InvFromParts DEF stop_write_pipe, server, tasks

LEMMA Flush ==
  ASSUME Inv, flush
  PROVE  Inv'
<1>1. TypeOK /\ JoinInv
  BY DEF Inv
<1>2. TypeOK'
  BY <1>1 DEF TypeOK, flush, kernel, server, handles, locals
<1>3. JoinInv'
  BY <1>1 DEF JoinInv, flush, ReceiversJoined, locals
<1> QED BY <1>2, <1>3, MainFrame, InvFromParts DEF flush, kernel, server

LEMMA JoinThread ==
  ASSUME Inv, NEW t \in Threads, join_thread(t)
  PROVE  Inv'
<1>1. TypeOK /\ JoinInv
  BY DEF Inv
<1>2. TypeOK'
  BY <1>1 DEF TypeOK, join_thread, kernel, server, handles, tasks, locals
<1>3. JoinInv'
  BY <1>1 DEF JoinInv, join_thread, tasks, locals
<1>4. CountInv' /\ LockInv' /\ (main # "done" => Running')
  BY MainFrame DEF join_thread, kernel, server, tasks
<1> QED BY <1>2, <1>3, <1>4 DEF Inv, Running, join_thread

LEMMA KillThread ==
  ASSUME Inv, NEW t \in Threads, kill_thread(t)
  PROVE  Inv'
<1>1. TypeOK /\ LockInv /\ JoinInv
  BY DEF Inv
<1>2. UNCHANGED <<kernel, fdset, ready, mapMutex, closing, nowConn, stopTask, handles,
                  tasks, midway, cur, job, main, joined>> /\ victim' = t
  BY DEF kill_thread
<1>3. CASE pc[t] = "wait"
  <2>1. t \in Receivers
    BY <1>1, <1>3 DEF LockInv, LoaderPC
  <2>2. Goto(t, "top") /\ epollMutex' = None
    BY <1>3 DEF kill_thread
  <2>3. "top" \in ReceiverPC /\ "top" \notin Busy \cup Sends \cup HoldsEpollMutex \cup {"insert"}
        /\ "wait" \in HoldsEpollMutex
    BY DEF ReceiverPC, Busy, Taken, Sends, HoldsEpollMutex
  <2>4. CountInv' /\ JoinInv' /\ Running'
    BY <1>2, <1>3, <2>2, <2>3, QuietStep
  <2>5. pc' \in [Threads -> ReceiverPC \cup LoaderPC]
    BY <1>1, <2>2, <2>3, PcType
  <2>6. TypeOK'
    BY <1>1, <1>2, <2>2, <2>5 DEF TypeOK, kernel, handles, tasks
  <2>7. LockInv'
    BY <1>1, <1>2, <1>3, <2>1, <2>2, <2>3, ReceiverMoves
  <2> QED BY <2>4, <2>6, <2>7, InvFromParts
<1>4. CASE pc[t] # "wait"
  <2>1. UNCHANGED <<epollMutex, pc>>
    BY <1>4 DEF kill_thread
  <2>2. TypeOK'
    BY <1>1, <1>2, <2>1 DEF TypeOK, kernel, handles, tasks
  <2>3. JoinInv'
    BY <1>1, <1>2, <2>1 DEF JoinInv, tasks
  <2>4. CountInv' /\ LockInv' /\ (main # "done" => Running')
    BY <1>2, <2>1, MainFrame DEF kernel, tasks, locals
  <2> QED BY <1>2, <2>2, <2>3, <2>4 DEF Inv, Running
<1> QED BY <1>3, <1>4

LEMMA Destroy ==
  ASSUME Inv, destroy
  PROVE  Inv'
<1>1. TypeOK /\ CountInv /\ LockInv /\ JoinInv
  BY DEF Inv
<1>2. main = "loaders" /\ main' = "done" /\ Loaders \subseteq joined
  BY DEF destroy
<1>3. UNCHANGED <<backlog, peer, sent, unread, fdset, ready, epollMutex, mapMutex, closing,
                  nowConn, stopTask, hfd, ref, err, rbuf, hlock, wconn, queue, qalive, midway,
                  pc, cur, job, victim, joined>>
  BY DEF destroy, server, tasks, locals
<1>4. /\ fdt' \in [Fds -> Conns \cup {None}] /\ reg' \subseteq Fds /\ edge' \subseteq Events
      /\ heap' \in [Conns -> {"none", "live", "freed"}]
  BY <1>1 DEF TypeOK, destroy
<1>5. TypeOK'
  BY <1>1, <1>2, <1>3, <1>4 DEF TypeOK
<1>6. CountInv' /\ LockInv'
  BY <1>1, <1>3 DEF CountInv, LockInv
<1>7. JoinInv'
  BY <1>1, <1>2, <1>3 DEF JoinInv
<1> QED BY <1>2, <1>5, <1>6, <1>7 DEF Inv

LEMMA Stuttering ==
  ASSUME Inv, UNCHANGED vars
  PROVE  Inv'
<1>1. UNCHANGED <<main, stopTask, edge, qalive, victim, joined, fdt, reg, backlog, peer, sent,
                  unread, fdset, ready, epollMutex, mapMutex, closing, nowConn, handles, wconn,
                  queue, midway, locals>>
  BY DEF vars, kernel, server, tasks, mainv
<1>2. TypeOK /\ JoinInv
  BY DEF Inv
<1>3. TypeOK' /\ JoinInv'
  BY <1>1, <1>2 DEF TypeOK, JoinInv, handles, locals
<1>4. CountInv' /\ LockInv' /\ (main # "done" => Running')
  BY <1>1, MainFrame
<1> QED BY <1>1, <1>3, <1>4 DEF Inv, Running

-----------------------------------------------------------------------------
(* The invariant is inductive. *)

LEMMA ReceiverStep ==
  ASSUME Inv, NEW r \in Receivers, Receiver(r)
  PROVE  Inv'
  BY SvcTop, SvcLock, EpollWait, SvcTake, AcceptOne, AcceptFails, CreateHandle, AcceptRegister,
     GetHandle, RecvComplete, RecvInvalid, RecvFails, SubmitWorker, RecvAdd, RecvError,
     ReleaseStep
     DEF Receiver, Accept, Receive

LEMMA LoaderStep ==
  ASSUME Inv, NEW l \in Loaders, Loader(l)
  PROVE  Inv'
  BY LoaderGet, LoaderNull, SendLock, SendHeader, SendEnds, ReleaseStep DEF Loader

LEMMA NextInv ==
  ASSUME Inv, [Next]_vars
  PROVE  Inv'
<1>1. ASSUME NEW c \in Conns, Client(c) PROVE Inv'
  BY <1>1, ClientStep
<1>2. ASSUME NEW r \in Receivers, Receiver(r) PROVE Inv'
  BY <1>2, ReceiverStep
<1>3. ASSUME NEW l \in Loaders, Loader(l) \/ makePath_exhausted(l) PROVE Inv'
  BY <1>3, LoaderStep, Exhausted
<1>4. ASSUME stop_task PROVE Inv'
  BY <1>4, StopTask
<1>5. ASSUME Stop PROVE Inv'
  BY <1>5, StopWritePipe, KillThread, JoinThread, Flush, Destroy DEF Stop
<1>6. ASSUME UNCHANGED vars PROVE Inv'
  BY <1>6, Stuttering
<1> QED BY <1>1, <1>2, <1>3, <1>4, <1>5, <1>6 DEF Next, Step

\* The invariant of HttpServerInv holds in every reachable state.
THEOREM Safety == Spec => []Inv
<1>1. Inv /\ [Next]_vars => Inv'
  BY NextInv
<1> QED BY InitInv, <1>1, PTL DEF Spec

-----------------------------------------------------------------------------
(* What it implies. *)

\* Every variable keeps its type; in particular no counter of requests leaves
\* its bound.
THEOREM TypeCorrect == Spec => []TypeOK
<1>1. Inv => TypeOK
  BY DEF Inv
<1> QED BY <1>1, Safety, PTL

\* assert(hdle) at http_server.cpp:266 never fails, for any number of threads
\* and descriptors and any reuse of descriptor numbers by the kernel.
THEOREM AssertHolds == Spec => []HandleFound
<1>1. Inv => HandleFound
  <2> SUFFICES ASSUME Inv, NEW r \in Receivers, pc[r] = "handle"
               PROVE  fdset[cur[r]] # None
    BY DEF HandleFound
  <2>1. EpollInv /\ pc[r] \in Busy
    BY ActiveParts DEF Running, Busy, Taken
  <2> QED BY <2>1 DEF EpollInv
<1> QED BY <1>1, Safety, PTL

\* _read_buf is never used by two receivers: taking a descriptor out of epoll
\* (http_server.cpp:121) is all the mutual exclusion that it needs.
THEOREM ReceiversExclude == Spec => []ExclusiveReceive
<1>1. Inv => ExclusiveReceive
  <2> SUFFICES ASSUME Inv, NEW r \in Receivers, NEW s \in Receivers,
                      pc[r] \in Taken, pc[s] \in Taken, cur[r] = cur[s]
               PROVE  r = s
    BY DEF ExclusiveReceive
  <2>1. EpollInv
    BY ActiveParts DEF Running, Taken
  <2> QED BY <2>1 DEF EpollInv, Busy
<1> QED BY <1>1, Safety, PTL

\* No use after free and no write to a stranger: the reference count protects
\* the handle and the descriptor of every worker (http_server.cpp:247-263).
THEOREM HandlesStayLive == Spec => []HeldHandleIsLive
<1>1. Inv => HeldHandleIsLive
  <2> SUFFICES ASSUME Inv, main # "done", NEW w \in Workers, wconn[w] # None
               PROVE  heap[wconn[w]] = "live" /\ fdt[hfd[wconn[w]]] = wconn[w]
    BY DEF HeldHandleIsLive
  <2>1. MapInv /\ wconn[w] \in Conns
    BY DEF Inv, TypeOK
  <2>2. heap[wconn[w]] = "live" /\ closing # wconn[w]
    BY <2>1, HttpServerAssumption DEF MapInv, Held
  <2> QED BY <2>1, <2>2, HttpServerAssumption DEF MapInv
<1> QED BY <1>1, Safety, PTL

\* hdle->lock() keeps the header and the body of an answer together
\* (http_server.cpp:369-376).
THEOREM AnswersStayWhole == Spec => []BodyFollowsHeader
<1>1. Inv => BodyFollowsHeader
  <2> SUFFICES ASSUME Inv, NEW l \in Loaders, pc[l] = "body"
               PROVE  midway[wconn[job[l]]] = job[l]
    BY DEF BodyFollowsHeader
  <2>1. WriteInv
    BY ActiveParts DEF Running
  <2> QED BY <2>1 DEF WriteInv
<1> QED BY <1>1, Safety, PTL

\* main's order of stops (main.cpp:75-76) makes put() succeed for every
\* complete request.
THEOREM SubmitBeforeFlush == Spec => []NoSubmitAfterFlush
<1>1. Inv => NoSubmitAfterFlush
  BY DEF Inv, JoinInv, NoSubmitAfterFlush
<1> QED BY <1>1, Safety, PTL

\* The only step that inserts a handle is create_handle, under _map_mutex.
LEMMA InsertMove ==
  ASSUME Inv, Next, NEW r \in Receivers, pc[r] = "insert", pc'[r] = "register"
  PROVE  mapMutex = None
<1>1. TypeOK /\ r \in Threads /\ r \notin Loaders
  BY HttpServerAssumption DEF Inv
<1>2. pc' # pc
  OBVIOUS
<1>3. ASSUME NEW t \in Threads, NEW label, Goto(t, label) PROVE t = r
  BY <1>1, <1>3 DEF TypeOK, Goto
<1>4. ~\E c \in Conns : Client(c)
  BY <1>2 DEF Client, ClientConnect, ClientSend, ClientShut, locals
<1>5. ~stop_task /\ ~stop_write_pipe /\ ~flush /\ ~destroy /\ ~UNCHANGED vars
  BY <1>2 DEF stop_task, stop_write_pipe, flush, destroy, locals, vars
<1>6. ~\E t \in Threads : kill_thread(t) \/ join_thread(t)
  BY <1>1, <1>2 DEF kill_thread, join_thread, locals, Goto, TypeOK
<1>7. ~\E l \in Loaders : Loader(l) \/ makePath_exhausted(l)
  <2> SUFFICES ASSUME NEW l \in Loaders, Loader(l) \/ makePath_exhausted(l) PROVE FALSE
    OBVIOUS
  <2>1. \E label : Goto(l, label)
    BY DEF Loader, Release, loader_get, makePath_exhausted, loader_null, send_lock,
           send_header, send_body, send_fails, release_handle, release_erase
  <2> QED BY <1>1, <1>3, <2>1
<1>8. PICK s \in Receivers : Receiver(s)
  BY <1>4, <1>5, <1>6, <1>7 DEF Next, Step, Stop
<1>9. \E label : Goto(s, label)
  BY <1>8 DEF Receiver, Accept, Receive, Release, svc_top, svc_lock, epoll_wait, svc_take,
              accept, accept_fails, create_handle, accept_register, get_handle, recv_complete,
              recv_invalid, recv_fails, submit_worker, recv_add, recv_error, release_handle,
              release_erase
<1>10. s = r
  BY <1>3, <1>9
<1>11. create_handle(r)
  BY <1>8, <1>10 DEF Receiver, Accept, Receive, Release, svc_top, svc_lock, epoll_wait,
              svc_take, accept, accept_fails, accept_register, get_handle, recv_complete,
              recv_invalid, recv_fails, submit_worker, recv_add, recv_error, release_handle,
              release_erase
<1> QED BY <1>11 DEF create_handle, MapMutexFree

\* m_fd_set.insert (http_server.cpp:224) never meets an old entry: a number the
\* kernel gives out again is inserted only after its old entry is erased.
THEOREM InsertSucceeds == Spec => InsertNeverFails
<1> DEFINE P == \A r \in Receivers : pc[r] = "insert" /\ pc'[r] = "register" => fdset[cur[r]] = None
<1>1. Inv /\ [Next]_vars => [P]_vars
  <2> SUFFICES ASSUME Inv, Next, NEW r \in Receivers, pc[r] = "insert", pc'[r] = "register"
               PROVE  fdset[cur[r]] = None
    OBVIOUS
  <2>1. TypeOK /\ LockInv /\ MapInv
    BY ActiveParts DEF Running
  <2>2. mapMutex = None
    BY InsertMove
  <2>3. closing = None
    BY <2>1, <2>2 DEF LockInv
  <2> QED BY <2>1, <2>3 DEF MapInv
<1> QED BY <1>1, Safety, PTL DEF Spec, InsertNeverFails

-----------------------------------------------------------------------------
(* No event is lost: EventInv of HttpServerInv, on top of Inv.              *)

\* Where the receivers are that will still look at the pending connections.
AcceptLoop == {"accept", "insert", "register"}

\* What a registered descriptor refers to.
LEMMA RegisteredConn ==
  ASSUME Inv, EventInv, NEW f \in reg
  PROVE  f \in Fds /\ fdt[f] \in Conns /\ f # ListenFd /\ f # PipeFd
<1>1. main # "done"
  BY DEF EventInv
<1>2. TypeOK /\ EpollInv
  BY <1>1 DEF Inv
<1> QED BY <1>2, HttpServerAssumption DEF TypeOK, EpollInv

-----------------------------------------------------------------------------
(* Frame lemmas. *)

\* A step that leaves epoll alone and makes no connection readable.
LEMMA EdgeFrame ==
  ASSUME Inv, EventInv, UNCHANGED <<fdt, reg, edge, ready, peer>>,
         \A c \in Conns : unread'[c] > 0 => unread[c] > 0
  PROVE  NoLostEdge'
<1> SUFFICES ASSUME NEW f \in reg', Readable(fdt[f])'
             PROVE  f \in (edge \cup Range(ready))'
  BY DEF NoLostEdge
<1>1. f \in reg /\ fdt'[f] = fdt[f] /\ fdt[f] \in Conns
  BY RegisteredConn
<1>2. Readable(fdt[f])
  BY <1>1 DEF Readable
<1> QED BY <1>1, <1>2 DEF EventInv, NoLostEdge

\* The threads that do not step keep their place, so a receiver in the accept
\* loop stays there unless it is the one that steps.
LEMMA BacklogFrame ==
  ASSUME TypeOK, NEW t \in Threads, NEW label \in ReceiverPC \cup LoaderPC, Goto(t, label),
         pc[t] \in AcceptLoop => label \in AcceptLoop,
         backlog' \subseteq backlog,
         ListenFd \in edge \cup Range(ready) => ListenFd \in edge' \cup Range(ready')
  PROVE  KeepsBacklog
<1>1. pc'[t] = label /\ \A u \in Threads : u # t => pc'[u] = pc[u]
  BY PcType
<1> SUFFICES ASSUME BacklogNoticed, backlog # {},
                    \E r \in Receivers : pc[r] \in AcceptLoop
             PROVE  \E r \in Receivers : pc'[r] \in AcceptLoop
  BY DEF KeepsBacklog, BacklogNoticed, AcceptLoop
<1>2. PICK r \in Receivers : pc[r] \in AcceptLoop
  OBVIOUS
<1> QED BY <1>1, <1>2

\* A step of a thread that leaves the kernel and the ready events alone.
LEMMA QuietEvents ==
  ASSUME Inv, EventInv, NEW t \in Threads, NEW label \in ReceiverPC \cup LoaderPC,
         Goto(t, label), label # "wait", pc[t] # "exit",
         pc[t] \in AcceptLoop => label \in AcceptLoop,
         UNCHANGED <<fdt, reg, edge, backlog, peer, ready, main>>,
         \A c \in Conns : unread'[c] > 0 => unread[c] > 0
  PROVE  EventInv' /\ KeepsBacklog
<1>1. TypeOK /\ main # "done"
  BY ActiveParts
<1>2. pc'[t] = label /\ \A u \in Threads : u # t => pc'[u] = pc[u]
  BY <1>1, PcType
<1>3. NoLostEdge'
  BY EdgeFrame
<1>4. KeepsBacklog
  BY <1>1, BacklogFrame
<1>5. \A s \in Receivers : pc'[s] = "wait" => ready' = <<>>
  BY <1>2 DEF EventInv
<1> QED BY <1>1, <1>3, <1>4, <1>5 DEF EventInv

\* A step of main or a client that moves no thread.
LEMMA StillEvents ==
  ASSUME EventInv, UNCHANGED <<pc, ready, backlog>>, edge \subseteq edge',
         NoLostEdge', main' = "done" => reg' = {}
  PROVE  EventInv' /\ KeepsBacklog
<1>1. EventInv'
  BY DEF EventInv
<1>2. KeepsBacklog
  BY DEF KeepsBacklog, BacklogNoticed
<1> QED BY <1>1, <1>2

-----------------------------------------------------------------------------
(* Clients. *)

LEMMA ClientEvents ==
  ASSUME Inv, EventInv, NEW c \in Conns, Client(c)
  PROVE  EventInv' /\ KeepsBacklog
<1>1. UNCHANGED <<fdt, reg, ready, pc, main>>
  BY DEF Client, ClientConnect, ClientSend, ClientShut, server, locals, mainv
<1>2. TypeOK
  BY DEF Inv
<1>3. ASSUME ClientConnect(c) PROVE EventInv' /\ KeepsBacklog
  <2>1. edge' = edge \cup {ListenFd} /\ unread' = unread
        /\ \A d \in Conns : peer'[d] = "shut" => peer[d] = "shut"
    BY <1>2, <1>3 DEF ClientConnect, TypeOK
  <2>2. NoLostEdge'
    <3> SUFFICES ASSUME NEW f \in reg, Readable(fdt[f])' PROVE f \in edge' \cup Range(ready)
      BY <1>1 DEF NoLostEdge
    <3>1. Readable(fdt[f])
      BY <1>1, <2>1, RegisteredConn DEF Readable
    <3> QED BY <2>1, <3>1 DEF EventInv, NoLostEdge
  <2>3. EventInv'
    BY <1>1, <2>2 DEF EventInv
  <2>4. KeepsBacklog
    BY <2>1 DEF KeepsBacklog, BacklogNoticed
  <2> QED BY <2>3, <2>4
<1>4. ASSUME ClientSend(c) \/ ClientShut(c) PROVE EventInv' /\ KeepsBacklog
  <2>1. edge' = edge \cup {f \in reg : fdt[f] = c} /\ backlog' = backlog
    BY <1>4 DEF ClientSend, ClientShut, Arrival
  <2>2. \A d \in Conns : d # c => unread'[d] = unread[d] /\ peer'[d] = peer[d]
    BY <1>2, <1>4 DEF ClientSend, ClientShut, TypeOK
  <2>3. NoLostEdge'
    <3> SUFFICES ASSUME NEW f \in reg, Readable(fdt[f])' PROVE f \in edge' \cup Range(ready)
      BY <1>1 DEF NoLostEdge
    <3>1. CASE fdt[f] = c
      BY <2>1, <3>1
    <3>2. CASE fdt[f] # c
      <4>1. Readable(fdt[f])
        BY <1>1, <2>2, <3>2, RegisteredConn DEF Readable
      <4> QED BY <2>1, <4>1 DEF EventInv, NoLostEdge
    <3> QED BY <3>1, <3>2
  <2>4. main' = "done" => reg' = {}
    BY <1>1 DEF EventInv
  <2> QED BY <1>1, <2>1, <2>3, <2>4, StillEvents
<1> QED BY <1>3, <1>4 DEF Client

-----------------------------------------------------------------------------
(* Http_Server::svc. *)

LEMMA SvcTopEvents ==
  ASSUME Inv, EventInv, NEW r \in Receivers, svc_top(r)
  PROVE  EventInv' /\ KeepsBacklog
<1>1. PICK label \in {"exit", "lock"} : Goto(r, label)
  BY DEF svc_top
<1>2. /\ pc[r] = "top" /\ unread' = unread
      /\ UNCHANGED <<fdt, reg, edge, backlog, peer, ready, main>>
  BY DEF svc_top, kernel, server, mainv
<1> QED BY <1>1, <1>2, QuietEvents DEF ReceiverPC, AcceptLoop

\* A receiver goes on to epoll_wait only when no ready event is left.
LEMMA SvcLockEvents ==
  ASSUME Inv, EventInv, NEW r \in Receivers, svc_lock(r)
  PROVE  EventInv' /\ KeepsBacklog
<1>1. PICK label \in {"exit", "wait", "take"} :
          Goto(r, label) /\ (label = "wait" => ready = <<>>)
  BY DEF svc_lock, NoEventsLeft
<1>2. /\ pc[r] = "lock" /\ unread' = unread
      /\ UNCHANGED <<fdt, reg, edge, backlog, peer, ready, main>>
  BY DEF svc_lock, kernel, mainv
<1>3. TypeOK /\ main # "done"
  BY <1>2, ActiveParts
<1>4. label \in ReceiverPC /\ label \notin AcceptLoop /\ pc[r] \notin AcceptLoop
  BY <1>2 DEF ReceiverPC, AcceptLoop
<1>5. pc'[r] = label /\ \A u \in Threads : u # r => pc'[u] = pc[u]
  BY <1>1, <1>3, <1>4, PcType
<1>6. NoLostEdge'
  BY <1>2, EdgeFrame
<1>7. KeepsBacklog
  BY <1>1, <1>2, <1>3, <1>4, BacklogFrame
<1>8. \A s \in Receivers : pc'[s] = "wait" => ready' = <<>>
  BY <1>1, <1>2, <1>5 DEF EventInv
<1> QED BY <1>2, <1>3, <1>6, <1>7, <1>8 DEF EventInv

\* epoll_wait moves edges to the ready events; nothing is overwritten, and
\* what does not fit stays an edge.
LEMMA EpollWaitEvents ==
  ASSUME Inv, EventInv, NEW r \in Receivers, epoll_wait(r)
  PROVE  EventInv' /\ KeepsBacklog
<1>1. /\ pc[r] = "wait" /\ Goto(r, "take") /\ unread' = unread
      /\ UNCHANGED <<fdt, reg, backlog, peer, main>>
  BY DEF epoll_wait, mainv
<1>2. TypeOK /\ LockInv /\ main # "done"
  BY <1>1, ActiveParts
<1>3. "take" \in ReceiverPC /\ "take" \notin AcceptLoop /\ pc[r] \notin AcceptLoop
  BY <1>1 DEF ReceiverPC, AcceptLoop
<1>4. pc'[r] = "take" /\ \A u \in Threads : u # r => pc'[u] = pc[u]
  BY <1>1, <1>2, <1>3, PcType
<1>5. PICK n \in 1..MaxEvents : \E a \in [1..n -> edge] :
          ready' = a /\ edge' = edge \ {a[i] : i \in 1..n}
  BY DEF epoll_wait
<1>6. PICK a \in [1..n -> edge] : ready' = a /\ edge' = edge \ {a[i] : i \in 1..n}
  BY <1>5
<1>7. edge \cup Range(ready) \subseteq edge' \cup Range(ready')
  <2>1. ready = <<>>
    BY <1>1 DEF EventInv
  <2>2. Range(ready) = {}
    BY <2>1 DEF Range
  <2>3. Range(ready') = {a[i] : i \in 1..n}
    BY <1>6 DEF Range
  <2> QED BY <1>6, <2>2, <2>3
<1>8. NoLostEdge'
  BY <1>1, <1>7 DEF EventInv, NoLostEdge, Readable
<1>9. KeepsBacklog
  BY <1>1, <1>2, <1>3, <1>7, BacklogFrame
<1>10. \A s \in Receivers : pc'[s] # "wait"
  BY <1>1, <1>2, <1>4, HttpServerAssumption DEF LockInv, HoldsEpollMutex
<1> QED BY <1>1, <1>2, <1>8, <1>9, <1>10 DEF EventInv

\* The entry that is taken is the listening socket, whose receiver enters the
\* accept loop, or a connection, which leaves the epoll set.
LEMMA SvcTakeEvents ==
  ASSUME Inv, EventInv, NEW r \in Receivers, svc_take(r)
  PROVE  EventInv' /\ KeepsBacklog
<1> DEFINE fd == ready[Len(ready)]
<1>1. /\ pc[r] = "take" /\ ready # <<>> /\ ready' = SubSeq(ready, 1, Len(ready) - 1)
      /\ UNCHANGED <<fdt, backlog, peer, unread, main>>
  BY DEF svc_take, mainv
<1>2. TypeOK /\ LockInv /\ main # "done"
  BY <1>1, ActiveParts
<1>3. Range(ready) \subseteq Range(ready') \cup {fd}
  <2>1. /\ ready' \in Seq(Events) /\ Len(ready') = Len(ready) - 1
        /\ Len(ready) \in Nat \ {0}
        /\ \A i \in 1..(Len(ready) - 1) : ready'[i] = ready[i]
    BY <1>1, <1>2, ReadyFront
  <2>2. DOMAIN ready' = 1..Len(ready') /\ DOMAIN ready = 1..Len(ready)
    BY <1>2, <2>1, LenProperties DEF TypeOK
  <2> QED BY <2>1, <2>2 DEF Range
<1>4. PICK label \in {"accept", "top", "handle"} :
          /\ Goto(r, label)
          /\ fd = ListenFd => label = "accept"
          /\ \/ fd \notin Fds /\ UNCHANGED <<reg, edge>>
             \/ fd \in Fds /\ reg' = reg \ {fd} /\ edge' = edge \ {fd}
  <2>1. CASE fd = ListenFd
    BY <2>1, HttpServerAssumption DEF svc_take
  <2>2. CASE fd = PipeFd
    BY <2>2, HttpServerAssumption DEF svc_take
  <2>3. CASE fd \in Fds
    BY <2>3, HttpServerAssumption DEF svc_take, del_input_fd
  <2> QED BY <2>1, <2>2, <2>3 DEF svc_take
<1>5. label \in ReceiverPC
  BY DEF ReceiverPC
<1>6. pc'[r] = label /\ \A u \in Threads : u # r => pc'[u] = pc[u]
  BY <1>2, <1>4, <1>5, PcType
<1>7. NoLostEdge'
  <2> SUFFICES ASSUME NEW f \in reg', Readable(fdt[f])' PROVE f \in edge' \cup Range(ready')
    BY DEF NoLostEdge
  <2>1. f \in reg /\ f # fd
    BY <1>4, RegisteredConn
  <2>2. Readable(fdt[f])
    BY <1>1 DEF Readable
  <2> QED BY <1>3, <1>4, <2>1, <2>2 DEF EventInv, NoLostEdge
<1>8. KeepsBacklog
  <2>1. CASE label = "accept"
    BY <1>6, <2>1 DEF KeepsBacklog, BacklogNoticed
  <2>2. CASE label # "accept"
    <3>1. ListenFd \in edge \cup Range(ready) => ListenFd \in edge' \cup Range(ready')
      BY <1>3, <1>4, <2>2, HttpServerAssumption
    <3> QED BY <1>1, <1>2, <1>4, <1>5, <3>1, BacklogFrame DEF AcceptLoop
  <2> QED BY <2>1, <2>2
<1>9. \A s \in Receivers : pc'[s] # "wait"
  BY <1>1, <1>2, <1>6, HttpServerAssumption DEF LockInv, HoldsEpollMutex
<1> QED BY <1>1, <1>2, <1>7, <1>8, <1>9 DEF EventInv

-----------------------------------------------------------------------------
(* The accept loop. *)

LEMMA AcceptEvents ==
  ASSUME Inv, EventInv, NEW r \in Receivers, accept(r)
  PROVE  EventInv' /\ KeepsBacklog
<1>1. /\ pc[r] = "accept" /\ Goto(r, "insert")
      /\ UNCHANGED <<reg, edge, peer, unread, ready, main>>
  BY DEF accept, mainv
<1>2. TypeOK /\ main # "done"
  BY <1>1, ActiveParts
<1>3. "insert" \in ReceiverPC \cap AcceptLoop
  BY DEF ReceiverPC, AcceptLoop
<1>4. pc'[r] = "insert" /\ \A u \in Threads : u # r => pc'[u] = pc[u]
  BY <1>1, <1>2, <1>3, PcType
<1>5. PICK c \in backlog, g \in Fds :
          fdt[g] = None /\ fdt' = [fdt EXCEPT ![g] = c] /\ backlog' = backlog \ {c}
  BY DEF accept
<1>6. NoLostEdge'
  <2> SUFFICES ASSUME NEW f \in reg, Readable(fdt[f])' PROVE f \in edge \cup Range(ready)
    BY <1>1 DEF NoLostEdge
  <2>1. f \in Fds /\ fdt[f] \in Conns
    BY RegisteredConn
  <2>2. fdt'[f] = fdt[f]
    BY <1>2, <1>5, <2>1, HttpServerAssumption DEF TypeOK
  <2>3. Readable(fdt[f])
    BY <1>1, <2>2 DEF Readable
  <2> QED BY <2>3 DEF EventInv, NoLostEdge
<1>7. KeepsBacklog
  BY <1>1, <1>2, <1>3, <1>5, BacklogFrame
<1>8. \A s \in Receivers : pc'[s] = "wait" => ready' = <<>>
  BY <1>1, <1>4 DEF EventInv
<1> QED BY <1>1, <1>2, <1>6, <1>7, <1>8 DEF EventInv

\* The loop ends because nothing is pending, or for want of a descriptor.
LEMMA AcceptFailsEvents ==
  ASSUME Inv, EventInv, NEW r \in Receivers, accept_fails(r)
  PROVE  EventInv' /\ KeepsBacklog
<1>1. /\ pc[r] = "accept" /\ Goto(r, "top") /\ unread' = unread
      /\ UNCHANGED <<fdt, reg, edge, backlog, peer, ready, main>>
      /\ backlog = {} \/ \A f \in Fds : fdt[f] # None
  BY DEF accept_fails, kernel, mainv
<1>2. TypeOK /\ main # "done"
  BY <1>1, ActiveParts
<1>3. "top" \in ReceiverPC
  BY DEF ReceiverPC
<1>4. pc'[r] = "top" /\ \A u \in Threads : u # r => pc'[u] = pc[u]
  BY <1>1, <1>2, <1>3, PcType
<1>5. NoLostEdge'
  BY <1>1, EdgeFrame
<1>6. KeepsBacklog
  BY <1>1 DEF KeepsBacklog, BacklogNoticed, AcceptNotStarved
<1>7. \A s \in Receivers : pc'[s] = "wait" => ready' = <<>>
  BY <1>1, <1>4 DEF EventInv
<1> QED BY <1>1, <1>2, <1>5, <1>6, <1>7 DEF EventInv

LEMMA CreateHandleEvents ==
  ASSUME Inv, EventInv, NEW r \in Receivers, create_handle(r)
  PROVE  EventInv' /\ KeepsBacklog
<1>1. /\ pc[r] = "insert" /\ Goto(r, "register") /\ unread' = unread
      /\ UNCHANGED <<fdt, reg, edge, backlog, peer, ready, main>>
  BY DEF create_handle, kernel, mainv
<1> QED BY <1>1, QuietEvents DEF ReceiverPC, AcceptLoop

\* A connection that became readable while it was out of the epoll set has its
\* edge as soon as it is back in.
LEMMA AddInputEvents ==
  ASSUME Inv, EventInv, NEW r \in Receivers, accept_register(r) \/ recv_add(r)
  PROVE  EventInv' /\ KeepsBacklog
<1> DEFINE g == cur[r]
<1>1. PICK label \in {"accept", "top"} : Goto(r, label) /\ (pc[r] = "register" => label = "accept")
  BY DEF accept_register, recv_add
<1>2. /\ pc[r] \in {"register", "add"} /\ unread' = unread
      /\ UNCHANGED <<fdt, backlog, peer, ready, main>>
      /\ add_input_fd(g)
  BY DEF accept_register, recv_add, server, mainv
<1>3. TypeOK /\ main # "done"
  BY <1>2, ActiveParts
<1>4. label \in ReceiverPC /\ (pc[r] \in AcceptLoop => label \in AcceptLoop)
  BY <1>1, <1>2 DEF ReceiverPC, AcceptLoop
<1>5. pc'[r] = label /\ \A u \in Threads : u # r => pc'[u] = pc[u]
  BY <1>1, <1>3, <1>4, PcType
<1>6. /\ edge \subseteq edge' /\ reg' \subseteq reg \cup {g}
      /\ g \in reg' /\ g \notin reg /\ Readable(fdt[g]) => g \in edge'
  BY <1>2 DEF add_input_fd
<1>7. NoLostEdge'
  BY <1>2, <1>6 DEF EventInv, NoLostEdge, Readable
<1>8. KeepsBacklog
  BY <1>1, <1>2, <1>3, <1>4, <1>6, BacklogFrame
<1>9. \A s \in Receivers : pc'[s] = "wait" => ready' = <<>>
  BY <1>2, <1>5 DEF EventInv
<1> QED BY <1>2, <1>3, <1>7, <1>8, <1>9 DEF EventInv

-----------------------------------------------------------------------------
(* Http_Server::recv_request. *)

\* A read only takes requests out of the socket.
LEMMA ReadEvents ==
  ASSUME Inv, EventInv, NEW r \in Receivers, recv_complete(r) \/ recv_invalid(r)
  PROVE  EventInv' /\ KeepsBacklog
<1>1. PICK label \in {"submit", "add"} : Goto(r, label)
  BY DEF recv_complete, recv_invalid
<1>2. /\ pc[r] = "read" /\ TakeRequest(wconn[job[r]])
      /\ UNCHANGED <<fdt, reg, edge, backlog, peer, ready, main>>
  BY DEF recv_complete, recv_invalid, server, mainv
<1>3. TypeOK /\ wconn[job[r]] \in Conns
  <2>1. HasJob(r)
    BY <1>2 DEF HasJob, Reads
  <2> QED BY <1>2, <2>1, JobFacts, ActiveParts
<1>4. \A c \in Conns : unread'[c] > 0 => unread[c] > 0
  <2>1. CASE unread' = unread
    BY <2>1
  <2>2. CASE unread' # unread
    <3>1. PICK k \in 1..unread[wconn[job[r]]] :
              unread' = [unread EXCEPT ![wconn[job[r]]] = @ - k]
      BY <1>2, <2>2 DEF TakeRequest
    <3>2. \A c \in Conns : unread[c] \in Nat
      BY <1>3, HttpServerAssumption DEF TypeOK
    <3>3. unread' = [unread EXCEPT ![wconn[job[r]]] = unread[wconn[job[r]]] - k]
          /\ unread \in [Conns -> 0..MaxSend]
      BY <1>3, <3>1 DEF TypeOK
    <3> QED BY <1>3, <3>1, <3>2, <3>3
  <2> QED BY <2>1, <2>2
<1> QED BY <1>1, <1>2, <1>4, QuietEvents DEF ReceiverPC, AcceptLoop

LEMMA ReceiveEvents ==
  ASSUME Inv, EventInv, NEW r \in Receivers,
         get_handle(r) \/ recv_fails(r) \/ submit_worker(r) \/ recv_error(r)
  PROVE  EventInv' /\ KeepsBacklog
<1>1. PICK label \in {"read", "error", "add", "release"} : Goto(r, label)
  BY DEF get_handle, recv_fails, submit_worker, recv_error
<1>2. /\ pc[r] \in {"handle", "read", "submit", "error"} /\ unread' = unread
      /\ UNCHANGED <<fdt, reg, edge, backlog, peer, ready, main>>
  BY DEF get_handle, recv_fails, submit_worker, recv_error, kernel, server, mainv
<1> QED BY <1>1, <1>2, QuietEvents DEF ReceiverPC, AcceptLoop

-----------------------------------------------------------------------------
(* Http_Server::release_handle. *)

\* A descriptor that is closed has left the epoll set.
LEMMA ReleaseEvents ==
  ASSUME Inv, EventInv, NEW t \in Threads, release_handle(t)
  PROVE  EventInv' /\ KeepsBacklog
<1> DEFINE c == wconn[job[t]]
<1>1. PICK label \in {"erase", "top", "get"} : Goto(t, label)
  BY DEF release_handle, AfterRelease
<1>2. /\ pc[t] = "release"
      /\ UNCHANGED <<backlog, peer, unread, ready, main>>
  BY DEF release_handle, mainv
<1>3. TypeOK /\ main # "done" /\ hfd[c] \in Fds
  <2>1. HasJob(t)
    BY <1>2 DEF HasJob, Reads, Sends
  <2> QED BY <1>2, <2>1, JobFacts, ActiveParts
<1>4. label \in ReceiverPC \cup LoaderPC /\ label # "wait" /\ pc[t] \notin AcceptLoop
  BY <1>2 DEF ReceiverPC, LoaderPC, AcceptLoop
<1>5. pc'[t] = label /\ \A u \in Threads : u # t => pc'[u] = pc[u]
  BY <1>1, <1>3, <1>4, PcType
<1>6. \/ UNCHANGED <<fdt, reg, edge>>
      \/ /\ reg' = reg \ {hfd[c]} /\ edge' = edge \ {hfd[c]}
         /\ fdt' = [fdt EXCEPT ![hfd[c]] = None]
  BY DEF release_handle, del_input_fd
<1>7. NoLostEdge'
  <2> SUFFICES ASSUME NEW f \in reg', Readable(fdt[f])' PROVE f \in edge' \cup Range(ready)
    BY <1>2 DEF NoLostEdge
  <2>1. f \in reg /\ fdt'[f] = fdt[f] /\ (f \in edge => f \in edge')
    BY <1>3, <1>6 DEF TypeOK
  <2>2. Readable(fdt[f])
    BY <1>2, <2>1 DEF Readable
  <2> QED BY <2>1, <2>2 DEF EventInv, NoLostEdge
<1>8. KeepsBacklog
  <2>1. ListenFd \in edge => ListenFd \in edge'
    BY <1>3, <1>6, HttpServerAssumption
  <2> QED BY <1>1, <1>2, <1>3, <1>4, <2>1, BacklogFrame
<1>9. \A s \in Receivers : pc'[s] = "wait" => ready' = <<>>
  BY <1>2, <1>4, <1>5 DEF EventInv
<1> QED BY <1>2, <1>3, <1>7, <1>8, <1>9 DEF EventInv

LEMMA EraseEvents ==
  ASSUME Inv, EventInv, NEW t \in Threads, release_erase(t)
  PROVE  EventInv' /\ KeepsBacklog
<1>1. PICK label \in {"top", "get"} : Goto(t, label)
  BY DEF release_erase, AfterRelease
<1>2. /\ pc[t] = "erase" /\ unread' = unread
      /\ UNCHANGED <<fdt, reg, edge, backlog, peer, ready, main>>
  BY DEF release_erase, kernel, mainv
<1> QED BY <1>1, <1>2, QuietEvents DEF ReceiverPC, LoaderPC, AcceptLoop

-----------------------------------------------------------------------------
(* Loaders and main. *)

LEMMA LoaderEvents ==
  ASSUME Inv, EventInv, NEW l \in Loaders, Loader(l) \/ makePath_exhausted(l)
  PROVE  EventInv' /\ KeepsBacklog
<1>1. CASE Release(l)
  BY <1>1, ReleaseEvents, EraseEvents DEF Release
<1>2. CASE ~Release(l)
  <2>1. PICK label \in LoaderPC \ {"get", "erase"} : Goto(l, label)
    BY <1>2 DEF Loader, loader_get, ParseEnds, makePath_exhausted, loader_null, send_lock,
                send_header, send_body, send_fails, LoaderPC
  <2>2. /\ pc[l] \in {"get", "stuck", "send", "head", "body"} /\ unread' = unread
        /\ UNCHANGED <<fdt, reg, edge, backlog, peer, ready, main>>
    BY <1>2 DEF Loader, loader_get, makePath_exhausted, loader_null, send_lock, send_header,
                send_body, send_fails, kernel, server, mainv
  <2> QED BY <2>1, <2>2, QuietEvents DEF LoaderPC, AcceptLoop
<1> QED BY <1>1, <1>2

\* The steps of main that move no thread.
LEMMA StopEvents ==
  ASSUME Inv, EventInv,
         stop_task \/ stop_write_pipe \/ flush \/ (\E t \in Threads : join_thread(t))
  PROVE  EventInv' /\ KeepsBacklog
<1>1. /\ UNCHANGED <<fdt, reg, backlog, peer, unread, ready, pc>> /\ edge \subseteq edge'
      /\ main' = "done" => main = "done"
  BY DEF stop_task, stop_write_pipe, flush, join_thread, kernel, server, locals
<1>2. NoLostEdge'
  BY <1>1 DEF EventInv, NoLostEdge, Readable
<1>3. main' = "done" => reg' = {}
  BY <1>1 DEF EventInv
<1> QED BY <1>1, <1>2, <1>3, StillEvents

LEMMA KillEvents ==
  ASSUME Inv, EventInv, NEW t \in Threads, kill_thread(t)
  PROVE  EventInv' /\ KeepsBacklog
<1>1. unread' = unread /\ UNCHANGED <<fdt, reg, edge, backlog, peer, ready, main>>
  BY DEF kill_thread, kernel
<1>2. CASE pc[t] = "wait"
  <2>1. Goto(t, "top")
    BY <1>2 DEF kill_thread
  <2> QED BY <1>1, <1>2, <2>1, QuietEvents DEF ReceiverPC, AcceptLoop
<1>3. CASE pc[t] # "wait"
  <2>1. pc' = pc
    BY <1>3 DEF kill_thread
  <2>2. NoLostEdge'
    BY <1>1, EdgeFrame
  <2> QED BY <1>1, <2>1, <2>2, StillEvents DEF EventInv
<1> QED BY <1>2, <1>3

\* ~Http_Server closes every registered descriptor.
LEMMA DestroyEvents ==
  ASSUME Inv, EventInv, destroy
  PROVE  EventInv' /\ KeepsBacklog
<1>1. /\ UNCHANGED <<backlog, ready, pc>> /\ main = "loaders"
      /\ reg' = {f \in reg : fdset[f] = None}
      /\ edge' = edge \ {f \in Fds : fdset[f] # None}
  BY DEF destroy, server, locals
<1>2. EpollInv
  BY <1>1 DEF Inv
<1>3. reg' = {}
  BY <1>1, <1>2 DEF EpollInv
<1>4. EventInv'
  BY <1>1, <1>3 DEF EventInv, NoLostEdge
<1>5. KeepsBacklog
  <2>1. ListenFd \in edge => ListenFd \in edge'
    BY <1>1, HttpServerAssumption
  <2> QED BY <1>1, <2>1 DEF KeepsBacklog, BacklogNoticed
<1> QED BY <1>4, <1>5

-----------------------------------------------------------------------------
(* Every step. *)

LEMMA ReceiverEvents ==
  ASSUME Inv, EventInv, NEW r \in Receivers, Receiver(r)
  PROVE  EventInv' /\ KeepsBacklog
  BY SvcTopEvents, SvcLockEvents, EpollWaitEvents, SvcTakeEvents, AcceptEvents,
     AcceptFailsEvents, CreateHandleEvents, AddInputEvents, ReadEvents, ReceiveEvents,
     ReleaseEvents, EraseEvents
     DEF Receiver, Accept, Receive, Release

LEMMA NextEvents ==
  ASSUME Inv, EventInv, [Next]_vars
  PROVE  EventInv' /\ KeepsBacklog
<1>1. ASSUME NEW c \in Conns, Client(c) PROVE EventInv' /\ KeepsBacklog
  BY <1>1, ClientEvents
<1>2. ASSUME NEW r \in Receivers, Receiver(r) PROVE EventInv' /\ KeepsBacklog
  BY <1>2, ReceiverEvents
<1>3. ASSUME NEW l \in Loaders, Loader(l) \/ makePath_exhausted(l)
      PROVE  EventInv' /\ KeepsBacklog
  BY <1>3, LoaderEvents
<1>4. ASSUME stop_task \/ Stop PROVE EventInv' /\ KeepsBacklog
  BY <1>4, StopEvents, KillEvents, DestroyEvents DEF Stop
<1>5. ASSUME UNCHANGED vars PROVE EventInv' /\ KeepsBacklog
  <2>1. UNCHANGED <<fdt, reg, edge, backlog, peer, unread, ready, pc, main>>
    BY <1>5 DEF vars, kernel, server, locals, mainv
  <2>2. NoLostEdge'
    BY <2>1, EdgeFrame
  <2> QED BY <2>1, <2>2, StillEvents DEF EventInv
<1> QED BY <1>1, <1>2, <1>3, <1>4, <1>5 DEF Next, Step

LEMMA InitEvents == Init => EventInv /\ BacklogNoticed
  BY DEF Init, EventInv, NoLostEdge, BacklogNoticed

\* The events of the receivers' protocol hold in every reachable state:
\* epoll_wait never overwrites an event that is still to be taken
\* (http_server.cpp:91-100), and no readable connection is forgotten.
THEOREM EventsKept == Spec => []EventInv
<1>1. Inv /\ EventInv /\ [Next]_vars => EventInv'
  BY NextEvents
<1> QED BY InitEvents, Safety, <1>1, PTL DEF Spec

\* A registered connection with something to read is never waited for in vain:
\* its edge is pending or its event is in _epoll_ready_event, although edges
\* are reported once and a descriptor leaves the epoll set while a receiver
\* works on it (http_server.cpp:91-121, :282).
THEOREM NoEdgeLost == Spec => []NoLostEdge
<1>1. EventInv => NoLostEdge
  BY DEF EventInv
<1> QED BY <1>1, EventsKept, PTL

\* A pending connection is never forgotten, as long as accept() is not refused
\* for want of a descriptor: the accept loop (http_server.cpp:104) drains the
\* backlog before it gives up the one edge that announced it.  Without that
\* hypothesis it would be forgotten until the next client connects.
THEOREM NoConnectionForgotten == Spec /\ []AcceptNotStarved => []BacklogNoticed
<1>1. Inv /\ EventInv /\ BacklogNoticed /\ AcceptNotStarved /\ [Next]_vars => BacklogNoticed'
  BY NextEvents DEF KeepsBacklog
<1> QED BY InitEvents, Safety, EventsKept, <1>1, PTL DEF Spec

\* The kernel's table maps no two descriptors to one connection.
LEMMA DescriptorsDistinct ==
  ASSUME Inv, main # "done", NEW f \in Fds, NEW g \in Fds, fdt[f] # None, fdt[f] = fdt[g]
  PROVE  f = g
<1>1. TypeOK /\ LockInv /\ MapInv
  BY DEF Inv
<1>2. \A h \in Fds : fdt[h] # None => fdt[h] \in Conns
  BY <1>1 DEF TypeOK
<1>3. CASE fdset[f] = fdt[f] /\ fdset[g] = fdt[g]
  BY <1>1, <1>3 DEF MapInv
<1>4. ASSUME NEW x \in Fds, NEW y \in Fds, fdt[x] # None, fdt[x] = fdt[y],
             fdset[x] # fdt[x]
      PROVE  x = y
  <2>1. PICK r \in Receivers : pc[r] = "insert" /\ cur[r] = x
    BY <1>1, <1>4 DEF MapInv
  <2>2. heap[fdt[x]] = "none"
    BY <1>1, <2>1 DEF MapInv
  <2>3. fdset[y] # fdt[y]
    BY <1>1, <1>4, <2>2 DEF MapInv
  <2>4. PICK s \in Receivers : pc[s] = "insert" /\ cur[s] = y
    BY <1>1, <1>4, <2>3 DEF MapInv
  <2>5. epollMutex = r /\ epollMutex = s
    BY <1>1, <2>1, <2>4 DEF LockInv, HoldsEpollMutex
  <2> QED BY <2>1, <2>4, <2>5
<1> QED BY <1>3, <1>4

\* In particular no pending connection is forgotten while there are never more
\* connections open at once than descriptors: those in use all belong to
\* connections that are accepted and not yet closed (http_server.cpp:104,
\* :249-254), so one is free for a connection that is pending.
THEOREM DescriptorsSuffice ==
  ASSUME IsFiniteSet(Conns), IsFiniteSet(Fds)
  PROVE  Spec /\ []FewOpen => []BacklogNoticed
<1>1. Inv /\ FewOpen => AcceptNotStarved
  <2> SUFFICES ASSUME Inv, FewOpen, NEW r \in Receivers, pc[r] = "accept", backlog # {},
                      \A f \in Fds : fdt[f] # None
               PROVE  FALSE
    BY DEF AcceptNotStarved
  <2> DEFINE Open == {c \in Conns : OpenAtServer(c)}
  <2>1. TypeOK /\ FreshInv /\ main # "done"
    BY ActiveParts DEF Running
  <2>2. PICK c \in backlog : c \in Open
    BY <2>1 DEF TypeOK, OpenAtServer
  <2>3. fdt \in [Fds -> Open \ {c}]
    BY <2>1, <2>2 DEF TypeOK, FreshInv, OpenAtServer
  <2>4. IsFiniteSet(Open) /\ Cardinality(Open) <= Cardinality(Fds)
    BY FS_Subset DEF FewOpen
  <2> HIDE DEF Open
  <2>5. /\ IsFiniteSet(Open \ {c}) /\ Cardinality(Open \ {c}) = Cardinality(Open) - 1
        /\ Cardinality(Open) \in Nat /\ Cardinality(Fds) \in Nat
    BY <2>2, <2>4, FS_RemoveElement, FS_CardinalityType
  <2>6. Cardinality(Open \ {c}) < Cardinality(Fds)
    BY <2>4, <2>5
  <2>7. \E f, g \in Fds : f # g /\ fdt[f] = fdt[g]
    BY <2>3, <2>5, <2>6, FS_PigeonHole
  <2> QED BY <2>1, <2>7, DescriptorsDistinct
<1> QED BY <1>1, Safety, NoConnectionForgotten, PTL
=============================================================================
