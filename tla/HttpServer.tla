----------------------------- MODULE HttpServer -----------------------------
(***************************************************************************)
(* The service of src/src/Worker: the receiver threads of Http_Server, the *)
(* loader threads of Worker_Loader, the SocketHandles they share, the      *)
(* epoll set that hands connections to receivers, and the shutdown driven  *)
(* by main.                                                                *)
(*                                                                         *)
(* A connection is an element of Conns; it has one SocketHandle, created   *)
(* when it is accepted, so the connection also names the handle.  Its file *)
(* descriptor is a number the kernel gives out again after a close.  A     *)
(* Worker holds one reference on a handle from get_handle to               *)
(* release_handle.  Bytes are abstracted to whole requests; whether a      *)
(* request parses, and whether a read or a write succeeds, is a choice.    *)
(*                                                                         *)
(* Steps end where another thread can see the difference.  m_fd_set and    *)
(* _ref are only used under _map_mutex, so get_handle and insert_handle    *)
(* are one step each; release_handle is two, because its close() shows in  *)
(* the kernel's descriptor table before the map entry is gone.  The task   *)
(* list is the atomic queue that module WaitList implements.               *)
(***************************************************************************)
EXTENDS Integers, Sequences, SequencesExt, FiniteSets

CONSTANTS Receivers,   \* threads of Http_Server
          Loaders,     \* threads of Worker_Loader
          Conns,       \* connections clients may open
          Fds,         \* descriptor numbers available for connections
          Workers,     \* Worker objects; bounds the requests in flight
          ListenFd,    \* _socket_server_listen
          PipeFd,      \* _pipe_read
          MaxSend,     \* bound: requests one client sends
          MaxEvents,   \* MAX_EPOLL_EVENT_NUM
          None

Threads == Receivers \cup Loaders
Events  == Fds \cup {ListenFd, PipeFd}

ASSUME HttpServerAssumption ==
    /\ Receivers \cap Loaders = {}
    /\ ListenFd \notin Fds \cup {PipeFd}
    /\ PipeFd \notin Fds
    /\ None \notin Threads \cup Conns \cup Fds \cup Workers
    /\ IsFiniteSet(Workers)
    /\ MaxSend \in Nat
    /\ MaxEvents \in Nat \ {0}

VARIABLES
    \* the kernel and the clients
    fdt,        \* descriptor table: the connection behind each descriptor
    reg,        \* connection descriptors in the epoll set
    edge,       \* descriptors with an unreported edge
    backlog,    \* connections waiting for accept
    peer,       \* client side: "new", "open", "shut"
    sent,       \* requests each client has sent
    unread,     \* requests waiting in the socket
    \* Http_Server
    fdset,      \* m_fd_set: descriptor -> handle
    ready,      \* _epoll_ready_event[0 .. _epoll_ready_event_num - 1]
    epollMutex, \* owner of _epoll_mutex
    mapMutex,   \* owner of _map_mutex between the two steps of release_handle
    closing,    \* hdle of that owner
    nowConn,    \* _now_connections
    stopTask,   \* _stop_task
    \* SocketHandle
    heap,       \* "none", "live", "freed"
    hfd,        \* _fd
    ref,        \* _ref
    err,        \* handles with ERROR_SOCKET in _flag
    rbuf,       \* whole requests left over in _read_buf
    hlock,      \* owner of _mutex
    \* Worker and Worker_Loader
    wconn,      \* the handle a Worker holds a reference on
    queue,      \* m_task_list, newest first
    qalive,     \* m_task_list._alive
    \* threads
    pc, cur,    \* program counter; the local fd of a receiver
    job,        \* the local worker
    midway,     \* the worker whose header is on the wire without its body
    main,       \* main's progress
    victim,     \* the thread join() has signalled and waits for
    joined      \* threads joined so far

kernel  == <<fdt, reg, edge, backlog, peer, sent, unread>>
server  == <<fdset, ready, epollMutex, mapMutex, closing, nowConn, stopTask>>
handles == <<heap, hfd, ref, err, rbuf, hlock>>
tasks   == <<wconn, queue, qalive>>
locals  == <<pc, cur, job>>
mainv   == <<main, victim, joined>>
vars    == <<kernel, server, handles, tasks, midway, locals, mainv>>

ReceiverPC == {"top", "lock", "wait", "take", "accept", "insert", "register",
               "handle", "read", "submit", "add", "error", "release", "erase",
               "exit"}
\* "stuck" and "died" are the ends of a parse_worker that does not return.
LoaderPC   == {"get", "stuck", "died", "send", "head", "body", "release", "erase",
               "exit"}

TypeOK ==
    /\ fdt \in [Fds -> Conns \cup {None}]
    /\ reg \subseteq Fds
    /\ edge \subseteq Events
    /\ backlog \subseteq Conns
    /\ peer \in [Conns -> {"new", "open", "shut"}]
    /\ sent \in [Conns -> 0..MaxSend]
    /\ unread \in [Conns -> 0..MaxSend]
    /\ fdset \in [Fds -> Conns \cup {None}]
    /\ ready \in Seq(Events)
    /\ epollMutex \in Receivers \cup {None}
    /\ mapMutex \in Threads \cup {None}
    /\ closing \in Conns \cup {None}
    /\ nowConn \in Int
    /\ stopTask \in BOOLEAN
    /\ heap \in [Conns -> {"none", "live", "freed"}]
    /\ hfd \in [Conns -> Fds \cup {None}]
    /\ ref \in [Conns -> Int]
    /\ err \subseteq Conns
    /\ rbuf \in [Conns -> 0..MaxSend]
    /\ hlock \in [Conns -> Loaders \cup {None}]
    /\ wconn \in [Workers -> Conns \cup {None}]
    /\ queue \in Seq(Workers)
    /\ qalive \in BOOLEAN
    /\ pc \in [Threads -> ReceiverPC \cup LoaderPC]
    /\ cur \in [Receivers -> Fds \cup {None}]
    /\ job \in [Threads -> Workers \cup {None}]
    /\ midway \in [Conns -> Workers \cup {None}]
    /\ main \in {"run", "pipe", "receivers", "loaders", "done"}
    /\ victim \in Threads \cup {None}
    /\ joined \subseteq Threads

\* main has opened and activated both thread pools (main.cpp:47-71).
Init ==
    /\ fdt = [f \in Fds |-> None]
    /\ reg = {}
    /\ edge = {}
    /\ backlog = {}
    /\ peer = [c \in Conns |-> "new"]
    /\ sent = [c \in Conns |-> 0]
    /\ unread = [c \in Conns |-> 0]
    /\ fdset = [f \in Fds |-> None]
    /\ ready = <<>>
    /\ epollMutex = None
    /\ mapMutex = None
    /\ closing = None
    /\ nowConn = 0
    /\ stopTask = FALSE
    /\ heap = [c \in Conns |-> "none"]
    /\ hfd = [c \in Conns |-> None]
    /\ ref = [c \in Conns |-> 0]
    /\ err = {}
    /\ rbuf = [c \in Conns |-> 0]
    /\ hlock = [c \in Conns |-> None]
    /\ wconn = [w \in Workers |-> None]
    /\ queue = <<>>
    /\ qalive = TRUE
    /\ pc = [t \in Threads |-> IF t \in Receivers THEN "top" ELSE "get"]
    /\ cur = [r \in Receivers |-> None]
    /\ job = [t \in Threads |-> None]
    /\ midway = [c \in Conns |-> None]
    /\ main = "run"
    /\ victim = None
    /\ joined = {}

Goto(t, label) == pc' = [pc EXCEPT ![t] = label]

\* Definitions with a suffix (such as del_input_fd_Forgotten below) are
\* mutants: the definition after them with a bug put in, which a run uses to
\* show that its property notices the bug.

\* The lock of _map_mutex at the head of insert_, get_ and release_handle.
MapMutexFree == mapMutex = None

-----------------------------------------------------------------------------
(* The kernel: edge-triggered epoll, descriptors, and the clients.          *)

Readable(c) == unread[c] > 0 \/ peer[c] = "shut"

\* EPOLL_CTL_ADD: fails on a closed or already registered descriptor; a
\* descriptor that is readable when it is added reports an edge at once.
add_input_fd(f) ==
    IF fdt[f] = None \/ f \in reg
    THEN UNCHANGED <<reg, edge>>
    ELSE /\ reg' = reg \cup {f}
         /\ edge' = IF Readable(fdt[f]) THEN edge \cup {f} ELSE edge

\* EPOLL_CTL_DEL.
del_input_fd_Forgotten(f) == UNCHANGED <<reg, edge>>
del_input_fd(f) ==
    /\ reg' = reg \ {f}
    /\ edge' = edge \ {f}

\* Data or a FIN for c raises an edge on its descriptor, if registered.
Arrival(c) == edge' = edge \cup {f \in reg : fdt[f] = c}

OpenAtServer(c) == c \in backlog \/ \E f \in Fds : fdt[f] = c

ClientConnect(c) ==
    /\ peer[c] = "new"
    /\ peer' = [peer EXCEPT ![c] = "open"]
    /\ backlog' = backlog \cup {c}
    /\ edge' = edge \cup {ListenFd}
    /\ UNCHANGED <<fdt, reg, sent, unread, server, handles, tasks, midway, locals, mainv>>

ClientSend(c) ==
    /\ peer[c] = "open"
    /\ OpenAtServer(c)
    /\ sent[c] < MaxSend
    /\ sent' = [sent EXCEPT ![c] = @ + 1]
    /\ unread' = [unread EXCEPT ![c] = @ + 1]
    /\ Arrival(c)
    /\ UNCHANGED <<fdt, reg, backlog, peer, server, handles, tasks, midway, locals, mainv>>

ClientShut(c) ==
    /\ peer[c] = "open"
    /\ OpenAtServer(c)
    /\ peer' = [peer EXCEPT ![c] = "shut"]
    /\ Arrival(c)
    /\ UNCHANGED <<fdt, reg, backlog, sent, unread, server, handles, tasks, midway, locals, mainv>>

-----------------------------------------------------------------------------
(* Http_Server::svc: one receiver at a time waits for events.               *)

svc_top(r) ==
    /\ pc[r] = "top"
    /\ Goto(r, IF stopTask THEN "exit" ELSE "lock")
    /\ UNCHANGED <<kernel, server, handles, tasks, midway, cur, job, mainv>>

\* _epoll_ready_event_num <= 0: all events of the last epoll_wait are taken.
NoEventsLeft_Ignored == TRUE
NoEventsLeft == ready = <<>>

svc_lock(r) ==
    /\ pc[r] = "lock"
    /\ epollMutex = None
    /\ \/ stopTask /\ Goto(r, "exit") /\ UNCHANGED epollMutex
       \/ /\ ~stopTask
          /\ epollMutex' = r
          /\ Goto(r, IF NoEventsLeft THEN "wait" ELSE "take")
    /\ UNCHANGED <<kernel, fdset, ready, mapMutex, closing, nowConn, stopTask,
                   handles, tasks, midway, cur, job, mainv>>

\* epoll_wait returns as many edges as fit, in any order.
epoll_wait(r) ==
    /\ pc[r] = "wait"
    /\ edge # {}
    /\ \E n \in 1..MaxEvents : \E a \in [1..n -> edge] :
          /\ \A i, j \in 1..n : a[i] = a[j] => i = j
          /\ n = MaxEvents \/ \A e \in edge : \E i \in 1..n : a[i] = e
          /\ ready' = a
          /\ edge' = edge \ {a[i] : i \in 1..n}
    /\ Goto(r, "take")
    /\ UNCHANGED <<fdt, reg, backlog, peer, sent, unread, fdset, epollMutex, mapMutex,
                   closing, nowConn, stopTask, handles, tasks, midway, cur, job, mainv>>

\* The last entry is taken; a connection leaves the epoll set before the
\* mutex is released, so that no other receiver is woken for it.
svc_take(r) ==
    /\ pc[r] = "take"
    /\ ready # <<>>
    /\ LET fd == ready[Len(ready)] IN
          /\ ready' = SubSeq(ready, 1, Len(ready) - 1)
          /\ \/ /\ fd = ListenFd
                /\ Goto(r, "accept")
                /\ UNCHANGED <<reg, edge, epollMutex, cur>>
             \/ /\ fd = PipeFd
                /\ Goto(r, "top")
                /\ epollMutex' = None
                /\ UNCHANGED <<reg, edge, cur>>
             \/ /\ fd \in Fds
                /\ del_input_fd(fd)
                /\ Goto(r, "handle")
                /\ epollMutex' = None
                /\ cur' = [cur EXCEPT ![r] = fd]
    /\ UNCHANGED <<fdt, backlog, peer, sent, unread, fdset, mapMutex, closing, nowConn,
                   stopTask, handles, tasks, midway, job, mainv>>

-----------------------------------------------------------------------------
(* The accept loop, run with _epoll_mutex held.                             *)

accept(r) ==
    /\ pc[r] = "accept"
    /\ \E c \in backlog, f \in Fds :
          /\ fdt[f] = None
          /\ fdt' = [fdt EXCEPT ![f] = c]
          /\ backlog' = backlog \ {c}
          /\ cur' = [cur EXCEPT ![r] = f]
    /\ nowConn' = nowConn + 1
    /\ Goto(r, "insert")
    /\ UNCHANGED <<reg, edge, peer, sent, unread, fdset, ready, epollMutex, mapMutex,
                   closing, stopTask, handles, tasks, midway, job, mainv>>

\* accept() fails: nothing is pending, or no descriptor is free.
accept_fails(r) ==
    /\ pc[r] = "accept"
    /\ backlog = {} \/ \A f \in Fds : fdt[f] # None
    /\ epollMutex' = None
    /\ Goto(r, "top")
    /\ UNCHANGED <<kernel, fdset, ready, mapMutex, closing, nowConn, stopTask,
                   handles, tasks, midway, cur, job, mainv>>

\* create_handle and insert_handle.  std::map::insert keeps an old entry,
\* and create_handle ignores that error.
create_handle(r) ==
    /\ pc[r] = "insert"
    /\ MapMutexFree
    /\ LET f == cur[r]
           c == fdt[f] IN
          /\ heap' = [heap EXCEPT ![c] = "live"]
          /\ hfd' = [hfd EXCEPT ![c] = f]
          /\ fdset' = IF fdset[f] = None THEN [fdset EXCEPT ![f] = c] ELSE fdset
    /\ Goto(r, "register")
    /\ UNCHANGED <<kernel, ready, epollMutex, mapMutex, closing, nowConn, stopTask,
                   ref, err, rbuf, hlock, tasks, midway, cur, job, mainv>>

accept_register_Once(r) ==
    /\ pc[r] = "register"
    /\ add_input_fd(cur[r])
    /\ epollMutex' = None
    /\ Goto(r, "top")
    /\ UNCHANGED <<fdt, backlog, peer, sent, unread, fdset, ready, mapMutex, closing,
                   nowConn, stopTask, handles, tasks, midway, cur, job, mainv>>

accept_register(r) ==
    /\ pc[r] = "register"
    /\ add_input_fd(cur[r])
    /\ Goto(r, "accept")
    /\ UNCHANGED <<fdt, backlog, peer, sent, unread, server, handles, tasks, midway,
                   cur, job, mainv>>

-----------------------------------------------------------------------------
(* Http_Server::recv_request.                                               *)

\* get_handle finds the handle and takes a reference; assert(hdle) stops the
\* process if it does not, so there is no step for that case.
get_handle(r) ==
    /\ pc[r] = "handle"
    /\ MapMutexFree
    /\ LET c == fdset[cur[r]] IN
          /\ c # None
          /\ ref' = [ref EXCEPT ![c] = @ + 1]
          /\ \E w \in Workers :
                /\ wconn[w] = None
                /\ wconn' = [wconn EXCEPT ![w] = c]
                /\ job' = [job EXCEPT ![r] = w]
    /\ Goto(r, "read")
    /\ UNCHANGED <<kernel, server, heap, hfd, err, rbuf, hlock, queue, qalive, midway,
                   cur, mainv>>

\* A request is taken from _read_buf if it holds one; otherwise a read moves
\* one or more requests from the socket to the buffer and takes the first.
TakeRequest(c) ==
    \/ /\ rbuf[c] > 0
       /\ rbuf' = [rbuf EXCEPT ![c] = @ - 1]
       /\ UNCHANGED unread
    \/ /\ rbuf[c] = 0
       /\ \E k \in 1..unread[c] :
             /\ unread' = [unread EXCEPT ![c] = @ - k]
             /\ rbuf' = [rbuf EXCEPT ![c] = k - 1]

\* Header and body are complete: worker->handle = hdle.
recv_complete(r) ==
    /\ pc[r] = "read"
    /\ TakeRequest(wconn[job[r]])
    /\ Goto(r, "submit")
    /\ UNCHANGED <<fdt, reg, edge, backlog, peer, sent, server, heap, hfd, ref, err, hlock,
                   tasks, midway, cur, job, mainv>>

\* GetInfo rejects the header: the worker is deleted and the connection goes
\* back to epoll, but the reference taken by get_handle is not released.
recv_invalid(r) ==
    /\ pc[r] = "read"
    /\ TakeRequest(wconn[job[r]])
    /\ wconn' = [wconn EXCEPT ![job[r]] = None]
    /\ job' = [job EXCEPT ![r] = None]
    /\ Goto(r, "add")
    /\ UNCHANGED <<fdt, reg, edge, backlog, peer, sent, server, heap, hfd, ref, err, hlock,
                   queue, qalive, midway, cur, mainv>>

\* read_data fails: the peer has closed, or what is missing of the request
\* did not come within RECEIVE_TIMEOUT, or the poll was interrupted.
recv_fails(r) ==
    /\ pc[r] = "read"
    /\ rbuf[wconn[job[r]]] = 0
    /\ Goto(r, "error")
    /\ UNCHANGED <<kernel, server, handles, tasks, midway, cur, job, mainv>>

submit_worker(r) ==
    /\ pc[r] = "submit"
    /\ queue' = IF qalive THEN <<job[r]>> \o queue ELSE queue
    /\ job' = [job EXCEPT ![r] = None]
    /\ Goto(r, "add")
    /\ UNCHANGED <<kernel, server, handles, wconn, qalive, midway, cur, mainv>>

recv_add_Forgotten(r) ==
    /\ pc[r] = "add"
    /\ Goto(r, "top")
    /\ UNCHANGED <<kernel, server, handles, tasks, midway, cur, job, mainv>>

recv_add(r) ==
    /\ pc[r] = "add"
    /\ add_input_fd(cur[r])
    /\ Goto(r, "top")
    /\ UNCHANGED <<fdt, backlog, peer, sent, unread, server, handles, tasks, midway,
                   cur, job, mainv>>

\* hdle->set_flag(hdle->get_flag() | ERROR_SOCKET), outside any mutex.
recv_error(r) ==
    /\ pc[r] = "error"
    /\ err' = err \cup {wconn[job[r]]}
    /\ Goto(r, "release")
    /\ UNCHANGED <<kernel, server, heap, hfd, ref, rbuf, hlock, tasks, midway, cur, job, mainv>>

-----------------------------------------------------------------------------
(* Http_Server::release_handle, called by receivers and loaders.            *)

AfterRelease(t) == IF t \in Receivers THEN "top" ELSE "get"

\* hdle->release() == 0 && (hdle->get_flag() & ERROR_SOCKET)
LastOfErrored_AnyHolder(c) == c \in err
LastOfErrored(c) == ref[c] = 1 /\ c \in err

CountClosed == nowConn' = nowConn - 1

\* The reference is dropped and the caller's worker deleted.  The last
\* holder of a handle in error takes the descriptor out of epoll and closes
\* it; it keeps _map_mutex until the map entry is erased.
release_handle(t) ==
    /\ pc[t] = "release"
    /\ MapMutexFree
    /\ LET c == wconn[job[t]] IN
          /\ ref' = [ref EXCEPT ![c] = @ - 1]
          /\ wconn' = [wconn EXCEPT ![job[t]] = None]
          /\ job' = [job EXCEPT ![t] = None]
          /\ \/ /\ LastOfErrored(c)
                /\ del_input_fd(hfd[c])
                /\ fdt' = [fdt EXCEPT ![hfd[c]] = None]
                /\ mapMutex' = t
                /\ closing' = c
                /\ Goto(t, "erase")
             \/ /\ ~LastOfErrored(c)
                /\ Goto(t, AfterRelease(t))
                /\ UNCHANGED <<fdt, reg, edge, mapMutex, closing>>
    /\ UNCHANGED <<backlog, peer, sent, unread, fdset, ready, epollMutex, nowConn, stopTask,
                   heap, hfd, err, rbuf, hlock, queue, qalive, midway, cur, mainv>>

release_erase(t) ==
    /\ pc[t] = "erase"
    /\ heap' = [heap EXCEPT ![closing] = "freed"]
    /\ fdset' = [fdset EXCEPT ![hfd[closing]] = None]
    /\ CountClosed
    /\ mapMutex' = None
    /\ closing' = None
    /\ Goto(t, AfterRelease(t))
    /\ UNCHANGED <<kernel, ready, epollMutex, stopTask, hfd, ref, err, rbuf, hlock, tasks,
                   midway, cur, job, mainv>>

-----------------------------------------------------------------------------
(* Worker_Loader::svc and Http_Server::retrieve_worker.                     *)

\* How parse_worker, which only fills the worker, ends (the outcomes of module
\* ParseWorker): it returns, and the loader goes on whether it reports an error
\* or not; it looks in a JSON text for a member name that holds a NUL, and
\* Json::Path::makePath does not end; or the text is nested too deeply, and
\* nothing catches what the JSON reader throws.
ParseEnds == {"send", "stuck", "died"}

\* get() hands out the oldest worker, and the loader parses it.
loader_get(l) ==
    /\ pc[l] = "get"
    /\ qalive
    /\ queue # <<>>
    /\ job' = [job EXCEPT ![l] = queue[Len(queue)]]
    /\ queue' = SubSeq(queue, 1, Len(queue) - 1)
    /\ \E end \in ParseEnds : Goto(l, end)
    /\ UNCHANGED <<kernel, server, handles, wconn, qalive, midway, cur, mainv>>

\* Every turn of makePath's endless loop takes memory: when none is left, that
\* is an exception too.
makePath_exhausted(l) ==
    /\ pc[l] = "stuck"
    /\ Goto(l, "died")
    /\ UNCHANGED <<kernel, server, handles, tasks, midway, cur, job, mainv>>

\* get() on a flushed list returns NULL, whatever is still on it.
loader_null(l) ==
    /\ pc[l] = "get"
    /\ ~qalive
    /\ Goto(l, "exit")
    /\ UNCHANGED <<kernel, server, handles, tasks, midway, cur, job, mainv>>

\* hdle->lock() and hdle->unlock()
HandleUnlocked_Ignored(c) == TRUE
HandleUnlocked(c) == hlock[c] = None
Unlock(c) == hlock' = [hlock EXCEPT ![c] = None]

send_lock(l) ==
    /\ pc[l] = "send"
    /\ HandleUnlocked(wconn[job[l]])
    /\ hlock' = [hlock EXCEPT ![wconn[job[l]]] = l]
    /\ Goto(l, "head")
    /\ UNCHANGED <<kernel, server, heap, hfd, ref, err, rbuf, tasks, midway, cur, job, mainv>>

\* The connection a write on the handle's descriptor reaches.
Target(l) == fdt[hfd[wconn[job[l]]]]

send_header(l) ==
    /\ pc[l] = "head"
    /\ Target(l) # None
    /\ midway' = [midway EXCEPT ![Target(l)] = job[l]]
    /\ Goto(l, "body")
    /\ UNCHANGED <<kernel, server, handles, tasks, cur, job, mainv>>

send_body(l) ==
    /\ pc[l] = "body"
    /\ Target(l) # None
    /\ midway' = [midway EXCEPT ![Target(l)] = None]
    /\ Unlock(wconn[job[l]])
    /\ Goto(l, "release")
    /\ UNCHANGED <<kernel, server, heap, hfd, ref, err, rbuf, tasks, cur, job, mainv>>

send_fails_Returns(l) ==
    /\ pc[l] \in {"head", "body"}
    /\ Unlock(wconn[job[l]])
    /\ Goto(l, "get")
    /\ UNCHANGED <<kernel, server, heap, hfd, ref, err, rbuf, tasks, midway, cur, job, mainv>>

\* writen_timeout gives up on the header or on the body; retrieve_worker logs
\* the error and goes on as after a success: the connection stays in use.
send_fails(l) ==
    /\ pc[l] \in {"head", "body"}
    /\ Unlock(wconn[job[l]])
    /\ Goto(l, "release")
    /\ UNCHANGED <<kernel, server, heap, hfd, ref, err, rbuf, tasks, midway, cur, job, mainv>>

-----------------------------------------------------------------------------
(* main: htp.stop(), worker_loader.stop(), destructors.                     *)

stop_task ==
    /\ main = "run"
    /\ stopTask' = TRUE
    /\ main' = "pipe"
    /\ UNCHANGED <<kernel, fdset, ready, epollMutex, mapMutex, closing, nowConn,
                   handles, tasks, midway, locals, victim, joined>>

stop_write_pipe_Forgotten ==
    /\ main = "pipe"
    /\ main' = "receivers"
    /\ UNCHANGED <<kernel, server, handles, tasks, midway, locals, victim, joined>>

stop_write_pipe ==
    /\ main = "pipe"
    /\ edge' = edge \cup {PipeFd}
    /\ main' = "receivers"
    /\ UNCHANGED <<fdt, reg, backlog, peer, sent, unread, server, handles, tasks, midway,
                   locals, victim, joined>>

\* join() signals and joins one thread after the other.  The signal matters
\* to a receiver inside epoll_wait, which returns EINTR, gives the mutex up
\* and tests _stop_task again; a poll or a condition wait that it interrupts
\* fails or returns, as recv_fails, send_fails and WaitList already allow.
kill_thread(t) ==
    /\ main = (IF t \in Receivers THEN "receivers" ELSE "loaders")
    /\ victim = None
    /\ t \notin joined
    /\ victim' = t
    /\ \/ /\ pc[t] = "wait"
          /\ epollMutex' = None
          /\ Goto(t, "top")
       \/ /\ pc[t] # "wait"
          /\ UNCHANGED <<epollMutex, pc>>
    /\ UNCHANGED <<kernel, fdset, ready, mapMutex, closing, nowConn, stopTask, handles,
                   tasks, midway, cur, job, main, joined>>

join_thread(t) ==
    /\ victim = t
    /\ pc[t] = "exit"
    /\ victim' = None
    /\ joined' = joined \cup {t}
    /\ UNCHANGED <<kernel, server, handles, tasks, midway, locals, main>>

ReceiversJoined_NotAwaited == TRUE
ReceiversJoined == Receivers \subseteq joined

flush ==
    /\ main = "receivers"
    /\ ReceiversJoined
    /\ qalive' = FALSE
    /\ main' = "loaders"
    /\ UNCHANGED <<kernel, server, handles, wconn, queue, midway, locals, victim, joined>>

\* ~Http_Server closes and deletes what is left in m_fd_set.
destroy ==
    /\ main = "loaders"
    /\ Loaders \subseteq joined
    /\ main' = "done"
    /\ fdt' = [f \in Fds |-> IF fdset[f] # None THEN None ELSE fdt[f]]
    /\ reg' = {f \in reg : fdset[f] = None}
    /\ edge' = edge \ {f \in Fds : fdset[f] # None}
    /\ heap' = [c \in Conns |-> IF \E f \in Fds : fdset[f] = c THEN "freed" ELSE heap[c]]
    /\ UNCHANGED <<backlog, peer, sent, unread, server, hfd, ref, err, rbuf, hlock, tasks,
                   midway, locals, victim, joined>>

\* An exception that nothing catches ends the process, and with it every thread.
Alive == \A l \in Loaders : pc[l] # "died"

Terminated == main = "done" \/ ~Alive

-----------------------------------------------------------------------------
Client(c) == ClientConnect(c) \/ ClientSend(c) \/ ClientShut(c)

Accept(r) == accept(r) \/ accept_fails(r) \/ create_handle(r) \/ accept_register(r)

Receive(r) ==
    \/ get_handle(r) \/ recv_complete(r) \/ recv_invalid(r) \/ recv_fails(r)
    \/ submit_worker(r) \/ recv_add(r) \/ recv_error(r)

Release(t) == release_handle(t) \/ release_erase(t)

Receiver(r) ==
    svc_top(r) \/ svc_lock(r) \/ epoll_wait(r) \/ svc_take(r) \/ Accept(r)
    \/ Receive(r) \/ Release(r)

Loader(l) ==
    loader_get(l) \/ loader_null(l) \/ send_lock(l) \/ send_header(l) \/ send_body(l)
    \/ send_fails(l) \/ Release(l)

Stop ==
    \/ stop_write_pipe
    \/ \E t \in Threads : kill_thread(t) \/ join_thread(t)
    \/ flush
    \/ destroy

Step ==
    \/ \E c \in Conns : Client(c)
    \/ \E r \in Receivers : Receiver(r)
    \/ \E l \in Loaders : Loader(l) \/ makePath_exhausted(l)
    \/ stop_task
    \/ Stop

Next ==
    \/ Alive /\ Step
    \/ Terminated /\ UNCHANGED vars

Spec == Init /\ [][Next]_vars

\* While the process is alive, every thread that can take a step takes one in
\* the end: reads and writes give up after their timeouts, mutexes are
\* released, and main carries a stop through.  A loader inside makePath has no
\* step of Loader left.  Clients, the signal that starts the stop and the end
\* of the memory owe nothing.
Fairness ==
    /\ \A r \in Receivers : WF_vars(Alive /\ Receiver(r))
    /\ \A l \in Loaders : WF_vars(Alive /\ Loader(l))
    /\ WF_vars(Alive /\ Stop)

FairSpec == Spec /\ Fairness
-----------------------------------------------------------------------------
(* Properties *)

Taken == {"handle", "read", "submit", "add", "error", "release"}

\* assert(hdle) at http_server.cpp:266 never fails: a receiver that was handed
\* a descriptor by epoll finds its handle in m_fd_set.
HandleFound == \A r \in Receivers : pc[r] = "handle" => fdset[cur[r]] # None

\* The map insertion at http_server.cpp:224 never meets an old entry, although
\* the kernel may give a number out again before m_fd_set.erase has run.
InsertNeverFails ==
    [][\A r \in Receivers :
          pc[r] = "insert" /\ pc'[r] = "register" => fdset[cur[r]] = None]_vars

\* _read_buf has no lock: what protects it is that a descriptor is out of the
\* epoll set while a receiver works on it (http_server.cpp:121, :282), so that
\* no two receivers ever read one connection.
ExclusiveReceive ==
    \A r, s \in Receivers :
        pc[r] \in Taken /\ pc[s] \in Taken /\ cur[r] = cur[s] => r = s

\* A handle is not deleted, and its descriptor neither closed nor given to
\* another connection, while a worker refers to it (http_server.cpp:249-254).
\* So requests are read from, and answers written to, the right connection.
HeldHandleIsLive ==
    main # "done" =>
        \A w \in Workers : wconn[w] # None =>
            heap[wconn[w]] = "live" /\ fdt[hfd[wconn[w]]] = wconn[w]

\* The body of an answer follows its own header: hdle->lock() keeps loaders
\* that answer pipelined requests apart (http_server.cpp:369-376).
BodyFollowsHeader ==
    \A l \in Loaders : pc[l] = "body" => midway[wconn[job[l]]] = job[l]

\* Edge-triggered epoll loses no connection: one that is registered and has
\* something to read has an edge pending or an entry in _epoll_ready_event.
NoLostEdge ==
    \A f \in reg : Readable(fdt[f]) => f \in edge \cup Range(ready)

\* Nor does it lose a pending connection, as long as there are descriptors:
\* the accept loop (http_server.cpp:104) runs until nothing is pending.
BacklogNoticed ==
    backlog # {} => \/ ListenFd \in edge \cup Range(ready)
                    \/ \E r \in Receivers : pc[r] \in {"accept", "insert", "register"}

\* main stops the receivers before it flushes the task list (main.cpp:75-76):
\* no complete request is handed to a list that would drop it.
NoSubmitAfterFlush == \A r \in Receivers : pc[r] = "submit" => qalive

\* A connection in error is closed by its last holder, as the log line at
\* http_server.cpp:298 announces ("[disconnect error socket]").
ErroredSocketDisconnected ==
    main # "done" =>
        \A c \in err : \/ heap[c] = "freed"
                       \/ closing = c
                       \/ \E w \in Workers : wconn[w] = c

\* A stop carries through: every receiver and every loader ends, wherever the
\* signal finds it (http_server.cpp:72-77, worker_loader.cpp:35).  Only a
\* parse_worker that does not return keeps main waiting: it has ended the
\* process, or the join has come to the loader it is stuck in.
StopCompletes ==
    stopTask ~> \/ main = "done"
                \/ ~Alive
                \/ main = "loaders" /\ victim # None /\ pc[victim] = "stuck"

\* A worker does not stay: its request is answered or given up, unless it is
\* on the task list when main flushes it, its own parse_worker does not
\* return, or every loader is stuck in one (worker_loader.cpp:133-141).
EveryWorkerReleased ==
    \A w \in Workers :
        wconn[w] # None ~> \/ wconn[w] = None
                           \/ ~qalive
                           \/ ~Alive
                           \/ \E l \in Loaders : pc[l] = "stuck" /\ job[l] = w
                           \/ \A l \in Loaders : pc[l] = "stuck"

\* What a client sends is read, also when every loader is stuck, unless the
\* connection is in error, the server stops or the process ends.
EverythingRead ==
    \A c \in Conns : unread[c] > 0 ~> (unread[c] = 0 \/ c \in err \/ stopTask \/ ~Alive)
=============================================================================
