---------------------------- MODULE HttpServerInv ----------------------------
(***************************************************************************)
(* The inductive invariant of HttpServer: why a handle is never used after *)
(* release_handle has deleted it.  The parts follow the code's own         *)
(* argument.  A descriptor is in one of three places: registered with      *)
(* epoll, in the hands of exactly one receiver, or given up because its    *)
(* handle is in error (EpollInv).  Only a handle in error is closed, and   *)
(* only by the last worker that refers to it (RefInv, JobInv).  Between    *)
(* close() and m_fd_set.erase() the descriptor's number may already belong *)
(* to a new connection; _map_mutex keeps everyone from noticing (MapInv).  *)
(***************************************************************************)
EXTENDS HttpServer

HoldsEpollMutex == {"wait", "take", "accept", "insert", "register"}
Busy  == Taken \cup {"register"}
Reads == {"read", "submit", "error", "release"}
Sends == {"stuck", "died", "send", "head", "body", "release"}

\* The threads whose local worker is theirs alone.
HasJob(t) == pc[t] \in (IF t \in Receivers THEN Reads ELSE Sends)

Held(c) == {w \in Workers : wconn[w] = c}

\* What is read was sent: the bounds of TypeOK need it.
CountInv == \A c \in Conns : rbuf[c] + unread[c] <= sent[c]

\* Who owns the mutexes, and which locals are set.
LockInv ==
    /\ \A r \in Receivers : pc[r] \in ReceiverPC
    /\ \A l \in Loaders : pc[l] \in LoaderPC
    /\ \A r \in Receivers : pc[r] \in HoldsEpollMutex <=> epollMutex = r
    /\ \A t \in Threads : pc[t] = "erase" <=> mapMutex = t
    /\ mapMutex = None <=> closing = None
    /\ \A r \in Receivers : pc[r] \in Busy \cup {"insert"} => cur[r] \in Fds

\* Threads stop in main's order.
JoinInv ==
    /\ \A t \in joined : pc[t] = "exit"
    /\ main \in {"loaders", "done"} => Receivers \subseteq joined
    /\ main = "done" => Loaders \subseteq joined
    /\ ~qalive => main \in {"loaders", "done"}

\* A worker in use refers to a handle and is in one place.
JobInv ==
    /\ \A t \in Threads : HasJob(t) => job[t] \in Workers /\ wconn[job[t]] # None
    /\ \A t, u \in Threads : HasJob(t) /\ HasJob(u) /\ job[t] = job[u] => t = u
    /\ \A i \in 1..Len(queue) : wconn[queue[i]] # None
    /\ \A i, j \in 1..Len(queue) : queue[i] = queue[j] => i = j
    /\ \A t \in Threads : HasJob(t) => \A i \in 1..Len(queue) : queue[i] # job[t]

\* _ref counts at least the workers that refer to the handle (it can count
\* more: the reference that the "[Package Invalid]" path keeps).
RefInv == \A c \in Conns : Cardinality(Held(c)) <= ref[c]

\* m_fd_set against the kernel's descriptor table.
MapInv ==
    /\ \A f \in Fds : fdset[f] # None => heap[fdset[f]] = "live" /\ hfd[fdset[f]] = f
    /\ \A c \in Conns : heap[c] = "live" => hfd[c] \in Fds /\ fdset[hfd[c]] = c
    /\ \A f \in Fds : fdset[f] # None => fdt[f] = fdset[f] \/ closing = fdset[f]
    /\ \A f \in Fds : fdt[f] # None =>
          \/ fdset[f] = fdt[f]
          \/ \E r \in Receivers : pc[r] = "insert" /\ cur[r] = f
    /\ \A r \in Receivers : pc[r] = "insert" =>
          /\ fdt[cur[r]] \in Conns
          /\ heap[fdt[cur[r]]] = "none"
          /\ fdset[cur[r]] = None \/ fdset[cur[r]] = closing
    /\ closing # None => /\ heap[closing] = "live"
                         /\ fdt[hfd[closing]] # closing
                         /\ Held(closing) = {}
    /\ \A w \in Workers : wconn[w] # None => heap[wconn[w]] = "live"

\* Connections are new: not yet connected, then pending, then accepted.
FreshInv ==
    /\ \A c \in Conns : peer[c] = "new" => c \notin backlog /\ heap[c] = "none"
    /\ \A c \in backlog : heap[c] = "none"
    /\ \A c \in err : heap[c] # "none"
    /\ \A f \in Fds : fdt[f] # None => fdt[f] \notin backlog /\ peer[fdt[f]] # "new"

\* The descriptors of the epoll set, and those in the hands of a receiver.
EpollInv ==
    /\ edge \cap Fds \subseteq reg
    /\ Range(ready) \cap Fds \subseteq reg
    /\ \A i, j \in 1..Len(ready) : ready[i] = ready[j] => i = j
    /\ \A f \in reg : fdset[f] # None /\ fdt[f] = fdset[f] /\ fdset[f] \notin err
    /\ \A r \in Receivers : pc[r] \in Busy =>
          /\ cur[r] \notin reg
          /\ fdset[cur[r]] # None
          /\ fdt[cur[r]] = fdset[cur[r]]
          /\ pc[r] # "release" => fdset[cur[r]] \notin err
          /\ pc[r] \in Reads => wconn[job[r]] = fdset[cur[r]]
    /\ \A r, s \in Receivers :
          pc[r] \in Busy /\ pc[s] \in Busy /\ cur[r] = cur[s] => r = s

\* The writer of a handle.
WriteInv ==
    \A l \in Loaders :
        /\ pc[l] \in {"head", "body"} => hlock[wconn[job[l]]] = l
        /\ pc[l] = "body" => midway[wconn[job[l]]] = job[l]

\* The inductive invariant: all of the above until ~Http_Server has run.
Inv ==
    /\ TypeOK
    /\ CountInv
    /\ LockInv
    /\ JoinInv
    /\ main # "done" => /\ JobInv
                        /\ RefInv
                        /\ MapInv
                        /\ FreshInv
                        /\ EpollInv
                        /\ WriteInv

\* The strengthening of NoLostEdge: epoll_wait overwrites the ready events, so
\* none may be left when a receiver calls it, and ~Http_Server leaves no
\* descriptor registered.
EventInv ==
    /\ \A r \in Receivers : pc[r] = "wait" => ready = <<>>
    /\ main = "done" => reg = {}
    /\ NoLostEdge

\* accept() is never refused for want of a descriptor while a connection is
\* pending.
AcceptNotStarved ==
    \A r \in Receivers :
        pc[r] = "accept" /\ backlog # {} => \E f \in Fds : fdt[f] = None

\* No more connections are open at once, pending ones included, than there are
\* descriptors.  Over time there may be any number: a descriptor is used again.
FewOpen == Cardinality({c \in Conns : OpenAtServer(c)}) <= Cardinality(Fds)

\* What a step owes to the pending connections.
KeepsBacklog == BacklogNoticed /\ AcceptNotStarved => BacklogNoticed'
=============================================================================
