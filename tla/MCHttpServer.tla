---------------------------- MODULE MCHttpServer ----------------------------
(* Instances of HttpServer for TLC. *)
EXTENDS HttpServerInv, TLC

Symmetry == Permutations(Receivers) \cup Permutations(Loaders)
            \cup Permutations(Conns) \cup Permutations(Fds)
            \cup Permutations(Workers)

\* Two requests while one client is connected, one when both are: the run
\* looks at pipelining on one connection, and at two connections of which
\* one has a request on its way.
FewRequests ==
    \A c, d \in Conns :
        c # d /\ peer[c] # "new" /\ peer[d] # "new" => sent[c] + sent[d] <= 1

\* Which of the free Worker objects a request gets makes no difference: one
\* will do.
OneFreeWorker ==
    \A w \in Workers :
        wconn[w] = None /\ wconn'[w] # None => w = CHOOSE v \in Workers : wconn[v] = None

\* Nor does it make a difference which of the waiting loaders gets a task.
OneFreeLoader ==
    \A l \in Loaders :
        pc[l] = "get" /\ pc'[l] \in ParseEnds
            => l = CHOOSE k \in Loaders : pc[k] = "get"

\* The receivers are alike, so one order of joining them stands for the others.
ReceiversInOrder ==
    victim = None /\ victim' \in Receivers
        => victim' = CHOOSE r \in Receivers : r \notin joined

\* For the liveness run, which cannot use Symmetry.  A step that ends the
\* process is left out: what comes after it is excused by each of the
\* properties of that run, and http_server takes these steps.
Interchangeable ==
    OneFreeWorker /\ OneFreeLoader /\ ReceiversInOrder /\ Alive'
=============================================================================
