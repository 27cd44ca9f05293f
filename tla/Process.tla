------------------------------ MODULE Process -------------------------------
(***************************************************************************)
(* main of src/src/Worker/main.cpp from its start: the configuration is    *)
(* opened (Configuration), and the pools are opened with the numbers of    *)
(* threads it gives, activated and stopped (Startup).                      *)
(***************************************************************************)
EXTENDS Configuration, Startup

\* MaxThreads bounds what a file may ask for.
ASSUME ProcessAssumption ==
    Values \cup {DefaultReceivers, DefaultLoaders} \subseteq 0..MaxThreads

processVars == <<configVars, vars>>

ProcessInit ==
    /\ ConfigInit
    /\ Init /\ thread_num = [p \in Pools |-> 0]

\* config.open; main returns when it fails.
Configure ==
    /\ ConfigNext
    /\ thread_num' = IF step' = "done" /\ ret' = 0
                     THEN [loader |-> worker_loader_num', http |-> receiver_num']
                     ELSE thread_num
    /\ IF ret' # 0 THEN exit("loader") ELSE UNCHANGED pc
    /\ UNCHANGED <<opened, thread, arrived, barrier, stopping, joined>>

OpenReturned == step \in {"done", "failed"}

Run == OpenReturned /\ Next /\ UNCHANGED configVars

ProcessNext == Configure \/ Run

\* The scheduler runs main and every thread, as in Startup.  Weak fairness of
\* Configure, which is enabled until open returns and takes two steps at most,
\* says no more than that open returns.
ConfigReturns == <>OpenReturned

ProcessSpec == ProcessInit /\ [][ProcessNext]_processVars /\ ConfigReturns /\ Fairness

-----------------------------------------------------------------------------
(* Properties *)

\* Every start comes to an end: the file is refused, a pool cannot be opened,
\* or main reaches pause() with as many threads serving in each pool as the
\* file, or the default, asks for; a pool without a thread is never activated
\* (main.cpp:37-66).
StartDecided ==
    <>(\/ Failed
       \/ /\ pc[1] = "pause" /\ \A p \in Pools : thread_num[p] > 0
          /\ Cardinality(Created("loader")) = worker_loader_num
          /\ Cardinality(Created("http")) = receiver_num)
=============================================================================
