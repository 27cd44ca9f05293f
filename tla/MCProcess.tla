----------------------------- MODULE MCProcess ------------------------------
(* Instances of Process for TLC. *)
EXTENDS Process

Names == {"Worker", "Parameter", "ThreadNumber", "ListenPort", "threadstacksize",
          "ReceiverThread", "WorkerLoaderThread"}

Numbers == {0, 1, 2}

\* Every line matters: the sections, keys of either, one of which belongs to
\* the other section as well, and a line that import ignores.
AllLines ==
    {SectionLine(ParameterSection), SectionLine(ThreadSection), IgnoredLine}
    \cup {ValueLine("ListenPort", n) : n \in {1, 2, NotANumber}}
    \cup {ValueLine("ReceiverThread", n) : n \in {1, NotANumber}}
    \cup {ValueLine("WorkerLoaderThread", 1)}
=============================================================================
