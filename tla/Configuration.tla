---------------------------- MODULE Configuration ----------------------------
(***************************************************************************)
(* Configuration::open (src/src/Worker/configuration.cpp): readParameter   *)
(* and then readThreadNumber, each of which imports the file anew.         *)
(*                                                                         *)
(* A file is a sequence of lines.  Values are numbers; NotANumber stands   *)
(* for any text that strtol and atoi cannot read.  Once open has returned  *)
(* nothing reads the file again, and it is forgotten.                      *)
(***************************************************************************)
EXTENDS ConfigTree

CONSTANTS Lines,      \* the lines files are made of
          MaxLines,   \* bound: lines in a file
          NotANumber,
          DefaultReceivers,   \* 3
          DefaultLoaders,     \* 16
          Unset       \* a field that open has not assigned

\* "Worker/Parameter" and "Worker/ThreadNumber".
ParameterSection == <<"Worker", "Parameter">>
ThreadSection    == <<"Worker", "ThreadNumber">>

ASSUME ConfigurationAssumption ==
    /\ MaxLines \in Nat
    /\ {ParameterSection, ThreadSection} \subseteq Paths
    /\ NotANumber # NotFound /\ NotANumber \notin Values
    /\ Lines \subseteq {SectionLine(p) : p \in Paths} \cup {IgnoredLine}
                       \cup {ValueLine(k, v) : k \in Keys, v \in Values \cup {NotANumber}}

VARIABLES file, step, ret,
          listen_port, thread_stack_size, receiver_num, worker_loader_num

configVars == <<file, step, ret, listen_port, thread_stack_size, receiver_num, worker_loader_num>>

ConfigInit ==
    /\ file \in UNION {[1..n -> Lines] : n \in 0..MaxLines}
    /\ step = "readParameter"
    /\ ret = 0
    /\ listen_port = Unset
    /\ thread_stack_size = Unset
    /\ receiver_num = Unset
    /\ worker_loader_num = Unset

\* atoi of a value, or the default if the key is missing.
Number(m, key, default) ==
    LET v == get_value(m, key) IN
    CASE v = NotFound -> default
      [] v = NotANumber -> 0
      [] OTHER -> v

\* In kilobytes, as in the file; the default is 16 << 20 bytes.
DefaultStackSize == 16 * 1024

readParameter ==
    /\ step = "readParameter"
    /\ LET m == set_section(import(file), ParameterSection)
           port == get_value(m, "ListenPort") IN
       \/ /\ port = NotFound \/ port = NotANumber
          /\ ret' = -1
          /\ step' = "done"
          /\ listen_port' = IF port = NotFound THEN Unset ELSE 0
          /\ file' = <<>>
          /\ UNCHANGED thread_stack_size
       \/ /\ port # NotFound /\ port # NotANumber
          /\ listen_port' = port
          /\ thread_stack_size' = Number(m, "threadstacksize", DefaultStackSize)
          /\ step' = "readThreadNumber"
          /\ UNCHANGED <<file, ret>>
    /\ UNCHANGED <<receiver_num, worker_loader_num>>

readThreadNumber ==
    /\ step = "readThreadNumber"
    /\ LET m == set_section(import(file), ThreadSection) IN
          /\ receiver_num' = Number(m, "ReceiverThread", DefaultReceivers)
          /\ worker_loader_num' = Number(m, "WorkerLoaderThread", DefaultLoaders)
    /\ step' = "done"
    /\ file' = <<>>
    /\ UNCHANGED <<ret, listen_port, thread_stack_size>>

\* Either of the two imports cannot open the file.
import_fails ==
    /\ step \in {"readParameter", "readThreadNumber"}
    /\ ret' = -1
    /\ step' = "failed"
    /\ file' = <<>>
    /\ UNCHANGED <<listen_port, thread_stack_size, receiver_num, worker_loader_num>>

ConfigNext == readParameter \/ readThreadNumber \/ import_fails

-----------------------------------------------------------------------------
(* Properties *)

\* The section that line i of the file is in.
SectionOf(i) ==
    LET heads == {j \in 1..i : file[j].line = "section"} IN
    IF heads = {} THEN <<>> ELSE file[CHOOSE j \in heads : \A k \in heads : k <= j].path

\* The last line of the file that sets a key of a section, read off the file.
Setting(path, key) ==
    LET hits == {i \in 1..Len(file) :
                    file[i].line = "value" /\ file[i].key = key /\ SectionOf(i) = path} IN
    IF hits = {} THEN NotFound ELSE file[CHOOSE i \in hits : \A j \in hits : j <= i].value

\* A number as the file says it last, or the default.
Wanted(key, default) ==
    LET n == Setting(ThreadSection, key) IN
    CASE n = NotFound -> default
      [] n = NotANumber -> 0
      [] OTHER -> n

\* The step that ends a successful open leaves in the fields what the file
\* says last, also when a section is opened several times, when a key is
\* repeated, or set in another section (configuration.cpp:58-81, 96-115).
LastSettingWins ==
    [][step # "done" /\ step' = "done" /\ ret' = 0 =>
          /\ listen_port' = Setting(ParameterSection, "ListenPort")
          /\ receiver_num' = Wanted("ReceiverThread", DefaultReceivers)
          /\ worker_loader_num' = Wanted("WorkerLoaderThread", DefaultLoaders)]_configVars
=============================================================================
