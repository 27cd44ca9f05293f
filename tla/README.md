# A TLA+ verification of the asr server

The repository is the front end of a speech recognition service: an HTTP server
(`src/src/Worker`) that accepts connections, cuts requests out of their byte
streams, hands them to a pool of loader threads, and writes the answers back.
This directory holds TLA+ models of that program, the TLC configurations that
check them on small instances, and proofs, checked by TLAPS, that do not depend
on the size of the instance.

File names below are relative to `src/src/Worker/` unless they start with `src/`.

- [Inventory](#inventory): the parts of the program, their state and what is hard about them
- [Plan](#plan): the modules, their order, and what is left
- [Modules and code](#modules-and-code): how the state and the actions of a module correspond to the source
- [Runs](#runs): what TLC checks, with which bounds, and why they are enough
- [Fairness](#fairness)
- [Proofs](#proofs)
- [Findings](#findings), and [what was noticed but is not checked](#noticed-while-reading)
- [What is not modelled](#what-is-not-modelled)

## Inventory

```
 clients ──► kernel: sockets, epoll (edge-triggered)
                │ events                       ▲ header, body
                ▼                              │ (lock of the handle)
   Http_Server: receiver threads         Http_Server::retrieve_worker
                │ submit_worker                ▲ called by
                ▼                              │
       wait_list_t m_task_list ──get──► Worker_Loader: loader threads
                                         (parse_worker: URL decoding, JSON)

   main: config.open ─ open both pools ─ activate ─ pause ─ stop both pools
```

| part | state | operations | interacts with |
|---|---|---|---|
| request list, `wait_list.hpp` | the nodes, `_num`, `_alive`, one mutex, one condition variable | `put`, `get`, `get(abstime)`, `get_from_head`, `flush` | receivers put, loaders get, main flushes |
| intrusive list, `linked_list.hpp` | `next` and `prev` of the nodes and of `_head` | `add`, `add_prev`, `add_next`, `del`, `empty` | base of the request list |
| HTTP server, `http_server.cpp`, `socket_handle.hpp` | epoll set, shared array of ready events, map `m_fd_set` from descriptors to handles, two mutexes, `_stop_task`; per handle `_ref`, `_flag`, `_read_buf`, a mutex | `svc`, `recv_request`, `create_/insert_/get_/release_handle`, `retrieve_worker`, `send_result`, `stop`, destructor | kernel, request list, loaders |
| reading a request, `http_server.cpp:381-465` | `_read_buf`, what is left of a body | `read_http_header_timeout`, `GetInfo`, `readn_timeout`, `read_data` | one receiver and one connection |
| worker loader, `worker_loader.cpp` | two fixed buffers per parse; the maps of the `Store` | `svc`, `parse_worker`, `parse_content`, `submit_worker`, `stop` | request list, JSON reader, server |
| thread pools and process, `task_base.cpp`, `main.cpp` | threads, a barrier per pool | `open`, `activate`, `run_svc`, `join`, signals and `pause` | everything |
| configuration, `config_map.hpp`, `configuration.cpp` | a tree of sections and values; the numbers taken from it | `import`, `set_section`, `set_value`, `get_value`; `open` | `main` |
| HTTP client, `http.cpp` | what was received, the remaining time | `readHttpResponse` and its helpers; `ParseHttpHeader`, `ParseHttpContentLength`, `ParseHttpContentChunk`; URL codecs | a peer |
| JSON library, `src/src/common/json/json.cpp` | a `Value` tree; the reader's cursor, stack and errors; one static depth counter for the process | `Reader::parse`, `OurReader::parse`, three writers, `Path::resolve`, the calls of `Value` | `parse_worker` parses two fields per request |
| base64, `base64.cpp` | none | `base64_encode`, `base64_decode` | callers |
| text utilities, `util_common.cpp` | none | URL and UTF-8 decoding, splitting, quoting, n-grams, replacing | `parse_worker` uses three of them |

What is hard about them, and what makes each part correct:

- **Request list.** `put` signals after it has unlocked; a woken consumer must
  take the mutex again and may find nothing; a flush may come between a test and
  a wait. Correct means: an atomic queue, in which no task is handed out twice,
  no wakeup is lost, and a flush reaches every consumer.
- **Server.** Receivers, loaders and main share handles that are counted and
  freed. `_read_buf` has no lock of its own. Descriptor numbers come back after
  `close`, which runs before the map entry is erased. epoll is edge-triggered, so
  an event that is lost is lost for good. Header and body are two writes. Correct
  means: a handle is found when epoll reports its descriptor, one receiver reads
  a connection at a time, nobody uses a freed handle or another connection's
  descriptor, answers are not mixed, no readable connection is forgotten, and a
  stop completes unless a loader does not come back from `parse_worker`.
- **Reading a request.** Reads split the stream anywhere; bytes of the next
  request come with the last one; bodies contain line ends and text that looks like
  a header; the body of a rejected request is read as the next header's text.
  Correct means: the bodies delivered are the bodies sent, in order.
- **Worker loader.** The text is decoded twice, in buffers that may be too small.
  The objects in two fields go to the store member by member, each looked up by
  its name as a path. Correct means: what the client encoded comes back, a cut
  never invents a value, and the store has an object whole or not at all.
- **JSON.** Recursive descent with error recovery, written twice (`Reader` and its
  copy `OurReader`); integers collected against a threshold; arrays that are maps
  with holes; writers that decide on line breaks by what they wrote. Correct
  means: what is written is read back, a document without its end is refused, the
  two readers agree, and no number changes on the way, but for what a double
  cannot hold.
- **Pools and process.** The file may ask for no thread or say no number; creating
  threads can fail half-way; a stop can follow the activation at once. Correct
  means: every start ends, in a refusal or with the threads the file asks for,
  nobody serves before everything is there, no barrier is destroyed in use, a
  signal ends the process.
- **HTTP client.** One time budget for many `recv`s, chunks split anywhere, a
  fixed buffer. Correct means: a response reported as complete is exact, and the
  budget is shared.

`PROJECT.json` lists the hazards one by one, each with its line and the
properties that would notice it going wrong.

## Plan

In order of importance to the program:

1. **Request list** — `TaskQueue` (what it promises), `WaitList` (the code),
   `LinkedList` and `ListSpec` (the pointers under it). *Done; the invariants and
   both refinements proved.*
2. **Server** — `HttpServer` composes receivers, loaders, handles, epoll and main
   around the atomic queue that `WaitList` implements. *Done; all safety
   properties proved.*
3. **Process** — `Configuration` on `ConfigTree`, `Startup`, and `Process`, which
   composes them into main. *Done; all safety properties proved.*
4. **Reading requests** — `RequestReader`; `RequestFields` and, on it and `JsonPath`,
   `ParseWorker`. *Done; `RequestReader` and `RequestFields` proved, the store of
   `ParseWorker` with TLC.*
5. **HTTP client** — `HttpResponse`, `HttpClient`, `HttpParse`, `HttpReaders`,
   `UrlCodec`. *Done; all safety properties proved, and the URL coding.*
6. **JSON** — `JsonContainer`, `JsonNumbers` and `JsonEdit` for the values and the
   calls that edit them; `JsonValue`, `JsonReader`, `OurReader`, `JsonWriter`,
   `JsonPath` for everything that has a text; `JsonDepth` for the counter that the
   threads share. *Done; the arrays and the conversions of numbers proved, the texts
   with TLC.*
7. **Codecs and texts** — `Base64`, `TextUtil`, and `Texts`, which puts all the
   conversions of texts into one state machine. *Done; base64 proved.*

What is left:

- Model: the text of `Content-Length` in `GetInfo`, including its absence; the
  collection of comments in `Reader`.
- Prove: what is left are statements about the JSON readers and writers and the
  string functions (`WrittenIsRead`, `ReadersAgree`, `NumbersExact`, `TextsKept`,
  `StoreHolds`). They are mutually recursive operators, which the provers cannot
  unfold, and stay with TLC.

## Modules and code

Operators keep the names of the functions they model. An operator whose name has
a suffix after an underscore and a capital (`put_signal_Forgotten`) is a mutant:
the definition after it with one plausible bug. No specification uses it; it is
there so that a property can be seen to fail (see `mutants` in `PROJECT.json`).

**`TaskQueue`, `WaitList`** (`wait_list.hpp`). `_head`, `_num` and `_alive` are
touched only with `_mutex` held, so a stretch between lock and unlock is one
step. What is not atomic is kept apart: `put` and then `put_signal`; a consumer
that tests, waits, is woken (by a signal, by the broadcast of `flush`, by its
deadline, or spuriously) and tests again. `ret` is what the last `get` returned,
`lost` the nodes that were put on a flushed list. `TaskQueue` has the same
operations without mutex, condition variable and signals; `RefinesTaskQueue` maps
`incall` to the consumers that are not idle and the other variables to themselves.

**`LinkedList`, `ListSpec`** (`linked_list.hpp`). The pointers as two functions on
cells, started from arbitrary values, since the nodes do not initialise them.
`ListSpec` is the sequence; the mapping follows `next` from the head.

**`HttpServer`, `HttpServerInv`, `MCHttpServer`** (`http_server.cpp`,
`socket_handle.hpp`, `worker_loader.cpp:25-39,129-169`, `main.cpp:73-80`). A thread has
a program counter; its steps end where another thread can see the difference.
`get_handle` and `insert_handle` are one step each, since `m_fd_set` and `_ref`
are used only under `_map_mutex`. `release_handle` is two steps, because its
`close` shows in the kernel's table (`fdt`) before the entry of `m_fd_set` is
gone. The kernel is modelled from its use: `reg` is the epoll set, `edge` the
descriptors with an edge nobody has been told of, `backlog` the pending
connections. A connection also names its `SocketHandle`; a `Worker` holds one
reference on a handle. Bytes are abstracted to whole requests (`RequestReader`
has the bytes); whether a header is accepted and whether a read or a write
succeeds is a choice. The task list is the atomic queue of `TaskQueue`.
`loader_get` is the `get` and the `parse_worker` behind it, which ends in one of
the three ways that `ParseWorker` shows: it returns, and the loader answers whether
it reports an error or not; it is `stuck` in `makePath`; or the loader has `died` of
an exception that nothing catches, and with it the process (`Alive`). The endless
loop takes memory, so that a stuck loader may die too (`makePath_exhausted`).

**`RequestReader`, `RequestReaderInv`, `MCRequestReader`** (`http_server.cpp:265-303,381-465`). One connection and its
receiver. The stream is a sequence of tokens: line ends, header texts, and what bodies
are made of, which may be line ends and text of a header too. A token carries what
`GetInfo` can find in it: a `POST`, and of what, and a `Content-Length`. `GetInfo` takes
the first of each in all the text in front of the header's end, also when it belongs
to the body of a request that was rejected before. Each `read` takes a non-empty
prefix of any size. `AppendCString` models `_buffer += buf`, which stops at a NUL.
`ahead` says whether the client sends before it has its answers.

**`RequestFields`, `ParseWorker`** (`worker_loader.cpp:41-127`, `util_common.cpp:257-287`).
Texts are byte sequences; the names of the keys and the word `true` are one symbol
each. `RequestFields` has the client's encoding and the code's two decodes, both
buffer limits and the C-string ends; the loop of `url_utf8_decode` is a function of
the number of turns. It is a specification of its own, in which the rest of
`parse_worker` may do what it likes. `ParseWorker` adds that rest: the fields
`deviceCxt` and `request` go through the reader of `JsonReader` and the lookup of
`JsonPath`. `loader` is `dead` after the exception of the depth limit, which nobody
catches, and `stuck` in a lookup that does not return. Each of its actions conjoins
one action of `RequestFields`, so what is proved there holds here.

**`Startup`** (`task_base.cpp`, `main.cpp`). `pc` is main's position: the step and
the pool it is working on. Threads arrive at the barrier of their pool and enter
`svc` when main has arrived too. Every open can fail.

**`HttpResponse`, `HttpClient`, `HttpClientInv`, `HttpParse`, `HttpReaders`,
`HttpReadersInv`** (`http.cpp`).
`HttpResponse` has the responses as token sequences and the searches for line
ends. `HttpClient` is `readHttpResponse` with its helpers, one step per `recv`;
`prompt` distinguishes a peer that is quick, exact and does not fail.
`HttpParse` has the incremental parsers as operators on what has been received;
the loop of `ParseHttpContentChunk` is a function of the number of turns. `HttpReaders`
runs both on the same stream.

`UrlCodec` has the URL coding of parameters as operators; the loop of `URLDecode` is
a function of the number of turns, too.

**`ConfigTree`, `Configuration`, `Process`, `MCProcess`** (`config_map.hpp`,
`configuration.cpp`, `main.cpp:30-80`). The tree as a function from paths to the list
of a section's nodes, newest first; `open` reads the file twice, as the code does.
A file is a sequence of lines that open a section, set a value, or are ignored.
`Process` runs `open` before `Startup`, with the numbers of threads that `open`
found; `main` returns if it fails. The file is forgotten once `open` has returned:
nothing reads it again.

**`JsonContainer`, `JsonNumbers`, `JsonEdit`, `JsonValue`**
(`src/src/common/json/json.cpp:2223-3465`). A value is a record of its type, number,
bytes and map; array elements are keyed by index in the same map, as in the code, so
that holes exist. A call is an operator from the value before to the value after, or
`Thrown`. `JsonContainer` has the calls on arrays and objects, `JsonNumbers` the tests
and the conversions between number types, `JsonEdit` a value edited call by call, and
`JsonValue` comparison and the conversion to text. Integers have the widths `IntBits`
and `LargestBits`, and an integer is rounded to a double of `DoubleBits` bits where the
code makes one of it (`Rounded`); the two limits that are not doubles are rounded up, as
in the code's comparisons. The fraction of a real is a decimal with a fixed number of
places. `Infinity` stands for a number above every double.

**`JsonReader`, `OurReader`** (`json.cpp:218-935`, `:977-1960`). Text is a sequence of
bytes and a cursor an index. The stack `nodes_` is the recursion. Every function
gives a status, the value so far, the cursor and the places of the errors, so that
what remains in the root after an error is modelled too. `OurReader` has only what
the copy changed; what it kept is shared with `JsonReader`. Doubles are not shared:
`Reader` reads them with `istringstream`, which refuses an exponent without a digit and
a number that is too large, and `OurReader` with `sscanf`, which (in glibc) leaves the
exponent out and gives infinity.

**`JsonWriter`** (`json.cpp:3766-4865`). `FastWriter`, `StyledWriter` and
`BuiltStyledStreamWriter`, with the line breaks, the indentation and the escapes.

**`JsonPath`** (`json.cpp:3561-3678`, `:4883-4920`). `makePath` scans a path; `Endless`
is the result of a scan that never ends.

**`JsonDepth`** (`json.cpp:217-218,303,325-331,374-384`). The loaders and the static
counter, with the load and the store of an increment as two steps.

**`TextUtil`** (`util_common.cpp:289-937`). The string functions, on bytes. `char` is
signed there, which decides what the tests of continuation bytes let through.

**`Base64`** (`base64.cpp`). Shifts and masks are `*`, `\div` and `%`; a character
of the alphabet is its index, and `=` is 64.

**`Texts`, `MCTexts`**. A message is encoded, cut and decoded; a document is read, and
the value then edited by the calls of `JsonEdit`. The other conversions are functions of the
state, which the invariants compare. `Reread` is the reference for the writers: a
value as its text tells it, in which a hole is a null and `1.0` is 1.

The modules `*Inv` hold the inductive invariants, the modules `*Proofs` the theorems
with their lemmas, and `SeqLemmas` the facts about sequences and about induction
that they share. They model no code.

## Runs

| run | checks | bounds |
|---|---|---|
| `waitlist` | `NoLostWakeup`, `NobodySleepsOnDeadList`, `RefinesTaskQueue`, `EveryTaskTaken`, `FlushReleasesAll` | 2 producers, 3 consumers, 2 nodes, all three forms of get |
| `http_server` | `HandleFound`, `ExclusiveReceive`, `HeldHandleIsLive`, `BodyFollowsHeader`, `NoLostEdge`, `BacklogNoticed`, `NoSubmitAfterFlush` | 2 receivers, 2 loaders, 2 connections, 2 descriptors, 2 workers, 2 requests |
| `http_live` | `StopCompletes`, `EveryWorkerReleased`, `EverythingRead` | 2 receivers, 2 loaders, 1 connection, 3 workers, 2 requests, 1 event at a time |
| `http_leak` | `ErroredSocketDisconnected` (violated) | 1 of each |
| `linked_list` | `LinksAgree`, `RefinesList` | 3 nodes, all initial pointers |
| `reader` | `DeliveredInOrder`, `StreamConserved`, `EveryRequestDelivered` | 3 requests, bodies of up to 2 tokens and 4 in all, reads of up to 4 |
| `reader_binary` | `DeliveredInOrder` (violated) | 1 request with a NUL |
| `http_readers` | `SuccessIsExact`, `BudgetIsShared`, `DecodedSoFar`, `EndsWithResponse`, `EveryResponseRead` | 2 chunks of up to 2 bytes, buffer of 3, budget of 2 |
| `process` | `DestroyedUnused`, `LastSettingWins`, `StartDecided`, `AllServe`, `SignalEnds` | every file of up to 5 lines, pools of 0 to 3 threads |
| `texts` | `RoundTrip`, `WrittenIsRead`, `ReadersAgree`, `NumbersExact`, `ConversionsExact`, `ArraysAreSequences`, `TextsKept` | messages of up to 5 bytes; 15 000 documents; values of up to 3 elements; integers of 5 and 8 bits, doubles of 6, nesting limit 3, margin 12 |
| `parse_worker` | `FieldsRecovered`, `CutKeepsBeginnings`, `StoreHolds` | 2 fields, request buffer of 16, nesting limit 3 |
| `json_depth` | `DepthLimited` (violated) | 2 loaders, limit 2, documents 3 deep |

Why the bounds are enough:

- `waitlist`: a lost wakeup needs a consumer that sleeps, one that overtakes it
  and a producer between unlock and signal; a third consumer and a second
  producer add a signal that goes to the wrong one. Two nodes are needed for
  order and for a list that stays non-empty after a get.
- `http_server`: two receivers meet on one connection, two connections share a
  descriptor number, two loaders answer one connection. A third of any kind adds
  no new pair, and the proofs cover it. `MaxEvents = 2` makes an `epoll_wait`
  return a full array while another edge is pending. The constraint
  `FewRequests` lets one connected client pipeline two requests, and two connected
  clients send one between them: the second connection still opens, takes over a
  descriptor number, becomes readable and fails by closing. The proved properties
  hold without it. Symmetry is used since no liveness is checked in this run.
- `http_live`: liveness without symmetry. Two receivers are what a stop can catch in
  two different positions; two requests are what can be left over; with two loaders
  one can go on while the other is stuck, or be in the middle of a write while the
  other answers; and a third worker is free for reading when neither loader gives
  its own back. `epoll_wait` returns one event at a time here; what two receivers make
  of an array of several is the question of `NoLostEdge` in `http_server`. Symmetry is
  not sound for liveness, so the constraint
  `Interchangeable` says of three choices that the first will do: which free `Worker`
  a request takes, which waiting loader takes a task, and in which order the
  receivers are joined. It also leaves out the steps that end the process, since each of
  the three properties excuses what comes after them; `http_server` takes them.
- `reader`: three requests give a middle one with neighbours on both sides; a
  read of up to four tokens can span the end of one request and the header of
  the next; bodies of two tokens can be the sequence that ends a header, or end with a
  `Content-Length` of 0. The constraint `FewTokens` leaves out only the requests of
  which each has a body and two have two tokens.
- `http_readers`: the buffer is smaller than a chunk with its line end, so that
  the limit is met on both sides; a budget of 2 with delays 0, 1, 2 can be used
  up at once, in two steps, exactly and beyond.
- `process`: five lines are a section, a key, the other section, the first
  section again and the key again. Three threads can be created, at the barrier
  and inside at once; 0 threads, which a value that is no number gives, is what
  `task_base::open` refuses. The default of the loaders is 2 instead of 16.
- `texts`: five bytes are one full base64 group and each length of the last one.
  The documents are every sequence of four lexemes, the integers from -300 to 300
  (the limits of 5 and 8 bits are -16, 15, 31, -128, 127 and 255; from 64 on not
  every integer is a double, and from 131072 on there is none), every number of
  four pieces, every string of two plain, escaped, UTF-8 or surrogate pieces,
  texts for the string functions, and documents nested up to and past the limit
  of 3. A margin of 12 is met by arrays of three short elements on both sides.
  Texts of up to 12 bytes are cut into grams: three characters of four bytes.
- `parse_worker`: the buffer holds one field encoded twice and often not two, so
  that the cut falls in every position, also inside an escape and inside an
  object; one value is nested to the limit and one has a NUL in a name.
- `json_depth`: two loaders are enough for one to reset the other's count.

Deadlock is checked in every run but `texts`, where a text that was decoded and a
value at its bound are the end, and `parse_worker` and `json_depth`, where a
loader may die or get stuck.

## Fairness

Only weak fairness is assumed, and only of what the scheduler or a timeout
guarantees:

- `WaitList`: a producer that has unlocked signals; a consumer that can take the
  mutex takes it in the end, and the loaders call `get` again. Nobody owes a put
  or a flush. `EveryTaskTaken` and `FlushReleasesAll` are stated for consumers
  that use `get()`, as the loaders do: a timed caller may poll for ever, and
  `get_from_head` may starve the oldest task.
- `HttpServer`: as long as the process is alive, each receiver, each loader and
  main, once it has begun to stop, take a step when they can. Reads and writes end
  since `poll` has a timeout, and failure is a step of its own. A loader that is
  stuck in `parse_worker` has no step to take: the liveness properties say what
  still holds beside it. Clients owe nothing, the signal may never come, and the
  memory need not run out.
- `RequestReader`: the receiver runs and the client sends what it has to send.
  `EveryRequestDelivered` is for a client that waits for each answer, and for the
  requests in front of the first rejected one, which is never answered. A client
  that sends ahead can wait for ever: bytes already in `_read_buf` raise no event.
- In `Startup` and `Process` `svc` returns once its pool is stopped: a loader stuck in
  `parse_worker`, which `HttpServer` has, is outside them.
- `Startup` and `Process`: main and the threads run, and `Configuration::open`
  returns (`ConfigReturns`): it reads one file twice and takes no lock. Failures
  and signals may never come.
- `HttpReaders`: `readHttpResponse` takes its steps. Nobody owes the incremental
  parsers the rest of the stream.

## Proofs

`tlapm` checks every leaf; nothing is assumed beyond the named assumptions on the
constants, which TLC evaluates in the runs.

| module | theorem | says |
|---|---|---|
| `WaitListProofs` | `TypeCorrect` | `TypeOK` |
| | `FlushNotMissed` | `NobodySleepsOnDeadList` |
| | `WakeupsNotLost` | `NoLostWakeup` |
| | `IsTaskQueue` | `RefinesTaskQueue` |
| `HttpServerProofs` | `Safety` | the inductive invariant |
| | `TypeCorrect`, `AssertHolds`, `ReceiversExclude`, `HandlesStayLive`, `AnswersStayWhole`, `SubmitBeforeFlush`, `InsertSucceeds` | `TypeOK`, `HandleFound`, `ExclusiveReceive`, `HeldHandleIsLive`, `BodyFollowsHeader`, `NoSubmitAfterFlush`, `InsertNeverFails` |
| | `EventsKept`, `NoEdgeLost` | the invariant of the events; `NoLostEdge` |
| | `NoConnectionForgotten`, `DescriptorsSuffice` | `BacklogNoticed`, as long as `accept` finds a free descriptor; and as long as there are never more connections open at once than descriptors (`FewOpen`) |
| `ProcessProofs` | `Invariance`, `NeverServesEarly`, `BarrierOutlivesThreads` | of `Startup`: the inductive invariant, `ServeOnlyWhenReady`, `DestroyedUnused` |
| | `ProcessInvariance`, `ProcessBarriers`, `LastSetting` | of `Process`: the inductive invariant, `DestroyedUnused`, `LastSettingWins` |
| `RequestReaderProofs` | `PlaceKnown`, `RequestsInOrder`, `NoByteLost` | for bodies without NUL: the inductive invariant; `DeliveredInOrder`, itself about streams in which no rejected body holds text of a header (`Clean`); `StreamConserved`, without that condition |
| `HttpReadersProofs` | `OneBudget`, `OffsetsKnown`, `SuccessExact` | of `readHttpResponse`: `BudgetIsShared`, the inductive invariant, `SuccessIsExact` |
| | `ParsersKnowPlace`, `DecodedIsPrefix`, `EndsExactly` | of both readers on one stream: the inductive invariant, `DecodedSoFar`, `EndsWithResponse` |
| `LinkedListProofs` | `LinksStayInverse`, `PointersMakeList` | `LinksAgree`, `RefinesList` |
| `CodecProofs` | `FieldsInvariant`, `FieldsAreRecovered`, `CutsKeepBeginnings` | of `RequestFields`: the inductive invariant, `FieldsRecovered`, `CutKeepsBeginnings` |
| | `RootInvariant`, `ArraysStaySequences`, `ConversionsStayExact` | of `JsonEdit`: what a value can be after any calls, `ArraysAreSequences`, `ConversionsExact` |
| | `DecodeInvertsEncode`, `AlwaysRoundTrip` | base64 decoding inverts encoding for every message; `RoundTrip` |
| | `CodeIsUndone`, `ParameterSurvives` | `URLDecode` undoes `URLCode` for every text of bytes, and reads a parameter of `add_param` back |

**The request list.** Assumptions: the producers and consumers are finite sets,
the markers are no nodes. Sleeping consumers are exactly those whose counter says
so, which with `~alive => waiting = {}` is inductive. For `NoLostWakeup`, a put
adds a node and a producer that has still to signal; a signal moves the debt from
the producer to the consumer it wakes; a consumer that takes a node pays with
itself. One that goes back to sleep finds the list empty, so nothing is owed. The
refinement maps each action to its namesake of `TaskQueue` or to a stutter.

**The server.** The properties are not inductive: that a worker's handle is live
depends on reference counts, on who may close, and on where each descriptor is.
`HttpServerInv!Inv` follows the code's own argument. A descriptor is registered
with epoll, or in the hands of one receiver, or given up because its handle is in
error (`EpollInv`). Only a handle in error is closed, by the last worker that
refers to it: `_ref` is at least the number of workers that refer to the handle
(`RefInv`), and each worker in use is in one place (`JobInv`). Between `close` and
`erase` the number may belong to a new connection, which `_map_mutex` hides from
everybody who could tell (`MapInv`); a connection that is new has no handle yet
(`FreshInv`). `LockInv`, `JoinInv` and `WriteInv` say who owns the mutexes, which
threads have ended and who is writing. `_ref` is a lower bound and no equality
because of the reference that a rejected request keeps (see Findings). The proof
has a lemma per action, and under it a step per part that the action can disturb.

`EventInv` adds what the events need: a receiver calls `epoll_wait` only with no
reported event left, so that none is overwritten, and the destructor leaves no
descriptor registered. With it a descriptor that has something to read has its edge
pending, or its event reported and not yet taken. `BacklogNoticed` is different: the
listening socket is edge-triggered too, and a receiver that cannot accept listening socket is edge-triggered too, and a receiver that cannot accept for want
of a descriptor drops the edge. The theorem therefore says what it takes, and
`DescriptorsSuffice` in terms of the clients: a descriptor in use belongs to a
connection that was accepted and is not yet closed, so that one is free for a pending
connection if those open or pending are never more than the descriptors, however many
connections the server has in its life.

**The intrusive list.** `LinksAgree` alone does not say that the cells form one
ring. The refinement uses that the cells on the list are the elements of a sequence
whose neighbours the pointers join; each operation changes that sequence as
`ListSpec` does, and following `next` from the head enumerates it.

**Reading a request.** `RequestReaderInv!Inv` says where in the stream the receiver
is: a number of requests is dealt with, their good bodies are what was delivered,
and `_read_buf` and the socket hold the rest of the stream. In the header the
receiver is between two requests, or somewhere in the body of a rejected one, whose
length it does not know; in a body it has a known number of bytes. The hypothesis
`Textual`, that no body has a NUL, is needed: `reader_binary` is the counterexample.
So is `Clean` for the order: without it the invariant keeps only `RestInv`, that the
buffer and the socket hold the end of the stream, and that is what `NoByteLost` needs.

**Reading a response.** What was received is a prefix of the stream, and
`HttpClientInv!Inv` says that `header_length`, `pos_num`, `pos_chunk_start` and
`remain` are where the header and the chunks of the response that was sent really
end, although the code finds them by searching for line ends, and data may contain
line ends. The budget needs no such place, only that each `recv` takes off what it
took. For the incremental parsers, `HttpReadersInv!BothInv` says that what they hold
is the part of the stream after the last whole chunk, wherever it was cut; the loop
is followed turn by turn, each turn taking one chunk. `EndsExactly` assumes that the
longest header the parsers accept has room for three tokens, the framing line and
the two line ends (the code's limit is 10240 bytes).

**The configuration.** After n lines the current section is the one line n is in, and
every lookup finds what the first n lines say last (`Agrees`). A line that opens a
section adds a node that no lookup of a value can see; a line that sets a value
changes the first match or puts a node before all others. Assumptions: the lines are
of the three kinds, the two sections are paths, and `MaxThreads` bounds the numbers
of a file. `ProcessInv` joins this to `Startup!Inv`: as long as `open` has not
returned, the pools are as at the start, so that its result can still be chosen.

**The process.** `Startup!Inv` adds to the two properties that threads are
created in order, that main arrives at the loader's barrier first and only with
all descriptors open, that a thread is past its barrier only if main has come to
it, and that the threads counted as joined are done. `Cardinality` of the arrived
parties against the count of the barrier gives the third.

**The fields of a request.** `FieldsInv` is `RequestKept`, which says that the body is
still the text of the fields sent or has been parsed, with the two properties; the
proof is about what a parse finds. `Codes(x, w)` says that x is a row of units, bytes
or escapes, that stand for the bytes of w. Encoding gives a code, concatenations of
codes are codes, and `DecodeCode` and `DecodeCut` follow the loop turn by turn over a
code, to its end or to where the buffer or the text ends. So the first decode gives the
body encoded once less, or a beginning of it. `Layout` says where the fields lie in
that text. No value holds `&` or `=` while it is encoded, so the separators are those
between the fields and the search for a key finds the first field of that name. The
second decode gives its value. In a text that is cut, the field of the cut ends behind
whole units and at most two bytes of an escape. Assumptions: the request buffer has two bytes
or more and is smaller than the buffer of a field, as 2048 is than 8191; values hold no
NUL, since a request is kept as a C string.

**JSON arrays and numbers.** The theorems are about `EditSpec`: a value that starts as
null and is edited by any calls, for any items, names and bound on the size. `RootInv`
says it is null, an array that has stored values at a set of indices up to the bound,
or an object. `HasIndices` and `SizeIs` reduce `append`, `removeIndex` and `resize` to
the indices they leave and the values at them; on a set of indices without holes that
is an operation on a sequence. For the conversions it is enough that elements are what
was stored; the rest is a case for each type, with the limits that a double rounds up,
and the arithmetic of a cast (`Truncates`). Assumptions: an exception is no value and no
number (`EditAssumption`), the decimals have at most nine places, and the limits of the
narrow integers lie below those of the wide ones (`JsonNumbersAssumption`; the provers
know nothing of powers of two, TLC evaluates it). A document that was read from text is
not covered by the theorems; the run `texts` checks the same properties on it.

**Codecs.** The base64 text of a message is built group by group, so the proof goes over
one group: three bytes and back, and the two shorter last groups, in arithmetic
with `\div` and `%`. No induction over the length is needed, because both
functions are defined by index. `URLDecode` is followed turn by turn over a text whose
first bytes stand for themselves and whose rest is escaped.

**Induction and recursive functions.** The provers cannot use an induction theorem
that takes a predicate as its parameter. `SeqLemmas!NatSetInduction` states induction
for a set instead, and follows from the least element of a set of naturals. A
recursive function is a `CHOOSE`; its defining equation is proved by a lemma that
such a function exists, by induction on its domain (`FlattensExists`, `TurnsExist`,
`VisitsExist`, `DecodeTurnsExist`, `UrlTurnsExist`). Recursive operators have no such
form.

Only model-checked: every liveness property (the prover has no fairness and no
`ENABLED`), and `WrittenIsRead`, `ReadersAgree`, `NumbersExact`, `TextsKept` and
`StoreHolds`, whose readers, writers and scanners are recursive operators. Conversely,
`TypeOK`, `InsertNeverFails` and `ServeOnlyWhenReady` are proved and need no run of
their own, and `SuccessStaysExact` and `BudgetStaysShared` carry the theorems on
`readHttpResponse` over to a caller that goes on reading.

## Findings

- **`http_leak`** — after `[Package Invalid]` (`http_server.cpp:289`) the reference
  that `get_handle` took is not released. A later error on the connection then
  finds `_ref` above zero: the log says `[disconnect error socket]`, but the
  socket is neither closed nor removed from `m_fd_set`.
- **`reader_binary`** — requests are collected with `content += buf`
  (`http_server.cpp:449`), which ends at a NUL, while the protocol documents binary
  audio as the content (`src/README.md:44`).
- **`json_depth`** — `Reader` counts the nesting in one static int
  (`json.cpp:218`), and each parse begins by setting it to 0 (`json.cpp:303`). The
  comment at `json.cpp:326` calls this "a non-reentrant way to support a stackLimit"
  and "a fair, binary-compatible way to prevent the problem". The loaders parse in
  parallel, which its first half warns of and its second half does not survive: the
  limit does not hold per document.

### Noticed while reading

Not the subject of a run:

- `configuration.cpp:79` looks up `threadstacksize`, `src/src/conf/worker.cfg:3` sets
  `ThreadStackSize`; keys are compared with their case, so the setting is not used.
- `configuration.cpp:103` logs a default of 4 receivers, the next line sets 3.
- `http.cpp:206-212` lacks the `else` that its three siblings have, so the budget is
  reduced below zero in the loop for the last chunk. The model has this
  (`SpendLast`); `BudgetIsShared` bounds the budget from above and still holds.

- `makePath` (`json.cpp:3614`) tests the end of a name with `strchr("[.", c)`, which
  also finds the NUL: on a path with a NUL it makes no progress. The model has this
  (`Endless`), `StoreHolds` says what it takes to get there, and `HttpServer` what
  becomes of the server: the loader is lost, and a stop waits for it. The exception of
  the depth limit (`json.cpp:330`) is caught by nobody between there and the thread's
  start, and ends the process.
- A rejected request (`http_server.cpp:289`) is not answered, so a client that waits
  for its answer waits for ever. Its body stays in the stream and is read in front of
  the next header; if it holds `POST` or `Content-Length:`, `GetInfo` (`:385-393`) finds
  these first, and the next request is rejected or cut at the wrong place.
- `Reader` (`json.cpp:745-755`) and its copy (`json.cpp:1609-1643`) read doubles with
  different functions: `[2e]` and `[1e999]` are errors to the first, and 2 and infinity
  to the second. `ReadersAgree` says that they differ in nothing else, apostrophes
  aside. The server uses `Reader`.
- `get_json_string(res, *iter)` (`worker_loader.cpp:99`) treats a member name as a
  path, so the member `a.b` is looked up as `b` inside `a`.
- `resize` to a smaller size ends in `assert(size() == newSize)` (`json.cpp:3081`),
  which fails if the element before the new end is a hole.
- `asInt64` (`json.cpp:2873`) accepts the double 2^63, `isInt64` does not.
- `format_json_string` (`util_common.cpp:828`) writes `\'` and a backslash before a
  newline, neither of which is JSON; `TextsKept` says for which texts it is.
- `OurReader::readToken` (`json.cpp:1251`) lets an apostrophe that opens no string
  fall through to the case of comments.
- `replace` (`util_common.cpp:766`) does not end if the new text contains the old one.
- `parse_worker` assigns `store->appid` and `store->userid`
  (`worker_loader.cpp:101-102`), which `worker_store.h` does not declare.

## What is not modelled

- Answer formatting (`output_package`, `request_type`) and logging: no decision a
  property could be about.
- Of the JSON library: comments (skipped, never collected), `StyledStreamWriter`
  (the layout of `StyledWriter` on a stream), iterators, `swap`, `Path::make`, the
  ordering of values, the writers' dropped null placeholders, the wording of errors.
  Integers are rounded as doubles are, but the fraction of a real is a decimal of two
  places, so the rounding of fractions is outside, and so are the exponents that
  `"%.17g"` writes.
- Of `util_common.cpp`: the iconv converters and `mk_cdata` (the library does the
  work), time and random numbers, and the table of IP locations.
- `enum_value` of the configuration map, `readRequest`, `readString` and `getAppValue` of
  the configuration, and `Store::Init`: nothing in the server calls them.
- Time: a timeout is a step that may happen, except in `HttpClient`, which counts it.
- Signals outside `pause()`: the handlers are empty, so such a signal is forgotten.
- The text of the header fields: `GetInfo` is modelled by the `POST` and the length it
  finds, and by whether it accepts them. A length that is negative or no number is
  outside; a header without one is rejected.
- `kill -9` in `src/src/start.sh`: nothing is persisted, so there is nothing to recover.
