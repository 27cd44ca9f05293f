---------------------------- MODULE ParseWorker ----------------------------
(***************************************************************************)
(* Worker_Loader::parse_worker: a loader thread turns the body of a        *)
(* request into the fields of its Worker (RequestFields).  The fields      *)
(* deviceCxt and request are JSON: the members of an object go to the      *)
(* Worker's Store, each looked up by its name, which get_json_string takes *)
(* for a path.  A loader parses its own worker, so one parse is one step   *)
(* here; the counter that all parses share is the subject of JsonDepth.    *)
(***************************************************************************)
EXTENDS RequestFields, JsonPath

VARIABLES worker,    \* what parse_worker leaves in the Worker and its Store
          loader     \* "running", "dead" after an exception, or "stuck" in a call

vars == <<fieldVars, worker, loader>>

NoWorker == [request_type_str |-> <<>>, deviceCxt |-> <<>>, request |-> <<>>,
             appid |-> <<>>, userid |-> <<>>, force_query |-> FALSE]

-----------------------------------------------------------------------------
\* The tests that follow reader.parse: the object, or Null.
ObjectIn(read) ==
    CASE read.status = "thrown" -> Thrown
      [] read.status = "ok" /\ read.value.type = objectValue -> read.value
      [] OTHER -> Null

ObjectRead(text) == ObjectIn(parse(text, all))

\* The loop over the members, each stored under its name.
StoredMembers(object) ==
    [n \in Range(getMemberNames(object)) |-> get_json_string(object, n, <<>>)]

\* What storing the members of a field does to the loader.
Outcome(object) ==
    CASE object = Thrown -> "dead"
      [] object # Thrown /\ \E n \in DOMAIN object.m : get_json_string(object, n, <<>>) = Endless -> "stuck"
      [] OTHER -> "running"

Init == FieldsInit /\ worker = NoWorker /\ loader = "running"

\* The loader takes the next request, in a Worker of its own.
Receive ==
    /\ loader = "running"
    /\ ReceiveFields
    /\ UNCHANGED <<worker, loader>>

\* The rest of parse_worker, for the objects in the fields deviceCxt and
\* request.
Store(result, device, options) ==
    /\ Outcome(device) = "running" /\ Outcome(options) = "running"
    /\ ParseFields(result)
    /\ worker' = [request_type_str |-> result[type],
                  deviceCxt        |-> StoredMembers(device),
                  request          |-> StoredMembers(options),
                  appid            |-> get_json_string(device, appId, <<>>),
                  userid           |-> get_json_string(device, userId, <<>>),
                  force_query      |-> result[forcequery] = <<true>>]

parse_worker ==
    /\ body # <<>>
    /\ Store(Fields, ObjectRead(Fields[deviceCxt]), ObjectRead(Fields[request]))
    /\ UNCHANGED loader

\* No one catches what the reader throws, and the process ends with it; a
\* name that get_json_string never finishes with keeps the loader for ever.
Fail(result, first, second) ==
    /\ <<first, second>> # <<"running", "running">>
    /\ loader' = IF first # "running" THEN first ELSE second
    /\ ParseFields(result)

parse_worker_fails ==
    /\ body # <<>>
    /\ Fail(Fields, Outcome(ObjectRead(Fields[deviceCxt])), Outcome(ObjectRead(Fields[request])))
    /\ UNCHANGED worker

\* svc gives the Worker back to the server, which answers and deletes it.
retrieve_worker ==
    /\ loader = "running"
    /\ RetrieveFields
    /\ worker' = NoWorker
    /\ UNCHANGED loader

Next == Receive \/ parse_worker \/ parse_worker_fails \/ retrieve_worker

Spec == Init /\ [][Next]_vars

-----------------------------------------------------------------------------
\* A name that a path leaves alone.
PlainName(n) == n # <<>> /\ n[1] # Percent /\ Range(n) \cap {LBracket, Dot, 0} = {}

\* The text of a member, looked up in the object itself.
MemberText(object, n) == IF isContainer(object.m[n]) THEN <<>> ELSE asString(object.m[n])

\* A value of the client on which the loader may fail: a beginning of it is
\* nested to the limit, or its object has a NUL in a name.
Harms(v, object) ==
    \/ \E k \in 0..Len(v) : ObjectRead(SubSeq(v, 1, k)) = Thrown
    \/ object # Thrown /\ \E n \in DOMAIN object.m : 0 \in Range(n)

Holds(store, object) ==
    /\ DOMAIN store = DOMAIN object.m
    /\ \A n \in DOMAIN store : PlainName(n) => store[n] = MemberText(object, n)

StoredAs(store, object) ==
    /\ store = <<>> \/ Holds(store, object)
    /\ Fits /\ object.type = objectValue => Holds(store, object)

\* The Store gets an object of the client whole or not at all, whatever the
\* buffer cuts off (worker_loader.cpp:90-116): all its members, each with its
\* own text as long as its name is no path.  The loader fails only on a value
\* that is nested to the limit, or has a NUL in a name, and no other field of
\* the request makes it fail.
StoreHolds ==
    Parsed /\ encodings = 2 =>
        IF loader = "running"
        THEN /\ StoredAs(worker.deviceCxt, ObjectRead(Meant(deviceCxt)))
             /\ StoredAs(worker.request, ObjectRead(Meant(request)))
        ELSE \E f \in {deviceCxt, request} : Harms(Meant(f), ObjectRead(Meant(f)))
=============================================================================
