---- MODULE DeviceRegistry ----
(***************************************************************************)
(* What DeviceManager promises of a registry of devices, with no threads,  *)
(* locks, objects or rows: a request changes what is recorded of its       *)
(* device at most once, no request touches another's device, the device    *)
(* that is served follows the record, a device runs only between the start *)
(* and the stop that were asked for, and after a crash everything recorded *)
(* is served again before the next request is taken.  Nothing is promised  *)
(* of an id that is muddled, before the program is started again.          *)
(***************************************************************************)
CONSTANTS Workers, Ids, Ports, Paths, NoRequest

Entry == [port : Ports, path : Paths]

Request ==
    [op : {"create", "update"}, id : Ids, port : Ports, path : Paths]
        \cup [op : {"delete", "start", "stop"}, id : Ids]

VARIABLES
    record,   \* of each id: the entry that survives a crash, if any
    started,  \* the ids recorded as started
    up,       \* requests are taken
    served,   \* of each id: the entry its device works with, if any
    running,  \* the ids whose device runs
    request,  \* of each worker
    done,     \* the workers whose request took effect, or will have none
    muddled,  \* the ids of which two requests overlapped, or the record was not read
    unsure    \* the ids that may be recorded as started or not, whatever they do

durable  == <<record, started>>
volatile == <<up, served, running>>
calls    == <<request, done>>
limits   == <<muddled, unsure>>
vars == <<durable, volatile, calls, limits>>

Nothing == [i \in Ids |-> {}]
NoCalls == [w \in Workers |-> NoRequest]

Init ==
    /\ record = Nothing
    /\ started = {}
    /\ up = FALSE
    /\ served = Nothing
    /\ running = {}
    /\ request = NoCalls
    /\ done = {}
    /\ muddled = {}
    /\ unsure = {}

\* What is served is what a crash would bring back.
Agrees(i) ==
    /\ served[i] = record[i]
    /\ i \in unsure \/ (i \in running <=> i \in started)

\* The ids in M are no longer looked at; what was known of the others stays.
Forget(M) ==
    /\ muddled' = muddled \cup M
    /\ record' = [i \in Ids |-> IF i \in M THEN {} ELSE record[i]]
    /\ started' = started \ M
    /\ unsure' = unsure \ M

\* The record survives.  That of a muddled id comes to light again, if it is one.
Crash ==
    /\ up' = FALSE
    /\ served' = Nothing
    /\ running' = {}
    /\ request' = NoCalls
    /\ done' = {}
    /\ unsure' = {}
    /\ muddled' \subseteq muddled
    /\ started' \subseteq Ids
    /\ \A i \in Ids \ muddled : record'[i] = record[i] /\ (i \in started' <=> i \in started)
    /\ record' \in [Ids -> {{}} \cup {{e} : e \in Entry}]
    /\ \A i \in muddled' : record'[i] = {} /\ i \notin started'

\* A recorded device is served again; if it was started it runs, or could not.
Load(i) ==
    /\ ~ up
    /\ record[i] # {}
    /\ served[i] = {}
    /\ served' = [served EXCEPT ![i] = record[i]]
    /\ \/ i \in started /\ running' = running \cup {i} /\ UNCHANGED unsure
       \/ i \in started /\ unsure' = unsure \cup {i} /\ UNCHANGED running
       \/ i \notin started /\ UNCHANGED <<running, unsure>>
    /\ UNCHANGED <<durable, up, calls, muddled>>

Serve ==
    /\ ~ up
    /\ \A i \in Ids : Agrees(i)
    /\ up' = TRUE
    /\ UNCHANGED <<durable, served, running, calls, limits>>

\* The record is not read.
ServeUnread ==
    /\ ~ up
    /\ served = Nothing
    /\ up' = TRUE
    /\ Forget({i \in Ids : record[i] # {}})
    /\ UNCHANGED <<served, running, calls>>

----
\* A worker takes a request for an id that nobody works on.
Ask(w) ==
    LET q == request'[w] IN
    /\ up
    /\ request[w] = NoRequest
    /\ q \in Request
    /\ q.id \notin muddled
    /\ \A v \in Workers : request[v] # NoRequest => request[v].id # q.id
    /\ request' = [request EXCEPT ![w] = q]
    /\ UNCHANGED <<durable, volatile, done, limits>>

\* A second request for i comes before the first is answered.
Overlap(i) ==
    LET others == {w \in Workers : request[w] # NoRequest /\ request[w].id = i} IN
    /\ i \in muddled' \ muddled
    /\ others # {}
    /\ Forget({i})
    /\ request' = [w \in Workers |-> IF w \in others THEN NoRequest ELSE request[w]]
    /\ done' = done \ others
    /\ served' = [served EXCEPT ![i] = {}]
    /\ running' = running \ {i}
    /\ UNCHANGED up

For(w, op, i) == request[w] # NoRequest /\ request[w].op = op /\ request[w].id = i

\* A request has its effect, once, or it is clear that it will have none.
TakesEffect(w, op, i) ==
    /\ For(w, op, i)
    /\ w \notin done
    /\ done' = done \cup {w}
    /\ UNCHANGED request

Leaves(w) ==
    /\ request[w] # NoRequest
    /\ request' = [request EXCEPT ![w] = NoRequest]
    /\ done' = done \ {w}

Asked(w) == [port |-> request[w].port, path |-> request[w].path]

Write(w, i) ==
    /\ \/ TakesEffect(w, "create", i) /\ record[i] = {} /\ i \notin started
       \/ TakesEffect(w, "update", i) /\ record[i] # {}
    /\ record' = [record EXCEPT ![i] = {Asked(w)}]
    /\ UNCHANGED <<started, volatile, limits>>

Erase(w, i) ==
    /\ TakesEffect(w, "delete", i)
    /\ record[i] # {}
    /\ record' = [record EXCEPT ![i] = {}]
    /\ started' = started \ {i}
    /\ unsure' = unsure \ {i}
    /\ UNCHANGED <<volatile, muddled>>

Run(w, i) ==
    /\ For(w, "start", i)
    /\ w \notin done
    /\ UNCHANGED <<durable, up, served, calls, limits>>
    /\ served[i] # {}
    /\ i \notin running
    /\ running' = running \cup {i}

\* The device does not start.
RunFails(w, i) ==
    /\ TakesEffect(w, "start", i)
    /\ UNCHANGED <<durable, volatile, limits>>

Halt(w, i) ==
    /\ For(w, "stop", i)
    /\ w \notin done
    /\ UNCHANGED <<durable, up, served, calls, limits>>
    /\ running' = running \ {i}

\* What the device does by now is recorded, ...
Mark(w, i) ==
    /\ \/ TakesEffect(w, "start", i) /\ i \in running /\ started' = started \cup {i}
       \/ TakesEffect(w, "stop", i) /\ i \notin running /\ started' = started \ {i}
    /\ record[i] # {}
    /\ unsure' = unsure \ {i}
    /\ UNCHANGED <<record, volatile, muddled>>

\* ... or it is not, which nobody notices.
MarkFails(w, i) ==
    /\ \/ TakesEffect(w, "start", i) /\ i \in running
       \/ TakesEffect(w, "stop", i) /\ i \notin running
    /\ unsure' = unsure \cup {i}
    /\ UNCHANGED <<durable, volatile, muddled>>

\* The device of a changed record follows it.
Apply(w, i) ==
    /\ For(w, "update", i)
    /\ w \in done
    /\ i \notin running
    /\ served' = [served EXCEPT ![i] = record[i]]
    /\ UNCHANGED <<durable, up, running, calls, limits>>

\* A new device is served, or a deleted one no longer, and the worker answers.
Publish(w, i) ==
    /\ For(w, "create", i) \/ For(w, "delete", i)
    /\ w \in done
    /\ Leaves(w)
    /\ served' = [served EXCEPT ![i] = record[i]]
    /\ running' = running \ {i}
    /\ UNCHANGED <<durable, up, limits>>

\* Whatever became of the request, what is served agrees with the record; of a
\* device that is there, the start was tried, the stop made, and that recorded.
Answer(w, i) ==
    /\ Leaves(w)
    /\ request[w].id = i
    /\ request[w].op \in {"start", "stop"} /\ served[i] # {} => w \in done
    /\ Agrees(i)
    /\ UNCHANGED <<durable, volatile, limits>>

Handle(w, i) ==
    /\ request[w] # NoRequest
    /\ request[w].id = i
    /\ \/ Write(w, i) \/ Erase(w, i)
       \/ Run(w, i) \/ RunFails(w, i) \/ Halt(w, i) \/ Mark(w, i) \/ MarkFails(w, i)
       \/ Apply(w, i) \/ Publish(w, i) \/ Answer(w, i)

Next ==
    \/ Crash \/ Serve \/ ServeUnread
    \/ \E i \in Ids : Load(i) \/ Overlap(i)
    \/ \E w \in Workers : Ask(w)
    \/ \E w \in Workers, i \in Ids : Handle(w, i)

Spec == Init /\ [][Next]_vars
====
