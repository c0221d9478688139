----------------------------- MODULE EventStream -----------------------------
(***************************************************************************)
(* The event stream of the web UI: handlers of /ui/events register with a  *)
(* broker, a ticker broadcasts, the broker passes each message on to the   *)
(* channel of every client, and the end of the process stops ticker,       *)
(* broker and HTTP server, each in its own goroutine.                      *)
(***************************************************************************)
EXTENDS Naturals

CONSTANTS
    Slots,      \* handler goroutines, one for each request
    Cap,        \* capacity of a client's channel (10)
    QueueCap    \* capacity of the broadcast channel (100)

ASSUME StreamAssumption == Cap \in Nat \ {0} /\ QueueCap \in Nat \ {0}

VARIABLES
    pc,         \* function: where each handler is
    gone,       \* function: its client has disconnected
    id,         \* function: the name it has given itself, the time in nanoseconds
    chan,       \* function: messages in the client's channel
    closed,     \* the clients whose channel is closed
    clients,    \* the clients in the broker's map, of which no two have one name
    broker,     \* "select", "sending" or "stopped"
    pending,    \* clients the message at hand has still to be offered to
    queue,      \* messages in the broadcast channel
    http        \* the HTTP server: "up", "down" (Shutdown waits) or "closed"

brokerVars == <<closed, clients, broker, pending, queue>>
vars == <<pc, gone, id, chan, brokerVars, http>>

Init ==
    /\ pc = [i \in Slots |-> "idle"]
    /\ gone = [i \in Slots |-> FALSE]
    /\ id \in [Slots -> Slots]
    /\ chan = [i \in Slots |-> 0]
    /\ closed = {} /\ clients = {} /\ pending = {} /\ queue = 0
    /\ broker = "select" /\ http = "up"

\* The entry of the map under the name of client i, a set of at most one
Listed(i) == {j \in clients : id[j] = id[i]}

\* ServeHTTP makes the channel and waits for the broker to take it. Two requests in one
\* nanosecond have one name (generateClientID).
Connect(i) ==
    /\ pc[i] = "idle" /\ http = "up"
    /\ pc' = [pc EXCEPT ![i] = "register"]
    /\ UNCHANGED <<gone, id, chan, brokerVars, http>>

\* b.register <- client, and the broker's side of it, which replaces an entry of the name
Register(i) ==
    /\ pc[i] = "register" /\ broker = "select"
    /\ pc' = [pc EXCEPT ![i] = "stream"]
    /\ clients' = (clients \ Listed(i)) \cup {i}
    /\ UNCHANGED <<gone, id, chan, closed, broker, pending, queue, http>>

\* A message is written to the client.
Forward(i) ==
    /\ pc[i] = "stream" /\ chan[i] > 0
    /\ chan' = [chan EXCEPT ![i] = @ - 1]
    /\ UNCHANGED <<pc, gone, id, brokerVars, http>>

\* The loop ends: the request's context is done, a write fails (the client is gone or
\* the write timeout is over), or the channel is closed and empty.
Leave(i) ==
    /\ pc[i] = "stream"
    /\ gone[i] \/ (i \in closed /\ chan[i] = 0)
    /\ pc' = [pc EXCEPT ![i] = "unregister"]
    /\ UNCHANGED <<gone, id, chan, brokerVars, http>>

WriteTimesOut(i) ==
    /\ pc[i] = "stream"
    /\ chan' = [chan EXCEPT ![i] = IF @ > 0 THEN @ - 1 ELSE @]
    /\ pc' = [pc EXCEPT ![i] = "unregister"]
    /\ UNCHANGED <<gone, id, brokerVars, http>>

\* Mutant: the handler closes its channel itself.
UnregisterAtOnce(i) ==
    /\ pc[i] = "unregister"
    /\ pc' = [pc EXCEPT ![i] = "done"]
    /\ chan' = [chan EXCEPT ![i] = 0]
    /\ closed' = IF Listed(i) = {} THEN closed ELSE closed \cup {i}
    /\ clients' = clients \ Listed(i)
    /\ UNCHANGED <<gone, id, broker, pending, queue, http>>

\* The deferred b.unregister <- client, and the broker's side of it: if the map has an
\* entry of this name, whoever's it is, the client's own channel is closed and the entry
\* taken out.
Unregister(i) ==
    /\ pc[i] = "unregister" /\ broker = "select"
    /\ pc' = [pc EXCEPT ![i] = "done"]
    /\ chan' = [chan EXCEPT ![i] = 0]
    /\ closed' = IF Listed(i) = {} THEN closed ELSE closed \cup {i}
    /\ clients' = clients \ Listed(i)
    /\ UNCHANGED <<gone, id, broker, pending, queue, http>>

Disconnect(i) ==
    /\ pc[i] \in {"register", "stream"} /\ ~gone[i]
    /\ gone' = [gone EXCEPT ![i] = TRUE]
    /\ UNCHANGED <<pc, id, chan, brokerVars, http>>

-----------------------------------------------------------------------------

\* startWatching, Broadcast: a message that finds the queue full is dropped.
Broadcast ==
    /\ http = "up" /\ queue < QueueCap
    /\ queue' = queue + 1
    /\ UNCHANGED <<pc, gone, id, chan, closed, clients, broker, pending, http>>

TakeMessage ==
    /\ broker = "select" /\ queue > 0
    /\ queue' = queue - 1
    /\ broker' = "sending" /\ pending' = clients
    /\ UNCHANGED <<pc, gone, id, chan, closed, clients, http>>

\* Mutant: the broker waits for room in the channel.
SendBlocking(i) ==
    chan[i] < Cap /\ chan' = [chan EXCEPT ![i] = @ + 1]

\* A client whose channel is full misses the message.
Send(i) ==
    chan' = [chan EXCEPT ![i] = IF @ < Cap THEN @ + 1 ELSE @]

Deliver(i) ==
    /\ broker = "sending" /\ i \in pending
    /\ Send(i)
    /\ pending' = pending \ {i}
    /\ UNCHANGED <<pc, gone, id, closed, clients, broker, queue, http>>

Delivered ==
    /\ broker = "sending" /\ pending = {}
    /\ broker' = "select"
    /\ UNCHANGED <<pc, gone, id, chan, closed, clients, pending, queue, http>>

\* ctx.Done: the channels are closed and the loop is left.
StopBroker ==
    /\ http # "up" /\ broker = "select"
    /\ broker' = "stopped" /\ closed' = closed \cup clients /\ clients' = {}
    /\ UNCHANGED <<pc, gone, id, chan, pending, queue, http>>

\* The manager cancels the context: Server.Start calls Shutdown, which closes the
\* listener and waits.
Stop ==
    /\ http = "up" /\ http' = "down"
    /\ UNCHANGED <<pc, gone, id, chan, brokerVars>>

\* Shutdown returns when no handler is left, or with an error after five seconds.
ShutdownReturns ==
    /\ http = "down" /\ http' = "closed"
    /\ UNCHANGED <<pc, gone, id, chan, brokerVars>>

HandlerSteps(i) == Register(i) \/ Forward(i) \/ Leave(i) \/ Unregister(i)
BrokerSteps == TakeMessage \/ (\E i \in Slots : Deliver(i)) \/ Delivered

Next ==
    \/ \E i \in Slots : Connect(i) \/ HandlerSteps(i) \/ WriteTimesOut(i) \/ Disconnect(i)
    \/ BrokerSteps \/ Broadcast \/ StopBroker \/ Stop \/ ShutdownReturns

Spec == Init /\ [][Next]_vars

\* Goroutines run, and a select takes each of its ready cases in the end: Go chooses among
\* them at random.
FairSpec ==
    /\ Spec
    /\ \A i \in Slots :
        SF_vars(Register(i)) /\ SF_vars(Unregister(i)) /\ WF_vars(Forward(i)) /\ WF_vars(Leave(i))
    /\ WF_vars(BrokerSteps) /\ SF_vars(StopBroker)

-----------------------------------------------------------------------------
(* What the broker promises.                                               *)

\* The broker offers a message only to clients whose channel is open (a send on a closed
\* channel would end the process), even where two clients share a name, and no queue
\* outgrows its capacity.
TypeOK ==
    /\ pc \in [Slots -> {"idle", "register", "stream", "unregister", "done"}]
    /\ gone \in [Slots -> BOOLEAN]
    /\ id \in [Slots -> Slots]
    /\ chan \in [Slots -> 0..Cap]
    /\ closed \subseteq Slots /\ clients \subseteq Slots \ closed /\ pending \subseteq clients
    /\ broker \in {"select", "sending", "stopped"}
    /\ queue \in 0..QueueCap
    /\ http \in {"up", "down", "closed"}

\* A handler that comes to the broker after it has stopped (sse.go:105, 109) waits for the
\* end of the process.
Ended(i) == pc[i] = "done" \/ (broker = "stopped" /\ pc[i] \in {"register", "unregister"})

\* A client whose entry was replaced, or taken out, by another of the same name
Forgotten(i) == pc[i] = "stream" /\ i \notin clients \cup closed

\* A stream whose client is gone ends, however slow the other clients are, and so does
\* every stream when the server stops, except a forgotten one: its channel stays open and
\* its handler streams on until the client leaves or a write fails.
StreamEnds ==
    \A i \in Slots :
        /\ pc[i] \in {"register", "stream", "unregister"} /\ gone[i] ~> Ended(i)
        /\ pc[i] \in {"register", "stream", "unregister"} /\ http # "up"
            ~> Ended(i) \/ Forgotten(i)
=============================================================================
