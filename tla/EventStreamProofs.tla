-------------------------- MODULE EventStreamProofs --------------------------
(* Proofs about EventStream, for any number of clients and any capacities.   *)
EXTENDS EventStream, TLAPS

\* A message is at hand only while the broker is sending: the broker takes a client off
\* its list, or stops, only between two messages. A channel that no map entry has had is
\* open: it is closed when its own handler unregisters or the broker stops.
StreamInv ==
    /\ TypeOK
    /\ \A i \in Slots : pc[i] \in {"idle", "register"} => i \notin closed \cup clients
    /\ broker # "sending" => pending = {}

\* No client, no message.
LEMMA StreamInit == Init => StreamInv
BY StreamAssumption DEF Init, StreamInv, TypeOK

\* Every step of handlers, broker and server keeps it.
LEMMA StreamStep == StreamInv /\ [Next]_vars => StreamInv'
<1> SUFFICES ASSUME StreamInv, [Next]_vars PROVE StreamInv'
  OBVIOUS
<1> USE StreamAssumption DEF StreamInv, TypeOK, brokerVars, Listed
<1>1. ASSUME NEW i \in Slots, Connect(i) PROVE StreamInv'
  BY <1>1 DEF Connect
<1>2. ASSUME NEW i \in Slots, Register(i) PROVE StreamInv'
  BY <1>2 DEF Register
<1>3. ASSUME NEW i \in Slots, Forward(i) PROVE StreamInv'
  BY <1>3 DEF Forward
<1>4. ASSUME NEW i \in Slots, Leave(i) PROVE StreamInv'
  BY <1>4 DEF Leave
<1>5. ASSUME NEW i \in Slots, WriteTimesOut(i) PROVE StreamInv'
  BY <1>5 DEF WriteTimesOut
<1>6. ASSUME NEW i \in Slots, Unregister(i) PROVE StreamInv'
  BY <1>6 DEF Unregister
<1>7. ASSUME NEW i \in Slots, Disconnect(i) PROVE StreamInv'
  BY <1>7 DEF Disconnect
<1>8. CASE Broadcast
  BY <1>8 DEF Broadcast
<1>9. CASE TakeMessage
  BY <1>9 DEF TakeMessage
<1>10. ASSUME NEW i \in Slots, Deliver(i) PROVE StreamInv'
  BY <1>10 DEF Deliver, Send
<1>11. CASE Delivered
  BY <1>11 DEF Delivered
<1>12. CASE StopBroker
  BY <1>12 DEF StopBroker
<1>13. CASE Stop
  BY <1>13 DEF Stop
<1>14. CASE ShutdownReturns
  BY <1>14 DEF ShutdownReturns
<1>15. CASE UNCHANGED vars
  BY <1>15 DEF vars
<1> QED
  BY <1>1, <1>2, <1>3, <1>4, <1>5, <1>6, <1>7, <1>8, <1>9, <1>10, <1>11, <1>12, <1>13,
     <1>14, <1>15 DEF Next, HandlerSteps, BrokerSteps

\* The broker never sends on a channel it has closed, whatever the order in which clients
\* come, stall and go and the process is stopped (SSEBroker.Start, ServeHTTP).
THEOREM StreamTypeCorrect == Spec => []TypeOK
<1>1. Spec => []StreamInv
  BY StreamInit, StreamStep, PTL DEF Spec
<1>2. StreamInv => TypeOK
  BY DEF StreamInv
<1> QED
  BY <1>1, <1>2, PTL
=============================================================================
