---------------------------- MODULE WebServerProofs ----------------------------
(* Answers are truthful, writes keep what they do not name and, with webhooks,  *)
(* leave objects the controllers can work with, for any requests and any number *)
(* of them, other writers and faults.                                           *)
EXTENDS WebServer, TLAPS

Steps == {"idle", "get", "write", "readback", "done"}

\* What every step keeps of the handlers' variables.
HandlerTypes ==
    /\ pc \in [Slots -> Steps]
    /\ req \in [Slots -> Requests \cup {None}]
    /\ wrote \in [Slots -> BOOLEAN]
    /\ reply \in [Slots -> Codes]
    /\ DOMAIN base = Slots
    /\ \A i \in Slots : pc[i] \in {"get", "write", "readback"} => req[i] \in Requests
    /\ \A i \in Slots : pc[i] = "get" => req[i].op # "create"

\* A handler has written when it reads back, and not before it writes; an answer says so.
AnswerInv ==
    /\ HandlerTypes
    /\ \A i \in Slots :
        /\ pc[i] \in {"idle", "get", "write"} => ~wrote[i]
        /\ pc[i] = "readback" => wrote[i]
        /\ pc[i] = "done" =>
            /\ reply[i] \in {400, 404, 409} => ~wrote[i]
            /\ reply[i] < 400 /\ req[i].op # "read" => wrote[i]

-----------------------------------------------------------------------------
(* Answers.                                                                *)

\* The status of an answer to what was carried out, and to what was not.
LEMMA CodeFacts ==
    ASSUME NEW r, NEW v
    PROVE  /\ Success(r) \in {200, 201, 202, 204, 303}
           /\ Failure(r, v) \in {404, 409, 500}
           /\ NotThereYet(r) = 500
<1>1. Success(r) \in {200, 201, 202, 204, 303}
    BY DEF Success
<1>2. Failure(r, v) \in {404, 409, 500}
    BY DEF Failure
<1> QED
    BY <1>1, <1>2 DEF NotThereYet

\* A step of one handler keeps the invariant if it does so for that handler.
LEMMA OneHandler ==
    ASSUME AnswerInv, NEW i \in Slots,
           HandlerTypes',
           \A j \in Slots \ {i} : /\ pc'[j] = pc[j] /\ req'[j] = req[j]
                                 /\ wrote'[j] = wrote[j] /\ reply'[j] = reply[j],
           pc'[i] \in {"idle", "get", "write"} => ~wrote'[i],
           pc'[i] = "readback" => wrote'[i],
           pc'[i] = "done" => /\ reply'[i] \in {400, 404, 409} => ~wrote'[i]
                              /\ reply'[i] < 400 /\ req'[i].op # "read" => wrote'[i]
    PROVE  AnswerInv'
BY DEF AnswerInv

\* A request comes in: it is refused, or the object is made, or will be read.
LEMMA AcceptEffect ==
    ASSUME NEW i, NEW r, NEW valid, Accept(i, r, valid)
    PROVE  /\ req' = [req EXCEPT ![i] = r]
           /\ \/ (Answer(i, 400) \/ Answer(i, 500)) /\ base' = base
              \/ /\ r.op = "create" /\ Goto(i, "write") /\ reply' = reply
                 /\ base' = [base EXCEPT ![i] = Object(NewObject(r), 0)]
              \/ r.op # "create" /\ Goto(i, "get") /\ reply' = reply /\ base' = base
<1>1. CASE ~valid
    BY <1>1, Zenon DEF Accept
<1>2. CASE valid /\ r.op = "create" /\ ~DelayParses(r)
    BY <1>2, Zenon DEF Accept
<1>3. CASE valid /\ r.op = "create" /\ DelayParses(r)
    BY <1>3, Zenon DEF Accept
<1>4. CASE valid /\ r.op # "create"
    BY <1>4, Zenon DEF Accept
<1> QED
    BY <1>1, <1>2, <1>3, <1>4, Zenon

\* Nothing is written while a request is accepted, and a refusal is 400 or 500.
LEMMA AcceptAnswers ==
    ASSUME AnswerInv, NEW i \in Slots, NEW r \in Requests, NEW valid,
           pc[i] = "idle", Accept(i, r, valid), wrote' = wrote
    PROVE  AnswerInv'
<1>0. req' = [req EXCEPT ![i] = r]
    BY AcceptEffect
<1>1. CASE (Answer(i, 400) \/ Answer(i, 500)) /\ base' = base
  <2>1. HandlerTypes'
      BY <1>0, <1>1 DEF AnswerInv, HandlerTypes, Answer, Goto, Steps, Codes
  <2> QED
      BY <1>0, <1>1, <2>1, OneHandler DEF AnswerInv, HandlerTypes, Answer, Goto
<1>2. CASE /\ Goto(i, "write") /\ reply' = reply
           /\ base' = [base EXCEPT ![i] = Object(NewObject(r), 0)]
  <2>1. HandlerTypes'
      BY <1>0, <1>2 DEF AnswerInv, HandlerTypes, Goto, Steps
  <2> QED
      BY <1>0, <1>2, <2>1, OneHandler DEF AnswerInv, HandlerTypes, Goto
<1>3. CASE r.op # "create" /\ Goto(i, "get") /\ reply' = reply /\ base' = base
  <2>1. HandlerTypes'
      BY <1>0, <1>3 DEF AnswerInv, HandlerTypes, Goto, Steps
  <2> QED
      BY <1>0, <1>3, <2>1, OneHandler DEF AnswerInv, HandlerTypes, Goto
<1> QED
    BY <1>1, <1>2, <1>3, AcceptEffect

\* Every handler accepts or refuses its request in this way.
LEMMA ReceiveEffect ==
    ASSUME NEW i, NEW r, Receive(i, r)
    PROVE  \E valid : Accept(i, r, valid)
<1>1. CASE CreateServer(i, r) \/ CreatePlugin(i, r) \/ CreateConfigMap(i, r) \/ UpdatePlugin(i, r)
    BY <1>1, Zenon DEF CreateServer, CreatePlugin, CreateConfigMap, UpdatePlugin
<1>2. CASE GetServer(i, r) \/ UpdateServer(i, r) \/ DeleteServer(i, r) \/ ResolveServer(i, r)
    BY <1>2, Zenon DEF GetServer, UpdateServer, DeleteServer, ResolveServer
<1>3. CASE ApplyNowServer(i, r) \/ GetPlugin(i, r) \/ DeletePlugin(i, r) \/ ResolvePlugin(i, r)
    BY <1>3, Zenon DEF ApplyNowServer, GetPlugin, DeletePlugin, ResolvePlugin
<1>4. CASE HandleResourceDelete(i, r) \/ HandleApplyNow(i, r) \/ HandleServerResolve(i, r)
    BY <1>4, Zenon DEF HandleResourceDelete, HandleApplyNow, HandleServerResolve
<1>5. CASE HandlePluginResolve(i, r) \/ HandleCreateConfigMap(i, r)
    BY <1>5, Zenon DEF HandlePluginResolve, HandleCreateConfigMap
<1> QED
    BY <1>1, <1>2, <1>3, <1>4, <1>5, Zenon DEF Receive

\* ... and has written nothing by then.
LEMMA ReceiveAnswers ==
    ASSUME AnswerInv, NEW i \in Slots, NEW r \in Requests, Receive(i, r)
    PROVE  AnswerInv'
<1>1. pc[i] = "idle" /\ wrote' = wrote
    BY DEF Receive
<1> QED
    BY <1>1, ReceiveEffect, AcceptAnswers, Zenon

\* The service's read: nothing is written yet.
LEMMA GetAnswers ==
    ASSUME AnswerInv, NEW i \in Slots, Get(i)
    PROVE  AnswerInv'
<1>0. pc[i] = "get" /\ req' = req /\ wrote' = wrote /\ req[i] \in Requests
    BY DEF Get, AnswerInv, HandlerTypes
<1>1. \/ \E v : Answer(i, Failure(req[i], v)) /\ base' = base
      \/ req[i].op = "read" /\ Answer(i, 200) /\ base' = base
      \/ Answer(i, 500) /\ base' = base
      \/ /\ base' = [base EXCEPT ![i] = Changed(req[i], cache[req[i].kind])]
         /\ Goto(i, "write") /\ reply' = reply
    BY Zenon DEF Get
<1>2. CASE \E v : Answer(i, Failure(req[i], v)) /\ base' = base
  <2>1. PICK v : Answer(i, Failure(req[i], v)) /\ base' = base
      BY <1>2
  <2>2. Failure(req[i], v) \in {404, 409, 500}
      BY CodeFacts
  <2>3. HandlerTypes'
      BY <1>0, <2>1, <2>2 DEF AnswerInv, HandlerTypes, Answer, Goto, Steps, Codes
  <2> QED
      BY <1>0, <2>1, <2>2, <2>3, OneHandler DEF AnswerInv, HandlerTypes, Answer, Goto
<1>3. CASE ((req[i].op = "read" /\ Answer(i, 200)) \/ Answer(i, 500)) /\ base' = base
  <2>1. HandlerTypes'
      BY <1>0, <1>3 DEF AnswerInv, HandlerTypes, Answer, Goto, Steps, Codes
  <2> QED
      BY <1>0, <1>3, <2>1, OneHandler DEF AnswerInv, HandlerTypes, Answer, Goto
<1>4. CASE /\ base' = [base EXCEPT ![i] = Changed(req[i], cache[req[i].kind])]
           /\ Goto(i, "write") /\ reply' = reply
  <2>1. HandlerTypes'
      BY <1>0, <1>4 DEF AnswerInv, HandlerTypes, Goto, Steps
  <2> QED
      BY <1>0, <1>4, <2>1, OneHandler DEF AnswerInv, HandlerTypes, Goto
<1> QED
    BY <1>1, <1>2, <1>3, <1>4

\* The write: carried out and answered with a success or read back, or refused.
LEMMA WriteEffect ==
    ASSUME NEW i, Write(i)
    PROVE  \/ \E v : Answer(i, Failure(req[i], v)) /\ UNCHANGED <<objs, rev, wrote>>
           \/ /\ Verdict(req[i], base[i]) = "ok" /\ Store(i)
              /\ Goto(i, "readback") /\ reply' = reply
           \/ Verdict(req[i], base[i]) = "ok" /\ Store(i) /\ Answer(i, Success(req[i]))
<1>1. CASE Verdict(req[i], base[i]) # "ok"
    BY <1>1, Zenon DEF Write
<1>2. CASE Verdict(req[i], base[i]) = "ok" /\ ReadsBack(req[i])
    BY <1>2, Zenon DEF Write
<1>3. CASE Verdict(req[i], base[i]) = "ok" /\ ~ReadsBack(req[i])
    BY <1>3, Zenon DEF Write
<1> QED
    BY <1>1, <1>2, <1>3, Zenon

\* A write is answered as it went.
LEMMA WriteAnswers ==
    ASSUME AnswerInv, NEW i \in Slots, Write(i)
    PROVE  AnswerInv'
<1>0. pc[i] = "write" /\ req' = req /\ base' = base /\ req[i] \in Requests
    BY DEF Write, AnswerInv, HandlerTypes
<1>1. CASE \E v : Answer(i, Failure(req[i], v)) /\ UNCHANGED <<objs, rev, wrote>>
  <2>1. PICK v : Answer(i, Failure(req[i], v)) /\ UNCHANGED <<objs, rev, wrote>>
      BY <1>1
  <2>2. Failure(req[i], v) \in {404, 409, 500}
      BY CodeFacts
  <2>3. HandlerTypes'
      BY <1>0, <2>1, <2>2 DEF AnswerInv, HandlerTypes, Answer, Goto, Steps, Codes
  <2> QED
      BY <1>0, <2>1, <2>2, <2>3, OneHandler DEF AnswerInv, HandlerTypes, Answer, Goto
<1>2. CASE Store(i) /\ Goto(i, "readback") /\ reply' = reply
  <2>1. HandlerTypes'
      BY <1>0, <1>2 DEF AnswerInv, HandlerTypes, Store, Goto, Steps
  <2> QED
      BY <1>0, <1>2, <2>1, OneHandler DEF AnswerInv, HandlerTypes, Store, Goto
<1>3. CASE Store(i) /\ Answer(i, Success(req[i]))
  <2>1. Success(req[i]) \in {200, 201, 202, 204, 303}
      BY CodeFacts
  <2>2. HandlerTypes'
      BY <1>0, <1>3, <2>1 DEF AnswerInv, HandlerTypes, Store, Answer, Goto, Steps, Codes
  <2> QED
      BY <1>0, <1>3, <2>1, <2>2, OneHandler DEF AnswerInv, HandlerTypes, Store, Answer, Goto
<1> QED
    BY <1>1, <1>2, <1>3, WriteEffect

\* The read for the answer: the write has been carried out.
LEMMA ReadBackAnswers ==
    ASSUME AnswerInv, NEW i \in Slots, ReadBack(i)
    PROVE  AnswerInv'
<1>0. pc[i] = "readback" /\ req' = req /\ base' = base /\ wrote' = wrote /\ req[i] \in Requests
    BY DEF ReadBack, AnswerInv, HandlerTypes
<1>1. PICK code \in {500, Success(req[i])} : Answer(i, code)
    BY CodeFacts DEF ReadBack
<1>2. code \in {200, 201, 202, 204, 303, 500}
    BY <1>1, CodeFacts
<1>3. HandlerTypes'
    BY <1>0, <1>1, <1>2 DEF AnswerInv, HandlerTypes, Answer, Goto, Steps, Codes
<1> QED
    BY <1>0, <1>1, <1>2, <1>3, OneHandler DEF AnswerInv, HandlerTypes, Answer, Goto

\* A call that fails is 404 or 500 before the write, and 500 from then on.
LEMMA FaultAnswers ==
    ASSUME AnswerInv, NEW i \in Slots, CallFails(i)
    PROVE  AnswerInv'
<1>0. req' = req /\ base' = base
    BY DEF CallFails
<1>1. CASE pc[i] = "get" /\ Answer(i, Failure(req[i], "unread")) /\ wrote' = wrote
  <2>1. Failure(req[i], "unread") \in {404, 409, 500}
      BY CodeFacts
  <2>2. HandlerTypes'
      BY <1>0, <1>1, <2>1 DEF AnswerInv, HandlerTypes, Answer, Goto, Steps, Codes
  <2> QED
      BY <1>0, <1>1, <2>1, <2>2, OneHandler DEF AnswerInv, HandlerTypes, Answer, Goto
<1>2. CASE /\ pc[i] \in {"readback", "write"} /\ Answer(i, 500)
           /\ wrote' = wrote \/ wrote' = [wrote EXCEPT ![i] = TRUE]
  <2>1. wrote' \in [Slots -> BOOLEAN]
      BY <1>2 DEF AnswerInv, HandlerTypes
  <2>2. \A j \in Slots \ {i} : wrote'[j] = wrote[j]
      BY <1>2 DEF AnswerInv, HandlerTypes
  <2>3. pc' = [pc EXCEPT ![i] = "done"] /\ reply' = [reply EXCEPT ![i] = 500]
      BY <1>2 DEF Answer, Goto
  <2>4. HandlerTypes'
      BY <1>0, <2>1, <2>3 DEF AnswerInv, HandlerTypes, Steps, Codes
  <2> QED
      BY <1>0, <2>2, <2>3, <2>4, OneHandler DEF AnswerInv, HandlerTypes
<1> QED
    BY <1>1, <1>2 DEF CallFails, Store

\* Nobody else touches a handler.
LEMMA OthersLeaveHandlers ==
    ASSUME \/ \E k \in Kinds : Sync(k) \/ ControllerWrite(k)
           \/ \E k \in DOMAIN Manifests : Apply(k)
           \/ ConsumeApplyNow \/ Finalized
           \/ UNCHANGED vars
    PROVE  UNCHANGED handlerVars
BY DEF Sync, ControllerWrite, Apply, ConsumeApplyNow, Finalized, Replace, vars

\* Before any request nothing is written or answered.
LEMMA AnswerInit == Init => AnswerInv
BY DEF Init, AnswerInv, HandlerTypes, Steps, Codes

\* No step, of a handler or of anybody else, breaks the invariant.
LEMMA AnswerStep ==
    ASSUME AnswerInv, [Next]_vars
    PROVE  AnswerInv'
<1>1. CASE \E i \in Slots : Handle(i)
  <2>1. PICK i \in Slots : Handle(i)
      BY <1>1
  <2> QED
      BY <2>1, ReceiveAnswers, GetAnswers, WriteAnswers, ReadBackAnswers, FaultAnswers
      DEF Handle
<1>2. CASE UNCHANGED handlerVars
    BY <1>2 DEF handlerVars, AnswerInv, HandlerTypes
<1> QED
    BY <1>1, <1>2, OthersLeaveHandlers DEF Next

-----------------------------------------------------------------------------
(* Writes.                                                                 *)

IsObject(o) == DOMAIN o = {"rv", "spec", "notes", "fin", "deleting"}

Seen(o, n) == IsObject(o) /\ o.rv \in Nat /\ o.rv <= n

\* A resource version stands for one object: a copy that has the version the API server
\* has now is the object it has now, or what the handler has made of that object.
CopyInv ==
    /\ HandlerTypes
    /\ rev \in Nat
    /\ DOMAIN objs = Kinds /\ DOMAIN cache = Kinds
    /\ \A k \in Kinds : objs[k] # None => Seen(objs[k], rev)
    /\ \A k \in Kinds : cache[k] # None =>
        /\ Seen(cache[k], rev)
        /\ objs[k] # None /\ objs[k].rv = cache[k].rv => objs[k] = cache[k]
    /\ \A i \in Slots : pc[i] = "write" =>
        /\ IsObject(base[i])
        /\ req[i].op # "create" =>
            LET o == objs[req[i].kind]
            IN  /\ Seen(base[i], rev)
                /\ o # None /\ o.rv = base[i].rv => base[i] = Changed(req[i], o)

\* c is o, changed in what r names, but for what is dropped, and in annotations that were
\* added.
OnlyAsked(r, o, c) ==
    /\ IsObject(c) /\ c.rv = o.rv /\ c.fin = o.fin /\ c.deleting = o.deleting
    /\ o.notes \subseteq c.notes
    /\ \A f \in DOMAIN o.spec :
        c.spec[f] = IF f \in DOMAIN r.body \ Dropped(r) THEN r.body[f] ELSE o.spec[f]

\* A merge takes over the fields of the body that an update knows, and keeps the others.
LEMMA MergeEffect ==
    ASSUME NEW r \in Requests, r.op = "update", NEW spec, NEW f \in DOMAIN spec
    PROVE  /\ r.kind = "server" => MergeServer(spec, r.body)[f] =
                IF f \in DOMAIN r.body \ Dropped(r) THEN r.body[f] ELSE spec[f]
           /\ r.kind = "plugin" => MergePlugin(spec, r.body)[f] =
                IF f \in DOMAIN r.body \ Dropped(r) THEN r.body[f] ELSE spec[f]
<1>1. ASSUME r.kind = "server"
      PROVE  f \in DOMAIN r.body \ Dropped(r) <=> f \in ServerUpdateFields /\ f \in DOMAIN r.body
    <2>1. Dropped(r) = {"pluginConfigs", "serverConfigs"}
        BY <1>1, Zenon DEF Dropped
    <2>2. DOMAIN r.body \subseteq ServerCreateFields
        BY <1>1, WebAssumption
    <2> QED
        BY <2>1, <2>2 DEF ServerCreateFields, ServerUpdateFields
<1>2. ASSUME r.kind = "plugin"
      PROVE  f \in DOMAIN r.body \ Dropped(r) <=> f \in PluginUpdateFields /\ f \in DOMAIN r.body
    <2>1. Dropped(r) = {"type", "project", "url", "checksum", "dir", "configs", "override"}
        BY <1>2, Zenon DEF Dropped
    <2>2. DOMAIN r.body \subseteq PluginCreateFields \cup {"checksum", "override"}
        BY <1>2, WebAssumption
    <2> QED
        BY <2>1, <2>2 DEF PluginCreateFields, PluginUpdateFields
<1>3. /\ MergeServer(spec, r.body)[f] =
            IF f \in ServerUpdateFields /\ f \in DOMAIN r.body THEN r.body[f] ELSE spec[f]
      /\ MergePlugin(spec, r.body)[f] =
            IF f \in PluginUpdateFields /\ f \in DOMAIN r.body THEN r.body[f] ELSE spec[f]
    BY DEF MergeServer, MergePlugin, Given
<1> QED
    BY <1>1, <1>2, <1>3

\* The service layer changes what it is asked to, and no more.
LEMMA ChangedKeeps ==
    ASSUME NEW o, IsObject(o), NEW r \in Requests, r.op # "create"
    PROVE  OnlyAsked(r, o, Changed(r, o))
<1> USE DEF OnlyAsked
<1>0. r.kind \in {"server", "plugin"} /\ (r.op # "update" => DOMAIN r.body = {})
    BY WebAssumption DEF Kinds
<1>1. CASE r.op = "update" /\ r.kind = "server"
  <2>1. Changed(r, o) = [o EXCEPT !.spec = MergeServer(o.spec, r.body)]
      BY <1>1 DEF Changed
  <2>2. \A f \in DOMAIN o.spec : MergeServer(o.spec, r.body)[f] =
            IF f \in DOMAIN r.body \ Dropped(r) THEN r.body[f] ELSE o.spec[f]
      BY <1>1, MergeEffect
  <2> QED
      BY <2>1, <2>2 DEF IsObject
<1>2. CASE r.op = "update" /\ r.kind = "plugin"
  <2>1. Changed(r, o) = [o EXCEPT !.spec = MergePlugin(o.spec, r.body)]
      BY <1>2 DEF Changed
  <2>2. \A f \in DOMAIN o.spec : MergePlugin(o.spec, r.body)[f] =
            IF f \in DOMAIN r.body \ Dropped(r) THEN r.body[f] ELSE o.spec[f]
      BY <1>2, MergeEffect
  <2> QED
      BY <2>1, <2>2 DEF IsObject
<1>3. CASE r.op = "resolve"
    BY <1>0, <1>3 DEF Changed, TriggerReconciliation, IsObject
<1>4. CASE r.op = "apply"
    BY <1>0, <1>4 DEF Changed, ApplyNow, IsObject
<1>5. CASE r.op \notin {"update", "resolve", "apply"}
  <2>1. Changed(r, o) = o
      BY <1>5 DEF Changed
  <2> QED
      BY <1>0, <1>5, <2>1
<1> QED
    BY <1>0, <1>1, <1>2, <1>3, <1>4, <1>5

\* What the API server stores carries a resource version of its own.
ObjectWritten(k, v) ==
    /\ objs' = [objs EXCEPT ![k] = v]
    /\ rev' = rev + 1
    /\ v = None \/ (IsObject(v) /\ v.rv = rev + 1)

\* A handler's write is stored in this way: a create, an update or a delete.
LEMMA StoreWrites ==
    ASSUME CopyInv, NEW i \in Slots, pc[i] = "write",
           Verdict(req[i], base[i]) = "ok", Store(i)
    PROVE  ObjectWritten(req[i].kind, Stored(req[i], base[i]))
<1> DEFINE r == req[i]
           o == objs[r.kind]
           b == base[i]
<1>0. r \in Requests /\ r.kind \in Kinds /\ IsObject(b)
    BY WebAssumption DEF CopyInv, HandlerTypes
<1>1. Stored(r, b) = None \/ (r.op = "delete" /\ Stored(r, b) = [o EXCEPT !.deleting = TRUE, !.rv = rev + 1])
      \/ Stored(r, b) = [b EXCEPT !.rv = rev + 1]
  <2>1. CASE r.op = "delete" /\ o.fin
      BY <2>1, Zenon DEF Stored
  <2>2. CASE r.op = "delete" /\ ~o.fin
      BY <2>2, Zenon DEF Stored
  <2>3. CASE r.op # "delete"
      BY <2>3, Zenon DEF Stored
  <2> QED
      BY <2>1, <2>2, <2>3, Zenon
<1>2. r.op = "delete" => o # None
    BY DEF Verdict
<1>3. CASE r.op = "delete" /\ Stored(r, b) = [o EXCEPT !.deleting = TRUE, !.rv = rev + 1]
  <2>1. IsObject(o)
      BY <1>0, <1>2, <1>3 DEF CopyInv, Seen
  <2> QED
      BY <2>1, <1>3 DEF Store, ObjectWritten, IsObject
<1>4. CASE Stored(r, b) = [b EXCEPT !.rv = rev + 1]
    BY <1>0, <1>4 DEF Store, ObjectWritten, IsObject
<1>5. CASE Stored(r, b) = None
    BY <1>5 DEF Store, ObjectWritten
<1> QED
    BY <1>1, <1>3, <1>4, <1>5

\* Nobody writes an object but in this way.
LEMMA WritesAreNew ==
    ASSUME CopyInv, [Next]_vars
    PROVE  UNCHANGED <<objs, rev>> \/ \E k, v : ObjectWritten(k, v)
<1>1. CASE \E i \in Slots : Handle(i)
  <2>1. PICK i \in Slots : Handle(i)
      BY <1>1
  <2>2. CASE (\E r \in Requests : Receive(i, r)) \/ Get(i) \/ ReadBack(i)
      BY <2>2 DEF Receive, Get, ReadBack
  <2>3. CASE Write(i)
    <3>1. pc[i] = "write"
        BY <2>3 DEF Write
    <3>2. UNCHANGED <<objs, rev>> \/ (Verdict(req[i], base[i]) = "ok" /\ Store(i))
        BY <2>3, WriteEffect
    <3> QED
        BY <3>1, <3>2, StoreWrites
  <2>4. CASE CallFails(i)
    <3>1. UNCHANGED <<objs, rev>> \/ (pc[i] = "write" /\ Verdict(req[i], base[i]) = "ok" /\ Store(i))
        BY <2>4 DEF CallFails
    <3> QED
        BY <3>1, StoreWrites
  <2> QED
      BY <2>1, <2>2, <2>3, <2>4 DEF Handle
<1>2. CASE \E k \in Kinds : Sync(k)
    BY <1>2 DEF Sync
<1>3. CASE \E k \in Kinds : ControllerWrite(k)
  <2>1. PICK k \in Kinds : ControllerWrite(k)
      BY <1>3
  <2>2. IsObject(objs[k])
      BY <2>1 DEF ControllerWrite, CopyInv, Seen
  <2> DEFINE v == [objs[k] EXCEPT !.rv = rev + 1, !.fin = (k = "plugin")]
  <2>3. IsObject(v) /\ v.rv = rev + 1
      BY <2>2 DEF IsObject
  <2>4. objs' = [objs EXCEPT ![k] = v] /\ rev' = rev + 1
      BY <2>1 DEF ControllerWrite, Replace
  <2> HIDE DEF v
  <2> QED
      BY <2>3, <2>4 DEF ObjectWritten
<1>4. CASE \E k \in DOMAIN Manifests : Apply(k)
  <2>1. PICK k \in DOMAIN Manifests : Apply(k)
      BY <1>4
  <2>2. PICK s : Replace(k, [objs[k] EXCEPT !.rv = rev + 1, !.spec = s])
      BY <2>1 DEF Apply
  <2>3. CASE k \in Kinds
    <3>1. IsObject(objs[k])
        BY <2>1, <2>3 DEF Apply, CopyInv, Seen
    <3> DEFINE v == [objs[k] EXCEPT !.rv = rev + 1, !.spec = s]
    <3>2. IsObject(v) /\ v.rv = rev + 1
        BY <3>1 DEF IsObject
    <3>3. objs' = [objs EXCEPT ![k] = v] /\ rev' = rev + 1
        BY <2>2 DEF Replace
    <3> HIDE DEF v
    <3> QED
        BY <3>2, <3>3 DEF ObjectWritten
  <2>4. CASE k \notin Kinds
    <3>1. ObjectWritten(k, None)
        BY <2>2, <2>4 DEF Replace, ObjectWritten, CopyInv
    <3> QED
        BY <3>1
  <2> QED
      BY <2>3, <2>4
<1>5. CASE ConsumeApplyNow
  <2>1. IsObject(objs["server"])
      BY <1>5 DEF ConsumeApplyNow, CopyInv, Seen, Kinds
  <2> DEFINE v == [objs["server"] EXCEPT !.rv = rev + 1,
                                         !.notes = objs["server"].notes \ {"apply-now"}]
  <2>2. IsObject(v) /\ v.rv = rev + 1
      BY <2>1 DEF IsObject
  <2>3. objs' = [objs EXCEPT !["server"] = v] /\ rev' = rev + 1
      BY <1>5 DEF ConsumeApplyNow, Replace
  <2> HIDE DEF v
  <2> QED
      BY <2>2, <2>3 DEF ObjectWritten
<1>6. CASE Finalized
  <2>1. ObjectWritten("plugin", None)
      BY <1>6 DEF Finalized, Replace, ObjectWritten
  <2> QED
      BY <2>1
<1>7. CASE UNCHANGED vars
    BY <1>7 DEF vars
<1> QED
    BY <1>1, <1>2, <1>3, <1>4, <1>5, <1>6, <1>7 DEF Next

\* Where the copy a handler is about to write comes from.
LEMMA CopyOrigin ==
    ASSUME CopyInv, [Next]_vars, NEW i \in Slots, pc'[i] = "write"
    PROVE  \/ pc[i] = "write" /\ base'[i] = base[i] /\ req'[i] = req[i]
           \/ /\ req'[i].op = "create" /\ IsObject(base'[i])
              /\ base'[i] = Object(NewObject(req'[i]), 0)
           \/ /\ req[i] \in Requests /\ req'[i] = req[i] /\ cache[req[i].kind] # None
              /\ req[i].op # "create" /\ base'[i] = Changed(req[i], cache[req[i].kind])
              /\ UNCHANGED <<objs, rev>>
<1>1. CASE \E j \in Slots : Handle(j)
  <2>1. PICK j \in Slots : Handle(j)
      BY <1>1
  <2>2. CASE \E r \in Requests : Receive(j, r)
    <3>1. PICK r \in Requests : Receive(j, r)
        BY <2>2
    <3>2. PICK valid : Accept(j, r, valid)
        BY <3>1, ReceiveEffect
    <3>3. req' = [req EXCEPT ![j] = r]
        BY <3>2, AcceptEffect
    <3>4. CASE (Answer(j, 400) \/ Answer(j, 500)) /\ base' = base
        BY <3>3, <3>4 DEF Answer, Goto, CopyInv, HandlerTypes
    <3>5. CASE /\ r.op = "create" /\ Goto(j, "write") /\ reply' = reply
               /\ base' = [base EXCEPT ![j] = Object(NewObject(r), 0)]
        BY <3>3, <3>5 DEF Goto, CopyInv, HandlerTypes, IsObject, Object
    <3>6. CASE r.op # "create" /\ Goto(j, "get") /\ reply' = reply /\ base' = base
        BY <3>3, <3>6 DEF Goto, CopyInv, HandlerTypes
    <3> QED
        BY <3>2, <3>4, <3>5, <3>6, AcceptEffect
  <2>3. CASE Get(j)
    <3>1. /\ pc[j] = "get" /\ req' = req /\ UNCHANGED <<objs, rev>>
          /\ req[j] \in Requests /\ req[j].op # "create"
        BY <2>3 DEF Get, CopyInv, HandlerTypes
    <3>2. CASE base' = base /\ Goto(j, "done")
        BY <3>1, <3>2 DEF Goto, CopyInv, HandlerTypes
    <3>3. CASE /\ cache[req[j].kind] # None
               /\ base' = [base EXCEPT ![j] = Changed(req[j], cache[req[j].kind])]
               /\ Goto(j, "write")
        BY <3>1, <3>3 DEF Goto, CopyInv, HandlerTypes
    <3> QED
        BY <2>3, <3>2, <3>3, Zenon DEF Get, Answer
  <2>4. CASE Write(j) \/ ReadBack(j) \/ CallFails(j)
    <3>1. req' = req /\ base' = base
        BY <2>4 DEF Write, ReadBack, CallFails
    <3>2. Goto(j, "done") \/ Goto(j, "readback")
        BY <2>4, WriteEffect DEF ReadBack, CallFails, Answer
    <3> QED
        BY <3>1, <3>2 DEF Goto, CopyInv, HandlerTypes
  <2> QED
      BY <2>1, <2>2, <2>3, <2>4 DEF Handle
<1>2. CASE UNCHANGED handlerVars
    BY <1>2 DEF handlerVars
<1> QED
    BY <1>1, <1>2, OthersLeaveHandlers DEF Next

\* An object is as it was, or it has a version no copy has.
LEMMA ObjectStep ==
    ASSUME CopyInv, [Next]_vars
    PROVE  /\ rev' \in Nat /\ rev <= rev' /\ DOMAIN objs' = Kinds
           /\ \A k \in Kinds : \/ objs'[k] = None \/ objs'[k] = objs[k]
                               \/ /\ IsObject(objs'[k])
                                  /\ objs'[k].rv = rev' /\ rev < rev'
<1>1. CASE UNCHANGED <<objs, rev>>
    BY <1>1 DEF CopyInv
<1>2. CASE \E k, v : ObjectWritten(k, v)
  <2>1. PICK k, v : ObjectWritten(k, v)
      BY <1>2
  <2> QED
      BY <2>1 DEF CopyInv, ObjectWritten
<1> QED
    BY <1>1, <1>2, WritesAreNew

\* At first the cache is what the API server has, and no handler has a copy.
LEMMA CopyInit == Init => CopyInv
<1> SUFFICES ASSUME Init PROVE CopyInv
    OBVIOUS
<1>1. HandlerTypes
    BY AnswerInit DEF AnswerInv
<1>2. /\ DOMAIN objs = Kinds
      /\ \A k \in Kinds : objs[k] # None => IsObject(objs[k]) /\ objs[k].rv = 0
    BY DEF Init, Object, IsObject
<1>3. rev = 0 /\ cache = objs /\ \A i \in Slots : pc[i] = "idle"
    BY DEF Init
<1> QED
    BY <1>1, <1>2, <1>3 DEF CopyInv, Seen

\* A copy stays true or becomes outdated: a write gives the object a version of its own.
LEMMA CopyStep ==
    ASSUME CopyInv, AnswerInv', [Next]_vars
    PROVE  CopyInv'
<1>1. HandlerTypes'
    BY DEF AnswerInv
<1>2. \A k \in Kinds : objs'[k] # None => Seen(objs'[k], rev')
    BY ObjectStep DEF CopyInv, Seen
<1>3. /\ DOMAIN cache' = Kinds
      /\ \A k \in Kinds : cache'[k] # None =>
            /\ Seen(cache'[k], rev')
            /\ objs'[k] # None /\ objs'[k].rv = cache'[k].rv => objs'[k] = cache'[k]
  <2>1. CASE cache' = cache
      BY <2>1, ObjectStep DEF CopyInv, Seen
  <2>2. CASE \E k \in Kinds : Sync(k)
    <3>1. PICK k \in Kinds : Sync(k)
        BY <2>2
    <3>2. objs' = objs /\ rev' = rev /\ cache' = [cache EXCEPT ![k] = objs[k]]
        BY <3>1 DEF Sync
    <3> QED
        BY <3>2 DEF CopyInv, Seen
  <2> QED
      BY <2>1, <2>2 DEF Next, Handle, Receive, Get, Write, ReadBack, CallFails, ControllerWrite,
                        Apply, ConsumeApplyNow, Finalized, Replace, vars
<1>4. ASSUME NEW i \in Slots, pc'[i] = "write"
      PROVE  /\ IsObject(base'[i])
             /\ req'[i].op # "create" =>
                    /\ Seen(base'[i], rev')
                    /\ objs'[req'[i].kind] # None /\ objs'[req'[i].kind].rv = base'[i].rv
                            => base'[i] = Changed(req'[i], objs'[req'[i].kind])
  <2>0. req'[i].kind \in Kinds
      BY <1>1, <1>4, WebAssumption DEF HandlerTypes
  <2>1. CASE pc[i] = "write" /\ base'[i] = base[i] /\ req'[i] = req[i]
      BY <2>0, <2>1, ObjectStep DEF CopyInv, Seen
  <2>2. CASE req'[i].op = "create" /\ IsObject(base'[i])
      BY <2>2
  <2>3. CASE /\ req[i] \in Requests /\ req'[i] = req[i] /\ cache[req[i].kind] # None
             /\ req[i].op # "create" /\ base'[i] = Changed(req[i], cache[req[i].kind])
             /\ UNCHANGED <<objs, rev>>
    <3> DEFINE c == cache[req[i].kind]
    <3>1. /\ Seen(c, rev)
          /\ objs[req[i].kind] # None /\ objs[req[i].kind].rv = c.rv => objs[req[i].kind] = c
        BY <2>0, <2>3 DEF CopyInv
    <3>2. OnlyAsked(req[i], c, Changed(req[i], c))
        BY <2>3, <3>1, ChangedKeeps DEF Seen
    <3>3. IsObject(base'[i]) /\ base'[i].rv = c.rv
        BY <2>3, <3>2 DEF OnlyAsked
    <3> QED
        BY <2>3, <3>1, <3>3 DEF Seen
  <2> QED
      BY <1>4, <2>1, <2>2, <2>3, CopyOrigin
<1> QED
    BY <1>1, <1>2, <1>3, <1>4, ObjectStep DEF CopyInv

\* A write stores the fields the request names, but for the dropped ones, and leaves the
\* others as they were stored before.
LEMMA NamedOnly ==
    ASSUME CopyInv, NEW i \in Slots, pc[i] = "write",
           Verdict(req[i], base[i]) = "ok", Store(i), req[i].op \in {"update", "resolve", "apply"}
    PROVE  LET old == objs[req[i].kind]
               new == objs'[req[i].kind]
           IN  /\ \A f \in DOMAIN old.spec : new.spec[f] =
                    IF f \in DOMAIN req[i].body \ Dropped(req[i]) THEN req[i].body[f] ELSE old.spec[f]
               /\ old.notes \subseteq new.notes
               /\ new.fin = old.fin /\ new.deleting = old.deleting
<1> DEFINE r == req[i]
           o == objs[r.kind]
           c == Changed(r, o)
<1>1. r \in Requests /\ r.kind \in Kinds
    BY WebAssumption DEF CopyInv, HandlerTypes
<1>2. o # None /\ o.rv = base[i].rv
    BY DEF Verdict, Fresh
<1>3. base[i] = c /\ IsObject(o)
    BY <1>1, <1>2 DEF CopyInv, Seen
<1>4. objs'[r.kind] = [c EXCEPT !.rv = rev + 1]
    BY <1>1, <1>3 DEF Store, Stored, CopyInv
<1>5. OnlyAsked(r, o, c)
    BY <1>1, <1>3, ChangedKeeps
<1>6. /\ objs'[r.kind].spec = c.spec /\ objs'[r.kind].notes = c.notes
      /\ objs'[r.kind].fin = c.fin /\ objs'[r.kind].deleting = c.deleting
    BY <1>4, <1>5 DEF IsObject, OnlyAsked
<1> QED
    BY <1>5, <1>6 DEF OnlyAsked

\* A write is carried out for one handler, the one that makes the step.
LEMMA WhoWrites ==
    ASSUME CopyInv, [Next]_vars, NEW i \in Slots, ~wrote[i], wrote'[i]
    PROVE  pc[i] = "write" /\ Verdict(req[i], base[i]) = "ok" /\ Store(i)
<1>1. PICK j \in Slots : Handle(j)
    BY OthersLeaveHandlers DEF Next, handlerVars
<1>2. wrote' = wrote \/ (pc[j] = "write" /\ Verdict(req[j], base[j]) = "ok" /\ Store(j))
    BY <1>1, WriteEffect DEF Handle, Receive, Get, Write, ReadBack, CallFails
<1>3. pc[j] = "write" /\ Verdict(req[j], base[j]) = "ok" /\ Store(j)
    BY <1>2
<1>4. i = j
    BY <1>3 DEF Store, CopyInv, HandlerTypes
<1> QED
    BY <1>3, <1>4

\* An update, a resolve or an apply-now of the API or the UI stores the fields it names,
\* but for the dropped ones, and leaves every field it does not name, every annotation,
\* finalizer and deletion mark as they are in the object at the moment of the write,
\* however old the copy was that the handler had read.
THEOREM NamedFieldsSafe == Spec => OnlyNamedFields
<1>1. Init => AnswerInv /\ CopyInv
    BY AnswerInit, CopyInit
<1>2. AnswerInv /\ CopyInv /\ [Next]_vars => (AnswerInv /\ CopyInv)'
    BY AnswerStep, CopyStep
<1>3. CopyInv /\ [Next]_vars =>
        \A i \in Slots :
            LET r == req[i]
                old == objs[r.kind]
                new == objs'[r.kind]
            IN  ~wrote[i] /\ wrote'[i] /\ r.op \in {"update", "resolve", "apply"} =>
                    /\ \A f \in DOMAIN old.spec : new.spec[f] =
                        IF f \in DOMAIN r.body \ Dropped(r) THEN r.body[f] ELSE old.spec[f]
                    /\ old.notes \subseteq new.notes
                    /\ new.fin = old.fin /\ new.deleting = old.deleting
    BY WhoWrites, NamedOnly
<1> QED
    BY <1>1, <1>2, <1>3, PTL DEF Spec, OnlyNamedFields

-----------------------------------------------------------------------------
(* What an answer grants.                                                  *)

\* A copy has what the request names, but for what is dropped.
Carries(r, b) ==
    r.op \in {"create", "update"} =>
        \A f \in DOMAIN b.spec : f \in DOMAIN r.body \ Dropped(r) => b.spec[f] = r.body[f]

\* A handler that is about to write, has written or has granted its request.
Committed(i) ==
    \/ pc[i] \in {"write", "readback"}
    \/ pc[i] = "done" /\ reply[i] < 400 /\ req[i].op # "read"

CarryInv == \A i \in Slots : Committed(i) => Carries(req[i], base[i])

\* A new object is made of the body.
LEMMA NewCarries ==
    ASSUME NEW r \in Requests, r.op = "create"
    PROVE  Carries(r, Object(NewObject(r), 0))
<1> DEFINE b == Object(NewObject(r), 0)
<1>0. b.spec = NewObject(r)
    BY DEF Object
<1>1. CASE r.kind = "server"
    <2>1. NewObject(r) = NewServer(r.body)
        BY <1>1, Zenon DEF NewObject
    <2>2. DOMAIN r.body \subseteq ServerCreateFields
        BY <1>1, WebAssumption
    <2>3. Dropped(r) = {f \in {"build"} : NoBuild(r.body, f)}
                \cup (IF Given(r.body, "windowEnabled", FALSE) THEN {} ELSE {"windowCron"})
        BY <1>1, Zenon DEF Dropped
    <2>4. \A f : NoBuild(r.body, f) => f = "build"
        BY DEF NoBuild
    <2>5. ASSUME NEW f \in DOMAIN NewServer(r.body), f \in DOMAIN r.body \ Dropped(r)
          PROVE  NewServer(r.body)[f] = r.body[f]
        <3>1. f \in DOMAIN BlankServer
            BY <2>5 DEF NewServer
        <3>2. f \in ServerCreateFields /\ ~NoBuild(r.body, f)
            BY <2>2, <2>3, <2>4, <2>5
        <3>3. ~(f = "windowCron" /\ ~Given(r.body, "windowEnabled", FALSE))
            BY <2>3, <2>5
        <3>4. NewServer(r.body)[f] = Given(r.body, f, BlankServer[f])
            BY <3>1, <3>2, <3>3, Zenon DEF NewServer
        <3> QED
            BY <2>5, <3>4 DEF Given
    <2> QED
        BY <1>0, <2>1, <2>5 DEF Carries
<1>2. CASE r.kind = "plugin"
    <2>1. NewObject(r) = NewPlugin(r.body)
        BY <1>2, Zenon DEF NewObject
    <2>2. DOMAIN r.body \subseteq PluginCreateFields \cup {"checksum", "override"}
        BY <1>2, WebAssumption
    <2>3. Dropped(r) = {f \in {"build"} : NoBuild(r.body, f)} \cup {"checksum", "override"}
        BY <1>2, Zenon DEF Dropped
    <2>4. \A f : NoBuild(r.body, f) => f = "build"
        BY DEF NoBuild
    <2>5. ASSUME NEW f \in DOMAIN NewPlugin(r.body), f \in DOMAIN r.body \ Dropped(r)
          PROVE  NewPlugin(r.body)[f] = r.body[f]
        <3>1. f \in DOMAIN BlankPlugin
            BY <2>5 DEF NewPlugin
        <3>2. f \in PluginCreateFields /\ ~NoBuild(r.body, f)
            BY <2>2, <2>3, <2>4, <2>5
        <3>3. NewPlugin(r.body)[f] = Given(r.body, f, BlankPlugin[f])
            BY <3>1, <3>2, Zenon DEF NewPlugin
        <3> QED
            BY <2>5, <3>3 DEF Given
    <2> QED
        BY <1>0, <2>1, <2>5 DEF Carries
<1>3. CASE r.kind = "configmap"
    <2>1. NewObject(r) = r.body
        BY <1>3, Zenon DEF NewObject
    <2> QED
        BY <1>0, <2>1 DEF Carries
<1> QED
    BY <1>1, <1>2, <1>3, WebAssumption DEF Kinds

\* ... and so is the changed copy of one that was read.
LEMMA ChangedCarries ==
    ASSUME NEW r \in Requests, r.op # "create", NEW o, IsObject(o)
    PROVE  Carries(r, Changed(r, o))
<1>1. OnlyAsked(r, o, Changed(r, o))
    BY ChangedKeeps
<1>2. r.op = "update" => DOMAIN Changed(r, o).spec = DOMAIN o.spec
    <2> SUFFICES ASSUME r.op = "update" PROVE DOMAIN Changed(r, o).spec = DOMAIN o.spec
        OBVIOUS
    <2>1. CASE r.kind = "server"
        <3>1. Changed(r, o) = [o EXCEPT !.spec = MergeServer(o.spec, r.body)]
            BY <2>1 DEF Changed
        <3> QED
            BY <3>1 DEF IsObject, MergeServer
    <2>2. CASE r.kind = "plugin"
        <3>1. Changed(r, o) = [o EXCEPT !.spec = MergePlugin(o.spec, r.body)]
            BY <2>2 DEF Changed
        <3> QED
            BY <3>1 DEF IsObject, MergePlugin
    <2> QED
        BY <2>1, <2>2, WebAssumption DEF Kinds
<1> QED
    BY <1>1, <1>2 DEF OnlyAsked, Carries

\* A step of a handler changes what is recorded of that handler only.
LEMMA HandlerWrites ==
    ASSUME AnswerInv, NEW j \in Slots, Handle(j), NEW i \in Slots, i # j
    PROVE  pc'[i] = pc[i] /\ req'[i] = req[i] /\ base'[i] = base[i] /\ reply'[i] = reply[i]
<1> USE DEF AnswerInv, HandlerTypes, Answer, Goto
<1>1. CASE \E r \in Requests : Receive(j, r)
    <2>1. PICK r \in Requests : Receive(j, r)
        BY <1>1
    <2>2. PICK valid : Accept(j, r, valid)
        BY <2>1, ReceiveEffect
    <2> QED
        BY <2>2, AcceptEffect
<1>2. CASE Get(j)
    <2>1. /\ req' = req
          /\ \/ (\E code : Answer(j, code)) /\ base' = base
             \/ Goto(j, "write") /\ reply' = reply /\ \E b : base' = [base EXCEPT ![j] = b]
        BY <1>2, Zenon DEF Get
    <2> QED
        BY <2>1
<1>3. CASE Write(j)
    <2>1. /\ req' = req /\ base' = base
          /\ (\E code : Answer(j, code)) \/ (Goto(j, "readback") /\ reply' = reply)
        BY <1>3, WriteEffect, Zenon DEF Write
    <2> QED
        BY <2>1
<1>4. CASE ReadBack(j) \/ CallFails(j)
    <2>1. req' = req /\ base' = base /\ \E code : Answer(j, code)
        BY <1>4, Zenon DEF ReadBack, CallFails
    <2> QED
        BY <2>1
<1> QED
    BY <1>1, <1>2, <1>3, <1>4 DEF Handle

\* From the read on the copy stays the same: what is granted is what was written.
LEMMA CarryStep ==
    ASSUME AnswerInv, CopyInv, CarryInv, [Next]_vars
    PROVE  CarryInv'
<1> SUFFICES ASSUME NEW i \in Slots, Committed(i)' PROVE Carries(req'[i], base'[i])
    BY DEF CarryInv
<1>1. CASE pc'[i] = "write"
  <2>1. CASE pc[i] = "write" /\ base'[i] = base[i] /\ req'[i] = req[i]
      BY <2>1 DEF CarryInv, Committed
  <2>2. CASE req'[i].op = "create" /\ base'[i] = Object(NewObject(req'[i]), 0)
    <3>1. req'[i] \in Requests
        BY <1>1, AnswerStep DEF AnswerInv, HandlerTypes
    <3> QED
        BY <2>2, <3>1, NewCarries
  <2>3. CASE /\ req[i] \in Requests /\ req'[i] = req[i] /\ cache[req[i].kind] # None
             /\ req[i].op # "create" /\ base'[i] = Changed(req[i], cache[req[i].kind])
    <3>1. IsObject(cache[req[i].kind])
        BY <2>3, WebAssumption DEF CopyInv, Seen
    <3> QED
        BY <2>3, <3>1, ChangedCarries
  <2> QED
      BY <1>1, <2>1, <2>2, <2>3, CopyOrigin
<1>2. CASE Committed(i) /\ base'[i] = base[i] /\ req'[i] = req[i]
    BY <1>2 DEF CarryInv
<1>3. CASE pc'[i] # "write" /\ \E j \in Slots : Handle(j)
  <2>1. PICK j \in Slots : Handle(j)
      BY <1>3
  <2>2. CASE i # j
    <3>1. pc'[i] = pc[i] /\ req'[i] = req[i] /\ base'[i] = base[i] /\ reply'[i] = reply[i]
        BY <2>1, <2>2, HandlerWrites
    <3> QED
        BY <1>2, <3>1 DEF Committed
  <2>3. CASE i = j
    <3>1. CASE \E r \in Requests : Receive(i, r)
      <4>1. PICK r \in Requests : Receive(i, r)
          BY <3>1
      <4>2. PICK valid : Accept(i, r, valid)
          BY <4>1, ReceiveEffect
      <4>3. \/ Answer(i, 400) \/ Answer(i, 500) \/ Goto(i, "write") \/ Goto(i, "get")
          BY <4>2, AcceptEffect
      <4> QED
          BY <1>3, <4>3 DEF Answer, Goto, Committed, AnswerInv, HandlerTypes
    <3>2. CASE Get(i)
      <4>1. req' = req
          BY <3>2 DEF Get
      <4>2. \/ \E v : Answer(i, Failure(req[i], v))
            \/ req[i].op = "read" /\ Answer(i, 200)
            \/ Answer(i, 500)
            \/ Goto(i, "write")
          BY <3>2, Zenon DEF Get
      <4>3. \A v : Failure(req[i], v) \in {404, 409, 500}
          BY CodeFacts
      <4> QED
          BY <1>3, <4>1, <4>2, <4>3 DEF Answer, Goto, Committed, AnswerInv, HandlerTypes
    <3>3. CASE Write(i) \/ ReadBack(i)
      <4>1. req' = req /\ base' = base /\ pc[i] \in {"write", "readback"}
          BY <3>3 DEF Write, ReadBack
      <4> QED
          BY <1>2, <4>1 DEF Committed
    <3>4. CASE CallFails(i)
      <4>1. Answer(i, Failure(req[i], "unread")) \/ Answer(i, 500)
          BY <3>4 DEF CallFails
      <4>2. Failure(req[i], "unread") \in {404, 409, 500}
          BY CodeFacts
      <4> QED
          BY <4>1, <4>2 DEF Answer, Goto, Committed, AnswerInv, HandlerTypes
    <3> QED
        BY <2>1, <2>3, <3>1, <3>2, <3>3, <3>4 DEF Handle
  <2> QED
      BY <2>2, <2>3
<1>4. CASE UNCHANGED handlerVars
    BY <1>2, <1>4 DEF handlerVars, Committed
<1> QED
    BY <1>1, <1>3, <1>4, OthersLeaveHandlers DEF Next

\* A request that is refused with 400, 404 or 409 has left nothing behind; for one that is
\* granted an object with the fields it names was stored, but for those the handlers drop,
\* however many requests run at once, however far the cache lags and whichever calls fail.
THEOREM AnswersSafe == Spec => []AnswerTruthful
<1>1. Init => AnswerInv /\ CopyInv /\ CarryInv
  <2>1. Init => CarryInv
      BY DEF Init, CarryInv, Committed
  <2> QED
      BY <2>1, AnswerInit, CopyInit
<1>2. AnswerInv /\ CopyInv /\ CarryInv /\ [Next]_vars => (AnswerInv /\ CopyInv /\ CarryInv)'
    BY AnswerStep, CopyStep, CarryStep
<1>3. AnswerInv /\ CarryInv => AnswerTruthful
    BY DEF AnswerInv, CarryInv, Committed, Carries, AnswerTruthful
<1> QED
    BY <1>1, <1>2, <1>3, PTL DEF Spec

-----------------------------------------------------------------------------
(* What is stored.                                                         *)

\* What the schema and the webhook of a server refuse covers what its controllers need.
LEMMA ServerAdmittedUsable ==
    ASSUME NEW s, ValidateServer(s)
    PROVE  ServerUsable(s)
<1>1. /\ s.strategy \in {"latest", "auto"} \/ s.version # ""
      /\ s.strategy # "build-pin" \/ s.build # None
    BY DEF ValidateServer, ValidateServerStrategy, Strategies
<1>2. {s.checkCron} \cup (IF s.windowEnabled THEN {s.windowCron} ELSE {}) \subseteq Crons
    BY DEF ValidateServer, ValidateCronExpressions
<1>3. /\ s.backup.enabled /\ s.backup.schedule # "" => s.backup.schedule \in Crons
      /\ s.rcon.enabled => s.rcon.name # ""
    BY DEF ValidateServer, ValidateBackup, ValidateRCON
<1>4. \A i, j \in DOMAIN s.gateway.routes :
        LET r == s.gateway.routes[i]  q == s.gateway.routes[j]
        IN  (r.plugin = q.plugin /\ r.endpoint = q.endpoint) \/ (r.host = q.host /\ r.prefix = q.prefix)
                => i = j
    <2> DEFINE rs == s.gateway.routes
    <2>1. rs = <<>> \/ ValidateHTTPRoutes(rs)
        BY DEF ValidateServer, ValidateGateway
    <2>2. CASE rs = <<>>
        BY <2>2
    <2>3. CASE ValidateHTTPRoutes(rs)
        <3> HIDE DEF rs
        <3>1. IsInjective([i \in DOMAIN rs |-> <<rs[i].plugin, rs[i].endpoint>>])
            BY <2>3 DEF ValidateHTTPRoutes, Columns
        <3>2. IsInjective([i \in DOMAIN rs |-> <<rs[i].host, rs[i].prefix>>])
            BY <2>3 DEF ValidateHTTPRoutes, Columns
        <3>3. ASSUME NEW i \in DOMAIN rs, NEW j \in DOMAIN rs,
                     \/ rs[i].plugin = rs[j].plugin /\ rs[i].endpoint = rs[j].endpoint
                     \/ rs[i].host = rs[j].host /\ rs[i].prefix = rs[j].prefix
              PROVE  i = j
            BY <3>1, <3>2, <3>3 DEF IsInjective
        <3> QED
            BY <3>3 DEF rs
    <2> QED
        BY <2>1, <2>2, <2>3
<1>5. \A i, j \in DOMAIN s.serverConfigs :
        s.serverConfigs[i].path = s.serverConfigs[j].path => i = j
    <2>1. IsInjective([i \in DOMAIN s.serverConfigs |-> s.serverConfigs[i].path])
        BY DEF ValidateServer, ValidateServerConfigFiles, ConfigFilesValid, Column
    <2> QED
        BY <2>1 DEF IsInjective
<1> QED
    BY <1>1, <1>2, <1>3, <1>4, <1>5 DEF ServerUsable

\* ... and so it is for a plugin.
LEMMA PluginAdmittedUsable ==
    ASSUME NEW s, ValidatePlugin(s)
    PROVE  PluginUsable(s)
<1>1. /\ IF s.type = "url" THEN s.url # "" ELSE s.project # ""
      /\ s.strategy \in {"latest", "auto"} \/ s.version # ""
      /\ s.strategy # "build-pin" \/ s.build # None
    BY AdmissionAssumption DEF ValidatePlugin, ValidateURLSource, ValidatePluginStrategy, Strategies
<1>2. \A i, j \in DOMAIN s.endpoints : s.endpoints[i].name = s.endpoints[j].name => i = j
    <2>1. IsInjective([i \in DOMAIN s.endpoints |-> s.endpoints[i].name])
        <3>0. ValidateEndpoints(s)
            BY Zenon DEF ValidatePlugin
        <3>1. IsInjective(Column(s.endpoints, "name"))
            BY <3>0, Zenon DEF ValidateEndpoints
        <3> QED
            BY <3>1 DEF Column
    <2> QED
        BY <2>1 DEF IsInjective
<1>3. s.configs # <<>> => s.dir # ""
    BY AdmissionAssumption DEF ValidatePlugin, ValidatePluginConfigs, ValidateSafeName
<1> QED
    BY <1>1, <1>2, <1>3 DEF PluginUsable

\* A spec the webhooks let through is one the controllers can work with.
LEMMA AdmittedUsable ==
    ASSUME NEW k \in Kinds, NEW s, Admitted(k, s, TRUE)
    PROVE  Usable(k, s)
<1>1. CASE k = "server"
    <2>1. ValidateServer(s)
        BY <1>1, Zenon DEF Admitted
    <2> QED
        BY <1>1, <2>1, ServerAdmittedUsable DEF Usable
<1>2. CASE k = "plugin"
    <2>1. ValidatePlugin(s)
        BY <1>2, Zenon DEF Admitted
    <2> QED
        BY <1>2, <2>1, PluginAdmittedUsable DEF Usable
<1> QED
    BY <1>1, <1>2 DEF Kinds, Usable

Marked(o) ==
    /\ o.notes \subseteq {"reconcile", "apply-now"}
    /\ o.fin \in BOOLEAN /\ o.deleting \in BOOLEAN

Sound(k, o) == Marked(o) /\ (webhooks => Admitted(k, o.spec, TRUE))

\* What is stored was admitted as a whole, whoever wrote which part of it; copies carry
\* no marks but those the code knows, and the cache is never ahead.
ContentInv ==
    /\ webhooks \in BOOLEAN
    /\ \A k \in Kinds : objs[k] # None => Sound(k, objs[k])
    /\ \A k \in Kinds : cache[k] # None => Marked(cache[k])
    /\ \A i \in Slots : pc[i] = "write" => Marked(base[i])
    /\ \A k \in Kinds : cache[k] # None /\ objs[k] # None => cache[k].rv <= objs[k].rv
    /\ writes \in 0..MaxWrites /\ faults \in 0..MaxFaults

\* The service layer adds no marks but its own.
LEMMA ChangedMarked ==
    ASSUME NEW o, IsObject(o), Marked(o), NEW r
    PROVE  Marked(Changed(r, o))
<1>1. CASE r.op = "update" /\ r.kind = "server"
    <2>1. Changed(r, o) = [o EXCEPT !.spec = MergeServer(o.spec, r.body)]
        BY <1>1 DEF Changed
    <2> QED
        BY <2>1 DEF IsObject, Marked
<1>2. CASE r.op = "update" /\ r.kind = "plugin"
    <2>1. Changed(r, o) = [o EXCEPT !.spec = MergePlugin(o.spec, r.body)]
        BY <1>2 DEF Changed
    <2> QED
        BY <2>1 DEF IsObject, Marked
<1>3. CASE r.op = "resolve"
    BY <1>3 DEF Changed, TriggerReconciliation, IsObject, Marked
<1>4. CASE r.op = "apply"
    BY <1>4 DEF Changed, ApplyNow, IsObject, Marked
<1>5. CASE r.op \notin {"resolve", "apply"} /\ ~(r.op = "update" /\ r.kind \in {"server", "plugin"})
    <2>1. Changed(r, o) = o
        BY <1>5 DEF Changed
    <2> QED
        BY <2>1
<1> QED
    BY <1>1, <1>2, <1>3, <1>4, <1>5

\* With the webhooks on, admitted means admitted by them.
LEMMA AdmittedByWebhooks ==
    ASSUME webhooks \in BOOLEAN, NEW k, NEW s, Admitted(k, s, webhooks)
    PROVE  webhooks => Admitted(k, s, TRUE)
<1> SUFFICES ASSUME webhooks PROVE Admitted(k, s, TRUE)
    OBVIOUS
<1>1. webhooks = TRUE
    OBVIOUS
<1> QED
    BY <1>1, Zenon

\* A handler's write stores what was admitted as a whole, or the object with the mark of
\* its deletion.
LEMMA StoreSound ==
    ASSUME CopyInv, ContentInv, NEW i \in Slots, pc[i] = "write",
           Verdict(req[i], base[i]) = "ok", Stored(req[i], base[i]) # None
    PROVE  Sound(req[i].kind, Stored(req[i], base[i]))
<1> DEFINE r == req[i]
           o == objs[r.kind]
           b == base[i]
<1>0. r \in Requests /\ r.kind \in Kinds /\ IsObject(b) /\ Marked(b)
    BY WebAssumption DEF CopyInv, HandlerTypes, ContentInv
<1>1. CASE r.op = "delete"
    <2>1. o # None
        BY <1>1 DEF Verdict
    <2>2. IsObject(o) /\ Sound(r.kind, o)
        BY <1>0, <2>1 DEF CopyInv, Seen, ContentInv
    <2> DEFINE v == Stored(r, b)
    <2>3. o.fin
        BY <1>1, Zenon DEF Stored
    <2>4. v = [o EXCEPT !.deleting = TRUE, !.rv = rev + 1]
        BY <1>1, <2>3, Zenon DEF Stored
    <2>5. v.notes = o.notes /\ v.fin = o.fin /\ v.deleting = TRUE /\ v.spec = o.spec
        BY <2>2, <2>4 DEF IsObject
    <2> HIDE DEF v
    <2>6. Sound(r.kind, v)
        BY <2>2, <2>5 DEF Sound, Marked
    <2> QED
        BY <2>6 DEF v
<1>2. CASE r.op # "delete"
    <2> DEFINE v == Stored(r, b)
    <2>1. v = [b EXCEPT !.rv = rev + 1]
        BY <1>2, Zenon DEF Stored
    <2>2. Admitted(r.kind, b.spec, webhooks)
        BY <1>2, Zenon DEF Verdict
    <2>3. webhooks => Admitted(r.kind, b.spec, TRUE)
        BY <2>2, AdmittedByWebhooks DEF ContentInv
    <2>4. v.notes = b.notes /\ v.fin = b.fin /\ v.deleting = b.deleting /\ v.spec = b.spec
        BY <1>0, <2>1 DEF IsObject
    <2> HIDE DEF v
    <2>5. Sound(r.kind, v)
        BY <1>0, <2>3, <2>4 DEF Sound, Marked
    <2> QED
        BY <2>5 DEF v
<1> QED
    BY <1>1, <1>2

SoundlyWritten(k, v) ==
    objs' = [objs EXCEPT ![k] = v] /\ (k \in Kinds /\ v # None => Sound(k, v))

\* Nobody stores anything else: the other writers keep the spec, or theirs is admitted.
LEMMA WritesAreSound ==
    ASSUME CopyInv, ContentInv, [Next]_vars
    PROVE  objs' = objs \/ \E k, v : SoundlyWritten(k, v)
<1> USE DEF SoundlyWritten
<1>0. \A k \in Kinds : objs[k] # None => IsObject(objs[k]) /\ Sound(k, objs[k])
    BY DEF CopyInv, Seen, ContentInv
<1>1. CASE \E i \in Slots : Handle(i)
    <2>1. PICK i \in Slots : Handle(i)
        BY <1>1
    <2>2. objs' = objs \/ (pc[i] = "write" /\ Verdict(req[i], base[i]) = "ok" /\ Store(i))
        BY <2>1, WriteEffect DEF Handle, Receive, Get, Write, ReadBack, CallFails
    <2>3. CASE pc[i] = "write" /\ Verdict(req[i], base[i]) = "ok" /\ Store(i)
        <3>1. SoundlyWritten(req[i].kind, Stored(req[i], base[i]))
            BY <2>3, StoreSound DEF Store
        <3> QED
            BY <3>1
    <2> QED
        BY <2>2, <2>3
<1>2. CASE \E k \in Kinds : Sync(k)
    BY <1>2 DEF Sync
<1>3. CASE \E k \in Kinds : ControllerWrite(k)
    <2>1. PICK k \in Kinds : ControllerWrite(k)
        BY <1>3
    <2>2. IsObject(objs[k]) /\ Sound(k, objs[k])
        BY <1>0, <2>1 DEF ControllerWrite
    <2> DEFINE v == [objs[k] EXCEPT !.rv = rev + 1, !.fin = (k = "plugin")]
    <2>3. /\ v.notes = objs[k].notes /\ v.fin = (k = "plugin")
          /\ v.deleting = objs[k].deleting /\ v.spec = objs[k].spec
        BY <2>2 DEF IsObject
    <2>4. objs' = [objs EXCEPT ![k] = v]
        BY <2>1 DEF ControllerWrite, Replace
    <2> HIDE DEF v
    <2>5. Sound(k, v)
        BY <2>2, <2>3 DEF Sound, Marked
    <2> QED
        BY <2>4, <2>5
<1>4. CASE \E k \in DOMAIN Manifests : Apply(k)
    <2>1. PICK k \in DOMAIN Manifests : Apply(k)
        BY <1>4
    <2>2. PICK s : /\ Admitted(k, s, webhooks)
                   /\ Replace(k, [objs[k] EXCEPT !.rv = rev + 1, !.spec = s])
        BY <2>1 DEF Apply
    <2> DEFINE v == [objs[k] EXCEPT !.rv = rev + 1, !.spec = s]
    <2>3. objs' = [objs EXCEPT ![k] = v]
        BY <2>2 DEF Replace
    <2>4. k \in Kinds => Sound(k, v)
        <3> SUFFICES ASSUME k \in Kinds PROVE Sound(k, v)
            OBVIOUS
        <3>1. IsObject(objs[k]) /\ Sound(k, objs[k])
            BY <1>0, <2>1 DEF Apply
        <3>2. webhooks => Admitted(k, s, TRUE)
            BY <2>2, AdmittedByWebhooks DEF ContentInv
        <3>3. /\ v.notes = objs[k].notes /\ v.fin = objs[k].fin
              /\ v.deleting = objs[k].deleting /\ v.spec = s
            BY <3>1 DEF IsObject
        <3> HIDE DEF v
        <3> QED
            BY <3>1, <3>2, <3>3 DEF Sound, Marked
    <2> HIDE DEF v
    <2> QED
        BY <2>3, <2>4
<1>5. CASE ConsumeApplyNow
    <2> DEFINE o == objs["server"]
               v == [o EXCEPT !.rv = rev + 1, !.notes = o.notes \ {"apply-now"}]
    <2>1. IsObject(o) /\ Sound("server", o)
        BY <1>0, <1>5 DEF ConsumeApplyNow, Kinds
    <2>2. /\ v.notes = o.notes \ {"apply-now"} /\ v.fin = o.fin
          /\ v.deleting = o.deleting /\ v.spec = o.spec
        BY <2>1 DEF IsObject
    <2>3. objs' = [objs EXCEPT !["server"] = v]
        BY <1>5 DEF ConsumeApplyNow, Replace
    <2> HIDE DEF v
    <2>4. Sound("server", v)
        BY <2>1, <2>2 DEF Sound, Marked
    <2> QED
        BY <2>3, <2>4
<1>6. CASE Finalized
    <2>1. SoundlyWritten("plugin", None)
        BY <1>6 DEF Finalized, Replace
    <2> QED
        BY <2>1
<1>7. CASE UNCHANGED vars
    BY <1>7 DEF vars
<1> QED
    BY <1>1, <1>2, <1>3, <1>4, <1>5, <1>6, <1>7 DEF Next

\* The objects there are at first were applied by a user, and the cache has them.
LEMMA ContentInit == Init => ContentInv
<1> SUFFICES ASSUME Init PROVE ContentInv
    OBVIOUS
<1>1. ASSUME NEW k \in Kinds, objs[k] # None
      PROVE  Sound(k, objs[k])
    <2> DEFINE m == CHOOSE s \in Manifests[k] : Admitted(k, s, TRUE)
    <2>1. k \in {"server", "plugin"} /\ objs[k] = [Object(m, 0) EXCEPT !.fin = (k = "plugin")]
        BY <1>1 DEF Init, Kinds
    <2>2. Admitted(k, m, TRUE)
        <3>1. \E s \in Manifests[k] : Admitted(k, s, TRUE)
            BY <2>1, WebAssumption
        <3> QED
            BY <3>1, Zenon
    <2> HIDE DEF m
    <2>3. Marked(objs[k]) /\ objs[k].spec = m
        BY <2>1 DEF Object, Marked
    <2> QED
        BY <2>2, <2>3 DEF Sound
<1>2. /\ webhooks \in BOOLEAN /\ cache = objs /\ \A i \in Slots : pc[i] = "idle"
      /\ writes = 0 /\ faults = 0
    BY DEF Init
<1>3. \A k \in Kinds : objs[k] # None => objs[k].rv \in Nat
    BY CopyInit DEF CopyInv, Seen
<1>4. \A k \in Kinds : objs[k] # None => Sound(k, objs[k]) /\ Marked(objs[k])
    BY <1>1 DEF Sound
<1>5. \A k \in Kinds : objs[k] # None => objs[k].rv <= objs[k].rv
    BY <1>3
<1>6. writes \in 0..MaxWrites /\ faults \in 0..MaxFaults
    BY <1>2, WebAssumption
<1>7. \A i \in Slots : pc[i] # "write"
    BY <1>2
<1> QED
    BY <1>2, <1>4, <1>5, <1>6, <1>7, Zenon DEF ContentInv

\* Bounds and flags.
LEMMA CountStep ==
    ASSUME ContentInv, [Next]_vars
    PROVE  writes' \in 0..MaxWrites /\ faults' \in 0..MaxFaults /\ webhooks' = webhooks
<1>0. writes \in 0..MaxWrites /\ faults \in 0..MaxFaults
    BY DEF ContentInv
<1>1. /\ writes' = writes \/ (writes < MaxWrites /\ writes' = writes + 1)
      /\ faults' = faults \/ (faults < MaxFaults /\ faults' = faults + 1)
      /\ webhooks' = webhooks
    BY DEF Next, Handle, Receive, Get, Write, ReadBack, CallFails, Sync, ControllerWrite, Apply,
           ConsumeApplyNow, Finalized, Replace, vars
<1> QED
    BY <1>0, <1>1, WebAssumption

\* Every step keeps the invariant of what is stored.
LEMMA ContentStep ==
    ASSUME CopyInv, ContentInv, [Next]_vars
    PROVE  ContentInv'
<1>1. \A k \in Kinds : objs'[k] # None => (Sound(k, objs[k]) /\ objs'[k] = objs[k]) \/ Sound(k, objs'[k])
    <2>1. CASE objs' = objs
        BY <2>1 DEF ContentInv
    <2>2. CASE \E k, v : SoundlyWritten(k, v)
        <3>1. PICK k, v : SoundlyWritten(k, v)
            BY <2>2
        <3> QED
            BY <3>1 DEF SoundlyWritten, ContentInv, CopyInv
    <2> QED
        BY <2>1, <2>2, WritesAreSound
<1>2. \A k \in Kinds : objs'[k] # None => Sound(k, objs'[k])
    BY <1>1
<1>3. \A k \in Kinds : cache'[k] = cache[k] \/ (cache'[k] = objs[k] /\ objs' = objs)
    <2>1. CASE cache' = cache
        BY <2>1
    <2>2. CASE \E k \in Kinds : Sync(k)
        <3>1. PICK k \in Kinds : Sync(k)
            BY <2>2
        <3>2. objs' = objs /\ cache' = [cache EXCEPT ![k] = objs[k]]
            BY <3>1 DEF Sync
        <3> QED
            BY <3>2 DEF CopyInv
    <2> QED
        BY <2>1, <2>2 DEF Next, Handle, Receive, Get, Write, ReadBack, CallFails, ControllerWrite,
                          Apply, ConsumeApplyNow, Finalized, Replace, vars
<1>4. \A k \in Kinds : cache'[k] # None => Marked(cache'[k])
    BY <1>3 DEF ContentInv, Sound
<1>5. ASSUME NEW k \in Kinds, cache'[k] # None, objs'[k] # None
      PROVE  cache'[k].rv <= objs'[k].rv
    <2>1. CASE cache'[k] = objs[k] /\ objs' = objs
        BY <1>5, <2>1 DEF CopyInv, Seen
    <2>2. CASE cache'[k] = cache[k]
        <3>1. cache[k].rv \in Nat /\ cache[k].rv <= rev /\ rev \in Nat /\ rev' \in Nat
            BY <1>5, <2>2, ObjectStep DEF CopyInv, Seen
        <3>2. objs'[k] = objs[k] \/ (objs'[k].rv = rev' /\ rev < rev')
            BY <1>5, ObjectStep
        <3> QED
            BY <1>5, <2>2, <3>1, <3>2 DEF ContentInv
    <2> QED
        BY <1>3, <2>1, <2>2
<1>6. ASSUME NEW i \in Slots, pc'[i] = "write"
      PROVE  Marked(base'[i])
    <2>1. CASE pc[i] = "write" /\ base'[i] = base[i]
        BY <2>1 DEF ContentInv
    <2>2. CASE base'[i] = Object(NewObject(req'[i]), 0)
        BY <2>2 DEF Object, Marked
    <2>3. CASE /\ req[i] \in Requests /\ cache[req[i].kind] # None
               /\ base'[i] = Changed(req[i], cache[req[i].kind])
        <3>1. IsObject(cache[req[i].kind]) /\ Marked(cache[req[i].kind])
            BY <2>3, WebAssumption DEF CopyInv, Seen, ContentInv
        <3> QED
            BY <2>3, <3>1, ChangedMarked
    <2> QED
        BY <1>6, <2>1, <2>2, <2>3, CopyOrigin
<1>7. /\ webhooks' \in BOOLEAN /\ webhooks' = webhooks
      /\ writes' \in 0..MaxWrites /\ faults' \in 0..MaxFaults
    BY CountStep DEF ContentInv
<1>8. \A k \in Kinds : objs'[k] # None => Sound(k, objs[k])'
    BY <1>2, <1>7, Zenon DEF Sound
<1> QED
    BY <1>4, <1>5, <1>6, <1>7, <1>8, Zenon DEF ContentInv

\* The three invariants together (CarryInv stands on the first two).
WebInv == AnswerInv /\ CopyInv /\ ContentInv

\* Answers, copies and contents, for any requests.
THEOREM WebInvariant == Spec => []WebInv
<1>1. Init => WebInv
    BY AnswerInit, CopyInit, ContentInit DEF WebInv
<1>2. WebInv /\ [Next]_vars => WebInv'
    BY AnswerStep, CopyStep, ContentStep DEF WebInv
<1> QED
    BY <1>1, <1>2, PTL DEF Spec

\* Types; versions never exceed the last one given out, and the cache is never ahead of
\* the API server.
THEOREM WebTypesOK == Spec => []TypeOK
<1>1. WebInv => TypeOK
    <2> SUFFICES ASSUME WebInv PROVE TypeOK
        OBVIOUS
    <2>1. ASSUME NEW k \in Kinds, NEW o \in {objs[k], cache[k]}, o # None
          PROVE  /\ o.rv \in 0..rev /\ o.notes \subseteq {"reconcile", "apply-now"}
                 /\ o.fin \in BOOLEAN /\ o.deleting \in BOOLEAN
        <3>1. Seen(o, rev) /\ rev \in Nat
            BY <2>1 DEF WebInv, CopyInv
        <3>2. Marked(o)
            BY <2>1 DEF WebInv, ContentInv, Sound
        <3> QED
            BY <3>1, <3>2 DEF Seen, Marked
    <2>2. \A k \in Kinds : cache[k] # None /\ objs[k] # None => cache[k].rv <= objs[k].rv
        BY DEF WebInv, ContentInv
    <2>3. /\ pc \in [Slots -> {"idle", "get", "write", "readback", "done"}]
          /\ reply \in [Slots -> Codes] /\ wrote \in [Slots -> BOOLEAN] /\ webhooks \in BOOLEAN
          /\ writes \in 0..MaxWrites /\ faults \in 0..MaxFaults
        BY DEF WebInv, AnswerInv, HandlerTypes, Steps, ContentInv
    <2> QED
        BY <2>1, <2>2, <2>3 DEF TypeOK
<1> QED
    BY <1>1, WebInvariant, PTL

\* With the webhooks, no sequence of creates, partial updates from old copies, manifests,
\* deletes and controller writes leaves an object the controllers cannot work with.
THEOREM AdmittedStaysUsable == Spec => []AdmittedIsUsable
<1>1. WebInv => AdmittedIsUsable
    BY AdmittedUsable DEF WebInv, ContentInv, Sound, AdmittedIsUsable
<1> QED
    BY <1>1, WebInvariant, PTL
=============================================================================
