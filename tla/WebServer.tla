------------------------------ MODULE WebServer ------------------------------
(***************************************************************************)
(* The requests of the REST API and of the web UI.  A handler checks the   *)
(* request, reads the object from the informer cache, changes its copy and *)
(* writes it to the API server, which refuses a copy that is out of date   *)
(* and what the schema or a webhook does not admit; a create or an update  *)
(* reads the object again for its answer.  Controllers, users with kubectl *)
(* and other handlers write the same objects.                              *)
(***************************************************************************)
EXTENDS Admission

CONSTANTS
    Slots,       \* handler goroutines, one for each request
    Requests,    \* the requests that may come: [via, op, kind, name, body]
    Manifests,   \* function: by kind, the specs a user may apply with kubectl
    BlankServer, \* a server spec with every field absent
    BlankPlugin, \* ... and a plugin spec, but for the default of the strategy
    MaxWrites,   \* bound: writes of controllers and users
    MaxFaults    \* bound: failed calls

Kinds == {"server", "plugin", "configmap"}

\* serverCreateRequestToData, serverUpdateRequestToData and their counterparts: the
\* fields of a body that are passed on.
ServerCreateFields ==
    {"strategy", "version", "build", "delay", "checkCron", "windowEnabled", "windowCron",
     "labels", "pluginConfigs", "serverConfigs"}
ServerUpdateFields ==
    {"strategy", "version", "build", "delay", "checkCron", "windowEnabled", "windowCron", "labels"}
PluginCreateFields ==
    {"type", "project", "url", "strategy", "version", "build", "delay", "endpoints", "selector",
     "dir", "configs"}
PluginUpdateFields == {"strategy", "version", "build", "delay", "endpoints", "selector"}

ASSUME WebAssumption ==
    /\ MaxWrites \in Nat /\ MaxFaults \in Nat
    /\ \A r \in Requests :
        /\ r.kind \in Kinds
        /\ r.kind = "server" => DOMAIN r.body \subseteq ServerCreateFields
        /\ r.kind = "plugin" => DOMAIN r.body \subseteq PluginCreateFields \cup {"checksum", "override"}
        /\ r.op # "create" => r.kind # "configmap"
        /\ r.op \notin {"create", "update"} => DOMAIN r.body = {}
    /\ \A k \in {"server", "plugin"} : \E m \in Manifests[k] : Admitted(k, m, TRUE)

VARIABLES
    objs,        \* the API server: by kind, None or the object
    cache,       \* the informer cache of the manager's client
    webhooks,    \* --enable-webhooks
    pc,          \* function: where each handler is
    req,         \* function: the request of a handler, or None
    base,        \* the object it is about to write
    wrote,       \* its write has been carried out
    reply,       \* the status of its answer, or 0
    rev,         \* the last resource version
    writes, faults

handlerVars == <<pc, req, base, wrote, reply>>
vars == <<objs, cache, webhooks, handlerVars, rev, writes, faults>>

Object(spec, r) == [rv |-> r, spec |-> spec, notes |-> {}, fin |-> FALSE, deleting |-> FALSE]

-----------------------------------------------------------------------------
(* The service layer: what a request makes of an object.                   *)

\* time.ParseDuration: a create takes an empty delay for none, an update does not.
DelayParses(r) ==
    "delay" \in DOMAIN r.body =>
        r.body.delay \in Durations \/ (r.op = "create" /\ r.body.delay = "")

\* A create takes the build 0 for none.
NoBuild(body, f) == f = "build" /\ Given(body, "build", 0) = 0

\* ServerService.CreateServer: the cron of a window that is not enabled is dropped.
NewServer(body) ==
    [f \in DOMAIN BlankServer |->
        IF \/ f \notin ServerCreateFields \/ NoBuild(body, f)
           \/ f = "windowCron" /\ ~Given(body, "windowEnabled", FALSE)
        THEN BlankServer[f] ELSE Given(body, f, BlankServer[f])]

\* PluginService.CreatePlugin
NewPlugin(body) ==
    [f \in DOMAIN BlankPlugin |->
        IF f \in PluginCreateFields /\ ~NoBuild(body, f)
        THEN Given(body, f, BlankPlugin[f]) ELSE BlankPlugin[f]]

NewObject(r) ==
    CASE r.kind = "server" -> NewServer(r.body)
      [] r.kind = "plugin" -> NewPlugin(r.body)
      [] r.kind = "configmap" -> r.body

\* ServerService.UpdateServer
MergeServer(spec, body) ==
    [f \in DOMAIN spec |-> IF f \in ServerUpdateFields THEN Given(body, f, spec[f]) ELSE spec[f]]

\* PluginService.UpdatePlugin
MergePlugin(spec, body) ==
    [f \in DOMAIN spec |-> IF f \in PluginUpdateFields THEN Given(body, f, spec[f]) ELSE spec[f]]

\* Mutant: the annotation of the service is not the one the update controller reads.
ApplyNowMisspelt(o) == [o EXCEPT !.notes = @ \cup {"apply"}]

\* ServerService.ApplyNow
ApplyNow(o) == [o EXCEPT !.notes = @ \cup {"apply-now"}]

\* TriggerReconciliation of either service
TriggerReconciliation(o) == [o EXCEPT !.notes = @ \cup {"reconcile"}]

\* The copy that is written back, with the resource version it was read with.
Changed(r, o) ==
    CASE r.op = "update" /\ r.kind = "server" -> [o EXCEPT !.spec = MergeServer(@, r.body)]
      [] r.op = "update" /\ r.kind = "plugin" -> [o EXCEPT !.spec = MergePlugin(@, r.body)]
      [] r.op = "resolve" -> TriggerReconciliation(o)
      [] r.op = "apply" -> ApplyNow(o)
      [] OTHER -> o

-----------------------------------------------------------------------------
(* Answers.                                                                *)

Success(r) ==
    CASE r.op = "create" -> 201
      [] r.op = "delete" -> IF r.via = "ui" THEN 303 ELSE 204
      [] r.op \in {"resolve", "apply"} /\ r.via = "api" -> 202
      [] OTHER -> 200

\* isNotFoundError, isAlreadyExistsError; the UI reports every failed write as 500, and
\* every failed read before a delete as 404.
Failure(r, verdict) ==
    CASE verdict = "missing" /\ r.via = "api" -> 404
      [] verdict = "exists" /\ r.via = "api" -> 409
      [] verdict = "unread" /\ r.via = "ui" /\ r.op = "delete" -> 404
      [] OTHER -> 500

\* Mutant: an object that is not found is 404, whatever has happened before.
NotThereYetIsMissing(r) == 404

\* "created but failed to retrieve details"
NotThereYet(r) == 500

Goto(i, step) == pc' = [pc EXCEPT ![i] = step]
Answer(i, code) == Goto(i, "done") /\ reply' = [reply EXCEPT ![i] = code]

-----------------------------------------------------------------------------
(* Handlers.                                                               *)

Init ==
    /\ pc = [i \in Slots |-> "idle"]
    /\ webhooks \in BOOLEAN
    /\ objs \in {[k \in Kinds |-> None],
                 [k \in Kinds |-> IF k = "configmap" THEN None
                                  ELSE [Object(CHOOSE s \in Manifests[k] : Admitted(k, s, TRUE), 0)
                                          EXCEPT !.fin = (k = "plugin")]]}
    /\ cache = objs
    /\ req = [i \in Slots |-> None] /\ base = [i \in Slots |-> None]
    /\ wrote = [i \in Slots |-> FALSE] /\ reply = [i \in Slots |-> 0]
    /\ rev = 0 /\ writes = 0 /\ faults = 0

\* A request that fails its checks is answered at once.
Accept(i, r, valid) ==
    /\ req' = [req EXCEPT ![i] = r]
    /\ CASE ~valid -> Answer(i, 400) /\ UNCHANGED base
         [] valid /\ r.op = "create" /\ ~DelayParses(r) -> Answer(i, 500) /\ UNCHANGED base
         [] valid /\ r.op = "create" /\ DelayParses(r) ->
                /\ base' = [base EXCEPT ![i] = Object(NewObject(r), 0)]
                /\ Goto(i, "write") /\ UNCHANGED reply
         [] valid /\ r.op # "create" -> Goto(i, "get") /\ UNCHANGED <<reply, base>>

Is(r, via, op, kind) == r.via = via /\ r.op = op /\ r.kind = kind

\* The handlers of the REST API up to the call of the service; an update of a server is
\* not checked.
CreateServer(i, r) ==
    Is(r, "api", "create", "server") /\ Accept(i, r, ValidateServerCreateRequest(r.name, r.body))
GetServer(i, r) == Is(r, "api", "read", "server") /\ Accept(i, r, TRUE)
UpdateServer(i, r) == Is(r, "api", "update", "server") /\ Accept(i, r, TRUE)
DeleteServer(i, r) == Is(r, "api", "delete", "server") /\ Accept(i, r, TRUE)
ResolveServer(i, r) == Is(r, "api", "resolve", "server") /\ Accept(i, r, TRUE)
ApplyNowServer(i, r) == Is(r, "api", "apply", "server") /\ Accept(i, r, TRUE)
CreatePlugin(i, r) ==
    Is(r, "api", "create", "plugin") /\ Accept(i, r, ValidatePluginCreateRequest(r.name, r.body))
GetPlugin(i, r) == Is(r, "api", "read", "plugin") /\ Accept(i, r, TRUE)
UpdatePlugin(i, r) ==
    Is(r, "api", "update", "plugin") /\ Accept(i, r, ValidateEndpointRequest(r.body))
DeletePlugin(i, r) == Is(r, "api", "delete", "plugin") /\ Accept(i, r, TRUE)
ResolvePlugin(i, r) == Is(r, "api", "resolve", "plugin") /\ Accept(i, r, TRUE)
CreateConfigMap(i, r) ==
    Is(r, "api", "create", "configmap") /\ Accept(i, r, ValidateK8sName(r.name))

\* The handlers of the web UI.
HandleResourceDelete(i, r) ==
    r.via = "ui" /\ r.op = "delete" /\ Accept(i, r, r.name # "")
HandleApplyNow(i, r) == Is(r, "ui", "apply", "server") /\ Accept(i, r, r.name # "")
HandleServerResolve(i, r) == Is(r, "ui", "resolve", "server") /\ Accept(i, r, r.name # "")
HandlePluginResolve(i, r) == Is(r, "ui", "resolve", "plugin") /\ Accept(i, r, r.name # "")
HandleCreateConfigMap(i, r) ==
    Is(r, "ui", "create", "configmap") /\ Accept(i, r, r.name # "" /\ DOMAIN r.body # {})

Receive(i, r) ==
    /\ pc[i] = "idle"
    /\ \/ CreateServer(i, r) \/ GetServer(i, r) \/ UpdateServer(i, r) \/ DeleteServer(i, r)
       \/ ResolveServer(i, r) \/ ApplyNowServer(i, r)
       \/ CreatePlugin(i, r) \/ GetPlugin(i, r) \/ UpdatePlugin(i, r) \/ DeletePlugin(i, r)
       \/ ResolvePlugin(i, r) \/ CreateConfigMap(i, r)
       \/ HandleResourceDelete(i, r) \/ HandleApplyNow(i, r) \/ HandleServerResolve(i, r)
       \/ HandlePluginResolve(i, r) \/ HandleCreateConfigMap(i, r)
    /\ UNCHANGED <<objs, cache, webhooks, wrote, rev, writes, faults>>

\* The service gets the object, from the cache.
Get(i) ==
    /\ pc[i] = "get"
    /\ LET r == req[i]
           o == cache[r.kind]
       IN  CASE o = None ->
                    /\ Answer(i, Failure(r, IF r.via = "ui" THEN "unread" ELSE "missing"))
                    /\ UNCHANGED base
             [] o # None /\ r.op = "read" -> Answer(i, 200) /\ UNCHANGED base
             [] o # None /\ r.op # "read" /\ ~DelayParses(r) -> Answer(i, 500) /\ UNCHANGED base
             [] o # None /\ r.op # "read" /\ DelayParses(r) ->
                    /\ base' = [base EXCEPT ![i] = Changed(r, o)]
                    /\ Goto(i, "write") /\ UNCHANGED reply
    /\ UNCHANGED <<objs, cache, webhooks, req, wrote, rev, writes, faults>>

\* Mutant: the write is not bound to the version that was read.
AnyRevision(o, b) == TRUE

\* client.Update sends the resource version of the copy.
Fresh(o, b) == o.rv = b.rv

\* The API server's verdict.
Verdict(r, b) ==
    LET o == objs[r.kind]
    IN  CASE r.op = "create" /\ o # None -> "exists"
          [] r.op # "create" /\ o = None -> "missing"
          [] r.op \notin {"create", "delete"} /\ o # None /\ ~Fresh(o, b) -> "conflict"
          [] r.op = "delete" /\ o # None -> "ok"
          [] OTHER -> IF Admitted(r.kind, b.spec, webhooks) THEN "ok" ELSE "denied"

\* ... and what it stores: a delete has no precondition and waits for finalizers.
Stored(r, b) ==
    LET o == objs[r.kind]
    IN  CASE r.op = "delete" /\ ~o.fin -> None
          [] r.op = "delete" /\ o.fin -> [o EXCEPT !.deleting = TRUE, !.rv = rev + 1]
          [] OTHER -> [b EXCEPT !.rv = rev + 1]

Store(i) ==
    /\ objs' = [objs EXCEPT ![req[i].kind] = Stored(req[i], base[i])]
    /\ rev' = rev + 1
    /\ wrote' = [wrote EXCEPT ![i] = TRUE]

ReadsBack(r) == r.op \in {"create", "update"} /\ r.kind # "configmap"

Write(i) ==
    /\ pc[i] = "write"
    /\ LET r == req[i]
           v == Verdict(r, base[i])
       IN  CASE v # "ok" -> Answer(i, Failure(r, v)) /\ UNCHANGED <<objs, rev, wrote>>
             [] v = "ok" /\ ReadsBack(r) -> Store(i) /\ Goto(i, "readback") /\ UNCHANGED reply
             [] v = "ok" /\ ~ReadsBack(r) -> Store(i) /\ Answer(i, Success(r))
    /\ UNCHANGED <<cache, webhooks, req, base, writes, faults>>

ReadBack(i) ==
    /\ pc[i] = "readback"
    /\ Answer(i, IF cache[req[i].kind] = None THEN NotThereYet(req[i]) ELSE Success(req[i]))
    /\ UNCHANGED <<objs, cache, webhooks, req, base, wrote, rev, writes, faults>>

\* A call to the API server fails: a write may have been carried out all the same.
CallFails(i) ==
    /\ faults < MaxFaults
    /\ faults' = faults + 1
    /\ \/ pc[i] = "get" /\ Answer(i, Failure(req[i], "unread")) /\ UNCHANGED <<objs, rev, wrote>>
       \/ pc[i] = "readback" /\ Answer(i, 500) /\ UNCHANGED <<objs, rev, wrote>>
       \/ /\ pc[i] = "write" /\ Answer(i, 500)
          /\ \/ UNCHANGED <<objs, rev, wrote>>
             \/ Verdict(req[i], base[i]) = "ok" /\ Store(i)
    /\ UNCHANGED <<cache, webhooks, req, base, writes>>

-----------------------------------------------------------------------------
(* The other writers.                                                      *)

Sync(k) ==
    /\ cache[k] # objs[k]
    /\ cache' = [cache EXCEPT ![k] = objs[k]]
    /\ UNCHANGED <<objs, webhooks, handlerVars, rev, writes, faults>>

Replace(k, o) ==
    /\ writes < MaxWrites
    /\ writes' = writes + 1
    /\ objs' = [objs EXCEPT ![k] = o]
    /\ rev' = rev + 1
    /\ UNCHANGED <<cache, webhooks, handlerVars, faults>>

\* A controller writes the status, or the finalizer of a plugin.
ControllerWrite(k) ==
    /\ objs[k] # None /\ k # "configmap"
    /\ Replace(k, [objs[k] EXCEPT !.rv = rev + 1, !.fin = (k = "plugin")])

\* removeApplyNowAnnotation, through a copy that is up to date (else the reconcile is
\* tried again).
ConsumeApplyNow ==
    /\ objs["server"] # None /\ cache["server"] = objs["server"]
    /\ "apply-now" \in objs["server"].notes
    /\ Replace("server", [objs["server"] EXCEPT !.rv = rev + 1, !.notes = @ \ {"apply-now"}])

\* The plugin controller has removed its finalizer (PluginDeletion).
Finalized ==
    /\ objs["plugin"] # None /\ objs["plugin"].deleting
    /\ Replace("plugin", None)

\* kubectl apply
Apply(k) ==
    /\ objs[k] # None
    /\ \E s \in Manifests[k] \ {objs[k].spec} :
        /\ Admitted(k, s, webhooks)
        /\ Replace(k, [objs[k] EXCEPT !.rv = rev + 1, !.spec = s])

Handle(i) == (\E r \in Requests : Receive(i, r)) \/ Get(i) \/ Write(i) \/ ReadBack(i) \/ CallFails(i)

Next ==
    \/ \E i \in Slots : Handle(i)
    \/ \E k \in Kinds : Sync(k) \/ ControllerWrite(k)
    \/ \E k \in DOMAIN Manifests : Apply(k)
    \/ ConsumeApplyNow \/ Finalized

Spec == Init /\ [][Next]_vars

-----------------------------------------------------------------------------
(* What the server promises.                                               *)

Codes == {0, 200, 201, 202, 204, 303, 400, 404, 409, 500}

TypeOK ==
    /\ pc \in [Slots -> {"idle", "get", "write", "readback", "done"}]
    /\ \A k \in Kinds : \A o \in {objs[k], cache[k]} :
        o # None => /\ o.rv \in 0..rev /\ o.notes \subseteq {"reconcile", "apply-now"}
                    /\ o.fin \in BOOLEAN /\ o.deleting \in BOOLEAN
    /\ \A k \in Kinds : cache[k] # None /\ objs[k] # None => cache[k].rv <= objs[k].rv
    /\ reply \in [Slots -> Codes] /\ wrote \in [Slots -> BOOLEAN] /\ webhooks \in BOOLEAN
    /\ writes \in 0..MaxWrites /\ faults \in 0..MaxFaults

\* Fields of the API that are taken and dropped, without a word in the answer: a checksum
\* and an override in the create of a plugin (openapi.yaml:1275, 1362), the configuration
\* of a server (:1027) and source, files and override of a plugin (:1282-1312) in an update.
\* Nor is a build of 0 kept in a create, or the cron of a window that is off.
Dropped(r) ==
    CASE r.op = "create" /\ r.kind = "server" ->
            {f \in {"build"} : NoBuild(r.body, f)}
                \cup (IF Given(r.body, "windowEnabled", FALSE) THEN {} ELSE {"windowCron"})
      [] r.op = "create" /\ r.kind = "plugin" ->
            {f \in {"build"} : NoBuild(r.body, f)} \cup {"checksum", "override"}
      [] r.op = "update" /\ r.kind = "server" -> {"pluginConfigs", "serverConfigs"}
      [] r.op = "update" /\ r.kind = "plugin" ->
            {"type", "project", "url", "checksum", "dir", "configs", "override"}
      [] OTHER -> {}

\* "Only specified fields will be updated; unspecified fields remain unchanged."
\* (api/openapi/openapi.yaml:210): a write changes the fields that its request names, but
\* for those that are dropped, and whatever was written to the others between the
\* handler's read and its write, by another request, a controller or a user, stays; an
\* accepted apply-now is not lost to an update either.
OnlyNamedFields ==
    [][\A i \in Slots :
        LET r == req[i]
            old == objs[r.kind]
            new == objs'[r.kind]
        IN  ~wrote[i] /\ wrote'[i] /\ r.op \in {"update", "resolve", "apply"} =>
                /\ \A f \in DOMAIN old.spec :
                    new.spec[f] = IF f \in DOMAIN r.body \ Dropped(r) THEN r.body[f] ELSE old.spec[f]
                /\ old.notes \subseteq new.notes
                /\ new.fin = old.fin /\ new.deleting = old.deleting]_vars

\* The answers tell what was done, although reads lag behind and calls fail on the way: a
\* request that is refused (400, 404, 409) has left nothing behind; for one that is granted
\* an object was stored, with each field the request names, but for those that are dropped.
\* A 500 tells nothing: the write may have been carried out, and only its answer lost or the
\* object not found again by a read that lags behind.
AnswerTruthful ==
    \A i \in Slots : req[i] # None /\ pc[i] = "done" =>
        /\ reply[i] \in {400, 404, 409} => ~wrote[i]
        /\ reply[i] < 400 /\ req[i].op # "read" =>
            /\ wrote[i]
            /\ req[i].op \in {"create", "update"} =>
                \A f \in DOMAIN base[i].spec :
                    f \in DOMAIN req[i].body \ Dropped(req[i]) => base[i].spec[f] = req[i].body[f]

\* With the webhooks no sequence of creates, partial updates and manifests leads to an
\* object a controller cannot work with, although an update is checked by nobody else.
AdmittedIsUsable ==
    webhooks => \A k \in Kinds : objs[k] # None => Usable(k, objs[k].spec)
=============================================================================
