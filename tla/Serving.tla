------------------------------- MODULE Serving -------------------------------
(***************************************************************************)
(* The calls a server process handles, over the state they share            *)
(* (AppState, src/app/src/lib.rs): the inflight semaphore and the adapter   *)
(* cache behind a tokio RwLock.  A process serves one protocol, chosen by   *)
(* SERVE_MODE, and the two protocols run the stages of a prediction in      *)
(* different orders:                                                        *)
(*                                                                          *)
(*   http  size -> permit -> parse -> ensure adapter -> predict             *)
(*   grpc  sticky load error -> size -> permit -> ensure adapter -> parse   *)
(*         -> predict                                                       *)
(*                                                                          *)
(* A handler is cut into steps at its awaits, and at the blocking sections  *)
(* (parse, load, predict) that occupy a worker thread of the runtime.  A    *)
(* client is a connection that makes one call after another.                *)
(***************************************************************************)
EXTENDS Naturals, FiniteSets

CONSTANTS
    Client,          \* connections, each with at most one call in progress
    Mode,            \* the protocol served: "http" or "grpc"
    ConfigInflight,  \* AppConfig.max_inflight as configured, zero included
    Workers,         \* worker threads of the tokio runtime
    Model,           \* the models that may be deployed under SM_MODEL_DIR
    NoModel,         \* nothing that load_adapter can load; an empty cache
    Payloads         \* the request payloads, as the sets of their defects

\* What can be wrong with a prediction request, each seen by another stage.
Defect == {"oversize",   \* longer than max_body_bytes
           "malformed",  \* parse_payload or batch_size returns Err
           "panics",     \* feature selection indexes past the end of a row
           "too_many",   \* more than max_records records
           "rejected"}   \* the adapter's predict returns Err

ASSUME ModeAssumption    == Mode \in {"http", "grpc"}
ASSUME LimitAssumption   == ConfigInflight \in Nat /\ Workers \in Nat \ {0}
ASSUME ModelAssumption   == NoModel \notin Model
ASSUME PayloadAssumption == Payloads \subseteq SUBSET Defect
ASSUME ClientAssumption  == IsFiniteSet(Client)

VARIABLES
    pc,         \* pc[c]: where the call of c stands; "idle" between calls
    kind,       \* kind[c]: the call's method
    payload,    \* payload[c]: the defects of the call's request
    got,        \* got[c]: the adapter the handler holds an Arc of
    answer,     \* answer[c]: the answer to the last call of c
    permits,    \* the free permits of AppState.inflight
    cache,      \* AppState.adapter
    ahead,      \* ahead[c]: who was queued on the adapter lock before c
    disk,       \* what is deployed under SM_MODEL_DIR now
    loadError,  \* InferenceGrpcService.load_error is Some
    cold,       \* history: the last calls that arrived with an empty cache
    installed   \* history: installed[c], the adapters cached during the call

callVars    == <<pc, kind, payload, got, answer>>
sharedVars  == <<permits, cache, ahead, disk, loadError>>
historyVars == <<cold, installed>>
vars        == <<callVars, sharedVars, historyVars>>

\* Definitions whose comment begins with "Fault:" are not the code's.  Each is
\* what a definition of the model would be if the code had a plausible bug, and
\* shows that a property tells that bug apart from the code.

\* Fault: a configured limit of 0 is taken at its word.
UnclampedInflight == ConfigInflight
MaxInflight == IF ConfigInflight = 0 THEN 1 ELSE ConfigInflight

\* Only the HTTP router has a metrics endpoint.
Kinds   == {"predict", "ready", "live"} \cup (IF Mode = "http" THEN {"metrics"} ELSE {})
Answers == {"none",        \* no answer: the connection is reset or gone
            "up",          \* the text of the gauge byoc_up
            "ok", "too_large", "busy", "bad_request", "internal", "not_ready"}

\* The stages of a prediction whose deadline is over: its last look at the
\* semaphore found no permit; one may have been assigned to it since.
RefusalStages == {"expired", "granted_late"}

\* The stages that run on a worker thread until they are done.
RunningStages == {"parsing", "loading", "loaded", "predicting"} \cup RefusalStages

\* The stages of ensure_adapter_loaded, in order.
EnsureStages == {"read_wait", "reading", "loading",
                 "write_wait", "write_granted", "loaded"}

\* The stages that wait for the adapter's RwLock.
LockWaitStages == {"read_wait", "write_wait", "reread_wait"}

\* The stages of a prediction that come after its permit was assigned.
PermitStages == {"granted", "granted_late", "parsing", "predicting"} \cup EnsureStages

Stages == {"idle", "arrived", "queued", "expired", "reread_wait", "rereading"}
              \cup PermitStages

\* The calls in the semaphore's queue; a call whose deadline is over stays
\* there until timeout() drops its acquisition.
Queued      == {c \in Client : pc[c] \in {"queued", "expired"}}
Holders     == {c \in Client : kind[c] = "predict" /\ pc[c] \in PermitStages}
LockWaiters == {c \in Client : pc[c] \in LockWaitStages}
\* Fault: the read guard of the cache check lives on until the store.
GuardsKeptWhileLoading ==
    {c \in Client : pc[c] \in {"reading", "rereading", "loading", "write_wait"}}
Readers     == {c \in Client : pc[c] \in {"reading", "rereading"}}
Writers     == {c \in Client : pc[c] = "write_granted"}
FreeWorker  == Cardinality({c \in Client : pc[c] \in RunningStages}) < Workers

AfterPermit == IF Mode = "http" THEN "parsing"    ELSE "read_wait"
AfterParse  == IF Mode = "http" THEN "read_wait"  ELSE "predicting"
AfterEnsure == IF Mode = "http" THEN "predicting" ELSE "parsing"

\* Fault: the HTTP state keeps a load error of its start too.
LoadErrorKeptByBoth == TRUE
\* Only InferenceGrpcService keeps the result of a load at its creation.
LoadErrorKept == Mode = "grpc"

Init ==
    /\ pc        = [c \in Client |-> "idle"]
    /\ kind      = [c \in Client |-> "live"]
    /\ payload   = [c \in Client |-> {}]
    /\ got       = [c \in Client |-> NoModel]
    /\ answer    = [c \in Client |-> "none"]
    /\ permits   = MaxInflight
    /\ cache     = NoModel
    /\ ahead     = [c \in Client |-> {}]
    /\ disk      \in Model \cup {NoModel}
    /\ loadError = (LoadErrorKept /\ disk = NoModel)
    /\ cold      = {}
    /\ installed = [c \in Client |-> {}]
-----------------------------------------------------------------------------
\* The RwLock serves its waiters first come, first served: a call that comes
\* to wait is behind those that wait already, until they move on.
LockQueue(c, stage) ==
    ahead' = [d \in Client |->
                IF d # c THEN ahead[d] \ {c}
                ELSE IF stage \in LockWaitStages THEN LockWaiters ELSE {}]

\* Steps of a call that only move it on.
Goto(c, stage) ==
    /\ pc' = [pc EXCEPT ![c] = stage]
    /\ LockQueue(c, stage)
    /\ UNCHANGED <<kind, payload, answer, permits, cold, installed>>

\* Fault: the permit goes back to the semaphore past the queued calls.
DropPermitPastQueue(c) ==
    /\ pc' = [pc EXCEPT ![c] = "idle"]
    /\ permits' = IF c \in Holders THEN permits + 1 ELSE permits

\* The handler's future ends, by returning, unwinding or being dropped, and
\* with it the OwnedSemaphorePermit, if the call has one.  A permit goes to a
\* queued call, which owns it from then on although it has not run yet, or
\* back to the semaphore when nothing is queued.
DropPermit(c) ==
    \/ /\ c \notin Holders
       /\ pc' = [pc EXCEPT ![c] = "idle"]
       /\ UNCHANGED permits
    \/ /\ c \in Holders
       /\ Queued = {}
       /\ pc' = [pc EXCEPT ![c] = "idle"]
       /\ permits' = permits + 1
    \/ /\ c \in Holders
       /\ \E w \in Queued :
             pc' = [pc EXCEPT ![c] = "idle",
                              ![w] = IF pc[w] = "queued" THEN "granted" ELSE "granted_late"]
       /\ UNCHANGED permits

EndCall(c, a) ==
    /\ DropPermit(c)
    /\ LockQueue(c, "idle")
    /\ answer'    = [answer EXCEPT ![c] = a]
    /\ payload'   = [payload EXCEPT ![c] = {}]
    /\ got'       = [got EXCEPT ![c] = NoModel]
    /\ installed' = [installed EXCEPT ![c] = {}]
    /\ UNCHANGED <<kind, cache, disk, loadError, cold>>
-----------------------------------------------------------------------------
\* A client sends a request.
Arrive(c) ==
    /\ pc[c] = "idle"
    /\ pc' = [pc EXCEPT ![c] = "arrived"]
    /\ \E k \in Kinds : kind' = [kind EXCEPT ![c] = k]
    /\ \E p \in Payloads :
          payload' = [payload EXCEPT ![c] = IF kind'[c] = "predict" THEN p ELSE {}]
    /\ answer'    = [answer EXCEPT ![c] = "none"]
    /\ cold'      = IF cache = NoModel THEN cold \cup {c} ELSE cold \ {c}
    /\ installed' = [installed EXCEPT ![c] = {cache} \ {NoModel}]
    /\ UNCHANGED <<got, sharedVars>>

\* The liveness probe and the other stateless endpoints.
AnswerLive(c) ==
    /\ pc[c] = "arrived" /\ kind[c] = "live"
    /\ FreeWorker
    /\ EndCall(c, "ok")

\* The gauge is a constant of the code.
AnswerMetrics(c) ==
    /\ pc[c] = "arrived" /\ kind[c] = "metrics"
    /\ FreeWorker
    /\ EndCall(c, "up")

\* The readiness probe takes no permit.
StartReady(c) ==
    /\ pc[c] = "arrived" /\ kind[c] = "ready"
    /\ FreeWorker
    /\ Goto(c, "read_wait")
    /\ UNCHANGED <<got, cache, disk, loadError>>

StartPredict(c) == pc[c] = "arrived" /\ kind[c] = "predict" /\ FreeWorker

\* gRPC: an error met when the service was created is the answer for ever.
RefuseLoadError(c) ==
    /\ StartPredict(c)
    /\ loadError
    /\ EndCall(c, "internal")

RefuseOversize(c) ==
    /\ StartPredict(c)
    /\ ~loadError
    /\ "oversize" \in payload[c]
    /\ EndCall(c, IF Mode = "http" THEN "too_large" ELSE "bad_request")

\* acquire_owned() under timeout(): the first poll takes a free permit ...
Acquire(c) ==
    /\ StartPredict(c)
    /\ ~loadError /\ "oversize" \notin payload[c]
    /\ permits > 0
    /\ permits' = permits - 1
    /\ pc' = [pc EXCEPT ![c] = AfterPermit]
    /\ LockQueue(c, AfterPermit)
    /\ UNCHANGED <<kind, payload, got, answer, cache, disk, loadError, historyVars>>

\* Fault: a gRPC prediction waits even when a permit is free.
EnqueueAlways(c) ==
    /\ StartPredict(c)
    /\ ~loadError /\ "oversize" \notin payload[c]
    /\ Goto(c, "queued")
    /\ UNCHANGED <<got, cache, disk, loadError>>

\* ... or queues the call.
Enqueue(c) ==
    /\ StartPredict(c)
    /\ ~loadError /\ "oversize" \notin payload[c]
    /\ permits = 0
    /\ Goto(c, "queued")
    /\ UNCHANGED <<got, cache, disk, loadError>>

\* The queued call was handed a permit and is polled: timeout() looks at the
\* acquisition first, and does not ask whether the deadline is over.
PollGranted(c) ==
    /\ pc[c] = "granted"
    /\ FreeWorker
    /\ Goto(c, AfterPermit)
    /\ UNCHANGED <<got, cache, disk, loadError>>

\* acquire_timeout_s is over, and timeout() looks at the acquisition once more:
\* no permit was assigned to the call.
DeadlinePasses(c) ==
    /\ pc[c] = "queued"
    /\ FreeWorker
    /\ Goto(c, "expired")
    /\ UNCHANGED <<got, cache, disk, loadError>>

\* Fault: a call that timed out gives back a permit it never had.
TimeOutReleasing(c) ==
    /\ pc[c] = "expired"
    /\ pc' = [pc EXCEPT ![c] = "idle"]
    /\ permits' = permits + 1
    /\ answer' = [answer EXCEPT ![c] = "busy"]
    /\ UNCHANGED <<kind, payload, got, cache, ahead, disk, loadError, historyVars>>

\* Fault: a permit assigned after the last look is gone with the call.
TimeOutForgetting(c) ==
    /\ pc[c] \in RefusalStages
    /\ Goto(c, "idle")
    /\ UNCHANGED <<got, cache, disk, loadError>>

\* Only then it looks at the deadline, and the acquisition is dropped with the
\* permit that was assigned to it in between, if there is one.
TimeOut(c) ==
    /\ pc[c] \in RefusalStages
    /\ EndCall(c, "busy")
-----------------------------------------------------------------------------
(* ensure_adapter_loaded, called by predictions and readiness probes.       *)

\* adapter.read().await: a reader waits for the writers that hold the lock or
\* were queued before it.
MayRead(c) ==
    /\ Writers = {}
    /\ \A d \in ahead[c] : pc[d] # "write_wait"

TakeReadLock(c) ==
    /\ pc[c] = "read_wait"
    /\ FreeWorker
    /\ MayRead(c)
    /\ Goto(c, "reading")
    /\ UNCHANGED <<got, cache, disk, loadError>>

\* Under the read guard: the cached adapter is returned.
CacheHit(c) ==
    /\ pc[c] = "reading"
    /\ FreeWorker
    /\ cache # NoModel
    /\ Goto(c, "loaded")
    /\ got' = [got EXCEPT ![c] = cache]
    /\ UNCHANGED <<cache, disk, loadError>>

\* Fault: the cache is not looked at, every call loads the model.
CacheMissAlways(c) ==
    /\ pc[c] = "reading"
    /\ FreeWorker
    /\ Goto(c, "loading")
    /\ UNCHANGED <<got, cache, disk, loadError>>

\* The cache is empty: the guard is dropped before the model is loaded.
CacheMiss(c) ==
    /\ pc[c] = "reading"
    /\ FreeWorker
    /\ cache = NoModel
    /\ Goto(c, "loading")
    /\ UNCHANGED <<got, cache, disk, loadError>>

\* Fault: the loaded adapter is used without being cached.
LoadOkUncached(c) ==
    /\ pc[c] = "loading"
    /\ disk # NoModel
    /\ Goto(c, "loaded")
    /\ got' = [got EXCEPT ![c] = disk]
    /\ UNCHANGED <<cache, disk, loadError>>

\* load_adapter on this worker thread, without any lock.
LoadOk(c) ==
    /\ pc[c] = "loading"
    /\ disk # NoModel
    /\ Goto(c, "write_wait")
    /\ got' = [got EXCEPT ![c] = disk]
    /\ UNCHANGED <<cache, disk, loadError>>

\* Fault: a failed load evicts what another call has cached meanwhile.
LoadErrEvicting(c) ==
    /\ pc[c] = "loading"
    /\ disk = NoModel
    /\ cache' = NoModel
    /\ Goto(c, "idle")
    /\ UNCHANGED <<got, disk, loadError>>

LoadErr(c) ==
    /\ pc[c] = "loading"
    /\ disk = NoModel
    /\ EndCall(c, IF kind[c] = "ready" THEN "not_ready" ELSE "internal")

\* adapter.write().await: a writer waits for all who were there before it.
\* The lock may be assigned before the call runs.
TakeWriteLock(c) ==
    /\ pc[c] = "write_wait"
    /\ Readers = {} /\ Writers = {} /\ ahead[c] = {}
    /\ Goto(c, "write_granted")
    /\ UNCHANGED <<got, cache, disk, loadError>>

\* Fault: an adapter cached meanwhile is kept, the one just loaded is used.
StoreIfEmpty(c) ==
    /\ pc[c] = "write_granted"
    /\ FreeWorker
    /\ cache' = IF cache = NoModel THEN got[c] ELSE cache
    /\ pc' = [pc EXCEPT ![c] = "loaded"]
    /\ installed' = [d \in Client |-> IF pc[d] = "idle" THEN installed[d]
                                      ELSE installed[d] \cup {cache'}]
    /\ UNCHANGED <<kind, payload, got, answer, permits, ahead, disk, loadError, cold>>

\* The adapter is overwritten, whatever another call stored meanwhile.
Store(c) ==
    /\ pc[c] = "write_granted"
    /\ FreeWorker
    /\ cache' = got[c]
    /\ pc' = [pc EXCEPT ![c] = "loaded"]
    /\ installed' = [d \in Client |-> IF pc[d] = "idle" THEN installed[d]
                                      ELSE installed[d] \cup {got[c]}]
    /\ UNCHANGED <<kind, payload, got, answer, permits, ahead, disk, loadError, cold>>

\* ensure_adapter_loaded returned Ok to a prediction, to the HTTP probe
\* (is_ready() holds of every loaded adapter), or to the gRPC probe.
ContinuePredict(c) ==
    /\ pc[c] = "loaded" /\ kind[c] = "predict"
    /\ Goto(c, AfterEnsure)
    /\ UNCHANGED <<got, cache, disk, loadError>>

AnswerReady(c) ==
    /\ pc[c] = "loaded" /\ kind[c] = "ready"
    /\ Mode = "http"
    /\ EndCall(c, "ok")

\* The gRPC probe looks past the adapter it was given and reads the cache again.
RereadWait(c) ==
    /\ pc[c] = "loaded" /\ kind[c] = "ready"
    /\ Mode = "grpc"
    /\ Goto(c, "reread_wait")
    /\ UNCHANGED <<got, cache, disk, loadError>>

TakeReadLockAgain(c) ==
    /\ pc[c] = "reread_wait"
    /\ FreeWorker
    /\ MayRead(c)
    /\ Goto(c, "rereading")
    /\ UNCHANGED <<got, cache, disk, loadError>>

AnswerReread(c) ==
    /\ pc[c] = "rereading"
    /\ FreeWorker
    /\ EndCall(c, IF cache # NoModel THEN "ok" ELSE "not_ready")
-----------------------------------------------------------------------------
ParseFails(c) == payload[c] \cap {"malformed", "panics", "too_many"} # {}

\* parse_payload, batch_size, max_records.
ParseOk(c) ==
    /\ pc[c] = "parsing"
    /\ ~ParseFails(c)
    /\ Goto(c, AfterParse)
    /\ UNCHANGED <<got, cache, disk, loadError>>

ParseErr(c) ==
    /\ pc[c] = "parsing"
    /\ ParseFails(c)
    /\ payload[c] \cap {"malformed", "panics"} # {"panics"}
    /\ EndCall(c, "bad_request")

\* Fault: the permit is given back by the last line of the handler, which a
\* panic does not reach.
ParsePanicLeaking(c) ==
    /\ pc[c] = "parsing"
    /\ payload[c] \cap {"malformed", "panics"} = {"panics"}
    /\ Goto(c, "idle")
    /\ UNCHANGED <<got, cache, disk, loadError>>

\* The handler's task unwinds; the client sees its connection reset.
ParsePanic(c) ==
    /\ pc[c] = "parsing"
    /\ payload[c] \cap {"malformed", "panics"} = {"panics"}
    /\ EndCall(c, "none")

\* adapter.predict on this worker thread, then format_output.
Predict(c) ==
    /\ pc[c] = "predicting"
    /\ EndCall(c, IF "rejected" \in payload[c] THEN "bad_request" ELSE "ok")

\* The client disconnects: the handler's future is dropped, at an await.
Cancel(c) ==
    /\ pc[c] \notin RunningStages \cup {"idle"}
    /\ EndCall(c, "none")

\* The operator puts another model under SM_MODEL_DIR, or breaks it.
Deploy ==
    /\ \E d \in Model \cup {NoModel} : d # disk /\ disk' = d
    /\ UNCHANGED <<callVars, permits, cache, ahead, loadError, historyVars>>

\* The steps the server takes for call c.
Serve(c) ==
    \/ AnswerLive(c) \/ AnswerMetrics(c) \/ StartReady(c)
    \/ RefuseLoadError(c) \/ RefuseOversize(c)
    \/ Acquire(c) \/ Enqueue(c) \/ PollGranted(c)
    \/ DeadlinePasses(c) \/ TimeOut(c)
    \/ TakeReadLock(c) \/ CacheHit(c) \/ CacheMiss(c)
    \/ LoadOk(c) \/ LoadErr(c) \/ TakeWriteLock(c) \/ Store(c)
    \/ ContinuePredict(c) \/ AnswerReady(c)
    \/ RereadWait(c) \/ TakeReadLockAgain(c) \/ AnswerReread(c)
    \/ ParseOk(c) \/ ParseErr(c) \/ ParsePanic(c)

Next ==
    \/ \E c \in Client : Arrive(c) \/ Serve(c) \/ Predict(c) \/ Cancel(c)
    \/ Deploy

Spec == Init /\ [][Next]_vars

\* The runtime polls every woken task in turn and its lock and semaphore are
\* fair queues, so a step of a call that is possible again and again is
\* taken.  Clients and operators owe nothing: they may stop at any time.
Fairness         == \A c \in Client : SF_vars(Serve(c))
InferencesReturn == \A c \in Client : WF_vars(Predict(c))
FairSpec         == Spec /\ Fairness /\ InferencesReturn
-----------------------------------------------------------------------------
TypeOK ==
    /\ pc        \in [Client -> Stages]
    /\ kind      \in [Client -> Kinds]
    /\ payload   \in [Client -> SUBSET Defect]
    /\ got       \in [Client -> Model \cup {NoModel}]
    /\ answer    \in [Client -> Answers]
    /\ permits   \in 0..MaxInflight
    /\ cache     \in Model \cup {NoModel}
    /\ ahead     \in [Client -> SUBSET Client]
    /\ disk      \in Model \cup {NoModel}
    /\ loadError \in BOOLEAN
    /\ cold      \in SUBSET Client
    /\ installed \in [Client -> SUBSET Model]

\* No permit is lost or invented, whichever way a call ends (answer, refusal,
\* early error return, panic, disconnect) and wherever it stands: the free
\* permits and the calls that own one always add up to the configured limit
\* (OwnedSemaphorePermit kept in _permit, http.rs:236, grpc_service.rs:96).
PermitAccounting == permits + Cardinality(Holders) = MaxInflight

\* The semaphore behind both protocols implements the admission promise.
Admission == INSTANCE AdmissionControl
    WITH Caller <- Client, Capacity <- MaxInflight,
         inside <- Holders, waiting <- Queued

\* At most max_inflight predictions are past their admission, a call waits
\* only while they are all there, and a permit that is given back goes to a
\* waiting call first (http.rs:132, grpc_service.rs:96).
ImplementsAdmission == Admission!Spec

\* A call is answered 429 / RESOURCE_EXHAUSTED only after a look at the
\* semaphore at which as many other predictions as the limit allows owned a
\* permit, and never if it has no other prediction beside it, whatever is
\* configured.  It may be refused although a permit was assigned to it since:
\* that one goes back, or on to another call (http.rs:135-148, lib.rs:43).
RefusedOnlyWhenFull ==
    [][\A c \in Client :
          /\ answer[c] # "busy" /\ answer'[c] = "busy" => pc[c] \in RefusalStages
          /\ pc[c] \notin RefusalStages /\ pc'[c] \in RefusalStages =>
                /\ Cardinality(Holders \ {c}) = MaxInflight
                /\ Holders \ {c} # {}]_vars

\* A warm server stays up: a call that arrives when an adapter is cached never
\* loads the model again, whatever is deployed or broken on disk meanwhile,
\* and is told neither "internal" nor "not ready"; only the load error a gRPC
\* service was created with still refuses predictions (lib.rs:51,
\* grpc_service.rs:78).
WarmCallsStayServed ==
    \A c \in Client \ cold :
        /\ pc[c] \notin {"loading", "write_wait", "write_granted"}
        /\ answer[c] # "not_ready"
        /\ answer[c] = "internal" => loadError

\* A prediction runs on an adapter that was the server's cached adapter at
\* some moment between the request's arrival and the inference, even when
\* several cold calls load different deployments and overwrite one another
\* (lib.rs:51-59).
PredictsWithInstalledModel ==
    \A c \in Client : pc[c] = "predicting" => got[c] \in installed[c]

\* Once an adapter is cached the cache is never empty again (lib.rs:57).
AdapterNeverReverts == [][cache # NoModel => cache' # NoModel]_vars

\* The gRPC readiness probe, which reads the cache a second time instead of
\* asking the adapter it was given, always finds one (grpc_service.rs:54-63).
RereadFindsAdapter ==
    \A c \in Client : pc[c] \in {"reread_wait", "rereading"} => cache # NoModel

\* Every call ends: no call is left waiting for a permit, for the lock or for
\* a worker thread, provided inferences return.
EveryCallEnds == \A c \in Client : pc[c] # "idle" ~> pc[c] = "idle"

\* The HTTP server recovers without a restart: once a loadable model is on
\* disk for good, calls stop being answered 500 (lib.rs:55).
RecoversAfterRepair ==
    <>[](disk # NoModel) =>
        <>[][\A c \in Client : answer'[c] \in {"internal", "not_ready"}
                 => answer'[c] = answer[c]]_vars
\* "HELP byoc_up Service readiness" (http.rs:206): a server that reports the
\* gauge as 1 has an adapter, or could load one.
MetricsTellReadiness ==
    [][\A c \in Client : answer[c] # "up" /\ answer'[c] = "up" =>
          cache # NoModel \/ disk # NoModel]_vars
-----------------------------------------------------------------------------
(* The inductive invariant: the properties above are kept by a step only     *)
(* together with what the steps before it established.                       *)

QueuedOnlyWhenFull == Queued # {} => permits = 0

StagesMatchKind ==
    \A c \in Client :
        /\ pc[c] \in {"queued", "granted", "parsing", "predicting"} \cup RefusalStages
              => kind[c] = "predict"
        /\ pc[c] \in {"reread_wait", "rereading"} => kind[c] = "ready"

\* The stages of a call after ensure_adapter_loaded returned Ok to it.
EnsuredStages == {"loaded", "predicting"} \cup (IF Mode = "grpc" THEN {"parsing"} ELSE {})

AdapterInHand ==
    \A c \in Client :
        /\ pc[c] \in {"write_wait", "write_granted"} => got[c] \in Model
        /\ pc[c] \in EnsuredStages => got[c] \in installed[c]
        /\ pc[c] \in {"loaded", "reread_wait", "rereading"} => cache # NoModel

CallsSeeTheCache ==
    \A c \in Client : pc[c] # "idle" /\ cache # NoModel => cache \in installed[c]

WarmCallsSeeACache ==
    \A c \in Client \ cold : pc[c] # "idle" => cache # NoModel

IndInv ==
    /\ TypeOK /\ PermitAccounting /\ QueuedOnlyWhenFull /\ StagesMatchKind
    /\ AdapterInHand /\ CallsSeeTheCache /\ WarmCallsSeeACache
    /\ WarmCallsStayServed
=============================================================================
