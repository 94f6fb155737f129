# A TLA+ model of the ONNX model-serving service

The repository is one Rust binary that loads an ONNX model from a directory and
answers prediction requests, over HTTP (axum) or over gRPC (tonic), never both:
`SERVE_MODE` chooses. This directory models its behaviour in TLA+, checks small
instances with TLC and proves the main safety results with TLAPS.

Contents: [the system](#1-the-system), [modules and code](#2-modules-and-code),
[runs](#3-what-the-runs-check), [divergences](#4-where-the-code-disagrees),
[fairness](#5-fairness), [proofs](#6-what-is-proved),
[abstractions](#7-abstractions-and-limits), [plan](#8-plan).

All paths are relative to the repository; `lib.rs`, `http.rs` and so on are files
of `app/src/`.

## 1. The system

| Component | State it keeps | Operations | Must be correct about |
|---|---|---|---|
| Serving core: `AppState` (lib.rs:34), HTTP handlers (http.rs), gRPC service (grpc_service.rs) | `inflight` semaphore, `adapter` cache behind a tokio `RwLock`, gRPC's `load_error` | predict, ready, live, metrics, docs | no permit is lost; 429 only after a look that found all permits taken; a warm server stays up; the adapter used is one that was cached; every call ends |
| Model loading (adapter.rs:29, :179, config.rs:126) | the directory on disk (not its own) | `load_adapter` | the many looks at the disk add up to one |
| Prediction handlers (http.rs:226, grpc_service.rs:74) | what they keep of one request | the stages below, in the order of the protocol; status codes | both protocols answer alike; predictions belong to their records; no model, no prediction |
| Media types (http.rs:67, :115, grpc_service.rs:108, input.rs:120, :379) | none | header fallbacks, defaults, normalisation | a request is read as the same type over both protocols |
| Tabular input (input.rs, lib.rs:61-100) | none: a pipeline per request | decode, check shape, select columns, check batch, build tensor | the model sees what the client sent |
| ONNX multi input (lib.rs:102, adapter.rs:53, :194) | none | records to tensors to rows | rows belong to their records, whatever the hash order |
| Outputs and answers (adapter.rs:101-176, lib.rs:124, input.rs:389-430) | none | choose output, to JSON, format | the answer is the chosen output, whole and in order |
| Process life cycle (main.rs, lib.rs:151-188, http.rs:44) | listener, settings | launch, bind, build, serve, exit | an open port is served; settings mean what they say |
| Configuration (config.rs) | none after start | parse the environment | partly: every module takes the settings it reads |
| Telemetry headers, OpenAPI page, protobuf, container, scripts | none | | not modelled, see section 7 |

How they interact: a handler of the serving core takes a permit of `inflight`,
calls the input pipeline, asks `ensure_adapter_loaded` for the adapter (a read of
the cache, or model loading followed by a write of it), runs it and formats its
output. The two protocols share all of this but run the stages in different
orders:

    http  size -> permit -> media types -> parse -> batch size -> ensure adapter
          -> predict -> format
    grpc  sticky load error -> size -> permit -> media types -> ensure adapter
          -> parse -> batch size -> predict -> format

(HTTP settles the media types just before the permit, which nobody can tell.)

What is hard: the semaphore with a timeout that looks at the acquisition and at the
deadline one after the other, while a permit may be handed over in between; futures
dropped at any await when a client disconnects; panics in a handler; check-then-act
on the cache across three awaits; parsing, loading and inference that block the
worker threads of the runtime; a directory that changes while it is looked at; and
pipelines in which a check made on the first row or on the number of records is
relied on for all rows. `PROJECT.json` lists each hazard at its line with the
properties that watch it.

## 2. Modules and code

| Module | Models | Proofs |
|---|---|---|
| `AdmissionControl` | abstract: what an inflight limit promises | |
| `Serving` | lib.rs:34-59, http.rs:132-250, grpc_service.rs: every call step by step | `ServingProofs` |
| `AtomicLoad` | abstract: a load that looks at the disk once | |
| `ModelLoad` | adapter.rs:29-51, :179-192, config.rs:126-146 | `ModelLoadProofs` |
| `Invocation` | http.rs:87-104, :132-250, grpc_service.rs:74-151, lib.rs:61-82: one prediction over HTTP and over gRPC, the composition of the next six | `InvocationProofs` |
| `Prediction` | the state of a request, shared by the modules of its stages | |
| `MediaTypes` | http.rs:67-85, :115-130, grpc_service.rs:108-117, input.rs:120, :379 | |
| `TabularInput` | lib.rs:61-100, input.rs:74-118, :236-377 | `InputProofs`, `MeaningProofs` |
| `MultiInput` | lib.rs:102-122, input.rs:129-142, :179-234, adapter.rs:194-224 | `InvocationProofs`, `InputProofs` |
| `ParsedInput` | input.rs:16-50, http.rs:155-169, adapter.rs:53-99 | `InputProofs` |
| `OutputFormat` | adapter.rs:101-176, lib.rs:124-145, input.rs:389-430 | `InvocationProofs` |
| `NumericRows` | JSON values and `value_to_numeric_rows` (input.rs:267) | |
| `AnswerFunction` | abstract: what a request is answered, as a function of it | `ParityProofs` |
| `Startup` | main.rs, lib.rs:151-188, http.rs:44-65, grpc_service.rs:17-36, config.rs:101-116 | `StartupProofs` |

`InputLemmas` holds the lemmas about the operators that these modules are built
from. The theorems about a request are in a chain of modules, each of which uses
the invariants of those before it: `InputLemmas`, `InvocationProofs`, `InputProofs`,
`MeaningProofs`; `ParityProofs` starts from `InvocationProofs`.

An `MC...` module gives a specification its small instances for TLC.

**`Serving`.** A client is a connection with at most one call at a time; `pc[c]`
says where its call stands. Steps are cut at the awaits of the handlers and at the
blocking sections between them. `permits` is the semaphore's count; a call in
`granted` owns a permit handed to it by another call's end although it has not run
since. `tokio::time::timeout` polls the acquisition first, then the deadline, then
drops the acquisition: `DeadlinePasses` is the poll that finds no permit for a call
whose deadline is over (`expired`), `TimeOut` the drop and the answer. A permit
handed over between the two is the call's own (`granted_late`), yet the call is
refused, and `EndCall` passes the permit on. `cache` is `AppState.adapter`, a model or nothing, and `ahead[c]` the
calls queued before `c` on its lock, which is how tokio's fair `RwLock` is modelled:
a reader waits for the writers queued before it (with barging readers a writer, and
with it a call, could wait for ever). Sections that run without an await
(`parsing`, `loading`, `loaded`, `predicting`, and the two stages of a refusal) occupy one of `Workers` threads.
`EndCall` is every way a handler's future goes away; it drops the permit, which
goes to a queued call if there is one. `Cancel` is a client's disconnect, which
drops the future at whichever await it stands. `Deploy` is the operator changing
the model on disk. `loadError` is what `InferenceGrpcService::new` found.
`cold` and `installed` are history variables: no step depends on them.

**`ModelLoad`.** The loads may belong to several processes, which share the directory. A load looks at the disk up to seven times: the directory exists,
is a directory, the file exists; the same again inside `OnnxAdapter::new`; then the
file is read. `Operator` may change the disk between any two looks. `Serving` uses
a load in one step; `ModelLoad` implementing `AtomicLoad` is what justifies it.

**`Invocation`.** The state of a request and the stages it can be in are declared
once, in `Prediction`; each stage module adds the actions of its stages, and
`Invocation` adds the handlers' own steps and the next-state relation. `stage` is
what happens next, or the outcome; `AfterMedia`, `AfterBatch` and `AfterEnsure`
are where the two handlers differ. A request is answered over HTTP first and then,
by a server started in the same place, over gRPC, so that properties can compare
the two answers. A server is a configuration, a model and whether that can
be loaded. Permits and the cache are the matter of `Serving`, which in turn takes
a request as the set of its defects; the two modules meet in the stages of the
handlers, which both have in the same order.

**`MediaTypes`.** A media text is what the code tells apart: the type without
parameters, whether there are parameters, whether a list goes on after a comma. A
client states, over HTTP, a header and its `x-amzn-sagemaker-` double, each
possibly missing or unreadable, and over gRPC a field.

The constant `Values` has every JSON value and CSV field of the bodies with all
their parts, so that a body is a sequence of values, and a value of values, to any
depth. A request has the body the server sees, in two readings: its `lines`, and its
`docs`, the lines that are not blank as JSON. Every body has both, since its media
type may be wrong. It also has what the server does not see, the matrix of cells,
the CSV header or the records that its client means, so that properties can compare
what the model gets with what was meant. `WritesCsv`, `WritesJson`, `WritesJsonl` and
`WritesRecords` say, apart from the decoders, when a body is a writing of them.

**`TabularInput`.** One action per stage of the pipeline over `rows`. A field of
a CSV line is a number, blank or some other text. Columns count from 0 as in the code.
What the columns should be is stated a second time, as a set (`Kept`, `AreMeant`).

**`MultiInput`.** The records are decoded from the same documents.
`BuildTensors` chooses, for every ONNX input, the key whose turn comes last in the
iteration of the hash map.

**`ParsedInput`.** The batch size, the record limit and the way of either kind of
input to the rows of the one tensor the adapter builds.

**`OutputFormat`.** The elements of a tensor are told apart by position, so that a
lost, repeated or moved element shows. `NaN` stands for every value JSON has no
number for.

**`AnswerFunction`.** The stages of a request once more, each inside the one before
it, as a function that knows no protocol, no order of the handlers and no variables
but the server and the request. `Foreseen` is what becomes of a request in progress.
It is a specification, not a model of code, and both handlers are shown to meet it.

**`Startup`.** From the environment to the exit of the process, and its relaunch,
among other processes that take and free ports.

Definitions whose comment begins with `Fault:` are not the code's. Each is what one
definition would be if the code had a plausible bug; `PROJECT.json` pairs it with a
property that must then fail.

## 3. What the runs check

| Run | Instance | Shows |
|---|---|---|
| `http_serving` | 3 clients, 2 models, a configured limit of 0 (so 1 permit), 2 worker threads, 4 payloads | types; `PermitAccounting`; `RefusedOnlyWhenFull`; `WarmCallsStayServed`; `PredictsWithInstalledModel`; `AdapterNeverReverts`; the inductive invariant; refinement of `AdmissionControl` |
| `grpc_serving` | the same with 2 permits, in gRPC order | the same where it differs, and `RereadFindsAdapter` |
| `http_liveness` | 2 clients, 1 permit, 1 worker thread, 5 payloads | `EveryCallEnds`, `RecoversAfterRepair` |
| `grpc_liveness` | the same in gRPC order with 2 worker threads | `EveryCallEnds` |
| `model_load` | 4 loads of processes that differ in `MODEL_TYPE` and in their output map, 2 models | refinement of `AtomicLoad`; `LoadInv` |
| `invocation` | four foci, each varying one part of server and request and keeping the rest at the defaults, see below | `AnsweredAsMeant`, `AcceptedIsWhatWasSent`, `PanicsOnlyPastTheRow`, `LimitBoundsTheModel`, `RowsComeFromOneKey`, `VectorsAccepted`, `ChosenOutputExists`, `AnswerHasAnItemPerRecord`, `ResponseKeysComplete`, `PredictionsBelongToRecords`, `ProtocolsAgree`, `NoModelNoPrediction`, `AnsweredAsForeseen` |
| `every_payload_answered`, `ragged_never_predicted`, `predictions_key`, `documented_types`, `metrics_readiness` | parts of the above | divergences, section 4 |
| `startup` | 24 environments that differ in protocol, host and port, 144 that differ in what is built; 3 ports | `ServesAsLaunched`, `OpenPortIsServed` |

Why the bounds are enough. In `Serving` three clients are one that holds, one that
is queued and one that arrives or is handed the permit; for the cache, two cold
loads that overwrite one another and a third call that uses what it finds. Two
models tell a stale adapter from a current one. One permit gives the longest
queues, two show that a permit may be free while another is held. One worker thread is
where blocking is worst, two are the least for which two calls run at once. The payloads
include one per outcome and two with two defects, for which the order of the
stages decides the answer. Clients and models are symmetric and reduced as such in
the safety runs; the liveness runs use no symmetry. In `invocation` the foci are:

- tabular: every matrix of up to 2 rows of 0 to 3 cells and of 3 rows of up to 2,
  all numbers or with a text cell in its first or its last row, in every writing of
  it the decoders read, in CSV with or without a header and blank lines above and
  below, under 36 configurations. Two rows are the least that can be ragged; three
  cells leave room for a selection that starts late, ends early, reorders, repeats
  or overruns.
- media: every way to state the two media types out of five texts, bodies read as
  what they are not, bodies one byte too long, 4 defaults, servers that cannot load
  their model, and servers whose `ACQUIRE_TIMEOUT_S` is no `Duration`.
- multi: every list of up to 2 records over 2 keys and 5 kinds of values, bare, under
  `instances`, as JSON and as JSON Lines, 4 input maps, 2 record limits.
- output: 1 or 2 outputs of 10 shapes and 3 dtypes, a model that fails, 27
  configurations, 3 accepted types.

The model of the first three foci gives a row a prediction of its own, different
for different rows (`rowwise`). Nothing in these
modules is counted without end, so no bound is hidden in a guard; `MaxPermits`
stands for tokio's limit on permits.

## 4. Where the code disagrees

Each has a run that TLC must find violated, and an entry under `findings`.

- `every_payload_answered`: with configured columns, a row shorter than the first
  one, or a listed column the rows do not have, panics in the handler
  (input.rs:113) and the connection is reset; `docs/openapi.yaml` documents 400.
  `http_serving` shows that at least no permit is lost.
- `ragged_never_predicted`: with configured columns, rows longer than the first
  are cut to it and predicted; without, they are refused (adapter.rs:86). The run has
  matrices of two rows of two or three cells; a row that is dropped as a header does
  not count.
- `predictions_key`: the README's `{"predictions":[0,0,0]}` is not what the defaults
  answer; they answer the bare array.
- `documented_types`: `docs/openapi.yaml` lists nine types for a request body;
  the seven binary ones (Parquet, NPZ, images, audio) have no decoder (lib.rs:99).
- `metrics_readiness`: the help text of `byoc_up` says service readiness; it is the
  constant 1 (http.rs:203), also while the readiness probe answers 500.

Further behaviour the models state without calling it wrong: `CSV_HAS_HEADER=auto`
silently drops a first row with a field that is no number (`FirstRowLost`); an empty
JSON list is one record without features; a JSON document with a matrix under
`features` is refused but the same line of JSON Lines is accepted; records whose
mapped value is a bare number are predicted as one row of all of them, while
`batch_size` counts the records; `HOST=localhost` panics at
`expect("valid listen address")` (lib.rs:173); every `SERVE_MODE`
but exactly `grpc` serves HTTP; an output selector that is no number means output 0
in the output map, and `ONNX_OUTPUT_INDEX` in `ONNX_OUTPUT_NAME`; the gRPC service
refuses predictions for ever after a failed first load while its readiness probe
recovers; `validate_dynamic_batch_sizes` can never fail, as all tensors have as
many values as there are records; a body over `MAX_BODY_BYTES` is 413 in HTTP and
`InvalidArgument` in gRPC; an empty `Content-Type` header is a type (and refused) while
an empty gRPC field means the default; `Accept: text/csv; q=1` gets JSON, as
`normalized_accept` keeps parameters, and `application/*+json` is compared
literally; with two keys mapped to one ONNX input, which of them is predicted may
change from request to request; an `ACQUIRE_TIMEOUT_S` of `inf` panics on every
prediction (http.rs:136).

## 5. Fairness

`Serving!FairSpec`: strong fairness of every step the server takes for a call. The
runtime polls woken tasks in turn, tokio's semaphore and lock are first come, first
served, and a timer fires; a step may be disabled now and then (the last worker
thread is taken), hence strong. Tokio promises as much only while no task blocks a
worker thread for ever, so inference is assumed to return (`InferencesReturn`), and
nothing is claimed of a server with an inference that hangs: a task woken into the
queue slot of the blocked thread may never be polled, although another thread is
free. What the limit does bound, by `PermitAccounting`, is how many threads inferences
take at once. Clients (`Arrive`, `Cancel`) and the operator
(`Deploy`) are never fair: they may stop at any time. `Startup!Spec`: weak fairness
of the start, one thread that runs; this assumes that the gRPC service's load at its
creation returns. The other modules claim no liveness.

## 6. What is proved

Every safety property of every passing run, invariant or action property, and both
refinements are theorems, for every value of the constants:

| Module | Theorems | For every |
|---|---|---|
| `ServingProofs` | `TypeOK`, `PermitAccounting`, `WarmCallsStayServed`, `PredictsWithInstalledModel`, `RereadFindsAdapter`, `AdapterNeverReverts`, `RefusedOnlyWhenFull`; `Serving` implements `AdmissionControl` | number of clients, models, permits and worker threads, both protocols |
| `ModelLoadProofs` | `LoadInv`; `ModelLoad` implements `AtomicLoad` | number of loads and models, configuration of their processes |
| `InvocationProofs` | `ResponseKeysComplete`, `ChosenOutputExists`, `NoModelNoPrediction`, `RowsComeFromOneKey`, `AnswerHasAnItemPerRecord` | set of servers, requests and models |
| `ParityProofs` | `AnsweredAsForeseen`, `ProtocolsAgree` | the same |
| `InputProofs` | types, `PanicsOnlyPastTheRow`, `LimitBoundsTheModel`, `VectorsAccepted` | the same |
| `MeaningProofs` | `AnsweredAsMeant`, `AcceptedIsWhatWasSent`, `PredictionsBelongToRecords` | the same |
| `StartupProofs` | `ServesAsLaunched` | set of environments |

Only the three liveness properties stay with TLC (`EveryCallEnds`,
`RecoversAfterRepair`, `OpenPortIsServed`): they rest on fairness, and the prover knows nothing of `ENABLED`.

Assumptions: only those in the modules, each evaluated by TLC on the instances.

- Of `Serving`: `Mode` is one of the two protocols; the limit is a natural number and
  there is at least one worker thread; `NoModel` is no model; payloads are sets of
  defects; there are finitely many clients, because permit owners are counted.
- Of `ModelLoad`: each load has a `MODEL_TYPE` of one of three cases.
- Of configurations: an output or column selector, a slice's end and `PORT` read as at most one
  number; numbers are natural; a column selector that is unset has no parts; a map
  that is no JSON has no keys; the key `Plain` that stands for no key is none of the
  configured ones.
- Of requests: bodies, matrices and headers are sequences of values, and what is in
  a value is a value. They may be of any length and depth, ragged, malformed, of the
  wrong media type.
- Of models: inference fails or returns at least one output, and the data of a
  tensor of rank 1 or 2 has as many elements as its shape says (`AreOutputs`, a guard
  of `Run`). That a model predicts row by row is a premise of
  `PredictionsBelongToRecords`, not an assumption.

The argument for `Serving`. The properties are not inductive by themselves;
`IndInv` adds what they lean on:

- `QueuedOnlyWhenFull`: calls queue only while no permit is free. A permit given
  back goes to a queued call, so nothing else can take it first; this is what makes
  `RefusedOnlyWhenFull` and the refinement hold. For the former, two lemmas say that
  only `TimeOut` answers "busy" and only `DeadlinePasses` puts a call on its way there,
  and that one happens to queued calls only.
- `StagesMatchKind`: only predictions own permits, only probes reread.
- `AdapterInHand`: past `ensure_adapter_loaded` a call holds an adapter that was
  cached during the call; a load that is about to store has one.
- `CallsSeeTheCache`, `WarmCallsSeeACache`: what is cached now counts as cached
  during every call in progress, and a call that arrived warm still sees a cache.

Counting is kept apart from the rest. The lemma `StepsOfTheSemaphore` shows that,
for `Holders` and `Queued`, every step is one of six: nothing changes, a call takes
a free permit, a call queues, a queued call leaves, a holder leaves with nobody
queued, a holder hands over. `PermitAccounting` and the refinement of
`AdmissionControl` are both proved from that lemma. `IndInv` is an invariant of
`http_serving` and `grpc_serving` too.

The argument for `ModelLoad`. `LoadInv` says that a load at its last look, the
output map, holds the one model it has read. The refinement counts a load as done
once it has read its file: the rest depends on configuration only. Each way to end
is then justified by the disk at that very look (`EndIsFinish`), every other look is a
stutter (`GotoIsStutter`).

The invariants of `Invocation`. No property of a request is inductive by itself, as
each looks at a late stage. The strengthenings say what the variables hold on the
way there; each is an invariant of its own and may lean on those before it.

- `NothingLeft`: until a handler has filled them, `rows`, `tensors`, `outputs`,
  `value` and `body` are empty, so that nothing of an earlier request shows and a
  refusal carries no predictions.
- `OutputInv`, `ItemInv`: from the choice of the outputs on, the keys of `value` are
  those of the configuration, a model that ran has an output, and the value under
  each key is what `tensor_to_json` makes of the output chosen for it.
- `UnloadedInv`: how far a request gets without a model, over HTTP to the stage
  `ensure`, over gRPC nowhere; since the answer over HTTP precedes the one over
  gRPC, it says of that one what it was.
- `RecordsInv`: between the decoding and the tensor, `tensors` holds for every ONNX
  input a value of each record under one key (`BuiltFromRecords`), and what the
  adapter reads from that is a row per record or one of bare numbers.
- `TypedInv`: `rows` are sequences of sequences of numbers of the body, `tensors`
  sequences of its values; the selection starts with some row.
- `LimitInv`: the batch size, once known, is the length of the rows or of every
  tensor, and within `max_records`.
- `VectorsInv`: while the records sent have a vector under every mapped key,
  `tensors` and then `rows` are these vectors, and a refusal has its reason.
- `TableInv`: the same for the tabular way, without a premise on the body: `rows` are
  what was decoded, in the configured columns, and a refusal has its reason.
- `CountInv`: on the way of the input map the batch size is the number of records.

Parity. The two handlers take their stages in different orders, so there is no step
to match with a step. Instead `AnswerFunction` says what a request will be answered
from where it stands, and each stage, over either protocol, leaves that unchanged
(`HandlerKeepsForeseen`, from one lemma per group of stages). The functions depend on server and request
only (`FormatStays` to `ArrivedStays`). A request therefore ends as was foreseen on
its arrival, over both protocols, and the codes correspond (`CodesCorrespond`);
`ProtocolsAgree` follows. With two keys mapped to one input the answer is no function of
the request, which `Comparable` excludes.

Meaning. `TableInv` reduces `AnsweredAsMeant` and `AcceptedIsWhatWasSent` to the
decoders, and the lemmas of `InputLemmas` say what these make of a writing of a
matrix: `JsonWritten` and `JsonlWritten` for the two JSON formats, `CsvAccepted` and
`HeaderAbove`, with `CsvDecoded`, for CSV under every setting of header and blank
lines. `ColumnsAreMeant` shows that the columns computed are the ones configured, in order, and
`ReadIsMeant` that rows indexed with them are what was meant. For a body read in a
format it was not written in, `SentIsRead` goes through the pairs of formats:
such a body is accepted only if its lines are one number each, or all of it is one
line. `PredictionsBelongToRecords` adds the lemmas on the items of an answer
(`TensorLines`, `ItemsOfVector`): item `i` comes from row `i`, row `i` from record
`i`, and alone that record has the same row.

Induction. `FlattenSeq`, with which JSON Lines and the dropping of columns and blank
lines are defined, is recursive, and the library's induction theorems take an
operator as a parameter, which the provers cannot instantiate. `LeastOfSet` and
`Induction` state induction for a set of numbers instead: the set has the
lengths for which the claim is true. `FlattenDef` gives the recursive function behind
`FlattenSeq` a name, so that such a set can speak of it.

The argument for `Startup`. `LaunchInv` ties the settings to the environment and the
open port to the settings, through kills and relaunches.

## 7. Abstractions and limits

- The semaphore hands a permit to any queued call, where tokio hands it to the
  first: every behaviour of the code is one of the model's.
- In `Serving` a request is the set of its defects; which payloads have them is the
  subject of the pipeline modules. `format_output` cannot fail for the values
  `tensor_to_json` builds, so its error path is part of `rejected`.
- Time is the choice whether the deadline of a queued call is over when it is polled.
  That a configured `ACQUIRE_TIMEOUT_S` may be none is part of `Invocation`.
- There is no graceful shutdown in the code, and none in the model.
- The narrowing of `f64` to `f32`, the text of numbers, and NaN and infinity as CSV
  text are left out. The body limits of axum (2 MB) and tonic (4 MB) belong to the
  libraries; they lie below the default `MAX_BODY_BYTES` of 6 MiB, so that bodies between
  them are refused by the library, over one protocol or both.
- `Invocation` takes a model for deterministic. A record's keys, the JSON keys of
  an answer and column selectors are compared as the code compares them, after trimming.
- The keys `instances`, `features` and `predictions` stand for the configured ones
  (`JSON_KEY_INSTANCES`, `JSONL_FEATURES_KEY`, `JSON_OUTPUT_KEY`), which are taken to differ.
- `ModelLoad` takes the reading of the file as one step. Inference is external: it
  returns at least one output, or fails.
- `PORT=0`, for which the system chooses the port, is left out of `Startup`.
- Not modelled: identifiers in trace headers (random, stateless), the content of the
  OpenAPI page, the generated protobuf code, the container files, scripts and
  workflows.

## 8. Plan

Done: the serving core, model loading, the prediction handlers with all their stages
over both protocols, the process life cycle. All safety properties are proved.

Left, in this order:

1. Theorems beyond what the runs check: that a call of `Serving` sees at most one
   adapter, and the abstract side of the liveness properties (that some step is
   always possible while a call is in progress, as a state predicate without `ENABLED`).
2. `VectorsAccepted` for records whose mapped values are bare numbers, and
   `AcceptedIsWhatWasSent` for the way of the input map.
3. `Serving` and `Invocation` as one specification, with the outcome of a request
   computed instead of chosen among its defects: out of TLC's reach as it
   stands, since the states of the two multiply.
