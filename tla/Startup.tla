-------------------------------- MODULE Startup --------------------------------
(***************************************************************************)
(* The life of a server process, from its environment to its exit (main.rs, *)
(* AppConfig::default, run_http_server, run_grpc_server, build_http_router, *)
(* InferenceGrpcService::new):                                              *)
(*                                                                          *)
(*   launched -> telemetry -> address -> bind -> build -> serving -> exited *)
(*                                                                          *)
(* A process that exits may be launched again with another environment.     *)
(***************************************************************************)
EXTENDS Naturals

CONSTANTS
    Environments,  \* the environments a process may be launched with
    MaxPermits     \* Semaphore::MAX_PERMITS

(* An environment has the fields                                            *)
(*   mode         SERVE_MODE: "unset", "http", "grpc" or "other"            *)
(*   host         HOST: "unset", "address" or "name", an IPv6 address       *)
(*                without brackets being no better than a name              *)
(*   port         PORT, and maxInflight  MAX_INFLIGHT: the set of the       *)
(*                number it reads as, {} when unset or no number            *)
(*   metrics      PROMETHEUS_ENABLED, and swagger  SWAGGER_ENABLED:         *)
(*                "unset", "true" for 1, true, yes, y and on, or "other"    *)
(*   metricsPath  PROMETHEUS_PATH: "own", "taken" if another route always   *)
(*                has it, "relative" without a leading slash, or "docs"     *)

VARIABLES
    env,       \* the environment of the process
    stage,     \* what the process does next, or "serving", or "exited"
    settings,  \* the protocol served and the port
    openPort,  \* the port the process listens on, as a set
    taken,     \* the ports other processes listen on
    status     \* how the process ended: "none", "error" (exit code 1),
               \* "panic" (101) or "killed"

vars == <<env, stage, settings, openPort, taken, status>>

Default(number, default) == IF number = {} THEN default ELSE CHOOSE n \in number : TRUE
EnvBool(value, default)  == IF value = "unset" THEN default ELSE value = "true"

ASSUME PortAssumption == \A e \in Environments : \A m, n \in e.port : m = n

\* Fault: whatever is not "http" has the port of gRPC.
PortForAnyOtherMode(e) == Default(e.port, IF e.mode = "http" THEN 8080 ELSE 50052)
ResolvedPort(e)        == Default(e.port, IF e.mode = "grpc" THEN 50052 ELSE 8080)

\* Every mode but "grpc" serves HTTP.
Settings(e) == [protocol |-> IF e.mode = "grpc" THEN "grpc" ELSE "http",
                port |-> ResolvedPort(e)]

Ports == {Settings(e).port : e \in Environments}

Init ==
    /\ env \in Environments
    /\ stage = "telemetry"
    /\ settings = Settings(env)
    /\ openPort = {}
    /\ taken \in SUBSET Ports
    /\ status = "none"

Goto(next) == stage' = next /\ UNCHANGED <<env, settings, openPort, taken, status>>

\* The process ends; the system closes its listener.
Exit(how) ==
    /\ stage' = "exited" /\ status' = how /\ openPort' = {}
    /\ UNCHANGED <<env, settings, taken>>

\* init_telemetry warns of a missing endpoint and fails never.
InitTelemetry == stage = "telemetry" /\ Goto("address")

\* "host:port" is parsed as a socket address, and expect()ed to be one.
ParseAddress ==
    /\ stage = "address"
    /\ IF env.host = "name" THEN Exit("panic") ELSE Goto("bind")

Bind ==
    /\ stage = "bind"
    /\ IF settings.port \in taken THEN Exit("error")
       ELSE /\ openPort' = {settings.port} /\ stage' = "build"
            /\ UNCHANGED <<env, settings, taken, status>>

\* AppState::new: the permits of the semaphore, at least 1.
PermitsFit == Default(env.maxInflight, 16) <= MaxPermits

\* axum panics for a route without a leading slash and for a second GET route.
MetricsRouteFits ==
    EnvBool(env.metrics, TRUE) =>
        \/ env.metricsPath = "own"
        \/ env.metricsPath = "docs" /\ ~EnvBool(env.swagger, FALSE)

\* Fault: a server that cannot be built is built again, in a loop.
BuildHttpRetrying ==
    /\ stage = "build" /\ settings.protocol = "http"
    /\ PermitsFit /\ MetricsRouteFits
    /\ Goto("serving")

BuildHttp ==
    /\ stage = "build" /\ settings.protocol = "http"
    /\ IF PermitsFit /\ MetricsRouteFits THEN Goto("serving") ELSE Exit("panic")

\* The model is loaded here, on the thread that will accept the connections
\* the open port already queues; a failure is kept, see module Serving.
BuildGrpc ==
    /\ stage = "build" /\ settings.protocol = "grpc"
    /\ IF PermitsFit THEN Goto("serving") ELSE Exit("panic")

\* The accept loop fails, or the process is killed: there is no shutdown.
ServeFails == stage = "serving" /\ Exit("error")
Kill       == stage # "exited" /\ Exit("killed")

\* Another process opens or closes a port.
OtherProcess ==
    /\ taken' \in SUBSET Ports
    /\ taken' # taken /\ openPort \cap taken' = {}
    /\ UNCHANGED <<env, stage, settings, openPort, status>>

Relaunch ==
    /\ stage = "exited"
    /\ env' \in Environments
    /\ settings' = Settings(env')
    /\ stage' = "telemetry" /\ status' = "none"
    /\ UNCHANGED <<openPort, taken>>

Start == InitTelemetry \/ ParseAddress \/ Bind \/ BuildHttp \/ BuildGrpc

Next == Start \/ ServeFails \/ Kill \/ OtherProcess \/ Relaunch

\* The main thread of a process runs; nobody owes a launch or a kill.
Spec == Init /\ [][Next]_vars /\ WF_vars(Start)
-----------------------------------------------------------------------------
\* What a process serves and where is what its own environment says, also
\* after a restart with another one: gRPC for SERVE_MODE=grpc and HTTP for all
\* else, on PORT, or on the port of that protocol if PORT is no port
\* (main.rs:11).
ServesAsLaunched ==
    stage = "serving" =>
        /\ settings.protocol = "grpc" <=> env.mode = "grpc"
        /\ openPort = IF env.port # {} THEN env.port
                      ELSE IF settings.protocol = "grpc" THEN {50052} ELSE {8080}

\* A port that was opened is served, or closed again with the process: no
\* client is left in the queue of a listener that nobody accepts from
\* (lib.rs:170-188).
OpenPortIsServed == openPort # {} ~> (stage = "serving" \/ openPort = {})
=============================================================================
