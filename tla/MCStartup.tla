------------------------------- MODULE MCStartup -------------------------------
(* Small instances of Startup for TLC. *)
EXTENDS Startup

Environment(mode, host, port, inflight, metrics, path, swagger) ==
    [mode |-> mode, host |-> host, port |-> port, maxInflight |-> inflight,
     metrics |-> metrics, metricsPath |-> path, swagger |-> swagger]

Flags == {"unset", "true", "other"}

\* The choice of protocol, address and port, and for each protocol the
\* settings that decide what is built.
AllEnvironments ==
    {Environment(m, h, p, {}, "unset", "own", "unset") :
        m \in {"unset", "http", "grpc", "other"}, h \in {"unset", "address", "name"},
        p \in {{}, {9000}}}
    \cup {Environment(m, "unset", {}, i, t, path, s) :
        m \in {"http", "grpc"}, i \in {{}, {99}}, t \in Flags,
        path \in {"own", "relative", "taken", "docs"}, s \in Flags}
=============================================================================
