---------------------------- MODULE StartupProofs ----------------------------
(* Theorems about Startup: the safety half of what Startup.cfg checks. *)
EXTENDS Startup, TLAPS

\* The settings are those of the environment the process was launched with,
\* and the port that is open is the one they name.
LaunchInv ==
    /\ env \in Environments
    /\ settings = Settings(env)
    /\ stage \in {"build", "serving"} => openPort = {settings.port}

\* What Default reads from a variable that holds a number is that number, and
\* nothing else is in the variable.
LEMMA DefaultReads ==
    ASSUME NEW number, \A m, n \in number : m = n, number # {}, NEW d
    PROVE  number = {Default(number, d)}
  <1>1. Default(number, d) \in number
    BY DEF Default
  <1> QED BY <1>1

LEMMA LaunchInit == Init => LaunchInv
  BY DEF Init, LaunchInv

\* No step of a process changes what it was launched with, and each step keeps
\* the port in step with the stage.
LEMMA LaunchStep == LaunchInv /\ [Next]_vars => LaunchInv'
  <1> SUFFICES ASSUME LaunchInv, [Next]_vars PROVE LaunchInv'
    OBVIOUS
  <1> USE DEF LaunchInv
  <1>1. CASE InitTelemetry
    BY <1>1 DEF InitTelemetry, Goto
  <1>2. CASE ParseAddress
    BY <1>2 DEF ParseAddress, Goto, Exit
  <1>3. CASE Bind
    BY <1>3 DEF Bind, Exit
  <1>4. CASE BuildHttp
    BY <1>4 DEF BuildHttp, Goto, Exit
  <1>5. CASE BuildGrpc
    BY <1>5 DEF BuildGrpc, Goto, Exit
  <1>6. CASE ServeFails \/ Kill
    BY <1>6 DEF ServeFails, Kill, Exit
  <1>7. CASE OtherProcess
    BY <1>7 DEF OtherProcess
  <1>8. CASE Relaunch
    BY <1>8 DEF Relaunch
  <1>9. CASE UNCHANGED vars
    BY <1>9 DEF vars, Settings, ResolvedPort
  <1> QED BY <1>1, <1>2, <1>3, <1>4, <1>5, <1>6, <1>7, <1>8, <1>9 DEF Next, Start

LEMMA LaunchMeansServed == LaunchInv => ServesAsLaunched
  <1> SUFFICES ASSUME LaunchInv, stage = "serving"
               PROVE  /\ settings.protocol = "grpc" <=> env.mode = "grpc"
                      /\ openPort = IF env.port # {} THEN env.port
                                    ELSE IF settings.protocol = "grpc" THEN {50052} ELSE {8080}
    BY DEF ServesAsLaunched
  <1>1. settings.protocol = "grpc" <=> env.mode = "grpc"
    BY DEF LaunchInv, Settings
  <1>2. openPort = {ResolvedPort(env)}
    BY DEF LaunchInv, Settings
  <1>3. ASSUME env.port # {} PROVE openPort = env.port
    <2>1. \A m, n \in env.port : m = n
      BY PortAssumption DEF LaunchInv
    <2> DEFINE d == IF env.mode = "grpc" THEN 50052 ELSE 8080
    <2>2. env.port = {Default(env.port, d)}
      BY <1>3, <2>1, DefaultReads
    <2> QED BY <1>2, <2>2 DEF ResolvedPort
  <1>4. ASSUME env.port = {}
        PROVE  openPort = IF settings.protocol = "grpc" THEN {50052} ELSE {8080}
    BY <1>1, <1>2, <1>4 DEF ResolvedPort, Default
  <1> QED BY <1>1, <1>3, <1>4

\* A process serves the protocol and the port of its own environment, for every
\* set of environments and after any number of kills and relaunches
\* (main.rs:11).
THEOREM ServedAsLaunched == Spec => []ServesAsLaunched
  BY LaunchInit, LaunchStep, LaunchMeansServed, PTL DEF Spec
=============================================================================
