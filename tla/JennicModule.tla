---------------------------- MODULE JennicModule ----------------------------
(***************************************************************************)
(* The host's supervisor of the radio module (JennicModule.c, driven by    *)
(* main_loop in sub.c): a state machine that identifies, configures and    *)
(* starts the module and watches that it answers.  It runs once per        *)
(* message received and once per tick of T_STATE_MASHINE seconds.          *)
(*                                                                         *)
(* The radio module and the serial line are outside the repository.  They  *)
(* are modelled by what this code expects of them: the module answers      *)
(* requests, keeps silent about its configuration and address until its    *)
(* network is up, asks for its configuration when it reboots by itself;    *)
(* messages may be lost.                                                   *)
(*                                                                         *)
(* Times are in ticks.  Versions are written 10, 11, 13, 14 for 1.0, 1.1,  *)
(* 1.3, 1.4; 0 is a version never received.                                *)
(***************************************************************************)
EXTENDS Integers, Sequences, FiniteSets

CONSTANTS
    DeviceVersion,        \* version of the module
    AuthScheme,           \* eAuthScheme # E_AUTH_SCHEME_NONE
    Diversity,            \* iAntennaDiversity
    MaxVersionRetries,    \* MAX_VERSION_RETRIES (3)
    MaxAddressRetries,    \* MAX_ADDRESS_RETRIES (10)
    CommsLimit,           \* MODULE_TIMEOUT (60 seconds)
    PingInterval,         \* PING_INTERVAL (10 seconds)
    Prompt,               \* the module answers and comes up within a tick
    MaxQueue,             \* bound: answers on their way to the host
    MaxEvents             \* bound: losses, reboots, reconfigurations, traffic

ASSUME ModuleAssumption ==
    /\ DeviceVersion \in {10, 11, 13, 14}
    /\ {AuthScheme, Diversity, Prompt} \subseteq BOOLEAN
    /\ {MaxVersionRetries, MaxAddressRetries, CommsLimit, PingInterval,
        MaxQueue, MaxEvents} \subseteq Nat

States == {"IDLE", "DETERMINE_VERSION", "CONFIGURE_NETWORK",
           "CONFIGURE_SECURITY", "CONFIGURE_PROFILE", "START_MODULE",
           "CONFIGURE_FRONTEND", "DETERMINE_CONFIGURATION",
           "DETERMINE_ADDRESS", "ACTIVITY_LED", "RUNNING"}

\* What the host writes to the module.
Requests == {"RESET", "VERSION_REQUEST", "CONFIG", "SECURITY", "PROFILE",
             "RUN_COORDINATOR", "SET_RADIO_FRONTEND", "ENABLE_DIVERSITY",
             "CONFIG_REQUEST", "ADDR", "PING"}

VARIABLES
    host,           \* the statics of JennicModule.c, and tx, what a call sends
    prefixSet,      \* psModuleSetConfig has a network prefix
    toModule, fromModule,       \* the serial line, both directions
    module,         \* the module: "fresh", "configured", "starting", "up"
    alive,          \* the module works at all
    events,         \* counted against MaxEvents
    sinceReset      \* ghost: messages written since the last RESET of the module, which
                    \* shows as a RESET written or a CONFIG_REQUEST processed

envVars == <<module, alive>>
vars == <<host, prefixSet, toModule, fromModule, envVars, events, sinceReset>>

-----------------------------------------------------------------------------
(* eJennicModuleStateMachine: one operator per case of its switch.  Each   *)
(* takes the host's state and returns it changed; a case that falls        *)
(* through calls the next one.                                             *)

Write(h, m) == [h EXCEPT !.tx = Append(@, m)]
Goto(h, s) == [h EXCEPT !.eModuleState = s]

RequestVersion(h) ==
    IF h.u32Retries + 1 < MaxVersionRetries
    THEN Write([h EXCEPT !.u32Retries = @ + 1], "VERSION_REQUEST")
    ELSE [h EXCEPT !.u32Retries = 0]

\* eJennicModuleWriteConfig succeeds.
CanConfigure(h) == h.uVersionKnown /\ h.u32JennicDeviceVersion >= 11

ConfigureNetwork(h) ==
    CASE ~prefixSet      -> Goto(h, "IDLE")
      [] prefixSet /\ CanConfigure(h)  -> Goto(Write(h, "CONFIG"), "CONFIGURE_SECURITY")
      [] prefixSet /\ ~CanConfigure(h) -> Goto(h, "DETERMINE_VERSION")

DetermineVersion(h) ==
    IF h.uVersionKnown
    THEN ConfigureNetwork(Goto([h EXCEPT !.u32Retries = 0], "CONFIGURE_NETWORK"))
    ELSE RequestVersion(h)

ConfigureSecurity(h) ==
    Goto(IF AuthScheme THEN Write(h, "SECURITY") ELSE h,
         IF h.u32JennicDeviceVersion >= 11 THEN "CONFIGURE_PROFILE"
                                           ELSE "START_MODULE")

ConfigureProfile(h) ==
    Goto(IF h.u32JennicDeviceVersion >= 11 THEN Write(h, "PROFILE") ELSE h,
         "START_MODULE")

StartModule(h) ==
    LET r == Write(h, "RUN_COORDINATOR") IN
    CASE h.u32JennicDeviceVersion >= 14 -> Goto(r, "CONFIGURE_FRONTEND")
      [] h.u32JennicDeviceVersion \in 11 .. 13 -> Goto(r, "DETERMINE_CONFIGURATION")
      [] h.u32JennicDeviceVersion < 11 ->
            Goto([r EXCEPT !.uAddressKnown = FALSE], "DETERMINE_ADDRESS")

ConfigureFrontend(h) ==
    LET f == IF h.u32JennicDeviceVersion >= 14
             THEN Write(h, "SET_RADIO_FRONTEND") ELSE h
        d == IF h.u32JennicDeviceVersion >= 14 /\ Diversity
             THEN Write(f, "ENABLE_DIVERSITY") ELSE f
    IN Goto(d, "DETERMINE_CONFIGURATION")

ActivityLed(h) == Goto(h, "RUNNING")    \* eActivityLED is NONE: nothing is written

\* JennicModuleGetIPv6Address
RequestAddress(h) == Write([h EXCEPT !.uAddressKnown = FALSE], "ADDR")

\* Faulty: after the RESET the module is started, not identified.
DetermineAddressRestarts(h, bTimeout) ==
    CASE h.uAddressKnown -> ActivityLed([h EXCEPT !.u32Retries = 0])
      [] ~h.uAddressKnown /\ ~bTimeout -> h
      [] ~h.uAddressKnown /\ bTimeout ->
            LET r == [h EXCEPT !.u32Retries = @ + 1] IN
            IF r.u32Retries < MaxAddressRetries
            THEN RequestAddress(r)
            ELSE Write(Goto(r, "START_MODULE"), "RESET")

DetermineAddress(h, bTimeout) ==
    CASE h.uAddressKnown -> ActivityLed([h EXCEPT !.u32Retries = 0])
      [] ~h.uAddressKnown /\ ~bTimeout -> h
      [] ~h.uAddressKnown /\ bTimeout ->
            LET r == [h EXCEPT !.u32Retries = @ + 1] IN
            IF r.u32Retries < MaxAddressRetries
            THEN RequestAddress(r)
            ELSE Write(Goto(r, "DETERMINE_VERSION"), "RESET")

\* Faulty: a break is missing, or nothing is asked again.
DetermineConfigurationFallsThrough(h, bTimeout) ==
    LET r == IF ~h.uConfigKnown /\ bTimeout THEN Write(h, "CONFIG_REQUEST") ELSE h
    IN DetermineAddress(Goto([r EXCEPT !.uAddressKnown = FALSE],
                             "DETERMINE_ADDRESS"), bTimeout)

DetermineConfigurationWaits(h, bTimeout) ==
    IF h.uConfigKnown
    THEN DetermineAddress(Goto([h EXCEPT !.uAddressKnown = FALSE],
                               "DETERMINE_ADDRESS"), bTimeout)
    ELSE h

DetermineConfiguration(h, bTimeout) ==
    CASE h.uConfigKnown ->
            DetermineAddress(Goto([h EXCEPT !.uAddressKnown = FALSE],
                                  "DETERMINE_ADDRESS"), bTimeout)
      [] ~h.uConfigKnown /\ bTimeout -> Write(h, "CONFIG_REQUEST")
      [] ~h.uConfigKnown /\ ~bTimeout -> h

\* eJennicModulePing(0, NULL)
Ping(h) ==
    IF h.uSupportsPing /\ h.sLastPing > PingInterval
    THEN Write([h EXCEPT !.sLastPing = 0], "PING")
    ELSE h

StateMachine(h, bTimeout) ==
    CASE h.eModuleState = "IDLE"                    -> h
      [] h.eModuleState = "DETERMINE_VERSION"       -> DetermineVersion(h)
      [] h.eModuleState = "CONFIGURE_NETWORK"       -> ConfigureNetwork(h)
      [] h.eModuleState = "CONFIGURE_SECURITY"      -> ConfigureSecurity(h)
      [] h.eModuleState = "CONFIGURE_PROFILE"       -> ConfigureProfile(h)
      [] h.eModuleState = "START_MODULE"            -> StartModule(h)
      [] h.eModuleState = "CONFIGURE_FRONTEND"      -> ConfigureFrontend(h)
      [] h.eModuleState = "DETERMINE_CONFIGURATION" -> DetermineConfiguration(h, bTimeout)
      [] h.eModuleState = "DETERMINE_ADDRESS"       -> DetermineAddress(h, bTimeout)
      [] h.eModuleState = "ACTIVITY_LED"            -> ActivityLed(h)
      [] h.eModuleState = "RUNNING"                 -> Ping(h)

\* What it returns is E_MODULE_COMMS_FAILED.
CommsFailed(h) ==
    h.uVersionKnown /\ h.uSupportsPing /\ h.iLastSuccessfulComms > CommsLimit

\* eJennicModuleStart, with the prefix p.  It ends with a run of the state
\* machine, in a state where only the version matters.
Start(h, p) ==
    LET r == [Write(h, "RESET") EXCEPT
                 !.eModuleState = IF p THEN "DETERMINE_VERSION" ELSE "IDLE",
                 !.uVersionKnown = FALSE, !.uAddressKnown = FALSE,
                 !.uConfigKnown = FALSE, !.uSupportsPing = FALSE]
    IN IF p THEN RequestVersion(r) ELSE r

-----------------------------------------------------------------------------
(* eJennicModuleProcessMessage: what each message changes before the state *)
(* machine runs.                                                           *)

\* Faulty: the module is never asked to answer pings.
ProcessVersionUnwatched(h) ==
    [h EXCEPT !.u32JennicDeviceVersion = DeviceVersion, !.uVersionKnown = TRUE]

ProcessVersion(h) ==
    [h EXCEPT !.u32JennicDeviceVersion = DeviceVersion,
              !.uVersionKnown = TRUE,
              !.uSupportsPing = @ \/ DeviceVersion >= 11]

\* A CONFIG of three bytes is a version.
ProcessConfig(h, m) ==
    IF m = "CONFIG_VERSION"
    THEN ProcessVersion(h)
    ELSE [h EXCEPT !.uConfigKnown = @ \/ h.u32JennicDeviceVersion >= 11]

ProcessConfigRequest(h) == Goto(h, "CONFIGURE_NETWORK")

ProcessIPv6Address(h) == [h EXCEPT !.uAddressKnown = TRUE]

ProcessMessage(h, m) ==
    CASE m = "VERSION"        -> ProcessVersion(h)
      [] m \in {"CONFIG", "CONFIG_VERSION"} -> ProcessConfig(h, m)
      [] m = "ADDR"           -> ProcessIPv6Address(h)
      [] m = "CONFIG_REQUEST" -> ProcessConfigRequest(h)
      [] m = "PING"           -> h
      [] m = "IPV6"           -> h

-----------------------------------------------------------------------------
\* The messages written since the last reset, once tx is written after sent.
Since(tx, sent) ==
    LET Ran(I) == {tx[i] : i \in I}
    IN IF "RESET" \in Ran(DOMAIN tx)
       THEN Ran({i \in DOMAIN tx : \A k \in i .. Len(tx) : tx[k] # "RESET"})
       ELSE sent \cup Ran(DOMAIN tx)

\* What a call left in tx goes on the line; sent was written before.
Transmit(h, sent) ==
    /\ host' = [h EXCEPT !.tx = <<>>]
    /\ toModule' = toModule \o h.tx
    /\ sinceReset' = Since(h.tx, sent)

Init ==
    LET boot == [eModuleState |-> "IDLE", uVersionKnown |-> FALSE,
                 uAddressKnown |-> FALSE, uConfigKnown |-> FALSE,
                 uSupportsPing |-> FALSE, u32JennicDeviceVersion |-> 0,
                 u32Retries |-> 0, iLastSuccessfulComms |-> 0,
                 sLastPing |-> 0, tx |-> <<>>]
    IN /\ prefixSet \in BOOLEAN
       /\ LET h == Start(boot, prefixSet) IN
             /\ host = [h EXCEPT !.tx = <<>>]
             /\ toModule = h.tx
       /\ fromModule = <<>>
       /\ module \in {"fresh", "up"} /\ alive = TRUE
       /\ events = 0
       /\ sinceReset = IF prefixSet THEN {"VERSION_REQUEST"} ELSE {}

Older(age, limit) == IF age > limit THEN age ELSE age + 1

\* The host writes at line speed: what it wrote is out before the next tick.
Tick ==
    /\ toModule = <<>>
    /\ Prompt => fromModule = <<>> /\ (alive => module # "starting")
    /\ LET h == [host EXCEPT
                    !.iLastSuccessfulComms = Older(@, CommsLimit),
                    !.sLastPing = Older(@, PingInterval)]
           r == StateMachine(h, TRUE)
           e == IF CommsFailed(r) THEN Start(r, prefixSet) ELSE r
       IN Transmit(e, sinceReset)
    /\ UNCHANGED <<prefixSet, fromModule, envVars, events>>

\* What counts as written to the module when the host processes m from it.
Counted(m) == IF m = "CONFIG_REQUEST" THEN {} ELSE sinceReset

Receive ==
    /\ fromModule # <<>> /\ Len(toModule) < MaxQueue
    /\ fromModule' = Tail(fromModule)
    /\ LET m == Head(fromModule)
           h == [ProcessMessage(host, m) EXCEPT !.iLastSuccessfulComms = 0]
           r == StateMachine(h, FALSE)
       IN Transmit(r, Counted(m))
    /\ UNCHANGED <<prefixSet, envVars, events>>

Event ==
    /\ events < MaxEvents
    /\ events' = events + 1

\* COMMAND_SET_HOST_DATA and COMMAND_CLEAR_RAM from a client, and the
\* console's '0': the configuration may change, the module is started again.
Reconfigure ==
    /\ Event
    /\ Len(toModule) < MaxQueue
    /\ prefixSet' \in BOOLEAN
    /\ Transmit(Start(host, prefixSet'), sinceReset)
    /\ UNCHANGED <<fromModule, envVars>>

-----------------------------------------------------------------------------
(* The radio module and the line.                                          *)

Answers(m) ==
    CASE m = "VERSION_REQUEST"                    -> {<<"VERSION">>}
      [] m = "CONFIG"                             -> {<<>>, <<"CONFIG_VERSION">>}
      [] m = "CONFIG_REQUEST" /\ module = "up"    -> {<<"CONFIG">>}
      [] m = "ADDR" /\ module = "up"              -> {<<"ADDR">>}
      [] m = "PING"                               -> {<<"PING">>}
      [] OTHER                                    -> {<<>>}

ModuleHandles ==
    /\ toModule # <<>>
    /\ toModule' = Tail(toModule)
    /\ LET m == Head(toModule) IN
       IF alive
       THEN /\ Len(fromModule) < MaxQueue
            /\ \E a \in Answers(m) : fromModule' = fromModule \o a
            /\ module' = CASE m = "RESET" -> "fresh"
                           [] m = "CONFIG" /\ module = "fresh" -> "configured"
                           [] m = "RUN_COORDINATOR" /\ module = "configured" -> "starting"
                           [] OTHER -> module
       ELSE UNCHANGED <<fromModule, module>>
    /\ UNCHANGED <<host, prefixSet, alive, events, sinceReset>>

NetworkUp ==
    /\ alive /\ module = "starting"
    /\ module' = "up"
    /\ UNCHANGED <<host, prefixSet, toModule, fromModule, alive, events, sinceReset>>

ModuleReboots ==
    /\ Event
    /\ alive /\ Len(fromModule) < MaxQueue
    /\ module' = "fresh"
    /\ fromModule' = Append(fromModule, "CONFIG_REQUEST")
    /\ UNCHANGED <<host, prefixSet, toModule, alive, sinceReset>>

\* Traffic of the lamps.
ModuleTalks ==
    /\ Event
    /\ alive /\ module = "up" /\ Len(fromModule) < MaxQueue
    /\ fromModule' = Append(fromModule, "IPV6")
    /\ UNCHANGED <<host, prefixSet, toModule, module, alive, sinceReset>>

ModuleDies ==
    /\ alive
    /\ alive' = FALSE
    /\ UNCHANGED <<host, prefixSet, toModule, fromModule, module, events, sinceReset>>

LoseToModule ==
    /\ Event
    /\ toModule # <<>>
    /\ toModule' = Tail(toModule)
    /\ UNCHANGED <<host, prefixSet, fromModule, envVars, sinceReset>>

LoseFromModule ==
    /\ Event
    /\ fromModule # <<>>
    /\ fromModule' = Tail(fromModule)
    /\ UNCHANGED <<host, prefixSet, toModule, envVars, sinceReset>>

Next ==
    \/ Tick \/ Receive \/ Reconfigure
    \/ ModuleHandles \/ NetworkUp
    \/ ModuleReboots \/ ModuleTalks \/ ModuleDies
    \/ LoseToModule \/ LoseFromModule

Spec == Init /\ [][Next]_vars

\* Time passes, the main loop empties the receive ring, a living module
\* handles what it receives and forms its network.
Fairness ==
    /\ WF_vars(Tick) /\ WF_vars(Receive)
    /\ WF_vars(ModuleHandles) /\ WF_vars(NetworkUp)

FairSpec == Spec /\ Fairness

-----------------------------------------------------------------------------
HostType ==
    [eModuleState : States \ {"ACTIVITY_LED"},
     uVersionKnown : BOOLEAN, uAddressKnown : BOOLEAN,
     uConfigKnown : BOOLEAN, uSupportsPing : BOOLEAN,
     u32JennicDeviceVersion : {0, DeviceVersion},
     u32Retries : Nat, iLastSuccessfulComms : 0 .. CommsLimit + 1,
     sLastPing : 0 .. PingInterval + 1, tx : Seq(Requests)]

\* Type invariant.
TypeOK ==
    /\ host \in HostType /\ host.tx = <<>>
    /\ prefixSet \in BOOLEAN /\ alive \in BOOLEAN
    /\ module \in {"fresh", "configured", "starting", "up"}
    /\ events \in 0 .. MaxEvents

\* The host reports RUNNING, and lets commands to the lamps through, only
\* while it knows the version and the address of the module: in whatever
\* order answers, resets and requests for the configuration arrive.
RunningIsIdentified ==
    host.eModuleState = "RUNNING" =>
        host.uVersionKnown /\ host.uAddressKnown /\ host.uConfigKnown

\* Between a RESET or a request for the configuration and the RUN_COORDINATOR
\* after it, the configuration, and the security when there is one, have
\* always been written again.
RunsConfigured ==
    "RUN_COORDINATOR" \in sinceReset =>
        "CONFIG" \in sinceReset /\ (AuthScheme => "SECURITY" \in sinceReset)

\* A dead module does not stay unnoticed: the host leaves RUNNING for good.
DeadModuleNoticed == ~alive ~> [](host.eModuleState # "RUNNING")

\* Once losses, reboots and reconfigurations are over, a living module and a
\* configured host come to RUNNING and stay there.
ComesUp == <>[](alive /\ prefixSet) => <>[](host.eModuleState = "RUNNING")
=============================================================================
