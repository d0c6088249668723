------------------------- MODULE JennicModuleProofs -------------------------
(* A RUNNING host has identified its module, and the host never starts the *)
(* network of a module it has not configured since the last reset: for     *)
(* every module version, every retry and time limit and every order of     *)
(* messages.                                                               *)
EXTENDS JennicModule, TLAPS

\* From the state that writes the security on, the version is known and is one
\* the host can configure.
Configuring ==
    {"CONFIGURE_SECURITY", "CONFIGURE_PROFILE", "START_MODULE",
     "CONFIGURE_FRONTEND", "DETERMINE_CONFIGURATION", "DETERMINE_ADDRESS",
     "RUNNING"}

\* What the state of the machine says of the flags, between two calls of it.
Known(h) ==
    /\ h.eModuleState \in Configuring =>
          h.uVersionKnown /\ h.u32JennicDeviceVersion >= 11
    /\ h.eModuleState \in {"DETERMINE_ADDRESS", "RUNNING"} => h.uConfigKnown
    /\ h.eModuleState = "RUNNING" => h.uAddressKnown

\* The messages the host can receive.
FromModule == {"VERSION", "CONFIG_VERSION", "CONFIG", "ADDR",
               "CONFIG_REQUEST", "PING", "IPV6"}

IInv ==
    /\ TypeOK
    /\ Known(host)
    /\ fromModule \in Seq(FromModule)

-----------------------------------------------------------------------------
\* Writing a message, and entering a state, leave the other fields alone.
LEMMA WriteFacts ==
    ASSUME NEW h \in HostType, NEW m \in Requests
    PROVE  /\ Write(h, m) \in HostType
           /\ Write(h, m).eModuleState = h.eModuleState
           /\ Known(h) => Known(Write(h, m))
           /\ Write(h, m).u32JennicDeviceVersion = h.u32JennicDeviceVersion
           /\ Write(h, m).uVersionKnown = h.uVersionKnown
           /\ Write(h, m).uConfigKnown = h.uConfigKnown
<1>1. Append(h.tx, m) \in Seq(Requests)
  BY DEF HostType
<1>2. Write(h, m) \in HostType
  BY <1>1 DEF Write, HostType
<1>3. Known(h) => Known(Write(h, m))
  BY DEF Known, Write, HostType
<1>4. /\ Write(h, m).eModuleState = h.eModuleState
      /\ Write(h, m).u32JennicDeviceVersion = h.u32JennicDeviceVersion
      /\ Write(h, m).uVersionKnown = h.uVersionKnown
      /\ Write(h, m).uConfigKnown = h.uConfigKnown
  BY DEF Write, HostType
<1> QED BY <1>2, <1>3, <1>4

LEMMA GotoFacts ==
    ASSUME NEW h \in HostType, NEW s \in States \ {"ACTIVITY_LED"}
    PROVE  /\ Goto(h, s) \in HostType
           /\ Goto(h, s).eModuleState = s
           /\ Goto(h, s).uVersionKnown = h.uVersionKnown
           /\ Goto(h, s).uConfigKnown = h.uConfigKnown
           /\ Goto(h, s).uAddressKnown = h.uAddressKnown
           /\ Goto(h, s).u32JennicDeviceVersion = h.u32JennicDeviceVersion
<1>1. Goto(h, s) \in HostType
  BY DEF Goto, HostType
<1>2. QED
  BY <1>1 DEF Goto, HostType

\* Counting retries changes nothing the states depend on.
LEMMA RetriesFacts ==
    ASSUME NEW h \in HostType, NEW n \in Nat
    PROVE  /\ [h EXCEPT !.u32Retries = n] \in HostType
           /\ [h EXCEPT !.u32Retries = n].eModuleState = h.eModuleState
           /\ [h EXCEPT !.u32Retries = n].uVersionKnown = h.uVersionKnown
           /\ [h EXCEPT !.u32Retries = n].uAddressKnown = h.uAddressKnown
           /\ Known(h) => Known([h EXCEPT !.u32Retries = n])
<1>1. [h EXCEPT !.u32Retries = n] \in HostType
  BY DEF HostType
<1>2. Known(h) => Known([h EXCEPT !.u32Retries = n])
  BY DEF Known, HostType
<1> QED BY <1>1, <1>2 DEF HostType

\* So does forgetting the address, before RUNNING.
LEMMA ForgetAddressFacts ==
    ASSUME NEW h \in HostType
    PROVE  /\ [h EXCEPT !.uAddressKnown = FALSE] \in HostType
           /\ [h EXCEPT !.uAddressKnown = FALSE].eModuleState = h.eModuleState
           /\ [h EXCEPT !.uAddressKnown = FALSE].uVersionKnown = h.uVersionKnown
           /\ [h EXCEPT !.uAddressKnown = FALSE].uConfigKnown = h.uConfigKnown
           /\ [h EXCEPT !.uAddressKnown = FALSE].u32JennicDeviceVersion
                 = h.u32JennicDeviceVersion
           /\ Known(h) /\ h.eModuleState # "RUNNING" =>
                 Known([h EXCEPT !.uAddressKnown = FALSE])
<1>1. [h EXCEPT !.uAddressKnown = FALSE] \in HostType
  BY DEF HostType
<1>2. Known(h) /\ h.eModuleState # "RUNNING" =>
         Known([h EXCEPT !.uAddressKnown = FALSE])
  BY DEF Known, HostType
<1> QED BY <1>1, <1>2 DEF HostType

-----------------------------------------------------------------------------
(* The cases of the state machine.                                         *)

LEMMA RequestVersionInv ==
    ASSUME NEW h \in HostType, h.eModuleState \notin Configuring
    PROVE  RequestVersion(h) \in HostType /\ Known(RequestVersion(h))
<1> DEFINE a == [h EXCEPT !.u32Retries = @ + 1]
           b == [h EXCEPT !.u32Retries = 0]
<1>0. h.u32Retries + 1 \in Nat /\ 0 \in Nat
  BY DEF HostType
<1>1. a \in HostType /\ a.eModuleState = h.eModuleState
  BY <1>0, RetriesFacts
<1>2. b \in HostType /\ b.eModuleState = h.eModuleState
  BY <1>0, RetriesFacts
<1> HIDE DEF a, b
<1>3. "VERSION_REQUEST" \in Requests
  BY DEF Requests
<1>4. /\ Write(a, "VERSION_REQUEST") \in HostType
      /\ Write(a, "VERSION_REQUEST").eModuleState = h.eModuleState
  BY <1>1, <1>3, WriteFacts
<1>5. Known(b) /\ Known(Write(a, "VERSION_REQUEST"))
  BY <1>2, <1>4 DEF Known, Configuring
<1> QED BY <1>2, <1>4, <1>5 DEF RequestVersion, a, b

LEMMA ConfigureNetworkInv ==
    ASSUME NEW h \in HostType
    PROVE  ConfigureNetwork(h) \in HostType /\ Known(ConfigureNetwork(h))
<1>1. /\ Goto(h, "IDLE") \in HostType
      /\ Known(Goto(h, "IDLE"))
  <2>1. /\ Goto(h, "IDLE") \in HostType
        /\ Goto(h, "IDLE").eModuleState = "IDLE"
    BY GotoFacts DEF States
  <2> QED BY <2>1 DEF Known, Configuring
<1>2. /\ Goto(h, "DETERMINE_VERSION") \in HostType
      /\ Known(Goto(h, "DETERMINE_VERSION"))
  <2>1. /\ Goto(h, "DETERMINE_VERSION") \in HostType
        /\ Goto(h, "DETERMINE_VERSION").eModuleState = "DETERMINE_VERSION"
    BY GotoFacts DEF States
  <2> QED BY <2>1 DEF Known, Configuring
<1>3. CanConfigure(h) =>
         /\ Goto(Write(h, "CONFIG"), "CONFIGURE_SECURITY") \in HostType
         /\ Known(Goto(Write(h, "CONFIG"), "CONFIGURE_SECURITY"))
  <2>1. /\ Write(h, "CONFIG") \in HostType
        /\ Write(h, "CONFIG").uVersionKnown = h.uVersionKnown
        /\ Write(h, "CONFIG").u32JennicDeviceVersion = h.u32JennicDeviceVersion
    BY WriteFacts DEF Requests
  <2> QED BY <2>1, GotoFacts DEF States, Known, CanConfigure
<1>4. CASE ~prefixSet
  BY <1>1, <1>4 DEF ConfigureNetwork
<1>5. CASE prefixSet /\ CanConfigure(h)
  BY <1>3, <1>5 DEF ConfigureNetwork
<1>6. CASE prefixSet /\ ~CanConfigure(h)
  BY <1>2, <1>6 DEF ConfigureNetwork
<1> QED BY <1>4, <1>5, <1>6

LEMMA DetermineVersionInv ==
    ASSUME NEW h \in HostType, h.eModuleState = "DETERMINE_VERSION"
    PROVE  DetermineVersion(h) \in HostType /\ Known(DetermineVersion(h))
<1> DEFINE g == Goto([h EXCEPT !.u32Retries = 0], "CONFIGURE_NETWORK")
<1>1. g \in HostType
  BY RetriesFacts, GotoFacts DEF States
<1>2. ConfigureNetwork(g) \in HostType /\ Known(ConfigureNetwork(g))
  BY <1>1, ConfigureNetworkInv
<1>3. RequestVersion(h) \in HostType /\ Known(RequestVersion(h))
  BY RequestVersionInv DEF Configuring
<1> QED BY <1>2, <1>3 DEF DetermineVersion

LEMMA ConfigureSecurityInv ==
    ASSUME NEW h \in HostType, Known(h), h.eModuleState = "CONFIGURE_SECURITY"
    PROVE  ConfigureSecurity(h) \in HostType /\ Known(ConfigureSecurity(h))
<1> DEFINE w == IF AuthScheme THEN Write(h, "SECURITY") ELSE h
<1>1. h.uVersionKnown /\ h.u32JennicDeviceVersion >= 11
  BY DEF Known, Configuring
<1>2. /\ w \in HostType /\ w.uVersionKnown
      /\ w.u32JennicDeviceVersion = h.u32JennicDeviceVersion
  BY <1>1, WriteFacts DEF Requests
<1> HIDE DEF w
<1>3. /\ Goto(w, "CONFIGURE_PROFILE") \in HostType
      /\ Known(Goto(w, "CONFIGURE_PROFILE"))
  BY <1>1, <1>2, GotoFacts DEF States, Known
<1> QED BY <1>1, <1>3 DEF ConfigureSecurity, w

LEMMA ConfigureProfileInv ==
    ASSUME NEW h \in HostType, Known(h), h.eModuleState = "CONFIGURE_PROFILE"
    PROVE  ConfigureProfile(h) \in HostType /\ Known(ConfigureProfile(h))
<1> DEFINE w == Write(h, "PROFILE")
<1>1. h.uVersionKnown /\ h.u32JennicDeviceVersion >= 11
  BY DEF Known, Configuring
<1>2. /\ w \in HostType /\ w.uVersionKnown
      /\ w.u32JennicDeviceVersion = h.u32JennicDeviceVersion
  BY <1>1, WriteFacts DEF Requests
<1>3. Goto(w, "START_MODULE") \in HostType /\ Known(Goto(w, "START_MODULE"))
  BY <1>1, <1>2, GotoFacts DEF States, Known
<1> QED BY <1>1, <1>3 DEF ConfigureProfile

LEMMA StartModuleInv ==
    ASSUME NEW h \in HostType, Known(h), h.eModuleState = "START_MODULE"
    PROVE  StartModule(h) \in HostType /\ Known(StartModule(h))
<1> DEFINE r == Write(h, "RUN_COORDINATOR")
<1>1. h.uVersionKnown /\ h.u32JennicDeviceVersion >= 11
  BY DEF Known, Configuring
<1>2. /\ r \in HostType /\ r.uVersionKnown
      /\ r.u32JennicDeviceVersion = h.u32JennicDeviceVersion
  BY <1>1, WriteFacts DEF Requests
<1>3. /\ Goto(r, "CONFIGURE_FRONTEND") \in HostType
      /\ Known(Goto(r, "CONFIGURE_FRONTEND"))
  BY <1>1, <1>2, GotoFacts DEF States, Known
<1>4. /\ Goto(r, "DETERMINE_CONFIGURATION") \in HostType
      /\ Known(Goto(r, "DETERMINE_CONFIGURATION"))
  BY <1>1, <1>2, GotoFacts DEF States, Known
<1>5. h.u32JennicDeviceVersion \in {0, 10, 11, 13, 14}
  BY ModuleAssumption DEF HostType
<1>6. CASE h.u32JennicDeviceVersion >= 14
  BY <1>3, <1>5, <1>6 DEF StartModule
<1>7. CASE h.u32JennicDeviceVersion < 14
  <2>1. /\ h.u32JennicDeviceVersion \in 11 .. 13
        /\ ~(h.u32JennicDeviceVersion >= 14)
        /\ ~(h.u32JennicDeviceVersion < 11)
    BY <1>1, <1>5, <1>7
  <2> QED BY <2>1, <1>4 DEF StartModule
<1> QED BY <1>5, <1>6, <1>7

LEMMA ConfigureFrontendInv ==
    ASSUME NEW h \in HostType, Known(h), h.eModuleState = "CONFIGURE_FRONTEND"
    PROVE  ConfigureFrontend(h) \in HostType /\ Known(ConfigureFrontend(h))
<1> DEFINE f == IF h.u32JennicDeviceVersion >= 14
                THEN Write(h, "SET_RADIO_FRONTEND") ELSE h
           d == IF h.u32JennicDeviceVersion >= 14 /\ Diversity
                THEN Write(f, "ENABLE_DIVERSITY") ELSE f
<1>1. h.uVersionKnown /\ h.u32JennicDeviceVersion >= 11
  BY DEF Known, Configuring
<1>2. /\ f \in HostType /\ f.uVersionKnown
      /\ f.u32JennicDeviceVersion = h.u32JennicDeviceVersion
  BY <1>1, WriteFacts DEF Requests
<1>3. /\ d \in HostType /\ d.uVersionKnown
      /\ d.u32JennicDeviceVersion = h.u32JennicDeviceVersion
  BY <1>2, WriteFacts DEF Requests
<1> HIDE DEF d
<1>4. /\ Goto(d, "DETERMINE_CONFIGURATION") \in HostType
      /\ Known(Goto(d, "DETERMINE_CONFIGURATION"))
  BY <1>1, <1>3, GotoFacts DEF States, Known
<1> QED BY <1>4 DEF ConfigureFrontend, d


LEMMA DetermineAddressInv ==
    ASSUME NEW h \in HostType, Known(h), h.eModuleState = "DETERMINE_ADDRESS",
           NEW b \in BOOLEAN
    PROVE  DetermineAddress(h, b) \in HostType /\ Known(DetermineAddress(h, b))
<1> DEFINE z == [h EXCEPT !.u32Retries = 0]
           r == [h EXCEPT !.u32Retries = @ + 1]
<1>1. CASE h.uAddressKnown
  <2>1. /\ h.uVersionKnown /\ h.u32JennicDeviceVersion >= 11 /\ h.uConfigKnown
    BY DEF Known, Configuring
  <2>2. z \in HostType /\ Known(z) /\ z.uVersionKnown /\ z.uAddressKnown
    BY <1>1, <2>1, RetriesFacts
  <2>3. z.u32JennicDeviceVersion >= 11 /\ z.uConfigKnown
    BY <2>1 DEF HostType
  <2>4. Goto(z, "RUNNING") \in HostType /\ Known(Goto(z, "RUNNING"))
    BY <2>2, <2>3, GotoFacts DEF States, Known
  <2> QED BY <1>1, <2>4 DEF DetermineAddress, ActivityLed
<1>2. CASE ~h.uAddressKnown /\ ~b
  BY <1>2 DEF DetermineAddress
<1>3. CASE ~h.uAddressKnown /\ b
  <2>1. h.u32Retries + 1 \in Nat
    BY DEF HostType
  <2>2. r \in HostType /\ Known(r) /\ r.eModuleState = "DETERMINE_ADDRESS"
    BY <2>1, RetriesFacts
  <2>3. RequestAddress(r) \in HostType /\ Known(RequestAddress(r))
    BY <2>2, ForgetAddressFacts, WriteFacts DEF RequestAddress, Requests
  <2>4. /\ Goto(r, "DETERMINE_VERSION") \in HostType
        /\ Known(Goto(r, "DETERMINE_VERSION"))
    BY <2>2, GotoFacts DEF States, Known, Configuring
  <2>5. /\ Write(Goto(r, "DETERMINE_VERSION"), "RESET") \in HostType
        /\ Known(Write(Goto(r, "DETERMINE_VERSION"), "RESET"))
    BY <2>4, WriteFacts DEF Requests
  <2> QED BY <1>3, <2>3, <2>5 DEF DetermineAddress
<1>4. h.uAddressKnown \in BOOLEAN
  BY DEF HostType
<1> QED BY <1>1, <1>2, <1>3, <1>4

LEMMA DetermineConfigurationInv ==
    ASSUME NEW h \in HostType, Known(h),
           h.eModuleState = "DETERMINE_CONFIGURATION", NEW b \in BOOLEAN
    PROVE  /\ DetermineConfiguration(h, b) \in HostType
           /\ Known(DetermineConfiguration(h, b))
<1>1. CASE h.uConfigKnown
  <2> DEFINE a == [h EXCEPT !.uAddressKnown = FALSE]
             g == Goto(a, "DETERMINE_ADDRESS")
  <2>1. h.uVersionKnown /\ h.u32JennicDeviceVersion >= 11
    BY DEF Known, Configuring
  <2>2. /\ a \in HostType /\ a.uVersionKnown /\ a.uConfigKnown
        /\ a.u32JennicDeviceVersion >= 11
    BY <1>1, <2>1, ForgetAddressFacts
  <2>3. g \in HostType /\ Known(g) /\ g.eModuleState = "DETERMINE_ADDRESS"
    BY <2>2, GotoFacts DEF States, Known
  <2>4. DetermineAddress(g, b) \in HostType /\ Known(DetermineAddress(g, b))
    BY <2>3, DetermineAddressInv
  <2> QED BY <1>1, <2>4 DEF DetermineConfiguration
<1>2. CASE ~h.uConfigKnown /\ b
  BY <1>2, WriteFacts DEF DetermineConfiguration, Requests
<1>3. CASE ~h.uConfigKnown /\ ~b
  BY <1>3 DEF DetermineConfiguration
<1> QED BY <1>1, <1>2, <1>3

LEMMA PingInv ==
    ASSUME NEW h \in HostType, Known(h)
    PROVE  Ping(h) \in HostType /\ Known(Ping(h))
<1> DEFINE s == [h EXCEPT !.sLastPing = 0]
<1>1. 0 \in 0 .. PingInterval + 1
  BY ModuleAssumption DEF ModuleAssumption
<1>2. s \in HostType
  BY <1>1 DEF HostType
<1>3. Known(s)
  BY DEF Known, HostType
<1> QED BY <1>2, <1>3, WriteFacts DEF Ping, Requests

\* A run of the state machine, on a tick or after a message.
LEMMA StateMachineInv ==
    ASSUME NEW h \in HostType, Known(h), NEW b \in BOOLEAN
    PROVE  StateMachine(h, b) \in HostType /\ Known(StateMachine(h, b))
<1>1. CASE h.eModuleState = "IDLE"
  BY <1>1 DEF StateMachine
<1>2. CASE h.eModuleState = "DETERMINE_VERSION"
  BY <1>2, DetermineVersionInv DEF StateMachine
<1>3. CASE h.eModuleState = "CONFIGURE_NETWORK"
  BY <1>3, ConfigureNetworkInv DEF StateMachine
<1>4. CASE h.eModuleState = "CONFIGURE_SECURITY"
  BY <1>4, ConfigureSecurityInv DEF StateMachine
<1>5. CASE h.eModuleState = "CONFIGURE_PROFILE"
  BY <1>5, ConfigureProfileInv DEF StateMachine
<1>6. CASE h.eModuleState = "START_MODULE"
  BY <1>6, StartModuleInv DEF StateMachine
<1>7. CASE h.eModuleState = "CONFIGURE_FRONTEND"
  BY <1>7, ConfigureFrontendInv DEF StateMachine
<1>8. CASE h.eModuleState = "DETERMINE_CONFIGURATION"
  BY <1>8, DetermineConfigurationInv DEF StateMachine
<1>9. CASE h.eModuleState = "DETERMINE_ADDRESS"
  BY <1>9, DetermineAddressInv DEF StateMachine
<1>10. CASE h.eModuleState = "RUNNING"
  BY <1>10, PingInv DEF StateMachine
<1>11. h.eModuleState \in States \ {"ACTIVITY_LED"}
  BY DEF HostType
<1> QED
  BY <1>1, <1>2, <1>3, <1>4, <1>5, <1>6, <1>7, <1>8, <1>9, <1>10, <1>11
     DEF States

\* eJennicModuleStart forgets the module.
LEMMA StartInv ==
    ASSUME NEW h \in HostType, NEW p \in BOOLEAN
    PROVE  Start(h, p) \in HostType /\ Known(Start(h, p))
<1> DEFINE w == Write(h, "RESET")
           r == [w EXCEPT
                   !.eModuleState = IF p THEN "DETERMINE_VERSION" ELSE "IDLE",
                   !.uVersionKnown = FALSE, !.uAddressKnown = FALSE,
                   !.uConfigKnown = FALSE, !.uSupportsPing = FALSE]
<1>1. w \in HostType
  BY WriteFacts DEF Requests
<1>2. (IF p THEN "DETERMINE_VERSION" ELSE "IDLE") \in States \ {"ACTIVITY_LED"}
  BY DEF States
<1>3. r \in HostType
  BY <1>1, <1>2 DEF HostType
<1>4. r.eModuleState = IF p THEN "DETERMINE_VERSION" ELSE "IDLE"
  BY <1>1 DEF HostType
<1>5. r.eModuleState \notin Configuring
  BY <1>4 DEF Configuring
<1>6. RequestVersion(r) \in HostType /\ Known(RequestVersion(r))
  BY <1>3, <1>5, RequestVersionInv
<1>7. Known(r)
  BY <1>5 DEF Known, Configuring
<1> HIDE DEF w, r
<1>8. Start(h, p) = IF p THEN RequestVersion(r) ELSE r
  BY DEF Start, w, r
<1> QED BY <1>3, <1>6, <1>7, <1>8

\* A message answers the version, the configuration or the address, or sends
\* the machine back to CONFIGURE_NETWORK; it does not forget.
LEMMA ProcessVersionInv ==
    ASSUME NEW h \in HostType, Known(h)
    PROVE  ProcessVersion(h) \in HostType /\ Known(ProcessVersion(h))
<1> DEFINE p == h.uSupportsPing \/ DeviceVersion >= 11
<1>1. p \in BOOLEAN
  OBVIOUS
<1>2. DeviceVersion \in {0, DeviceVersion}
  OBVIOUS
<1>3. ProcessVersion(h) \in HostType
  BY <1>1, <1>2 DEF ProcessVersion, HostType
<1>4. /\ ProcessVersion(h).eModuleState = h.eModuleState
      /\ ProcessVersion(h).uVersionKnown = TRUE
      /\ ProcessVersion(h).uConfigKnown = h.uConfigKnown
      /\ ProcessVersion(h).uAddressKnown = h.uAddressKnown
      /\ ProcessVersion(h).u32JennicDeviceVersion = DeviceVersion
  BY DEF ProcessVersion, HostType
<1>5. h.u32JennicDeviceVersion >= 11 => DeviceVersion >= 11
  BY ModuleAssumption DEF ModuleAssumption, HostType
<1> QED BY <1>3, <1>4, <1>5 DEF Known


LEMMA ProcessMessageInv ==
    ASSUME NEW h \in HostType, Known(h), NEW m \in FromModule
    PROVE  ProcessMessage(h, m) \in HostType /\ Known(ProcessMessage(h, m))
<1>1. CASE m \in {"VERSION", "CONFIG_VERSION"}
  BY <1>1, ProcessVersionInv DEF ProcessMessage, ProcessConfig
<1>2. CASE m = "CONFIG"
  <2> DEFINE c == [h EXCEPT !.uConfigKnown = @ \/ h.u32JennicDeviceVersion >= 11]
  <2>1. (h.uConfigKnown \/ h.u32JennicDeviceVersion >= 11) \in BOOLEAN
    BY DEF HostType
  <2>2. c \in HostType
    BY <2>1 DEF HostType
  <2>3. /\ c.eModuleState = h.eModuleState
        /\ c.uVersionKnown = h.uVersionKnown
        /\ c.uAddressKnown = h.uAddressKnown
        /\ c.u32JennicDeviceVersion = h.u32JennicDeviceVersion
        /\ h.uConfigKnown => c.uConfigKnown
    BY DEF HostType
  <2>4. Known(c)
    BY <2>3 DEF Known
  <2> QED BY <1>2, <2>2, <2>4 DEF ProcessMessage, ProcessConfig
<1>3. CASE m = "ADDR"
  <2> DEFINE c == [h EXCEPT !.uAddressKnown = TRUE]
  <2>1. c \in HostType
    BY DEF HostType
  <2>2. Known(c)
    BY DEF Known, HostType
  <2> QED BY <1>3, <2>1, <2>2 DEF ProcessMessage, ProcessIPv6Address
<1>4. CASE m = "CONFIG_REQUEST"
  <2>1. /\ Goto(h, "CONFIGURE_NETWORK") \in HostType
        /\ Known(Goto(h, "CONFIGURE_NETWORK"))
    BY GotoFacts DEF States, Known, Configuring
  <2> QED BY <1>4, <2>1 DEF ProcessMessage, ProcessConfigRequest
<1>5. CASE m \in {"PING", "IPV6"}
  BY <1>5 DEF ProcessMessage
<1> QED BY <1>1, <1>2, <1>3, <1>4, <1>5 DEF FromModule

\* The clocks and the transmit buffer are no part of Known.
LEMMA ClockFacts ==
    ASSUME NEW h \in HostType, Known(h),
           NEW c \in 0 .. CommsLimit + 1, NEW p \in 0 .. PingInterval + 1
    PROVE  LET g == [h EXCEPT !.iLastSuccessfulComms = c, !.sLastPing = p]
               a == [h EXCEPT !.iLastSuccessfulComms = c]
           IN  g \in HostType /\ Known(g) /\ a \in HostType /\ Known(a)
<1> DEFINE g == [h EXCEPT !.iLastSuccessfulComms = c, !.sLastPing = p]
           a == [h EXCEPT !.iLastSuccessfulComms = c]
<1>1. g \in HostType
  BY DEF HostType
<1>2. Known(g)
  BY DEF HostType, Known
<1>3. a \in HostType
  BY DEF HostType
<1>4. Known(a)
  BY DEF HostType, Known
<1> QED BY <1>1, <1>2, <1>3, <1>4

LEMMA SentFacts ==
    ASSUME NEW h \in HostType, Known(h)
    PROVE  LET s == [h EXCEPT !.tx = <<>>]
           IN  s \in HostType /\ Known(s) /\ s.tx = <<>>
<1> DEFINE s == [h EXCEPT !.tx = <<>>]
<1>1. s \in HostType
  <2>1. <<>> \in Seq(Requests)
    OBVIOUS
  <2> QED BY <2>1 DEF HostType
<1>2. Known(s)
  BY DEF HostType, Known
<1>3. s.tx = <<>>
  BY DEF HostType
<1> QED BY <1>1, <1>2, <1>3

-----------------------------------------------------------------------------
(* The three facts of the invariance argument.                             *)

LEMMA InitInv == Init => IInv
<1> SUFFICES ASSUME Init PROVE IInv
  OBVIOUS
<1> DEFINE boot == [eModuleState |-> "IDLE", uVersionKnown |-> FALSE,
                    uAddressKnown |-> FALSE, uConfigKnown |-> FALSE,
                    uSupportsPing |-> FALSE, u32JennicDeviceVersion |-> 0,
                    u32Retries |-> 0, iLastSuccessfulComms |-> 0,
                    sLastPing |-> 0, tx |-> <<>>]
           h == Start(boot, prefixSet)
<1>1. prefixSet \in BOOLEAN
  BY DEF Init
<1>2. /\ 0 \in 0 .. CommsLimit + 1 /\ 0 \in 0 .. PingInterval + 1
      /\ 0 \in 0 .. MaxEvents
  BY ModuleAssumption DEF ModuleAssumption
<1>3. boot \in HostType
  BY <1>2 DEF HostType, States
<1> HIDE DEF boot
<1>4. h \in HostType /\ Known(h)
  BY <1>1, <1>3, StartInv
<1>5. host = [h EXCEPT !.tx = <<>>]
  BY DEF Init, boot
<1> HIDE DEF h
<1>6. host \in HostType /\ Known(host) /\ host.tx = <<>>
  BY <1>4, <1>5, SentFacts
<1>7. fromModule = <<>> /\ alive = TRUE /\ events = 0
  BY DEF Init
<1>8. module \in {"fresh", "configured", "starting", "up"}
  BY DEF Init
<1>9. fromModule \in Seq(FromModule)
  BY <1>7
<1> QED BY <1>1, <1>2, <1>6, <1>7, <1>8, <1>9 DEF IInv, TypeOK

LEMMA TickInv == IInv /\ Tick => IInv'
<1> SUFFICES ASSUME IInv, Tick PROVE IInv'
  OBVIOUS
<1> DEFINE c == Older(host.iLastSuccessfulComms, CommsLimit)
           p == Older(host.sLastPing, PingInterval)
           h == [host EXCEPT !.iLastSuccessfulComms = Older(@, CommsLimit),
                             !.sLastPing = Older(@, PingInterval)]
           r == StateMachine(h, TRUE)
           e == IF CommsFailed(r) THEN Start(r, prefixSet) ELSE r
<1>1. host \in HostType /\ Known(host) /\ prefixSet \in BOOLEAN
  BY DEF IInv, TypeOK
<1>2. c \in 0 .. CommsLimit + 1 /\ p \in 0 .. PingInterval + 1
  BY <1>1, ModuleAssumption DEF ModuleAssumption, HostType, Older
<1>3. h \in HostType /\ Known(h)
  BY <1>1, <1>2, ClockFacts
<1> HIDE DEF h
<1>4. r \in HostType /\ Known(r)
  BY <1>3, StateMachineInv
<1> HIDE DEF r
<1>5. e \in HostType /\ Known(e)
  BY <1>1, <1>4, StartInv
<1>6. Transmit(e, sinceReset) /\ UNCHANGED <<prefixSet, fromModule, envVars, events>>
  BY DEF Tick, h, r
<1> HIDE DEF e
<1>7. host' \in HostType /\ Known(host)' /\ host'.tx = <<>>
  BY <1>5, <1>6, SentFacts DEF Transmit, Known
<1>8. HostType' = HostType
  BY DEF HostType, States
<1> QED BY <1>6, <1>7, <1>8 DEF IInv, TypeOK, envVars

LEMMA ReceiveInv == IInv /\ Receive => IInv'
<1> SUFFICES ASSUME IInv, Receive PROVE IInv'
  OBVIOUS
<1> DEFINE m == Head(fromModule)
           q == ProcessMessage(host, m)
           h == [q EXCEPT !.iLastSuccessfulComms = 0]
           r == StateMachine(h, FALSE)
<1>1. host \in HostType /\ Known(host) /\ fromModule \in Seq(FromModule)
  BY DEF IInv, TypeOK
<1>2. m \in FromModule /\ fromModule' \in Seq(FromModule)
  BY <1>1 DEF Receive
<1>3. q \in HostType /\ Known(q)
  BY <1>1, <1>2, ProcessMessageInv
<1> HIDE DEF q
<1>4. 0 \in 0 .. CommsLimit + 1 /\ 0 \in 0 .. PingInterval + 1
  BY ModuleAssumption DEF ModuleAssumption
<1>5. h \in HostType /\ Known(h)
  BY <1>3, <1>4, ClockFacts
<1> HIDE DEF h
<1>6. r \in HostType /\ Known(r)
  BY <1>5, StateMachineInv
<1>7. Transmit(r, Counted(m)) /\ UNCHANGED <<prefixSet, envVars, events>>
  BY DEF Receive, h, q
<1> HIDE DEF r, m
<1>8. host' \in HostType /\ Known(host)' /\ host'.tx = <<>>
  BY <1>6, <1>7, SentFacts DEF Transmit, Known
<1>9. HostType' = HostType
  BY DEF HostType, States
<1> QED BY <1>2, <1>7, <1>8, <1>9 DEF IInv, TypeOK, envVars

LEMMA ReconfigureInv == IInv /\ Reconfigure => IInv'
<1> SUFFICES ASSUME IInv, Reconfigure PROVE IInv'
  OBVIOUS
<1> DEFINE h == Start(host, prefixSet')
<1>1. host \in HostType /\ prefixSet' \in BOOLEAN
  BY DEF IInv, TypeOK, Reconfigure
<1>2. h \in HostType /\ Known(h)
  BY <1>1, StartInv
<1>3. Transmit(h, sinceReset) /\ UNCHANGED <<fromModule, envVars>>
  BY DEF Reconfigure
<1> HIDE DEF h
<1>4. host' \in HostType /\ Known(host)' /\ host'.tx = <<>>
  BY <1>2, <1>3, SentFacts DEF Transmit, Known
<1>5. events' \in 0 .. MaxEvents
  BY ModuleAssumption DEF ModuleAssumption, Reconfigure, Event, IInv, TypeOK
<1> QED BY <1>1, <1>3, <1>4, <1>5 DEF IInv, TypeOK, envVars, HostType, States

\* The module and the line: the host's statics stay as they are.
LEMMA EnvironmentInv ==
    ASSUME IInv,
           \/ ModuleHandles \/ NetworkUp \/ ModuleReboots \/ ModuleTalks
           \/ ModuleDies \/ LoseToModule \/ LoseFromModule
    PROVE  IInv'
<1>1. host' = host /\ prefixSet' = prefixSet
  BY DEF ModuleHandles, NetworkUp, ModuleReboots, ModuleTalks, ModuleDies,
     LoseToModule, LoseFromModule
<1>2. fromModule' \in Seq(FromModule)
  <2>1. fromModule \in Seq(FromModule)
    BY DEF IInv
  <2>2. CASE ModuleHandles
    <3>1. CASE alive
      <4>1. PICK a \in Answers(Head(toModule)) : fromModule' = fromModule \o a
        BY <2>2, <3>1 DEF ModuleHandles
      <4>2. a = <<>> \/ \E m \in FromModule : a = <<m>>
        BY DEF Answers, FromModule
      <4>3. \A m \in FromModule : <<m>> \in Seq(FromModule)
        OBVIOUS
      <4>4. <<>> \in Seq(FromModule)
        OBVIOUS
      <4>5. a \in Seq(FromModule)
        BY <4>2, <4>3, <4>4
      <4> QED BY <2>1, <4>1, <4>5
    <3>2. CASE ~alive
      BY <2>1, <2>2, <3>2 DEF ModuleHandles
    <3> QED BY <3>1, <3>2
  <2>3. CASE ModuleReboots
    BY <2>1, <2>3 DEF ModuleReboots, FromModule
  <2>4. CASE ModuleTalks
    BY <2>1, <2>4 DEF ModuleTalks, FromModule
  <2>5. CASE LoseFromModule
    BY <2>1, <2>5 DEF LoseFromModule
  <2>6. CASE NetworkUp \/ ModuleDies \/ LoseToModule
    BY <2>1, <2>6 DEF NetworkUp, ModuleDies, LoseToModule
  <2> QED BY <2>2, <2>3, <2>4, <2>5, <2>6
<1>3. module' \in {"fresh", "configured", "starting", "up"}
  BY DEF IInv, TypeOK, ModuleHandles, NetworkUp, ModuleReboots, ModuleTalks,
     ModuleDies, LoseToModule, LoseFromModule, envVars
<1>4. alive' \in BOOLEAN
  BY DEF IInv, TypeOK, ModuleHandles, NetworkUp, ModuleReboots, ModuleTalks,
     ModuleDies, LoseToModule, LoseFromModule, envVars
<1>5. events' = events \/ Event
  BY DEF ModuleHandles, NetworkUp, ModuleReboots, ModuleTalks, ModuleDies,
     LoseToModule, LoseFromModule
<1>6. events' \in 0 .. MaxEvents
  BY <1>5, ModuleAssumption DEF ModuleAssumption, Event, IInv, TypeOK
<1> QED BY <1>1, <1>2, <1>3, <1>4, <1>6 DEF IInv, TypeOK, Known, HostType, States

LEMMA NextInv == IInv /\ [Next]_vars => IInv'
<1> SUFFICES ASSUME IInv, [Next]_vars PROVE IInv'
  OBVIOUS
<1>1. CASE UNCHANGED vars
  BY <1>1 DEF vars, envVars, IInv, TypeOK, Known, HostType, States
<1> QED BY <1>1, TickInv, ReceiveInv, ReconfigureInv, EnvironmentInv DEF Next

\* The supervisor's statics keep their types, whatever the module sends.
THEOREM ModuleTypeCorrect == Spec => []TypeOK
<1>1. IInv => TypeOK
  BY DEF IInv
<1> QED BY InitInv, NextInv, <1>1, PTL DEF Spec

\* A RUNNING host knows the version, the configuration and the address of its
\* module: for every version, all limits and every order of answers, resets,
\* losses and reboots.
THEOREM ModuleRunningIsIdentified == Spec => []RunningIsIdentified
<1>1. IInv => RunningIsIdentified
  BY DEF IInv, Known, Configuring, RunningIsIdentified
<1> QED BY InitInv, NextInv, <1>1, PTL DEF Spec

-----------------------------------------------------------------------------
(* The order of what is written to the module.                             *)

\* What has been written before RUN_COORDINATOR.
Configured(w) == "CONFIG" \in w /\ (AuthScheme => "SECURITY" \in w)

\* The states on the way from CONFIG to RUN_COORDINATOR.
OnTheWay == {"CONFIGURE_SECURITY", "CONFIGURE_PROFILE", "START_MODULE"}

\* What the state of the machine says of the messages w written.
Orderly(w, state) ==
    /\ "RUN_COORDINATOR" \in w => Configured(w)
    /\ state \in OnTheWay => "CONFIG" \in w
    /\ state \in OnTheWay \ {"CONFIGURE_SECURITY"} => Configured(w)

\* In the middle of a call, when sent was written before it.
Prepared(h, sent) == Orderly(Since(h.tx, sent), h.eModuleState)

CInv == IInv /\ Orderly(sinceReset, host.eModuleState)

-----------------------------------------------------------------------------
\* A message written adds itself; a RESET forgets what was written before it.
LEMMA SinceAppend ==
    ASSUME NEW q \in Seq(Requests), NEW m \in Requests, NEW sent
    PROVE  Since(Append(q, m), sent)
             = IF m = "RESET" THEN {} ELSE Since(q, sent) \cup {m}
<1> DEFINE a == Append(q, m)
           Ran(s, I) == {s[i] : i \in I}
           After(s) == {i \in DOMAIN s : \A k \in i .. Len(s) : s[k] # "RESET"}
<1>1. /\ DOMAIN q = 1 .. Len(q) /\ DOMAIN a = 1 .. Len(q) + 1
      /\ Len(a) = Len(q) + 1 /\ Len(q) \in Nat
      /\ a[Len(q) + 1] = m
      /\ \A i \in DOMAIN q : a[i] = q[i]
  OBVIOUS
<1> HIDE DEF a
<1>2. DOMAIN a = DOMAIN q \cup {Len(q) + 1}
  BY <1>1
<1>3. Ran(a, DOMAIN a) = Ran(q, DOMAIN q) \cup {m}
  BY <1>1, <1>2
<1>4. CASE m = "RESET"
  <2>1. After(a) = {}
    <3> SUFFICES ASSUME NEW i \in DOMAIN a,
                        \A k \in i .. Len(a) : a[k] # "RESET"
                 PROVE  FALSE
      OBVIOUS
    <3>1. Len(a) \in i .. Len(a)
      BY <1>1
    <3> QED BY <1>1, <1>4, <3>1
  <2>2. Ran(a, After(a)) = {}
    BY <2>1
  <2> QED BY <1>3, <1>4, <2>2 DEF Since, a
<1>5. CASE m # "RESET"
  <2>1. After(a) = After(q) \cup {Len(q) + 1}
    BY <1>1, <1>5
  <2>2. Ran(a, After(a)) = Ran(q, After(q)) \cup {m}
    BY <1>1, <2>1
  <2>3. "RESET" \in Ran(a, DOMAIN a) <=> "RESET" \in Ran(q, DOMAIN q)
    BY <1>3, <1>5
  <2>4. Since(a, sent) = IF "RESET" \in Ran(a, DOMAIN a)
                         THEN Ran(a, After(a)) ELSE sent \cup Ran(a, DOMAIN a)
    BY DEF Since
  <2>5. Since(q, sent) = IF "RESET" \in Ran(q, DOMAIN q)
                         THEN Ran(q, After(q)) ELSE sent \cup Ran(q, DOMAIN q)
    BY DEF Since
  <2> HIDE DEF Ran, After
  <2>6. Since(a, sent) = Since(q, sent) \cup {m}
    BY <1>3, <2>2, <2>3, <2>4, <2>5
  <2> QED BY <1>5, <2>6 DEF a
<1> QED BY <1>4, <1>5

\* A call that writes nothing.
LEMMA SinceNothing == ASSUME NEW sent PROVE Since(<<>>, sent) = sent
BY DEF Since

\* A call writes a message that configures or asks: what was in order stays so.
LEMMA WritePrepared ==
    ASSUME NEW h \in HostType, NEW sent, Prepared(h, sent),
           NEW m \in Requests \ {"RESET", "RUN_COORDINATOR"}
    PROVE  /\ Prepared(Write(h, m), sent)
           /\ Since(Write(h, m).tx, sent) = Since(h.tx, sent) \cup {m}
           /\ Write(h, m) \in HostType
<1>1. h.tx \in Seq(Requests) /\ Write(h, m).tx = Append(h.tx, m)
  BY DEF HostType, Write
<1>2. Since(Write(h, m).tx, sent) = Since(h.tx, sent) \cup {m}
  BY <1>1, SinceAppend
<1>3. Write(h, m).eModuleState = h.eModuleState /\ Write(h, m) \in HostType
  BY WriteFacts
<1> QED BY <1>2, <1>3 DEF Prepared, Orderly, Configured

\* It writes RUN_COORDINATOR when the module is configured.
LEMMA RunPrepared ==
    ASSUME NEW h \in HostType, NEW sent, Prepared(h, sent),
           h.eModuleState = "START_MODULE"
    PROVE  Prepared(Write(h, "RUN_COORDINATOR"), sent)
<1>1. /\ h.tx \in Seq(Requests)
      /\ Write(h, "RUN_COORDINATOR").tx = Append(h.tx, "RUN_COORDINATOR")
      /\ "RUN_COORDINATOR" \in Requests
  BY DEF HostType, Write, Requests
<1>2. Since(Write(h, "RUN_COORDINATOR").tx, sent)
        = Since(h.tx, sent) \cup {"RUN_COORDINATOR"}
  <2>1. Since(Append(h.tx, "RUN_COORDINATOR"), sent)
          = IF "RUN_COORDINATOR" = "RESET" THEN {}
            ELSE Since(h.tx, sent) \cup {"RUN_COORDINATOR"}
    BY <1>1, SinceAppend, Zenon
  <2> QED BY <1>1, <2>1
<1>3. Write(h, "RUN_COORDINATOR").eModuleState = h.eModuleState
  BY WriteFacts DEF Requests
<1> QED BY <1>2, <1>3 DEF Prepared, Orderly, Configured, OnTheWay

\* It writes RESET outside the states on the way.
LEMMA ResetPrepared ==
    ASSUME NEW h \in HostType, NEW sent, h.eModuleState \notin OnTheWay
    PROVE  Prepared(Write(h, "RESET"), sent)
<1>1. /\ h.tx \in Seq(Requests)
      /\ Write(h, "RESET").tx = Append(h.tx, "RESET")
      /\ "RESET" \in Requests
  BY DEF HostType, Write, Requests
<1>2. Since(Write(h, "RESET").tx, sent) = {}
  BY <1>1, SinceAppend
<1>3. Write(h, "RESET").eModuleState = h.eModuleState
  BY WriteFacts DEF Requests
<1> QED BY <1>2, <1>3 DEF Prepared, Orderly

\* Statics other than the state and tx do not matter, nor does leaving the way.
LEMMA SamePrepared ==
    ASSUME NEW h, NEW g, NEW sent, Prepared(h, sent), g.tx = h.tx,
           g.eModuleState = h.eModuleState \/ g.eModuleState \notin OnTheWay
    PROVE  Prepared(g, sent)
BY DEF Prepared, Orderly

LEMMA GotoPrepared ==
    ASSUME NEW h \in HostType, NEW sent, Prepared(h, sent),
           NEW s \in States \ {"ACTIVITY_LED"}, s \notin OnTheWay
    PROVE  Prepared(Goto(h, s), sent) /\ Goto(h, s) \in HostType
<1>1. Goto(h, s).tx = h.tx
  BY DEF Goto, HostType
<1> QED BY <1>1, GotoFacts, SamePrepared

-----------------------------------------------------------------------------
(* The cases of the state machine.                                         *)

LEMMA RequestVersionPrepared ==
    ASSUME NEW h \in HostType, NEW sent, Prepared(h, sent)
    PROVE  Prepared(RequestVersion(h), sent)
<1> DEFINE a == [h EXCEPT !.u32Retries = @ + 1]
           b == [h EXCEPT !.u32Retries = 0]
<1>1. h.u32Retries + 1 \in Nat /\ 0 \in Nat
  BY DEF HostType
<1>2. a \in HostType /\ a.eModuleState = h.eModuleState
  BY <1>1, RetriesFacts
<1>3. b.eModuleState = h.eModuleState
  BY <1>1, RetriesFacts
<1>4. a.tx = h.tx /\ b.tx = h.tx
  BY DEF HostType
<1> HIDE DEF a, b
<1>5. Prepared(a, sent) /\ Prepared(b, sent)
  BY <1>2, <1>3, <1>4, SamePrepared
<1>6. Prepared(Write(a, "VERSION_REQUEST"), sent)
  BY <1>2, <1>5, WritePrepared DEF Requests
<1> QED BY <1>5, <1>6 DEF RequestVersion, a, b

LEMMA ConfigureNetworkPrepared ==
    ASSUME NEW h \in HostType, NEW sent, Prepared(h, sent)
    PROVE  Prepared(ConfigureNetwork(h), sent)
<1> DEFINE w == Write(h, "CONFIG")
           g == Goto(w, "CONFIGURE_SECURITY")
<1>1. /\ Prepared(Goto(h, "IDLE"), sent)
      /\ Prepared(Goto(h, "DETERMINE_VERSION"), sent)
  BY GotoPrepared DEF States, OnTheWay
<1>2. Prepared(w, sent) /\ w \in HostType /\ "CONFIG" \in Since(w.tx, sent)
  BY WritePrepared, SMTT(60) DEF Requests
<1> HIDE DEF w
<1>3. g.tx = w.tx /\ g.eModuleState = "CONFIGURE_SECURITY"
  BY <1>2 DEF Goto, HostType
<1>4. Prepared(g, sent)
  BY <1>2, <1>3 DEF Prepared, Orderly
<1> QED BY <1>1, <1>4 DEF ConfigureNetwork, w

LEMMA DetermineVersionPrepared ==
    ASSUME NEW h \in HostType, NEW sent, Prepared(h, sent)
    PROVE  Prepared(DetermineVersion(h), sent)
<1> DEFINE b == [h EXCEPT !.u32Retries = 0]
<1>1. b \in HostType /\ b.eModuleState = h.eModuleState
  BY RetriesFacts
<1>2. b.tx = h.tx
  BY DEF HostType
<1> HIDE DEF b
<1>3. Prepared(b, sent)
  BY <1>1, <1>2, SamePrepared
<1>4. /\ Prepared(Goto(b, "CONFIGURE_NETWORK"), sent)
      /\ Goto(b, "CONFIGURE_NETWORK") \in HostType
  BY <1>1, <1>3, GotoPrepared DEF States, OnTheWay
<1> QED BY <1>4, ConfigureNetworkPrepared, RequestVersionPrepared
        DEF DetermineVersion, b

LEMMA ConfigureSecurityPrepared ==
    ASSUME NEW h \in HostType, NEW sent, Prepared(h, sent),
           h.eModuleState = "CONFIGURE_SECURITY"
    PROVE  Prepared(ConfigureSecurity(h), sent)
<1> DEFINE w == IF AuthScheme THEN Write(h, "SECURITY") ELSE h
           to == IF h.u32JennicDeviceVersion >= 11 THEN "CONFIGURE_PROFILE"
                                                   ELSE "START_MODULE"
<1>1. Prepared(h, sent) /\ "CONFIG" \in Since(h.tx, sent)
  BY DEF Prepared, Orderly, OnTheWay
<1>2. /\ w \in HostType /\ Prepared(w, sent)
      /\ Configured(Since(w.tx, sent))
  <2>1. CASE AuthScheme
    <3>1. "SECURITY" \in Requests \ {"RESET", "RUN_COORDINATOR"}
      BY DEF Requests
    <3>2. /\ Write(h, "SECURITY") \in HostType
          /\ Prepared(Write(h, "SECURITY"), sent)
          /\ Since(Write(h, "SECURITY").tx, sent)
               = Since(h.tx, sent) \cup {"SECURITY"}
      BY <3>1, WritePrepared, Zenon
    <3>3. w = Write(h, "SECURITY")
      BY <2>1
    <3> HIDE DEF w
    <3> QED BY <1>1, <3>2, <3>3 DEF Configured
  <2>2. CASE ~AuthScheme
    <3>1. w = h
      BY <2>2
    <3> HIDE DEF w
    <3>2. Configured(Since(h.tx, sent))
      BY <1>1, <2>2, Zenon DEF Configured
    <3> QED BY <1>1, <3>1, <3>2
  <2> QED BY <2>1, <2>2
<1> HIDE DEF w
<1>3. Goto(w, to).tx = w.tx
  BY <1>2 DEF Goto, HostType
<1>4. Prepared(Goto(w, to), sent)
  BY <1>2, <1>3 DEF Prepared, Orderly, Configured
<1> QED BY <1>4 DEF ConfigureSecurity, w

LEMMA ConfigureProfilePrepared ==
    ASSUME NEW h \in HostType, NEW sent, Prepared(h, sent),
           h.eModuleState = "CONFIGURE_PROFILE"
    PROVE  Prepared(ConfigureProfile(h), sent)
<1> DEFINE w == IF h.u32JennicDeviceVersion >= 11 THEN Write(h, "PROFILE") ELSE h
<1>1. Configured(Since(h.tx, sent))
  BY DEF Prepared, Orderly, OnTheWay
<1>2. /\ w \in HostType /\ Prepared(w, sent)
      /\ Configured(Since(w.tx, sent))
  <2>1. "PROFILE" \in Requests \ {"RESET", "RUN_COORDINATOR"}
    BY DEF Requests
  <2>2. /\ Write(h, "PROFILE") \in HostType /\ Prepared(Write(h, "PROFILE"), sent)
        /\ Since(Write(h, "PROFILE").tx, sent) = Since(h.tx, sent) \cup {"PROFILE"}
    BY <2>1, WritePrepared, Zenon
  <2> QED BY <1>1, <2>2 DEF Configured
<1> HIDE DEF w
<1>3. Goto(w, "START_MODULE").tx = w.tx
  BY <1>2 DEF Goto, HostType
<1>4. Prepared(Goto(w, "START_MODULE"), sent)
  BY <1>2, <1>3 DEF Prepared, Orderly, Configured
<1> QED BY <1>4 DEF ConfigureProfile, w

LEMMA StartModulePrepared ==
    ASSUME NEW h \in HostType, NEW sent, Prepared(h, sent), Known(h),
           h.eModuleState = "START_MODULE"
    PROVE  Prepared(StartModule(h), sent)
<1> DEFINE r == Write(h, "RUN_COORDINATOR")
<1>1. r \in HostType /\ Prepared(r, sent)
  BY RunPrepared, WriteFacts DEF Requests
<1> HIDE DEF r
<1>2. /\ Prepared(Goto(r, "CONFIGURE_FRONTEND"), sent)
      /\ Prepared(Goto(r, "DETERMINE_CONFIGURATION"), sent)
  BY <1>1, GotoPrepared DEF States, OnTheWay
<1>3. /\ h.u32JennicDeviceVersion \in {0, 10, 11, 13, 14}
      /\ h.u32JennicDeviceVersion >= 11
  BY ModuleAssumption DEF ModuleAssumption, HostType, Known, Configuring
<1>4. CASE h.u32JennicDeviceVersion >= 14
  BY <1>2, <1>3, <1>4 DEF StartModule, r
<1>5. CASE h.u32JennicDeviceVersion \in 11 .. 13
  <2>1. /\ ~(h.u32JennicDeviceVersion >= 14)
        /\ ~(h.u32JennicDeviceVersion < 11)
    BY <1>3, <1>5
  <2> QED BY <2>1, <1>2, <1>5 DEF StartModule, r
<1> QED BY <1>3, <1>4, <1>5

LEMMA ConfigureFrontendPrepared ==
    ASSUME NEW h \in HostType, NEW sent, Prepared(h, sent)
    PROVE  Prepared(ConfigureFrontend(h), sent)
<1> DEFINE f == IF h.u32JennicDeviceVersion >= 14
                THEN Write(h, "SET_RADIO_FRONTEND") ELSE h
           d == IF h.u32JennicDeviceVersion >= 14 /\ Diversity
                THEN Write(f, "ENABLE_DIVERSITY") ELSE f
<1>1. f \in HostType /\ Prepared(f, sent)
  BY WritePrepared DEF Requests
<1>2. d \in HostType /\ Prepared(d, sent)
  BY <1>1, WritePrepared DEF Requests
<1> HIDE DEF d
<1>3. Prepared(Goto(d, "DETERMINE_CONFIGURATION"), sent)
  BY <1>2, GotoPrepared DEF States, OnTheWay
<1> QED BY <1>3 DEF ConfigureFrontend, d

LEMMA DetermineAddressPrepared ==
    ASSUME NEW h \in HostType, NEW sent, Prepared(h, sent),
           h.eModuleState = "DETERMINE_ADDRESS", NEW b \in BOOLEAN
    PROVE  Prepared(DetermineAddress(h, b), sent)
<1> DEFINE z == [h EXCEPT !.u32Retries = 0]
           r == [h EXCEPT !.u32Retries = @ + 1]
           f == [r EXCEPT !.uAddressKnown = FALSE]
           g == Goto(r, "DETERMINE_VERSION")
<1>1. z \in HostType /\ r \in HostType
  BY RetriesFacts DEF HostType
<1>2. /\ z.tx = h.tx /\ z.eModuleState = h.eModuleState
      /\ r.tx = h.tx /\ r.eModuleState = h.eModuleState
  BY DEF HostType
<1> HIDE DEF z, r
<1>3. Prepared(z, sent) /\ Prepared(r, sent)
  BY <1>2, SamePrepared
<1>4. f \in HostType /\ f.tx = r.tx /\ f.eModuleState = r.eModuleState
  BY <1>1 DEF HostType
<1>5. Prepared(f, sent)
  BY <1>3, <1>4, SamePrepared
<1>6. Prepared(Goto(z, "RUNNING"), sent)
  BY <1>1, <1>3, GotoPrepared DEF States, OnTheWay
<1>7. Prepared(Write(f, "ADDR"), sent)
  BY <1>4, <1>5, WritePrepared DEF Requests
<1>8. g \in HostType /\ g.eModuleState = "DETERMINE_VERSION"
  BY <1>1, GotoFacts DEF States
<1>9. Prepared(Write(g, "RESET"), sent)
  BY <1>8, ResetPrepared DEF OnTheWay
<1>10. h.uAddressKnown \in BOOLEAN
  BY DEF HostType
<1>11. CASE h.uAddressKnown
  BY <1>6, <1>11 DEF DetermineAddress, ActivityLed, z
<1>12. CASE ~h.uAddressKnown /\ ~b
  BY <1>12 DEF DetermineAddress
<1>13. CASE ~h.uAddressKnown /\ b
  BY <1>7, <1>9, <1>13 DEF DetermineAddress, RequestAddress, r
<1> QED BY <1>10, <1>11, <1>12, <1>13

LEMMA DetermineConfigurationPrepared ==
    ASSUME NEW h \in HostType, NEW sent, Prepared(h, sent), NEW b \in BOOLEAN
    PROVE  Prepared(DetermineConfiguration(h, b), sent)
<1> DEFINE a == [h EXCEPT !.uAddressKnown = FALSE]
           g == Goto(a, "DETERMINE_ADDRESS")
<1>1. a \in HostType /\ a.tx = h.tx /\ a.eModuleState = h.eModuleState
  BY DEF HostType
<1> HIDE DEF a
<1>2. g \in HostType /\ Prepared(g, sent)
  BY <1>1, SamePrepared, GotoPrepared DEF States, OnTheWay
<1>3. g.eModuleState = "DETERMINE_ADDRESS"
  BY <1>1, GotoFacts DEF States
<1>4. Prepared(DetermineAddress(g, b), sent)
  BY <1>2, <1>3, DetermineAddressPrepared
<1>5. Prepared(Write(h, "CONFIG_REQUEST"), sent)
  BY WritePrepared DEF Requests
<1>6. h.uConfigKnown \in BOOLEAN
  BY DEF HostType
<1>7. CASE h.uConfigKnown
  BY <1>4, <1>7 DEF DetermineConfiguration, a
<1>8. CASE ~h.uConfigKnown
  BY <1>5, <1>8 DEF DetermineConfiguration
<1> QED BY <1>6, <1>7, <1>8

LEMMA PingPrepared ==
    ASSUME NEW h \in HostType, NEW sent, Prepared(h, sent)
    PROVE  Prepared(Ping(h), sent)
<1> DEFINE s == [h EXCEPT !.sLastPing = 0]
<1>1. 0 \in 0 .. PingInterval + 1
  BY ModuleAssumption DEF ModuleAssumption
<1>2. s \in HostType /\ s.tx = h.tx /\ s.eModuleState = h.eModuleState
  BY <1>1 DEF HostType
<1> HIDE DEF s
<1>3. Prepared(Write(s, "PING"), sent)
  BY <1>2, SamePrepared, WritePrepared DEF Requests
<1> QED BY <1>3 DEF Ping, s

\* A run of the state machine keeps the order.
LEMMA StateMachinePrepared ==
    ASSUME NEW h \in HostType, NEW sent, Prepared(h, sent), Known(h),
           NEW b \in BOOLEAN
    PROVE  Prepared(StateMachine(h, b), sent)
<1>1. CASE h.eModuleState = "IDLE"
  BY <1>1 DEF StateMachine
<1>2. CASE h.eModuleState = "DETERMINE_VERSION"
  BY <1>2, DetermineVersionPrepared DEF StateMachine
<1>3. CASE h.eModuleState = "CONFIGURE_NETWORK"
  BY <1>3, ConfigureNetworkPrepared DEF StateMachine
<1>4. CASE h.eModuleState = "CONFIGURE_SECURITY"
  BY <1>4, ConfigureSecurityPrepared DEF StateMachine
<1>5. CASE h.eModuleState = "CONFIGURE_PROFILE"
  BY <1>5, ConfigureProfilePrepared DEF StateMachine
<1>6. CASE h.eModuleState = "START_MODULE"
  BY <1>6, StartModulePrepared DEF StateMachine
<1>7. CASE h.eModuleState = "CONFIGURE_FRONTEND"
  BY <1>7, ConfigureFrontendPrepared DEF StateMachine
<1>8. CASE h.eModuleState = "DETERMINE_CONFIGURATION"
  BY <1>8, DetermineConfigurationPrepared DEF StateMachine
<1>9. CASE h.eModuleState = "DETERMINE_ADDRESS"
  BY <1>9, DetermineAddressPrepared DEF StateMachine
<1>10. CASE h.eModuleState = "RUNNING"
  BY <1>10, PingPrepared DEF StateMachine
<1>11. h.eModuleState \in States \ {"ACTIVITY_LED"}
  BY DEF HostType
<1> QED
  BY <1>1, <1>2, <1>3, <1>4, <1>5, <1>6, <1>7, <1>8, <1>9, <1>10, <1>11
     DEF States

\* A restart forgets everything written, from whatever state.
LEMMA StartPrepared ==
    ASSUME NEW h \in HostType, NEW sent, NEW p \in BOOLEAN
    PROVE  Prepared(Start(h, p), sent)
<1> DEFINE w == Write(h, "RESET")
           r == [w EXCEPT
                   !.eModuleState = IF p THEN "DETERMINE_VERSION" ELSE "IDLE",
                   !.uVersionKnown = FALSE, !.uAddressKnown = FALSE,
                   !.uConfigKnown = FALSE, !.uSupportsPing = FALSE]
<1>1. w \in HostType /\ "RESET" \in Requests
  BY WriteFacts DEF Requests
<1>2. h.tx \in Seq(Requests) /\ w.tx = Append(h.tx, "RESET")
  BY DEF HostType, Write
<1>3. Since(w.tx, sent) = {}
  BY <1>1, <1>2, SinceAppend
<1> HIDE DEF w
<1>4. (IF p THEN "DETERMINE_VERSION" ELSE "IDLE") \in States \ {"ACTIVITY_LED"}
  BY DEF States
<1>5. r \in HostType
  BY <1>1, <1>4 DEF HostType
<1>6. r.tx = w.tx /\ r.eModuleState = IF p THEN "DETERMINE_VERSION" ELSE "IDLE"
  BY <1>1 DEF HostType
<1> HIDE DEF r
<1>7. Prepared(r, sent)
  BY <1>3, <1>6 DEF Prepared, Orderly, OnTheWay
<1>8. Prepared(RequestVersion(r), sent)
  BY <1>5, <1>7, RequestVersionPrepared
<1>9. Start(h, p) = IF p THEN RequestVersion(r) ELSE r
  BY DEF Start, r, w
<1> QED BY <1>7, <1>8, <1>9

\* A message writes nothing; CONFIG_REQUEST leaves the way and starts anew.
LEMMA ProcessMessagePrepared ==
    ASSUME NEW h \in HostType, h.tx = <<>>, Prepared(h, sinceReset),
           NEW m \in FromModule
    PROVE  Prepared(ProcessMessage(h, m), Counted(m))
<1>1. CASE m = "CONFIG_REQUEST"
  <2>1. /\ ProcessMessage(h, m).tx = <<>>
        /\ ProcessMessage(h, m).eModuleState = "CONFIGURE_NETWORK"
    BY <1>1 DEF ProcessMessage, ProcessConfigRequest, Goto, HostType
  <2>2. Since(<<>>, Counted(m)) = {}
    BY <1>1, SinceNothing DEF Counted
  <2> QED BY <2>1, <2>2 DEF Prepared, Orderly, OnTheWay
<1>2. CASE m # "CONFIG_REQUEST"
  <2>1. /\ ProcessMessage(h, m).tx = h.tx
        /\ ProcessMessage(h, m).eModuleState = h.eModuleState
    BY <1>2 DEF ProcessMessage, ProcessConfig, ProcessIPv6Address,
       ProcessVersion, FromModule, HostType
  <2> QED BY <1>2, <2>1, SamePrepared DEF Counted
<1> QED BY <1>1, <1>2

-----------------------------------------------------------------------------
(* The three facts of the invariance argument.                             *)

\* What a call prepared is what Transmit records.
LEMMA TransmitOrderly ==
    ASSUME NEW h \in HostType, NEW sent, Prepared(h, sent), Transmit(h, sent)
    PROVE  Orderly(sinceReset, host.eModuleState)'
<1>1. host'.eModuleState = h.eModuleState
  BY DEF Transmit, HostType
<1>2. sinceReset' = Since(h.tx, sent)
  BY DEF Transmit
<1> QED BY <1>1, <1>2 DEF Prepared, Orderly, Configured

\* Between two calls nothing waits in tx.
LEMMA OrderlyPrepared ==
    ASSUME CInv
    PROVE  host \in HostType /\ Known(host) /\ Prepared(host, sinceReset)
BY SinceNothing DEF CInv, IInv, TypeOK, Prepared

LEMMA InitOrderly == Init => CInv
<1> SUFFICES ASSUME Init PROVE Orderly(sinceReset, host.eModuleState)
  BY InitInv DEF CInv
<1>1. sinceReset \in {{}, {"VERSION_REQUEST"}}
  BY DEF Init
<1>2. host.eModuleState \notin OnTheWay
  <2> DEFINE boot == [eModuleState |-> "IDLE", uVersionKnown |-> FALSE,
                      uAddressKnown |-> FALSE, uConfigKnown |-> FALSE,
                      uSupportsPing |-> FALSE, u32JennicDeviceVersion |-> 0,
                      u32Retries |-> 0, iLastSuccessfulComms |-> 0,
                      sLastPing |-> 0, tx |-> <<>>]
  <2>1. host = [Start(boot, prefixSet) EXCEPT !.tx = <<>>]
    BY DEF Init
  <2>2. /\ 0 \in 0 .. CommsLimit + 1 /\ 0 \in 0 .. PingInterval + 1
    BY ModuleAssumption DEF ModuleAssumption
  <2>3. boot \in HostType
    BY <2>2 DEF HostType, States
  <2> HIDE DEF boot
  <2>4. prefixSet \in BOOLEAN
    BY DEF Init
  <2>5. Start(boot, prefixSet) \in HostType
    BY <2>3, <2>4, StartInv
  <2>6. Start(boot, prefixSet).eModuleState \in {"IDLE", "DETERMINE_VERSION"}
    BY <2>3 DEF Start, RequestVersion, Write, HostType
  <2>7. host.eModuleState = Start(boot, prefixSet).eModuleState
    BY <2>1, <2>5 DEF HostType
  <2> QED BY <2>6, <2>7 DEF OnTheWay
<1> QED BY <1>1, <1>2 DEF Orderly

LEMMA TickOrderly == CInv /\ Tick => Orderly(sinceReset, host.eModuleState)'
<1> SUFFICES ASSUME CInv, Tick PROVE Orderly(sinceReset, host.eModuleState)'
  OBVIOUS
<1> DEFINE c == Older(host.iLastSuccessfulComms, CommsLimit)
           p == Older(host.sLastPing, PingInterval)
           h == [host EXCEPT !.iLastSuccessfulComms = Older(@, CommsLimit),
                             !.sLastPing = Older(@, PingInterval)]
           r == StateMachine(h, TRUE)
           e == IF CommsFailed(r) THEN Start(r, prefixSet) ELSE r
<1>1. /\ host \in HostType /\ Known(host) /\ Prepared(host, sinceReset)
      /\ prefixSet \in BOOLEAN
  BY OrderlyPrepared DEF CInv, IInv, TypeOK
<1>2. c \in 0 .. CommsLimit + 1 /\ p \in 0 .. PingInterval + 1
  BY <1>1, ModuleAssumption DEF ModuleAssumption, HostType, Older
<1>3. h \in HostType /\ Known(h)
  BY <1>1, <1>2, ClockFacts
<1>4. h.tx = host.tx /\ h.eModuleState = host.eModuleState
  BY <1>1 DEF HostType
<1> HIDE DEF h
<1>5. Prepared(h, sinceReset)
  BY <1>1, <1>4, SamePrepared
<1>6. r \in HostType /\ Prepared(r, sinceReset)
  BY <1>3, <1>5, StateMachineInv, StateMachinePrepared
<1> HIDE DEF r
<1>7. e \in HostType /\ Prepared(e, sinceReset)
  BY <1>1, <1>6, StartInv, StartPrepared
<1>8. Transmit(e, sinceReset)
  BY DEF Tick, h, r
<1> HIDE DEF e
<1> QED BY <1>7, <1>8, TransmitOrderly

LEMMA ReceiveOrderly == CInv /\ Receive => Orderly(sinceReset, host.eModuleState)'
<1> SUFFICES ASSUME CInv, Receive PROVE Orderly(sinceReset, host.eModuleState)'
  OBVIOUS
<1> DEFINE m == Head(fromModule)
           q == ProcessMessage(host, m)
           h == [q EXCEPT !.iLastSuccessfulComms = 0]
           r == StateMachine(h, FALSE)
<1>1. /\ host \in HostType /\ Known(host) /\ Prepared(host, sinceReset)
      /\ host.tx = <<>> /\ fromModule \in Seq(FromModule)
  BY OrderlyPrepared DEF CInv, IInv, TypeOK
<1>2. m \in FromModule
  BY <1>1 DEF Receive
<1>3. q \in HostType /\ Known(q) /\ Prepared(q, Counted(m))
  BY <1>1, <1>2, ProcessMessageInv, ProcessMessagePrepared
<1> HIDE DEF q
<1>4. 0 \in 0 .. CommsLimit + 1 /\ 0 \in 0 .. PingInterval + 1
  BY ModuleAssumption DEF ModuleAssumption
<1>5. h \in HostType /\ Known(h)
  BY <1>3, <1>4, ClockFacts
<1>6. h.tx = q.tx /\ h.eModuleState = q.eModuleState
  BY <1>3 DEF HostType
<1> HIDE DEF h
<1>7. Prepared(h, Counted(m))
  BY <1>3, <1>6, SamePrepared
<1>8. r \in HostType /\ Prepared(r, Counted(m))
  BY <1>5, <1>7, StateMachineInv, StateMachinePrepared
<1>9. Transmit(r, Counted(m))
  BY DEF Receive, h, q
<1> HIDE DEF r
<1> QED BY <1>8, <1>9, TransmitOrderly

LEMMA NextOrderly == CInv /\ [Next]_vars => CInv'
<1> SUFFICES ASSUME CInv, [Next]_vars PROVE Orderly(sinceReset, host.eModuleState)'
  BY NextInv DEF CInv
<1>1. CASE Reconfigure
  <2>1. prefixSet' \in BOOLEAN /\ Transmit(Start(host, prefixSet'), sinceReset)
    BY <1>1 DEF Reconfigure
  <2>2. host \in HostType
    BY OrderlyPrepared
  <2> QED BY <2>1, <2>2, StartInv, StartPrepared, TransmitOrderly
<1>2. CASE \/ ModuleHandles \/ NetworkUp \/ ModuleReboots \/ ModuleTalks
          \/ ModuleDies \/ LoseToModule \/ LoseFromModule \/ UNCHANGED vars
  <2>1. host' = host /\ sinceReset' = sinceReset
    BY <1>2 DEF ModuleHandles, NetworkUp, ModuleReboots, ModuleTalks,
       ModuleDies, LoseToModule, LoseFromModule, vars
  <2> QED BY <2>1 DEF CInv, Orderly, Configured
<1> QED BY <1>1, <1>2, TickOrderly, ReceiveOrderly DEF Next

\* RUN_COORDINATOR is written only after the configuration, and the security
\* when there is one, written since the last RESET and the last
\* CONFIG_REQUEST: for every version, all limits and every order of answers,
\* resets, losses and reboots.
THEOREM ModuleRunsConfigured == Spec => []RunsConfigured
<1>1. CInv => RunsConfigured
  BY DEF CInv, Orderly, Configured, RunsConfigured
<1> QED BY InitOrderly, NextOrderly, <1>1, PTL DEF Spec

=============================================================================
