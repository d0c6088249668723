------------------------------- MODULE Measure -------------------------------
(***************************************************************************)
(* Energy metering as a whole: the values the Modbus master stores feed    *)
(* the history (MODBUS_Maser_Ok_reciv calls AddCurrentEnergyInArray), and  *)
(* clients, the relay, the line and the power supply interfere.            *)
(***************************************************************************)
EXTENDS Modbus, EnergyArray

CONSTANTS
    MaxMinutes,     \* bound: minutes that pass
    MaxEvents       \* bound: disturbances, see Disturbance

ASSUME MeasureAssumption == MaxMinutes \in Nat /\ MaxEvents \in Nat

VARIABLES
    slow,           \* what is held up: the other work of main_loop takes long, or
                    \* the meter does, or main_loop is in a dump that does not end
    events

vars == <<modbusVars, energyVars, slow, events>>

Init == ModbusInit /\ EnergyInit /\ slow = "nothing" /\ events = 0

Quiet == events = MaxEvents

\* One run of the metering in main_loop.
Loop ==
    /\ slow \notin {"loop", "dump"}
    /\ ENERGY_METER_Loop
    /\ IF Got = "current" THEN AddCurrentEnergyInArray
       ELSE UNCHANGED <<historyVars, old_minute, dump>>
    /\ UNCHANGED <<now, relay_on, disable_add, cursorVars, slow, events>>

\* A second passes.  An answer comes and is taken before it is over, unless
\* something is slow or the metering is off.
SecondPasses == Second /\ (Settled \/ ~enabled \/ slow # "nothing")

\* The interrupts and the line.
Line ==
    /\ \/ slow # "meter" /\ Arrives
       \/ Silence
       \/ SecondPasses
    /\ UNCHANGED <<energyVars, slow, events>>

\* A second passes that begins the next minute.
TimePasses == SecondPasses /\ now < MaxMinutes /\ EnergyMinute /\ UNCHANGED <<slow, events>>

DumpsOn == slow # "dump" /\ DumpPacket(TRUE) /\ UNCHANGED <<modbusVars, slow, events>>

\* The packet the client asks for does not end.
DumpHangs ==
    /\ dump.state = "asking" /\ Endless(Asked, dump.range)
    /\ slow # "dump" /\ slow' = "dump"
    /\ UNCHANGED <<modbusVars, energyVars, events>>

SlowEnds ==
    /\ slow \in {"loop", "meter"} /\ slow' = "nothing"
    /\ UNCHANGED <<modbusVars, energyVars, events>>

\* The lines go on until the index, which has to be a slot.
PrintEnds ==
    /\ slow # "dump" /\ disable_add /\ NextInArray \in Slots
    /\ PrintArray /\ UNCHANGED <<modbusVars, slow, events>>

\* Power fails, at worst while a sample is being stored.  Nothing else ends a
\* dump that does not end by itself.
PowerFails ==
    /\ ModbusRestart /\ EnergyRestart
    /\ \/ UNCHANGED historyVars
       \/ slow \notin {"loop", "dump"} /\ enabled /\ Got = "current" /\ AddingCut

Disturbance ==
    /\ events < MaxEvents /\ events' = events + 1
    /\ \/ (NoiseArrives \/ LoseBytes) /\ UNCHANGED <<energyVars, slow>>
       \/ slow # "dump" /\ SetEnabled /\ UNCHANGED <<energyVars, slow>>
       \/ /\ slow # "dump"
          /\ SwitchRelay \/ StartDump \/ DumpPacket(FALSE) \/ OtherDump
             \/ (~disable_add /\ PrintArray)
          /\ UNCHANGED <<modbusVars, slow>>
       \/ PowerFails /\ slow' = "nothing"
       \/ /\ slow # "dump"
          /\ \/ slow' \in {"loop", "meter"}
             \/ /\ \E range \in Ranges, c \in {Restarted, Continued} : Endless(c, range)
                /\ slow' = "dump"
          /\ UNCHANGED <<modbusVars, energyVars>>

Next == Loop \/ Line \/ TimePasses \/ DumpsOn \/ DumpHangs \/ SlowEnds \/ PrintEnds
        \/ Disturbance

Spec == Init /\ [][Next]_vars
\* main_loop runs forever, what holds it up ends, but for an endless dump; the meter, the interrupts
\* and the timers go on.
FairSpec == Spec /\ WF_vars(Loop) /\ WF_vars(Arrives /\ Line) /\ WF_vars(Silence /\ Line)
                 /\ WF_vars(Second /\ Line) /\ WF_vars(SlowEnds)

\* Type invariant.
TypeOK == ModbusTypeOK /\ EnergyTypeOK /\ events \in 0 .. MaxEvents
          /\ slow \in {"nothing", "loop", "meter", "dump"}

\* While the metering stays on, the line is undisturbed and no dump goes on
\* forever, the current values and the totals are stored again and again,
\* whatever happened before.
Refreshed ==
    <>[](Quiet /\ enabled /\ slow # "dump") => []<>(stored = "current") /\ []<>(stored = "total")
=============================================================================
