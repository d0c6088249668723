---------------------------- MODULE LampSchedule ----------------------------
(***************************************************************************)
(* The street lamps' schedule in main_loop (sub.c): two daily windows      *)
(* switch the relay that feeds the lamps, group timers dim the groups by   *)
(* radio broadcasts, and clients switch the relay by hand.  Console keys   *)
(* and clients' own radio packets light lamps past the schedule.           *)
(*                                                                         *)
(* A time of day is one number: the code compares the two BCD bytes hour   *)
(* and minute as a string, which orders them as numbers.  Never stands for *)
(* a pair of bytes the clock does not reach.                               *)
(***************************************************************************)
EXTENDS Integers, FiniteSets

CONSTANTS
    Day,            \* minutes of a day
    NGroups,        \* MAX_GROUP_TIMERS (16)
    Timers,         \* the settings of tsTimers the clients send
    ConsoleLights,  \* the lights of the keys '1' to '3' (1, 127, 255)
    ClientLights,   \* the lights clients' radio packets ask for
    CouBroadcast    \* COU_BROADCAST (2)

Never == Day
Times == 0 .. Never
Groups == 1 .. NGroups
NoGroup == 0        \* 255 in the code
Full == 255         \* full light, what a lamp shows when it gets power
Lights == 0 .. Full

ASSUME ScheduleAssumption ==
    /\ {Day, NGroups, CouBroadcast} \subseteq Nat \ {0}
    /\ ConsoleLights \subseteq Lights /\ ClientLights \subseteq Lights
    /\ Timers \subseteq
          [on1 : Times, off1 : Times, on2 : Times, off2 : Times,
           group : [Groups -> [on : Times, off : Times, light : Lights]]]

VARIABLES
    now,            \* date_time when main_loop last saw the minute change
    error_clock,
    timers,         \* psTimers
    on_lamps,       \* what the windows last asked for
    on_relay,
    current_light, next_light,
    broadcast_group, cou_broadcast,
    running,        \* eModuleState is RUNNING: a broadcast goes out
    lamps,          \* each group: what the host told it since it is fed, what
                    \* a lamp of it shows, and who asked for that
    overridden      \* a client switched the relay since the windows did

relayVars == <<on_lamps, on_relay, overridden>>
lightVars == <<current_light, next_light, broadcast_group, cou_broadcast, lamps>>
vars == <<now, error_clock, timers, relayVars, lightVars, running>>

Lamps == [told : Lights, shows : Lights, by : {"host", "other"}]
LitByHost(light) == [told |-> light, shows |-> light, by |-> "host"]
Fresh == [g \in Groups |-> LitByHost(Full)]

Init ==
    /\ now \in 0 .. Day - 1 /\ error_clock \in BOOLEAN
    /\ timers \in Timers
    /\ on_lamps = FALSE /\ on_relay = FALSE /\ overridden = FALSE
    /\ current_light = Full /\ next_light = Full
    /\ broadcast_group \in Groups /\ cou_broadcast = 0
    /\ running = FALSE
    /\ lamps = Fresh

-----------------------------------------------------------------------------
\* Faulty: a window around midnight is empty.
TestTimeSameDay(t, on, off) ==
    CASE on = off               -> 0
      [] t >= on /\ t < off     -> 1
      [] OTHER                  -> -1

\* test_time: 1 inside the window, -1 outside, 0 when the window is empty.
TestTime(t, on, off) ==
    CASE on = off                            -> 0
      [] on > off /\ (t >= on \/ off > t)    -> 1
      [] on < off /\ (t >= on /\ t < off)    -> 1
      [] OTHER                               -> -1

\* The first window, and outside it the second.
WindowsAsk(t) ==
    LET first == TestTime(t, timers.on1, timers.off1)
        second == TestTime(t, timers.on2, timers.off2)
    IN CASE first >= 0                 -> first
         [] first < 0 /\ second # 0    -> second
         [] first < 0 /\ second = 0    -> -1

\* Faulty: a timer that is over overrules one that is on.
GroupTimerOverrules(i, t, current, s) ==
    LET timer == timers.group[i]
        result == TestTime(t, timer.on, timer.off)
    IN CASE result > 0 -> [light |-> timer.light, group |-> i]
         [] result < 0 /\ current # Full -> [light |-> Full, group |-> i]
         [] OTHER -> s

\* The group timers in their order, from the light s.light set before; s.group
\* is next_group, which is 255 again after every run.
GroupTimer(i, t, current, s) ==
    LET timer == timers.group[i]
        result == TestTime(t, timer.on, timer.off)
    IN CASE result > 0 -> [light |-> timer.light, group |-> i]
         [] result < 0 /\ current # Full /\ s.group = NoGroup ->
                [light |-> Full, group |-> i]
         [] OTHER -> s

GroupTimers(t, current, light) ==
    LET after[i \in 0 .. NGroups] ==
            IF i = 0 THEN [light |-> light, group |-> NoGroup]
            ELSE GroupTimer(i, t, current, after[i - 1])
    IN after[NGroups]

-----------------------------------------------------------------------------
\* OnRelay and OffRelay: the lamps come back with full light.
SwitchRelay(on) ==
    /\ on_relay' = on
    /\ lamps' = IF on /\ on_relay THEN lamps ELSE Fresh

\* GroupSetUint8ByModuleID(g, ..., light), heard by lamps that are fed.
Broadcast(g, light, before, fed) ==
    IF running /\ fed THEN [before EXCEPT ![g] = LitByHost(light)] ELSE before

\* Faulty: OffTimer forgets the relay.
SwitchedOnOnly(t) ==
    CASE WindowsAsk(t) > 0 /\ ~on_lamps ->
            [lamps |-> TRUE, relay |-> TRUE, reset |-> TRUE]
      [] WindowsAsk(t) < 0 /\ on_lamps ->
            [lamps |-> FALSE, relay |-> on_relay, reset |-> TRUE]
      [] OTHER ->
            [lamps |-> on_lamps, relay |-> on_relay, reset |-> FALSE]

\* The relay and the lamps' light once the windows have been looked at.
Switched(t) ==
    CASE WindowsAsk(t) > 0 /\ ~on_lamps ->
            [lamps |-> TRUE, relay |-> TRUE, reset |-> TRUE]
      [] WindowsAsk(t) < 0 /\ on_lamps ->
            [lamps |-> FALSE, relay |-> FALSE, reset |-> TRUE]
      [] OTHER ->
            [lamps |-> on_lamps, relay |-> on_relay, reset |-> FALSE]

\* main_loop sees the minute change to t and the clock is good.
Minute(t) ==
    /\ ~error_clock /\ t # now
    /\ now' = t
    /\ LET s == Switched(t)
           current == IF s.reset THEN Full ELSE current_light
           light == IF s.reset THEN Full ELSE next_light
           before == IF s.reset /\ ~(s.relay /\ on_relay) THEN Fresh ELSE lamps
           next == IF s.relay THEN GroupTimers(t, current, light)
                              ELSE [light |-> light, group |-> NoGroup]
           sends == next.group # NoGroup /\ current # next.light
       IN /\ on_lamps' = s.lamps /\ on_relay' = s.relay
          /\ overridden' = (overridden /\ ~s.reset)
          /\ next_light' = next.light
          /\ IF sends
             THEN /\ broadcast_group' = next.group
                  /\ cou_broadcast' = CouBroadcast
                  /\ current_light' = IF running THEN next.light ELSE current
                  /\ lamps' = Broadcast(next.group, next.light, before, s.relay)
             ELSE /\ current_light' = current
                  /\ lamps' = before
                  /\ UNCHANGED <<broadcast_group, cou_broadcast>>
    /\ UNCHANGED <<error_clock, timers, running>>

MinuteBadClock(t) ==
    /\ error_clock /\ t # now
    /\ now' = t
    /\ UNCHANGED <<error_clock, timers, relayVars, lightVars, running>>

\* Faulty: the light counts as told although no module was there to tell it.
RepeatUnsent ==
    /\ cou_broadcast > 0
    /\ cou_broadcast' = cou_broadcast - 1
    /\ current_light' = next_light
    /\ lamps' = Broadcast(broadcast_group, next_light, lamps, on_relay)
    /\ UNCHANGED <<now, error_clock, timers, relayVars, next_light,
                   broadcast_group, running>>

\* Every TIME_BROADCAST seconds a broadcast is repeated, with the light of now.
Repeat ==
    /\ cou_broadcast > 0
    /\ cou_broadcast' = cou_broadcast - 1
    /\ current_light' = IF running THEN next_light ELSE current_light
    /\ lamps' = Broadcast(broadcast_group, next_light, lamps, on_relay)
    /\ UNCHANGED <<now, error_clock, timers, relayVars, next_light,
                   broadcast_group, running>>

\* COMMAND_ON, COMMAND_OFF and the console's '4'.
Command(on) ==
    /\ SwitchRelay(on)
    /\ current_light' = Full /\ next_light' = Full
    /\ overridden' = TRUE
    /\ UNCHANGED <<now, error_clock, timers, on_lamps, broadcast_group,
                   cou_broadcast, running>>

\* Lamps of some groups are lit past the schedule, which learns nothing of it.
LitDirectly(groups, light) ==
    /\ on_relay
    /\ lamps' = [g \in Groups |->
                    IF g \in groups
                    THEN [told |-> lamps[g].told, shows |-> light, by |-> "other"]
                    ELSE lamps[g]]
    /\ UNCHANGED <<now, error_clock, timers, relayVars, current_light, next_light,
                   broadcast_group, cou_broadcast, running>>

\* Keys '1' to '3' of the console: GlobalSetUint8ByModuleID to all lamps.
ConsoleKey(light) == running /\ LitDirectly(Groups, light)

\* IPv6_PACKET: a client's own packet to lamps of a group, in any state.
ClientPacket(g, light) == LitDirectly({g}, light)

\* COMMAND_SET_TIMERS, which sets the clock too.
SetTimers(s) ==
    /\ timers' = s
    /\ error_clock' = FALSE
    /\ UNCHANGED <<now, relayVars, lightVars, running>>

ClockFails ==
    /\ ~error_clock
    /\ error_clock' = TRUE
    /\ UNCHANGED <<now, timers, relayVars, lightVars, running>>

\* The supervisor of the radio module enters or leaves RUNNING.
ModuleChanges ==
    /\ running' = ~running
    /\ UNCHANGED <<now, error_clock, timers, relayVars, lightVars>>

Next ==
    \/ \E t \in 0 .. Day - 1 : Minute(t) \/ MinuteBadClock(t)
    \/ Repeat
    \/ \E on \in BOOLEAN : Command(on)
    \/ \E light \in ConsoleLights : ConsoleKey(light)
    \/ \E g \in Groups, light \in ClientLights : ClientPacket(g, light)
    \/ \E s \in Timers : SetTimers(s)
    \/ ClockFails
    \/ ModuleChanges

Spec == Init /\ [][Next]_vars

-----------------------------------------------------------------------------
\* Type invariant.
TypeOK ==
    /\ now \in 0 .. Day - 1 /\ error_clock \in BOOLEAN /\ timers \in Timers
    /\ {on_lamps, on_relay, overridden, running} \subseteq BOOLEAN
    /\ {current_light, next_light} \subseteq Lights
    /\ broadcast_group \in Groups /\ cou_broadcast \in 0 .. CouBroadcast
    /\ lamps \in [Groups -> Lamps]

\* What a window means: the times from on, for as long as it is from on to
\* off, around the clock.
InWindow(t, on, off) == (t - on) % (Day + 1) < (off - on) % (Day + 1)

\* Whatever the windows are, also around midnight and overlapping, and
\* however the clock jumps, each minute with a good clock leaves on_lamps as
\* they ask; an empty first window asks for nothing, the second included.
FollowsTimers ==
    [][now' # now /\ ~error_clock =>
          IF timers.on1 = timers.off1 THEN on_lamps' = on_lamps
          ELSE on_lamps' = (InWindow(now', timers.on1, timers.off1) \/
                            InWindow(now', timers.on2, timers.off2))]_vars

\* A client's switching lasts until the windows switch again, and after that
\* relay and windows agree.
RelayFollowsTimers == ~overridden => on_relay = on_lamps

\* A group was told the light, and shows it but for lamps lit past the schedule
\* since then.
WasTold(seen, light) ==
    \E g \in Groups : /\ seen[g].told = light
                      /\ seen[g].by = "host" => seen[g].shows = light

\* The light the host believes in was sent to a group that has been fed since,
\* and its lamps show it, those aside that keys '1' to '3' or a client's packet
\* lit later.  A broadcast that found no module does not count, and cutting the
\* lamps off forgets it.
CurrentIsTold ==
    current_light # Full => on_relay /\ WasTold(lamps, current_light)

\* After a minute with the module running and a group timer on, the host has
\* settled on the light of the last such timer, whatever was sent before.
SettlesOnTimer ==
    [][now' # now /\ ~error_clock /\ running /\ on_relay' =>
          \A g \in Groups :
              (LET InGroup(i) == InWindow(now', timers.group[i].on, timers.group[i].off)
               IN InGroup(g) /\ \A i \in g + 1 .. NGroups : ~InGroup(i))
              => current_light' = timers.group[g].light]_vars
=============================================================================
