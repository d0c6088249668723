----------------------------- MODULE GprsReset -----------------------------
(***************************************************************************)
(* The periodic reset of the GPRS modem in main_loop (sub.c): once per     *)
(* minute the program decides from the clock, the configured period and    *)
(* the hour or minute of the last reset whether to call ResetSIM.          *)
(*                                                                         *)
(* Hours and minutes are plain numbers (the code converts from BCD); a     *)
(* latch that never was set holds None (255).                              *)
(***************************************************************************)
EXTENDS Integers

CONSTANTS
    Hours, Minutes,     \* hours of a day (24) and minutes of an hour (60)
    Periods,            \* the configurations <<hours, minutes>> in use
    FirstWait,          \* first_wait_resetGPRSminuts at start (2)
    MaxStall,           \* most minutes main_loop may miss in one go
    MaxFaults           \* bound: stalls, bad clock readings, reconfigurations

None == -1

ASSUME ResetAssumption ==
    /\ {Hours, Minutes} \subseteq Nat \ {0}
    /\ Periods \subseteq Nat \X Nat
    /\ {FirstWait, MaxStall, MaxFaults} \subseteq Nat

VARIABLES
    hour, minute,       \* date_time when main_loop last saw the minute change
    period,             \* <<u8INT_resetGPRShours, u8INT_resetGPRSminuts>>
    old_resetGPRShours, old_resetGPRSminuts,
    first_wait_resetGPRSminuts,
    skips,              \* due minutes that passed without a reset
    faults              \* counted against MaxFaults

latches == <<old_resetGPRShours, old_resetGPRSminuts>>
resetVars == <<hour, minute, period, latches, first_wait_resetGPRSminuts, skips, faults>>

ResetInit ==
    /\ hour \in 0 .. Hours - 1 /\ minute \in 0 .. Minutes - 1
    /\ period \in Periods
    /\ old_resetGPRShours = None /\ old_resetGPRSminuts = None
    /\ first_wait_resetGPRSminuts = FirstWait
    /\ skips = 0 /\ faults = 0

-----------------------------------------------------------------------------
\* README: "( hours % u8INT_resetGPRShours ) == 0", at u8INT_resetGPRSminuts,
\* or else "( minuts % u8INT_resetGPRSminuts ) == 0".
Due(h, m) ==
    \/ period[1] # 0 /\ h % period[1] = 0 /\ m = period[2]
    \/ period[1] = 0 /\ period[2] # 0 /\ m % period[2] = 0

\* Faulty: both latches are looked at.
UnlatchedBoth(h, m) == old_resetGPRShours # h /\ old_resetGPRSminuts # m

\* The latch of the mode in use holds another hour or minute.
Unlatched(h, m) ==
    IF period[1] # 0 THEN old_resetGPRShours # h ELSE old_resetGPRSminuts # m

Resets(h, m) ==
    first_wait_resetGPRSminuts = 0 /\ Due(h, m) /\ Unlatched(h, m)

\* The clock after k minutes.
HourAfter(k) == (hour + (minute + k) \div Minutes) % Hours
MinuteAfter(k) == (minute + k) % Minutes

\* Faulty: the waiting minutes are not counted down.
WaitForever ==
    /\ first_wait_resetGPRSminuts > 0
    /\ UNCHANGED <<latches, first_wait_resetGPRSminuts, skips>>

Wait ==
    /\ first_wait_resetGPRSminuts > 0
    /\ first_wait_resetGPRSminuts' = first_wait_resetGPRSminuts - 1
    /\ UNCHANGED <<latches, skips>>

Reset(h, m) ==
    /\ Resets(h, m)
    /\ old_resetGPRShours' = IF period[1] # 0 THEN h ELSE old_resetGPRShours
    /\ old_resetGPRSminuts' = IF period[1] # 0 THEN old_resetGPRSminuts ELSE m
    /\ UNCHANGED <<first_wait_resetGPRSminuts, skips>>

Pass(h, m) ==
    /\ first_wait_resetGPRSminuts = 0 /\ ~Resets(h, m)
    /\ skips' = IF Due(h, m) THEN skips + 1 ELSE skips
    /\ UNCHANGED <<latches, first_wait_resetGPRSminuts>>

\* main_loop sees the minute change, k minutes after it last did.
Advance(k) ==
    /\ hour' = HourAfter(k) /\ minute' = MinuteAfter(k)
    /\ UNCHANGED period

Process(k) ==
    /\ Advance(k)
    /\ Wait \/ Reset(HourAfter(k), MinuteAfter(k)) \/ Pass(HourAfter(k), MinuteAfter(k))

MinuteChanges ==
    /\ Process(1)
    /\ UNCHANGED faults

Fault ==
    /\ faults < MaxFaults
    /\ faults' = faults + 1

\* main_loop did not run for a while (a console prompt, a full ring).
Stall(k) == Fault /\ Process(k)

\* error_clock is set: nothing is decided in this minute.
BadClock ==
    /\ Fault
    /\ Advance(1)
    /\ UNCHANGED <<latches, first_wait_resetGPRSminuts, skips>>

\* COMMAND_SET_HOST_DATA; the latches are not touched.
Reconfigure ==
    /\ Fault
    /\ period' \in Periods
    /\ UNCHANGED <<hour, minute, latches, first_wait_resetGPRSminuts, skips>>

ResetNext ==
    \/ MinuteChanges
    \/ \E k \in 2 .. MaxStall : Stall(k)
    \/ BadClock
    \/ Reconfigure

ResetSpec == ResetInit /\ [][ResetNext]_resetVars
ResetFairSpec == ResetSpec /\ WF_resetVars(MinuteChanges)

-----------------------------------------------------------------------------
\* Type invariant.
ResetTypeOK ==
    /\ hour \in 0 .. Hours - 1 /\ minute \in 0 .. Minutes - 1
    /\ period \in Periods
    /\ old_resetGPRShours \in {None} \cup 0 .. Hours - 1
    /\ old_resetGPRSminuts \in {None} \cup 0 .. Minutes - 1
    /\ first_wait_resetGPRSminuts \in 0 .. FirstWait
    /\ faults \in 0 .. MaxFaults /\ skips \in Nat

\* The latches that keep a reset from being repeated cost at most one due
\* reset for every missed minute, bad clock reading or new configuration.
SkipsBounded == skips <= faults

\* The modem is reset again and again, whatever the latches hold.
KeepsResetting ==
    \A h \in {None} \cup 0 .. Hours - 1 :
        [](period[1] # 0) => []<>(old_resetGPRShours # h)
=============================================================================
