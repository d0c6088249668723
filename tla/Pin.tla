-------------------------------- MODULE Pin --------------------------------
(***************************************************************************)
(* The PIN of the SIM card, kept in a page of the EEPROM (get_pin, set_pin *)
(* in hardware.c), beside the battery-backed memory: main reads it first   *)
(* and waits at the console for another one if it is not four digits.      *)
(* set_pin erases the page, then writes it; the power may go in between,   *)
(* or in the middle of either.                                             *)
(***************************************************************************)
EXTENDS NvRam

CONSTANTS Digits, PinLength     \* '0' .. '9', 4

Erased == "erased"              \* 0xFF
Pins == [1 .. PinLength -> Digits]

VARIABLES
    pin,            \* in memory
    page,           \* in the EEPROM
    pinStep         \* "off", "ask", "erase", "write": in get_pin or set_pin;
                    \* "kept": the program goes on

pinVars == <<pin, page, pinStep>>

PinInit ==
    /\ Init /\ pinStep = "kept"
    /\ page \in Pins /\ pin = page

\* Faulty: only the first digit is looked at.
IsPinShort(p) == p[1] \in Digits

IsPin(p) == \A i \in 1 .. PinLength : p[i] \in Digits

\* main, before it looks at the memory.
GetPin ==
    /\ power = "off" /\ pinStep = "off"
    /\ pin' = page
    /\ pinStep' = IF IsPin(page) THEN "kept" ELSE "ask"
    /\ UNCHANGED <<vars, page>>

\* The console's 'p'.
ConsolePin ==
    /\ Idle /\ pinStep = "kept"
    /\ pinStep' = "ask"
    /\ UNCHANGED <<vars, pin, page>>

\* set_pin has its digits; they are loaded into the page's buffer.
SetPin(new) ==
    /\ pinStep = "ask"
    /\ pin' = new
    /\ pinStep' = "erase"
    /\ UNCHANGED <<vars, page>>

\* EEPROM_ErasePage
ErasePage ==
    /\ pinStep = "erase"
    /\ page' = [i \in 1 .. PinLength |-> Erased]
    /\ pinStep' = "write"
    /\ UNCHANGED <<vars, pin>>

\* EEPROM_SplitWritePage, and the wait for its end.
SplitWritePage ==
    /\ pinStep = "write"
    /\ page' = pin
    /\ pinStep' = "kept"
    /\ UNCHANGED <<vars, pin>>

\* The bytes a power failure may leave at place i.
Left(i) ==
    CASE pinStep = "erase" -> {page[i], Erased}
      [] pinStep = "write" -> {Erased, pin[i]}
      [] OTHER             -> {page[i]}

\* The power fails: in main, or while it waits for a PIN or stores it.
PinPowerFails ==
    /\ PowerFails \/ (power = "off" /\ pinStep # "off" /\ UNCHANGED vars)
    /\ page' \in {p \in [1 .. PinLength -> Digits \cup {Erased}] :
                     \A i \in 1 .. PinLength : p[i] \in Left(i)}
    /\ pinStep' = "off"
    /\ UNCHANGED pin

PinNext ==
    \/ pinStep = "kept" /\ (Works \/ Boot) /\ UNCHANGED pinVars
    \/ GetPin \/ ConsolePin \/ ErasePage \/ SplitWritePage
    \/ \E new \in Pins : SetPin(new)
    \/ PinPowerFails

PinSpec == PinInit /\ [][PinNext]_<<vars, pinVars>>

-----------------------------------------------------------------------------
\* Whenever the program works, it has a whole PIN, and the EEPROM holds the
\* same: whatever power failures came between the erasing and the writing of a
\* new one.
PinKept == Idle /\ pinStep = "kept" => page \in Pins /\ pin = page
=============================================================================
