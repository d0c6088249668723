------------------------------ MODULE MCClock ------------------------------
(* Two minutes to the hour, two hours to the day; seconds and dates do not *)
(* count further.                                                          *)
EXTENDS Clock

MCLast == [r \in TimeRegs |-> IF r \in {1, 2} THEN 1 ELSE 0]
MCTimes == {[r \in TimeRegs |-> CASE r = 1 -> m [] r = 2 -> h [] OTHER -> 0] :
               m \in 0 .. 1, h \in 0 .. 1}
MCDefault == [r \in TimeRegs |-> IF r = 1 THEN 1 ELSE 0]
=============================================================================
