--------------------------- MODULE MCLampSchedule ---------------------------
(* A day of five minutes.  Windows that cross midnight, overlap, are empty *)
(* or use a time the clock does not reach; two groups whose dimming        *)
(* windows overlap, with equal and with different lights.                  *)
EXTENDS LampSchedule

Group(on, off, light) == [on |-> on, off |-> off, light |-> light]
Setting(w, g1, g2) ==
    [on1 |-> w[1], off1 |-> w[2], on2 |-> w[3], off2 |-> w[4],
     group |-> <<g1, g2>>]

MCTimers ==
    {Setting(<<3, 1, 1, 2>>, Group(4, 1, 50), Group(0, 2, 50)),
     Setting(<<3, 1, 1, 2>>, Group(4, 1, 50), Group(4, 3, 20)),
     Setting(<<0, 3, 2, 4>>, Group(0, 0, 50), Group(4, 3, 20)),
     Setting(<<0, 3, 2, 4>>, Group(4, 1, 50), Group(0, 2, 50)),
     Setting(<<1, 1, 0, 4>>, Group(0, 0, 50), Group(0, 2, 50)),
     Setting(<<4, Never, Never, 2>>, Group(4, 1, 50), Group(4, 3, 20))}
=============================================================================
