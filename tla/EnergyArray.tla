----------------------------- MODULE EnergyArray -----------------------------
(***************************************************************************)
(* The history of power samples: a ring in battery-backed memory that gets *)
(* a sample every ten minutes while the relay is on, and its dump to a     *)
(* client in several packets (sub.c, TunDevice.c).  The dump's cursor is   *)
(* static, one for all clients.                                            *)
(***************************************************************************)
EXTENDS Integers, Sequences, FiniteSets, FiniteSetsExt

CONSTANTS
    MaxEnergy,      \* MAX_CURRENT_ENERGY (450)
    Split,          \* values of the low byte of the index (256)
    SampleEvery,    \* minutes between two samples (10)
    MinutesOfHour,  \* 60
    PacketSamples,  \* samples a client asks for in a packet
    Ranges,         \* the times from and to a client may ask for
    Earlier,        \* numbers of samples taken before power returned, one a minute
    FirstMinute     \* when that is

NoMinute == MinutesOfHour       \* 0xff

ASSUME EnergyArrayAssumption ==
    /\ {SampleEvery, MinutesOfHour, PacketSamples, Split} \subseteq Nat \ {0}
    /\ MaxEnergy \in Nat /\ MaxEnergy > 1 /\ MaxEnergy < 2 * Split
    /\ Ranges \subseteq [from : Nat \ {0}, to : Nat]
    /\ Earlier \subseteq 0 .. FirstMinute - 1 /\ FirstMinute \in Nat

VARIABLES
    now,            \* date_time, in minutes; later than DateTimeCleared (0)
    relay_on,       \* on_relay
    array,          \* the samples: time, and a ghost number that tells them apart
    NextInArray,
    old_minute, disable_add,
    i_array, flag_arrray, NextAtStart,  \* the static cursor of the dump
    dump,           \* the client's view of its dump: the samples it got, how many
                    \* entries they came in, and ghosts
    taken,          \* ghost: samples taken so far
    samples,        \* ghost: the samples taken since the index last lost its place
    broken          \* ghost: power failed while the history was being cleared

cursorVars == <<i_array, flag_arrray, NextAtStart>>
historyVars == <<array, NextInArray, taken, samples, broken>>
energyVars == <<now, relay_on, historyVars, old_minute, disable_add, cursorVars, dump>>

Slots == 0 .. MaxEnergy - 1

\* What the index in memory may be; of its high byte only the lowest bit is used.
Words == 0 .. 2 * Split - 1
Sample == [time : Nat, n : Nat]
Cleared == [time |-> 0, n |-> 0]
NoDump == [state |-> "none", range |-> [from |-> 0, to |-> 0], got |-> {}, entries |-> 0,
           expected |-> {}, added |-> 0, spoiled |-> FALSE]

\* What n samples leave in slot i.
Kept(n, i) ==
    LET last == {k \in 1 .. n : (k - 1) % MaxEnergy = i /\ k + MaxEnergy > n}
    IN  IF last = {} THEN Cleared ELSE [time |-> CHOOSE k \in last : TRUE,
                                        n |-> CHOOSE k \in last : TRUE]

\* After power-on; the schedule may have switched the relay on at once.
EnergyInit ==
    /\ now = FirstMinute /\ relay_on \in BOOLEAN
    /\ \E n \in Earlier :
          /\ samples = [k \in 1 .. n |-> [time |-> k, n |-> k]]
          /\ array = [i \in Slots |-> Kept(n, i)]
          /\ NextInArray = n % MaxEnergy /\ taken = n
    /\ broken = FALSE
    /\ old_minute = NoMinute /\ disable_add = FALSE
    /\ i_array = 0 /\ flag_arrray = FALSE /\ NextAtStart = 0
    /\ dump = NoDump

-----------------------------------------------------------------------------
Minute == now % MinutesOfHour
SampleDue == relay_on /\ Minute % SampleEvery = 0

\* Faulty: the last slot is left out.
AfterSlotEarly(i) == IF i + 1 >= MaxEnergy - 1 THEN 0 ELSE i + 1

AfterSlot(i) == IF i + 1 >= MaxEnergy THEN 0 ELSE i + 1

Newest == [time |-> now, n |-> taken + 1]

\* An index that is no slot is an error, and all of the history is cleared.
AddCurrentEnergyInArray ==
    IF disable_add THEN UNCHANGED <<historyVars, old_minute, dump>>
    ELSE IF ~SampleDue THEN old_minute' = NoMinute /\ UNCHANGED <<historyVars, dump>>
    ELSE IF old_minute = Minute THEN UNCHANGED <<historyVars, old_minute, dump>>
    ELSE /\ old_minute' = Minute
         /\ dump' = [dump EXCEPT !.added = @ + 1]
         /\ IF NextInArray \in Slots
            THEN /\ array' = [array EXCEPT ![NextInArray] = Newest]
                 /\ NextInArray' = AfterSlot(NextInArray)
                 /\ taken' = taken + 1 /\ samples' = Append(samples, Newest)
                 /\ UNCHANGED broken
            ELSE /\ array' = [i \in Slots |-> Cleared]
                 /\ NextInArray' = 0 /\ broken' = FALSE
                 /\ UNCHANGED <<taken, samples>>

-----------------------------------------------------------------------------
\* Power fails in AddCurrentEnergyInArray.  The history is in memory that keeps
\* what was stored until then, byte by byte.

High(w) == IF w >= Split THEN Split ELSE 0
Low(w) == w - High(w)

\* A word of two bytes on its way from old to new.
HalfStored(old, new) == {old, new, High(old) + Low(new), High(new) + Low(old)}

\* The index after slot i: it is stored incremented, and again when it is at the
\* end.
OnTheWay(i) == HalfStored(i, i + 1) \cup
               IF i + 1 >= MaxEnergy THEN HalfStored(i + 1, 0) ELSE {}

\* Some bytes of the sample are in its slot.
SampleCut ==
    /\ NextInArray \in Slots
    /\ \E time \in 0 .. now :
          /\ array[NextInArray].time # 0 => time # 0
          /\ array' = [array EXCEPT ![NextInArray] = [time |-> time, n |-> taken + 1]]
    /\ taken' = taken + 1
    /\ UNCHANGED <<NextInArray, samples, broken>>

\* All of the sample is there, but not all of the index.
IndexCut ==
    /\ NextInArray \in Slots
    /\ array' = [array EXCEPT ![NextInArray] = Newest]
    /\ taken' = taken + 1
    /\ NextInArray' \in OnTheWay(NextInArray)
    /\ samples' = IF NextInArray' = NextInArray THEN samples
                  ELSE IF NextInArray' = AfterSlot(NextInArray)
                  THEN Append(samples, Newest) ELSE <<>>
    /\ UNCHANGED broken

\* The history is being cleared from its beginning on, where the index is.
ClearingCut ==
    /\ NextInArray \notin Slots
    /\ \/ NextInArray' \in HalfStored(NextInArray, 0) /\ UNCHANGED <<array, broken>>
       \/ /\ NextInArray' = 0 /\ broken' = TRUE
          /\ \E s \in Slots : \E time \in 0 .. array[s].time :
                array' = [i \in Slots |->
                             IF i < s THEN Cleared
                             ELSE IF i = s THEN [array[i] EXCEPT !.time = time]
                             ELSE array[i]]
    /\ UNCHANGED <<taken, samples>>

AddingCut ==
    /\ ~disable_add /\ SampleDue /\ old_minute # Minute
    /\ SampleCut \/ IndexCut \/ ClearingCut

-----------------------------------------------------------------------------

\* PrintArrayCurrenEnergy runs main_loop between its lines and keeps samples
\* out meanwhile.
PrintArray ==
    /\ disable_add' = ~disable_add
    /\ UNCHANGED <<now, relay_on, historyVars, old_minute, cursorVars, dump>>

EnergyMinute ==
    /\ now' = now + 1
    /\ UNCHANGED <<relay_on, historyVars, old_minute, disable_add, cursorVars, dump>>

SwitchRelay ==
    /\ relay_on' = ~relay_on
    /\ UNCHANGED <<now, historyVars, old_minute, disable_add, cursorVars, dump>>

-----------------------------------------------------------------------------
\* COOMAND_GET_CURRENT_ENERGY_ARRAY

\* The loop over the slots: it goes on while i_array < NextInArray or the flag is
\* set, and the flag is taken back at the end of the array.
\* With an end that is no slot it goes round and round until the packet is full,
\* and forever when there is nothing to fill it with.
StepsLeft(c) == IF c.next \notin Slots THEN MaxEnergy * PacketSamples
                ELSE IF c.flag THEN MaxEnergy - c.i + c.next
                ELSE IF c.i < c.next THEN c.next - c.i ELSE 0
SlotAfter(c, k) == (c.i + k) % MaxEnergy
Moved(c, k) == [i |-> SlotAfter(c, k), flag |-> c.flag /\ c.i + k < MaxEnergy,
                next |-> c.next]

Cursor == [i |-> i_array, flag |-> flag_arrray, next |-> NextAtStart]

\* Faulty: the end is where the index is now, not where it was at the start.
ContinuedLive == [Cursor EXCEPT !.next = NextInArray]

Continued == Cursor

\* The first packet of a dump, u16FirstArrayEntry = 0, sets the cursor anew.  What
\* is in memory behind the array does not count as a sample here.
Restarted ==
    LET wrapped == NextInArray \in Slots /\ array[NextInArray].time # 0
    IN  [i |-> IF wrapped THEN NextInArray ELSE 0, flag |-> wrapped, next |-> NextInArray]

InRange(range) == {i \in Slots : array[i].time >= range.from /\ array[i].time <= range.to}

Endless(c, range) == c.next \notin Slots /\ InRange(range) = {}

\* The steps among the first k that find a sample to send.
Sent(c, range, k) == {m \in 0 .. k - 1 : SlotAfter(c, m) \in InRange(range)}

\* One packet from cursor c: what it carries and the cursor after it.
Packet(c, range) ==
    LET k == Max({m \in 0 .. StepsLeft(c) :
                    m > 0 => Cardinality(Sent(c, range, m - 1)) < PacketSamples})
    IN  [sent |-> Sent(c, range, k), cursor |-> Moved(c, k)]

SetCursor(c) == i_array' = c.i /\ flag_arrray' = c.flag /\ NextAtStart' = c.next

\* The client begins a dump.
StartDump ==
    /\ \E range \in Ranges :
          dump' = [NoDump EXCEPT !.state = "asking", !.range = range]
    /\ UNCHANGED <<now, relay_on, historyVars, old_minute, disable_add, cursorVars>>

Asked == IF dump.entries = 0 THEN Restarted ELSE Continued

\* A client asks for no more entries than the history may hold.  What it gets
\* while the index is no slot, or after a clearing that was cut off, is spoiled.
DumpPacket(answered) ==
    LET first == dump.entries = 0
        c == Asked
        p == Packet(c, dump.range)
        asked == IF first THEN [dump EXCEPT !.expected = {array[i] : i \in InRange(dump.range)},
                                            !.added = 0,
                                            !.spoiled = broken \/ c.next \notin Slots]
                 ELSE dump
    IN  /\ dump.state = "asking" /\ dump.entries <= MaxEnergy /\ ~Endless(c, dump.range)
        /\ SetCursor(p.cursor)
        /\ dump' = IF answered
                   THEN [asked EXCEPT !.got = @ \cup {array[SlotAfter(c, m)] : m \in p.sent},
                                      !.entries = @ + Cardinality(p.sent),
                                      !.state = IF p.cursor.i = p.cursor.next
                                                THEN "done" ELSE "asking"]
                   ELSE [asked EXCEPT !.spoiled = TRUE]
        /\ UNCHANGED <<now, relay_on, historyVars, old_minute, disable_add>>

\* Another client takes the first or the next packet of a dump of its own.
OtherDump ==
    /\ \E range \in Ranges, c \in {Restarted, Continued} :
          ~Endless(c, range) /\ SetCursor(Packet(c, range).cursor)
    /\ dump' = [dump EXCEPT !.spoiled = TRUE]
    /\ UNCHANGED <<now, relay_on, historyVars, old_minute, disable_add>>

\* Power comes back: the history is kept, all else starts anew.
EnergyRestart ==
    /\ old_minute' = NoMinute /\ disable_add' = FALSE /\ relay_on' \in BOOLEAN
    /\ i_array' = 0 /\ flag_arrray' = FALSE /\ NextAtStart' = 0
    /\ dump' = NoDump
    /\ UNCHANGED now

-----------------------------------------------------------------------------
EnergyTypeOK ==
    /\ now \in Nat /\ {relay_on, disable_add, flag_arrray, broken} \subseteq BOOLEAN
    /\ {NextInArray, NextAtStart} \subseteq Words /\ i_array \in Slots
    /\ old_minute \in 0 .. NoMinute
    /\ array \in [Slots -> Sample] /\ taken \in Nat /\ samples \in Seq(Sample)

\* Of the samples since the index last lost its place the history holds the
\* newest, all but one of as many as it has slots: the index may not run over
\* its end, and a sample cut off by a power failure costs at most the oldest
\* one.  The index loses its place when power fails between the two bytes of it,
\* or between its two stores at the end of the array.
HistoryKeepsNewest ==
    \A k \in 1 .. MaxEnergy - 1 : k <= Len(samples) =>
        array[(NextInArray + MaxEnergy - k) % MaxEnergy] = samples[Len(samples) + 1 - k]

\* A client that dumps the history alone, with every answer arriving and at
\* most one sample added meanwhile, gets every sample that was there in its
\* range when it began, and none twice: whether the ring has wrapped or not,
\* after power failures, also those that cost the index its place in the array,
\* and after dumps that other clients began or gave up.  Not while the index is
\* no slot, and not after power failed in the clearing of the history.
DumpComplete ==
    dump.state = "done" /\ ~dump.spoiled /\ dump.added <= 1 =>
        /\ dump.got = dump.expected
        /\ dump.entries = Cardinality(dump.expected)
=============================================================================
