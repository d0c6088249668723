--------------------------- MODULE ScheduleProofs ---------------------------
(* What main_loop does by the clock.  The street lamps follow their timers  *)
(* and the host knows what light it has asked for: for every length of the  *)
(* day, every number of groups, all settings of the timers and every order  *)
(* of minutes, clients' commands, repetitions and failures.  The reset of   *)
(* the modem is skipped only for a fault: for every length of day and hour, *)
(* all periods and every order of minutes, stalls and reconfigurations.     *)
EXTENDS LampSchedule, GprsReset, WellFoundedInduction, TLAPS

LEMMA Constants ==
    /\ Day \in Nat \ {0} /\ NGroups \in Nat \ {0} /\ CouBroadcast \in Nat \ {0}
    /\ \A s \in Timers :
          /\ {s.on1, s.off1, s.on2, s.off2} \subseteq Times
          /\ \A i \in Groups : /\ {s.group[i].on, s.group[i].off} \subseteq Times
                               /\ s.group[i].light \in Lights
    /\ Full \in Lights
    /\ ConsoleLights \subseteq Lights /\ ClientLights \subseteq Lights
  BY ScheduleAssumption DEF ScheduleAssumption, Lights, Full

-----------------------------------------------------------------------------
(* Windows.                                                                *)

LEMMA AroundTheClock ==
    ASSUME NEW x \in Int, -Day <= x, x <= Day
    PROVE  x % (Day + 1) = IF x >= 0 THEN x ELSE x + Day + 1
<1>1. Day + 1 \in Nat /\ Day + 1 > 0 /\ Day \in Int
  BY Constants
<1>2. CASE x >= 0
  BY <1>1, <1>2
<1>3. CASE x < 0
  <2>1. x + (Day + 1) \in 0 .. Day
    BY <1>1, <1>3
  <2>2. x % (Day + 1) = (x + (Day + 1)) % (Day + 1)
    BY <1>1
  <2>3. (x + (Day + 1)) % (Day + 1) = x + (Day + 1)
    BY <1>1, <2>1
  <2>4. x % (Day + 1) = x + (Day + 1)
    BY <2>2, <2>3
  <2>5. ~(x >= 0) /\ x + Day + 1 = x + (Day + 1)
    BY <1>1, <1>3
  <2> QED BY <2>4, <2>5, Zenon
<1> QED BY <1>2, <1>3

\* test_time tells a time inside a window from one outside, whichever way
\* round the clock the window lies.
LEMMA TestTimeIs ==
    ASSUME NEW t \in Times, NEW on \in Times, NEW off \in Times
    PROVE  /\ TestTime(t, on, off) \in {-1, 0, 1}
           /\ TestTime(t, on, off) = 0 <=> on = off
           /\ TestTime(t, on, off) > 0 <=> InWindow(t, on, off)
<1>1. /\ Day \in Nat \ {0} /\ t \in 0 .. Day /\ on \in 0 .. Day /\ off \in 0 .. Day
      /\ t \in Int /\ on \in Int /\ off \in Int
  BY Constants DEF Times, Never
<1>2. (t - on) % (Day + 1) = IF t >= on THEN t - on ELSE t - on + Day + 1
  <2>1. t - on \in Int /\ -Day <= t - on /\ t - on <= Day
    BY <1>1
  <2>2. (t - on) % (Day + 1) = IF t - on >= 0 THEN t - on ELSE t - on + Day + 1
    BY <2>1, AroundTheClock, Zenon
  <2>3. t - on >= 0 <=> t >= on
    BY <1>1
  <2> QED BY <2>2, <2>3, Zenon
<1>3. (off - on) % (Day + 1) = IF off >= on THEN off - on ELSE off - on + Day + 1
  <2>1. off - on \in Int /\ -Day <= off - on /\ off - on <= Day
    BY <1>1
  <2>2. (off - on) % (Day + 1) = IF off - on >= 0 THEN off - on ELSE off - on + Day + 1
    BY <2>1, AroundTheClock, Zenon
  <2>3. off - on >= 0 <=> off >= on
    BY <1>1
  <2> QED BY <2>2, <2>3, Zenon
<1>4. InWindow(t, on, off) <=>
        (IF t >= on THEN t - on ELSE t - on + Day + 1)
          < (IF off >= on THEN off - on ELSE off - on + Day + 1)
  BY <1>2, <1>3 DEF InWindow
<1>5. TestTime(t, on, off) \in {-1, 0, 1}
  BY DEF TestTime
<1>6. TestTime(t, on, off) = 0 <=> on = off
  BY <1>1 DEF TestTime
<1>7. TestTime(t, on, off) > 0 <=> InWindow(t, on, off)
  BY <1>1, <1>4 DEF TestTime
<1> QED BY <1>5, <1>6, <1>7

\* What the two windows ask for.
LEMMA WindowsAskIs ==
    ASSUME TypeOK, NEW t \in 0 .. Day - 1
    PROVE  /\ WindowsAsk(t) \in {-1, 0, 1}
           /\ timers.on1 = timers.off1 => WindowsAsk(t) = 0
           /\ timers.on1 # timers.off1 =>
                 /\ WindowsAsk(t) # 0
                 /\ WindowsAsk(t) > 0 <=> InWindow(t, timers.on1, timers.off1)
                                          \/ InWindow(t, timers.on2, timers.off2)
<1> DEFINE first == TestTime(t, timers.on1, timers.off1)
           second == TestTime(t, timers.on2, timers.off2)
<1>0. \A on, off \in Times :
         /\ TestTime(t, on, off) \in {-1, 0, 1} /\ (TestTime(t, on, off) = 0 <=> on = off)
         /\ (TestTime(t, on, off) > 0 <=> InWindow(t, on, off))
  <2> TAKE on, off \in Times
  <2>1. t \in Times
    BY Constants DEF Times, Never
  <2> QED BY <2>1, TestTimeIs
<1>1. /\ timers.on1 \in Times /\ timers.off1 \in Times
      /\ timers.on2 \in Times /\ timers.off2 \in Times /\ t \in Times
  BY Constants DEF TypeOK, Times, Never
<1>2. /\ first \in {-1, 0, 1} /\ (first = 0 <=> timers.on1 = timers.off1)
      /\ (first > 0 <=> InWindow(t, timers.on1, timers.off1))
  BY <1>1, <1>0
<1>3. /\ second \in {-1, 0, 1} /\ (second = 0 <=> timers.on2 = timers.off2)
      /\ (second > 0 <=> InWindow(t, timers.on2, timers.off2))
  BY <1>1, <1>0
<1>4. WindowsAsk(t) = CASE first >= 0                 -> first
                        [] first < 0 /\ second # 0    -> second
                        [] first < 0 /\ second = 0    -> -1
  BY DEF WindowsAsk
<1> HIDE DEF first, second
<1> QED BY <1>2, <1>3, <1>4

-----------------------------------------------------------------------------
(* The group timers.  What holds after any number of them is shown by a    *)
(* least counterexample.                                                   *)

LEMMA LeastOf ==
    ASSUME NEW T \in SUBSET Nat, T # {}
    PROVE  \E m \in T : \A k \in T : ~(k < m)
<1>1. PICK m \in T : \A k \in T : <<k, m>> \notin OpToRel(<, Nat)
  BY WFMin, NatLessThanWellFounded, Zenon
<1> QED BY <1>1, Zenon DEF OpToRel

\* n steps from s on can be taken one after the other.
Taken(S, s, n, G) ==
    \E f \in [0 .. n -> S] : f[0] = s /\ \A i \in 1 .. n : f[i] = G[i][f[i - 1]]

LEMMA Iterates ==
    ASSUME NEW S, NEW s \in S, NEW n \in Nat, NEW G,
           \A i \in 1 .. n : \A x \in S : G[i][x] \in S
    PROVE  Taken(S, s, n, G)
<1> DEFINE Obeys(f, k) == f[0] = s /\ \A i \in 1 .. k : f[i] = G[i][f[i - 1]]
           T == {k \in 0 .. n : ~ \E f \in [0 .. k -> S] : Obeys(f, k)}
<1>1. T = {}
  <2> SUFFICES ASSUME T # {} PROVE FALSE
    OBVIOUS
  <2>1. PICK m \in T : \A k \in T : ~(k < m)
    <3>1. T \in SUBSET Nat
      OBVIOUS
    <3> HIDE DEF T
    <3> QED BY <3>1, LeastOf
  <2>2. m # 0
    <3> SUFFICES ASSUME m = 0 PROVE FALSE
      OBVIOUS
    <3>1. [i \in 0 .. 0 |-> s] \in [0 .. 0 -> S] /\ Obeys([i \in 0 .. 0 |-> s], 0)
      OBVIOUS
    <3> QED BY <2>1, <3>1
  <2>3. m \in 1 .. n /\ m - 1 \in 0 .. n /\ m - 1 \notin T
    <3>1. m \in 1 .. n /\ m - 1 \in 0 .. n /\ m - 1 < m
      BY <2>2
    <3> HIDE DEF T
    <3> QED BY <2>1, <3>1
  <2>4. PICK f \in [0 .. m - 1 -> S] : Obeys(f, m - 1)
    BY <2>3
  <2> DEFINE g == [i \in 0 .. m |-> IF i = m THEN G[m][f[m - 1]] ELSE f[i]]
  <2>5. G[m][f[m - 1]] \in S
    BY <2>3, <2>4
  <2>6. g \in [0 .. m -> S]
    BY <2>3, <2>4, <2>5
  <2>7. Obeys(g, m)
    <3>1. g[0] = s
      BY <2>3, <2>4
    <3>2. ASSUME NEW i \in 1 .. m PROVE g[i] = G[i][g[i - 1]]
      <4>1. CASE i = m
        BY <2>3, <4>1
      <4>2. CASE i # m
        <5>1. i \in 1 .. m - 1 /\ i \in 0 .. m /\ i - 1 \in 0 .. m /\ i - 1 # m
          BY <2>3, <4>2
        <5> QED BY <2>4, <4>2, <5>1
      <4> QED BY <4>1, <4>2
    <3> HIDE DEF g
    <3> QED BY <3>1, <3>2
  <2> HIDE DEF g
  <2> QED BY <2>1, <2>6, <2>7
<1>2. n \in 0 .. n
  OBVIOUS
<1> QED BY <1>1, <1>2 DEF Taken

\* What a timer can leave in s.
Choices == [light : Lights, group : Groups \cup {NoGroup}]

InGroup(t, i) == InWindow(t, timers.group[i].on, timers.group[i].off)

LEMMA GroupTimerIs ==
    ASSUME TypeOK, NEW t \in 0 .. Day - 1, NEW current, NEW i \in Groups, NEW s \in Choices
    PROVE  /\ GroupTimer(i, t, current, s) \in Choices
           /\ InGroup(t, i) =>
                 GroupTimer(i, t, current, s) = [light |-> timers.group[i].light, group |-> i]
           /\ ~InGroup(t, i) /\ s.group # NoGroup => GroupTimer(i, t, current, s) = s
<1> DEFINE result == TestTime(t, timers.group[i].on, timers.group[i].off)
<1>1. timers \in Timers /\ t \in Times
  BY Constants DEF TypeOK, Times, Never
<1>2. result \in {-1, 0, 1} /\ (result > 0 <=> InGroup(t, i))
  BY <1>1, Constants, TestTimeIs DEF InGroup
<1>3. GroupTimer(i, t, current, s) =
         CASE result > 0 -> [light |-> timers.group[i].light, group |-> i]
           [] result < 0 /\ current # Full /\ s.group = NoGroup ->
                  [light |-> Full, group |-> i]
           [] OTHER -> s
  BY DEF GroupTimer
<1>4. [light |-> timers.group[i].light, group |-> i] \in Choices
      /\ [light |-> Full, group |-> i] \in Choices
  BY <1>1, Constants DEF Choices
<1> HIDE DEF result
<1> QED BY <1>2, <1>3, <1>4

\* The last timer that is on has the last word.
LEMMA GroupTimersEnd ==
    ASSUME TypeOK, NEW t \in 0 .. Day - 1, NEW current, NEW light \in Lights
    PROVE  /\ GroupTimers(t, current, light) \in Choices
           /\ \A g \in Groups :
                 InGroup(t, g) /\ (\A i \in g + 1 .. NGroups : ~InGroup(t, i)) =>
                    GroupTimers(t, current, light)
                       = [light |-> timers.group[g].light, group |-> g]
<1> DEFINE N == NGroups
           start == [light |-> light, group |-> NoGroup]
           Step(f) == [i \in 0 .. N |->
                         IF i = 0 THEN start ELSE GroupTimer(i, t, current, f[i - 1])]
           after == CHOOSE f : f = Step(f)
           G == [i \in 1 .. N |-> [s \in Choices |-> GroupTimer(i, t, current, s)]]
<1>1. N \in Nat \ {0} /\ start \in Choices /\ \A i \in 1 .. N : i \in Groups
  BY Constants DEF Choices, Groups
<1>2. GroupTimers(t, current, light) = after[N]
  BY DEF GroupTimers
<1>3. G \in [1 .. N -> [Choices -> Choices]]
  BY <1>1, GroupTimerIs
<1>4. PICK f \in [0 .. N -> Choices] : f[0] = start /\ \A i \in 1 .. N : f[i] = G[i][f[i - 1]]
  <2>1. N \in Nat
    BY <1>1
  <2>2. start \in Choices
    BY <1>1
  <2>3. \A i \in 1 .. N : \A x \in Choices : G[i][x] \in Choices
    BY <1>3
  <2>4. Taken(Choices, start, N, G)
    <3> HIDE DEF G, start, N
    <3> QED BY <2>1, <2>2, <2>3, Iterates
  <2> HIDE DEF G, start, N
  <2> QED BY <2>4 DEF Taken
<1>5. f = Step(f)
  <2>1. \A i \in 1 .. N : f[i] = GroupTimer(i, t, current, f[i - 1])
    <3> TAKE i \in 1 .. N
    <3>1. f[i - 1] \in Choices
      BY <1>1, <1>4
    <3> QED BY <1>4, <3>1
  <2>2. \A i \in 0 .. N : f[i] = IF i = 0 THEN start ELSE GroupTimer(i, t, current, f[i - 1])
    BY <1>4, <2>1
  <2> QED BY <1>4, <2>2
<1>6. after = Step(after)
  <2> HIDE DEF Step
  <2> QED BY <1>5
<1> HIDE DEF after, G, start
<1>7. \A i \in 0 .. N : after[i] \in Choices
  <2> DEFINE T == {i \in 0 .. N : after[i] \notin Choices}
  <2> SUFFICES ASSUME T # {} PROVE FALSE
    OBVIOUS
  <2>1. PICK m \in T : \A k \in T : ~(k < m)
    <3>1. T \in SUBSET Nat
      OBVIOUS
    <3> HIDE DEF T
    <3> QED BY <3>1, LeastOf
  <2>2. CASE m = 0
    BY <1>1, <1>6, <2>2
  <2>3. CASE m # 0
    <3>1. m \in 1 .. N /\ m - 1 \in 0 .. N /\ m - 1 < m
      BY <1>1, <2>3
    <3>2. after[m - 1] \in Choices
      BY <2>1, <3>1
    <3>3. after[m] = GroupTimer(m, t, current, after[m - 1])
      BY <1>6, <2>3, <3>1
    <3> QED BY <1>1, <3>1, <3>2, <3>3, GroupTimerIs
  <2> QED BY <2>2, <2>3
<1>8. ASSUME NEW g \in Groups, InGroup(t, g), \A i \in g + 1 .. NGroups : ~InGroup(t, i)
      PROVE  after[N] = [light |-> timers.group[g].light, group |-> g]
  <2> DEFINE last == [light |-> timers.group[g].light, group |-> g]
             T == {i \in g .. N : after[i] # last}
  <2>1. g \in 1 .. N /\ g # NoGroup
    BY <1>8 DEF Groups, NoGroup
  <2>2. after[g] = last
    <3>1. g \in 0 .. N /\ g # 0 /\ g - 1 \in 0 .. N
      BY <1>1, <2>1
    <3>2. after[g] = GroupTimer(g, t, current, after[g - 1]) /\ after[g - 1] \in Choices
      BY <1>6, <1>7, <3>1
    <3> QED BY <1>8, <3>2, GroupTimerIs
  <2>3. T = {}
    <3> SUFFICES ASSUME T # {} PROVE FALSE
      OBVIOUS
    <3>1. PICK m \in T : \A k \in T : ~(k < m)
      <4>1. T \in SUBSET Nat
        BY <2>1
      <4> HIDE DEF T
      <4> QED BY <4>1, LeastOf
    <3>2. m # g /\ m \in g + 1 .. N
      BY <1>1, <2>1, <2>2, <3>1
    <3>3. m - 1 \in g .. N /\ m - 1 < m /\ m \in 1 .. N
      BY <1>1, <2>1, <3>2
    <3>4. after[m - 1] = last
      BY <3>1, <3>3
    <3>5. after[m] = GroupTimer(m, t, current, last) /\ last \in Choices
      BY <1>6, <1>7, <2>1, <2>2, <3>3, <3>4
    <3>6. after[m] = last
      BY <1>1, <1>8, <2>1, <3>2, <3>3, <3>5, GroupTimerIs
    <3> QED BY <3>1, <3>6
  <2> QED BY <1>1, <2>1, <2>3
<1> QED BY <1>1, <1>2, <1>7, <1>8

-----------------------------------------------------------------------------
(* The steps.                                                              *)

\* The inductive invariant: lamps that are not fed wait with full light.
Inv ==
    /\ TypeOK
    /\ RelayFollowsTimers
    /\ CurrentIsTold
    /\ ~on_relay => next_light = Full

\* A group of which no lamp was lit past the schedule.
LEMMA LitByHostIs ==
    /\ \A light \in Lights :
          /\ LitByHost(light) \in Lamps
          /\ LitByHost(light).told = light /\ LitByHost(light).shows = light
    /\ Fresh \in [Groups -> Lamps]
<1>1. \A light \in Lights :
          /\ LitByHost(light) \in Lamps
          /\ LitByHost(light).told = light /\ LitByHost(light).shows = light
  BY DEF LitByHost, Lamps
<1> QED BY <1>1, Constants DEF Fresh

LEMMA InitInv == Init => Inv
<1> SUFFICES ASSUME Init PROVE Inv
  OBVIOUS
<1>1. lamps \in [Groups -> Lamps] /\ {current_light, next_light} \subseteq Lights
  BY Constants, LitByHostIs DEF Init
<1>2. cou_broadcast \in 0 .. CouBroadcast
  BY Constants DEF Init
<1>3. TypeOK
  BY <1>1, <1>2 DEF Init, TypeOK
<1> QED BY <1>3 DEF Init, Inv, RelayFollowsTimers, CurrentIsTold

LEMMA SwitchedIs ==
    ASSUME TypeOK, NEW t \in 0 .. Day - 1
    PROVE  /\ Switched(t).lamps \in BOOLEAN /\ Switched(t).relay \in BOOLEAN
           /\ Switched(t).reset \in BOOLEAN
           /\ Switched(t).reset => Switched(t).relay = Switched(t).lamps
           /\ ~Switched(t).reset => Switched(t).relay = on_relay /\ Switched(t).lamps = on_lamps
           /\ WindowsAsk(t) = 0 => Switched(t).lamps = on_lamps
           /\ WindowsAsk(t) > 0 => Switched(t).lamps
           /\ WindowsAsk(t) < 0 => ~Switched(t).lamps
<1>1. WindowsAsk(t) \in {-1, 0, 1} /\ on_lamps \in BOOLEAN /\ on_relay \in BOOLEAN
  BY WindowsAskIs DEF TypeOK
<1>2. CASE WindowsAsk(t) > 0 /\ ~on_lamps
  <2>1. Switched(t) = [lamps |-> TRUE, relay |-> TRUE, reset |-> TRUE]
    BY <1>2 DEF Switched
  <2>2. WindowsAsk(t) # 0 /\ ~(WindowsAsk(t) < 0)
    BY <1>1, <1>2
  <2>3. Switched(t).lamps = TRUE /\ Switched(t).relay = TRUE /\ Switched(t).reset = TRUE
    BY <2>1
  <2> QED BY <2>2, <2>3, Zenon
<1>3. CASE WindowsAsk(t) < 0 /\ on_lamps
  <2>1. Switched(t) = [lamps |-> FALSE, relay |-> FALSE, reset |-> TRUE]
    BY <1>1, <1>3 DEF Switched
  <2>2. WindowsAsk(t) # 0 /\ ~(WindowsAsk(t) > 0)
    BY <1>1, <1>3
  <2>3. Switched(t).lamps = FALSE /\ Switched(t).relay = FALSE /\ Switched(t).reset = TRUE
    BY <2>1
  <2> QED BY <2>2, <2>3, Zenon
<1>4. CASE ~(WindowsAsk(t) > 0 /\ ~on_lamps) /\ ~(WindowsAsk(t) < 0 /\ on_lamps)
  <2>1. Switched(t) = [lamps |-> on_lamps, relay |-> on_relay, reset |-> FALSE]
    BY <1>4 DEF Switched
  <2> QED BY <1>1, <1>4, <2>1
<1> QED BY <1>2, <1>3, <1>4

\* The light of the lamps after the windows, and what the group timers ask.
MinuteCurrent(t) == IF Switched(t).reset THEN Full ELSE current_light
MinuteLight(t) == IF Switched(t).reset THEN Full ELSE next_light
MinuteLamps(t) ==
    IF Switched(t).reset /\ ~(Switched(t).relay /\ on_relay) THEN Fresh ELSE lamps
MinuteNext(t) ==
    IF Switched(t).relay THEN GroupTimers(t, MinuteCurrent(t), MinuteLight(t))
    ELSE [light |-> MinuteLight(t), group |-> NoGroup]
MinuteSends(t) == MinuteNext(t).group # NoGroup /\ MinuteCurrent(t) # MinuteNext(t).light

LEMMA MinuteIs ==
    ASSUME TypeOK, NEW t \in 0 .. Day - 1, Minute(t)
    PROVE  /\ MinuteCurrent(t) \in Lights /\ MinuteNext(t) \in Choices
           /\ MinuteLamps(t) \in [Groups -> Lamps]
           /\ MinuteSends(t) => Switched(t).relay
           /\ on_lamps' = Switched(t).lamps /\ on_relay' = Switched(t).relay
           /\ overridden' = (overridden /\ ~Switched(t).reset)
           /\ next_light' = MinuteNext(t).light
           /\ MinuteSends(t) =>
                 /\ broadcast_group' = MinuteNext(t).group /\ cou_broadcast' = CouBroadcast
                 /\ current_light' = IF running THEN MinuteNext(t).light ELSE MinuteCurrent(t)
                 /\ lamps' = IF running
                             THEN [MinuteLamps(t) EXCEPT ![MinuteNext(t).group] = LitByHost(MinuteNext(t).light)]
                            ELSE MinuteLamps(t)
           /\ ~MinuteSends(t) =>
                 /\ current_light' = MinuteCurrent(t) /\ lamps' = MinuteLamps(t)
                 /\ UNCHANGED <<broadcast_group, cou_broadcast>>
           /\ now' = t /\ UNCHANGED <<error_clock, timers, running>>
<1>1. MinuteCurrent(t) \in Lights /\ MinuteLight(t) \in Lights
  BY Constants DEF TypeOK, MinuteCurrent, MinuteLight
<1>2. MinuteNext(t) \in Choices
  <2>1. [light |-> MinuteLight(t), group |-> NoGroup] \in Choices
    BY <1>1 DEF Choices
  <2>2. GroupTimers(t, MinuteCurrent(t), MinuteLight(t)) \in Choices
    BY <1>1, GroupTimersEnd
  <2> QED BY <2>1, <2>2 DEF MinuteNext
<1>3. MinuteLamps(t) \in [Groups -> Lamps]
  BY LitByHostIs DEF TypeOK, MinuteLamps
<1>4. MinuteSends(t) => Switched(t).relay
  <2>1. ~Switched(t).relay => MinuteNext(t).group = NoGroup
    BY DEF MinuteNext
  <2> QED BY <2>1 DEF MinuteSends
<1>5. /\ on_lamps' = Switched(t).lamps /\ on_relay' = Switched(t).relay
      /\ overridden' = (overridden /\ ~Switched(t).reset)
      /\ next_light' = MinuteNext(t).light
      /\ now' = t /\ UNCHANGED <<error_clock, timers, running>>
  BY DEF Minute, MinuteNext, MinuteCurrent, MinuteLight
<1>6. ASSUME MinuteSends(t)
      PROVE  /\ broadcast_group' = MinuteNext(t).group /\ cou_broadcast' = CouBroadcast
             /\ current_light' = IF running THEN MinuteNext(t).light ELSE MinuteCurrent(t)
             /\ lamps' = IF running
                         THEN [MinuteLamps(t) EXCEPT ![MinuteNext(t).group] = LitByHost(MinuteNext(t).light)]
                        ELSE MinuteLamps(t)
  BY <1>4, <1>6
     DEF Minute, MinuteSends, MinuteNext, MinuteCurrent, MinuteLight, MinuteLamps, Broadcast
<1>7. ASSUME ~MinuteSends(t)
      PROVE  /\ current_light' = MinuteCurrent(t) /\ lamps' = MinuteLamps(t)
             /\ UNCHANGED <<broadcast_group, cou_broadcast>>
  BY <1>7
     DEF Minute, MinuteSends, MinuteNext, MinuteCurrent, MinuteLight, MinuteLamps
<1> QED BY <1>1, <1>2, <1>3, <1>4, <1>5, <1>6, <1>7

LEMMA MinuteInv ==
    ASSUME Inv, NEW t \in 0 .. Day - 1, Minute(t)
    PROVE  Inv'
<1> USE DEF Inv
<1>1. /\ Switched(t).lamps \in BOOLEAN /\ Switched(t).relay \in BOOLEAN
      /\ Switched(t).reset \in BOOLEAN
      /\ Switched(t).reset => Switched(t).relay = Switched(t).lamps
      /\ ~Switched(t).reset => Switched(t).relay = on_relay /\ Switched(t).lamps = on_lamps
  BY SwitchedIs
<1>2. MinuteNext(t).light \in Lights /\ MinuteNext(t).group \in Groups \cup {NoGroup}
  BY MinuteIs DEF Choices
<1>3. TypeOK'
  <2>1. broadcast_group' \in Groups /\ cou_broadcast' \in 0 .. CouBroadcast
    BY <1>2, MinuteIs, Constants DEF MinuteSends, TypeOK
  <2>2. current_light' \in Lights /\ lamps' \in [Groups -> Lamps]
    <3>1. LitByHost(MinuteNext(t).light) \in Lamps
      BY <1>2, LitByHostIs
    <3> QED BY <1>2, <3>1, MinuteIs DEF MinuteSends
  <2>3. overridden \in BOOLEAN /\ running \in BOOLEAN
    BY DEF TypeOK
  <2>4. {on_lamps', on_relay', overridden', running'} \subseteq BOOLEAN
    BY <1>1, <2>3, MinuteIs
  <2> QED BY <1>2, <2>1, <2>2, <2>4, MinuteIs DEF TypeOK
<1>4. RelayFollowsTimers'
  BY <1>1, MinuteIs DEF RelayFollowsTimers, TypeOK
<1>5. CurrentIsTold'
  <2> SUFFICES ASSUME current_light' # Full
               PROVE  on_relay' /\ WasTold(lamps', current_light')
    BY DEF CurrentIsTold
  <2>1. CASE MinuteSends(t) /\ running
    <3>1. MinuteNext(t).group \in Groups
      BY <1>2, <2>1 DEF MinuteSends
    <3>2. lamps'[MinuteNext(t).group] = LitByHost(MinuteNext(t).light)
      BY <2>1, <3>1, MinuteIs
    <3>3. WasTold(lamps', MinuteNext(t).light)
      BY <1>2, <3>1, <3>2, LitByHostIs DEF WasTold
    <3> QED BY <2>1, <3>3, MinuteIs
  <2>2. CASE ~(MinuteSends(t) /\ running)
    <3>1. current_light' = MinuteCurrent(t) /\ lamps' = MinuteLamps(t)
      BY <2>2, MinuteIs DEF TypeOK
    <3>2. ~Switched(t).reset /\ current_light' = current_light
      BY <3>1 DEF MinuteCurrent
    <3>3. lamps' = lamps
      BY <3>1, <3>2 DEF MinuteLamps
    <3> QED BY <1>1, <3>2, <3>3, MinuteIs DEF CurrentIsTold
  <2> QED BY <2>1, <2>2
<1>6. ~on_relay' => next_light' = Full
  <2>1. ~Switched(t).relay => MinuteNext(t).light = MinuteLight(t)
    BY DEF MinuteNext
  <2>2. ~Switched(t).relay => MinuteLight(t) = Full
    BY <1>1 DEF MinuteLight
  <2> QED BY <2>1, <2>2, MinuteIs
<1> QED BY <1>3, <1>4, <1>5, <1>6

LEMMA RepeatInv == Inv /\ Repeat => Inv'
<1> SUFFICES ASSUME Inv, Repeat PROVE Inv'
  OBVIOUS
<1>1. /\ broadcast_group \in Groups /\ lamps \in [Groups -> Lamps] /\ next_light \in Lights
      /\ current_light \in Lights /\ running \in BOOLEAN /\ on_relay \in BOOLEAN
      /\ cou_broadcast \in 0 .. CouBroadcast /\ CouBroadcast \in Nat
  BY Constants DEF Inv, TypeOK
<1>2. /\ current_light' = IF running THEN next_light ELSE current_light
      /\ lamps' = IF running /\ on_relay
                  THEN [lamps EXCEPT ![broadcast_group] = LitByHost(next_light)] ELSE lamps
      /\ cou_broadcast' = cou_broadcast - 1 /\ cou_broadcast > 0
      /\ UNCHANGED <<now, error_clock, timers, relayVars, next_light, broadcast_group, running>>
  BY DEF Repeat, Broadcast
<1>3. TypeOK'
  <2>1. lamps' \in [Groups -> Lamps] /\ current_light' \in Lights
    BY <1>1, <1>2, LitByHostIs
  <2>2. cou_broadcast' \in 0 .. CouBroadcast
    BY <1>1, <1>2
  <2> QED BY <1>2, <2>1, <2>2 DEF Inv, TypeOK, relayVars
<1>4. CurrentIsTold'
  <2>1. CASE ~running
    BY <1>2, <2>1 DEF Inv, CurrentIsTold, relayVars
  <2>2. CASE running /\ ~on_relay
    BY <1>2, <2>2 DEF Inv, CurrentIsTold, relayVars
  <2>3. CASE running /\ on_relay
    <3>1. lamps'[broadcast_group] = LitByHost(next_light)
      BY <1>1, <1>2, <2>3
    <3>2. WasTold(lamps', next_light)
      BY <1>1, <3>1, LitByHostIs DEF WasTold
    <3>3. current_light' = next_light /\ on_relay'
      BY <1>2, <2>3 DEF relayVars
    <3>4. WasTold(lamps', current_light')
      BY <3>2, <3>3, Zenon
    <3> QED BY <3>3, <3>4, Zenon DEF CurrentIsTold
  <2> QED BY <1>1, <2>1, <2>2, <2>3
<1> QED BY <1>2, <1>3, <1>4 DEF Inv, RelayFollowsTimers, relayVars

LEMMA CommandInv ==
    ASSUME Inv, NEW on \in BOOLEAN, Command(on)
    PROVE  Inv'
<1>1. lamps' \in [Groups -> Lamps]
  BY LitByHostIs DEF Command, SwitchRelay, Inv, TypeOK
<1>2. TypeOK'
  BY <1>1, Constants DEF Command, SwitchRelay, Inv, TypeOK
<1> QED BY <1>2 DEF Command, SwitchRelay, Inv, RelayFollowsTimers, CurrentIsTold

\* Light asked for past the schedule leaves what the host told alone.
LEMMA LitDirectlyInv ==
    ASSUME Inv, NEW groups \in SUBSET Groups, NEW light \in Lights, LitDirectly(groups, light)
    PROVE  Inv'
<1>1. /\ lamps \in [Groups -> Lamps]
      /\ UNCHANGED <<now, error_clock, timers, relayVars, current_light, next_light,
                     broadcast_group, cou_broadcast, running>>
  BY DEF Inv, TypeOK, LitDirectly
<1>2. \A g \in Groups :
         /\ lamps'[g] \in Lamps /\ lamps'[g].told = lamps[g].told
         /\ lamps'[g] = lamps[g] \/ lamps'[g].by = "other"
  BY <1>1 DEF LitDirectly, Lamps
<1>3. lamps' \in [Groups -> Lamps]
  BY <1>2 DEF LitDirectly
<1>4. TypeOK'
  BY <1>1, <1>3 DEF Inv, TypeOK, relayVars
<1>5. CurrentIsTold'
  <2>1. current_light' = current_light /\ on_relay' = on_relay
    BY <1>1 DEF relayVars
  <2> QED BY <1>2, <2>1 DEF Inv, CurrentIsTold, WasTold
<1> QED BY <1>1, <1>4, <1>5 DEF Inv, RelayFollowsTimers, relayVars

LEMMA NextInv == Inv /\ [Next]_vars => Inv'
<1> SUFFICES ASSUME Inv, [Next]_vars PROVE Inv'
  OBVIOUS
<1>1. ASSUME NEW t \in 0 .. Day - 1, MinuteBadClock(t) PROVE Inv'
  BY <1>1 DEF MinuteBadClock, Inv, TypeOK, RelayFollowsTimers, CurrentIsTold,
              relayVars, lightVars
<1>2. ASSUME NEW s \in Timers, SetTimers(s) PROVE Inv'
  BY <1>2 DEF SetTimers, Inv, TypeOK, RelayFollowsTimers, CurrentIsTold,
              relayVars, lightVars
<1>3. CASE ClockFails
  BY <1>3 DEF ClockFails, Inv, TypeOK, RelayFollowsTimers, CurrentIsTold,
              relayVars, lightVars
<1>4. CASE ModuleChanges
  BY <1>4 DEF ModuleChanges, Inv, TypeOK, RelayFollowsTimers, CurrentIsTold,
              relayVars, lightVars
<1>5. CASE UNCHANGED vars
  BY <1>5 DEF vars, Inv, TypeOK, RelayFollowsTimers, CurrentIsTold,
              relayVars, lightVars
<1>6. ASSUME NEW light \in ConsoleLights, ConsoleKey(light) PROVE Inv'
  BY <1>6, LitDirectlyInv, Constants DEF ConsoleKey
<1>7. ASSUME NEW g \in Groups, NEW light \in ClientLights, ClientPacket(g, light) PROVE Inv'
  BY <1>7, LitDirectlyInv, Constants DEF ClientPacket
<1> QED BY <1>1, <1>2, <1>3, <1>4, <1>5, <1>6, <1>7, MinuteInv, RepeatInv, CommandInv DEF Next

\* Only a minute with a good clock moves now while the clock is good.
LEMMA OnlyMinute ==
    ASSUME [Next]_vars, now' # now, ~error_clock
    PROVE  \E t \in 0 .. Day - 1 : Minute(t)
BY DEF Next, MinuteBadClock, Repeat, Command, ConsoleKey, ClientPacket, LitDirectly,
       SetTimers, ClockFails, ModuleChanges, vars

\* The schedule's state keeps its types.
THEOREM ScheduleTypeCorrect == Spec => []TypeOK
<1>1. Inv => TypeOK
  BY DEF Inv
<1> QED BY InitInv, NextInv, <1>1, PTL DEF Spec

\* Once the windows have switched since a client did, relay and windows agree
\* (OnTimer and OffTimer in sub.c).
THEOREM RelayFollows == Spec => []RelayFollowsTimers
<1>1. Inv => RelayFollowsTimers
  BY DEF Inv
<1> QED BY InitInv, NextInv, <1>1, PTL DEF Spec

\* The light the host believes in was told to a group fed since, whose lamps
\* show it unless the console or a client's packet lit them past the schedule.
THEOREM CurrentWasTold == Spec => []CurrentIsTold
<1>1. Inv => CurrentIsTold
  BY DEF Inv
<1> QED BY InitInv, NextInv, <1>1, PTL DEF Spec

\* Every minute with a good clock leaves on_lamps as the two windows ask,
\* across midnight too.
THEOREM LampsFollowTimers == Spec => FollowsTimers
<1> DEFINE Asked ==
      IF timers.on1 = timers.off1 THEN on_lamps' = on_lamps
      ELSE on_lamps' = (InWindow(now', timers.on1, timers.off1) \/
                        InWindow(now', timers.on2, timers.off2))
<1>1. Inv /\ [Next]_vars => [now' # now /\ ~error_clock => Asked]_vars
  <2> SUFFICES ASSUME Inv, [Next]_vars, now' # now, ~error_clock PROVE Asked
    OBVIOUS
  <2>1. PICK t \in 0 .. Day - 1 : Minute(t)
    BY OnlyMinute
  <2>2. now' = t /\ on_lamps' = Switched(t).lamps
    BY <2>1, MinuteIs DEF Inv
  <2> QED BY <2>2, WindowsAskIs, SwitchedIs DEF Inv
<1> QED BY InitInv, NextInv, <1>1, PTL DEF Spec, FollowsTimers

\* The light of the last group timer that is on is the one the host settles
\* on, when the module is there to tell it.
THEOREM SettlesOnLastTimer == Spec => SettlesOnTimer
<1> DEFINE Settled ==
      \A g \in Groups :
          (LET In(i) == InWindow(now', timers.group[i].on, timers.group[i].off)
           IN In(g) /\ \A i \in g + 1 .. NGroups : ~In(i))
          => current_light' = timers.group[g].light
<1>1. Inv /\ [Next]_vars
        => [now' # now /\ ~error_clock /\ running /\ on_relay' => Settled]_vars
  <2> SUFFICES ASSUME Inv, [Next]_vars, now' # now, ~error_clock, running, on_relay',
                      NEW g \in Groups,
                      InWindow(now', timers.group[g].on, timers.group[g].off),
                      \A i \in g + 1 .. NGroups :
                         ~InWindow(now', timers.group[i].on, timers.group[i].off)
               PROVE  current_light' = timers.group[g].light
    OBVIOUS
  <2>1. PICK t \in 0 .. Day - 1 : Minute(t)
    BY OnlyMinute
  <2>2. now' = t /\ Switched(t).relay
    BY <2>1, MinuteIs DEF Inv
  <2>3. InGroup(t, g) /\ \A i \in g + 1 .. NGroups : ~InGroup(t, i)
    BY <2>2 DEF InGroup
  <2>4. MinuteLight(t) \in Lights
    BY Constants DEF MinuteLight, Inv, TypeOK
  <2>5. MinuteNext(t) = [light |-> timers.group[g].light, group |-> g]
    BY <2>2, <2>3, <2>4, GroupTimersEnd DEF MinuteNext, Inv
  <2>6. MinuteNext(t).light = timers.group[g].light /\ MinuteNext(t).group # NoGroup
    BY <2>5 DEF Groups, NoGroup
  <2>7. CASE MinuteSends(t)
    BY <2>1, <2>6, <2>7, MinuteIs DEF Inv
  <2>8. CASE ~MinuteSends(t)
    <3>1. MinuteCurrent(t) = MinuteNext(t).light
      BY <2>6, <2>8 DEF MinuteSends
    <3> QED BY <2>1, <2>6, <2>8, <3>1, MinuteIs DEF Inv
  <2> QED BY <2>7, <2>8
<1> QED BY InitInv, NextInv, <1>1, PTL DEF Spec, SettlesOnTimer

-----------------------------------------------------------------------------
(* The reset of the modem costs at most one due minute for every fault.    *)

\* Every period is due in two hours of the day, or in two minutes of the hour.
Often == \A p \in Periods : p[1] < Hours /\ (p[1] = 0 => p[2] < Minutes)

\* The last due minute, with a period in hours, was in hour l.
DueHour(l) ==
    /\ l % period[1] = 0
    /\ \/ /\ l <= hour /\ (l = hour => period[2] <= minute)
          /\ \A h \in l + 1 .. hour : h % period[1] = 0 => h = hour /\ minute < period[2]
       \/ /\ hour = 0 /\ minute < period[2] /\ l > 0
          /\ \A h \in l + 1 .. Hours - 1 : h % period[1] # 0

\* The last due minute, with a period in minutes, was minute l of this hour.
DueMinute(l) ==
    /\ l % period[2] = 0 /\ l <= minute
    /\ \A m \in l + 1 .. minute : m % period[2] # 0

\* The latch in use holds the last due hour or minute, so not the next one.
LatchHolds ==
    IF period[1] # 0
    THEN old_resetGPRShours = None \/ period[2] >= Minutes \/ DueHour(old_resetGPRShours)
    ELSE period[2] = 0 \/ old_resetGPRSminuts = None \/ DueMinute(old_resetGPRSminuts)

ResetInv ==
    /\ ResetTypeOK
    /\ skips <= faults
    /\ skips = faults => LatchHolds
    /\ first_wait_resetGPRSminuts > 0 =>
          old_resetGPRShours = None /\ old_resetGPRSminuts = None

LEMMA ResetConstants ==
    /\ Hours \in Nat /\ Hours > 0 /\ Minutes \in Nat /\ Minutes > 0
    /\ FirstWait \in Nat /\ MaxFaults \in Nat
    /\ \A p \in Periods : p[1] \in Nat /\ p[2] \in Nat
  BY ResetAssumption

LEMMA ZeroIsDue ==
    ASSUME NEW n \in Nat, n > 0
    PROVE  0 % n = 0 /\ n % n = 0
  OBVIOUS

\* One minute later.
LEMMA NextMinute ==
    ASSUME ResetTypeOK
    PROVE  \/ minute + 1 < Minutes /\ HourAfter(1) = hour /\ MinuteAfter(1) = minute + 1
           \/ /\ minute + 1 = Minutes /\ MinuteAfter(1) = 0
              /\ \/ hour + 1 < Hours /\ HourAfter(1) = hour + 1
                 \/ hour + 1 = Hours /\ HourAfter(1) = 0
<1>1. /\ hour \in Nat /\ hour < Hours /\ minute \in Nat /\ minute < Minutes
      /\ Hours \in Nat /\ Minutes \in Nat
  BY ResetConstants DEF ResetTypeOK
<1>2. CASE minute + 1 < Minutes
  <2>1. (minute + 1) \div Minutes = 0 /\ (minute + 1) % Minutes = minute + 1
    BY <1>1, <1>2
  <2>2. (hour + 0) % Hours = hour
    BY <1>1
  <2> QED BY <1>2, <2>1, <2>2 DEF HourAfter, MinuteAfter
<1>3. CASE minute + 1 = Minutes
  <2>1. (minute + 1) \div Minutes = 1 /\ (minute + 1) % Minutes = 0
    BY <1>1, <1>3
  <2>2. CASE hour + 1 < Hours
    <3>1. (hour + 1) % Hours = hour + 1
      BY <1>1, <2>2
    <3> QED BY <1>3, <2>1, <2>2, <3>1 DEF HourAfter, MinuteAfter
  <2>3. CASE hour + 1 = Hours
    <3>1. (hour + 1) % Hours = 0
      BY <1>1, <2>3
    <3> QED BY <1>3, <2>1, <2>3, <3>1 DEF HourAfter, MinuteAfter
  <2> QED BY <1>1, <2>2, <2>3
<1> QED BY <1>1, <1>2, <1>3

LEMMA TimeAfter ==
    ASSUME NEW k \in Nat, ResetTypeOK
    PROVE  HourAfter(k) \in 0 .. Hours - 1 /\ MinuteAfter(k) \in 0 .. Minutes - 1
<1>1. /\ hour \in Nat /\ minute \in Nat
      /\ Hours \in Nat /\ Minutes \in Nat /\ Hours > 0 /\ Minutes > 0
  BY ResetConstants DEF ResetTypeOK
<1>2. \A n \in Nat, d \in Nat : d > 0 => n % d \in 0 .. d - 1 /\ n \div d \in Nat
  OBVIOUS
<1>3. minute + k \in Nat /\ (minute + k) \div Minutes \in Nat
  BY <1>1, <1>2
<1>4. hour + (minute + k) \div Minutes \in Nat
  BY <1>1, <1>3
<1> QED BY <1>1, <1>2, <1>3, <1>4 DEF HourAfter, MinuteAfter

\* Nothing is due in the minute after a time whose latch holds, or another hour
\* or minute than the latch's; and the latch still holds then.
LEMMA HoldsOn ==
    ASSUME ResetTypeOK, Often, LatchHolds, Advance(1), UNCHANGED latches
    PROVE  /\ Due(HourAfter(1), MinuteAfter(1)) => Unlatched(HourAfter(1), MinuteAfter(1))
           /\ ~Due(HourAfter(1), MinuteAfter(1)) => LatchHolds'
<1>1. /\ period \in Periods /\ period[1] \in Nat /\ period[2] \in Nat
      /\ period[1] < Hours /\ (period[1] = 0 => period[2] < Minutes)
      /\ hour \in 0 .. Hours - 1 /\ minute \in 0 .. Minutes - 1 /\ Hours \in Nat /\ Minutes \in Nat
      /\ old_resetGPRShours \in {None} \cup 0 .. Hours - 1
      /\ old_resetGPRSminuts \in {None} \cup 0 .. Minutes - 1
  BY ResetConstants DEF ResetTypeOK, Often
<1>2. /\ hour' = HourAfter(1) /\ minute' = MinuteAfter(1) /\ period' = period
      /\ old_resetGPRShours' = old_resetGPRShours /\ old_resetGPRSminuts' = old_resetGPRSminuts
  BY DEF Advance, latches
<1>3. \/ minute + 1 < Minutes /\ hour' = hour /\ minute' = minute + 1
      \/ /\ minute + 1 = Minutes /\ minute' = 0
         /\ \/ hour + 1 < Hours /\ hour' = hour + 1
            \/ hour + 1 = Hours /\ hour' = 0
  BY <1>2, NextMinute
<1>4. CASE period[1] # 0
  <2> DEFINE At(h) == h % period[1] = 0
             l == old_resetGPRShours
             q == period[2]
  <2>1. At(0) /\ At(period[1])
    BY <1>1, <1>4, ZeroIsDue
  <2>2. l = None \/ q >= Minutes \/ DueHour(l)
    BY <1>4 DEF LatchHolds
  <2>3. Due(hour', minute') <=> At(hour') /\ minute' = q
    BY <1>4 DEF Due
  <2>4. Unlatched(hour', minute') <=> l # hour'
    BY <1>4 DEF Unlatched
  <2>5. LatchHolds' <=> l = None \/ q >= Minutes \/ DueHour(l)'
    BY <1>2, <1>4 DEF LatchHolds
  <2>6. DueHour(l) <=>
           /\ At(l)
           /\ \/ /\ l <= hour /\ (l = hour => q <= minute)
                 /\ \A h \in l + 1 .. hour : At(h) => h = hour /\ minute < q
              \/ /\ hour = 0 /\ minute < q /\ l > 0
                 /\ \A h \in l + 1 .. Hours - 1 : ~At(h)
    BY DEF DueHour
  <2>7. DueHour(l)' <=>
           /\ At(l)
           /\ \/ /\ l <= hour' /\ (l = hour' => q <= minute')
                 /\ \A h \in l + 1 .. hour' : At(h) => h = hour' /\ minute' < q
              \/ /\ hour' = 0 /\ minute' < q /\ l > 0
                 /\ \A h \in l + 1 .. Hours - 1 : ~At(h)
    BY <1>2 DEF DueHour
  <2> HIDE DEF At, l, q
  <2>8. CASE l = None
    <3>1. hour' # None
      BY <1>1, <1>3 DEF None
    <3> QED BY <1>2, <2>4, <2>5, <2>8, <3>1
  <2>9. CASE q >= Minutes
    <3>1. minute' # q
      BY <1>1, <1>3, <2>9 DEF q
    <3> QED BY <1>2, <2>3, <2>5, <2>9, <3>1
  <2>10. CASE l # None /\ q < Minutes /\ DueHour(l)
    <3>1. l \in 0 .. Hours - 1 /\ q \in Nat
      BY <1>1, <2>10 DEF l, q
    <3>2. At(hour') /\ minute' = q => l # hour'
      BY <1>1, <1>3, <1>4, <2>1, <2>6, <2>10, <3>1
    <3>3. ~(At(hour') /\ minute' = q) => DueHour(l)'
      BY <1>1, <1>3, <1>4, <2>1, <2>6, <2>7, <2>10, <3>1
    <3> QED BY <1>2, <2>3, <2>4, <2>5, <3>2, <3>3
  <2> QED BY <1>1, <2>2, <2>8, <2>9, <2>10 DEF q
<1>5. CASE period[1] = 0
  <2> DEFINE At(m) == m % period[2] = 0
             l == old_resetGPRSminuts
  <2>1. Due(hour', minute') <=> period[2] # 0 /\ At(minute')
    BY <1>5 DEF Due
  <2>2. Unlatched(hour', minute') <=> l # minute'
    BY <1>5 DEF Unlatched
  <2>3. LatchHolds' <=> period[2] = 0 \/ l = None \/ DueMinute(l)'
    BY <1>2, <1>5 DEF LatchHolds
  <2>4. period[2] = 0 \/ l = None \/ DueMinute(l)
    BY <1>5 DEF LatchHolds
  <2>5. CASE period[2] = 0
    BY <1>2, <2>1, <2>3, <2>5
  <2>6. CASE l = None
    <3>1. minute' # None
      BY <1>1, <1>3 DEF None
    <3> QED BY <1>2, <2>2, <2>3, <2>6, <3>1
  <2>7. CASE period[2] # 0 /\ l # None /\ DueMinute(l)
    <3>1. At(0) /\ At(period[2])
      BY <1>1, <2>7, ZeroIsDue
    <3>2. At(l) /\ l <= minute /\ \A m \in l + 1 .. minute : ~At(m)
      BY <2>7 DEF DueMinute
    <3>3. DueMinute(l)' <=> At(l) /\ l <= minute' /\ \A m \in l + 1 .. minute' : ~At(m)
      BY <1>2 DEF DueMinute
    <3> HIDE DEF At, l
    <3>4. l \in 0 .. Minutes - 1
      BY <1>1, <2>7 DEF l
    <3>5. At(minute') => l # minute'
      BY <1>1, <1>3, <1>5, <2>7, <3>1, <3>2, <3>4
    <3>6. ~At(minute') => DueMinute(l)'
      BY <1>1, <1>3, <3>1, <3>2, <3>3, <3>4
    <3> QED BY <1>2, <2>1, <2>2, <2>3, <3>5, <3>6
  <2> QED BY <2>4, <2>5, <2>6, <2>7
<1> QED BY <1>4, <1>5

LEMMA NothingBetween ==
    ASSUME NEW n \in Nat
    PROVE  n <= n /\ \A m \in n + 1 .. n : FALSE
  OBVIOUS

\* A minute that was due is the last one that was: the latch that stops it, or
\* that it sets, holds.
LEMMA DueHolds ==
    ASSUME ResetTypeOK', Due(hour', minute'), UNCHANGED period,
           period[1] # 0 => old_resetGPRShours' = hour',
           period[1] = 0 => old_resetGPRSminuts' = minute'
    PROVE  LatchHolds'
<1>1. hour' \in Nat /\ minute' \in Nat
  BY ResetConstants DEF ResetTypeOK
<1>2. CASE period[1] # 0
  <2>1. hour' % period'[1] = 0 /\ minute' = period'[2] /\ old_resetGPRShours' = hour'
    BY <1>2 DEF Due
  <2>2. hour' <= hour' /\ minute' <= minute' /\ \A h \in hour' + 1 .. hour' : FALSE
    BY <1>1, NothingBetween
  <2>3. DueHour(old_resetGPRShours)'
    BY <2>1, <2>2, Zenon DEF DueHour
  <2> QED BY <1>2, <2>3 DEF LatchHolds
<1>3. CASE period[1] = 0
  <2>1. minute' % period'[2] = 0 /\ old_resetGPRSminuts' = minute'
    BY <1>3 DEF Due
  <2>2. minute' <= minute' /\ \A m \in minute' + 1 .. minute' : FALSE
    BY <1>1, NothingBetween
  <2>3. DueMinute(old_resetGPRSminuts)'
    BY <2>1, <2>2, Zenon DEF DueMinute
  <2> QED BY <1>3, <2>3 DEF LatchHolds
<1> QED BY <1>2, <1>3

LEMMA ProcessTypes ==
    ASSUME ResetTypeOK, NEW k \in Nat, Process(k), faults' \in 0 .. MaxFaults
    PROVE  ResetTypeOK' /\ (skips' = skips \/ skips' = skips + 1)
<1>1. hour' \in 0 .. Hours - 1 /\ minute' \in 0 .. Minutes - 1 /\ period' = period
  BY TimeAfter DEF Process, Advance
<1>2. /\ old_resetGPRShours' \in {old_resetGPRShours, hour'}
      /\ old_resetGPRSminuts' \in {old_resetGPRSminuts, minute'}
  BY DEF Process, Advance, Wait, Reset, Pass, latches
<1>3. skips' = skips \/ skips' = skips + 1
  BY DEF Process, Wait, Reset, Pass
<1>4. first_wait_resetGPRSminuts' \in 0 .. FirstWait
  <2>1. \/ first_wait_resetGPRSminuts' = first_wait_resetGPRSminuts
        \/ /\ first_wait_resetGPRSminuts > 0
           /\ first_wait_resetGPRSminuts' = first_wait_resetGPRSminuts - 1
    BY DEF Process, Wait, Reset, Pass
  <2> QED BY <2>1, ResetConstants DEF ResetTypeOK
<1> QED BY <1>1, <1>2, <1>3, <1>4 DEF ResetTypeOK

\* Whenever a minute is skipped, or resets the modem, the latch holds after it.
LEMMA ProcessHolds ==
    ASSUME ResetInv, NEW k \in Nat, Process(k), ResetTypeOK'
    PROVE  /\ skips' # skips => LatchHolds' /\ Due(hour', minute') /\ ~Unlatched(hour', minute')
           /\ \/ UNCHANGED latches
              \/ LatchHolds' /\ first_wait_resetGPRSminuts = 0
           /\ first_wait_resetGPRSminuts' > 0 => UNCHANGED latches /\ first_wait_resetGPRSminuts > 0
<1>1. hour' = HourAfter(k) /\ minute' = MinuteAfter(k) /\ period' = period
  BY DEF Process, Advance
<1>2. CASE Wait
  BY <1>2 DEF Wait, ResetInv, ResetTypeOK
<1>3. CASE Reset(HourAfter(k), MinuteAfter(k))
  <2>1. /\ Due(hour', minute') /\ first_wait_resetGPRSminuts = 0 /\ skips' = skips
        /\ first_wait_resetGPRSminuts' = 0
        /\ period[1] # 0 => old_resetGPRShours' = hour'
        /\ period[1] = 0 => old_resetGPRSminuts' = minute'
    BY <1>1, <1>3 DEF Reset, Resets
  <2>2. LatchHolds'
    BY <1>1, <2>1, DueHolds
  <2> QED BY <2>1, <2>2
<1>4. CASE Pass(HourAfter(k), MinuteAfter(k))
  <2>1. UNCHANGED latches /\ first_wait_resetGPRSminuts' = 0
    BY <1>4 DEF Pass
  <2>2. ASSUME skips' # skips
        PROVE  LatchHolds' /\ Due(hour', minute') /\ ~Unlatched(hour', minute')
    <3>1. Due(hour', minute') /\ ~Unlatched(hour', minute')
      BY <1>1, <1>4, <2>2 DEF Pass, Resets
    <3>2. /\ period[1] # 0 => old_resetGPRShours' = hour'
          /\ period[1] = 0 => old_resetGPRSminuts' = minute'
      BY <2>1, <3>1 DEF Unlatched, latches
    <3> QED BY <1>1, <3>1, <3>2, DueHolds
  <2> QED BY <2>1, <2>2
<1> QED BY <1>2, <1>3, <1>4 DEF Process

LEMMA ResetStep ==
    ASSUME Often, ResetInv, [ResetNext]_resetVars
    PROVE  ResetInv'
<1>1. ResetTypeOK /\ skips \in Nat /\ faults \in Nat /\ skips <= faults
  BY ResetConstants DEF ResetInv, ResetTypeOK
<1>2. CASE MinuteChanges
  <2>1. Process(1) /\ faults' = faults /\ faults' \in 0 .. MaxFaults
    BY <1>1, <1>2 DEF MinuteChanges, ResetTypeOK
  <2>2. ResetTypeOK' /\ (skips' = skips \/ skips' = skips + 1)
    BY <1>1, <2>1, ProcessTypes
  <2>3. /\ skips' # skips => LatchHolds' /\ Due(hour', minute') /\ ~Unlatched(hour', minute')
        /\ \/ UNCHANGED latches
           \/ LatchHolds' /\ first_wait_resetGPRSminuts = 0
        /\ first_wait_resetGPRSminuts' > 0 => UNCHANGED latches /\ first_wait_resetGPRSminuts > 0
    BY <2>1, <2>2, ProcessHolds
  <2>4. Advance(1) /\ hour' = HourAfter(1) /\ minute' = MinuteAfter(1)
    BY <2>1 DEF Process, Advance
  <2>5. ASSUME LatchHolds
        PROVE  LatchHolds' /\ skips' = skips
    <3>1. CASE UNCHANGED latches
      <4>1. /\ Due(hour', minute') => Unlatched(hour', minute')
            /\ ~Due(hour', minute') => LatchHolds'
        BY <1>1, <2>4, <2>5, <3>1, HoldsOn
      <4>2. skips' = skips
        BY <2>3, <4>1
      <4>3. CASE Due(hour', minute')
        <5>1. first_wait_resetGPRSminuts = 0 => Reset(hour', minute')
          BY <2>1, <2>4, <4>1, <4>3 DEF Process, Pass, Wait, Reset, Resets
        <5>2. CASE Reset(hour', minute')
          <6>1. /\ period[1] # 0 => old_resetGPRShours' = hour'
                /\ period[1] = 0 => old_resetGPRSminuts' = minute'
            BY <5>2 DEF Reset
          <6> QED BY <2>2, <2>4, <4>2, <4>3, <6>1, DueHolds DEF Advance
        <5>3. CASE first_wait_resetGPRSminuts # 0
          <6>1. old_resetGPRShours' = None /\ old_resetGPRSminuts' = None
            BY <3>1, <5>3, ResetConstants DEF ResetInv, ResetTypeOK, latches
          <6> QED BY <4>2, <6>1 DEF LatchHolds
        <5> QED BY <5>1, <5>2, <5>3
      <4> QED BY <4>1, <4>2, <4>3
    <3>2. CASE LatchHolds' /\ first_wait_resetGPRSminuts = 0 /\ ~UNCHANGED latches
      <4>1. Reset(HourAfter(1), MinuteAfter(1))
        BY <2>1, <3>2 DEF Process, Wait, Pass
      <4> QED BY <3>2, <4>1 DEF Reset
    <3> QED BY <2>3, <3>1, <3>2
  <2>6. skips' <= faults' /\ (skips' = faults' => LatchHolds')
    BY <1>1, <2>1, <2>2, <2>3, <2>5 DEF ResetInv
  <2> QED BY <2>2, <2>3, <2>6 DEF ResetInv, latches
<1>3. ASSUME NEW k \in 2 .. MaxStall, Stall(k)
      PROVE  ResetInv'
  <2>1. k \in Nat /\ Process(k) /\ faults' = faults + 1 /\ faults' \in 0 .. MaxFaults
    BY <1>1, <1>3, ResetConstants DEF Stall, Fault
  <2>2. ResetTypeOK' /\ (skips' = skips \/ skips' = skips + 1)
    BY <1>1, <2>1, ProcessTypes
  <2>3. /\ skips' # skips => LatchHolds'
        /\ first_wait_resetGPRSminuts' > 0 => UNCHANGED latches /\ first_wait_resetGPRSminuts > 0
    BY <2>1, <2>2, ProcessHolds
  <2>4. skips' <= faults' /\ (skips' = faults' => LatchHolds')
    BY <1>1, <2>1, <2>2, <2>3
  <2> QED BY <2>2, <2>3, <2>4 DEF ResetInv, latches
<1>4. CASE BadClock
  <2>1. /\ faults' = faults + 1 /\ faults' \in 0 .. MaxFaults /\ Advance(1)
        /\ UNCHANGED <<latches, first_wait_resetGPRSminuts, skips>>
    BY <1>1, <1>4, ResetConstants DEF BadClock, Fault
  <2>2. hour' \in 0 .. Hours - 1 /\ minute' \in 0 .. Minutes - 1 /\ period' = period
    BY <1>1, <2>1, TimeAfter DEF Advance
  <2>3. ResetTypeOK'
    BY <1>1, <2>1, <2>2 DEF ResetTypeOK, latches
  <2> QED BY <1>1, <2>1, <2>3 DEF ResetInv, latches
<1>5. CASE Reconfigure
  <2>1. /\ faults' = faults + 1 /\ faults' \in 0 .. MaxFaults /\ period' \in Periods
        /\ UNCHANGED <<hour, minute, latches, first_wait_resetGPRSminuts, skips>>
    BY <1>1, <1>5, ResetConstants DEF Reconfigure, Fault
  <2>2. ResetTypeOK'
    BY <1>1, <2>1 DEF ResetTypeOK, latches
  <2> QED BY <1>1, <2>1, <2>2 DEF ResetInv, latches
<1>6. CASE UNCHANGED resetVars
  BY <1>6 DEF resetVars, latches, ResetInv, ResetTypeOK, LatchHolds, DueHour, DueMinute
<1> QED BY <1>2, <1>3, <1>4, <1>5, <1>6 DEF ResetNext

\* The latches cost at most one due reset for every missed minute, bad clock
\* reading or new configuration, for every period that is due twice.
THEOREM ResetsAreSkippedForFaults ==
    ASSUME Often
    PROVE  ResetSpec => []SkipsBounded
<1>1. ResetInit => ResetInv
  BY ResetConstants DEF ResetInit, ResetInv, ResetTypeOK, LatchHolds
<1>2. ResetInv /\ [ResetNext]_resetVars => ResetInv'
  BY ResetStep
<1>3. ResetInv => SkipsBounded
  BY DEF ResetInv, SkipsBounded
<1> QED BY <1>1, <1>2, <1>3, PTL DEF ResetSpec
=============================================================================
