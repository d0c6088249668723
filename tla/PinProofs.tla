------------------------------ MODULE PinProofs ------------------------------
(* What the battery-backed memory and the EEPROM hold while the program    *)
(* works: a configuration and timers that agree with their sums, and a     *)
(* whole PIN, for blocks of every size, every number of values of a byte   *)
(* and any sequence of commands and power failures.                        *)
EXTENDS Pin, SequenceTheorems, WellFoundedInduction, TLAPS

-----------------------------------------------------------------------------
(* Sums.  What holds of every number of bytes is shown by a least          *)
(* counterexample.                                                         *)

LEMMA LeastOf ==
    ASSUME NEW T \in SUBSET Nat, T # {}
    PROVE  \E m \in T : \A k \in T : ~(k < m)
<1>1. PICK m \in T : \A k \in T : <<k, m>> \notin OpToRel(<, Nat)
  BY WFMin, NatLessThanWellFounded, Zenon
<1> QED BY <1>1, Zenon DEF OpToRel

LEMMA Constants ==
    /\ W \in Nat \ {0} /\ ConfigSize \in Nat \ {0} /\ TimersSize \in Nat \ {0, 1}
    /\ \A b \in Blocks : Size(b) \in Nat \ {0}
    /\ 0 \in Byte
  BY NvRamAssumption DEF NvRamAssumption, Blocks, Size, Byte

LEMMA Remainder ==
    ASSUME NEW x \in Byte, NEW y \in Byte
    PROVE  (x + y) % W \in Byte
<1>1. x + y \in Int /\ W \in Int /\ W > 0
  BY Constants DEF Byte
<1> QED BY <1>1 DEF Byte

\* A cleared block agrees with a sum of zero.
LEMMA SumZero ==
    ASSUME NEW b \in Blocks
    PROVE  Sum(Zero(b)) = 0
<1> DEFINE L == Size(b)
           z == Zero(b)
           Step(s) == [n \in 0 .. L |-> IF n = 0 THEN 0 ELSE (s[n - 1] + z[n]) % W]
           s == CHOOSE s : s = Step(s)
           g == [n \in 0 .. L |-> 0]
<1>0. L \in Nat /\ Len(z) = L /\ \A n \in 1 .. L : z[n] = 0
  BY Constants DEF Zero
<1> HIDE DEF L, z
<1>1. Sum(z) = s[L]
  BY <1>0 DEF Sum
<1>2. g = Step(g)
  <2>1. \A n \in 0 .. L : n # 0 => g[n - 1] = 0 /\ z[n] = 0
    BY <1>0
  <2>2. (0 + 0) % W = 0
    BY Constants
  <2> QED BY <2>1, <2>2
<1>3. s = Step(s)
  <2> HIDE DEF g, Step
  <2> QED BY <1>2
<1> HIDE DEF s
<1>4. \A n \in 0 .. L : s[n] = 0
  <2> DEFINE T == {n \in 0 .. L : s[n] # 0}
  <2> SUFFICES ASSUME T # {} PROVE FALSE
    OBVIOUS
  <2>1. PICK m \in T : \A k \in T : ~(k < m)
    <3>1. T \in SUBSET Nat
      BY <1>0
    <3> HIDE DEF T
    <3> QED BY <3>1, LeastOf
  <2>2. CASE m = 0
    BY <1>3, <2>2
  <2>3. CASE m # 0
    <3>1. m - 1 \in 0 .. L /\ m - 1 < m /\ s[m - 1] = 0
      BY <1>0, <2>1, <2>3
    <3>2. m \in 0 .. L /\ m \in 1 .. L
      BY <1>0, <2>1, <2>3
    <3>3. z[m] = 0
      BY <1>0, <3>2
    <3>4. s[m] = (s[m - 1] + z[m]) % W
      BY <1>3, <2>3, <3>2
    <3>5. s[m] = (0 + 0) % W
      BY <3>1, <3>3, <3>4
    <3> QED BY <2>1, <3>5, Constants
  <2> QED BY <2>2, <2>3
<1> QED BY <1>0, <1>1, <1>4 DEF z

\* The sum of a block is a byte.
LEMMA SumType ==
    ASSUME NEW n \in Nat \ {0}, NEW data \in [1 .. n -> Byte]
    PROVE  Sum(data) \in Byte
<1> DEFINE Adds(f, k) == f[0] = 0 /\ \A i \in 1 .. k : f[i] = (f[i - 1] + data[i]) % W
           Step(s) == [i \in 0 .. n |-> IF i = 0 THEN 0 ELSE (s[i - 1] + data[i]) % W]
           s == CHOOSE s : s = Step(s)
           T == {k \in 0 .. n : ~ \E f \in [0 .. k -> Byte] : Adds(f, k)}
<1>0. Len(data) = n
  OBVIOUS
<1>1. T = {}
  <2> SUFFICES ASSUME T # {} PROVE FALSE
    OBVIOUS
  <2>1. PICK m \in T : \A k \in T : ~(k < m)
    <3>1. T \in SUBSET Nat
      OBVIOUS
    <3> HIDE DEF T
    <3> QED BY <3>1, LeastOf
  <2>2. m # 0
    <3> SUFFICES ASSUME m = 0 PROVE FALSE
      OBVIOUS
    <3>1. [i \in 0 .. 0 |-> 0] \in [0 .. 0 -> Byte] /\ Adds([i \in 0 .. 0 |-> 0], 0)
      BY Constants
    <3> QED BY <2>1, <3>1
  <2>3. m \in 1 .. n /\ m - 1 \in 0 .. n /\ m - 1 \notin T
    <3>1. m \in 1 .. n /\ m - 1 \in 0 .. n /\ m - 1 < m
      BY <2>2
    <3> HIDE DEF T
    <3> QED BY <2>1, <3>1
  <2>4. PICK f \in [0 .. m - 1 -> Byte] : Adds(f, m - 1)
    BY <2>3
  <2> DEFINE g == [i \in 0 .. m |-> IF i = m THEN (f[m - 1] + data[m]) % W ELSE f[i]]
  <2>5. (f[m - 1] + data[m]) % W \in Byte
    <3>1. f[m - 1] \in Byte /\ data[m] \in Byte
      BY <2>3, <2>4
    <3> QED BY <3>1, Remainder
  <2>6. g \in [0 .. m -> Byte]
    BY <2>3, <2>4, <2>5
  <2>7. Adds(g, m)
    <3>1. g[0] = 0
      BY <2>3, <2>4
    <3>2. ASSUME NEW i \in 1 .. m PROVE g[i] = (g[i - 1] + data[i]) % W
      <4>1. CASE i = m
        BY <2>3, <4>1
      <4>2. CASE i # m
        <5>1. i \in 1 .. m - 1 /\ i \in 0 .. m /\ i - 1 \in 0 .. m /\ i - 1 # m
          BY <2>3, <4>2
        <5> QED BY <2>4, <4>2, <5>1
      <4> QED BY <4>1, <4>2
    <3> HIDE DEF g
    <3> QED BY <3>1, <3>2
  <2> HIDE DEF g
  <2> QED BY <2>1, <2>6, <2>7
<1>2. PICK g \in [0 .. n -> Byte] : Adds(g, n)
  BY <1>1
<1>3. g = Step(g)
  <2>1. \A i \in 0 .. n : g[i] = IF i = 0 THEN 0 ELSE (g[i - 1] + data[i]) % W
    BY <1>2
  <2> QED BY <2>1
<1>4. s = Step(s)
  <2> HIDE DEF Step
  <2> QED BY <1>3
<1> HIDE DEF s
<1>5. \A i \in 0 .. n : s[i] \in Byte
  <2> DEFINE R == {i \in 0 .. n : s[i] \notin Byte}
  <2> SUFFICES ASSUME R # {} PROVE FALSE
    OBVIOUS
  <2>1. PICK m \in R : \A k \in R : ~(k < m)
    <3>1. R \in SUBSET Nat
      OBVIOUS
    <3> HIDE DEF R
    <3> QED BY <3>1, LeastOf
  <2>2. CASE m = 0
    BY <1>4, <2>2, Constants
  <2>3. CASE m # 0
    <3>1. m \in 1 .. n /\ m - 1 \in 0 .. n /\ m - 1 < m
      BY <2>3
    <3>2. s[m - 1] \in Byte /\ data[m] \in Byte
      BY <2>1, <3>1
    <3>3. s[m] = (s[m - 1] + data[m]) % W
      BY <1>4, <2>3, <3>1
    <3> QED BY <3>2, <3>3, Remainder
  <2> QED BY <2>2, <2>3
<1>6. Sum(data) = s[n]
  BY <1>0 DEF Sum, s
<1> QED BY <1>5, <1>6

-----------------------------------------------------------------------------
(* Types.                                                                  *)

\* The writes a block can be given.
Stores == {w \in Blocks \X Nat \X Byte : w[2] <= Size(w[1])}

LEMMA Store3 ==
    ASSUME NEW b \in Blocks, NEW i \in 0 .. Size(b), NEW v \in Byte
    PROVE  <<b, i, v>> \in Stores
<1>1. Size(b) \in Nat
  BY Constants
<1> QED BY <1>1 DEF Stores

LEMMA WritesType ==
    ASSUME NEW b \in Blocks, NEW data \in [1 .. Size(b) -> Byte]
    PROVE  /\ Writes(b, data) \in Seq(Stores)
           /\ DOMAIN Writes(b, data) = 1 .. Size(b)
           /\ \A i \in 1 .. Size(b) : Writes(b, data)[i] = <<b, i, data[i]>>
           /\ SumUp(b, data) \in Seq(Stores)
           /\ Zero(b) \in [1 .. Size(b) -> Byte]
<1>1. Size(b) \in Nat \ {0} /\ 0 \in Byte
  BY Constants
<1>2. \A i \in 1 .. Size(b) : i \in 0 .. Size(b) /\ data[i] \in Byte
  BY <1>1
<1>3. \A i \in 1 .. Size(b) : <<b, i, data[i]>> \in Stores
  BY <1>2, Store3
<1>4. Writes(b, data) = [i \in 1 .. Size(b) |-> <<b, i, data[i]>>]
  BY DEF Writes
<1>5. Writes(b, data) \in Seq(Stores)
  BY <1>1, <1>3, <1>4
<1>6. <<b, 0, Sum(data)>> \in Stores
  BY <1>1, SumType, Store3
<1> QED BY <1>1, <1>4, <1>5, <1>6 DEF SumUp, Zero

\* Where the bytes of a client's data go.
LEMMA PlaceIs ==
    ASSUME NEW b \in Blocks, NEW a \in 1 .. Room(b)
    PROVE  /\ a <= Size(b) => Place(b, a) = <<b, a>>
           /\ a = Size(b) + 1 => Place(b, a) = <<b, 0>>
           /\ a > Size(b) + 1 =>
                 b = "config" /\ \E i \in 0 .. TimersSize : Place(b, a) = <<"timers", i>>
<1>1. Size(b) \in Nat \ {0} /\ TimersSize \in Nat /\ a \in Nat /\ a >= 1 /\ a <= Room(b)
  BY Constants DEF Room
<1>2. a <= Size(b) => a % (Size(b) + 1) = a
  BY <1>1
<1>3. a = Size(b) + 1 => a % (Size(b) + 1) = 0
  BY <1>1
<1>4. (a - Size(b) - 1) % (TimersSize + 1) \in 0 .. TimersSize
  BY <1>1
<1>5. b = "timers" => Room(b) = Size(b) + 1
  BY DEF Room, Size
<1>6. a > Size(b) + 1 => b = "config"
  BY <1>1, <1>5 DEF Blocks
<1>7. a <= Size(b) + 1 => Place(b, a) = <<b, a % (Size(b) + 1)>>
  BY DEF Place
<1>8. a > Size(b) + 1 => Place(b, a) = <<"timers", (a - Size(b) - 1) % (TimersSize + 1)>>
  BY <1>1 DEF Place
<1>9. a <= Size(b) => a <= Size(b) + 1
  BY <1>1
<1> QED BY <1>2, <1>3, <1>4, <1>6, <1>7, <1>8, <1>9

LEMMA CopiedType ==
    ASSUME NEW b \in Blocks, NEW data \in Data
    PROVE  /\ Len(data) \in Nat /\ data \in [1 .. Len(data) -> Byte]
           /\ DOMAIN Copied(b, data) \subseteq 1 .. Room(b) \cap 1 .. Len(data)
           /\ \A a \in 1 .. Len(data) : a <= Room(b) => a \in DOMAIN Copied(b, data)
           /\ \A a \in DOMAIN Copied(b, data) :
                 Copied(b, data)[a] = <<Place(b, a)[1], Place(b, a)[2], data[a]>>
           /\ Copied(b, data) \in Seq(Stores)
           /\ Filled(b, data) \in [1 .. Size(b) -> Byte]
<1>1. PICK n \in 0 .. MaxData : data \in [1 .. n -> Byte]
  BY DEF Data
<1>2. n \in Nat /\ MaxData \in Nat
  BY NvRamAssumption DEF NvRamAssumption
<1>3. Len(data) = n /\ DOMAIN data = 1 .. n
  BY <1>1, <1>2
<1>4. Room(b) \in Nat /\ Size(b) \in Nat /\ Size(b) < Room(b)
  BY Constants DEF Room, Size, Blocks
<1> DEFINE k == IF n <= Room(b) THEN n ELSE Room(b)
<1>5. k \in Nat /\ {a \in DOMAIN data : a <= Room(b)} = 1 .. k
  BY <1>2, <1>3, <1>4
<1> HIDE DEF k
<1>6. Copied(b, data) = [a \in 1 .. k |-> <<Place(b, a)[1], Place(b, a)[2], data[a]>>]
  BY <1>5 DEF Copied
<1>7. \A a \in 1 .. k : a \in 1 .. Room(b) /\ a \in 1 .. n
  BY <1>2, <1>3, <1>4, <1>5
<1>8. ASSUME NEW a \in 1 .. k
      PROVE  <<Place(b, a)[1], Place(b, a)[2], data[a]>> \in Stores
  <2>1. data[a] \in Byte /\ a \in 1 .. Room(b)
    BY <1>1, <1>7
  <2>2. CASE a <= Size(b)
    <3>1. Place(b, a) = <<b, a>> /\ a \in 0 .. Size(b)
      BY <1>4, <2>1, <2>2, PlaceIs
    <3> QED BY <2>1, <3>1, Store3
  <2>3. CASE a = Size(b) + 1
    <3>1. Place(b, a) = <<b, 0>> /\ 0 \in 0 .. Size(b)
      BY <1>4, <2>1, <2>3, PlaceIs
    <3> QED BY <2>1, <3>1, Store3
  <2>4. CASE a > Size(b) + 1
    <3>1. PICK i \in 0 .. TimersSize : Place(b, a) = <<"timers", i>>
      BY <2>1, <2>4, PlaceIs
    <3>2. "timers" \in Blocks /\ Size("timers") = TimersSize
      BY DEF Blocks, Size
    <3> QED BY <2>1, <3>1, <3>2, Store3
  <2> QED BY <1>4, <2>1, <2>2, <2>3, <2>4
<1>9. Copied(b, data) \in Seq(Stores)
  BY <1>5, <1>6, <1>8
<1>10. Filled(b, data) \in [1 .. Size(b) -> Byte]
  <2>1. ASSUME NEW i \in 1 .. Size(b)
        PROVE  (IF i <= Len(data) THEN data[i] ELSE 0) \in Byte
    BY <1>1, <1>2, <1>3, <1>4, <2>1, Constants
  <2> QED BY <2>1 DEF Filled
<1>11. \A a \in 1 .. n : a <= Room(b) => a \in 1 .. k
  BY <1>3, <1>5
<1> QED BY <1>1, <1>2, <1>3, <1>6, <1>7, <1>9, <1>10, <1>11

LEMMA ClearType == ClearWrites \in Seq(Stores)
<1>1. {"config", "timers"} \subseteq Blocks
  BY DEF Blocks
<1>2. \A b \in Blocks : Writes(b, Zero(b)) \in Seq(Stores) /\ << <<b, 0, 0>> >> \in Seq(Stores)
  <2> TAKE b \in Blocks
  <2>1. Zero(b) \in [1 .. Size(b) -> Byte] /\ 0 \in 0 .. Size(b) /\ 0 \in Byte
    BY Constants DEF Zero
  <2>2. <<b, 0, 0>> \in Stores
    BY <2>1, Store3
  <2> QED BY <2>1, <2>2, WritesType
<1> QED BY <1>1, <1>2, ConcatProperties DEF ClearWrites

LEMMA TestType == TestWrites \in Seq(Stores)
<1> DEFINE n == ConfigSize + TimersSize + 2
           v(a) == IF a % 2 = 1 THEN (a - 1) % W ELSE ((a - 1) \div W) % W
<1>1. ASSUME NEW a \in 1 .. n PROVE TestWrites[a] \in Stores
  <2>1. v(a) \in Byte
    <3>1. a - 1 \in Nat /\ W \in Nat \ {0}
      BY <1>1, Constants
    <3>2. (a - 1) \div W \in Int
      BY <3>1
    <3> QED BY <3>1, <3>2 DEF Byte
  <2> HIDE DEF v
  <2>2. CASE a <= ConfigSize + 1
    <3>1. a % (ConfigSize + 1) \in 0 .. ConfigSize
      BY Constants
    <3>2. <<"config", a % (ConfigSize + 1), v(a)>> \in Stores
      BY <2>1, <3>1, Store3 DEF Blocks, Size
    <3> QED BY <2>2, <3>2 DEF TestWrites, v
  <2>3. CASE ~(a <= ConfigSize + 1)
    <3>1. (a - ConfigSize - 1) % (TimersSize + 1) \in 0 .. TimersSize
      BY Constants
    <3>2. <<"timers", (a - ConfigSize - 1) % (TimersSize + 1), v(a)>> \in Stores
      BY <2>1, <3>1, Store3 DEF Blocks, Size
    <3> QED BY <2>3, <3>2 DEF TestWrites, v
  <2> QED BY <2>2, <2>3
<1>2. n \in Nat /\ DOMAIN TestWrites = 1 .. n
  BY Constants DEF TestWrites
<1>3. TestWrites = [a \in 1 .. n |-> TestWrites[a]]
  BY DEF TestWrites
<1> HIDE DEF n
<1> QED BY <1>1, <1>2, <1>3

LEMMA TypesInit == Init => TypeOK
<1> SUFFICES ASSUME Init PROVE TypeOK
  OBVIOUS
<1>1. \A b \in Blocks : ram[b] = Zero(b) /\ Zero(b) \in [1 .. Size(b) -> Byte]
  BY Constants DEF Init, Zero
<1>2. \A b \in Blocks : ram[b] \in Seq(Byte)
  BY <1>1, Constants
<1>3. ram \in [Blocks -> Seq(Byte)]
  BY <1>2 DEF Init
<1>4. crc \in [Blocks -> Byte]
  BY Constants DEF Init
<1>5. todo = <<>> /\ power \in {"on", "off"} /\ unsummed \in BOOLEAN
  BY DEF Init
<1> QED BY <1>1, <1>3, <1>4, <1>5 DEF TypeOK

\* Nothing but Store changes the memory: the other steps are of the right
\* type if what they are about to write is.
LEMMA TodoTyped ==
    ASSUME TypeOK, todo' \in Seq(Stores), UNCHANGED <<ram, crc>>,
           power' \in {"on", "off"}, unsummed' \in BOOLEAN
    PROVE  TypeOK'
BY DEF TypeOK, Stores

LEMMA TypesStore == TypeOK /\ Store => TypeOK'
<1> SUFFICES ASSUME TypeOK, Store PROVE TypeOK'
  OBVIOUS
<1> DEFINE h == Head(todo)
<1>1. todo \in Seq(Stores) /\ todo # <<>>
  BY DEF TypeOK, Stores, Store
<1>2. h \in Stores /\ Tail(todo) \in Seq(Stores)
  BY <1>1
<1> HIDE DEF h
<1>3. h[1] \in Blocks /\ h[2] \in Nat /\ h[3] \in Byte /\ h[2] <= Size(h[1])
  BY <1>2 DEF Stores
<1>4. CASE h[2] = 0
  <2>1. ram' = ram /\ crc' = [crc EXCEPT ![h[1]] = h[3]]
    BY <1>4 DEF Store, h
  <2>2. crc' \in [Blocks -> Byte]
    BY <1>3, <2>1 DEF TypeOK
  <2> QED BY <1>2, <2>1, <2>2 DEF TypeOK, Store, Stores
<1>5. CASE h[2] # 0
  <2>1. ram' = [ram EXCEPT ![h[1]][h[2]] = h[3]] /\ crc' = crc
    BY <1>5 DEF Store, h
  <2>2. ASSUME NEW b \in Blocks
        PROVE  ram'[b] \in [1 .. Size(b) -> Byte] /\ ram'[b] \in Seq(Byte)
    <3>1. ram[b] \in [1 .. Size(b) -> Byte] /\ DOMAIN ram = Blocks
      BY DEF TypeOK
    <3>2. ram'[b] = IF b = h[1] THEN [ram[b] EXCEPT ![h[2]] = h[3]] ELSE ram[b]
      BY <2>1, <3>1
    <3>3. ram'[b] \in [1 .. Size(b) -> Byte]
      BY <1>3, <3>1, <3>2
    <3> QED BY <3>3, Constants
  <2>3. ram' \in [Blocks -> Seq(Byte)]
    <3>1. DOMAIN ram' = Blocks /\ ram' = [b \in Blocks |-> ram'[b]]
      BY <2>1 DEF TypeOK
    <3> QED BY <2>2, <3>1
  <2> QED BY <1>2, <2>1, <2>2, <2>3 DEF TypeOK, Store, Stores
<1> QED BY <1>4, <1>5

LEMMA TypesNext == TypeOK /\ [Next]_vars => TypeOK'
<1> SUFFICES ASSUME TypeOK, [Next]_vars PROVE TypeOK'
  OBVIOUS
<1>0. <<>> \in Seq(Stores) /\ unsummed \in BOOLEAN
  BY DEF TypeOK
<1>1. ASSUME NEW b \in Blocks, NEW data \in Data, Set(b, data)
      PROVE  TypeOK'
  <2>1. Zero(b) \in [1 .. Size(b) -> Byte]
    BY Constants DEF Zero
  <2>2. /\ Writes(b, Zero(b)) \in Seq(Stores) /\ Copied(b, data) \in Seq(Stores)
        /\ SumUp(b, Filled(b, data)) \in Seq(Stores)
    BY <2>1, WritesType, CopiedType
  <2>3. todo' \in Seq(Stores)
    BY <1>1, <2>2, ConcatProperties DEF Set
  <2>4. unsummed' \in BOOLEAN
    BY <1>1 DEF Set
  <2> QED BY <1>1, <2>3, <2>4, TodoTyped DEF Set, Idle
<1>2. ASSUME NEW on \in Byte, NEW off \in Byte, SetOnOff(on, off) PROVE TypeOK'
  <2>1. <<"timers", 1, on>> \in Stores /\ <<"timers", 2, off>> \in Stores
    BY Constants, Store3 DEF Blocks, Size
  <2>2. Writes("timers", <<on, off>>) = << <<"timers", 1, on>>, <<"timers", 2, off>> >>
    BY DEF Writes
  <2>3. \A x, y \in Stores : <<x, y>> \in Seq(Stores)
    OBVIOUS
  <2>4. << <<"timers", 1, on>>, <<"timers", 2, off>> >> \in Seq(Stores)
    BY <2>1, <2>3
  <2>5. todo' \in Seq(Stores)
    BY <1>2, <2>2, <2>4 DEF SetOnOff
  <2> QED BY <1>2, <2>5, TodoTyped DEF SetOnOff, Idle
<1>3. ASSUME NEW i \in 1 .. TimersSize, NEW byte \in Byte
      PROVE  << <<"timers", i, byte>> >> \o SumUp("timers", [ram["timers"] EXCEPT ![i] = byte])
                 \in Seq(Stores)
  <2>1. <<"timers", i, byte>> \in Stores
    BY Constants, Store3 DEF Blocks, Size
  <2>2. [ram["timers"] EXCEPT ![i] = byte] \in [1 .. Size("timers") -> Byte] /\ "timers" \in Blocks
    BY DEF TypeOK, Blocks, Size
  <2>3. SumUp("timers", [ram["timers"] EXCEPT ![i] = byte]) \in Seq(Stores)
    BY <2>2, WritesType
  <2> QED BY <2>1, <2>3, ConcatProperties
<1>4. ASSUME NEW stamp \in Byte, GetTimers(stamp) PROVE TypeOK'
  <2>1. TimersSize \in 1 .. TimersSize
    BY Constants
  <2>2. todo' \in Seq(Stores)
    BY <1>3, <1>4, <2>1 DEF GetTimers
  <2> QED BY <1>4, <2>2, TodoTyped DEF GetTimers, Idle
<1>5. ASSUME NEW i \in 1 .. 2, NEW byte \in Byte, Console(i, byte) PROVE TypeOK'
  <2>1. i \in 1 .. TimersSize
    BY Constants
  <2>2. todo' \in Seq(Stores)
    BY <1>3, <1>5, <2>1 DEF Console
  <2> QED BY <1>5, <2>2, TodoTyped DEF Console, Idle
<1>6. CASE ClearRam
  BY <1>6, ClearType, TodoTyped DEF ClearRam, Idle
<1>7. CASE TestExtRAM
  <2>1. todo' \in Seq(Stores)
    BY <1>7, ClearType, TestType, ConcatProperties DEF TestExtRAM
  <2> QED BY <1>7, <2>1, TodoTyped DEF TestExtRAM, Idle
<1>8. CASE Store
  BY <1>8, TypesStore
<1>9. CASE PowerFails
  BY <1>0, <1>9, TodoTyped DEF PowerFails
<1>10. CASE Boot
  BY <1>0, <1>10, ClearType, TodoTyped DEF Boot
<1>11. CASE UNCHANGED vars
  BY <1>11 DEF vars, TypeOK
<1> QED BY <1>1, <1>2, <1>4, <1>5, <1>6, <1>7, <1>8, <1>9, <1>10, <1>11 DEF Next, Works

LEMMA Types == Spec => []TypeOK
BY TypesInit, TypesNext, PTL DEF Spec

-----------------------------------------------------------------------------
(* What the writes under way leave behind.                                 *)

\* seq writes place i of block b.
Touches(seq, b, i) == \E j \in DOMAIN seq : seq[j][1] = b /\ seq[j][2] = i

\* The last write of seq to place i of block b is v.
LastIn(seq, b, i, v) ==
    \E k \in DOMAIN seq :
        /\ seq[k] = <<b, i, v>>
        /\ \A j \in DOMAIN seq : j > k => ~(seq[j][1] = b /\ seq[j][2] = i)

\* What place i of block b holds.
Now(b, i) == IF i = 0 THEN crc[b] ELSE ram[b][i]

\* What it holds once the writes under way are done.
Pending(b, i, v) == LastIn(todo, b, i, v) \/ (~Touches(todo, b, i) /\ Now(b, i) = v)

\* Once they are done, block b agrees with its sum.
Coming(b) ==
    \E data \in [1 .. Size(b) -> Byte] :
        /\ Pending(b, 0, Sum(data))
        /\ \A i \in 1 .. Size(b) : Pending(b, i, data[i])

\* The inductive invariant: whatever is being written ends in blocks that
\* agree with their sums, but for the timers written past theirs.
SumInv == power = "on" => Coming("config") /\ (~unsummed => Coming("timers"))

LEMMA TouchesConcat ==
    ASSUME NEW S, NEW a \in Seq(S), NEW c \in Seq(S), NEW b, NEW i,
           ~Touches(a, b, i), ~Touches(c, b, i)
    PROVE  ~Touches(a \o c, b, i)
<1>1. ASSUME NEW j \in DOMAIN (a \o c)
      PROVE  ~((a \o c)[j][1] = b /\ (a \o c)[j][2] = i)
  <2>1. j \in 1 .. Len(a) + Len(c)
    BY <1>1, ConcatProperties
  <2>2. CASE j <= Len(a)
    <3>1. (a \o c)[j] = a[j] /\ j \in DOMAIN a
      BY <2>1, <2>2, ConcatProperties
    <3> QED BY <3>1 DEF Touches
  <2>3. CASE ~(j <= Len(a))
    <3>1. (a \o c)[j] = c[j - Len(a)] /\ j - Len(a) \in DOMAIN c
      BY <2>1, <2>3, ConcatProperties
    <3> QED BY <3>1 DEF Touches
  <2> QED BY <2>2, <2>3
<1> QED BY <1>1 DEF Touches

LEMMA LastRight ==
    ASSUME NEW S, NEW a \in Seq(S), NEW c \in Seq(S), NEW b, NEW i, NEW v,
           LastIn(c, b, i, v)
    PROVE  LastIn(a \o c, b, i, v)
<1>1. PICK k \in DOMAIN c :
        c[k] = <<b, i, v>> /\ \A j \in DOMAIN c : j > k => ~(c[j][1] = b /\ c[j][2] = i)
  BY DEF LastIn
<1> DEFINE m == Len(a) + k
<1>2. m \in DOMAIN (a \o c) /\ (a \o c)[m] = <<b, i, v>>
  BY <1>1, ConcatProperties
<1>3. ASSUME NEW j \in DOMAIN (a \o c), j > m
      PROVE  ~((a \o c)[j][1] = b /\ (a \o c)[j][2] = i)
  <2>1. (a \o c)[j] = c[j - Len(a)] /\ j - Len(a) \in DOMAIN c /\ j - Len(a) > k
    BY <1>1, <1>3, ConcatProperties
  <2> QED BY <1>1, <2>1
<1> HIDE DEF m
<1> QED BY <1>2, <1>3 DEF LastIn

LEMMA LastLeft ==
    ASSUME NEW S, NEW a \in Seq(S), NEW c \in Seq(S), NEW b, NEW i, NEW v,
           LastIn(a, b, i, v), ~Touches(c, b, i)
    PROVE  LastIn(a \o c, b, i, v)
<1>1. PICK k \in DOMAIN a :
        a[k] = <<b, i, v>> /\ \A j \in DOMAIN a : j > k => ~(a[j][1] = b /\ a[j][2] = i)
  BY DEF LastIn
<1>2. k \in DOMAIN (a \o c) /\ (a \o c)[k] = <<b, i, v>>
  BY <1>1, ConcatProperties
<1>3. ASSUME NEW j \in DOMAIN (a \o c), j > k
      PROVE  ~((a \o c)[j][1] = b /\ (a \o c)[j][2] = i)
  <2>1. j \in 1 .. Len(a) + Len(c)
    BY <1>3, ConcatProperties
  <2>2. CASE j <= Len(a)
    <3>1. (a \o c)[j] = a[j] /\ j \in DOMAIN a
      BY <2>1, <2>2, ConcatProperties
    <3> QED BY <1>1, <1>3, <3>1
  <2>3. CASE ~(j <= Len(a))
    <3>1. (a \o c)[j] = c[j - Len(a)] /\ j - Len(a) \in DOMAIN c
      BY <2>1, <2>3, ConcatProperties
    <3> QED BY <3>1 DEF Touches
  <2> QED BY <2>2, <2>3
<1> QED BY <1>2, <1>3 DEF LastIn

LEMMA OneWrite ==
    ASSUME NEW b, NEW i, NEW v
    PROVE  /\ LastIn(<< <<b, i, v>> >>, b, i, v)
           /\ \A c, j : ~(c = b /\ j = i) => ~Touches(<< <<b, i, v>> >>, c, j)
<1> DEFINE w == <<b, i, v>>
<1>1. w[1] = b /\ w[2] = i
  OBVIOUS
<1> HIDE DEF w
<1>2. DOMAIN <<w>> = {1} /\ <<w>>[1] = w
  OBVIOUS
<1>3. \A c, j : ~(c = b /\ j = i) => ~Touches(<<w>>, c, j)
  BY <1>1, <1>2 DEF Touches
<1>4. \A j \in {1} : ~(j > 1)
  OBVIOUS
<1>5. w = <<b, i, v>>
  BY DEF w
<1>6. LastIn(<<w>>, b, i, v)
  BY <1>2, <1>4, <1>5 DEF LastIn
<1> QED BY <1>3, <1>5, <1>6

\* The writes of a whole block.
LEMMA WritesEnd ==
    ASSUME NEW b \in Blocks, NEW data \in [1 .. Size(b) -> Byte]
    PROVE  /\ \A i \in 1 .. Size(b) : LastIn(Writes(b, data), b, i, data[i])
           /\ \A c, i : c # b \/ i = 0 => ~Touches(Writes(b, data), c, i)
<1>1. DOMAIN Writes(b, data) = 1 .. Size(b) /\ Size(b) \in Nat
  BY WritesType, Constants
<1>2. \A i \in 1 .. Size(b) : Writes(b, data)[i] = <<b, i, data[i]>>
  BY WritesType
<1>3. \A i \in 1 .. Size(b) : Writes(b, data)[i][1] = b /\ Writes(b, data)[i][2] = i
  BY <1>2
<1> QED BY <1>1, <1>2, <1>3 DEF LastIn, Touches

\* Written, then summed up, after whatever else.
LEMMA BlockEnd ==
    ASSUME NEW a \in Seq(Stores), NEW b \in Blocks, NEW data \in [1 .. Size(b) -> Byte],
           NEW v \in Byte
    PROVE  /\ LastIn((a \o Writes(b, data)) \o << <<b, 0, v>> >>, b, 0, v)
           /\ \A i \in 1 .. Size(b) :
                  LastIn((a \o Writes(b, data)) \o << <<b, 0, v>> >>, b, i, data[i])
<1> DEFINE w == Writes(b, data)
           u == << <<b, 0, v>> >>
<1>1. w \in Seq(Stores) /\ Size(b) \in Nat /\ 0 \in 0 .. Size(b)
  BY WritesType, Constants
<1>2. u \in Seq(Stores)
  <2>1. <<b, 0, v>> \in Stores
    BY <1>1, Store3
  <2> QED BY <2>1
<1>3. \A i \in 1 .. Size(b) : LastIn(w, b, i, data[i])
  BY WritesEnd
<1>4. LastIn(u, b, 0, v) /\ \A i \in 1 .. Size(b) : ~Touches(u, b, i)
  BY <1>1, OneWrite
<1> HIDE DEF w, u
<1>5. a \o w \in Seq(Stores)
  BY <1>1, ConcatProperties
<1>6. LastIn((a \o w) \o u, b, 0, v)
  BY <1>2, <1>4, <1>5, LastRight
<1>7. ASSUME NEW i \in 1 .. Size(b) PROVE LastIn((a \o w) \o u, b, i, data[i])
  <2>1. LastIn(a \o w, b, i, data[i])
    BY <1>1, <1>3, LastRight
  <2> QED BY <1>2, <1>4, <1>5, <2>1, LastLeft
<1> QED BY <1>6, <1>7 DEF w, u

\* Clearing leaves both blocks zero, and their sums.
LEMMA ClearEnd ==
    ASSUME NEW b \in Blocks
    PROVE  /\ LastIn(ClearWrites, b, 0, 0)
           /\ \A i \in 1 .. Size(b) : LastIn(ClearWrites, b, i, Zero(b)[i])
<1> DEFINE zc == Writes("config", Zero("config"))
           uc == << <<"config", 0, 0>> >>
           zt == Writes("timers", Zero("timers"))
           ut == << <<"timers", 0, 0>> >>
<1>1. "config" \in Blocks /\ "timers" \in Blocks /\ 0 \in Byte
  BY Constants DEF Blocks
<1>2. \A d \in Blocks : Zero(d) \in [1 .. Size(d) -> Byte] /\ 0 \in 0 .. Size(d)
  BY Constants DEF Zero
<1>3. zc \in Seq(Stores) /\ zt \in Seq(Stores)
  BY <1>1, <1>2, WritesType
<1>4. uc \in Seq(Stores) /\ ut \in Seq(Stores)
  <2>1. <<"config", 0, 0>> \in Stores /\ <<"timers", 0, 0>> \in Stores
    BY <1>1, <1>2, Store3
  <2> QED BY <2>1
<1>5. ClearWrites = ((zc \o uc) \o zt) \o ut
  BY DEF ClearWrites
<1>6. zc \o uc \in Seq(Stores)
  BY <1>3, <1>4, ConcatProperties
<1>7. CASE b = "timers"
  <2>1. /\ LastIn(((zc \o uc) \o zt) \o ut, "timers", 0, 0)
        /\ \A i \in 1 .. Size("timers") :
               LastIn(((zc \o uc) \o zt) \o ut, "timers", i, Zero("timers")[i])
    <3> HIDE DEF zc, uc
    <3> QED BY <1>1, <1>2, <1>6, BlockEnd
  <2> QED BY <1>5, <1>7, <2>1
<1>8. CASE b = "config"
  <2>1. /\ LastIn((<<>> \o zc) \o uc, "config", 0, 0)
        /\ \A i \in 1 .. Size("config") :
               LastIn((<<>> \o zc) \o uc, "config", i, Zero("config")[i])
    <3>1. <<>> \in Seq(Stores)
      OBVIOUS
    <3> QED BY <1>1, <1>2, <3>1, BlockEnd
  <2>2. <<>> \o zc = zc
    <3> HIDE DEF zc
    <3> QED BY <1>3, ConcatEmptySeq
  <2>3. \A i : ~Touches(zt, "config", i) /\ ~Touches(ut, "config", i)
    BY <1>1, <1>2, WritesEnd, OneWrite
  <2> HIDE DEF zc, uc, zt, ut
  <2>4. (zc \o uc) \o zt \in Seq(Stores)
    BY <1>3, <1>6, ConcatProperties
  <2>5. ASSUME NEW i, NEW v, LastIn(zc \o uc, "config", i, v)
        PROVE  LastIn(((zc \o uc) \o zt) \o ut, "config", i, v)
    <3>1. LastIn((zc \o uc) \o zt, "config", i, v)
      BY <1>3, <1>6, <2>3, <2>5, LastLeft
    <3> QED BY <1>4, <2>3, <2>4, <3>1, LastLeft
  <2> QED BY <1>5, <1>8, <2>1, <2>2, <2>5
<1> QED BY <1>7, <1>8 DEF Blocks

-----------------------------------------------------------------------------
(* The steps.                                                              *)

\* A step that starts to clear, after whatever else, leaves both blocks right.
LEMMA ClearComing ==
    ASSUME NEW b \in Blocks,
           todo' = ClearWrites \/ \E a \in Seq(Stores) : todo' = a \o ClearWrites
    PROVE  Coming(b)'
<1>1. LastIn(todo', b, 0, 0) /\ \A i \in 1 .. Size(b) : LastIn(todo', b, i, Zero(b)[i])
  BY ClearEnd, ClearType, LastRight
<1>2. Zero(b) \in [1 .. Size(b) -> Byte] /\ Sum(Zero(b)) = 0
  BY WritesType, SumZero, Constants DEF Zero
<1> QED BY <1>1, <1>2 DEF Coming, Pending

\* When nothing is being written, a block to come is the one that is there.
LEMMA ComingIdle ==
    ASSUME TypeOK, NEW b \in Blocks, todo = <<>>
    PROVE  Coming(b) <=> Sound(b)
<1>1. \A i, v : Pending(b, i, v) <=> Now(b, i) = v
  BY DEF Pending, LastIn, Touches
<1>2. ram[b] \in [1 .. Size(b) -> Byte] /\ \A i \in 1 .. Size(b) : Now(b, i) = ram[b][i]
  BY DEF TypeOK, Now
<1>3. Now(b, 0) = crc[b]
  BY DEF Now
<1>4. ASSUME Coming(b) PROVE Sound(b)
  <2>1. PICK data \in [1 .. Size(b) -> Byte] :
          Pending(b, 0, Sum(data)) /\ \A i \in 1 .. Size(b) : Pending(b, i, data[i])
    BY <1>4 DEF Coming
  <2>2. \A i \in 1 .. Size(b) : data[i] = ram[b][i]
    BY <1>1, <1>2, <2>1
  <2>3. data = ram[b]
    <3>1. data = [i \in 1 .. Size(b) |-> data[i]]
      BY <2>1
    <3>2. ram[b] = [i \in 1 .. Size(b) |-> ram[b][i]]
      BY <1>2
    <3>3. [i \in 1 .. Size(b) |-> data[i]] = [i \in 1 .. Size(b) |-> ram[b][i]]
      BY <2>2
    <3> QED BY <3>1, <3>2, <3>3
  <2> QED BY <1>1, <1>3, <2>1, <2>3 DEF Sound
<1>5. ASSUME Sound(b) PROVE Coming(b)
  BY <1>1, <1>2, <1>3, <1>5 DEF Sound, Coming
<1> QED BY <1>4, <1>5

\* A command that does not write a block leaves it as right as it was.
LEMMA Unaffected ==
    ASSUME TypeOK, NEW b \in Blocks, Idle, Coming(b), UNCHANGED <<ram, crc>>,
           \A i : ~Touches(todo', b, i)
    PROVE  Coming(b)'
<1>1. Sound(b) /\ ram[b] \in [1 .. Size(b) -> Byte]
  BY ComingIdle DEF Idle, TypeOK
<1>2. \A i, v : Now(b, i)' = v => Pending(b, i, v)'
  BY DEF Pending
<1>3. Now(b, 0)' = Sum(ram[b]) /\ \A i \in 1 .. Size(b) : Now(b, i)' = ram[b][i]
  BY <1>1 DEF Now, Sound
<1> QED BY <1>1, <1>2, <1>3 DEF Coming

\* Data shorter than the block leave the rest of it as it was cleared; none but
\* a configuration too long touches the other block.
LEMMA CopiedEnd ==
    ASSUME NEW b \in Blocks, NEW data \in Data
    PROVE  /\ \A i \in 1 .. Size(b) :
                 IF i <= Len(data) THEN LastIn(Copied(b, data), b, i, data[i])
                 ELSE ~Touches(Copied(b, data), b, i)
           /\ \A c, i : c # b /\ ~(b = "config" /\ Len(data) > ConfigSize + 1)
                  => ~Touches(Copied(b, data), c, i)
<1> DEFINE seq == Copied(b, data)
<1>1. /\ Len(data) \in Nat /\ Size(b) \in Nat \ {0} /\ Room(b) \in Nat
      /\ DOMAIN seq \subseteq 1 .. Room(b) \cap 1 .. Len(data) /\ Size(b) < Room(b)
      /\ \A a \in 1 .. Len(data) : a <= Room(b) => a \in DOMAIN seq
      /\ \A a \in DOMAIN seq : seq[a] = <<Place(b, a)[1], Place(b, a)[2], data[a]>>
  <2>1. Size(b) \in Nat \ {0} /\ Room(b) \in Nat /\ Size(b) < Room(b)
    BY Constants DEF Room, Size, Blocks
  <2> QED BY <2>1, CopiedType
<1> HIDE DEF seq
<1>2. ASSUME NEW a \in DOMAIN seq
      PROVE  /\ a <= Size(b) => seq[a][1] = b /\ seq[a][2] = a /\ seq[a] = <<b, a, data[a]>>
             /\ a = Size(b) + 1 => seq[a][1] = b /\ seq[a][2] = 0
             /\ a > Size(b) + 1 => b = "config" /\ seq[a][1] = "timers"
  <2>1. a \in 1 .. Room(b) /\ seq[a] = <<Place(b, a)[1], Place(b, a)[2], data[a]>>
    BY <1>1
  <2>2. a <= Size(b) => Place(b, a) = <<b, a>>
    BY <2>1, PlaceIs
  <2>3. a = Size(b) + 1 => Place(b, a) = <<b, 0>>
    BY <2>1, PlaceIs
  <2>4. a > Size(b) + 1 =>
           b = "config" /\ \E i \in 0 .. TimersSize : Place(b, a) = <<"timers", i>>
    BY <2>1, PlaceIs
  <2> QED BY <2>1, <2>2, <2>3, <2>4
<1>3. ASSUME NEW i \in 1 .. Size(b), i <= Len(data) PROVE LastIn(seq, b, i, data[i])
  <2>1. i \in DOMAIN seq /\ seq[i] = <<b, i, data[i]>>
    BY <1>1, <1>2, <1>3
  <2>2. ASSUME NEW j \in DOMAIN seq, j > i PROVE ~(seq[j][1] = b /\ seq[j][2] = i)
    <3>1. j <= Size(b) \/ j = Size(b) + 1 \/ j > Size(b) + 1
      BY <1>1
    <3> QED BY <1>1, <1>2, <2>2, <3>1
  <2> QED BY <2>1, <2>2 DEF LastIn
<1>4. ASSUME NEW i \in 1 .. Size(b), ~(i <= Len(data)) PROVE ~Touches(seq, b, i)
  <2>1. ASSUME NEW j \in DOMAIN seq PROVE ~(seq[j][1] = b /\ seq[j][2] = i)
    <3>1. j <= Size(b) \/ j = Size(b) + 1 \/ j > Size(b) + 1
      BY <1>1
    <3>2. j < i
      BY <1>1, <1>4
    <3> QED BY <1>1, <1>2, <3>1, <3>2
  <2> QED BY <2>1 DEF Touches
<1>5. ASSUME NEW c, NEW i, c # b, ~(b = "config" /\ Len(data) > ConfigSize + 1)
      PROVE  ~Touches(seq, c, i)
  <2>1. ASSUME NEW j \in DOMAIN seq PROVE seq[j][1] = b
    <3>1. j <= Size(b) \/ j = Size(b) + 1 \/ j > Size(b) + 1
      BY <1>1
    <3>2. ~(j > Size(b) + 1)
      <4>1. j > Size(b) + 1 => b = "config"
        BY <1>2
      <4>2. j <= Len(data) /\ (b = "config" => Size(b) = ConfigSize)
        BY <1>1 DEF Size
      <4> QED BY <1>1, <1>5, <4>1, <4>2, Constants
    <3> QED BY <1>2, <3>1, <3>2
  <2> QED BY <1>5, <2>1 DEF Touches
<1> QED BY <1>3, <1>4, <1>5 DEF seq

LEMMA SetComing ==
    ASSUME TypeOK, SumInv, NEW b \in Blocks, NEW data \in Data, Set(b, data)
    PROVE  SumInv'
<1> DEFINE zero == Writes(b, Zero(b))
           copy == Copied(b, data)
           all == Filled(b, data)
           sum == SumUp(b, all)
<1>1. /\ Zero(b) \in [1 .. Size(b) -> Byte] /\ all \in [1 .. Size(b) -> Byte]
      /\ Size(b) \in Nat \ {0} /\ Len(data) \in Nat
  BY CopiedType, Constants DEF Zero
<1>2. zero \in Seq(Stores) /\ copy \in Seq(Stores) /\ sum \in Seq(Stores)
  BY <1>1, WritesType, CopiedType
<1>3. /\ \A i \in 1 .. Size(b) : LastIn(zero, b, i, 0)
      /\ \A c, i : c # b => ~Touches(zero, c, i)
  <2>1. \A i \in 1 .. Size(b) : Zero(b)[i] = 0
    BY DEF Zero
  <2> QED BY <1>1, <2>1, WritesEnd
<1>4. /\ LastIn(sum, b, 0, Sum(all))
      /\ \A c, i : ~(c = b /\ i = 0) => ~Touches(sum, c, i)
  BY OneWrite DEF SumUp
<1>5. todo' = (zero \o copy) \o sum /\ zero \o copy \in Seq(Stores)
  BY <1>2, ConcatProperties DEF Set
<1>6. \A i \in 1 .. Size(b) : all[i] = IF i <= Len(data) THEN data[i] ELSE 0
  BY DEF Filled
<1>7. /\ \A i \in 1 .. Size(b) :
            IF i <= Len(data) THEN LastIn(copy, b, i, data[i]) ELSE ~Touches(copy, b, i)
      /\ \A c, i : c # b /\ ~(b = "config" /\ Len(data) > ConfigSize + 1)
             => ~Touches(copy, c, i)
  BY CopiedEnd
<1> HIDE DEF zero, copy, sum, all
<1>8. Coming(b)'
  <2>1. LastIn(todo', b, 0, Sum(all))
    BY <1>2, <1>4, <1>5, LastRight
  <2>2. ASSUME NEW i \in 1 .. Size(b) PROVE LastIn(todo', b, i, all[i])
    <3>1. LastIn(zero \o copy, b, i, all[i])
      <4>1. CASE i <= Len(data)
        BY <1>2, <1>6, <1>7, <4>1, LastRight
      <4>2. CASE ~(i <= Len(data))
        <5>1. LastIn(zero, b, i, 0) /\ ~Touches(copy, b, i) /\ all[i] = 0
          BY <1>3, <1>6, <1>7, <4>2
        <5> QED BY <1>2, <5>1, LastLeft
      <4> QED BY <4>1, <4>2
    <3>2. ~Touches(sum, b, i)
      BY <1>1, <1>4
    <3> QED BY <1>2, <1>5, <3>1, <3>2, LastLeft
  <2> QED BY <1>1, <2>1, <2>2 DEF Coming, Pending
<1>9. ASSUME NEW c \in Blocks, c # b, Coming(c),
             ~(b = "config" /\ Len(data) > ConfigSize + 1)
      PROVE  Coming(c)'
  <2>1. ASSUME NEW i PROVE ~Touches(todo', c, i)
    <3>1. ~Touches(zero, c, i) /\ ~Touches(copy, c, i) /\ ~Touches(sum, c, i)
      BY <1>3, <1>4, <1>7, <1>9
    <3>2. ~Touches(zero \o copy, c, i)
      BY <1>2, <3>1, TouchesConcat
    <3> QED BY <1>2, <1>5, <3>1, <3>2, TouchesConcat
  <2> QED BY <1>9, <2>1, Unaffected DEF Set
<1>10. power = "on" /\ power' = "on"
  BY DEF Set, Idle
<1>11. CASE b = "config"
  <2>1. ~unsummed' => ~unsummed /\ ~(Len(data) > ConfigSize + 1)
    BY <1>11 DEF Set
  <2>2. "timers" \in Blocks /\ "timers" # b
    BY <1>11 DEF Blocks
  <2> QED BY <1>8, <1>9, <1>10, <1>11, <2>1, <2>2 DEF SumInv
<1>12. CASE b = "timers"
  <2>1. "config" \in Blocks /\ "config" # b
    BY <1>12 DEF Blocks
  <2> QED BY <1>8, <1>9, <1>10, <1>12, <2>1 DEF SumInv
<1> QED BY <1>11, <1>12 DEF Blocks

\* One byte of the timers, then their sum.
LEMMA OneByteComing ==
    ASSUME TypeOK, SumInv, NEW i \in 1 .. TimersSize, NEW byte \in Byte,
           Idle, UNCHANGED <<ram, crc, power>>,
           todo' = << <<"timers", i, byte>> >>
                   \o SumUp("timers", [ram["timers"] EXCEPT ![i] = byte])
    PROVE  SumInv'
<1>0. PICK data : data = [ram["timers"] EXCEPT ![i] = byte]
  OBVIOUS
<1> DEFINE one == << <<"timers", i, byte>> >>
           sum == << <<"timers", 0, Sum(data)>> >>
<1>1. data \in [1 .. Size("timers") -> Byte] /\ data[i] = byte
  BY <1>0 DEF TypeOK, Blocks, Size
<1>2. one \in Seq(Stores) /\ sum \in Seq(Stores)
  <2>1. "timers" \in Blocks /\ i \in 0 .. Size("timers") /\ 0 \in 0 .. Size("timers")
    BY Constants DEF Blocks, Size
  <2>2. Sum(data) \in Byte
    BY <1>1, <2>1, SumType, Constants
  <2>3. <<"timers", i, byte>> \in Stores /\ <<"timers", 0, Sum(data)>> \in Stores
    BY <2>1, <2>2, Store3
  <2> QED BY <2>3
<1>3. \A j \in 1 .. TimersSize : j # i => data[j] = ram["timers"][j]
  BY <1>0 DEF TypeOK, Blocks, Size
<1>4. /\ LastIn(one, "timers", i, byte) /\ LastIn(sum, "timers", 0, Sum(data))
      /\ \A c, j : ~(c = "timers" /\ j = i) => ~Touches(one, c, j)
      /\ \A c, j : ~(c = "timers" /\ j = 0) => ~Touches(sum, c, j)
  BY OneWrite
<1>5. todo' = one \o sum
  BY <1>0 DEF SumUp
<1> HIDE DEF one, sum
<1>6. Coming("timers")'
  <2>1. LastIn(todo', "timers", 0, Sum(data))
    BY <1>2, <1>4, <1>5, LastRight
  <2>2. ASSUME NEW j \in 1 .. TimersSize PROVE Pending("timers", j, data[j])'
    <3>1. CASE j = i
      <4>1. j # 0
        BY Constants
      <4>2. LastIn(todo', "timers", i, byte)
        BY <1>2, <1>4, <1>5, <3>1, <4>1, LastLeft
      <4> QED BY <1>1, <3>1, <4>2 DEF Pending
    <3>2. CASE j # i
      <4>1. j # 0
        BY Constants
      <4>2. ~Touches(todo', "timers", j)
        BY <1>2, <1>4, <1>5, <3>2, <4>1, TouchesConcat
      <4>3. Now("timers", j)' = data[j]
        BY <1>3, <3>2, <4>1 DEF Now
      <4> QED BY <4>2, <4>3 DEF Pending
    <3> QED BY <3>1, <3>2
  <2>3. Size("timers") = TimersSize
    BY DEF Size
  <2> QED BY <1>1, <2>1, <2>2, <2>3 DEF Coming, Pending
<1>7. Coming("config")'
  <2>1. \A j : ~Touches(todo', "config", j)
    BY <1>2, <1>4, <1>5, TouchesConcat
  <2>2. "config" \in Blocks /\ Coming("config")
    BY DEF SumInv, Idle, Blocks
  <2> QED BY <2>1, <2>2, Unaffected
<1> QED BY <1>6, <1>7 DEF SumInv

LEMMA StoreComing ==
    ASSUME TypeOK, Store, NEW b \in Blocks, Coming(b)
    PROVE  Coming(b)'
<1> DEFINE h == Head(todo)
<1>1. todo \in Seq(Stores) /\ todo # <<>>
  BY DEF TypeOK, Stores, Store
<1>2. /\ h \in Stores /\ h = todo[1] /\ Len(todo) \in Nat /\ Len(todo) >= 1
      /\ DOMAIN todo = 1 .. Len(todo)
      /\ DOMAIN todo' = 1 .. Len(todo) - 1
      /\ \A j \in 1 .. Len(todo) - 1 : todo'[j] = todo[j + 1]
  BY <1>1 DEF Store
<1> HIDE DEF h
<1>3. h[1] \in Blocks /\ h[2] \in Nat /\ h[2] <= Size(h[1]) /\ h = <<h[1], h[2], h[3]>>
  BY <1>2 DEF Stores
<1>4. ASSUME NEW i \in 0 .. Size(b)
      PROVE  Now(b, i)' = IF h[1] = b /\ h[2] = i THEN h[3] ELSE Now(b, i)
  <2>1. Size(b) \in Nat /\ DOMAIN ram = Blocks /\ DOMAIN crc = Blocks
        /\ ram[b] \in [1 .. Size(b) -> Byte]
    BY Constants DEF TypeOK
  <2>2. CASE h[2] = 0
    <3>1. ram' = ram /\ crc' = [crc EXCEPT ![h[1]] = h[3]]
      BY <2>2 DEF Store, h
    <3> QED BY <2>1, <2>2, <3>1 DEF Now
  <2>3. CASE h[2] # 0
    <3>1. ram' = [ram EXCEPT ![h[1]][h[2]] = h[3]] /\ crc' = crc
      BY <2>3 DEF Store, h
    <3>2. ram'[b] = IF b = h[1] THEN [ram[b] EXCEPT ![h[2]] = h[3]] ELSE ram[b]
      BY <2>1, <3>1
    <3>3. CASE i = 0
      BY <2>3, <3>1, <3>3 DEF Now
    <3>4. CASE i # 0
      <4>1. i \in 1 .. Size(b)
        BY <2>1, <3>4
      <4>2. ram'[b][i] = IF h[1] = b /\ h[2] = i THEN h[3] ELSE ram[b][i]
        BY <2>1, <3>2, <4>1
      <4> QED BY <3>4, <4>2 DEF Now
    <3> QED BY <3>3, <3>4
  <2> QED BY <2>2, <2>3
<1>5. ASSUME NEW i \in 0 .. Size(b), NEW v, Pending(b, i, v)
      PROVE  Pending(b, i, v)'
  <2>1. CASE ~Touches(todo, b, i) /\ Now(b, i) = v
    <3>1. ~(h[1] = b /\ h[2] = i)
      BY <1>2, <2>1 DEF Touches
    <3>2. ASSUME NEW j \in DOMAIN todo' PROVE ~(todo'[j][1] = b /\ todo'[j][2] = i)
      <4>1. j + 1 \in DOMAIN todo /\ todo'[j] = todo[j + 1]
        BY <1>2, <3>2
      <4> QED BY <2>1, <4>1 DEF Touches
    <3>3. ~Touches(todo', b, i)
      BY <3>2 DEF Touches
    <3> QED BY <1>4, <2>1, <3>1, <3>3 DEF Pending
  <2>2. CASE LastIn(todo, b, i, v)
    <3>1. PICK k \in DOMAIN todo :
            /\ todo[k] = <<b, i, v>>
            /\ \A j \in DOMAIN todo : j > k => ~(todo[j][1] = b /\ todo[j][2] = i)
      BY <2>2 DEF LastIn
    <3>2. CASE k = 1
      <4>1. h[1] = b /\ h[2] = i /\ h[3] = v
        BY <1>2, <3>1, <3>2
      <4>2. ASSUME NEW j \in DOMAIN todo' PROVE ~(todo'[j][1] = b /\ todo'[j][2] = i)
        <5>1. j + 1 \in DOMAIN todo /\ todo'[j] = todo[j + 1] /\ j + 1 > k
          BY <1>2, <3>2, <4>2
        <5> QED BY <3>1, <5>1
      <4>3. ~Touches(todo', b, i)
        BY <4>2 DEF Touches
      <4> QED BY <1>4, <4>1, <4>3 DEF Pending
    <3>3. CASE k # 1
      <4>1. k - 1 \in DOMAIN todo' /\ todo'[k - 1] = <<b, i, v>>
        BY <1>2, <3>1, <3>3
      <4>2. ASSUME NEW j \in DOMAIN todo', j > k - 1
            PROVE  ~(todo'[j][1] = b /\ todo'[j][2] = i)
        <5>1. j + 1 \in DOMAIN todo /\ todo'[j] = todo[j + 1] /\ j + 1 > k
          BY <1>2, <3>1, <4>2
        <5> QED BY <3>1, <5>1
      <4>3. LastIn(todo', b, i, v)
        BY <4>1, <4>2 DEF LastIn
      <4> QED BY <4>3 DEF Pending
    <3> QED BY <3>2, <3>3
  <2> QED BY <1>5, <2>1, <2>2 DEF Pending
<1>6. 0 \in 0 .. Size(b) /\ \A i \in 1 .. Size(b) : i \in 0 .. Size(b)
  BY Constants
<1> QED BY <1>5, <1>6 DEF Coming

LEMMA SumsInit == Init => SumInv
<1> SUFFICES ASSUME Init PROVE SumInv
  OBVIOUS
<1>1. \A b \in Blocks : Sound(b)
  BY SumZero DEF Init, Sound
<1> QED BY <1>1, TypesInit, ComingIdle DEF Init, SumInv, Blocks

LEMMA SumsNext == TypeOK /\ SumInv /\ [Next]_vars => SumInv'
<1> SUFFICES ASSUME TypeOK, SumInv, [Next]_vars PROVE SumInv'
  OBVIOUS
<1>0. {"config", "timers"} \subseteq Blocks
  BY DEF Blocks
<1>1. ASSUME NEW b \in Blocks, NEW data \in Data, Set(b, data)
      PROVE  SumInv'
  BY <1>1, SetComing
<1>2. ASSUME NEW on \in Byte, NEW off \in Byte, SetOnOff(on, off) PROVE SumInv'
  <2>1. Writes("timers", <<on, off>>) = << <<"timers", 1, on>>, <<"timers", 2, off>> >>
    BY DEF Writes
  <2>2. \A i : ~Touches(todo', "config", i)
    BY <1>2, <2>1 DEF SetOnOff, Touches
  <2>3. Coming("config")'
    BY <1>0, <1>2, <2>2, Unaffected DEF SetOnOff, SumInv, Idle
  <2> QED BY <1>2, <2>3 DEF SetOnOff, SumInv
<1>3. ASSUME NEW stamp \in Byte, GetTimers(stamp) PROVE SumInv'
  <2>1. TimersSize \in 1 .. TimersSize
    BY Constants
  <2> QED BY <1>3, <2>1, OneByteComing DEF GetTimers
<1>4. ASSUME NEW i \in 1 .. 2, NEW byte \in Byte, Console(i, byte) PROVE SumInv'
  <2>1. i \in 1 .. TimersSize
    BY Constants
  <2> QED BY <1>4, <2>1, OneByteComing DEF Console
<1>5. CASE ClearRam
  BY <1>0, <1>5, ClearComing DEF ClearRam, SumInv
<1>6. CASE TestExtRAM
  BY <1>0, <1>6, TestType, ClearComing DEF TestExtRAM, SumInv
<1>7. CASE Store
  BY <1>0, <1>7, StoreComing DEF Store, SumInv
<1>8. CASE PowerFails
  BY <1>8 DEF PowerFails, SumInv
<1>9. CASE Boot
  <2>1. CASE \A b \in Blocks : Sound(b)
    <3>1. todo' = <<>> /\ \A b \in Blocks : Sound(b)'
      BY <1>9, <2>1 DEF Boot, Sound
    <3>2. TypeOK'
      BY TypesNext
    <3>3. \A b \in Blocks : Coming(b)'
      <4> TAKE b \in Blocks
      <4>1. \A i, v : Now(b, i)' = v => Pending(b, i, v)'
        BY <3>1 DEF Pending, Touches
      <4>2. ram'[b] \in [1 .. Size(b) -> Byte]
        BY <3>2 DEF TypeOK
      <4>3. Now(b, 0)' = Sum(ram'[b]) /\ \A i \in 1 .. Size(b) : Now(b, i)' = ram'[b][i]
        BY <3>1 DEF Sound, Now
      <4> QED BY <4>1, <4>2, <4>3 DEF Coming
    <3> QED BY <1>0, <3>3 DEF SumInv
  <2>2. CASE ~ \A b \in Blocks : Sound(b)
    BY <1>0, <1>9, <2>2, ClearComing DEF Boot, SumInv
  <2> QED BY <2>1, <2>2
<1>10. CASE UNCHANGED vars
  BY <1>10 DEF vars, SumInv, Coming, Pending, Now
<1> QED BY <1>1, <1>2, <1>3, <1>4, <1>5, <1>6, <1>7, <1>8, <1>9, <1>10 DEF Next, Works

LEMMA Sums == Spec => [](TypeOK /\ SumInv)
<1>1. TypeOK /\ SumInv /\ [Next]_vars => (TypeOK /\ SumInv)'
  BY TypesNext, SumsNext
<1> QED BY <1>1, TypesInit, SumsInit, PTL DEF Spec

LEMMA SoundWhenIdle == TypeOK /\ SumInv => ConfigSound /\ TimersSound
BY ComingIdle DEF SumInv, ConfigSound, TimersSound, Idle, Blocks

-----------------------------------------------------------------------------
(* The PIN.                                                                *)

\* Where a PIN in memory is whole, and when the EEPROM holds the same.
PinInv ==
    /\ {pin, page} \subseteq [1 .. PinLength -> Digits \cup {Erased}]
    /\ pinStep \in {"kept", "erase", "write"} => pin \in Pins
    /\ pinStep = "kept" => page = pin

LEMMA PinInit0 == PinInit => PinInv
BY DEF PinInit, PinInv, Pins

LEMMA PinStep == PinInv /\ [PinNext]_<<vars, pinVars>> => PinInv'
<1> SUFFICES ASSUME PinInv, [PinNext]_<<vars, pinVars>> PROVE PinInv'
  OBVIOUS
<1>1. CASE pinStep = "kept" /\ (Works \/ Boot) /\ UNCHANGED pinVars
  BY <1>1 DEF PinInv, pinVars
<1>2. CASE GetPin
  <2>1. IsPin(page) => page \in Pins
    BY DEF IsPin, PinInv, Pins
  <2> QED BY <1>2, <2>1 DEF GetPin, PinInv
<1>3. CASE ConsolePin
  BY <1>3 DEF ConsolePin, PinInv
<1>4. ASSUME NEW new \in Pins, SetPin(new) PROVE PinInv'
  BY <1>4 DEF SetPin, PinInv, Pins
<1>5. CASE ErasePage
  BY <1>5 DEF ErasePage, PinInv
<1>6. CASE SplitWritePage
  BY <1>6 DEF SplitWritePage, PinInv
<1>7. CASE PinPowerFails
  BY <1>7 DEF PinPowerFails, PinInv
<1>8. CASE UNCHANGED <<vars, pinVars>>
  BY <1>8 DEF pinVars, PinInv
<1> QED BY <1>1, <1>2, <1>3, <1>4, <1>5, <1>6, <1>7, <1>8 DEF PinNext

LEMMA MemoryStep == [PinNext]_<<vars, pinVars>> => [Next]_vars
BY DEF PinNext, GetPin, ConsolePin, SetPin, ErasePage, SplitWritePage, PinPowerFails, Next,
       pinVars

-----------------------------------------------------------------------------
\* Beside the PIN the memory goes through what it goes through alone: waiting
\* for a PIN at the console only delays it (main, hardware.c get_pin and
\* set_pin).
THEOREM MemoryIsKeptBesidePin == PinSpec => Spec
<1>1. PinInit => Init
  BY DEF PinInit
<1> QED BY <1>1, MemoryStep, PTL DEF PinSpec, Spec

\* The memory keeps bytes in its blocks, and what is written next is a byte in
\* a place of one.
THEOREM MemoryTypeCorrect == PinSpec => []TypeOK
BY MemoryIsKeptBesidePin, Types, PTL

\* However many commands and power failures came before, a configuration the
\* program works with agrees with its sum (main's check_crc and ClearRam).
THEOREM ConfigIsSound == PinSpec => []ConfigSound
BY MemoryIsKeptBesidePin, Sums, SoundWhenIdle, PTL

\* The timers agree with theirs, however long the data are that clients send, but
\* for COMMAND_TIME_ON_OFF and a configuration that runs on into them.
THEOREM TimersAreSound == PinSpec => []TimersSound
BY MemoryIsKeptBesidePin, Sums, SoundWhenIdle, PTL

\* The program works with a whole PIN, the one in the EEPROM (get_pin, set_pin).
THEOREM PinIsKept == PinSpec => []PinKept
<1>1. PinInv => PinKept
  BY DEF PinInv, PinKept
<1> QED BY <1>1, PinInit0, PinStep, PTL DEF PinSpec
=============================================================================
