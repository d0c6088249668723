--------------------------- MODULE LampTableProofs ---------------------------
(* The lamp table is one whole list, every refused lamp is remembered, and *)
(* no row is credited minutes its lamp was not fed, for every size of the  *)
(* table, of the packets and of the answers, and for any lists, networks,  *)
(* disturbances and interleavings.                                         *)
EXTENDS LampTable, SequenceTheorems, FiniteSetTheorems, TLAPS

-----------------------------------------------------------------------------
(* Facts about the operators.                                              *)

\* The constants have their types one by one.
LEMMA Constants ==
    /\ RouteTableEntries \in Nat \ {0} /\ PacketRows \in Nat \ {0}
    /\ MaxReject \in Nat \ {0} /\ MinutesPerHour \in Nat \ {0}
    /\ BadTimeWork \in Nat \ {0} /\ ByteValues \in Nat \ {0} /\ StartTime \in Nat \ {0} /\ ScanTime \in Nat \ {0}
    /\ MaxMinutes \in Nat /\ MinuteValues \in Nat /\ MinuteValues > MaxMinutes
    /\ MaxEvents \in Nat /\ NoLamp \notin Lamps
    /\ Lists \subseteq Seq(Lamps) /\ Networks \subseteq Seq(Lamps)
  BY LampTableAssumption DEF LampTableAssumption

\* Hours and minutes make up the same number of minutes however they are split.
LEMMA DivMod ==
    ASSUME NEW m \in Nat, NEW d \in Nat \ {0}
    PROVE  /\ m \div d \in Nat /\ m % d \in 0 .. d - 1
           /\ m = d * (m \div d) + (m % d)
  OBVIOUS

\* The minutes since a row's clock was set, as the 32-bit subtraction gives them.
LEMMA Elapsed ==
    ASSUME NEW t \in 0 .. MaxMinutes, NEW s \in 0 .. MaxMinutes
    PROVE  /\ (t - s) % MinuteValues \in Nat
           /\ s <= t => (t - s) % MinuteValues = t - s
  BY Constants

\* What AddWorkTime does to a row: the minutes it adds are at most those
\* since the row's clock was set.
LEMMA AddWorkTimeType ==
    ASSUME TypeOK, NEW row \in Row
    PROVE  AddWorkTime(row) \in Row
<1> DEFINE u32t == (time_1m - row.old) % MinuteValues
           minutes == row.minutes + u32t
           q == minutes \div MinutesPerHour
           m == minutes % MinutesPerHour
<1>1. u32t \in Nat /\ minutes \in Nat /\ row.hours \in Nat
  BY Elapsed, SMTT(60) DEF TypeOK, Row
<1>2. AddWorkTime(row) = IF u32t >= BadTimeWork THEN row
                         ELSE IF minutes <= MinutesPerHour
                              THEN [row EXCEPT !.minutes = minutes]
                              ELSE [row EXCEPT !.minutes = m, !.hours = @ + q]
  BY DEF AddWorkTime
<1> HIDE DEF u32t, minutes
<1>3. q \in Nat /\ m \in 0 .. MinutesPerHour - 1
  BY <1>1, DivMod, Constants
<1> HIDE DEF q, m
<1>4. row.hours + q \in Nat /\ m \in 0 .. MinutesPerHour
  BY <1>1, <1>3, Constants
<1>5. [row EXCEPT !.minutes = m, !.hours = @ + q] \in Row
  BY <1>4 DEF Row
<1>6. minutes <= MinutesPerHour => [row EXCEPT !.minutes = minutes] \in Row
  <2>1. minutes <= MinutesPerHour => minutes \in 0 .. MinutesPerHour
    BY <1>1, Constants
  <2> QED BY <2>1 DEF Row
<1> QED BY <1>2, <1>5, <1>6

LEMMA AddWorkTimeClaim ==
    ASSUME TypeOK, NEW row \in Row, row.old <= time_1m
    PROVE  Claimed(AddWorkTime(row)) <= Claimed(row) + (time_1m - row.old)
<1> DEFINE u32t == (time_1m - row.old) % MinuteValues
           minutes == row.minutes + u32t
           q == minutes \div MinutesPerHour
           m == minutes % MinutesPerHour
           claimed == row.hours * MinutesPerHour
<1>1. /\ u32t = time_1m - row.old /\ u32t \in Nat
      /\ row.minutes \in Nat /\ minutes \in Nat /\ row.hours \in Nat
  BY Elapsed, SMTT(60) DEF TypeOK, Row
<1>2. AddWorkTime(row) = IF u32t >= BadTimeWork THEN row
                         ELSE IF minutes <= MinutesPerHour
                              THEN [row EXCEPT !.minutes = minutes]
                              ELSE [row EXCEPT !.minutes = m, !.hours = @ + q]
  BY DEF AddWorkTime
<1>3. Claimed(row) = claimed + row.minutes
  BY DEF Claimed
<1>4. claimed \in Nat
  BY <1>1, Constants
<1>5. Claimed([row EXCEPT !.minutes = minutes]) = claimed + minutes
  BY DEF Claimed, Row
<1>6. Claimed([row EXCEPT !.minutes = m, !.hours = @ + q]) = claimed + minutes
  <2>1. Claimed([row EXCEPT !.minutes = m, !.hours = @ + q])
            = (row.hours + q) * MinutesPerHour + m
    BY DEF Claimed, Row
  <2> HIDE DEF u32t, minutes
  <2>2. q \in Nat /\ m \in Nat /\ minutes = (MinutesPerHour * q) + m
    <3>1. MinutesPerHour \in Nat \ {0}
      BY Constants
    <3>2. /\ q \in Nat /\ m \in 0 .. MinutesPerHour - 1
          /\ minutes = (MinutesPerHour * q) + m
      BY <1>1, <3>1, DivMod, Zenon
    <3> HIDE DEF q, m
    <3> QED BY <3>1, <3>2
  <2> HIDE DEF q, m
  <2>3. (row.hours + q) * MinutesPerHour = (row.hours * MinutesPerHour) + (MinutesPerHour * q)
    BY <1>1, <2>2, Constants
  <2>4. MinutesPerHour * q \in Nat
    BY <2>2, Constants
  <2> HIDE DEF claimed
  <2> QED BY <1>4, <2>1, <2>2, <2>3, <2>4 DEF claimed
<1>7. minutes = row.minutes + (time_1m - row.old)
  BY <1>1
<1> HIDE DEF u32t, minutes, claimed, q, m
<1>8. time_1m \in Int /\ row.old \in Int /\ row.minutes \in Int
  BY <1>1, Constants DEF TypeOK, Row
<1>9. /\ Claimed(row) <= Claimed(row) + (time_1m - row.old)
      /\ claimed + minutes = Claimed(row) + (time_1m - row.old)
      /\ claimed + minutes \in Int
  BY <1>3, <1>4, <1>7, <1>8
<1>10. /\ Claimed(row) <= Claimed(row) + (time_1m - row.old)
       /\ claimed + minutes <= Claimed(row) + (time_1m - row.old)
  BY <1>9
<1> QED BY <1>2, <1>5, <1>6, <1>10

LEMMA FittingLen ==
    ASSUME NEW list \in Seq(Lamps)
    PROVE  Len(Fitting(list)) = IF Len(list) < RouteTableEntries THEN Len(list)
                                ELSE RouteTableEntries
<1> DEFINE n == IF Len(list) < RouteTableEntries THEN Len(list) ELSE RouteTableEntries
<1>1. Len(list) \in Nat /\ n \in Nat /\ n <= Len(list)
  BY Constants
<1>2. \A i \in 1 .. n : list[i] \in Lamps
  BY <1>1
<1> HIDE DEF n
<1>3. Len(SubSeq(list, 1, n)) = n
  BY <1>1, <1>2, SubSeqProperties
<1> QED BY <1>3 DEF Fitting, n

\* What a client may send, or nothing.
LEMMA ListsAreSeqs ==
    ASSUME NEW list \in Lists \cup {<<>>}
    PROVE  /\ list \in Seq(Lamps) /\ Len(list) \in Nat
           /\ \A r \in 1 .. Len(list) : list[r] \in Lamps
<1>1. list \in Seq(Lamps)
  <2>1. <<>> \in Seq(Lamps)
    OBVIOUS
  <2> QED BY <2>1, Constants
<1> QED BY <1>1

\* The rows of a packet hold the client's addresses, the others what they held.
LEMMA StoredRows ==
    ASSUME TypeOK, NEW first \in Nat, NEW last \in Nat, NEW list \in Seq(Lamps),
           last <= Len(list)
    PROVE  /\ Stored(list, first, last) \in [Rows -> Row]
           /\ \A r \in Rows :
                 Stored(list, first, last)[r].mac = IF r \in first + 1 .. last THEN list[r]
                                                    ELSE table[r].mac
<1>1. table \in [Rows -> Row]
  BY DEF TypeOK, Row
<1>2. \A r \in first + 1 .. last : list[r] \in Lamps
  OBVIOUS
<1>3. \A r \in Rows : r \in first + 1 .. last =>
          [table[r] EXCEPT !.mac = list[r], !.hours = 0] \in Row
  BY <1>1, <1>2 DEF Row
<1> QED BY <1>1, <1>2, <1>3 DEF Stored, Row

\* A packet of a list holds at least one of its entries and none behind it.
LEMMA PacketOf ==
    ASSUME NEW list \in Lists, NEW first \in 0 .. Len(list) - 1
    PROVE  /\ list \in Seq(Lamps) /\ Len(list) \in Nat /\ first \in Nat
           /\ LastOf(list, first) \in Nat /\ first < LastOf(list, first)
           /\ LastOf(list, first) <= Len(list)
<1>1. list \in Seq(Lamps) /\ Len(list) \in Nat /\ first \in Nat /\ first < Len(list)
  BY ListsAreSeqs
<1>2. PacketRows \in Nat /\ PacketRows > 0
  BY Constants
<1> QED BY <1>1, <1>2 DEF LastOf

\* What the rows are known to hold after a packet is of its list, or unknown.
LEMMA FilledBy ==
    ASSUME TypeOK, NEW list \in Lists, NEW first \in Nat, NEW last \in Nat
    PROVE  \/ /\ list = filled.list /\ first <= filled.sent
              /\ Filled(list, first, last) =
                     [list |-> list, sent |-> IF last > filled.sent THEN last ELSE filled.sent]
           \/ first = 0 /\ Filled(list, first, last) = [list |-> list, sent |-> last]
           \/ Filled(list, first, last) = NoList
  BY DEF Filled

LEMMA FilledType ==
    ASSUME TypeOK, NEW list \in Lists, NEW first \in Nat, NEW last \in Nat
    PROVE  /\ Filled(list, first, last) \in [list : Lists \cup {<<>>}, sent : Nat]
           /\ [Filled(list, first, last) EXCEPT !.sent = IF @ > last THEN last ELSE @]
                  \in [list : Lists \cup {<<>>}, sent : Nat]
<1>1. Filled(list, first, last) \in [list : Lists \cup {<<>>}, sent : Nat]
  <2>1. NoList \in [list : Lists \cup {<<>>}, sent : Nat]
    BY DEF NoList
  <2>2. filled.sent \in Nat
    BY DEF TypeOK
  <2>3. [list |-> list, sent |-> last] \in [list : Lists \cup {<<>>}, sent : Nat]
    OBVIOUS
  <2>4. [list |-> list, sent |-> IF last > filled.sent THEN last ELSE filled.sent]
            \in [list : Lists \cup {<<>>}, sent : Nat]
    BY <2>2
  <2> QED BY <2>1, <2>3, <2>4, FilledBy
<1>2. ASSUME NEW f \in [list : Lists \cup {<<>>}, sent : Nat]
      PROVE  [f EXCEPT !.sent = IF @ > last THEN last ELSE @]
                  \in [list : Lists \cup {<<>>}, sent : Nat]
  OBVIOUS
<1> QED BY <1>1, <1>2

\* A number half stored over 0, or 0 over a number, is not above the number.
LEMMA HalfStoredBound ==
    ASSUME NEW n \in Nat, NEW old \in {0, n}, NEW new \in {0, n},
           NEW m \in HalfStored(old, new)
    PROVE  m \in Nat /\ m <= n
<1> DEFINE q == n \div ByteValues
           b == n % ByteValues
           p == ByteValues * q
<1>1. ByteValues \in Nat \ {0}
  BY Constants
<1>2. q \in Nat /\ b \in 0 .. ByteValues - 1 /\ n = p + b
  BY <1>1, DivMod, Zenon
<1>3. p \in Nat /\ b \in Nat
  <2> HIDE DEF q, b
  <2>1. ByteValues * q \in Nat
    BY <1>1, <1>2
  <2> QED BY <1>1, <1>2, <2>1
<1>4. 0 \div ByteValues = 0 /\ 0 % ByteValues = 0 /\ ByteValues * 0 = 0
  BY <1>1
<1>5. m \in {old, new, ByteValues * (old \div ByteValues) + (new % ByteValues),
             ByteValues * (new \div ByteValues) + (old % ByteValues)}
  BY DEF HalfStored
<1>6. m \in {0, n, p + b, p + 0, 0 + b, 0 + 0}
  BY <1>4, <1>5
<1> HIDE DEF q, b, p
<1> QED BY <1>2, <1>3, <1>6

LEMMA HalfStoredType ==
    ASSUME NEW old \in Nat, NEW new \in Nat, NEW m \in HalfStored(old, new)
    PROVE  m \in Nat
<1>1. ByteValues \in Nat \ {0}
  BY Constants
<1>2. \A n \in Nat : n \div ByteValues \in Nat /\ n % ByteValues \in Nat
  <2> SUFFICES ASSUME NEW n \in Nat
               PROVE  n \div ByteValues \in Nat /\ n % ByteValues \in Nat
    OBVIOUS
  <2> QED BY <1>1
<1>3. \A q, b \in Nat : ByteValues * q + b \in Nat
  BY <1>1
<1>4. m \in {old, new, ByteValues * (old \div ByteValues) + (new % ByteValues),
             ByteValues * (new \div ByteValues) + (old % ByteValues)}
  BY DEF HalfStored
<1>5. /\ ByteValues * (old \div ByteValues) + (new % ByteValues) \in Nat
      /\ ByteValues * (new \div ByteValues) + (old % ByteValues) \in Nat
  BY <1>2, <1>3, Zenon
<1> QED BY <1>4, <1>5, Zenon

-----------------------------------------------------------------------------
(* Types.                                                                  *)

LEMMA InitType == Init => TypeOK
<1> SUFFICES ASSUME Init PROVE TypeOK
  OBVIOUS
<1> PICK list \in Lists \cup {<<>>} :
        /\ filled = [list |-> list, sent |-> Len(list)]
        /\ table = [r \in Rows |-> IF r <= Len(list)
                                   THEN [EmptyRow EXCEPT !.mac = list[r]] ELSE EmptyRow]
        /\ u16_LampsInTable = Len(Fitting(list))
  BY DEF Init
<1>1. list \in Seq(Lamps) /\ Len(list) \in Nat /\ \A r \in 1 .. Len(list) : list[r] \in Lamps
  BY ListsAreSeqs
<1>2. \A r \in Rows : (IF r <= Len(list) THEN [EmptyRow EXCEPT !.mac = list[r]]
                       ELSE EmptyRow) \in Row
  <2> SUFFICES ASSUME NEW r \in Rows
               PROVE  (IF r <= Len(list) THEN [EmptyRow EXCEPT !.mac = list[r]]
                       ELSE EmptyRow) \in Row
    OBVIOUS
  <2>1. EmptyRow \in Row
    BY Constants DEF EmptyRow, Row
  <2>2. r <= Len(list) => list[r] \in Lamps
    BY <1>1 DEF Rows
  <2> QED BY <2>1, <2>2 DEF Row
<1>3. table \in [Rows -> Row]
  BY <1>2
<1>4. u16_LampsInTable \in Nat
  BY <1>1, FittingLen, Constants
<1>5. filled \in [list : Lists \cup {<<>>}, sent : Nat]
  BY <1>1
<1>6. sRejectTable \in Seq(Lamps) /\ Len(sRejectTable) <= MaxReject
  BY Constants DEF Init
<1>7. fedMinutes \in [Rows -> Int]
  BY DEF Init
<1>8. u16TimeNetworkRouter \in 1 .. StartTime \cup 1 .. ScanTime
  BY Constants DEF Init
<1>9. 0 \in 0 .. MaxMinutes /\ 0 \in 0 .. MaxEvents
  BY Constants
<1>10. requests \in Seq(Nat) /\ answers \in Seq(Seq(Lamps))
  BY DEF Init
<1> QED BY <1>3, <1>4, <1>5, <1>6, <1>7, <1>8, <1>9, <1>10 DEF Init, TypeOK

\* Two facts the steps share.
LEMMA RequestingType ==
    ASSUME requests \in Seq(Nat), NEW n \in Nat
    PROVE  Requesting(n) \in Seq(Nat)
  BY DEF Requesting

LEMMA SeeRowType ==
    ASSUME TypeOK, NEW row \in Row
    PROVE  SeeRow(row) \in Row
<1>1. AddWorkTime(row) \in Row
  BY AddWorkTimeType
<1>2. time_1m \in 0 .. MaxMinutes /\ 1 \in 0 .. 1
  BY DEF TypeOK
<1>3. ASSUME NEW x \in Row PROVE [x EXCEPT !.old = time_1m, !.see = 1] \in Row
  BY <1>2 DEF Row
<1> QED BY <1>1, <1>3 DEF SeeRow

USE DEF tableVars, scanVars, airVars, clientVars, rejectVars, hourVars

LEMMA StepType == TypeOK /\ [Next]_vars => TypeOK'
<1> SUFFICES ASSUME TypeOK, [Next]_vars PROVE TypeOK'
  OBVIOUS
<1>t. \A r \in Rows : table[r] \in Row
  BY DEF TypeOK
<1>e. Event => events' \in 0 .. MaxEvents
  BY Constants DEF Event, TypeOK
<1>n. 0 \in 0 .. MaxMinutes
  BY Constants
<1>1. CASE OnRelay
  <2>1. \A r \in Rows : [table[r] EXCEPT !.old = time_1m, !.see = 0] \in Row
    <3>1. time_1m \in 0 .. MaxMinutes /\ 0 \in 0 .. 1
      BY DEF TypeOK
    <3> QED BY <1>t, <3>1 DEF Row
  <2>2. table' \in [Rows -> Row]
    <3>1. \/ table' = table
          \/ table' = [r \in Rows |-> IF InTable(r)
                                     THEN [table[r] EXCEPT !.old = time_1m, !.see = 0]
                                     ELSE table[r]]
      BY <1>1 DEF OnRelay
    <3>2. table \in [Rows -> Row]
      BY DEF TypeOK
    <3> QED BY <1>t, <2>1, <3>1, <3>2
  <2>3. \A r \in Rows : Claimed(table[r]) \in Int
    BY <1>t, Constants DEF Claimed, Row
  <2>4. fedMinutes' \in [Rows -> Int] /\ foreign' \subseteq Rows
    BY <1>1, <2>3 DEF OnRelay, TypeOK
  <2>5. u16Lamps' \in Nat /\ u16TimeNetworkRouter' \in 1 .. StartTime \cup 1 .. ScanTime
    <3>1. \/ u16Lamps' = u16Lamps /\ u16TimeNetworkRouter' = u16TimeNetworkRouter
          \/ u16Lamps' = 0 /\ u16TimeNetworkRouter' = StartTime
      BY <1>1 DEF OnRelay
    <3>2. StartTime \in 1 .. StartTime \cup 1 .. ScanTime
      BY Constants
    <3> QED BY <3>1, <3>2 DEF TypeOK
  <2>6. sRejectTable' \in Seq(Lamps) /\ Len(sRejectTable') <= MaxReject
    <3>1. sRejectTable' = <<>>
      BY <1>1 DEF OnRelay
    <3> QED BY <3>1, Constants
  <2>7. on_relay' \in BOOLEAN /\ rejected' \subseteq Lamps
    BY <1>1 DEF OnRelay
  <2> QED BY <1>1, <1>e, <2>2, <2>4, <2>5, <2>6, <2>7 DEF OnRelay, TypeOK
<1>2. CASE OffRelay
  <2>1. table' \in [Rows -> Row]
    BY <1>2, <1>t, AddWorkTimeType DEF OffRelay
  <2> QED BY <1>2, <1>e, <2>1 DEF OffRelay, TypeOK
<1>3. CASE Minute
  <2>1. time_1m' \in 0 .. MaxMinutes
    BY <1>3, Constants DEF Minute, TypeOK
  <2>2. fedMinutes' \in [Rows -> Int]
    BY <1>3 DEF Minute, TypeOK
  <2> QED BY <1>3, <2>1, <2>2 DEF Minute, TypeOK
<1>4. CASE Second
  <2>1. u16TimeNetworkRouter' \in 1 .. StartTime \cup 1 .. ScanTime
    BY <1>4, Constants, SMTT(60) DEF Second, TypeOK
  <2>2. u16FirstTableEntry' \in Nat
    BY <1>4 DEF Second, TypeOK
  <2>3. requests' \in Seq(Nat)
    <3>1. requests \in Seq(Nat) /\ Requesting(0) \in Seq(Nat)
      BY RequestingType DEF TypeOK
    <3> QED BY <1>4, <3>1 DEF Second
  <2> QED BY <1>4, <2>1, <2>2, <2>3 DEF Second, TypeOK
<1>5. CASE ScanByHand
  <2>1. requests' \in Seq(Nat)
    BY <1>5, RequestingType DEF ScanByHand, TypeOK
  <2> QED BY <1>5, <1>e, <2>1 DEF ScanByHand, TypeOK
<1>6. CASE HandleAnswer
  <2>1. answers' \in Seq(Seq(Lamps)) /\ Len(Head(answers)) \in Nat
    BY <1>6 DEF HandleAnswer, TypeOK
  <2>2. CASE ~on_relay
    BY <1>6, <2>1, <2>2 DEF HandleAnswer, ProcesNetworkRouterTable, TypeOK
  <2>3. CASE ScanEnds
    <3>1. \A r \in Rows : [table[r] EXCEPT !.see = 0] \in Row
      BY <1>t DEF Row
    <3> QED BY <1>6, <1>t, <2>1, <2>3, <3>1 DEF HandleAnswer, ScanEnds, TypeOK
  <2>4. CASE ScanGoesOn(Head(answers))
    <3> DEFINE S == SeenRows(Head(answers))
               new == {r \in S : table[r].see = 0}
    <3>1. table' \in [Rows -> Row]
      BY <1>t, <2>4, SeeRowType DEF ScanGoesOn
    <3>2. Cardinality(new) \in Nat
      <4>1. IsFiniteSet(Rows) /\ new \subseteq Rows
        BY Constants, FS_Interval DEF Rows, SeenRows
      <4> HIDE DEF new
      <4> QED BY <4>1, FS_Subset, FS_CardinalityType
    <3>3. u16Lamps' \in Nat
      BY <2>4, <3>2 DEF ScanGoesOn, TypeOK
    <3>4. u16FirstTableEntry' \in Nat
      BY <2>1, <2>4 DEF ScanGoesOn, TypeOK
    <3>5. requests' \in Seq(Nat)
      BY <2>4, <3>4, RequestingType DEF ScanGoesOn, TypeOK
    <3> QED BY <1>6, <2>1, <2>4, <3>1, <3>3, <3>4, <3>5 DEF HandleAnswer, ScanGoesOn, TypeOK
  <2> QED BY <1>6, <2>2, <2>3, <2>4 DEF HandleAnswer, ProcesNetworkRouterTable
<1>7. CASE RouterAnswers
  <2> DEFINE last == IF Head(requests) + Batch < Len(network)
                     THEN Head(requests) + Batch ELSE Len(network)
             answer == SubSeq(network, Head(requests) + 1, last)
  <2>1. network \in Seq(Lamps) /\ Head(requests) \in Nat /\ requests' \in Seq(Nat)
    BY <1>7, Constants DEF RouterAnswers, TypeOK
  <2>2. Batch \in Nat /\ Len(network) \in Nat
    BY <2>1, LampTableAssumption DEF LampTableAssumption
  <2>3. last \in Int /\ last <= Len(network)
    BY <2>1, <2>2
  <2> HIDE DEF last
  <2>4. \A i \in Head(requests) + 1 .. last : network[i] \in Lamps
    BY <2>1, <2>2, <2>3
  <2>5. Head(requests) + 1 \in Int
    BY <2>1
  <2>6. answer \in Seq(Lamps)
    BY <2>3, <2>4, <2>5, SubSeqProperties
  <2>7. answers' = Append(answers, answer)
    BY <1>7 DEF RouterAnswers, last
  <2> HIDE DEF answer
  <2>8. answers' \in Seq(Seq(Lamps))
    BY <2>6, <2>7 DEF TypeOK
  <2> QED BY <1>7, <2>1, <2>8 DEF RouterAnswers, TypeOK
<1>8. CASE LoseMessage
  <2>1. requests' \in Seq(Nat) /\ answers' \in Seq(Seq(Lamps))
    <3>1. CASE requests # <<>> /\ requests' = Tail(requests) /\ UNCHANGED answers
      BY <3>1 DEF TypeOK
    <3>2. CASE answers # <<>> /\ answers' = Tail(answers) /\ UNCHANGED requests
      BY <3>2 DEF TypeOK
    <3> QED BY <1>8, <3>1, <3>2 DEF LoseMessage
  <2> QED BY <1>8, <1>e, <2>1 DEF LoseMessage, TypeOK
<1>9. CASE ChangeNetwork
  BY <1>9, <1>e DEF ChangeNetwork, TypeOK
<1>10. CASE ChangeRunning
  BY <1>10, <1>e DEF ChangeRunning, TypeOK
<1>11. CASE PowerFails
  <2>1. /\ u16TimeNetworkRouter' \in 1 .. StartTime \cup 1 .. ScanTime
        /\ sRejectTable' \in Seq(Lamps) /\ Len(sRejectTable') <= MaxReject
        /\ requests' \in Seq(Nat) /\ answers' \in Seq(Seq(Lamps))
    BY <1>11, Constants DEF PowerFails, Restart
  <2> QED BY <1>11, <1>e, <1>n, <2>1 DEF PowerFails, Restart, TypeOK
<1>12. CASE TablePacket
  <2> PICK list \in Lists : \E first \in 0 .. Len(list) - 1 :
          /\ Sends(list, first)
          /\ AfterPacket(list, LastOf(list, first))
          /\ table' = Stored(list, first, LastOf(list, first))
          /\ filled' = Filled(list, first, LastOf(list, first))
    BY <1>12 DEF TablePacket
  <2>1. PICK first \in 0 .. Len(list) - 1 :
            /\ Sends(list, first)
            /\ AfterPacket(list, LastOf(list, first))
            /\ table' = Stored(list, first, LastOf(list, first))
            /\ filled' = Filled(list, first, LastOf(list, first))
    OBVIOUS
  <2>2. table' \in [Rows -> Row]
    BY <2>1, PacketOf, StoredRows
  <2>3. u16_LampsInTable' \in Nat
    BY <2>1, PacketOf, Constants DEF AfterPacket
  <2>4. filled' \in [list : Lists \cup {<<>>}, sent : Nat]
    BY <2>1, PacketOf, FilledType
  <2>5. events' \in 0 .. MaxEvents
    BY <1>e, <2>1 DEF Sends, TypeOK
  <2> QED BY <1>12, <2>2, <2>3, <2>4, <2>5 DEF TablePacket, TypeOK
<1>13. CASE PowerFailsInPacket
  <2> PICK list \in Lists : \E first \in 0 .. Len(list) - 1 :
          CutAtStart \/ CutInRows(list, first) \/ CutAtEnd(list, first)
    BY <1>13 DEF PowerFailsInPacket
  <2>1. PICK first \in 0 .. Len(list) - 1 :
            CutAtStart \/ CutInRows(list, first) \/ CutAtEnd(list, first)
    OBVIOUS
  <2>2. /\ table' \in [Rows -> Row] /\ filled' \in [list : Lists \cup {<<>>}, sent : Nat]
        /\ u16_LampsInTable' \in Nat /\ u16_LampsConnected' \in Nat
    <3>1. CASE CutAtStart
      BY <3>1, HalfStoredType DEF CutAtStart, TypeOK
    <3>2. CASE CutInRows(list, first)
      <4>1. PICK last \in first .. LastOf(list, first) :
                /\ filled' = [Filled(list, first, last) EXCEPT
                                 !.sent = IF @ > last THEN last ELSE @]
                /\ \/ table' = Stored(list, first, last)
                   \/ table' = [Stored(list, first, last) EXCEPT ![last + 1].mac = NoLamp]
        BY <3>2 DEF CutInRows
      <4>2. last \in Nat /\ last <= Len(list)
        BY PacketOf
      <4>3. Stored(list, first, last) \in [Rows -> Row]
        BY <4>2, PacketOf, StoredRows
      <4>4. ASSUME NEW t \in [Rows -> Row] PROVE [t EXCEPT ![last + 1].mac = NoLamp] \in [Rows -> Row]
        BY DEF Row
      <4>5. table' \in [Rows -> Row]
        BY <4>1, <4>3, <4>4
      <4>6. filled' \in [list : Lists \cup {<<>>}, sent : Nat]
        BY <4>1, <4>2, PacketOf, FilledType
      <4> QED BY <3>2, <4>5, <4>6 DEF CutInRows
    <3>3. CASE CutAtEnd(list, first)
      <4>1. Len(list) \in Nat /\ RouteTableEntries \in Nat
        BY PacketOf, Constants
      <4>2. u16_LampsInTable' \in Nat
        BY <3>3, <4>1, HalfStoredType DEF CutAtEnd
      <4>3. table' \in [Rows -> Row]
        BY <3>3, PacketOf, StoredRows DEF CutAtEnd
      <4>4. filled' \in [list : Lists \cup {<<>>}, sent : Nat]
        BY <3>3, PacketOf, FilledType DEF CutAtEnd
      <4> QED BY <3>3, <4>2, <4>3, <4>4 DEF CutAtEnd
    <3> QED BY <2>1, <3>1, <3>2, <3>3
  <2>3. /\ u16TimeNetworkRouter' \in 1 .. StartTime \cup 1 .. ScanTime
        /\ sRejectTable' \in Seq(Lamps) /\ Len(sRejectTable') <= MaxReject
        /\ requests' \in Seq(Nat) /\ answers' \in Seq(Seq(Lamps))
    BY <1>13, Constants DEF PowerFailsInPacket, Restart
  <2> QED BY <1>13, <1>e, <1>n, <2>2, <2>3 DEF PowerFailsInPacket, Restart, TypeOK
<1>14. CASE SetWorkHours
  <2>1. PICK r \in Rows :
            /\ table' = [table EXCEPT ![r].hours = 1]
            /\ fedMinutes' = [fedMinutes EXCEPT ![r] =
                                 @ + (1 - table[r].hours) * MinutesPerHour]
    BY <1>14 DEF SetWorkHours
  <2>2. [table[r] EXCEPT !.hours = 1] \in Row
    BY <1>t DEF Row
  <2>3. table' \in [Rows -> Row]
    BY <2>1, <2>2 DEF TypeOK
  <2>4. fedMinutes[r] + (1 - table[r].hours) * MinutesPerHour \in Int
    BY <1>t, Constants DEF TypeOK, Row
  <2>5. fedMinutes' \in [Rows -> Int]
    BY <2>1, <2>4 DEF TypeOK
  <2> QED BY <1>14, <1>e, <2>3, <2>5 DEF SetWorkHours, TypeOK
<1>15. CASE AccessRequest
  <2>1. PICK mac \in Lamps : sRejectTable' = Listed(mac) /\ rejected' = rejected \cup {mac}
    BY <1>15 DEF AccessRequest
  <2>2. sRejectTable' \in Seq(Lamps) /\ Len(sRejectTable') <= MaxReject
    BY <2>1, Constants DEF Listed, TypeOK
  <2> QED BY <1>15, <1>e, <2>1, <2>2 DEF AccessRequest, TypeOK
<1>16. CASE UNCHANGED vars
  BY <1>16 DEF vars, TypeOK
<1> QED
  BY <1>1, <1>2, <1>3, <1>4, <1>5, <1>6, <1>7, <1>8, <1>9, <1>10, <1>11, <1>12,
     <1>13, <1>14, <1>15, <1>16 DEF Next

\* The table, the counters, the messages and the list of refused lamps keep
\* their types, whatever a client sends and the router answers.
THEOREM TypeCorrect == Spec => []TypeOK
  BY InitType, StepType, PTL DEF Spec

-----------------------------------------------------------------------------
(* One whole list.                                                         *)

\* The first rows hold what the ghost says of them.
RowsHeld ==
    /\ filled.sent <= Len(filled.list)
    /\ \A r \in Rows : r <= filled.sent => table[r].mac = filled.list[r]

\* A list that is in use was sent to its end.
UsedWhole ==
    u16_LampsInTable > 0 /\ filled.list \in Lists =>
        /\ filled.sent = Len(filled.list)
        /\ \A r \in Rows : InTable(r) => r <= Len(filled.list)
        /\ ~cut => u16_LampsInTable = Len(Fitting(filled.list))

WholeInv == RowsHeld /\ UsedWhole

LEMMA InitWhole == Init => WholeInv
<1> SUFFICES ASSUME Init PROVE WholeInv
  OBVIOUS
<1> PICK list \in Lists \cup {<<>>} :
        /\ filled = [list |-> list, sent |-> Len(list)]
        /\ table = [r \in Rows |-> IF r <= Len(list)
                                   THEN [EmptyRow EXCEPT !.mac = list[r]] ELSE EmptyRow]
        /\ u16_LampsInTable = Len(Fitting(list))
  BY DEF Init
<1>1. list \in Seq(Lamps) /\ Len(list) \in Nat
  BY ListsAreSeqs
<1>2. u16_LampsInTable <= Len(list) /\ u16_LampsInTable \in Nat
  BY <1>1, FittingLen, Constants
<1>3. filled.list = list /\ filled.sent = Len(list)
  OBVIOUS
<1>4. RowsHeld
  BY <1>1, <1>3 DEF RowsHeld, EmptyRow
<1>5. UsedWhole
  BY <1>1, <1>2, <1>3 DEF UsedWhole, InTable, Rows
<1> QED BY <1>4, <1>5 DEF WholeInv

\* AddWorkTime changes no address.
LEMMA AddWorkTimeMac ==
    ASSUME NEW row \in Row
    PROVE  AddWorkTime(row).mac = row.mac
  BY DEF AddWorkTime, Row

\* Only a packet of a client changes the addresses and the number of rows.
LEMMA StepMacs ==
    ASSUME TypeOK, [Next]_vars
    PROVE  \/ TablePacket
           \/ PowerFailsInPacket
           \/ /\ \A r \in Rows : table'[r].mac = table[r].mac
              /\ u16_LampsInTable' = u16_LampsInTable /\ filled' = filled /\ cut' = cut
<1> DEFINE MacsKept == /\ \A r \in Rows : table'[r].mac = table[r].mac
                       /\ u16_LampsInTable' = u16_LampsInTable
                       /\ filled' = filled /\ cut' = cut
<1>t. \A r \in Rows : table[r] \in Row
  BY DEF TypeOK
<1>1. CASE OnRelay
  <2>1. \A r \in Rows : \/ table'[r] = table[r]
                        \/ table'[r] = [table[r] EXCEPT !.old = time_1m, !.see = 0]
    BY <1>1 DEF OnRelay
  <2>2. \A r \in Rows : table'[r].mac = table[r].mac
    BY <1>t, <2>1 DEF Row
  <2> QED BY <1>1, <2>2 DEF OnRelay
<1>2. CASE OffRelay
  <2>1. \A r \in Rows : table'[r] = table[r] \/ table'[r] = AddWorkTime(table[r])
    BY <1>2, <1>t DEF OffRelay
  <2>2. MacsKept
    BY <1>2, <1>t, <2>1, AddWorkTimeMac DEF OffRelay
  <2> QED BY <2>2
<1>3. CASE HandleAnswer
  <2>1. \A r \in Rows : \/ table'[r] = table[r]
                        \/ table'[r] = [table[r] EXCEPT !.see = 0]
                        \/ table'[r] = SeeRow(table[r])
    BY <1>3 DEF HandleAnswer, ProcesNetworkRouterTable, ScanEnds, ScanGoesOn, TypeOK
  <2>2. \A row \in Row : SeeRow(row).mac = row.mac
    <3> SUFFICES ASSUME NEW row \in Row PROVE SeeRow(row).mac = row.mac
      OBVIOUS
    <3>1. AddWorkTime(row) \in Row /\ AddWorkTime(row).mac = row.mac
      BY AddWorkTimeType, AddWorkTimeMac
    <3> QED BY <3>1 DEF SeeRow, Row
  <2>3. \A r \in Rows : table'[r].mac = table[r].mac
    BY <1>t, <2>1, <2>2 DEF Row
  <2> QED BY <1>3, <2>3 DEF HandleAnswer
<1>4. CASE SetWorkHours
  <2>1. PICK h \in Rows : table' = [table EXCEPT ![h].hours = 1]
    BY <1>4 DEF SetWorkHours
  <2>2. \A r \in Rows : table'[r].mac = table[r].mac
    BY <1>t, <2>1 DEF TypeOK, Row
  <2> QED BY <1>4, <2>2 DEF SetWorkHours
<1>5. CASE PowerFails
  BY <1>5 DEF PowerFails
<1>6. CASE Minute \/ Second \/ ScanByHand \/ RouterAnswers \/ LoseMessage
           \/ ChangeNetwork \/ ChangeRunning \/ AccessRequest \/ UNCHANGED vars
  BY <1>6 DEF Minute, Second, ScanByHand, RouterAnswers, LoseMessage, ChangeNetwork,
              ChangeRunning, AccessRequest, vars
<1> QED BY <1>1, <1>2, <1>3, <1>4, <1>5, <1>6 DEF Next

\* After rows first+1 .. last of a list were stored, the ghost is right, and it
\* knows of this list up to last or of none.
LEMMA PacketHolds ==
    ASSUME TypeOK, RowsHeld, NEW list \in Lists, NEW first \in 0 .. Len(list) - 1,
           NEW last \in first .. Len(list)
    PROVE  LET f == Filled(list, first, last)
               t == Stored(list, first, last)
           IN  /\ f.sent \in Nat /\ f.sent <= Len(f.list)
               /\ \A r \in Rows : r <= f.sent => t[r].mac = f.list[r]
               /\ f.list \in Lists => f.list = list /\ last <= f.sent
<1> DEFINE f == Filled(list, first, last)
           t == Stored(list, first, last)
<1>1. /\ list \in Seq(Lamps) /\ Len(list) \in Nat /\ first \in Nat /\ last \in Nat
      /\ last <= Len(list) /\ first <= last
  BY PacketOf
<1>2. \A r \in Rows : t[r].mac = IF r \in first + 1 .. last THEN list[r] ELSE table[r].mac
  BY <1>1, StoredRows
<1>3. filled.sent \in Nat /\ Rows \subseteq Nat \ {0}
  BY DEF TypeOK, Rows
<1>4. \/ /\ list = filled.list /\ first <= filled.sent
         /\ f = [list |-> list, sent |-> IF last > filled.sent THEN last ELSE filled.sent]
      \/ first = 0 /\ f = [list |-> list, sent |-> last]
      \/ f = NoList
  BY <1>1, FilledBy
<1> HIDE DEF f, t
<1>5. CASE /\ list = filled.list /\ first <= filled.sent
           /\ f = [list |-> list, sent |-> IF last > filled.sent THEN last ELSE filled.sent]
  <2>1. f.list = list /\ f.sent = IF last > filled.sent THEN last ELSE filled.sent
    BY <1>5
  <2>2. \A r \in Rows : r <= f.sent => t[r].mac = list[r]
    <3> SUFFICES ASSUME NEW r \in Rows, r <= f.sent PROVE t[r].mac = list[r]
      OBVIOUS
    <3>1. CASE r \in first + 1 .. last
      BY <1>2, <3>1
    <3>2. CASE r \notin first + 1 .. last
      <4>1. r <= filled.sent
        BY <1>1, <1>3, <1>5, <2>1, <3>2
      <4>2. table[r].mac = list[r]
        BY <1>5, <4>1 DEF RowsHeld
      <4> QED BY <1>2, <3>2, <4>2
    <3> QED BY <3>1, <3>2
  <2> QED BY <1>1, <1>3, <1>5, <2>1, <2>2 DEF RowsHeld, f, t
<1>6. CASE first = 0 /\ f = [list |-> list, sent |-> last]
  <2>1. f.list = list /\ f.sent = last
    BY <1>6
  <2>2. \A r \in Rows : r <= last => t[r].mac = list[r]
    BY <1>1, <1>2, <1>3, <1>6
  <2> QED BY <1>1, <2>1, <2>2 DEF f, t
<1>7. CASE f = NoList
  <2>1. f.list = <<>> /\ f.sent = 0
    BY <1>7 DEF NoList
  <2>2. f.list \notin Lists
    BY <2>1, LampTableAssumption, Zenon DEF LampTableAssumption
  <2>3. f.sent \in Nat /\ f.sent <= Len(f.list)
    BY <2>1
  <2>4. \A r \in Rows : ~(r <= f.sent)
    BY <1>3, <2>1
  <2> QED BY <2>2, <2>3, <2>4 DEF f, t
<1> QED BY <1>4, <1>5, <1>6, <1>7

LEMMA StepPacket ==
    ASSUME TypeOK, WholeInv, TablePacket
    PROVE  WholeInv'
<1> PICK list \in Lists : \E first \in 0 .. Len(list) - 1 :
        /\ AfterPacket(list, LastOf(list, first))
        /\ table' = Stored(list, first, LastOf(list, first))
        /\ filled' = Filled(list, first, LastOf(list, first))
  BY DEF TablePacket
<1> PICK first \in 0 .. Len(list) - 1 :
        /\ AfterPacket(list, LastOf(list, first))
        /\ table' = Stored(list, first, LastOf(list, first))
        /\ filled' = Filled(list, first, LastOf(list, first))
  OBVIOUS
<1> DEFINE last == LastOf(list, first)
<1>1. /\ list \in Seq(Lamps) /\ Len(list) \in Nat /\ first \in Nat
      /\ last \in first .. Len(list) /\ last \in Nat
  BY PacketOf
<1> HIDE DEF last
<1>2. /\ filled'.sent \in Nat /\ filled'.sent <= Len(filled'.list)
      /\ \A r \in Rows : r <= filled'.sent => table'[r].mac = filled'.list[r]
      /\ filled'.list \in Lists => filled'.list = list /\ last <= filled'.sent
  BY <1>1, PacketHolds DEF WholeInv, last
<1>3. RowsHeld'
  BY <1>2 DEF RowsHeld
<1>4. UsedWhole'
  <2> SUFFICES ASSUME u16_LampsInTable' > 0, filled'.list \in Lists
               PROVE  /\ filled'.sent = Len(filled'.list)
                      /\ \A r \in Rows : r <= u16_LampsInTable' => r <= Len(filled'.list)
                      /\ u16_LampsInTable' = Len(Fitting(filled'.list))
    BY DEF UsedWhole, InTable
  <2>1. filled'.list = list /\ last <= filled'.sent /\ filled'.sent <= Len(list)
    BY <1>2
  <2>2. /\ last = Len(list)
        /\ u16_LampsInTable' = IF last > RouteTableEntries THEN RouteTableEntries ELSE last
    BY <1>1 DEF AfterPacket, last
  <2>3. u16_LampsInTable' = Len(Fitting(list)) /\ u16_LampsInTable' <= Len(list)
    BY <1>1, <2>2, FittingLen, Constants
  <2>4. \A r \in Rows : r <= u16_LampsInTable' => r <= Len(list)
    BY <1>1, <2>2, <2>3, Constants DEF Rows
  <2>5. filled'.sent = Len(list)
    BY <1>1, <1>2, <2>1, <2>2
  <2> QED BY <2>1, <2>3, <2>4, <2>5
<1> QED BY <1>3, <1>4 DEF WholeInv

LEMMA StepCut ==
    ASSUME TypeOK, WholeInv, PowerFailsInPacket
    PROVE  WholeInv'
<1> PICK list \in Lists : \E first \in 0 .. Len(list) - 1 :
        CutAtStart \/ CutInRows(list, first) \/ CutAtEnd(list, first)
  BY DEF PowerFailsInPacket
<1> PICK first \in 0 .. Len(list) - 1 :
        CutAtStart \/ CutInRows(list, first) \/ CutAtEnd(list, first)
  OBVIOUS
<1>c. cut'
  BY DEF PowerFailsInPacket
<1>l. /\ list \in Seq(Lamps) /\ Len(list) \in Nat /\ first \in Nat
      /\ LastOf(list, first) \in Nat /\ LastOf(list, first) <= Len(list)
  BY PacketOf
<1>1. CASE CutAtStart
  <2>1. /\ u16_LampsInTable \in Nat /\ u16_LampsInTable' \in Nat
        /\ u16_LampsInTable' <= u16_LampsInTable
    BY <1>1, HalfStoredBound DEF CutAtStart, TypeOK
  <2>2. table' = table /\ filled' = filled
    BY <1>1 DEF CutAtStart
  <2>3. RowsHeld'
    BY <2>2 DEF WholeInv, RowsHeld
  <2>4. UsedWhole'
    BY <1>c, <2>1, <2>2 DEF WholeInv, UsedWhole, InTable, Rows
  <2> QED BY <2>3, <2>4 DEF WholeInv
<1>2. CASE CutInRows(list, first)
  <2>1. PICK last \in first .. LastOf(list, first) :
            /\ filled' = [Filled(list, first, last) EXCEPT
                             !.sent = IF @ > last THEN last ELSE @]
            /\ \/ table' = Stored(list, first, last)
               \/ table' = [Stored(list, first, last) EXCEPT ![last + 1].mac = NoLamp]
    BY <1>2 DEF CutInRows
  <2> DEFINE f == Filled(list, first, last)
             t == Stored(list, first, last)
  <2>2. last \in first .. Len(list) /\ last \in Nat
    BY <1>l
  <2>3. /\ f.sent \in Nat /\ f.sent <= Len(f.list)
        /\ \A r \in Rows : r <= f.sent => t[r].mac = f.list[r]
    BY <2>2, PacketHolds DEF WholeInv
  <2>4. f \in [list : Lists \cup {<<>>}, sent : Nat] /\ t \in [Rows -> Row]
    <3>1. last \in Nat /\ last <= Len(list)
      BY <1>l, <2>2
    <3>2. f \in [list : Lists \cup {<<>>}, sent : Nat]
      BY <1>l, <3>1, FilledType
    <3>3. t \in [Rows -> Row]
      BY <1>l, <3>1, StoredRows
    <3> QED BY <3>2, <3>3
  <2> HIDE DEF f, t
  <2>5. /\ filled' = [f EXCEPT !.sent = IF @ > last THEN last ELSE @]
        /\ table' = t \/ table' = [t EXCEPT ![last + 1].mac = NoLamp]
    BY <2>1 DEF f, t
  <2>6. /\ filled'.list = f.list /\ filled'.sent \in Nat
        /\ filled'.sent <= last /\ filled'.sent <= f.sent
    BY <2>2, <2>4, <2>5
  <2>7. \A r \in Rows : r <= last => table'[r].mac = t[r].mac
    <3> SUFFICES ASSUME NEW r \in Rows, r <= last PROVE table'[r] = t[r]
      OBVIOUS
    <3>1. r # last + 1
      BY <2>2 DEF Rows
    <3>2. [t EXCEPT ![last + 1].mac = NoLamp][r] = t[r]
      BY <2>4, <3>1, Zenon
    <3> QED BY <2>5, <3>2
  <2>8. \A r \in Rows : r <= filled'.sent => r <= last /\ r <= f.sent
    BY <2>2, <2>3, <2>6 DEF Rows
  <2>9. Len(f.list) \in Nat
    BY <2>4, ListsAreSeqs
  <2>10. RowsHeld'
    BY <2>3, <2>6, <2>7, <2>8, <2>9 DEF RowsHeld
  <2>11. UsedWhole'
    BY <1>2 DEF CutInRows, UsedWhole
  <2> QED BY <2>10, <2>11 DEF WholeInv
<1>3. CASE CutAtEnd(list, first)
  <2>1. Len(list) \in first .. Len(list)
    BY <1>l
  <2>2. /\ filled'.sent \in Nat /\ filled'.sent <= Len(filled'.list)
        /\ \A r \in Rows : r <= filled'.sent => table'[r].mac = filled'.list[r]
        /\ filled'.list \in Lists => filled'.list = list /\ Len(list) <= filled'.sent
    BY <1>3, <2>1, PacketHolds DEF WholeInv, CutAtEnd
  <2>3. RowsHeld'
    BY <2>2 DEF RowsHeld
  <2>4. \A r \in Rows : r <= u16_LampsInTable' => r <= Len(list)
    <3>1. CASE u16_LampsInTable' \in HalfStored(0, Len(list))
      <4>1. u16_LampsInTable' \in Nat /\ u16_LampsInTable' <= Len(list)
        BY <1>l, <3>1, HalfStoredBound
      <4> QED BY <1>l, <4>1 DEF Rows
    <3>2. CASE Len(list) > RouteTableEntries
      BY <1>l, <3>2, Constants DEF Rows
    <3> QED BY <1>3, <3>1, <3>2 DEF CutAtEnd
  <2>5. UsedWhole'
    BY <1>c, <1>l, <2>2, <2>4 DEF UsedWhole, InTable
  <2> QED BY <2>3, <2>5 DEF WholeInv
<1> QED BY <1>1, <1>2, <1>3

LEMMA StepWhole == TypeOK /\ WholeInv /\ [Next]_vars => WholeInv'
<1> SUFFICES ASSUME TypeOK, WholeInv, [Next]_vars PROVE WholeInv'
  OBVIOUS
<1>1. CASE /\ \A r \in Rows : table'[r].mac = table[r].mac
           /\ u16_LampsInTable' = u16_LampsInTable /\ filled' = filled /\ cut' = cut
  <2>1. RowsHeld'
    BY <1>1 DEF WholeInv, RowsHeld
  <2>2. UsedWhole'
    BY <1>1 DEF WholeInv, UsedWhole, InTable
  <2> QED BY <2>1, <2>2 DEF WholeInv
<1> QED BY <1>1, StepMacs, StepPacket, StepCut

\* As long as no packet of another list came between a list's packets, the rows
\* the host works with are that list, whatever packets are repeated, given up
\* or cut off by a power failure at any store (SEND_LAMPS_MAC_TABLE).
THEOREM ListIsWhole == Spec => []TableWhole
<1>1. Spec => [](TypeOK /\ WholeInv)
  BY InitType, InitWhole, StepType, StepWhole, PTL DEF Spec
<1>2. TypeOK /\ WholeInv => TableWhole
  BY DEF WholeInv, RowsHeld, UsedWhole, TableWhole, InTable, TypeOK, Rows
<1> QED BY <1>1, <1>2, PTL

-----------------------------------------------------------------------------
(* The refused lamps.                                                      *)

\* The list has no lamp twice, none that was not refused, and while it has
\* room it has them all.
RejectInv ==
    /\ Cardinality(Range(sRejectTable)) = Len(sRejectTable)
    /\ IsFiniteSet(rejected)
    /\ Range(sRejectTable) \subseteq rejected
    /\ Len(sRejectTable) < MaxReject => Range(sRejectTable) = rejected

LEMMA RangeEmpty == Range(<<>>) = {}
  BY DEF Range

LEMMA RangeAppend ==
    ASSUME NEW s \in Seq(Lamps), NEW mac \in Lamps
    PROVE  Range(Append(s, mac)) = Range(s) \cup {mac}
<1> DEFINE t == Append(s, mac)
<1>1. /\ Len(s) \in Nat /\ DOMAIN s = 1 .. Len(s) /\ DOMAIN t = 1 .. Len(s) + 1
      /\ \A i \in 1 .. Len(s) : t[i] = s[i]
      /\ t[Len(s) + 1] = mac
  OBVIOUS
<1> HIDE DEF t
<1>2. 1 .. Len(s) + 1 = 1 .. Len(s) \cup {Len(s) + 1}
  BY <1>1
<1>3. {t[i] : i \in 1 .. Len(s) + 1} = {s[i] : i \in 1 .. Len(s)} \cup {mac}
  BY <1>1, <1>2
<1> QED BY <1>1, <1>3 DEF Range, t

LEMMA ClearedReject ==
    ASSUME sRejectTable' = <<>>, rejected' = {}
    PROVE  RejectInv'
<1>1. Cardinality({}) = 0 /\ IsFiniteSet({})
  BY FS_EmptySet
<1> QED BY <1>1, RangeEmpty DEF RejectInv

LEMMA StepReject == TypeOK /\ RejectInv /\ [Next]_vars => RejectInv'
<1> SUFFICES ASSUME TypeOK, RejectInv, [Next]_vars PROVE RejectInv'
  OBVIOUS
<1>1. CASE OnRelay
  BY <1>1, ClearedReject DEF OnRelay
<1>2. CASE PowerFails \/ PowerFailsInPacket
  BY <1>2, ClearedReject DEF PowerFails, PowerFailsInPacket, Restart
<1>3. CASE AccessRequest
  <2>1. PICK mac \in Lamps : sRejectTable' = Listed(mac) /\ rejected' = rejected \cup {mac}
    BY <1>3 DEF AccessRequest
  <2>2. IsFiniteSet(rejected')
    BY <2>1, FS_AddElement DEF RejectInv
  <2>3. CASE Len(sRejectTable) = MaxReject \/ mac \in Range(sRejectTable)
    BY <2>1, <2>2, <2>3 DEF Listed, RejectInv
  <2>4. CASE ~(Len(sRejectTable) = MaxReject \/ mac \in Range(sRejectTable))
    <3>1. sRejectTable' = Append(sRejectTable, mac) /\ sRejectTable \in Seq(Lamps)
      BY <2>1, <2>4 DEF Listed, TypeOK
    <3>2. /\ Len(sRejectTable') = Len(sRejectTable) + 1
          /\ Range(sRejectTable') = Range(sRejectTable) \cup {mac}
      BY <3>1, RangeAppend
    <3>3. IsFiniteSet(Range(sRejectTable))
      BY FS_Subset DEF RejectInv
    <3>4. Cardinality(Range(sRejectTable')) = Len(sRejectTable')
      BY <2>4, <3>2, <3>3, FS_AddElement DEF RejectInv
    <3>5. Len(sRejectTable) < MaxReject
      BY <2>4, Constants DEF TypeOK
    <3> QED BY <2>1, <2>2, <3>2, <3>4, <3>5 DEF RejectInv
  <2> QED BY <2>3, <2>4
<1>4. CASE OffRelay \/ Minute \/ Second \/ ScanByHand \/ HandleAnswer \/ RouterAnswers
           \/ LoseMessage \/ ChangeNetwork \/ ChangeRunning
           \/ TablePacket \/ SetWorkHours \/ UNCHANGED vars
  BY <1>4 DEF OffRelay, Minute, Second, ScanByHand, HandleAnswer, RouterAnswers,
              LoseMessage, ChangeNetwork, ChangeRunning, TablePacket,
              SetWorkHours, vars, RejectInv
<1> QED BY <1>1, <1>2, <1>3, <1>4 DEF Next

\* Every refused lamp is in the list clients ask for, as long as there were not
\* more of them than MAX_ACCESS_REJECT_TABLE.
THEOREM RejectsAreListed == Spec => []RejectsListed
<1>1. Init => RejectInv
  <2>1. Cardinality({}) = 0 /\ IsFiniteSet({})
    BY FS_EmptySet
  <2> QED BY <2>1, RangeEmpty DEF Init, RejectInv
<1>2. TypeOK /\ RejectInv => RejectsListed
  <2> SUFFICES ASSUME TypeOK, RejectInv, Cardinality(rejected) <= MaxReject
               PROVE  Range(sRejectTable) = rejected
    BY DEF RejectsListed
  <2>1. CASE Len(sRejectTable) < MaxReject
    BY <2>1 DEF RejectInv
  <2>2. CASE ~(Len(sRejectTable) < MaxReject)
    <3>1. Cardinality(Range(sRejectTable)) = MaxReject
      BY <2>2, Constants DEF RejectInv, TypeOK
    <3> QED BY <3>1, FS_Subset, FS_CardinalityType, Constants DEF RejectInv
  <2> QED BY <2>1, <2>2
<1> QED BY <1>1, <1>2, InitType, StepType, StepReject, PTL DEF Spec

-----------------------------------------------------------------------------
(* The working hours.                                                      *)

\* While the relay is on, the minutes since a row's clock was set are still to
\* be claimed; the others are lost.
Unclaimed(r) == IF on_relay THEN time_1m - table[r].old ELSE 0

HoursInv ==
    \A r \in Rows \ foreign :
        /\ InTable(r)
        /\ on_relay => table[r].old <= time_1m
        /\ Claimed(table[r]) + Unclaimed(r) <= fedMinutes[r]

LEMMA Numbers ==
    ASSUME TypeOK, NEW r \in Rows
    PROVE  /\ table[r] \in Row /\ Claimed(table[r]) \in Int
           /\ table[r].old \in Int /\ time_1m \in Int /\ fedMinutes[r] \in Int
           /\ Unclaimed(r) \in Int
<1>1. table[r] \in Row
  BY DEF TypeOK
<1>2. /\ table[r].hours \in Int /\ table[r].minutes \in Int /\ table[r].old \in Int
      /\ time_1m \in Int /\ fedMinutes[r] \in Int
  BY <1>1, Constants DEF Row, TypeOK
<1>3. Claimed(table[r]) \in Int
  <2>1. MinutesPerHour \in Int
    BY Constants
  <2> QED BY <1>2, <2>1 DEF Claimed
<1>4. Unclaimed(r) \in Int
  BY <1>2 DEF Unclaimed
<1> QED BY <1>1, <1>2, <1>3, <1>4

LEMMA StepHours == TypeOK /\ HoursInv /\ [Next]_vars => HoursInv'
<1> SUFFICES ASSUME TypeOK, HoursInv, [Next]_vars, NEW r \in Rows \ foreign'
             PROVE  /\ InTable(r)'
                    /\ on_relay' => table'[r].old <= time_1m'
                    /\ Claimed(table'[r]) + Unclaimed(r)' <= fedMinutes'[r]
  BY DEF HoursInv, Claimed
<1>t. /\ table[r] \in Row /\ Claimed(table[r]) \in Int
      /\ table[r].old \in Int /\ time_1m \in Int /\ fedMinutes[r] \in Int
      /\ Unclaimed(r) \in Int
  BY Numbers
<1>i. r \notin foreign => /\ InTable(r)
                          /\ on_relay => table[r].old <= time_1m
                          /\ Claimed(table[r]) + Unclaimed(r) <= fedMinutes[r]
  BY DEF HoursInv
<1>u. r \notin foreign => Claimed(table[r]) <= fedMinutes[r]
  BY <1>t, <1>i DEF Unclaimed
<1> HIDE DEF HoursInv
<1>1. CASE OnRelay
  <2>1. CASE on_relay
    BY <1>1, <1>i, <2>1 DEF OnRelay, Unclaimed, InTable
  <2>2. CASE ~on_relay
    <3>1. /\ InTable(r)
          /\ table'[r] = [table[r] EXCEPT !.old = time_1m, !.see = 0]
          /\ fedMinutes'[r] = IF r \in foreign THEN Claimed(table[r]) ELSE fedMinutes[r]
          /\ time_1m' = time_1m /\ u16_LampsInTable' = u16_LampsInTable
      BY <1>1, <1>i, <2>2 DEF OnRelay
    <3>2. Claimed(table'[r]) = Claimed(table[r]) /\ table'[r].old = time_1m
      BY <1>t, <3>1 DEF Claimed, Row
    <3> QED BY <1>t, <1>u, <3>1, <3>2 DEF InTable, Unclaimed
  <2> QED BY <2>1, <2>2
<1>2. CASE OffRelay
  <2>1. /\ r \notin foreign /\ fedMinutes'[r] = fedMinutes[r] /\ ~on_relay'
        /\ u16_LampsInTable' = u16_LampsInTable
        /\ table'[r] = IF on_relay /\ InTable(r) THEN AddWorkTime(table[r]) ELSE table[r]
    BY <1>2 DEF OffRelay
  <2>2. CASE on_relay
    <3>1. AddWorkTime(table[r]) \in Row
      BY <1>t, AddWorkTimeType
    <3>2. Claimed(AddWorkTime(table[r])) \in Int
      BY <3>1, Constants DEF Claimed, Row
    <3>3. Claimed(AddWorkTime(table[r])) <= Claimed(table[r]) + (time_1m - table[r].old)
      BY <1>t, <1>i, <2>1, <2>2, AddWorkTimeClaim
    <3>4. table'[r] = AddWorkTime(table[r])
      BY <1>i, <2>1, <2>2
    <3> QED BY <1>t, <1>i, <2>1, <2>2, <3>2, <3>3, <3>4 DEF Unclaimed, InTable
  <2>3. CASE ~on_relay
    BY <1>t, <1>i, <2>1, <2>3 DEF Unclaimed, InTable
  <2> QED BY <2>2, <2>3
<1>3. CASE Minute
  <2>1. /\ r \notin foreign /\ time_1m' = time_1m + 1 /\ table' = table
        /\ on_relay' = on_relay /\ u16_LampsInTable' = u16_LampsInTable
        /\ fedMinutes'[r] = fedMinutes[r] + IF on_relay THEN 1 ELSE 0
    BY <1>3 DEF Minute
  <2> QED BY <1>t, <1>i, <2>1 DEF Unclaimed, InTable
<1>4. CASE HandleAnswer
  <2>1. /\ r \notin foreign /\ time_1m' = time_1m /\ on_relay' = on_relay
        /\ u16_LampsInTable' = u16_LampsInTable /\ fedMinutes' = fedMinutes
    BY <1>4 DEF HandleAnswer
  <2>2. CASE table'[r] = table[r]
    BY <1>i, <2>1, <2>2 DEF Unclaimed, InTable
  <2>3. CASE table'[r] = [table[r] EXCEPT !.see = 0]
    <3>1. Claimed(table'[r]) = Claimed(table[r]) /\ table'[r].old = table[r].old
      BY <1>t, <2>3 DEF Claimed, Row
    <3> QED BY <1>i, <2>1, <3>1 DEF Unclaimed, InTable
  <2>4. CASE on_relay /\ table'[r] = SeeRow(table[r])
    <3>1. AddWorkTime(table[r]) \in Row
      BY <1>t, AddWorkTimeType
    <3>2. Claimed(AddWorkTime(table[r])) \in Int
      BY <3>1, Constants DEF Claimed, Row
    <3>3. Claimed(AddWorkTime(table[r])) <= Claimed(table[r]) + (time_1m - table[r].old)
      BY <1>t, <1>i, <2>1, <2>4, AddWorkTimeClaim
    <3>4. /\ Claimed(table'[r]) = Claimed(AddWorkTime(table[r]))
          /\ table'[r].old = time_1m
      BY <2>4, <3>1 DEF SeeRow, Claimed, Row
    <3> QED BY <1>t, <1>i, <2>1, <2>4, <3>2, <3>3, <3>4 DEF Unclaimed, InTable
  <2> QED
    BY <1>4, <2>2, <2>3, <2>4
    DEF HandleAnswer, ProcesNetworkRouterTable, ScanEnds, ScanGoesOn, TypeOK
<1>5. CASE PowerFails
  <2>1. /\ r \notin foreign /\ ~on_relay' /\ table' = table /\ fedMinutes' = fedMinutes
        /\ u16_LampsInTable' = u16_LampsInTable
    BY <1>5 DEF PowerFails, Restart
  <2> QED BY <1>t, <1>i, <1>u, <2>1 DEF Unclaimed, InTable
<1>6. CASE TablePacket \/ PowerFailsInPacket
  BY <1>6 DEF TablePacket, PowerFailsInPacket
<1>7. CASE SetWorkHours
  <2>1. PICK h \in Rows :
            /\ table' = [table EXCEPT ![h].hours = 1]
            /\ fedMinutes' = [fedMinutes EXCEPT ![h] =
                                 @ + (1 - table[h].hours) * MinutesPerHour]
    BY <1>7 DEF SetWorkHours
  <2>2. /\ r \notin foreign /\ time_1m' = time_1m /\ on_relay' = on_relay
        /\ u16_LampsInTable' = u16_LampsInTable
    BY <1>7 DEF SetWorkHours
  <2>3. CASE r # h
    BY <1>t, <1>i, <2>1, <2>2, <2>3 DEF Unclaimed, InTable, TypeOK
  <2>4. CASE r = h
    <3> DEFINE hours == table[r].hours
               m == table[r].minutes
    <3>1. /\ table'[r] = [table[r] EXCEPT !.hours = 1]
          /\ fedMinutes'[r] = fedMinutes[r] + (1 - hours) * MinutesPerHour
      BY <2>1, <2>4 DEF TypeOK
    <3>2. Claimed(table[r]) = hours * MinutesPerHour + m /\ hours \in Int /\ m \in Int
      BY <1>t, Constants DEF Claimed, Row
    <3>3. Claimed(table'[r]) = MinutesPerHour + m /\ table'[r].old = table[r].old
      <4>1. /\ table'[r].hours = 1 /\ table'[r].minutes = m
            /\ table'[r].old = table[r].old
        BY <1>t, <3>1 DEF Row
      <4>2. 1 * MinutesPerHour = MinutesPerHour
        BY Constants
      <4> QED BY <4>1, <4>2 DEF Claimed
    <3> HIDE DEF hours, m
    <3>4. /\ (1 - hours) * MinutesPerHour = MinutesPerHour - hours * MinutesPerHour
          /\ hours * MinutesPerHour \in Int /\ MinutesPerHour \in Int
      BY <3>2, Constants
    <3>5. Unclaimed(r)' = Unclaimed(r)
      BY <2>2, <3>3 DEF Unclaimed
    <3>6. Claimed(table'[r]) + Unclaimed(r) <= fedMinutes'[r]
      <4> DEFINE earned == hours * MinutesPerHour
      <4>1. /\ earned + m + Unclaimed(r) <= fedMinutes[r]
            /\ fedMinutes'[r] = fedMinutes[r] + (MinutesPerHour - earned)
        BY <1>i, <2>2, <3>1, <3>2, <3>4
      <4> HIDE DEF earned
      <4>2. earned \in Int
        BY <3>4 DEF earned
      <4> QED BY <1>t, <3>2, <3>3, <3>4, <4>1, <4>2
    <3> QED BY <1>i, <2>2, <3>3, <3>5, <3>6 DEF InTable
  <2> QED BY <2>3, <2>4
<1>8. CASE Second \/ ScanByHand \/ RouterAnswers \/ LoseMessage \/ ChangeNetwork
           \/ ChangeRunning \/ AccessRequest \/ UNCHANGED vars
  <2>1. /\ r \notin foreign /\ time_1m' = time_1m /\ on_relay' = on_relay /\ table' = table
        /\ u16_LampsInTable' = u16_LampsInTable /\ fedMinutes' = fedMinutes
    BY <1>8 DEF Second, ScanByHand, RouterAnswers, LoseMessage, ChangeNetwork,
                ChangeRunning, AccessRequest, vars
  <2> QED BY <1>i, <2>1 DEF Unclaimed, InTable
<1> QED BY <1>1, <1>2, <1>3, <1>4, <1>5, <1>6, <1>7, <1>8 DEF Next

\* A row is never credited more minutes than the relay fed its lamp, whatever
\* answers come late, are lost or repeated, and whenever power fails.
THEOREM HoursAreEarned == Spec => []HoursEarned
<1>1. Init => HoursInv
  BY DEF Init, HoursInv
<1>2. TypeOK /\ HoursInv => HoursEarned
  <2> SUFFICES ASSUME TypeOK, HoursInv, NEW r \in Rows \ foreign
               PROVE  Claimed(table[r]) <= fedMinutes[r]
    BY DEF HoursEarned
  <2> QED BY Numbers DEF HoursInv, Unclaimed
<1> QED BY <1>1, <1>2, InitType, StepType, StepHours, PTL DEF Spec
=============================================================================
