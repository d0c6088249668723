------------------------- MODULE GprsClientsProofs -------------------------
(***************************************************************************)
(* The table of the clients of the modem is true, and answers are whole    *)
(* and go to the asker.                                                    *)
(***************************************************************************)
EXTENDS GprsClients, SequenceTheorems, FiniteSetTheorems, TLAPS

Addr == PCs \cup {none}
Whats == {"remote", "status", "closed", "receive", "first", "rest", "prompt", "send ok",
          "close ok", "connect ok", "connect fail"}
Told == {"remote", "status", "closed"}      \* texts that tell an address

TextType ==
    {t \in [what : Whats, slot : Slots, arg : Addr \cup Kinds \cup Messages] :
        /\ t.what \in Told => t.arg \in Addr
        /\ t.what = "receive" => t.arg \in Kinds
        /\ t.what \in {"first", "rest"} => t.arg \in Messages
        /\ t.what \in {"connect ok", "close ok"} => t.slot = Server}

ModemType == [conn : [Slots -> Addr], dialing : Addr, prompt : Slots \cup {none}, junk : BOOLEAN]

-----------------------------------------------------------------------------
(* What the texts that have not been read will make of the table.          *)

Affects(t, s) ==
    \/ t.what \in Told /\ t.slot = s
    \/ t.what \in {"connect ok", "close ok"} /\ s = Server

\* The table has c for a connection p, or that of a call dialled into another.
Matches(c, p, red) == c = p \/ (red /\ c # none /\ p # none)

\* What text t says of connection s, which is now p.
Says(t, p, txt, red) ==
    /\ t.what \in Told => t.arg = p
    /\ t.what = "close ok" => p = none
    /\ t.what = "connect ok" => Matches(txt, p, red)

\* The last text about a connection says what it is; if there is none, the
\* table does.
Agrees(l, tab, conn, txt, red, s) ==
    /\ \A i \in 1 .. Len(l) :
          Affects(l[i], s) =>
              \/ \E j \in i + 1 .. Len(l) : Affects(l[j], s)
              \/ Says(l[i], conn[s], txt, red)
    /\ (\A i \in 1 .. Len(l) : ~Affects(l[i], s)) =>
          Matches(tab[s], conn[s], red /\ s = Server)

\* A call that was answered has a name.
Named(t, txt) == t.what = "connect ok" => txt # none

\* A call that has no answer yet is that of text_to_CIPSTART, unless it was
\* dialled anew.
Calls(l, dial, txt, red) ==
    /\ dial # none => txt # none /\ (dial = txt \/ red)
    /\ \A i \in 1 .. Len(l) : Named(l[i], txt)

True(l, tab, conn, dial, txt, red) ==
    Calls(l, dial, txt, red) /\ \A s \in Slots : Agrees(l, tab, conn, txt, red, s)

\* The table there would be, had no line been spoilt.
Stands(tab) ==
    /\ \A s \in Slots \ lost : tab[s] = Clients_sIP4addres[s]
    /\ True(line, tab, modem.conn, modem.dialing, text_to_CIPSTART, redialled)

TableInv == cut \/ \E tab \in [Slots -> Addr] : Stands(tab)
-----------------------------------------------------------------------------
(* Texts come at the end, and are read at the front.                       *)

\* A text that comes tells what becomes of the connections it is about.
LEMMA TextComes ==
    ASSUME NEW l \in Seq(TextType), NEW t \in TextType, NEW tab, NEW conn, NEW after,
           NEW dial, NEW txt, NEW red,
           True(l, tab, conn, dial, txt, red),
           \A s \in Slots : /\ Affects(t, s) => Says(t, after[s], txt, red)
                            /\ ~Affects(t, s) => after[s] = conn[s],
           Named(t, txt)
    PROVE  Append(l, t) \in Seq(TextType) /\ True(Append(l, t), tab, after, dial, txt, red)
<1> DEFINE m == Append(l, t)
<1>1. /\ m \in Seq(TextType) /\ Len(l) \in Nat /\ Len(m) = Len(l) + 1
      /\ m[Len(l) + 1] = t /\ \A i \in 1 .. Len(l) : m[i] = l[i]
  OBVIOUS
<1> HIDE DEF m
<1>2. Calls(m, dial, txt, red)
  <2>1. ASSUME NEW i \in 1 .. Len(m)
        PROVE  Named(m[i], txt)
    <3>1. i = Len(l) + 1 \/ i \in 1 .. Len(l)
      BY <1>1
    <3> QED BY <1>1, <3>1 DEF True, Calls
  <2> QED BY <2>1 DEF True, Calls
<1>3. ASSUME NEW s \in Slots
      PROVE  Agrees(m, tab, after, txt, red, s)
  <2>1. CASE Affects(t, s)
    <3>1. Len(m) \in 1 .. Len(m) /\ Affects(m[Len(m)], s) /\ Says(m[Len(m)], after[s], txt, red)
      BY <1>1, <2>1
    <3>2. \A i \in 1 .. Len(m) : i = Len(m) \/ Len(m) \in i + 1 .. Len(m)
      BY <1>1
    <3> QED BY <3>1, <3>2 DEF Agrees
  <2>2. CASE ~Affects(t, s)
    <3>1. Agrees(l, tab, conn, txt, red, s) /\ after[s] = conn[s]
      BY <2>2 DEF True
    <3>2. ASSUME NEW i \in 1 .. Len(m), Affects(m[i], s)
          PROVE  \/ \E j \in i + 1 .. Len(m) : Affects(m[j], s)
                 \/ Says(m[i], after[s], txt, red)
      <4>1. i \in 1 .. Len(l) /\ m[i] = l[i]
        BY <1>1, <2>2, <3>2
      <4>2. CASE Says(l[i], conn[s], txt, red)
        BY <3>1, <4>1, <4>2
      <4>3. ASSUME NEW j \in i + 1 .. Len(l), Affects(l[j], s)
            PROVE  \E k \in i + 1 .. Len(m) : Affects(m[k], s)
        <5>1. j \in i + 1 .. Len(m) /\ m[j] = l[j]
          BY <1>1, <4>1
        <5> QED BY <4>3, <5>1
      <4> QED BY <3>1, <3>2, <4>1, <4>2, <4>3 DEF Agrees
    <3>3. ASSUME \A i \in 1 .. Len(m) : ~Affects(m[i], s)
          PROVE  Matches(tab[s], after[s], red /\ s = Server)
      <4>1. \A i \in 1 .. Len(l) : i \in 1 .. Len(m) /\ m[i] = l[i]
        BY <1>1
      <4> QED BY <3>1, <3>3, <4>1 DEF Agrees
    <3> QED BY <3>2, <3>3 DEF Agrees
  <2> QED BY <2>1, <2>2
<1> QED BY <1>1, <1>2, <1>3 DEF True, m

\* What the host makes of a text it reads.
Read(t, tab, txt) ==
    CASE t.what \in Told -> [tab EXCEPT ![t.slot] = t.arg]
      [] t.what = "connect ok" -> [tab EXCEPT ![Server] = txt]
      [] t.what = "close ok" -> [tab EXCEPT ![Server] = none]
      [] OTHER -> tab

\* It is the same for two tables, wherever they were the same or the text tells.
LEMMA ReadSame ==
    ASSUME NEW t \in TextType, NEW a \in [Slots -> Addr], NEW b \in [Slots -> Addr], NEW txt,
           NEW s \in Slots, Affects(t, s) \/ a[s] = b[s]
    PROVE  Read(t, a, txt)[s] = Read(t, b, txt)[s]
<1>1. t.slot \in Slots /\ Server \in Slots
  BY DEF TextType, Slots
<1>2. CASE t.what \in Told
  BY <1>1, <1>2 DEF Read, Affects, Told
<1>3. CASE t.what = "connect ok"
  BY <1>1, <1>3 DEF Read, Affects, Told
<1>4. CASE t.what = "close ok"
  BY <1>1, <1>4 DEF Read, Affects, Told
<1>5. CASE t.what \notin Told \cup {"connect ok", "close ok"}
  BY <1>5 DEF Read, Affects, Told
<1> QED BY <1>2, <1>3, <1>4, <1>5

LEMMA ReadTyped ==
    ASSUME NEW t \in TextType, NEW a \in [Slots -> Addr], NEW txt \in Addr
    PROVE  Read(t, a, txt) \in [Slots -> Addr]
<1>1. t.slot \in Slots /\ Server \in Slots /\ none \in Addr /\ (t.what \in Told => t.arg \in Addr)
  BY DEF TextType, Slots, Addr
<1> QED BY <1>1 DEF Read, Told

LEMMA TextRead ==
    ASSUME NEW l \in Seq(TextType), l # <<>>, NEW tab \in [Slots -> Addr], NEW conn, NEW dial,
           NEW txt \in Addr, NEW red, True(l, tab, conn, dial, txt, red)
    PROVE  True(Tail(l), Read(Head(l), tab, txt), conn, dial, txt, red)
<1> DEFINE m == Tail(l)
           t == Head(l)
           new == Read(t, tab, txt)
<1>1. /\ m \in Seq(TextType) /\ Len(l) \in Nat /\ Len(l) > 0 /\ Len(m) = Len(l) - 1
      /\ t = l[1] /\ t \in TextType /\ \A i \in 1 .. Len(m) : m[i] = l[i + 1]
  OBVIOUS
<1> HIDE DEF m, t
<1>2. Calls(m, dial, txt, red)
  <2>1. ASSUME NEW i \in 1 .. Len(m)
        PROVE  Named(m[i], txt)
    <3>1. i + 1 \in 1 .. Len(l) /\ m[i] = l[i + 1]
      BY <1>1
    <3> QED BY <3>1 DEF True, Calls
  <2> QED BY <2>1 DEF True, Calls
<1>3. ASSUME NEW s \in Slots
      PROVE  Agrees(m, new, conn, txt, red, s)
  <2>1. Agrees(l, tab, conn, txt, red, s)
    BY DEF True
  <2>2. ASSUME NEW i \in 1 .. Len(m), Affects(m[i], s)
        PROVE  \/ \E j \in i + 1 .. Len(m) : Affects(m[j], s)
               \/ Says(m[i], conn[s], txt, red)
    <3>1. i + 1 \in 1 .. Len(l) /\ m[i] = l[i + 1]
      BY <1>1
    <3>2. ASSUME NEW j \in (i + 1) + 1 .. Len(l), Affects(l[j], s)
          PROVE  \E k \in i + 1 .. Len(m) : Affects(m[k], s)
      <4>1. j - 1 \in i + 1 .. Len(m) /\ j - 1 \in 1 .. Len(m) /\ (j - 1) + 1 = j
        BY <1>1
      <4>2. m[j - 1] = l[j]
        BY <1>1, <4>1
      <4> QED BY <3>2, <4>1, <4>2
    <3> QED BY <2>1, <2>2, <3>1, <3>2 DEF Agrees
  <2>3. ASSUME \A i \in 1 .. Len(m) : ~Affects(m[i], s)
        PROVE  Matches(new[s], conn[s], red /\ s = Server)
    <3>1. \A i \in 2 .. Len(l) : ~Affects(l[i], s)
      <4>1. \A i \in 2 .. Len(l) : i - 1 \in 1 .. Len(m) /\ m[i - 1] = l[i]
        BY <1>1
      <4> QED BY <2>3, <4>1
    <3>2. CASE Affects(t, s)
      <4>1. Says(t, conn[s], txt, red)
        BY <1>1, <2>1, <3>1, <3>2 DEF Agrees
      <4>2. CASE t.what \in Told
        <5>1. new[s] = t.arg
          BY <1>1, <3>2, <4>2 DEF Read, Affects, Told
        <5> QED BY <4>1, <4>2, <5>1 DEF Says, Matches
      <4>3. CASE t.what = "connect ok"
        <5>1. new[s] = txt /\ s = Server
          BY <1>1, <3>2, <4>3 DEF Read, Affects, Told
        <5> QED BY <4>1, <4>3, <5>1 DEF Says, Matches
      <4>4. CASE t.what = "close ok"
        <5>1. new[s] = none
          BY <1>1, <3>2, <4>4 DEF Read, Affects, Told
        <5> QED BY <4>1, <4>4, <5>1 DEF Says, Matches
      <4> QED BY <3>2, <4>2, <4>3, <4>4 DEF Affects
    <3>3. CASE ~Affects(t, s)
      <4>1. \A i \in 1 .. Len(l) : ~Affects(l[i], s)
        <5>1. \A i \in 1 .. Len(l) : i = 1 \/ i \in 2 .. Len(l)
          BY <1>1
        <5> QED BY <1>1, <3>1, <3>3, <5>1
      <4>2. new[s] = tab[s]
        BY <1>1, <3>3 DEF Read, Affects, Told, Slots
      <4> QED BY <2>1, <4>1, <4>2 DEF Agrees
    <3> QED BY <3>2, <3>3
  <2> QED BY <2>2, <2>3 DEF Agrees
<1> QED BY <1>2, <1>3 DEF True, m, t

\* Number 7 is dialled anew: what is under way may get the wrong name.
LEMMA DialledAnew ==
    ASSUME NEW l \in Seq(TextType), NEW tab, NEW conn, NEW dial, NEW txt, NEW red,
           True(l, tab, conn, dial, txt, red), tab[Server] \in {none, conn[Server]},
           NEW new, new # none,
           NEW pending,
           pending <=> (dial # none \/ \E i \in 1 .. Len(l) : l[i].what = "connect ok")
    PROVE  True(l, tab, conn, dial, new, pending)
<1>1. Calls(l, dial, new, pending)
  BY DEF Calls, Named
<1>2. ASSUME NEW s \in Slots
      PROVE  Agrees(l, tab, conn, new, pending, s)
  <2>1. Agrees(l, tab, conn, txt, red, s)
    BY DEF True
  <2>2. ASSUME NEW i \in 1 .. Len(l), Says(l[i], conn[s], txt, red)
        PROVE  Says(l[i], conn[s], new, pending)
    BY <2>2 DEF Says, Matches, True, Calls, Named
  <2>3. ASSUME Matches(tab[s], conn[s], red /\ s = Server)
        PROVE  Matches(tab[s], conn[s], pending /\ s = Server)
    BY <2>3 DEF Matches
  <2> QED BY <2>1, <2>2, <2>3 DEF Agrees
<1> QED BY <1>1, <1>2 DEF True
-----------------------------------------------------------------------------
(* Commands to the modem.                                                  *)

\* From one state of modem and line to another the table stays as true as it
\* was, and no text is lost.
Follows(l, mo, m, after, tab, txt, red) ==
    /\ m \in Seq(TextType) /\ after \in ModemType /\ (m = <<>> => l = <<>>)
    /\ True(l, tab, mo.conn, mo.dialing, txt, red) =>
          True(m, tab, after.conn, after.dialing, txt, red)

\* The commands the host writes while text_to_CIPSTART is txt.
Commands(txt) ==
    {Text("CIPSEND", s, none) : s \in Slots} \cup {Text("CIPCLOSE", Server, none)}
        \cup (IF txt = none THEN {} ELSE {Text("CIPSTART", Server, txt)})

LEMMA EmptyEnd ==
    ASSUME NEW l \in Seq(TextType)
    PROVE  l \o <<>> = l
  OBVIOUS

LEMMA OneMore ==
    ASSUME NEW l \in Seq(TextType), NEW t \in TextType
    PROVE  l \o <<t>> = Append(l, t) /\ l \o <<t>> \in Seq(TextType) /\ Append(l, t) # <<>>
  OBVIOUS

LEMMA Pair ==
    ASSUME NEW c, NEW d
    PROVE  <<c>> \o <<d>> = <<c, d>>
<1> DEFINE l == <<c>> \o <<d>>
           m == <<c, d>>
           S == {c, d}
<1>1. l \in Seq(S) /\ Len(l) = 2 /\ l[1] = c /\ l[2] = d
  OBVIOUS
<1>2. m \in Seq(S) /\ Len(m) = 2 /\ m[1] = c /\ m[2] = d
  OBVIOUS
<1> HIDE DEF l, m, S
<1>3. \A i \in 1 .. Len(l) : l[i] = m[i]
  <2>1. \A i \in 1 .. 2 : i = 1 \/ i = 2
    OBVIOUS
  <2> QED BY <1>1, <1>2, <2>1
<1>4. l = m
  BY <1>1, <1>2, <1>3, SeqEqual
<1> QED BY <1>4 DEF l, m

LEMMA Names ==
    /\ none \in Addr /\ none \notin Slots /\ none \notin Kinds /\ none \notin Messages
    /\ none \notin PCs /\ Server \in Slots
  BY GprsClientsAssumption DEF Addr, Slots

LEMMA TextIs ==
    ASSUME NEW what, NEW s, NEW x
    PROVE  Text(what, s, x).what = what /\ Text(what, s, x).slot = s /\ Text(what, s, x).arg = x
  BY DEF Text

\* The texts of the modem.
LEMMA TextTyped ==
    ASSUME NEW s \in Slots
    PROVE  /\ \A what \in {"prompt", "send ok", "connect fail", "closed"} :
                 Text(what, s, none) \in TextType
           /\ \A what \in {"close ok", "connect ok"} : Text(what, Server, none) \in TextType
           /\ \A what \in Told, x \in Addr : Text(what, s, x) \in TextType
           /\ \A x \in Kinds : Text("receive", s, x) \in TextType
           /\ \A what \in {"first", "rest"}, x \in Messages : Text(what, s, x) \in TextType
  BY Names DEF Text, TextType, Whats, Told

LEMMA Obeyed ==
    ASSUME NEW l \in Seq(TextType), NEW mo \in ModemType, NEW txt \in Addr, NEW tab, NEW red,
           NEW c \in Commands(txt)
    PROVE  Follows(l, mo, l \o Writes(mo, c), Takes(mo, c), tab, txt, red)
<1> DEFINE m == l \o Writes(mo, c)
           after == Takes(mo, c)
<1>1. /\ mo.conn \in [Slots -> Addr] /\ mo.dialing \in Addr
      /\ mo.prompt \in Slots \cup {none} /\ mo.junk \in BOOLEAN
  BY DEF ModemType
<1>2. CASE mo.prompt # none
  <2>1. after = [mo EXCEPT !.junk = TRUE] /\ Writes(mo, c) = <<>>
    BY <1>2 DEF Takes, Writes
  <2>2. after \in ModemType /\ after.conn = mo.conn /\ after.dialing = mo.dialing
    BY <2>1 DEF ModemType
  <2>3. m = l
    BY <2>1, EmptyEnd
  <2> QED BY <2>2, <2>3 DEF Follows
<1>3. ASSUME after = mo, Writes(mo, c) = <<>>
      PROVE  Follows(l, mo, m, after, tab, txt, red)
  BY <1>3, EmptyEnd, Zenon DEF Follows
<1>4. ASSUME mo.prompt = none, NEW s \in Slots, c = Text("CIPSEND", s, none)
      PROVE  Follows(l, mo, m, after, tab, txt, red)
  <2>1. c.what = "CIPSEND" /\ c.slot = s
    BY <1>4, TextIs
  <2>2. CASE mo.conn[s] = none
    BY <1>3, <1>4, <2>1, <2>2 DEF Takes, Writes
  <2>3. CASE mo.conn[s] # none
    <3>1. after = [mo EXCEPT !.prompt = s] /\ Writes(mo, c) = <<Text("prompt", s, none)>>
      BY <1>4, <2>1, <2>3 DEF Takes, Writes
    <3>2. after \in ModemType /\ after.conn = mo.conn /\ after.dialing = mo.dialing
      BY <3>1 DEF ModemType
    <3>3. Text("prompt", s, none) \in TextType
      BY TextTyped
    <3>4. m = Append(l, Text("prompt", s, none))
      BY <3>1, <3>3, OneMore
    <3>5. /\ \A x \in Slots : ~Affects(Text("prompt", s, none), x)
          /\ Named(Text("prompt", s, none), txt)
      BY DEF Text, Affects, Told, Named
    <3> QED BY <3>2, <3>3, <3>4, <3>5, TextComes, OneMore DEF Follows
  <2> QED BY <2>2, <2>3
<1>5. ASSUME mo.prompt = none, c = Text("CIPCLOSE", Server, none)
      PROVE  Follows(l, mo, m, after, tab, txt, red)
  <2>1. c.what = "CIPCLOSE"
    BY <1>5, TextIs
  <2>2. after = [mo EXCEPT !.conn[Server] = none]
    BY <1>5, <2>1 DEF Takes
  <2>3. /\ after \in ModemType /\ after.dialing = mo.dialing
        /\ after.conn = [mo.conn EXCEPT ![Server] = none]
    BY <1>1, <2>2, Names DEF ModemType
  <2>4. CASE mo.conn[Server] = none
    <3>1. Writes(mo, c) = <<>>
      BY <1>5, <2>1, <2>4 DEF Writes
    <3>2. after.conn = mo.conn
      BY <1>1, <2>3, <2>4
    <3> QED BY <2>3, <3>1, <3>2, EmptyEnd DEF Follows
  <2>5. CASE mo.conn[Server] # none
    <3> DEFINE t == Text("close ok", Server, none)
    <3>1. Writes(mo, c) = <<t>>
      BY <1>5, <2>1, <2>5 DEF Writes
    <3>2. t \in TextType
      BY TextTyped, Names
    <3>3. m = Append(l, t)
      BY <3>1, <3>2, OneMore
    <3>4. Named(t, txt)
      BY DEF Text, Named
    <3>5. ASSUME NEW s \in Slots
          PROVE  /\ Affects(t, s) => Says(t, after.conn[s], txt, red)
                 /\ ~Affects(t, s) => after.conn[s] = mo.conn[s]
      <4>1. (s = Server => after.conn[s] = none) /\ (s # Server => after.conn[s] = mo.conn[s])
        BY <1>1, <2>3, Names
      <4>2. t.what = "close ok"
        BY DEF Text
      <4> HIDE DEF t
      <4> QED BY <4>1, <4>2 DEF Affects, Says, Told
    <3> HIDE DEF t
    <3>6. ASSUME True(l, tab, mo.conn, mo.dialing, txt, red)
          PROVE  m \in Seq(TextType) /\ True(m, tab, after.conn, mo.dialing, txt, red)
      <4> HIDE DEF m, after
      <4> QED BY <3>2, <3>3, <3>4, <3>5, <3>6, TextComes
    <3>7. m \in Seq(TextType) /\ m # <<>>
      BY <3>2, <3>3, OneMore
    <3> QED BY <2>3, <3>6, <3>7 DEF Follows
  <2> QED BY <2>4, <2>5
<1>6. ASSUME mo.prompt = none, txt # none, c = Text("CIPSTART", Server, txt)
      PROVE  Follows(l, mo, m, after, tab, txt, red)
  <2>1. c.what = "CIPSTART" /\ c.arg = txt
    BY <1>6, TextIs
  <2>2. Writes(mo, c) = <<>>
    BY <1>6, <2>1 DEF Writes
  <2>3. CASE mo.conn[Server] = none /\ mo.dialing = none
    <3>1. after = [mo EXCEPT !.dialing = txt]
      BY <1>6, <2>1, <2>3 DEF Takes
    <3>2. after \in ModemType /\ after.conn = mo.conn /\ after.dialing = txt
      BY <3>1 DEF ModemType
    <3> QED BY <1>6, <2>2, <3>2, EmptyEnd DEF Follows, True, Calls
  <2>4. CASE mo.conn[Server] # none \/ mo.dialing # none
    <3>1. after = mo
      BY <1>6, <2>1, <2>4 DEF Takes
    <3> QED BY <1>3, <2>2, <3>1
  <2> QED BY <2>3, <2>4
<1>7. \/ \E s \in Slots : c = Text("CIPSEND", s, none)
      \/ c = Text("CIPCLOSE", Server, none)
      \/ txt # none /\ c = Text("CIPSTART", Server, txt)
  BY DEF Commands
<1> QED BY <1>2, <1>4, <1>5, <1>6, <1>7

\* What SimWrite does with no command, one, and two.
LEMMA WriteNone ==
    ASSUME SimWrite(<<>>)
    PROVE  modem' = modem /\ line' = line
  BY DEF SimWrite

LEMMA WriteOne ==
    ASSUME NEW c, SimWrite(<<c>>)
    PROVE  modem' = Takes(modem, c) /\ line' = line \o Writes(modem, c)
<1>1. <<c>> # <<>> /\ Len(<<c>>) = 1 /\ <<c>>[1] = c
  OBVIOUS
<1> QED BY <1>1 DEF SimWrite

LEMMA WriteTwo ==
    ASSUME NEW c, NEW d, SimWrite(<<c, d>>)
    PROVE  /\ modem' = Takes(Takes(modem, c), d)
           /\ line' = line \o Writes(modem, c) \o Writes(Takes(modem, c), d)
<1>1. /\ <<c, d>> # <<>> /\ Len(<<c, d>>) = 2 /\ Len(<<c, d>>) # 1
      /\ <<c, d>>[1] = c /\ <<c, d>>[2] = d
  OBVIOUS
<1> QED BY <1>1 DEF SimWrite

Wire == line \in Seq(TextType) /\ modem \in ModemType

LEMMA Commanded ==
    ASSUME Wire, NEW txt \in Addr, NEW red, NEW tab, NEW a, NEW b,
           a = <<>> \/ (\E e \in Commands(txt) : a = <<e>>),
           b = <<>> \/ (\E e \in Commands(txt) : b = <<e>>),
           SimWrite(a \o b)
    PROVE  Follows(line, modem, line', modem', tab, txt, red)
<1>1. line \in Seq(TextType) /\ modem \in ModemType
  BY DEF Wire
<1>2. ASSUME modem' = modem, line' = line
      PROVE  Follows(line, modem, line', modem', tab, txt, red)
  BY <1>1, <1>2, Zenon DEF Follows
<1>3. ASSUME NEW c \in Commands(txt), SimWrite(<<c>>)
      PROVE  Follows(line, modem, line', modem', tab, txt, red)
  BY <1>1, <1>3, WriteOne, Obeyed, Zenon
<1>4. ASSUME NEW c \in Commands(txt), NEW d \in Commands(txt), SimWrite(<<c, d>>)
      PROVE  Follows(line, modem, line', modem', tab, txt, red)
  <2> DEFINE m == line \o Writes(modem, c)
             mid == Takes(modem, c)
  <2>1. modem' = Takes(mid, d) /\ line' = m \o Writes(mid, d)
    BY <1>4, WriteTwo, Zenon
  <2>2. Follows(line, modem, m, mid, tab, txt, red)
    BY <1>1, Obeyed, Zenon
  <2> HIDE DEF m, mid
  <2>3. Follows(m, mid, line', modem', tab, txt, red)
    BY <2>1, <2>2, Obeyed, Zenon DEF Follows
  <2> QED BY <2>2, <2>3, Zenon DEF Follows
<1>5. CASE a = <<>> /\ b = <<>>
  <2>1. a \o b = <<>>
    BY <1>5
  <2> QED BY <1>2, <2>1, WriteNone, Zenon
<1>6. ASSUME NEW c \in Commands(txt), a = <<c>>, b = <<>>
      PROVE  Follows(line, modem, line', modem', tab, txt, red)
  <2>1. <<c>> \o <<>> = <<c>>
    OBVIOUS
  <2> QED BY <1>3, <1>6, <2>1, Zenon
<1>7. ASSUME NEW c \in Commands(txt), a = <<>>, b = <<c>>
      PROVE  Follows(line, modem, line', modem', tab, txt, red)
  <2>1. <<>> \o <<c>> = <<c>>
    OBVIOUS
  <2> QED BY <1>3, <1>7, <2>1, Zenon
<1>8. ASSUME NEW c \in Commands(txt), NEW d \in Commands(txt), a = <<c>>, b = <<d>>
      PROVE  Follows(line, modem, line', modem', tab, txt, red)
  <2>1. <<c>> \o <<d>> = <<c, d>>
    BY Pair
  <2> QED BY <1>4, <1>8, <2>1, Zenon
<1>9. CASE a = <<>>
  BY <1>5, <1>7, <1>9, Zenon
<1>10. ASSUME NEW c \in Commands(txt), a = <<c>>
       PROVE  Follows(line, modem, line', modem', tab, txt, red)
  BY <1>6, <1>8, <1>10, Zenon
<1> QED BY <1>9, <1>10, Zenon

LEMMA CommandedOnce ==
    ASSUME Wire, NEW txt \in Addr, NEW red, NEW tab, NEW c \in Commands(txt), SimWrite(<<c>>)
    PROVE  Follows(line, modem, line', modem', tab, txt, red)
  BY WriteOne, Obeyed, Zenon DEF Wire

-----------------------------------------------------------------------------
(* Every step keeps the table true.                                        *)

TableType == Wire /\ Clients_sIP4addres \in [Slots -> Addr] /\ text_to_CIPSTART \in Addr

\* Whatever the table would be, it stays as true as it was.
Obeys(txt, red) == \A tab : Follows(line, modem, line', modem', tab, txt, red)

LEMMA Kept ==
    ASSUME TableType, TableInv, UNCHANGED <<Clients_sIP4addres, call, cut, lost>>,
           Obeys(text_to_CIPSTART, redialled)
    PROVE  TableType' /\ TableInv'
<1>1. TableType'
  BY DEF TableType, Wire, Obeys, Follows, call
<1>2. ASSUME NEW tab \in [Slots -> Addr], Stands(tab)
      PROVE  Stands(tab)'
  BY <1>2 DEF Stands, Obeys, Follows, call
<1> QED BY <1>1, <1>2 DEF TableInv

LEMMA Unmoved ==
    ASSUME TableType, TableInv, UNCHANGED <<Clients_sIP4addres, call, cut, lost, modem, line>>
    PROVE  TableType' /\ TableInv'
<1>1. \A tab : Stands(tab)' = Stands(tab)
  BY DEF Stands, call
<1> QED BY <1>1 DEF TableType, TableInv, Wire, call

LEMMA StepServer ==
    ASSUME TableType, TableInv, psServerIP \in Addr, ServerStep
    PROVE  TableType' /\ TableInv'
<1>1. /\ UNCHANGED <<Clients_sIP4addres, cut, lost>> /\ Wire
      /\ Clients_sIP4addres \in [Slots -> Addr] /\ text_to_CIPSTART \in Addr
  BY DEF ServerStep, ghosts, TableType
<1> DEFINE close == Text("CIPCLOSE", Server, none)
<1>2. \A txt : close \in Commands(txt)
  BY DEF Commands
<1>3. CloseCommands = <<>> \/ CloseCommands = <<close>>
  BY DEF CloseCommands
<1> HIDE DEF close
<1>4. CASE UNCHANGED <<modem, line, call>>
  BY <1>1, <1>4, Unmoved
<1>5. CASE UNCHANGED call /\ SimWrite(CloseCommands)
  <2>1. CASE CloseCommands = <<>>
    <3>1. SimWrite(<<>>)
      BY <1>5, <2>1, Zenon
    <3> QED BY <1>1, <1>5, <3>1, WriteNone, Unmoved
  <2>2. CASE CloseCommands = <<close>>
    <3>1. SimWrite(<<close>>)
      BY <1>5, <2>2, Zenon
    <3>2. Obeys(text_to_CIPSTART, redialled)
      BY <1>1, <1>2, <3>1, CommandedOnce, Zenon DEF Obeys
    <3> QED BY <1>1, <1>5, <3>2, Kept
  <2> QED BY <1>3, <2>1, <2>2
<1>6. CASE Connect /\ SimWrite(ConnectCommands \o CloseCommands) /\ psServerIP # none
  <2>1. CASE Clients_sIP4addres[Server] # none \/ to_open
    <3>1. UNCHANGED call
      BY <1>6, <2>1 DEF Connect
    <3>2. ConnectCommands = <<>> \/ ConnectCommands = <<close>>
      BY <2>1 DEF ConnectCommands, close
    <3>3. Obeys(text_to_CIPSTART, redialled)
      BY <1>1, <1>2, <1>3, <1>6, <3>2, Commanded DEF Obeys
    <3> QED BY <1>1, <3>1, <3>3, Kept
  <2>2. CASE Clients_sIP4addres[Server] = none /\ ~to_open
    <3>1. text_to_CIPSTART' = psServerIP /\ redialled' = CallPending
      BY <1>6, <2>2 DEF Connect
    <3>2. ConnectCommands = <<Text("CIPSTART", Server, psServerIP)>>
      BY <2>2 DEF ConnectCommands
    <3>3. Text("CIPSTART", Server, psServerIP) \in Commands(psServerIP)
      BY <1>6 DEF Commands
    <3>4. Obeys(psServerIP, CallPending)
      BY <1>1, <1>2, <1>3, <1>6, <3>2, <3>3, Commanded DEF Obeys
    <3>5. TableType'
      BY <1>1, <3>1, <3>4 DEF TableType, Wire, Obeys, Follows
    \* Of number 7 the table need not be right, if the last line about it was spoilt.
    <3>6. ASSUME NEW tab \in [Slots -> Addr], Stands(tab)
          PROVE  \E other \in [Slots -> Addr] : Stands(other)'
      <4>1. PICK other \in [Slots -> Addr] :
                /\ other[Server] \in {none, modem.conn[Server]}
                /\ \A s \in Slots \ lost : other[s] = Clients_sIP4addres[s]
                /\ \A s \in Slots : other[s] \in {tab[s], modem.conn[s]}
        <5> DEFINE new == IF Server \in lost THEN [tab EXCEPT ![Server] = modem.conn[Server]]
                          ELSE tab
        <5>1. modem.conn[Server] \in Addr
          BY <1>1, Names DEF Wire, ModemType
        <5>2. /\ new \in [Slots -> Addr] /\ new[Server] \in {none, modem.conn[Server]}
              /\ \A s \in Slots \ lost : new[s] = Clients_sIP4addres[s]
              /\ \A s \in Slots : new[s] \in {tab[s], modem.conn[s]}
          BY <2>2, <3>6, <5>1, Names DEF Stands
        <5> QED BY <5>2
      <4>2. True(line, other, modem.conn, modem.dialing, text_to_CIPSTART, redialled)
        BY <3>6, <4>1 DEF Stands, True, Agrees, Matches
      <4>3. True(line, other, modem.conn, modem.dialing, psServerIP, CallPending)
        BY <1>1, <1>6, <4>1, <4>2, DialledAnew DEF CallPending, Wire
      <4>4. True(line', other, modem'.conn, modem'.dialing, psServerIP, CallPending)
        BY <3>4, <4>3 DEF Obeys, Follows
      <4>5. Stands(other)'
        BY <1>1, <3>1, <4>1, <4>4 DEF Stands
      <4> QED BY <4>1, <4>5
    <3> QED BY <1>1, <3>5, <3>6 DEF TableInv
  <2> QED BY <2>1, <2>2
<1>7. CASE UNCHANGED call
           /\ SimWrite(<<Text("CIPSEND", Server, none)>> \o CloseCommands)
  <2>1. Text("CIPSEND", Server, none) \in Commands(text_to_CIPSTART)
    BY Names DEF Commands
  <2>2. Obeys(text_to_CIPSTART, redialled)
    BY <1>1, <1>2, <1>3, <1>7, <2>1, Commanded DEF Obeys
  <2> QED BY <1>1, <1>7, <2>2, Kept
<1> QED BY <1>4, <1>5, <1>6, <1>7 DEF ServerStep, ServerFree, server

LEMMA StepSend ==
    ASSUME TableType, TableInv, NEW m, NEW s \in Slots, SendPacage(m, s),
           UNCHANGED <<Clients_sIP4addres, call, cut, lost>>
    PROVE  TableType' /\ TableInv'
<1>1. Text("CIPSEND", s, none) \in Commands(text_to_CIPSTART)
  BY DEF Commands
<1>2. SimWrite(<<Text("CIPSEND", s, none)>>) /\ Wire /\ text_to_CIPSTART \in Addr
  BY DEF SendPacage, TableType
<1>3. Obeys(text_to_CIPSTART, redialled)
  BY <1>1, <1>2, CommandedOnce, Zenon DEF Obeys
<1> QED BY <1>3, Kept

LEMMA StepPrograms ==
    ASSUME TableType, TableInv, client_number \in Slots,
           ReadEnough \/ JennicPacket \/ eTunDeviceReadPacket
    PROVE  TableType' /\ TableInv'
<1>1. CASE ReadEnough
  BY <1>1, Unmoved DEF ReadEnough, server, ghosts
<1>2. CASE JennicPacket
  BY <1>2, StepSend, Unmoved DEF JennicPacket, server, ghosts
<1>3. CASE eTunDeviceReadPacket
  BY <1>3, StepSend, Unmoved DEF eTunDeviceReadPacket, ghosts
<1> QED BY <1>1, <1>2, <1>3

\* A text is read into a table that is right wherever no line was lost.
LEMMA ReadStands ==
    ASSUME NEW tab \in [Slots -> Addr], Clients_sIP4addres \in [Slots -> Addr],
           NEW t \in TextType,
           \A s \in Slots \ lost : tab[s] = Clients_sIP4addres[s],
           \/ UNCHANGED <<Clients_sIP4addres, lost>> /\ t.what \in {"first", "rest", "prompt"}
           \/ Line(t) \/ SpoiltLine(t)
    PROVE  \A s \in Slots \ lost' : Read(t, tab, text_to_CIPSTART)[s] = Clients_sIP4addres'[s]
<1> DEFINE new == Read(t, tab, text_to_CIPSTART)
<1>1. \A s \in Slots : Affects(t, s) <=> t.what \in Telling /\ s = t.slot
  BY DEF TextType, Affects, Telling, Told
<1>2. \A s \in Slots : ~Affects(t, s) => new[s] = tab[s]
  BY DEF Affects, Read, Told, TextType, Slots
<1>3. CASE UNCHANGED <<Clients_sIP4addres, lost>> /\ t.what \in {"first", "rest", "prompt"}
  <2>1. \A s \in Slots : ~Affects(t, s)
    BY <1>3 DEF Affects, Told
  <2> QED BY <1>2, <1>3, <2>1
<1>4. CASE Line(t)
  <2>1. /\ Clients_sIP4addres' = Read(t, Clients_sIP4addres, text_to_CIPSTART)
        /\ lost' = IF t.what \in Telling THEN lost \ {t.slot} ELSE lost
    BY <1>4 DEF Line, TableAfter, Read, Told
  <2>2. ASSUME NEW s \in Slots \ lost'
        PROVE  Affects(t, s) \/ tab[s] = Clients_sIP4addres[s]
    BY <1>1, <2>1, <2>2
  <2> QED BY <2>1, <2>2, ReadSame
<1>5. CASE SpoiltLine(t)
  <2>1. /\ \A s \in Slots \ lost' : Clients_sIP4addres'[s] = Clients_sIP4addres[s]
        /\ lost \subseteq lost' /\ (t.what \in Telling => t.slot \in lost')
    BY <1>5 DEF SpoiltLine
  <2> QED BY <1>1, <1>2, <2>1
<1> HIDE DEF new
<1> QED BY <1>3, <1>4, <1>5 DEF new

LEMMA StepReadText ==
    ASSUME TableType, TableInv, ReadText
    PROVE  TableType' /\ TableInv'
<1> DEFINE t == Head(line)
           rest == Tail(line)
<1>1. /\ line \in Seq(TextType) /\ line # <<>> /\ modem \in ModemType
      /\ Clients_sIP4addres \in [Slots -> Addr] /\ text_to_CIPSTART \in Addr
      /\ t \in TextType /\ rest \in Seq(TextType)
  BY DEF TableType, Wire, ReadText
<1>2. /\ PacketPart(t) \/ TextSwallowed(t) \/ Prompt(t) \/ Line(t) \/ SpoiltLine(t)
      /\ line' = rest \o Replies(t) /\ UNCHANGED call
  BY DEF ReadText
<1>3. \A tab \in [Slots -> Addr] :
          True(line, tab, modem.conn, modem.dialing, text_to_CIPSTART, redialled)
            => True(rest, Read(t, tab, text_to_CIPSTART), modem.conn, modem.dialing,
                    text_to_CIPSTART, redialled)
  BY <1>1, TextRead
<1> HIDE DEF t, rest
\* What the modem writes meanwhile tells nothing.
<1>4. \/ Replies(t) = <<>>
      \/ t.what = "prompt" /\ \E s \in Slots : Replies(t) = <<Text("send ok", s, none)>>
  BY <1>1 DEF Replies, ModemType
<1>5. /\ line' \in Seq(TextType)
      /\ \A tab : True(rest, tab, modem.conn, modem.dialing, text_to_CIPSTART, redialled)
            => True(line', tab, modem.conn, modem.dialing, text_to_CIPSTART, redialled)
  <2>1. CASE Replies(t) = <<>>
    BY <1>1, <1>2, <2>1, EmptyEnd
  <2>2. ASSUME NEW s \in Slots, Replies(t) = <<Text("send ok", s, none)>>
        PROVE  /\ line' \in Seq(TextType)
               /\ \A tab : True(rest, tab, modem.conn, modem.dialing, text_to_CIPSTART, redialled)
                     => True(line', tab, modem.conn, modem.dialing, text_to_CIPSTART, redialled)
    <3>1. Text("send ok", s, none) \in TextType
      BY TextTyped
    <3>2. /\ \A x \in Slots : ~Affects(Text("send ok", s, none), x)
          /\ Named(Text("send ok", s, none), text_to_CIPSTART)
      BY DEF Text, Affects, Told, Named
    <3>3. line' = rest \o <<Text("send ok", s, none)>>
      BY <1>2, <2>2, Zenon
    <3>4. line' = Append(rest, Text("send ok", s, none)) /\ line' \in Seq(TextType)
      BY <1>1, <3>1, <3>3, OneMore, Zenon
    <3> QED BY <1>1, <3>1, <3>2, <3>4, TextComes
  <2> QED BY <1>4, <2>1, <2>2
<1>6. modem' \in ModemType /\ modem'.conn = modem.conn /\ modem'.dialing = modem.dialing
  <2>1. modem' = modem \/ modem' = [modem EXCEPT !.prompt = none, !.junk = FALSE]
    BY <1>2 DEF PacketPart, TextSwallowed, Prompt, Line, SpoiltLine
  <2> QED BY <1>1, <2>1 DEF ModemType
<1>7. Clients_sIP4addres' \in [Slots -> Addr]
  <2>1. CASE UNCHANGED Clients_sIP4addres
    BY <1>1, <2>1
  <2>2. CASE Line(t)
    <3>1. Clients_sIP4addres' = Read(t, Clients_sIP4addres, text_to_CIPSTART)
      BY <2>2 DEF Line, TableAfter, Read, Told
    <3> QED BY <1>1, <3>1, ReadTyped
  <2>3. CASE SpoiltLine(t)
    <3>1. TableAfter(t)[t.slot] \in Addr
      <4>1. TableAfter(t) = Read(t, Clients_sIP4addres, text_to_CIPSTART)
        BY DEF TableAfter, Read, Told
      <4>2. t.slot \in Slots
        BY <1>1 DEF TextType
      <4>3. TableAfter(t) \in [Slots -> Addr]
        BY <1>1, <4>1, ReadTyped
      <4> QED BY <4>2, <4>3
    <3>2. MistakenAddresses(t) \subseteq Addr
      BY <3>1 DEF MistakenAddresses, Addr
    <3> QED BY <1>1, <2>3, <3>2 DEF SpoiltLine
  <2> QED BY <1>2, <2>1, <2>2, <2>3 DEF PacketPart, TextSwallowed, Prompt
<1>8. TableType'
  BY <1>1, <1>2, <1>5, <1>6, <1>7 DEF TableType, Wire, call
<1>9. CASE cut'
  BY <1>8, <1>9 DEF TableInv
<1>10. CASE ~cut'
  <2>1. /\ ~cut
        /\ \/ UNCHANGED <<Clients_sIP4addres, lost>> /\ t.what \in {"first", "rest", "prompt"}
           \/ Line(t) \/ SpoiltLine(t)
    <3>1. CASE PacketPart(t)
      BY <1>10, <3>1, Zenon DEF PacketPart
    <3>2. CASE Prompt(t)
      BY <1>10, <3>2, Zenon DEF Prompt
    <3>3. ~TextSwallowed(t)
      BY <1>10, Zenon DEF TextSwallowed
    <3>4. Line(t) => UNCHANGED cut
      BY Zenon DEF Line
    <3>5. SpoiltLine(t) => UNCHANGED cut
      BY Zenon DEF SpoiltLine
    <3> QED BY <1>2, <1>10, <3>1, <3>2, <3>3, <3>4, <3>5
  <2>2. PICK tab \in [Slots -> Addr] : Stands(tab)
    BY <2>1 DEF TableInv
  <2>3. PICK new \in [Slots -> Addr] : new = Read(t, tab, text_to_CIPSTART)
    BY <1>1, <2>2, ReadTyped
  <2>4. \A s \in Slots \ lost' : new[s] = Clients_sIP4addres'[s]
    BY <1>1, <2>1, <2>2, <2>3, ReadStands DEF Stands
  <2>5. True(line', new, modem.conn, modem.dialing, text_to_CIPSTART, redialled)
    BY <1>3, <1>5, <2>2, <2>3 DEF Stands
  <2>6. Stands(new)'
    BY <1>2, <1>6, <2>4, <2>5 DEF Stands, call
  <2> QED BY <1>8, <2>3, <2>6 DEF TableInv
<1> QED BY <1>9, <1>10

\* One text comes of a change of the modem's connections.
LEMMA StepArrival ==
    ASSUME TableType, TableInv, NEW t \in TextType, line' = line \o <<t>>, modem' \in ModemType,
           UNCHANGED <<Clients_sIP4addres, call, cut, lost>>, Named(t, text_to_CIPSTART),
           modem'.dialing \in {modem.dialing, none},
           \A s \in Slots : /\ Affects(t, s) => Says(t, modem'.conn[s], text_to_CIPSTART, redialled)
                            /\ ~Affects(t, s) => modem'.conn[s] = modem.conn[s]
    PROVE  TableType' /\ TableInv'
<1>1. /\ line \in Seq(TextType) /\ line' = Append(line, t)
      /\ line' \in Seq(TextType)
  BY OneMore DEF TableType, Wire
<1>2. ASSUME NEW tab \in [Slots -> Addr], Stands(tab)
      PROVE  Stands(tab)'
  <2>1. True(line, tab, modem.conn, modem'.dialing, text_to_CIPSTART, redialled)
    BY <1>2 DEF Stands, True, Calls
  <2>2. True(line', tab, modem'.conn, modem'.dialing, text_to_CIPSTART, redialled)
    BY <1>1, <2>1, TextComes, Zenon
  <2> QED BY <1>2, <2>2 DEF Stands, call
<1> QED BY <1>1, <1>2 DEF TableType, TableInv, Wire, call

LEMMA StepOpens ==
    ASSUME TableType, TableInv, NEW s \in Slots, NEW p \in PCs, ClientOpens(s, p)
    PROVE  TableType' /\ TableInv'
<1> DEFINE t == Text("remote", s, p)
<1>1. /\ modem \in ModemType /\ modem' = [modem EXCEPT !.conn[s] = p] /\ line' = line \o <<t>>
      /\ UNCHANGED <<Clients_sIP4addres, call, cut, lost>>
  BY DEF ClientOpens, Arrives, TableType, Wire, server
<1>2. /\ modem' \in ModemType /\ modem'.dialing = modem.dialing
      /\ modem'.conn = [modem.conn EXCEPT ![s] = p] /\ modem.conn \in [Slots -> Addr]
  BY <1>1 DEF ModemType, Addr
<1>3. t \in TextType
  BY TextTyped DEF Told, Addr
<1>4. t.what = "remote" /\ t.slot = s /\ t.arg = p
  BY DEF Text
<1> HIDE DEF t
<1>5. \A x \in Slots :
          /\ Affects(t, x) => Says(t, modem'.conn[x], text_to_CIPSTART, redialled)
          /\ ~Affects(t, x) => modem'.conn[x] = modem.conn[x]
  BY <1>2, <1>4 DEF Affects, Says, Told
<1>6. Named(t, text_to_CIPSTART)
  BY <1>4 DEF Named
<1> QED BY <1>1, <1>2, <1>3, <1>5, <1>6, StepArrival

LEMMA StepCloses ==
    ASSUME TableType, TableInv, NEW s \in Slots, ClientCloses(s)
    PROVE  TableType' /\ TableInv'
<1> DEFINE t == Text("closed", s, none)
<1>1. /\ modem \in ModemType /\ modem' = [modem EXCEPT !.conn[s] = none] /\ line' = line \o <<t>>
      /\ UNCHANGED <<Clients_sIP4addres, call, cut, lost>>
  BY DEF ClientCloses, Arrives, TableType, Wire, server
<1>2. /\ modem' \in ModemType /\ modem'.dialing = modem.dialing
      /\ modem'.conn = [modem.conn EXCEPT ![s] = none] /\ modem.conn \in [Slots -> Addr]
  BY <1>1 DEF ModemType, Addr
<1>3. t \in TextType
  BY TextTyped
<1>4. t.what = "closed" /\ t.slot = s /\ t.arg = none
  BY DEF Text
<1> HIDE DEF t
<1>5. \A x \in Slots :
          /\ Affects(t, x) => Says(t, modem'.conn[x], text_to_CIPSTART, redialled)
          /\ ~Affects(t, x) => modem'.conn[x] = modem.conn[x]
  BY <1>2, <1>4 DEF Affects, Says, Told
<1>6. Named(t, text_to_CIPSTART)
  BY <1>4 DEF Named
<1> QED BY <1>1, <1>2, <1>3, <1>5, <1>6, StepArrival

LEMMA StepDialled ==
    ASSUME TableType, TableInv, Dialled
    PROVE  TableType' /\ TableInv'
<1>1. /\ modem \in ModemType /\ modem.dialing # none
      /\ modem.conn \in [Slots -> Addr] /\ modem.dialing \in Addr
      /\ UNCHANGED <<Clients_sIP4addres, call, cut, lost>>
  BY DEF Dialled, TableType, Wire, server, ModemType
<1>2. CASE /\ modem' = [modem EXCEPT !.dialing = none, !.conn[Server] = modem.dialing]
           /\ Arrives(<<Text("connect ok", Server, none)>>)
  <2> DEFINE t == Text("connect ok", Server, none)
  <2>1. line' = line \o <<t>>
    BY <1>2 DEF Arrives
  <2>2. /\ modem' \in ModemType /\ modem'.dialing = none
        /\ modem'.conn = [modem.conn EXCEPT ![Server] = modem.dialing]
    BY <1>1, <1>2, Names DEF ModemType
  <2>3. t \in TextType
    BY TextTyped, Names
  <2>4. t.what = "connect ok"
    BY DEF Text
  <2> HIDE DEF t
  <2>5. CASE cut
    <3>1. line' \in Seq(TextType)
      BY <2>1, <2>3, OneMore DEF TableType, Wire
    <3> QED BY <1>1, <2>2, <2>5, <3>1 DEF TableType, TableInv, Wire, call
  <2>6. CASE ~cut
    <3>1. Calls(line, modem.dialing, text_to_CIPSTART, redialled)
      BY <2>6 DEF TableInv, Stands, True
    <3>2. /\ Named(t, text_to_CIPSTART)
          /\ Matches(text_to_CIPSTART, modem.dialing, redialled)
      BY <1>1, <3>1 DEF Calls, Named, Matches
    <3>3. \A x \in Slots :
              /\ Affects(t, x) => Says(t, modem'.conn[x], text_to_CIPSTART, redialled)
              /\ ~Affects(t, x) => modem'.conn[x] = modem.conn[x]
      BY <1>1, <2>2, <2>4, <3>2 DEF Affects, Says, Told
    <3> QED BY <1>1, <2>1, <2>2, <2>3, <3>2, <3>3, StepArrival
  <2> QED BY <2>5, <2>6
<1>3. CASE /\ modem' = [modem EXCEPT !.dialing = none]
           /\ Arrives(<<Text("connect fail", Server, none)>>)
  <2> DEFINE t == Text("connect fail", Server, none)
  <2>1. line' = line \o <<t>>
    BY <1>3 DEF Arrives
  <2>2. modem' \in ModemType /\ modem'.dialing = none /\ modem'.conn = modem.conn
    BY <1>1, <1>3, Names DEF ModemType
  <2>3. t \in TextType
    BY TextTyped, Names
  <2>4. t.what = "connect fail"
    BY DEF Text
  <2> HIDE DEF t
  <2>5. (\A x \in Slots : ~Affects(t, x)) /\ Named(t, text_to_CIPSTART)
    BY <2>4 DEF Affects, Told, Named
  <2> QED BY <1>1, <2>1, <2>2, <2>3, <2>5, StepArrival
<1> QED BY <1>2, <1>3 DEF Dialled

LEMMA TextsCome ==
    ASSUME NEW l \in Seq(TextType), NEW a, NEW b, NEW c
    PROVE  l \o <<a>> # <<>> /\ l \o <<a, b, c>> # <<>>
<1> DEFINE S == TextType \cup {a, b, c}
<1>1. l \in Seq(S) /\ <<a>> \in Seq(S) /\ <<a, b, c>> \in Seq(S)
  OBVIOUS
<1>2. Len(l) \in Nat /\ Len(<<a>>) = 1 /\ Len(<<a, b, c>>) = 3
  BY <1>1
<1> HIDE DEF S
<1>3. Len(l \o <<a>>) = Len(l) + 1 /\ Len(l \o <<a, b, c>>) = Len(l) + 3
  BY <1>1, <1>2
<1> QED BY <1>2, <1>3

LEMMA StepSends ==
    ASSUME TableType, TableInv, NEW s \in Slots, NEW k \in {"get", "register", "ipv6"},
           ClientSends(s, k)
    PROVE  TableType' /\ TableInv'
<1> DEFINE m == [kind |-> k, of |-> s]
           a == Text("receive", s, k)
           b == Text("first", s, m)
           c == Text("rest", s, m)
           M == modem.conn
           Sound(l) == /\ l \in Seq(TextType)
                       /\ \A tab : True(line, tab, M, modem.dialing, text_to_CIPSTART, redialled)
                             => True(l, tab, M, modem.dialing, text_to_CIPSTART, redialled)
<1>1. m \in Messages /\ k \in Kinds
  BY DEF Messages, Kinds
<1>2. a \in TextType /\ b \in TextType /\ c \in TextType
  BY <1>1, TextTyped
<1>3. a.what = "receive" /\ b.what = "first" /\ c.what = "rest"
  BY DEF Text
<1>4. line' = line \o <<a, b, c>> /\ UNCHANGED <<Clients_sIP4addres, call, cut, lost, modem>>
  BY DEF ClientSends, Arrives, server
<1> HIDE DEF a, b, c
<1>5. ASSUME NEW l, NEW t \in {a, b, c}, Sound(l)
      PROVE  Sound(Append(l, t))
  <2>1. /\ \A x \in Slots : ~Affects(t, x)
        /\ Named(t, text_to_CIPSTART)
    BY <1>3 DEF Affects, Told, Named
  <2>2. t \in TextType
    BY <1>2
  <2>3. l \in Seq(TextType) /\ Append(l, t) \in Seq(TextType)
    BY <1>5, <2>2, OneMore
  <2>4. \A tab : True(line, tab, M, modem.dialing, text_to_CIPSTART, redialled)
          => True(Append(l, t), tab, M, modem.dialing, text_to_CIPSTART, redialled)
    BY <1>5, <2>1, <2>2, <2>3, TextComes
  <2> QED BY <2>3, <2>4
<1>6. Sound(line)
  BY DEF TableType, Wire
<1>7. Sound(Append(Append(Append(line, a), b), c))
  BY <1>5, <1>6
<1>8. line' = Append(Append(Append(line, a), b), c)
  BY <1>2, <1>4 DEF TableType, Wire
<1>9. modem \in ModemType
  BY DEF TableType, Wire
<1>10. line' # <<>>
  BY <1>4, TextsCome, Zenon DEF TableType, Wire
<1>11. Obeys(text_to_CIPSTART, redialled)
  BY <1>4, <1>7, <1>8, <1>9, <1>10 DEF Obeys, Follows
<1> QED BY <1>4, <1>11, Kept

LEMMA StepRestarted ==
    ASSUME TableType, TableInv, Restarted
    PROVE  TableType' /\ TableInv'
<1>1. /\ Clients_sIP4addres' = Nobody /\ line' = <<>> /\ UNCHANGED call
      /\ modem' = [conn |-> Nobody, dialing |-> none, prompt |-> none, junk |-> FALSE]
  BY DEF Restarted, server
<1>2. Nobody \in [Slots -> Addr] /\ \A s \in Slots : Nobody[s] = none
  BY Names DEF Nobody
<1>3. FALSE \in BOOLEAN /\ none \in Addr /\ none \in Slots \cup {none}
  BY Names
<1>4. modem' \in ModemType /\ modem'.conn = Nobody /\ modem'.dialing = none
  BY <1>1, <1>2, <1>3 DEF ModemType
<1>5. line' \in Seq(TextType) /\ Len(line') = 0
  BY <1>1
<1>6. True(line', Nobody, Nobody, none, text_to_CIPSTART, redialled)
  <2>1. \A i \in 1 .. Len(line') : FALSE
    BY <1>5
  <2> QED BY <1>2, <2>1 DEF True, Calls, Agrees, Matches
<1>7. Stands(Nobody)'
  BY <1>1, <1>2, <1>4, <1>6 DEF Stands, call
<1>8. TableType'
  BY <1>1, <1>2, <1>4, <1>5 DEF TableType, Wire, call
<1> QED BY <1>2, <1>7, <1>8 DEF TableInv

\* The lines of AT+CIPSTATUS.
LEMMA StatusTexts ==
    ASSUME Wire, StatusArrives
    PROVE  \E l \in Seq(TextType) :
              /\ line' = line \o l
              /\ \A i \in 1 .. Len(l) : l[i].what = "status" /\ l[i].arg = modem.conn[l[i].slot]
              /\ \A s \in Slots : \E i \in 1 .. Len(l) : l[i].slot = s
<1> DEFINE n == Cardinality(Slots)
<1>1. PICK order \in [1 .. n -> Slots] :
          /\ \A s \in Slots : \E i \in DOMAIN order : order[i] = s
          /\ Arrives([i \in DOMAIN order |-> Text("status", order[i], modem.conn[order[i]])])
  BY DEF StatusArrives
<1>2. n \in Nat
  <2>1. IsFiniteSet(Slots)
    BY GprsClientsAssumption, FS_Singleton, FS_Union DEF Slots
  <2> QED BY <2>1, FS_CardinalityType
<1> HIDE DEF n
<1> DEFINE l == [i \in 1 .. n |-> Text("status", order[i], modem.conn[order[i]])]
<1>3. \A i \in 1 .. n : Text("status", order[i], modem.conn[order[i]]) \in TextType
  BY TextTyped DEF Wire, ModemType, Told
<1>4. l \in Seq(TextType) /\ Len(l) = n
  BY <1>2, <1>3
<1>5. \A i \in 1 .. n : /\ l[i].what = "status" /\ l[i].slot = order[i]
                        /\ l[i].arg = modem.conn[order[i]]
  BY DEF Text
<1>6. line' = line \o l
  BY <1>1 DEF Arrives
<1>7. \A s \in Slots : \E i \in 1 .. n : l[i].slot = s
  BY <1>1, <1>5
<1>8. \A i \in 1 .. n : l[i].arg = modem.conn[l[i].slot]
  BY <1>5
<1> HIDE DEF l
<1> QED BY <1>4, <1>5, <1>6, <1>7, <1>8

LEMMA StatusTyped ==
    ASSUME Wire, StatusArrives
    PROVE  line' \in Seq(TextType) /\ (line' = <<>> => line = <<>>)
<1>1. PICK l \in Seq(TextType) : line' = line \o l
  BY StatusTexts
<1>2. line \in Seq(TextType)
  BY DEF Wire
<1>3. \A m \in Seq(TextType) : m \o l \in Seq(TextType) /\ (m \o l = <<>> => m = <<>>)
  <2>1. ASSUME NEW m \in Seq(TextType), m \o l = <<>>
        PROVE  m = <<>>
    <3>1. Len(m) \in Nat /\ Len(l) \in Nat /\ Len(m \o l) = Len(m) + Len(l)
      OBVIOUS
    <3>2. Len(m \o l) = 0
      BY <2>1
    <3>3. Len(m) = 0
      BY <3>1, <3>2
    <3> QED BY <3>3
  <2> QED BY <2>1
<1> QED BY <1>1, <1>2, <1>3

\* A line about every connection comes: it is the last about each.
LEMMA StatusComes ==
    ASSUME Wire, StatusArrives, NEW tab, NEW txt, NEW red,
           Calls(line, modem.dialing, txt, red)
    PROVE  True(line', tab, modem.conn, modem.dialing, txt, red)
<1>1. line \in Seq(TextType) /\ Len(line) \in Nat
  BY DEF Wire
<1>2. PICK l \in Seq(TextType) :
          /\ line' = line \o l
          /\ \A i \in 1 .. Len(l) : l[i].what = "status" /\ l[i].arg = modem.conn[l[i].slot]
          /\ \A s \in Slots : \E i \in 1 .. Len(l) : l[i].slot = s
  BY StatusTexts, Zenon
<1> DEFINE m == line \o l
           k == Len(line)
<1>3. /\ m \in Seq(TextType) /\ Len(l) \in Nat /\ Len(m) = k + Len(l)
      /\ \A i \in 1 .. k : m[i] = line[i]
      /\ \A i \in 1 .. Len(l) : m[k + i] = l[i]
  BY <1>1, <1>2
<1> HIDE DEF m
<1>4. ASSUME NEW i \in 1 .. Len(m), i > k
      PROVE  m[i].what = "status" /\ m[i].arg = modem.conn[m[i].slot]
  <2>1. i - k \in 1 .. Len(l) /\ m[k + (i - k)] = l[i - k] /\ k + (i - k) = i
    BY <1>1, <1>3, <1>4
  <2> QED BY <1>2, <2>1
<1>5. Calls(m, modem.dialing, txt, red)
  <2>1. ASSUME NEW i \in 1 .. Len(m)
        PROVE  Named(m[i], txt)
    <3>1. CASE i > k
      BY <1>4, <3>1 DEF Named
    <3>2. CASE ~(i > k)
      <4>1. i \in 1 .. k /\ m[i] = line[i]
        BY <1>1, <1>3, <3>2
      <4> QED BY <4>1 DEF Calls
    <3> QED BY <3>1, <3>2
  <2> QED BY <2>1 DEF Calls
<1>6. ASSUME NEW s \in Slots
      PROVE  Agrees(m, tab, modem.conn, txt, red, s)
  <2>1. PICK j \in 1 .. Len(m) : j > k /\ Affects(m[j], s)
    <3>1. PICK i \in 1 .. Len(l) : l[i].slot = s
      BY <1>2
    <3>2. k + i \in 1 .. Len(m) /\ k + i > k
      BY <1>1, <1>3
    <3>4. m[k + i] = l[i] /\ l[i].what = "status"
      BY <1>2, <1>3
    <3>3. Affects(m[k + i], s)
      BY <3>1, <3>4 DEF Affects, Told
    <3> QED BY <3>2, <3>3
  <2>2. ASSUME NEW i \in 1 .. Len(m), Affects(m[i], s)
        PROVE  \/ \E h \in i + 1 .. Len(m) : Affects(m[h], s)
               \/ Says(m[i], modem.conn[s], txt, red)
    <3>1. CASE i > k
      BY <1>4, <2>2, <3>1 DEF Affects, Says, Told
    <3>2. CASE ~(i > k)
      <4>1. j \in i + 1 .. Len(m)
        BY <1>1, <1>3, <2>1, <3>2
      <4> QED BY <2>1, <4>1
    <3> QED BY <3>1, <3>2
  <2> QED BY <2>1, <2>2 DEF Agrees
<1> QED BY <1>2, <1>5, <1>6 DEF True, m

LEMMA StepStatus ==
    ASSUME TableType, TableInv, StatusAsked
    PROVE  TableType' /\ TableInv'
<1>1. /\ Clients_sIP4addres' = Nobody /\ UNCHANGED <<call, modem, cut>> /\ lost' = {}
      /\ Wire /\ StatusArrives
  BY DEF StatusAsked, server, TableType
<1>2. Nobody \in [Slots -> Addr]
  BY Names DEF Nobody
<1>3. TableType'
  BY <1>1, <1>2, StatusTyped DEF TableType, Wire, call
<1>4. ASSUME ~cut
      PROVE  Stands(Nobody)'
  <2>1. Calls(line, modem.dialing, text_to_CIPSTART, redialled)
    BY <1>4 DEF TableInv, Stands, True
  <2>2. True(line', Nobody, modem.conn, modem.dialing, text_to_CIPSTART, redialled)
    BY <1>1, <2>1, StatusComes
  <2> QED BY <1>1, <2>2 DEF Stands, call
<1> QED BY <1>1, <1>2, <1>3, <1>4 DEF TableInv

\* A command that leaves the connections alone.
LEMMA StepOther ==
    ASSUME TableType, TableInv, OtherCommand \/ StatusKey
    PROVE  TableType' /\ TableInv'
<1> DEFINE c == Text("AT", Server, none)
<1>1. /\ UNCHANGED <<Clients_sIP4addres, call, cut, lost>> /\ Wire
      /\ modem' = Takes(modem, c)
  BY DEF OtherCommand, StatusKey, server, TableType
<1>2. c.what = "AT"
  BY TextIs
<1> HIDE DEF c
<1>3. modem' \in ModemType /\ modem'.conn = modem.conn /\ modem'.dialing = modem.dialing
  BY <1>1, <1>2 DEF Takes, Wire, ModemType
<1>4. UNCHANGED line \/ StatusArrives
  BY DEF OtherCommand, StatusKey
<1>5. line' \in Seq(TextType) /\ (line' = <<>> => line = <<>>)
  BY <1>1, <1>4, StatusTyped DEF Wire
<1>6. Obeys(text_to_CIPSTART, redialled)
  <2>1. ASSUME NEW tab, True(line, tab, modem.conn, modem.dialing, text_to_CIPSTART, redialled)
        PROVE  True(line', tab, modem.conn, modem.dialing, text_to_CIPSTART, redialled)
    BY <1>1, <1>4, <2>1, StatusComes DEF True
  <2> QED BY <1>3, <1>5, <2>1 DEF Obeys, Follows
<1> QED BY <1>1, <1>6, Kept

LEMMA StepTable ==
    ASSUME TableType, TableInv, psServerIP \in Addr, client_number \in Slots, [Next]_vars
    PROVE  TableType' /\ TableInv'
<1>1. CASE Program
  BY <1>1, StepServer, StepPrograms, StepReadText DEF Program
<1>2. CASE World
  <2>1. CASE \E s \in Slots : LampSends(s)
    BY <2>1, Unmoved DEF LampSends, server
  <2> QED BY <1>2, <2>1, StepOpens, StepCloses, StepSends, StepDialled, StepRestarted, StepStatus,
             StepOther
          DEF World
<1>3. CASE UNCHANGED vars
  BY <1>3, Unmoved DEF vars, server, ghosts
<1> QED BY <1>1, <1>2, <1>3 DEF Next

-----------------------------------------------------------------------------
(* The types of the rest.                                                  *)

Flags == {data_to_server, to_open, to_close, to_close_client7, redialled, cut}

LEMMA StepFlags ==
    ASSUME Flags \subseteq BOOLEAN, [Next]_vars
    PROVE  Flags' \subseteq BOOLEAN
<1> USE DEF Flags
<1>1. CASE UNCHANGED <<data_to_server, to_open, to_close, to_close_client7, redialled, cut>>
  BY <1>1
<1>2. CASE ServerStep
  <2>1. data_to_server' \in BOOLEAN /\ to_close_client7' \in BOOLEAN /\ cut' \in BOOLEAN
    BY <1>2 DEF ServerStep, server, ghosts
  <2>2. to_open' \in BOOLEAN
    BY <1>2 DEF ServerStep, server, Connect, Connected
  <2>3. to_close' \in BOOLEAN
    BY <1>2 DEF ServerStep, server, Connect, Connected
  <2>4. redialled' \in BOOLEAN
    BY <1>2 DEF ServerStep, server, Connect, CallPending, call
  <2> QED BY <2>1, <2>2, <2>3, <2>4
<1>3. CASE ReadText
  <2>1. UNCHANGED <<data_to_server, to_open, to_close, redialled>>
    BY <1>3 DEF ReadText, call
  <2>2. cut' \in BOOLEAN
    BY <1>3 DEF ReadText, PacketPart, TextSwallowed, Prompt, Line, SpoiltLine
  <2>3. to_close_client7' \in BOOLEAN
    BY <1>3 DEF ReadText, PacketPart, TextSwallowed, Prompt, Line, SpoiltLine
  <2> QED BY <2>1, <2>2, <2>3
<1>4. CASE eTunDeviceReadPacket
  <2>1. UNCHANGED <<to_open, to_close, to_close_client7, redialled, cut>>
    BY <1>4 DEF eTunDeviceReadPacket, call, ghosts
  <2>2. data_to_server' \in BOOLEAN
    BY <1>4 DEF eTunDeviceReadPacket
  <2> QED BY <2>1, <2>2
<1>5. CASE ReadEnough \/ JennicPacket
  BY <1>1, <1>5 DEF ReadEnough, JennicPacket, server, call, ghosts
<1>6. CASE World
  BY <1>1, <1>6 DEF World, ClientOpens, ClientCloses, ClientSends, LampSends, Dialled, Restarted,
                    StatusAsked, OtherCommand, StatusKey, server, call
<1>7. CASE UNCHANGED vars
  BY <1>1, <1>7 DEF vars, server, call, ghosts
<1> QED BY <1>2, <1>3, <1>4, <1>5, <1>6, <1>7 DEF Next, Program

\* What is received, sent and asked.
Buffers == {b \in Seq(Messages \cup {none}) : Len(b) = 2}

ValueType ==
    /\ pc \in {"server", "read", "jennic", "tun"}
    /\ client_number \in Slots
    /\ ipv6_buf \in Buffers
    /\ recived \in 0 .. 1
    /\ to_reciv \in Kinds \cup {none} /\ butes_reciv \in Kinds \cup {none}
    /\ to_send \in Kinds \cup {none}
    /\ psServerIP \in Addr
    /\ radio \in Messages \cup {none} /\ asked \in Slots \cup {none}
    /\ overlaps \in 0 .. MaxOverlaps

LEMMA Halves ==
    ASSUME NEW a \in Messages \cup {none}, NEW b \in Messages \cup {none}
    PROVE  <<a, b>> \in Buffers
  BY DEF Buffers

LEMMA HalfPut ==
    ASSUME NEW b \in Buffers, NEW i \in 1 .. 2, NEW m \in Messages
    PROVE  [b EXCEPT ![i] = m] \in Buffers
  BY ExceptSeq DEF Buffers

LEMMA HalfTaken ==
    ASSUME NEW b \in Buffers
    PROVE  b[1] \in Messages \cup {none} /\ b[2] \in Messages \cup {none}
  BY DEF Buffers

LEMMA StepValues ==
    ASSUME ValueType, TableType, [Next]_vars
    PROVE  ValueType'
<1> USE DEF ValueType
<1> DEFINE Rest == <<pc, client_number, ipv6_buf, recived, to_reciv, butes_reciv, to_send,
                     psServerIP, radio, asked, overlaps>>
<1>1. CASE UNCHANGED Rest
  BY <1>1
<1>2. CASE ServerStep
  <2> DEFINE hello == [kind |-> "hello", of |-> Server]
  <2>1. hello \in Messages
    BY Names DEF Messages, Kinds
  <2> HIDE DEF hello
  <2>2. client_number' \in {client_number, Server} /\ recived' \in {recived, 0}
    BY <1>2 DEF ServerStep, SimRead
  <2>3. ipv6_buf' = ipv6_buf \/ ipv6_buf' = <<hello, hello>>
    BY <1>2 DEF ServerStep, hello
  <2>4. to_send' = to_send \/ to_send' = "hello"
    BY <1>2 DEF ServerStep
  <2>5. pc' = "read" /\ UNCHANGED <<to_reciv, butes_reciv, psServerIP, radio, asked, overlaps>>
    BY <1>2 DEF ServerStep, server, ghosts
  <2>6. "hello" \in Kinds
    BY DEF Kinds
  <2>7. ipv6_buf' \in Buffers
    BY <2>1, <2>3, Halves
  <2> QED BY <2>2, <2>4, <2>5, <2>6, <2>7, Names
<1>3. CASE ReadText
  <2> DEFINE t == Head(line)
  <2>1. /\ t \in TextType
        /\ PacketPart(t) \/ TextSwallowed(t) \/ Prompt(t) \/ Line(t) \/ SpoiltLine(t)
        /\ UNCHANGED <<pc, psServerIP, radio, overlaps>>
    BY <1>3 DEF ReadText, TableType, Wire
  <2> HIDE DEF t
  <2>2. CASE PacketPart(t)
    <3>1. t.arg \in Messages
      BY <2>1, <2>2 DEF PacketPart, TextType
    <3>2. ipv6_buf' = ipv6_buf \/ ipv6_buf' = [ipv6_buf EXCEPT ![recived + 1] = t.arg]
      BY <2>2 DEF PacketPart
    <3>3. ipv6_buf' \in Buffers
      BY <3>1, <3>2, HalfPut
    <3>4. /\ recived' = 0 \/ recived' = (recived + 1) % 2
          /\ to_reciv' \in {to_reciv, none} /\ butes_reciv' \in {butes_reciv, to_reciv}
          /\ UNCHANGED <<client_number, to_send, asked>>
      BY <2>2 DEF PacketPart
    <3>5. recived' \in 0 .. 1
      <4>1. recived = 0 \/ recived = 1
        OBVIOUS
      <4>2. (0 + 1) % 2 = 1 /\ (1 + 1) % 2 = 0
        OBVIOUS
      <4> QED BY <3>4, <4>1, <4>2
    <3> QED BY <2>1, <3>3, <3>4, <3>5
  <2>3. CASE TextSwallowed(t)
    <3>1. ipv6_buf' \in Buffers
      BY <2>3, Halves DEF TextSwallowed
    <3> QED BY <2>1, <2>3, <3>1 DEF TextSwallowed
  <2>4. CASE Prompt(t)
    <3>1. asked' \in {asked, none}
      BY <2>4 DEF Prompt
    <3> QED BY <2>1, <2>4, <3>1 DEF Prompt
  <2>5. CASE Line(t)
    <3>1. t.slot \in Slots /\ (t.what = "receive" => t.arg \in Kinds)
      BY <2>1 DEF TextType
    <3>2. /\ client_number' \in {client_number, t.slot} /\ recived' = 0
          /\ to_reciv' = to_reciv \/ (t.what = "receive" /\ to_reciv' = t.arg)
          /\ UNCHANGED <<ipv6_buf, butes_reciv, to_send, asked>>
      BY <2>5 DEF Line
    <3> QED BY <2>1, <3>1, <3>2
  <2>6. CASE SpoiltLine(t)
    <3>1. t.slot \in Slots /\ Zero \in Slots /\ Server \in Slots
      BY <2>1, GprsClientsAssumption DEF TextType, Slots
    <3>2. /\ client_number' \in {client_number} \cup MistakenSlots(t) /\ recived' = 0
          /\ UNCHANGED <<ipv6_buf, butes_reciv, to_reciv, to_send, asked>>
      BY <2>6 DEF SpoiltLine
    <3>3. MistakenSlots(t) \subseteq Slots
      BY <3>1 DEF MistakenSlots
    <3> QED BY <2>1, <3>2, <3>3
  <2> QED BY <2>1, <2>2, <2>3, <2>4, <2>5, <2>6
<1>4. CASE ReadEnough
  BY <1>4 DEF ReadEnough, server, ghosts
<1>5. CASE JennicPacket
  <2>1. /\ pc' = "tun"
        /\ UNCHANGED <<client_number, recived, to_reciv, butes_reciv, psServerIP, asked, overlaps>>
    BY <1>5 DEF JennicPacket, receiving, server, ghosts
  <2>2. CASE UNCHANGED <<ipv6_buf, to_send, radio>>
    BY <2>1, <2>2
  <2>3. CASE radio # none /\ SendPacage(radio, client_number) /\ radio' = none
    <3>1. ipv6_buf' = <<radio, radio>> /\ to_send' = radio.kind /\ radio \in Messages
      BY <2>3 DEF SendPacage
    <3>2. ipv6_buf' \in Buffers
      BY <3>1, Halves
    <3>3. to_send' \in Kinds
      BY <3>1 DEF Messages
    <3> QED BY <2>1, <2>3, <3>2, <3>3
  <2> QED BY <1>5, <2>2, <2>3 DEF JennicPacket
<1>6. CASE eTunDeviceReadPacket
  <2>1. /\ pc' = "server" /\ butes_reciv' = none
        /\ UNCHANGED <<client_number, recived, to_reciv, asked, overlaps>>
    BY <1>6 DEF eTunDeviceReadPacket, ghosts
  <2>2. CASE UNCHANGED <<ipv6_buf, to_send, radio, psServerIP>>
    BY <2>1, <2>2
  <2>3. CASE ~BadLength /\ butes_reciv \in Kinds
    <3>1. Request \in Messages
      BY <2>3, HalfTaken, Names DEF BadLength, Request
    <3>2. \A kind \in Kinds : Answer(kind) \in Messages /\ Answer(kind).kind = kind
      BY <3>1 DEF Answer, Messages
    <3>3. /\ {"answer", "ack", "lamp"} \subseteq Kinds
          /\ Clients_sIP4addres[client_number] \in Addr
      BY DEF Kinds, TableType
    <3>4. /\ ipv6_buf' = ipv6_buf \/ \E kind \in {"answer", "ack"} :
                ipv6_buf' = <<Answer(kind), Answer(kind)>>
          /\ to_send' = to_send \/ \E kind \in {"answer", "ack"} : to_send' = Answer(kind).kind
          /\ radio' \in {radio, Answer("lamp")}
          /\ psServerIP' \in {psServerIP, Clients_sIP4addres[client_number]}
      BY <1>6, <2>3 DEF eTunDeviceReadPacket, SendPacage
    <3>5. ipv6_buf' \in Buffers
      BY <3>2, <3>3, <3>4, Halves
    <3> QED BY <2>1, <3>2, <3>3, <3>4, <3>5
  <2>4. {"get", "register", "ipv6"} \subseteq Kinds
    BY DEF Kinds
  <2> QED BY <1>6, <2>2, <2>3, <2>4 DEF eTunDeviceReadPacket
<1>7. CASE World
  <2>1. overlaps' \in 0 .. MaxOverlaps
    <3>1. ASSUME NEW disturbs, Comes(disturbs)
          PROVE  UNCHANGED overlaps \/ (overlaps < MaxOverlaps /\ overlaps' = overlaps + 1)
      <4>1. UNCHANGED <<overlaps, delivered>> => UNCHANGED overlaps
        OBVIOUS
      <4> QED BY <3>1, <4>1, Zenon DEF Comes
    <3>2. ASSUME NEW s \in Slots, LampSends(s) \/ ClientCloses(s)
          PROVE  \E disturbs : Comes(disturbs)
      BY <3>2, Zenon DEF LampSends, ClientCloses
    <3>3. ASSUME NEW s \in Slots, NEW p \in PCs, ClientOpens(s, p)
          PROVE  \E disturbs : Comes(disturbs)
      BY <3>3, Zenon DEF ClientOpens
    <3>4. ASSUME NEW s \in Slots, NEW k \in {"get", "register", "ipv6"}, ClientSends(s, k)
          PROVE  \E disturbs : Comes(disturbs)
      BY <3>4, Zenon DEF ClientSends
    <3>5. ASSUME Restarted \/ StatusAsked \/ OtherCommand \/ StatusKey
          PROVE  \E disturbs : Comes(disturbs)
      <4>1. Restarted => Comes(Busy)
        BY Zenon DEF Restarted
      <4>2. StatusAsked => Comes(Busy)
        BY Zenon DEF StatusAsked
      <4>3. StatusKey => Comes(Busy)
        BY Zenon DEF StatusKey
      <4>4. OtherCommand => \E disturbs : Comes(disturbs)
        BY Zenon DEF OtherCommand
      <4> QED BY <3>5, <4>1, <4>2, <4>3, <4>4, Zenon
    <3>6. ASSUME Dialled
          PROVE  UNCHANGED overlaps \/ \E disturbs : Comes(disturbs)
      <4>1. UNCHANGED <<overlaps, delivered>> => UNCHANGED overlaps
        OBVIOUS
      <4> QED BY <3>6, <4>1, Zenon DEF Dialled
    <3>7. CASE \E disturbs : Comes(disturbs)
      BY <3>1, <3>7, GprsClientsAssumption
    <3> QED BY <1>7, <3>2, <3>3, <3>4, <3>5, <3>6, <3>7 DEF World
  <2>2. /\ pc' = pc /\ recived' \in {recived, 0}
        /\ UNCHANGED <<client_number, ipv6_buf, to_reciv, butes_reciv, to_send, psServerIP>>
    BY <1>7 DEF World, ClientOpens, ClientCloses, ClientSends, LampSends, Dialled, Restarted,
                StatusAsked, OtherCommand, StatusKey, SimRead, receiving, server
  <2>3. asked' = asked \/ asked' \in Slots
    BY <1>7 DEF World, ClientOpens, ClientCloses, ClientSends, LampSends, Dialled, Restarted,
                StatusAsked, OtherCommand, StatusKey
  <2>4. radio' = radio \/ \E s \in Slots : radio' = [kind |-> "lamp", of |-> s]
    BY <1>7 DEF World, ClientOpens, ClientCloses, ClientSends, LampSends, Dialled, Restarted,
                StatusAsked, OtherCommand, StatusKey
  <2>5. \A s \in Slots : [kind |-> "lamp", of |-> s] \in Messages
    BY DEF Messages, Kinds
  <2> QED BY <2>1, <2>2, <2>3, <2>4, <2>5
<1>8. CASE UNCHANGED vars
  BY <1>1, <1>8 DEF vars, receiving, server, ghosts
<1> QED BY <1>2, <1>3, <1>4, <1>5, <1>6, <1>7, <1>8 DEF Next, Program

\* A line can have been begun only if there is one.
SpoiltType ==
    /\ buffer_SIM900 \in {"empty", "half", "spoilt"} /\ lost \subseteq Slots
    /\ line = <<>> => buffer_SIM900 = "empty"

LEMMA SpoiltKept ==
    ASSUME SpoiltType, buffer_SIM900' \in {buffer_SIM900, Spoilt, "empty"}, lost' \subseteq Slots,
           line' = <<>> => line = <<>> \/ buffer_SIM900' = "empty"
    PROVE  SpoiltType'
  BY DEF SpoiltType, Spoilt

LEMMA ServerWrites ==
    ASSUME Wire, psServerIP \in Addr, ServerStep
    PROVE  line' = <<>> => line = <<>>
<1> DEFINE close == Text("CIPCLOSE", Server, none)
           send == Text("CIPSEND", Server, none)
           dial == Text("CIPSTART", Server, psServerIP)
           One(a) == a = <<>> \/ \E e \in Commands(psServerIP) : a = <<e>>
<1>1. close \in Commands(psServerIP) /\ send \in Commands(psServerIP)
  BY Names DEF Commands
<1>2. psServerIP # none => dial \in Commands(psServerIP)
  BY DEF Commands
<1> HIDE DEF close, send, dial
<1>3. One(<<>>) /\ One(CloseCommands) /\ One(<<send>>)
  BY <1>1 DEF CloseCommands, close
<1>4. psServerIP # none => One(ConnectCommands)
  BY <1>1, <1>2 DEF ConnectCommands, close, dial
<1> HIDE DEF One
<1>5. ASSUME NEW a, One(a), SimWrite(a \o CloseCommands)
      PROVE  line' = <<>> => line = <<>>
  <2>1. Follows(line, modem, line', modem', Nobody, psServerIP, FALSE)
    BY <1>3, <1>5, Commanded, Zenon DEF One
  <2> QED BY <2>1 DEF Follows
<1>6. <<>> \o CloseCommands = CloseCommands
  BY DEF CloseCommands
<1>7. CASE ServerFree /\ SimWrite(CloseCommands)
  <2>1. SimWrite(<<>> \o CloseCommands)
    BY <1>6, <1>7, Zenon
  <2> QED BY <1>3, <1>5, <2>1, Zenon
<1>8. CASE ServerFree /\ SimWrite(ConnectCommands \o CloseCommands)
  <2>1. One(ConnectCommands)
    BY <1>4, <1>8 DEF ServerFree
  <2> QED BY <1>5, <1>8, <2>1, Zenon
<1>9. CASE SimWrite(<<send>> \o CloseCommands)
  BY <1>3, <1>5, <1>9, Zenon
<1>10. CASE UNCHANGED line
  BY <1>10
<1> QED BY <1>7, <1>8, <1>9, <1>10, Zenon DEF ServerStep, send

LEMMA SendWrites ==
    ASSUME Wire, NEW m, NEW s \in Slots, SendPacage(m, s)
    PROVE  line' = <<>> => line = <<>>
<1>1. Text("CIPSEND", s, none) \in Commands(none)
  BY DEF Commands
<1>2. SimWrite(<<Text("CIPSEND", s, none)>>)
  BY DEF SendPacage
<1>3. Follows(line, modem, line', modem', Nobody, none, FALSE)
  BY <1>1, <1>2, CommandedOnce, Names, Zenon
<1> QED BY <1>3 DEF Follows

LEMMA StepSpoilt ==
    ASSUME SpoiltType, TableType, psServerIP \in Addr, client_number \in Slots, [Next]_vars
    PROVE  SpoiltType'
<1>1. Wire /\ line \in Seq(TextType) /\ lost \subseteq Slots
  BY DEF TableType, Wire, SpoiltType
<1>2. CASE ServerStep
  <2>1. buffer_SIM900' \in {buffer_SIM900, Spoilt} /\ UNCHANGED lost
    BY <1>2 DEF ServerStep, SimRead, ghosts
  <2>2. line' = <<>> => line = <<>>
    BY <1>1, <1>2, ServerWrites
  <2> QED BY <1>1, <2>1, <2>2, SpoiltKept
<1>3. CASE ReadText
  <2> DEFINE t == Head(line)
  <2>1. /\ t \in TextType /\ buffer_SIM900' = "empty"
        /\ PacketPart(t) \/ TextSwallowed(t) \/ Prompt(t) \/ Line(t) \/ SpoiltLine(t)
    BY <1>1, <1>3 DEF ReadText
  <2> HIDE DEF t
  <2>2. t.slot \in Slots /\ MistakenSlots(t) \subseteq Slots
    BY <2>1, GprsClientsAssumption DEF MistakenSlots, TextType, Slots
  <2>3. lost' \subseteq Slots
    BY <1>1, <2>1, <2>2 DEF PacketPart, TextSwallowed, Prompt, Line, SpoiltLine
  <2> QED BY <2>1, <2>3 DEF SpoiltType
<1>4. CASE ReadEnough
  BY <1>4 DEF ReadEnough, ghosts, SpoiltType
<1>5. CASE UNCHANGED <<line, buffer_SIM900, lost>>
  BY <1>5 DEF SpoiltType
<1>6. ASSUME NEW m, SendPacage(m, client_number), UNCHANGED lost
      PROVE  SpoiltType'
  <2>1. buffer_SIM900' = Spoilt
    BY <1>6 DEF SendPacage
  <2>2. line' = <<>> => line = <<>>
    BY <1>1, <1>6, SendWrites
  <2> QED BY <1>1, <1>6, <2>1, <2>2, SpoiltKept
<1>7. CASE JennicPacket
  BY <1>5, <1>6, <1>7, Zenon DEF JennicPacket, ghosts
<1>8. CASE eTunDeviceReadPacket
  BY <1>5, <1>6, <1>8, Zenon DEF eTunDeviceReadPacket, ghosts
<1>9. ASSUME UNCHANGED <<buffer_SIM900, lost>>, NEW a, NEW b, NEW c,
             Arrives(<<a>>) \/ Arrives(<<a, b, c>>)
      PROVE  SpoiltType'
  <2>1. line' # <<>>
    BY <1>1, <1>9, TextsCome, Zenon DEF Arrives
  <2> QED BY <1>1, <1>9, <2>1, SpoiltKept
<1>10. ASSUME NEW s \in Slots, NEW p \in PCs, ClientOpens(s, p)
       PROVE  SpoiltType'
  BY <1>9, <1>10, Zenon DEF ClientOpens, receiving
<1>11. ASSUME NEW s \in Slots, ClientCloses(s)
       PROVE  SpoiltType'
  BY <1>9, <1>11, Zenon DEF ClientCloses, receiving
<1>12. ASSUME NEW s \in Slots, NEW k \in {"get", "register", "ipv6"}, ClientSends(s, k)
       PROVE  SpoiltType'
  BY <1>9, <1>12, Zenon DEF ClientSends, receiving
<1>13. CASE Dialled
  BY <1>9, <1>13, Zenon DEF Dialled, receiving
<1>14. ASSUME NEW s \in Slots, LampSends(s)
       PROVE  SpoiltType'
  BY <1>5, <1>14, Zenon DEF LampSends, receiving
<1>15. CASE Restarted
  BY <1>15 DEF Restarted, SpoiltType
<1>16. CASE StatusAsked
  <2>1. line' = <<>> => line = <<>>
    BY <1>1, <1>16, StatusTyped DEF StatusAsked
  <2>2. lost' = {} /\ UNCHANGED buffer_SIM900
    BY <1>16 DEF StatusAsked
  <2> QED BY <2>1, <2>2, SpoiltKept
<1>17. CASE OtherCommand \/ StatusKey
  <2>1. UNCHANGED line \/ StatusArrives
    BY <1>17, Zenon DEF OtherCommand, StatusKey
  <2>2. UNCHANGED lost /\ buffer_SIM900' \in {buffer_SIM900, Spoilt}
    BY <1>17 DEF OtherCommand, StatusKey, SimRead
  <2>3. line' = <<>> => line = <<>>
    BY <1>1, <2>1, StatusTyped
  <2> QED BY <1>1, <2>2, <2>3, SpoiltKept
<1>18. CASE UNCHANGED vars
  BY <1>5, <1>18, Zenon DEF vars, receiving, ghosts
<1> QED BY <1>2, <1>3, <1>4, <1>7, <1>8, <1>10, <1>11, <1>12, <1>13, <1>14, <1>15, <1>16, <1>17,
           <1>18 DEF Next, Program, World

ClientsInv == ValueType /\ TableType /\ Flags \subseteq BOOLEAN /\ SpoiltType /\ TableInv

LEMMA ClientsInvariance == Spec => []ClientsInv
<1>1. Init => ClientsInv
  <2> SUFFICES ASSUME Init PROVE ClientsInv
    OBVIOUS
  <2>1. Nobody \in [Slots -> Addr] /\ \A s \in Slots : Nobody[s] = none
    BY Names DEF Nobody
  <2>2. /\ modem \in ModemType /\ modem.conn = Nobody /\ modem.dialing = none
    <3>1. modem = [conn |-> Nobody, dialing |-> none, prompt |-> none, junk |-> FALSE]
      BY DEF Init
    <3>2. FALSE \in BOOLEAN /\ none \in Addr /\ none \in Slots \cup {none}
      BY Names
    <3> QED BY <2>1, <3>1, <3>2 DEF ModemType
  <2>3. line \in Seq(TextType) /\ Len(line) = 0
    BY DEF Init
  <2>4. True(line, Nobody, Nobody, none, text_to_CIPSTART, redialled)
    <3>1. \A i \in 1 .. Len(line) : FALSE
      BY <2>3
    <3> QED BY <2>1, <3>1 DEF True, Calls, Agrees, Matches
  <2>5. Flags \subseteq BOOLEAN
    BY DEF Init, Flags
  <2>6. ipv6_buf \in Buffers
    BY Halves DEF Init
  <2>7. ValueType
    BY <2>6, GprsClientsAssumption DEF Init, ValueType, Slots, Addr
  <2>8. TableType
    BY <2>1, <2>2, <2>3, Names DEF Init, TableType, Wire
  <2>9. Stands(Nobody)
    BY <2>2, <2>4 DEF Init, Stands
  <2>10. SpoiltType
    BY DEF Init, SpoiltType
  <2> QED BY <2>1, <2>5, <2>7, <2>8, <2>9, <2>10 DEF ClientsInv, TableInv
<1>2. ClientsInv /\ [Next]_vars => ClientsInv'
  BY StepTable, StepValues, StepFlags, StepSpoilt DEF ClientsInv, ValueType
<1> QED BY <1>1, <1>2, PTL DEF Spec

\* Every variable keeps its type, whatever clients, lamps and modem do.
THEOREM ClientsTypeCorrect == Spec => []TypeOK
<1>1. ClientsInv => TypeOK
  BY DEF ClientsInv, ValueType, TableType, SpoiltType, Flags, TypeOK, Buffers, Addr
<1> QED BY <1>1, ClientsInvariance, PTL

\* Once the host has read what the modem wrote, its table names the clients
\* that are connected: but for a connection whose last line was overwritten half
\* read, or that such a line was taken to be about.
THEOREM ClientsTableIsTrue == Spec => []TableIsTrue
<1>1. ClientsInv => TableIsTrue
  <2> SUFFICES ASSUME ClientsInv, line = <<>>, ~cut, NEW s \in Slots \ lost
               PROVE  \/ Clients_sIP4addres[s] = modem.conn[s]
                      \/ /\ s = Server /\ redialled
                         /\ none \notin {Clients_sIP4addres[s], modem.conn[s]}
    BY DEF TableIsTrue
  <2>1. \A i \in 1 .. Len(line) : FALSE
    OBVIOUS
  <2>2. PICK tab : Stands(tab)
    BY DEF ClientsInv, TableInv
  <2>3. Matches(Clients_sIP4addres[s], modem.conn[s], redialled /\ s = Server)
    BY <2>1, <2>2 DEF Stands, True, Agrees
  <2> QED BY <2>3 DEF Matches
<1> QED BY <1>1, ClientsInvariance, PTL
-----------------------------------------------------------------------------
(* As long as nothing overlaps, one exchange is under way at a time.       *)

\* A text that does not belong to a request.
Plain(t) == t.what \notin {"receive", "first", "rest"}
Plains(l) == \A i \in 1 .. Len(l) : Plain(l[i])

\* The text that ends a message to number 7.
Sent7(t) == t.what = "send ok" /\ t.slot = Server
Sends7(l) == \E i \in 1 .. Len(l) : Sent7(l[i])

\* The server has been told.
Settled == psServerIP # none /\ ~data_to_server

\* A message fills the buffer.
Holds(m) == ipv6_buf[1] = m /\ ipv6_buf[2] = m

\* Nobody waits for an answer; the host may be calling the server back.
Idle ==
    /\ asked = none /\ radio = none /\ to_reciv = none /\ butes_reciv = none
    /\ Plains(line) /\ (Sends7(line) => Settled)
    /\ to_send \in {none, "hello"}
    /\ modem.prompt # none => modem.prompt = Server /\ to_send = "hello"
    /\ to_send = "hello" => Holds([kind |-> "hello", of |-> Server]) /\ Settled

\* The request of a client comes in, text by text.
Coming(s, k) ==
    /\ butes_reciv = none
    /\ LET m == [kind |-> k, of |-> s] IN
       \/ /\ line = <<Text("receive", s, k), Text("first", s, m), Text("rest", s, m)>>
          /\ to_reciv = none
       \/ /\ line = <<Text("first", s, m), Text("rest", s, m)>>
          /\ to_reciv = k /\ recived = 0 /\ client_number = s
       \/ /\ line = <<Text("rest", s, m)>>
          /\ to_reciv = k /\ recived = 1 /\ client_number = s /\ ipv6_buf[1] = m

\* It is in the buffer.
Come(s, k) ==
    /\ line = <<>> /\ to_reciv = none /\ butes_reciv = k /\ client_number = s
    /\ Holds([kind |-> k, of |-> s])

\* It has gone to the lamps, which answer.
AtLamps(s) ==
    /\ line = <<>> /\ to_reciv = none /\ butes_reciv = none /\ client_number = s
    /\ radio = [kind |-> "lamp", of |-> s]

\* The answer waits for the prompt, which has come.
Answering(s) ==
    /\ line = <<Text("prompt", s, none)>>
    /\ to_reciv = none /\ butes_reciv = none /\ radio = none
    /\ modem.prompt = s
    /\ to_send \in {"answer", "ack", "lamp"} /\ Holds([kind |-> to_send, of |-> s])

Requests == {"get", "register", "ipv6"}

\* Nothing has been sent to client s yet.
Pending(s) ==
    /\ modem.prompt = none /\ to_send = none /\ ~data_to_server
    /\ \/ AtLamps(s)
       \/ radio = none /\ \E k \in Requests : Coming(s, k) \/ Come(s, k)

Asking(s) ==
    /\ asked = s /\ modem.conn[s] # none /\ modem.dialing = none /\ ~to_close_client7
    /\ buffer_SIM900 # "spoilt"
    /\ Answering(s) \/ Pending(s)

WholeInv ==
    overlaps = 0 =>
        /\ WholeToAsker /\ ~modem.junk
        /\ to_close_client7 => Settled
        /\ Idle \/ \E s \in Clients : Asking(s)
-----------------------------------------------------------------------------
(* Texts that do not belong to a request.                                  *)

LEMMA PlainEnd ==
    ASSUME NEW l \in Seq(TextType), NEW t \in TextType
    PROVE  /\ Plains(l) /\ Plain(t) => Plains(l \o <<t>>)
           /\ Sends7(l \o <<t>>) => Sends7(l) \/ Sent7(t)
<1> DEFINE m == Append(l, t)
<1>1. /\ Len(l) \in Nat /\ Len(m) = Len(l) + 1
      /\ m[Len(l) + 1] = t /\ \A i \in 1 .. Len(l) : m[i] = l[i]
  OBVIOUS
<1>2. l \o <<t>> = m
  BY OneMore
<1> HIDE DEF m
<1>3. \A i \in 1 .. Len(m) : i = Len(l) + 1 \/ i \in 1 .. Len(l)
  BY <1>1
<1>4. Plains(l) /\ Plain(t) => Plains(m)
  BY <1>1, <1>3 DEF Plains
<1>5. Sends7(m) => Sends7(l) \/ Sent7(t)
  BY <1>1, <1>3 DEF Sends7
<1> QED BY <1>2, <1>4, <1>5

LEMMA PlainRest ==
    ASSUME NEW l \in Seq(TextType), l # <<>>
    PROVE  /\ Plains(l) => Plain(Head(l)) /\ Plains(Tail(l))
           /\ Sends7(Tail(l)) => Sends7(l)
           /\ Sent7(Head(l)) => Sends7(l)
<1> DEFINE m == Tail(l)
<1>1. /\ Len(l) \in Nat /\ Len(l) > 0 /\ Len(m) = Len(l) - 1
      /\ Head(l) = l[1] /\ \A i \in 1 .. Len(m) : m[i] = l[i + 1]
  OBVIOUS
<1> HIDE DEF m
<1>2. 1 \in 1 .. Len(l) /\ \A i \in 1 .. Len(m) : i + 1 \in 1 .. Len(l)
  BY <1>1
<1>3. Plains(l) => Plain(Head(l)) /\ Plains(m)
  BY <1>1, <1>2 DEF Plains
<1>4. (Sends7(m) => Sends7(l)) /\ (Sent7(Head(l)) => Sends7(l))
  BY <1>1, <1>2 DEF Sends7
<1> QED BY <1>3, <1>4 DEF m

LEMMA NoTexts == Plains(<<>>) /\ ~Sends7(<<>>)
  BY DEF Plains, Sends7

\* What has come when a client starts to ask, and what is left of it.
LEMMA ThreeTexts ==
    ASSUME NEW a, NEW b, NEW c
    PROVE  /\ Head(<<a, b, c>>) = a /\ Tail(<<a, b, c>>) = <<b, c>>
           /\ Head(<<b, c>>) = b /\ Tail(<<b, c>>) = <<c>>
           /\ Head(<<c>>) = c /\ Tail(<<c>>) = <<>>
           /\ <<a, b, c>> # <<>> /\ <<b, c>> # <<>> /\ <<c>> # <<>>
           /\ <<>> \o <<a, b, c>> = <<a, b, c>> /\ <<>> \o <<c>> = <<c>>
           /\ <<a, b, c>> \o <<>> = <<a, b, c>> /\ <<b, c>> \o <<>> = <<b, c>>
           /\ <<c>> \o <<>> = <<c>> /\ <<>> \o <<>> = <<>>
  OBVIOUS

-----------------------------------------------------------------------------
(* What is counted does not happen.                                        *)

LEMMA ComesQuiet ==
    ASSUME overlaps \in Nat, NEW disturbs, Comes(disturbs), overlaps' = 0
    PROVE  overlaps = 0 /\ ~disturbs /\ UNCHANGED delivered
<1>1. CASE disturbs
  <2>1. overlaps' = overlaps + 1
    BY <1>1, Zenon DEF Comes
  <2> QED BY <2>1
<1>2. CASE ~disturbs
  <2>1. UNCHANGED <<overlaps, delivered>>
    BY <1>2, Zenon DEF Comes
  <2> QED BY <1>2, <2>1
<1> QED BY <1>1, <1>2

LEMMA CountedNot ==
    ASSUME overlaps \in Nat, Comes(TRUE), overlaps' = 0
    PROVE  FALSE
<1>1. overlaps' = overlaps + 1
  BY Zenon DEF Comes
<1> QED BY <1>1

\* All that the exchange with a client is made of.
Exchange ==
    <<asked, delivered, client_number, recived, to_reciv, butes_reciv, to_send, ipv6_buf, radio,
      line, modem, psServerIP, data_to_server, to_close_client7, overlaps>>

LEMMA NotDisturbed ==
    ASSUME WholeInv, UNCHANGED Exchange, buffer_SIM900' = "spoilt" => buffer_SIM900 = "spoilt"
    PROVE  WholeInv'
<1> USE DEF Exchange
<1>1. Settled' = Settled
  BY DEF Settled
<1>2. Idle => Idle'
  BY <1>1 DEF Idle, Holds
<1>3. ASSUME NEW s \in Clients, Asking(s)
      PROVE  Asking(s)'
  <2>1. Answering(s) => Answering(s)'
    BY DEF Answering, Holds
  <2>2. AtLamps(s) => AtLamps(s)'
    BY DEF AtLamps
  <2>3. \A k \in Requests : (Coming(s, k) => Coming(s, k)') /\ (Come(s, k) => Come(s, k)')
    BY DEF Coming, Come, Holds
  <2>4. Pending(s) => Pending(s)'
    BY <2>2, <2>3 DEF Pending
  <2> QED BY <1>3, <2>1, <2>4 DEF Asking
<1>4. WholeToAsker => WholeToAsker'
  BY DEF WholeToAsker
<1> QED BY <1>1, <1>2, <1>3, <1>4 DEF WholeInv

WholeTypes == ValueType /\ TableType /\ SpoiltType /\ Flags \subseteq BOOLEAN

\* Who is asking is no idler.
LEMMA AskerKnown ==
    ASSUME NEW s \in Clients, Asking(s)
    PROVE  asked # none /\ s # Server /\ s \in Slots
  BY GprsClientsAssumption DEF Asking, Slots

\* Nothing is under way: the world may begin.
LEMMA NotBusy ==
    ASSUME WholeTypes, WholeInv, overlaps = 0, ~Busy
    PROVE  /\ Idle /\ line = <<>> /\ ~to_close_client7 /\ ~data_to_server
           /\ modem.prompt = none /\ modem.dialing = none /\ to_send = none
           /\ asked = none /\ radio = none /\ to_reciv = none /\ butes_reciv = none
<1>1. asked = none
  BY DEF Busy
<1>2. Idle
  BY <1>1, AskerKnown DEF WholeInv
<1> QED BY <1>2 DEF Busy, WholeInv, Settled
-----------------------------------------------------------------------------
(* The world begins something new.                                         *)

\* A text that belongs to no request is all that changes.
LEMMA StaysIdle ==
    ASSUME WholeTypes, WholeInv, overlaps = 0, Idle, NEW t \in TextType, Plain(t), ~Sent7(t),
           line' = line \o <<t>>, modem'.prompt = modem.prompt, modem'.junk = modem.junk,
           UNCHANGED <<asked, delivered, to_reciv, butes_reciv, to_send, ipv6_buf, radio,
                       psServerIP, data_to_server, to_close_client7>>
    PROVE  WholeInv'
<1>1. Settled' = Settled
  BY DEF Settled
<1>2. Plains(line') /\ (Sends7(line') => Sends7(line))
  BY PlainEnd DEF WholeTypes, TableType, Wire, Idle
<1>3. Idle'
  BY <1>1, <1>2 DEF Idle, Holds
<1>4. WholeToAsker'
  BY DEF WholeInv, WholeToAsker
<1> QED BY <1>1, <1>3, <1>4 DEF WholeInv

LEMMA WholeOpens ==
    ASSUME WholeTypes, WholeInv, NEW s \in Slots, NEW p \in PCs, ClientOpens(s, p), overlaps' = 0
    PROVE  WholeInv'
<1> DEFINE t == Text("remote", s, p)
<1>1. overlaps = 0 /\ ~Busy /\ UNCHANGED delivered
  BY ComesQuiet DEF ClientOpens, WholeTypes, ValueType
<1>2. Idle
  BY <1>1, NotBusy
<1>3. t \in TextType
  BY TextTyped DEF Told, Addr
<1>4. Plain(t) /\ ~Sent7(t)
  BY DEF Text, Plain, Sent7
<1>5. line' = line \o <<t>>
  BY DEF ClientOpens, Arrives
<1>6. modem \in ModemType /\ modem' = [modem EXCEPT !.conn[s] = p]
  BY DEF ClientOpens, WholeTypes, TableType, Wire
<1>7. modem'.prompt = modem.prompt /\ modem'.junk = modem.junk
  BY <1>6 DEF ModemType
<1>8. UNCHANGED <<asked, delivered, to_reciv, butes_reciv, to_send, ipv6_buf, radio,
                  psServerIP, data_to_server, to_close_client7>>
  BY <1>1 DEF ClientOpens, receiving, server
<1> QED BY <1>1, <1>2, <1>3, <1>4, <1>5, <1>7, <1>8, StaysIdle

LEMMA WholeCloses ==
    ASSUME WholeTypes, WholeInv, NEW s \in Slots, ClientCloses(s), overlaps' = 0
    PROVE  WholeInv'
<1> DEFINE t == Text("closed", s, none)
<1>1. overlaps = 0 /\ ~Busy /\ UNCHANGED delivered
  BY ComesQuiet DEF ClientCloses, WholeTypes, ValueType
<1>2. Idle
  BY <1>1, NotBusy
<1>3. t \in TextType
  BY TextTyped
<1>4. Plain(t) /\ ~Sent7(t)
  BY DEF Text, Plain, Sent7
<1>5. line' = line \o <<t>>
  BY DEF ClientCloses, Arrives
<1>6. modem \in ModemType /\ modem' = [modem EXCEPT !.conn[s] = none]
  BY DEF ClientCloses, WholeTypes, TableType, Wire
<1>7. modem'.prompt = modem.prompt /\ modem'.junk = modem.junk
  BY <1>6 DEF ModemType
<1>8. UNCHANGED <<asked, delivered, to_reciv, butes_reciv, to_send, ipv6_buf, radio,
                  psServerIP, data_to_server, to_close_client7>>
  BY <1>1 DEF ClientCloses, receiving, server
<1> QED BY <1>1, <1>2, <1>3, <1>4, <1>5, <1>7, <1>8, StaysIdle

\* Number 7 answers: only the host's own call can be under way.
LEMMA WholeDialled ==
    ASSUME WholeTypes, WholeInv, Dialled, overlaps' = 0
    PROVE  WholeInv'
<1> DEFINE t == Text("connect ok", Server, none)
<1>1. /\ modem.dialing # none
      /\ UNCHANGED <<asked, to_reciv, butes_reciv, to_send, ipv6_buf, radio,
                     psServerIP, data_to_server, to_close_client7>>
  BY DEF Dialled, receiving, server
<1>2. CASE Comes(TRUE)
  BY <1>2, CountedNot DEF WholeTypes, ValueType
<1>3. CASE /\ modem' = [modem EXCEPT !.dialing = none, !.conn[Server] = modem.dialing]
           /\ Arrives(<<t>>) /\ UNCHANGED <<overlaps, delivered>>
  <2>1. overlaps = 0
    BY <1>3
  <2>2. Idle
    BY <1>1, <2>1 DEF WholeInv, Asking
  <2>3. t \in TextType
    BY TextTyped, Names
  <2>4. Plain(t) /\ ~Sent7(t)
    BY DEF Text, Plain, Sent7
  <2>5. line' = line \o <<t>>
    BY <1>3 DEF Arrives
  <2>6. modem \in ModemType
    BY DEF WholeTypes, TableType, Wire
  <2>7. modem'.prompt = modem.prompt /\ modem'.junk = modem.junk
    BY <1>3, <2>6 DEF ModemType
  <2> QED BY <1>1, <1>3, <2>1, <2>2, <2>3, <2>4, <2>5, <2>7, StaysIdle
<1> QED BY <1>2, <1>3, Zenon DEF Dialled

\* A client asks while nothing is under way: its request is all there is.
LEMMA WholeSends ==
    ASSUME WholeTypes, WholeInv, NEW s \in Slots, NEW k \in Requests, ClientSends(s, k),
           overlaps' = 0
    PROVE  WholeInv'
<1>1. overlaps = 0 /\ ~(Busy \/ s = Server) /\ UNCHANGED delivered
  <2>1. overlaps \in Nat
    BY DEF WholeTypes, ValueType
  <2> QED BY <2>1, ComesQuiet, Zenon DEF ClientSends
<1>2. s \in Clients
  BY <1>1 DEF Slots
<1>3. /\ line = <<>> /\ ~to_close_client7 /\ ~data_to_server
      /\ modem.prompt = none /\ modem.dialing = none /\ to_send = none
      /\ radio = none /\ to_reciv = none /\ butes_reciv = none
  BY <1>1, NotBusy
<1>4. /\ modem.conn[s] # none /\ asked' = s /\ buffer_SIM900' = "empty"
      /\ UNCHANGED <<delivered, to_reciv, butes_reciv, to_send, radio, modem, psServerIP,
                     data_to_server, to_close_client7>>
  BY <1>1, <1>3 DEF ClientSends, receiving, server, WholeTypes, SpoiltType
<1> DEFINE m == [kind |-> k, of |-> s]
<1>5. line' = <<>> \o <<Text("receive", s, k), Text("first", s, m), Text("rest", s, m)>>
  BY <1>3, Zenon DEF ClientSends, Arrives
<1>6. line' = <<Text("receive", s, k), Text("first", s, m), Text("rest", s, m)>>
  BY <1>5, ThreeTexts
<1>7. Coming(s, k)'
  BY <1>3, <1>4, <1>6, Zenon DEF Coming
<1>8. Pending(s)'
  BY <1>3, <1>4, <1>7 DEF Pending
<1>9. Asking(s)'
  BY <1>3, <1>4, <1>8 DEF Asking
<1>10. WholeToAsker' /\ ~modem'.junk /\ ~to_close_client7'
  BY <1>1, <1>3, <1>4 DEF WholeInv, WholeToAsker
<1> QED BY <1>2, <1>9, <1>10 DEF WholeInv

LEMMA WholeRestarted ==
    ASSUME WholeTypes, WholeInv, Restarted, overlaps' = 0
    PROVE  WholeInv'
<1>1. overlaps = 0 /\ ~Busy /\ UNCHANGED delivered
  BY ComesQuiet DEF Restarted, WholeTypes, ValueType
<1>2. Idle /\ to_send = none /\ ~to_close_client7
  BY <1>1, NotBusy
<1>3. line' = <<>> /\ modem' = [conn |-> Nobody, dialing |-> none, prompt |-> none, junk |-> FALSE]
      /\ UNCHANGED <<asked, delivered, to_reciv, butes_reciv, to_send, ipv6_buf, radio,
                     psServerIP, data_to_server, to_close_client7>>
  BY <1>1 DEF Restarted, server
<1>4. modem'.prompt = none /\ modem'.junk = FALSE
  BY <1>3
<1>5. Plains(line') /\ ~Sends7(line')
  BY <1>3, NoTexts, Zenon
<1>6. to_send' # "hello"
  BY <1>2, <1>3, Names DEF Kinds
<1>7. Idle'
  BY <1>2, <1>3, <1>4, <1>5, <1>6, Zenon DEF Idle
<1>8. WholeToAsker'
  BY <1>1, <1>3 DEF WholeInv, WholeToAsker
<1>9. ~modem'.junk /\ ~to_close_client7'
  BY <1>2, <1>3, <1>4
<1> QED BY <1>7, <1>8, <1>9 DEF WholeInv

LEMMA WholeStatus ==
    ASSUME WholeTypes, WholeInv, StatusAsked \/ StatusKey, overlaps' = 0
    PROVE  WholeInv'
<1>1. overlaps = 0 /\ ~Busy /\ UNCHANGED delivered
  BY ComesQuiet DEF StatusAsked, StatusKey, WholeTypes, ValueType
<1>2. Idle /\ to_send = none /\ ~to_close_client7 /\ line = <<>> /\ modem.prompt = none
  BY <1>1, NotBusy
<1>3. /\ UNCHANGED <<asked, delivered, to_reciv, butes_reciv, to_send, ipv6_buf, radio, modem,
                     psServerIP, data_to_server, to_close_client7>>
      /\ StatusArrives
  <2>1. Takes(modem, Text("AT", Server, none)) = modem
    BY <1>2 DEF Takes, Text
  <2> QED BY <1>1, <1>2, <2>1 DEF StatusAsked, StatusKey, server
<1>4. PICK l \in Seq(TextType) :
          line' = line \o l /\ \A i \in 1 .. Len(l) : l[i].what = "status"
  <2>1. Wire
    BY DEF WholeTypes, TableType
  <2> QED BY <1>3, <2>1, StatusTexts
<1>5. line' = l
  BY <1>2, <1>4
<1>6. Plains(line') /\ ~Sends7(line')
  BY <1>4, <1>5 DEF Plains, Sends7, Plain, Sent7
<1>7. to_send' # "hello"
  BY <1>2, <1>3, Names DEF Kinds
<1>8. modem'.prompt = none /\ ~modem'.junk
  BY <1>1, <1>2, <1>3 DEF WholeInv
<1>9. Idle'
  BY <1>2, <1>3, <1>6, <1>7, <1>8, Zenon DEF Idle
<1>10. WholeToAsker'
  BY <1>1, <1>3 DEF WholeInv, WholeToAsker
<1> QED BY <1>2, <1>3, <1>8, <1>9, <1>10 DEF WholeInv

\* A command that nothing is in the way of changes nothing.
LEMMA WholeOther ==
    ASSUME WholeTypes, WholeInv, OtherCommand, overlaps' = 0
    PROVE  WholeInv'
<1>1. overlaps \in Nat
  BY DEF WholeTypes, ValueType
<1>2. overlaps = 0 /\ modem.prompt = none /\ UNCHANGED <<recived, buffer_SIM900, delivered>>
  <2>1. CASE /\ Comes(modem.prompt # none \/ recived # 0 \/ buffer_SIM900 # "empty")
             /\ SimRead(<<Text("AT", Server, none)>>)
    <3>1. overlaps = 0 /\ ~(modem.prompt # none \/ recived # 0 \/ buffer_SIM900 # "empty")
          /\ UNCHANGED delivered
      BY <1>1, <2>1, ComesQuiet, Zenon
    <3> QED BY <2>1, <3>1 DEF SimRead, Spoilt
  <2>2. CASE Comes(modem.prompt # none) /\ UNCHANGED <<recived, buffer_SIM900>>
    BY <1>1, <2>2, ComesQuiet, Zenon
  <2> QED BY <2>1, <2>2, Zenon DEF OtherCommand
<1>3. Takes(modem, Text("AT", Server, none)) = modem
  BY <1>2 DEF Takes, Text
<1>4. UNCHANGED Exchange
  BY <1>2, <1>3 DEF OtherCommand, server, Exchange
<1> QED BY <1>2, <1>4, NotDisturbed

LEMMA WholeWorld ==
    ASSUME WholeTypes, WholeInv, World, overlaps' = 0
    PROVE  WholeInv'
<1>1. ASSUME NEW s \in Slots, LampSends(s)
      PROVE  FALSE
  BY <1>1, CountedNot DEF LampSends, WholeTypes, ValueType
<1> QED BY <1>1, WholeOpens, WholeCloses, WholeDialled, WholeSends, WholeRestarted, WholeStatus,
           WholeOther
        DEF World, Requests
-----------------------------------------------------------------------------
(* main_loop.                                                              *)

\* What the host writes while the modem expects a command.
LEMMA OneCommand ==
    ASSUME WholeTypes, modem.prompt = none, Plains(line), NEW c, c.slot \in Slots,
           SimWrite(<<c>>)
    PROVE  /\ Plains(line') /\ (Sends7(line') => Sends7(line)) /\ modem'.junk = modem.junk
           /\ c.what # "CIPSEND" => modem'.prompt = none
           /\ c.what = "CIPSEND" => modem'.prompt \in {none, c.slot}
<1>1. line \in Seq(TextType) /\ modem \in ModemType
  BY DEF WholeTypes, TableType, Wire
<1>2. modem' = Takes(modem, c) /\ line' = line \o Writes(modem, c)
  BY <1>1, WriteOne, Zenon
<1>3. /\ modem'.junk = modem.junk /\ (c.what # "CIPSEND" => modem'.prompt = none)
      /\ c.what = "CIPSEND" => modem'.prompt \in {none, c.slot}
  BY <1>1, <1>2 DEF Takes, ModemType
<1>4. \/ Writes(modem, c) = <<>>
      \/ c.what = "CIPSEND" /\ modem.conn[c.slot] # none
            /\ Writes(modem, c) = <<Text("prompt", c.slot, none)>>
      \/ Writes(modem, c) = <<Text("close ok", Server, none)>>
  BY DEF Writes
<1>5. CASE Writes(modem, c) = <<>>
  <2>1. line' = line
    BY <1>1, <1>2, <1>5, EmptyEnd
  <2> QED BY <1>3, <2>1
<1>6. ASSUME NEW t \in TextType, Plain(t), ~Sent7(t), Writes(modem, c) = <<t>>
      PROVE  Plains(line') /\ (Sends7(line') => Sends7(line))
  <2>1. line' = line \o <<t>>
    BY <1>2, <1>6, Zenon
  <2> QED BY <1>1, <1>6, <2>1, PlainEnd
<1>7. CASE Writes(modem, c) = <<Text("prompt", c.slot, none)>>
  <2> DEFINE t == Text("prompt", c.slot, none)
  <2>1. t \in TextType
    BY TextTyped
  <2>2. Plain(t) /\ ~Sent7(t)
    BY DEF Text, Plain, Sent7
  <2> QED BY <1>3, <1>6, <1>7, <2>1, <2>2
<1>8. CASE Writes(modem, c) = <<Text("close ok", Server, none)>>
  <2> DEFINE t == Text("close ok", Server, none)
  <2>1. t \in TextType
    BY TextTyped, Names
  <2>2. Plain(t) /\ ~Sent7(t)
    BY DEF Text, Plain, Sent7
  <2> QED BY <1>3, <1>6, <1>8, <2>1, <2>2
<1> QED BY <1>4, <1>5, <1>7, <1>8

\* It sees to the connection to the server: between two exchanges.
LEMMA WholeServer ==
    ASSUME WholeTypes, WholeInv, ServerStep, overlaps' = 0
    PROVE  WholeInv'
<1>1. /\ overlaps = 0
      /\ UNCHANGED <<asked, delivered, to_reciv, butes_reciv, radio, overlaps, psServerIP>>
  BY DEF ServerStep, server, ghosts
<1>2. /\ data_to_server \in BOOLEAN /\ to_close_client7 \in BOOLEAN
  BY DEF WholeTypes, Flags
<1>3. WholeToAsker'
  BY <1>1 DEF WholeInv, WholeToAsker
<1> DEFINE close == Text("CIPCLOSE", Server, none)
           dial == Text("CIPSTART", Server, psServerIP)
           send == Text("CIPSEND", Server, none)
<1>4. /\ close.what # "CIPSEND" /\ close.slot \in Slots
      /\ dial.what # "CIPSEND" /\ dial.slot \in Slots
      /\ send.what = "CIPSEND" /\ send.slot = Server
  BY Names DEF Text
<1> HIDE DEF close, dial, send
<1>5. CASE ~ServerFree
  <2>1. UNCHANGED Exchange /\ UNCHANGED buffer_SIM900
    BY <1>1, <1>5, Zenon DEF ServerStep, ServerFree, server, Exchange
  <2> QED BY <2>1, NotDisturbed
\* What it does that is no message leaves a host that idles idle.
<1>6. ASSUME ServerFree, Idle, UNCHANGED <<data_to_server, ipv6_buf, to_send>>,
             to_close_client7' = FALSE, NEW cs, SimWrite(cs), cs \in {<<>>, <<close>>, <<dial>>}
      PROVE  WholeInv'
  <2>1. modem.prompt = none /\ to_send = none
    BY <1>6, Names DEF Idle, ServerFree, Kinds
  <2>2. Plains(line') /\ (Sends7(line') => Sends7(line)) /\ modem'.junk = modem.junk
        /\ modem'.prompt = none
    <3>1. CASE cs = <<>>
      <4>1. modem' = modem /\ line' = line
        BY <1>6, <3>1, WriteNone, Zenon
      <4> QED BY <1>6, <2>1, <4>1 DEF Idle
    <3>2. CASE cs = <<close>>
      <4>1. SimWrite(<<close>>)
        BY <1>6, <3>2, Zenon
      <4> QED BY <1>4, <1>6, <2>1, <4>1, OneCommand DEF Idle
    <3>3. CASE cs = <<dial>>
      <4>1. SimWrite(<<dial>>)
        BY <1>6, <3>3, Zenon
      <4> QED BY <1>4, <1>6, <2>1, <4>1, OneCommand DEF Idle
    <3> QED BY <1>6, <3>1, <3>2, <3>3, Zenon
  <2>3. Settled' = Settled
    BY <1>1, <1>6 DEF Settled
  <2>4. to_send' # "hello"
    BY <1>6, <2>1, Names DEF Kinds
  <2>5. Idle'
    BY <1>1, <1>6, <2>1, <2>2, <2>3, <2>4 DEF Idle
  <2> QED BY <1>1, <1>3, <1>6, <2>2, <2>5 DEF WholeInv
<1>7. ASSUME ServerFree, NEW s \in Clients, Asking(s)
      PROVE  Pending(s) /\ ~data_to_server /\ ~to_close_client7
  <2>1. ~Answering(s)
    BY <1>7, Names DEF Answering, ServerFree, Kinds
  <2> QED BY <1>7, <2>1 DEF Asking, Pending
<1>8. CASE ServerFree /\ ~data_to_server /\ SimWrite(CloseCommands) /\ SimRead(CloseCommands)
           /\ to_close_client7' = FALSE /\ UNCHANGED <<data_to_server, client_number, ipv6_buf, to_send>>
  <2>1. CASE ~to_close_client7
    <3>1. CloseCommands = <<>>
      BY <2>1 DEF CloseCommands
    <3>2. SimWrite(<<>>) /\ UNCHANGED <<recived, buffer_SIM900>>
      BY <1>8, <3>1, Zenon DEF SimRead
    <3>3. UNCHANGED <<modem, line>>
      BY <3>2, WriteNone
    <3>4. UNCHANGED to_close_client7
      <4>1. to_close_client7 = FALSE
        BY <1>2, <2>1
      <4> QED BY <1>8, <4>1
    <3>5. UNCHANGED Exchange
      BY <1>1, <1>8, <3>2, <3>3, <3>4, Zenon DEF Exchange
    <3> QED BY <3>2, <3>5, NotDisturbed
  <2>2. CASE to_close_client7
    <3>1. Idle
      BY <1>1, <1>7, <1>8, <2>2 DEF WholeInv
    <3>2. CloseCommands = <<close>>
      BY <2>2 DEF CloseCommands, close
    <3>3. CloseCommands \in {<<>>, <<close>>, <<dial>>}
      BY <3>2, Zenon
    <3> QED BY <1>6, <1>8, <3>1, <3>3
  <2> QED BY <2>1, <2>2
<1>9. ASSUME ServerFree, data_to_server
      PROVE  Idle /\ CloseCommands = <<>>
  <2>1. ~to_close_client7
    BY <1>1, <1>9 DEF WholeInv, Settled
  <2> QED BY <1>1, <1>7, <1>9, <2>1 DEF WholeInv, CloseCommands
<1>10. CASE ServerFree /\ data_to_server /\ SimWrite(ConnectCommands \o CloseCommands)
            /\ to_close_client7' = FALSE /\ UNCHANGED <<data_to_server, ipv6_buf, to_send>>
  <2>1. ConnectCommands \in {<<>>, <<close>>, <<dial>>}
    BY DEF ConnectCommands, close, dial
  <2>2. ConnectCommands \o <<>> = ConnectCommands
    <3>1. <<close>> \o <<>> = <<close>> /\ <<dial>> \o <<>> = <<dial>> /\ <<>> \o <<>> = <<>>
      OBVIOUS
    <3> QED BY <2>1, <3>1, Zenon
  <2>3. Idle /\ SimWrite(ConnectCommands)
    BY <1>9, <1>10, <2>2, Zenon
  <2> QED BY <1>6, <1>10, <2>1, <2>3
<1>11. CASE /\ ServerFree /\ data_to_server /\ data_to_server' = FALSE /\ to_close_client7' = FALSE
            /\ ipv6_buf' = <<[kind |-> "hello", of |-> Server], [kind |-> "hello", of |-> Server]>>
            /\ to_send' = "hello" /\ SimWrite(<<send>> \o CloseCommands)
  <2>1. <<send>> \o <<>> = <<send>>
    OBVIOUS
  <2>2. Idle /\ SimWrite(<<send>>)
    BY <1>9, <1>11, <2>1, Zenon
  <2>3. modem.prompt = none
    BY <1>11, <2>2, Names DEF Idle, ServerFree, Kinds
  <2>4. Plains(line') /\ modem'.junk = modem.junk /\ modem'.prompt \in {none, Server}
    BY <1>4, <2>2, <2>3, OneCommand, Names DEF Idle
  <2>5. Settled'
    BY <1>1, <1>11 DEF Settled, ServerFree
  <2>6. Holds([kind |-> "hello", of |-> Server])'
    BY <1>11 DEF Holds
  <2>7. Idle'
    BY <1>1, <1>11, <2>2, <2>4, <2>5, <2>6, Zenon DEF Idle
  <2> QED BY <1>1, <1>3, <1>11, <2>4, <2>7 DEF WholeInv
<1>12. CASE /\ ServerFree /\ ~data_to_server
            /\ SimWrite(CloseCommands) /\ SimRead(CloseCommands) /\ to_close_client7' = FALSE
            /\ UNCHANGED <<data_to_server, to_open, to_close, psServerIP, call,
                           client_number, ipv6_buf, to_send>>
  BY <1>8, <1>12
<1>13. CASE /\ ServerFree /\ data_to_server /\ psServerIP # Clients_sIP4addres[Server]
            /\ SimWrite(ConnectCommands \o CloseCommands) /\ to_close_client7' = FALSE
            /\ UNCHANGED <<data_to_server, psServerIP, client_number, ipv6_buf, to_send>>
  BY <1>10, <1>13
<1> QED BY <1>5, <1>11, <1>12, <1>13, Zenon DEF ServerStep, send

\* A text is read while nobody asks.
LEMMA WholeReadIdle ==
    ASSUME WholeTypes, WholeInv, ReadText, overlaps = 0, Idle
    PROVE  WholeInv'
<1> DEFINE t == Head(line)
           rest == Tail(line)
<1>1. /\ line \in Seq(TextType) /\ line # <<>> /\ modem \in ModemType
      /\ rest \in Seq(TextType) /\ t \in TextType
  BY DEF WholeTypes, TableType, Wire, ReadText
<1>2. /\ PacketPart(t) \/ TextSwallowed(t) \/ Prompt(t) \/ Line(t) \/ SpoiltLine(t)
      /\ line' = rest \o Replies(t)
      /\ UNCHANGED <<data_to_server, psServerIP, radio, overlaps>>
  BY DEF ReadText
<1>3. Plain(t) /\ Plains(rest) /\ (Sends7(rest) => Settled) /\ (Sent7(t) => Settled)
  BY <1>1, PlainRest DEF Idle
<1> HIDE DEF t, rest
<1>4. Settled' = Settled
  BY <1>2 DEF Settled
<1>5. WholeToAsker /\ ~modem.junk /\ (to_close_client7 => Settled)
  BY DEF WholeInv
<1>6. ~PacketPart(t) /\ ~TextSwallowed(t)
  BY <1>3 DEF PacketPart, TextSwallowed, Plain, Idle
<1>7. CASE Line(t) \/ SpoiltLine(t)
  <2>1. Replies(t) = <<>>
    BY <1>7 DEF Line, SpoiltLine, Replies
  <2>2. line' = rest
    BY <1>1, <1>2, <2>1, EmptyEnd
  <2>3. /\ UNCHANGED <<ipv6_buf, butes_reciv, to_send, modem, delivered, asked>>
        /\ t.what # "receive" => UNCHANGED to_reciv
        /\ to_close_client7' => to_close_client7 \/ Sent7(t)
    <3>1. CASE Line(t)
      BY <3>1 DEF Line, Sent7
    <3>2. CASE SpoiltLine(t)
      BY <3>2 DEF SpoiltLine
    <3> QED BY <1>7, <3>1, <3>2
  <2>4. t.what # "receive"
    BY <1>3 DEF Plain
  <2>5. Idle'
    BY <1>2, <1>3, <1>4, <2>2, <2>3, <2>4 DEF Idle, Holds
  <2>6. WholeToAsker'
    BY <1>5, <2>3 DEF WholeToAsker
  <2> QED BY <1>3, <1>4, <1>5, <2>3, <2>5, <2>6 DEF WholeInv
<1>8. CASE Prompt(t) /\ to_send # none /\ modem.prompt # none
  <2>1. modem.prompt = Server /\ to_send = "hello" /\ Settled
        /\ Holds([kind |-> "hello", of |-> Server])
    BY <1>8 DEF Idle
  <2>2. t.what = "prompt"
    BY <1>8 DEF Prompt
  <2>3. Replies(t) = <<Text("send ok", Server, none)>>
    BY <1>8, <2>1, <2>2 DEF Replies
  <2>4. Text("send ok", Server, none) \in TextType
    BY TextTyped, Names
  <2>5. Plain(Text("send ok", Server, none))
    BY DEF Text, Plain
  <2>6. line' = rest \o <<Text("send ok", Server, none)>>
    BY <1>2, <2>3, Zenon
  <2>7. Plains(line')
    BY <1>1, <1>3, <2>4, <2>5, <2>6, PlainEnd
  <2>8. /\ delivered' = [to |-> modem.prompt, ip |-> modem.conn[modem.prompt],
                         size |-> to_send, buf |-> ipv6_buf, junk |-> modem.junk]
        /\ modem' = [modem EXCEPT !.prompt = none, !.junk = FALSE]
        /\ asked' = IF asked = modem.prompt THEN none ELSE asked
        /\ to_send' = none
        /\ UNCHANGED <<ipv6_buf, to_reciv, butes_reciv, to_close_client7>>
    BY <1>8 DEF Prompt
  <2>9. modem'.prompt = none /\ modem'.junk = FALSE
    BY <1>1, <2>8 DEF ModemType
  <2>10. asked' = none
    BY <2>8 DEF Idle
  <2>11. to_send' # "hello"
    BY <2>8, Names DEF Kinds
  <2>12. Idle'
    BY <1>2, <1>4, <2>1, <2>7, <2>8, <2>9, <2>10, <2>11 DEF Idle
  <2>13. WholeToAsker'
    BY <1>5, <2>1, <2>8 DEF WholeToAsker, Holds
  <2> QED BY <1>4, <1>5, <2>8, <2>9, <2>12, <2>13 DEF WholeInv
<1>9. CASE Prompt(t) /\ ~(to_send # none /\ modem.prompt # none)
  <2>1. Replies(t) = <<>>
    BY <1>9 DEF Replies
  <2>2. line' = rest
    BY <1>1, <1>2, <2>1, EmptyEnd
  <2>3. /\ UNCHANGED <<ipv6_buf, to_reciv, butes_reciv, modem, delivered, asked, to_close_client7>>
        /\ to_send' = none
    BY <1>9 DEF Prompt
  <2>4. to_send' # "hello" /\ modem.prompt = none
    BY <1>9, <2>3, Names DEF Kinds, Idle
  <2>5. Idle'
    BY <1>2, <1>3, <1>4, <2>2, <2>3, <2>4 DEF Idle
  <2>6. WholeToAsker'
    BY <1>5, <2>3 DEF WholeToAsker
  <2> QED BY <1>4, <1>5, <2>3, <2>5, <2>6 DEF WholeInv
<1> QED BY <1>2, <1>6, <1>7, <1>8, <1>9

\* A text of an exchange is read: its request comes, or its answer goes.
LEMMA WholeReadAsking ==
    ASSUME WholeTypes, WholeInv, ReadText, overlaps = 0, NEW s \in Clients, Asking(s)
    PROVE  WholeInv'
<1> DEFINE t == Head(line)
<1>1. /\ PacketPart(t) \/ TextSwallowed(t) \/ Prompt(t) \/ Line(t) \/ SpoiltLine(t)
      /\ line' = Tail(line) \o Replies(t) /\ line # <<>> /\ buffer_SIM900' = "empty"
      /\ UNCHANGED <<data_to_server, psServerIP, radio, overlaps>>
  BY DEF ReadText
<1>2. modem \in ModemType /\ s # none /\ s # Server /\ s \in Slots
  BY AskerKnown, Names DEF WholeTypes, TableType, Wire
<1>3. WholeToAsker /\ ~modem.junk
  BY DEF WholeInv
<1>4. /\ asked = s /\ modem.conn[s] # none /\ modem.dialing = none /\ ~to_close_client7
      /\ ~SpoiltLine(t)
  BY DEF Asking, SpoiltLine
\* The last text of the exchange: the prompt.
<1>5. CASE Answering(s)
  <2>1. t = Text("prompt", s, none) /\ Tail(line) = <<>>
    BY <1>5, ThreeTexts DEF Answering
  <2>2. t.what = "prompt"
    BY <2>1, TextIs
  <2>3. modem.prompt = s /\ to_send # none /\ to_reciv = none
    BY <1>5, Names DEF Answering, Kinds
  <2>4. Replies(t) = <<Text("send ok", s, none)>>
    BY <1>2, <2>2, <2>3 DEF Replies
  <2> HIDE DEF t
  <2>5. line' = <<Text("send ok", s, none)>>
    <3>1. line' = <<>> \o <<Text("send ok", s, none)>>
      BY <1>1, <2>1, <2>4, Zenon
    <3> QED BY <3>1, ThreeTexts
  <2>6. Prompt(t)
    BY <1>1, <1>4, <2>2, <2>3 DEF PacketPart, TextSwallowed, Line
  <2>7. /\ delivered' = [to |-> s, ip |-> modem.conn[s],
                         size |-> to_send, buf |-> ipv6_buf, junk |-> modem.junk]
        /\ modem' = [modem EXCEPT !.prompt = none, !.junk = FALSE]
        /\ asked' = none /\ to_send' = none
        /\ UNCHANGED <<ipv6_buf, to_reciv, butes_reciv, to_close_client7>>
    BY <1>2, <1>4, <2>3, <2>6 DEF Prompt
  <2>8. modem'.prompt = none /\ modem'.junk = FALSE
    BY <1>2, <2>7 DEF ModemType
  <2>9. Plains(line') /\ ~Sends7(line')
    <3>1. Plain(Text("send ok", s, none)) /\ ~Sent7(Text("send ok", s, none))
      BY <1>2 DEF Text, Plain, Sent7
    <3>2. Text("send ok", s, none) \in TextType
      BY <1>2, TextTyped
    <3>3. <<>> \in Seq(TextType)
      OBVIOUS
    <3>4. line' = <<>> \o <<Text("send ok", s, none)>>
      BY <2>5, ThreeTexts
    <3> QED BY <3>1, <3>2, <3>3, <3>4, PlainEnd, NoTexts
  <2>10. to_send' # "hello"
    BY <2>7, Names DEF Kinds
  <2>11. Idle'
    BY <1>1, <1>5, <2>7, <2>8, <2>9, <2>10 DEF Idle, Answering
  <2>12. WholeToAsker'
    BY <1>3, <1>5, <2>7 DEF WholeToAsker, Holds, Answering
  <2> QED BY <1>4, <2>7, <2>8, <2>11, <2>12 DEF WholeInv
\* The texts of the request.
<1>6. ASSUME Pending(s), NEW k \in Requests, Coming(s, k), radio = none
      PROVE  WholeInv'
  <2> DEFINE m == [kind |-> k, of |-> s]
             a == Text("receive", s, k)
             b == Text("first", s, m)
             c == Text("rest", s, m)
             Same == UNCHANGED <<asked, delivered, to_send, modem, to_close_client7>>
  <2>1. /\ a.what = "receive" /\ a.slot = s /\ a.arg = k
        /\ b.what = "first" /\ b.arg = m /\ c.what = "rest" /\ c.arg = m
    BY DEF Text
  <2>2. k # none /\ k \in Kinds
    BY Names DEF Requests, Kinds
  <2> HIDE DEF a, b, c
  <2>3. \/ line = <<a, b, c>> /\ to_reciv = none
        \/ line = <<b, c>> /\ to_reciv = k /\ recived = 0 /\ client_number = s
        \/ line = <<c>> /\ to_reciv = k /\ recived = 1 /\ client_number = s /\ ipv6_buf[1] = m
    BY <1>6, Zenon DEF Coming, a, b, c
  <2>4. butes_reciv = none
    BY <1>6 DEF Coming
  <2>5. ASSUME Same, (Coming(s, k) \/ Come(s, k))'
        PROVE  WholeInv'
    <3>1. Pending(s)'
      BY <1>1, <1>6, <2>5 DEF Pending
    <3>2. Asking(s)'
      BY <1>1, <1>4, <2>5, <3>1 DEF Asking
    <3>3. WholeToAsker' /\ ~modem'.junk /\ ~to_close_client7'
      BY <1>3, <1>4, <2>5 DEF WholeToAsker
    <3> QED BY <3>2, <3>3 DEF WholeInv
  <2>6. CASE line = <<a, b, c>> /\ to_reciv = none
    <3>1. t = a /\ Tail(line) = <<b, c>>
      BY <2>6, ThreeTexts
    <3> HIDE DEF t
    <3>2. Line(t) /\ Replies(t) = <<>>
      BY <1>1, <1>4, <2>1, <2>6, <3>1 DEF PacketPart, TextSwallowed, Prompt, Replies
    <3>3. line' = <<b, c>>
      <4>1. line' = <<b, c>> \o <<>>
        BY <1>1, <3>1, <3>2, Zenon
      <4> QED BY <4>1, ThreeTexts
    <3>4. /\ to_reciv' = k /\ recived' = 0 /\ client_number' = s /\ UNCHANGED butes_reciv
          /\ UNCHANGED <<asked, delivered, to_send, modem>>
      BY <2>1, <3>1, <3>2 DEF Line
    <3>5. UNCHANGED to_close_client7
      <4>1. to_close_client7 = FALSE
        BY <1>4 DEF WholeTypes, Flags
      <4>2. t.what # "send ok"
        BY <2>1, <3>1
      <4>3. to_close_client7' = (to_close_client7 \/ (t.what = "send ok" /\ t.slot = Server))
        BY <3>2 DEF Line
      <4> QED BY <4>1, <4>2, <4>3
    <3>6. Coming(s, k)'
      BY <2>4, <3>3, <3>4, Zenon DEF Coming, b, c
    <3> QED BY <2>5, <3>4, <3>5, <3>6
  <2>7. CASE line = <<b, c>> /\ to_reciv = k /\ recived = 0 /\ client_number = s
    <3>1. t = b /\ Tail(line) = <<c>>
      BY <2>7, ThreeTexts
    <3> HIDE DEF t
    <3>2. PacketPart(t) /\ Replies(t) = <<>>
      BY <1>1, <1>4, <2>1, <2>7, <3>1 DEF TextSwallowed, Prompt, Line, Replies
    <3>3. line' = <<c>>
      <4>1. line' = <<c>> \o <<>>
        BY <1>1, <3>1, <3>2, Zenon
      <4> QED BY <4>1, ThreeTexts
    <3>4. /\ UNCHANGED <<to_reciv, butes_reciv, client_number>> /\ Same /\ recived' = 1
          /\ ipv6_buf' = [ipv6_buf EXCEPT ![1] = m]
      BY <2>1, <2>2, <2>7, <3>1, <3>2 DEF PacketPart
    <3>5. ipv6_buf'[1] = m
      BY <3>4 DEF WholeTypes, ValueType, Buffers
    <3>6. Coming(s, k)'
      BY <2>4, <2>7, <3>3, <3>4, <3>5, Zenon DEF Coming, c
    <3> QED BY <2>5, <3>4, <3>6
  <2>8. CASE line = <<c>> /\ to_reciv = k /\ recived = 1 /\ client_number = s /\ ipv6_buf[1] = m
    <3>1. t = c /\ Tail(line) = <<>>
      BY <2>8, ThreeTexts
    <3> HIDE DEF t
    <3>2. PacketPart(t) /\ Replies(t) = <<>>
      BY <1>1, <1>4, <2>1, <2>8, <3>1 DEF TextSwallowed, Prompt, Line, Replies
    <3>3. line' = <<>>
      <4>1. line' = <<>> \o <<>>
        BY <1>1, <3>1, <3>2, Zenon
      <4> QED BY <4>1, ThreeTexts
    <3>4. /\ to_reciv' = none /\ butes_reciv' = k /\ UNCHANGED client_number /\ Same
          /\ ipv6_buf' = [ipv6_buf EXCEPT ![2] = m]
      BY <2>1, <2>2, <2>8, <3>1, <3>2 DEF PacketPart
    <3>5. ipv6_buf'[1] = m /\ ipv6_buf'[2] = m
      BY <2>8, <3>4 DEF WholeTypes, ValueType, Buffers
    <3>6. Come(s, k)'
      BY <2>8, <3>3, <3>4, <3>5, Zenon DEF Come, Holds
    <3> QED BY <2>5, <3>4, <3>6
  <2> QED BY <2>3, <2>6, <2>7, <2>8
<1> QED BY <1>1, <1>5, <1>6 DEF Asking, Pending, AtLamps, Come

LEMMA WholeRead ==
    ASSUME WholeTypes, WholeInv, ReadText, overlaps' = 0
    PROVE  WholeInv'
<1>1. overlaps = 0
  BY DEF ReadText
<1> QED BY <1>1, WholeReadIdle, WholeReadAsking DEF WholeInv

\* The answer is put into the buffer and the modem asked to send it: the modem
\* has a connection to the asker, so its prompt comes.
LEMMA Answers ==
    ASSUME WholeTypes, WholeInv, overlaps = 0, overlaps' = 0, NEW s \in Clients, Asking(s),
           Pending(s), line = <<>>, to_reciv = none,
           NEW k \in {"answer", "ack", "lamp"}, SendPacage([kind |-> k, of |-> s], s),
           radio' = none, butes_reciv' = none,
           UNCHANGED <<asked, delivered, to_reciv, to_close_client7>>
    PROVE  WholeInv'
<1> DEFINE m == [kind |-> k, of |-> s]
           send == Text("CIPSEND", s, none)
<1>1. send.what = "CIPSEND" /\ send.slot = s
  BY DEF Text
<1> HIDE DEF send
<1>2. m.kind = k
  OBVIOUS
<1>3. ipv6_buf' = <<m, m>> /\ to_send' = k /\ SimWrite(<<send>>)
  BY <1>2 DEF SendPacage, send
<1>4. modem \in ModemType /\ modem.prompt = none /\ modem.conn[s] # none /\ modem.dialing = none
  BY DEF WholeTypes, TableType, Wire, Asking, Pending
<1>5. modem' = Takes(modem, send) /\ line' = line \o Writes(modem, send)
  BY <1>3, WriteOne, Zenon
<1>6. modem' = [modem EXCEPT !.prompt = s]
  BY <1>1, <1>4, <1>5 DEF Takes
<1>7. /\ modem'.prompt = s /\ modem'.junk = modem.junk /\ modem'.conn = modem.conn
      /\ modem'.dialing = modem.dialing
  BY <1>4, <1>6 DEF ModemType
<1>8. Writes(modem, send) = <<Text("prompt", s, none)>>
  BY <1>1, <1>4 DEF Writes
<1>9. line' = <<Text("prompt", s, none)>>
  <2>1. line' = <<>> \o <<Text("prompt", s, none)>>
    BY <1>5, <1>8, Zenon
  <2> QED BY <2>1, ThreeTexts
<1>10. Holds(m)'
  BY <1>3 DEF Holds
<1>11. Answering(s)'
  BY <1>3, <1>7, <1>9, <1>10, Zenon DEF Answering
<1>12. Asking(s)'
  <2>1. buffer_SIM900' # "spoilt"
    BY DEF SendPacage, Spoilt, WholeTypes, SpoiltType
  <2> QED BY <1>4, <1>7, <1>11, <2>1 DEF Asking
<1>13. WholeToAsker' /\ ~modem'.junk /\ ~to_close_client7'
  BY <1>7 DEF WholeInv, WholeToAsker, Asking
<1> QED BY <1>12, <1>13 DEF WholeInv

\* The answer of the lamps goes to whoever was last heard: to the asker.
LEMMA WholeJennic ==
    ASSUME WholeTypes, WholeInv, JennicPacket, overlaps' = 0
    PROVE  WholeInv'
<1>1. /\ UNCHANGED <<Clients_sIP4addres, client_number, recived, to_reciv, butes_reciv, psServerIP,
                     data_to_server, to_close_client7, asked, delivered, overlaps>>
  BY DEF JennicPacket, receiving, server, ghosts
<1>2. CASE UNCHANGED <<ipv6_buf, buffer_SIM900, to_send, modem, line, radio>>
  <2>1. UNCHANGED Exchange
    BY <1>1, <1>2, Zenon DEF Exchange
  <2> QED BY <1>2, <2>1, NotDisturbed
<1>3. CASE radio # none /\ SendPacage(radio, client_number) /\ radio' = none
  <2>1. PICK s \in Clients : Asking(s)
    BY <1>1, <1>3 DEF WholeInv, Idle
  <2>2. Pending(s) /\ AtLamps(s)
    BY <1>3, <2>1 DEF Asking, Answering, Pending
  <2>3. /\ radio = [kind |-> "lamp", of |-> s] /\ client_number = s /\ line = <<>>
        /\ to_reciv = none /\ butes_reciv = none
    BY <2>2, Zenon DEF AtLamps
  <2>4. SendPacage([kind |-> "lamp", of |-> s], s)
    BY <1>3, <2>3, Zenon
  <2>5. overlaps = 0 /\ butes_reciv' = none
    BY <1>1, <2>3
  <2> QED BY <1>1, <1>3, <2>1, <2>2, <2>3, <2>4, <2>5, Answers
<1> QED BY <1>2, <1>3 DEF JennicPacket

\* A request that has come is answered, or goes to the lamps.
LEMMA WholeTun ==
    ASSUME WholeTypes, WholeInv, eTunDeviceReadPacket, overlaps' = 0
    PROVE  WholeInv'
<1>1. /\ butes_reciv' = none
      /\ UNCHANGED <<Clients_sIP4addres, client_number, recived, to_reciv,
                     to_close_client7, asked, delivered, overlaps>>
  BY DEF eTunDeviceReadPacket, ghosts
<1>2. overlaps = 0
  BY <1>1
<1>3. CASE butes_reciv = none
  <2>1. UNCHANGED <<ipv6_buf, buffer_SIM900, to_send, modem, line, radio, psServerIP,
                    data_to_server>>
    BY <1>3, Names DEF eTunDeviceReadPacket, Kinds
  <2>2. UNCHANGED butes_reciv
    BY <1>1, <1>3
  <2>3. UNCHANGED Exchange
    BY <1>1, <2>1, <2>2, Zenon DEF Exchange
  <2> QED BY <2>1, <2>3, NotDisturbed
<1>4. CASE butes_reciv # none
  <2>1. PICK s \in Clients : Asking(s)
    BY <1>2, <1>4 DEF WholeInv, Idle
  <2>2. PICK k \in Requests : Pending(s) /\ radio = none /\ Come(s, k)
    BY <1>4, <2>1 DEF Asking, Answering, Pending, AtLamps, Coming
  <2> DEFINE m == [kind |-> k, of |-> s]
  <2>3. /\ line = <<>> /\ to_reciv = none /\ butes_reciv = k /\ client_number = s
        /\ ipv6_buf[1] = m /\ ipv6_buf[2] = m
    BY <2>2, Zenon DEF Come, Holds
  <2>4. m.kind = k /\ m.of = s
    OBVIOUS
  <2>5. m # none
    <3>1. m \in Messages
      BY <2>1, AskerKnown DEF Messages, Kinds, Requests
    <3> QED BY <3>1, Names
  <2> HIDE DEF m
  <2>6. ~BadLength /\ \A kind : Answer(kind) = [kind |-> kind, of |-> s]
    BY <2>3, <2>4, <2>5 DEF BadLength, Answer, Request
  <2>7. CASE butes_reciv = "ipv6"
    <3>1. /\ radio' = [kind |-> "lamp", of |-> s]
          /\ UNCHANGED <<ipv6_buf, buffer_SIM900, to_send, modem, line, psServerIP,
                         data_to_server>>
      <4>1. Answer("lamp") = [kind |-> "lamp", of |-> s]
        BY <2>6
      <4>2. /\ radio' = Answer("lamp")
            /\ UNCHANGED <<ipv6_buf, buffer_SIM900, to_send, modem, line, psServerIP,
                           data_to_server>>
        BY <1>4, <2>6, <2>7 DEF eTunDeviceReadPacket
      <4> QED BY <4>1, <4>2
    <3>2. AtLamps(s)'
      BY <1>1, <2>3, <3>1, Zenon DEF AtLamps
    <3>3. Pending(s)'
      BY <2>2, <3>1, <3>2 DEF Pending
    <3>4. Asking(s)'
      BY <1>1, <2>1, <3>1, <3>3 DEF Asking
    <3>5. WholeToAsker' /\ ~modem'.junk /\ ~to_close_client7'
      BY <1>1, <1>2, <2>1, <3>1 DEF WholeInv, WholeToAsker, Asking
    <3> QED BY <3>4, <3>5 DEF WholeInv
  <2>8. ASSUME NEW kind \in {"answer", "ack"}, SendPacage(Answer(kind), client_number),
               UNCHANGED radio
        PROVE  WholeInv'
    <3>1. SendPacage([kind |-> kind, of |-> s], s)
      BY <2>3, <2>6, <2>8, Zenon
    <3>2. radio' = none
      BY <2>2, <2>8
    <3> QED BY <1>1, <1>2, <2>1, <2>2, <2>3, <3>1, <3>2, Answers
  <2> QED BY <1>4, <2>6, <2>7, <2>8 DEF eTunDeviceReadPacket
<1> QED BY <1>3, <1>4

LEMMA WholeStep ==
    ASSUME WholeTypes, WholeInv, [Next]_vars
    PROVE  WholeInv'
<1> SUFFICES ASSUME overlaps' = 0
             PROVE  WholeInv'
  BY DEF WholeInv
<1>1. CASE ReadEnough \/ UNCHANGED vars
  <2>1. UNCHANGED Exchange
    BY <1>1, Zenon DEF ReadEnough, vars, receiving, server, ghosts, Exchange
  <2>2. buffer_SIM900' = "spoilt" => buffer_SIM900 = "spoilt"
    BY <1>1 DEF ReadEnough, vars, receiving
  <2> QED BY <2>1, <2>2, NotDisturbed
<1> QED BY <1>1, WholeServer, WholeRead, WholeJennic, WholeTun, WholeWorld DEF Next, Program

\* As long as nothing overlaps what is under way, what goes out is one whole
\* message of its own length, with no command in it, to the connection it is
\* meant for.
THEOREM ClientsWholeToAsker == Spec => []WholeToAsker
<1>1. Init => WholeInv
  <2> SUFFICES ASSUME Init PROVE WholeInv
    OBVIOUS
  <2>1. /\ asked = none /\ radio = none /\ to_reciv = none /\ butes_reciv = none
        /\ to_send = none /\ delivered = none /\ ~to_close_client7 /\ line = <<>>
        /\ modem = [conn |-> Nobody, dialing |-> none, prompt |-> none, junk |-> FALSE]
    BY DEF Init
  <2>2. modem.prompt = none /\ modem.junk = FALSE
    BY <2>1
  <2>3. Plains(line) /\ ~Sends7(line)
    BY <2>1, NoTexts, Zenon
  <2>4. to_send # "hello"
    BY <2>1, Names DEF Kinds
  <2>5. Idle
    BY <2>1, <2>2, <2>3, <2>4, Zenon DEF Idle
  <2> QED BY <2>1, <2>2, <2>5 DEF WholeInv, WholeToAsker
<1>2. ClientsInv /\ WholeInv /\ [Next]_vars => WholeInv'
  BY WholeStep DEF ClientsInv, WholeTypes
<1>3. WholeInv => WholeToAsker
  BY DEF WholeInv, WholeToAsker
<1> QED BY <1>1, <1>2, <1>3, ClientsInvariance, PTL DEF Spec
=============================================================================
