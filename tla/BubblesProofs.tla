---------------------------- MODULE BubblesProofs ----------------------------
(***************************************************************************)
(* The layout of a conversation of any length.  It is stable: a message    *)
(* that arrives changes none of the rows above the last, and no name, for  *)
(* what a row looks like depends on its two neighbours, and a message is   *)
(* put between the last row and the empty message behind it.  And it is    *)
(* readable: the first row of a burst shows the name, the last row of a    *)
(* burst's minute the time, and no other row of them does.                 *)
(***************************************************************************)
EXTENDS Bubbles, TLAPS, FiniteSetTheorems, WellFoundedInduction

(* The list is made of messages and ends with the empty one, alone.        *)
Closed ==
    /\ messages \in Seq(Message) /\ messages # <<>> /\ now \in Nat
    /\ \A i \in DOMAIN messages : (messages[i].by = Nobody) <=> (i = Len(messages))

Sender == {Me, System} \cup Other

(* What a step does to the list.                                           *)
Inserted(m) ==
    /\ Len(messages') = Len(messages) + 1
    /\ \A i \in 1..(Len(messages) - 1) : messages'[i] = messages[i]
    /\ messages'[Len(messages)] = m
    /\ messages'[Len(messages) + 1] = messages[Len(messages)]

LEMMA Joined ==
    \A a, b \in Seq(Message) :
        /\ a \o b \in Seq(Message) /\ Len(a \o b) = Len(a) + Len(b)
        /\ \A i \in 1..Len(a) : (a \o b)[i] = a[i]
        /\ \A i \in 1..Len(b) : (a \o b)[Len(a) + i] = b[i]
  OBVIOUS

LEMMA InsertPlaces ==
    ASSUME messages \in Seq(Message), messages # <<>>, NEW m \in Message, Insert(m)
    PROVE  messages' \in Seq(Message) /\ Inserted(m)
<1> DEFINE n == Len(messages)
<1>1. n \in Nat /\ n >= 1 /\ DOMAIN messages = 1..n
  OBVIOUS
<1>2. messages' = SubSeq(messages, 1, n - 1) \o <<m>> \o SubSeq(messages, n, n)
  BY DEF Insert, InsertAt
<1>3. /\ SubSeq(messages, 1, n - 1) \in Seq(Message)
      /\ Len(SubSeq(messages, 1, n - 1)) = n - 1
      /\ \A i \in 1..(n - 1) : SubSeq(messages, 1, n - 1)[i] = messages[i]
  BY <1>1
<1>4. /\ SubSeq(messages, n, n) \in Seq(Message)
      /\ Len(SubSeq(messages, n, n)) = 1
      /\ SubSeq(messages, n, n)[1] = messages[n]
  BY <1>1
<1> DEFINE p == SubSeq(messages, 1, n - 1)  q == SubSeq(messages, n, n)
           r == p \o <<m>>
<1>5. p \in Seq(Message) /\ Len(p) = n - 1 /\ q \in Seq(Message) /\ Len(q) = 1
      /\ messages' = r \o q
  BY <1>2, <1>3, <1>4
<1> HIDE DEF n, p, q
<1>6. /\ r \in Seq(Message) /\ Len(r) = n /\ r[n] = m
      /\ \A i \in 1..(n - 1) : r[i] = p[i]
  BY <1>1, <1>5
<1> HIDE DEF r
<1>7. /\ messages' \in Seq(Message) /\ Len(messages') = n + 1
      /\ \A i \in 1..n : messages'[i] = r[i]
      /\ messages'[n + 1] = q[1]
  <2>1. Len(r) = n /\ Len(q) = 1 /\ n \in Nat
    BY <1>1, <1>5, <1>6
  <2>2. /\ r \o q \in Seq(Message) /\ Len(r \o q) = Len(r) + Len(q)
        /\ \A i \in 1..Len(r) : (r \o q)[i] = r[i]
        /\ \A i \in 1..Len(q) : (r \o q)[Len(r) + i] = q[i]
    <3>1. r \in Seq(Message) /\ q \in Seq(Message)
      BY <1>5, <1>6
    <3> QED
      BY <3>1, Joined, Zenon
  <2> QED
    BY <1>5, <2>1, <2>2
<1>8. (\A i \in 1..(n - 1) : p[i] = messages[i]) /\ q[1] = messages[n]
  BY <1>3, <1>4 DEF p, q
<1> QED
  BY <1>1, <1>6, <1>7, <1>8 DEF Inserted, n

(* Every step inserts a message of somebody, or lets time pass.            *)
LEMMA StepInserts ==
    ASSUME Closed, Next
    PROVE  \/ messages' = messages /\ now' \in Nat
           \/ \E m \in Message : m.by \in Sender /\ Insert(m) /\ now' = now
<1>1. CASE MinutePasses
  BY <1>1 DEF MinutePasses, Closed
<1>2. CASE Announce
  <2>1. PICK t \in {"in", "out"} :
            Insert([by |-> System, text |-> t, time |-> now]) /\ now' = now
    BY <1>2 DEF Announce
  <2>2. [by |-> System, text |-> t, time |-> now] \in Message
    BY <2>1 DEF Message, Text, Closed
  <2> QED
    BY <2>1, <2>2 DEF Sender
<1>3. ASSUME NEW u \in {Me} \cup Other, Say(u)
      PROVE  \E m \in Message : m.by \in Sender /\ Insert(m) /\ now' = now
  <2>1. PICK t \in Text : Insert([by |-> u, text |-> t, time |-> now]) /\ now' = now
    BY <1>3 DEF Say, Text
  <2>2. [by |-> u, text |-> t, time |-> now] \in Message
    BY <2>1 DEF Message, Closed
  <2> QED
    BY <2>1, <2>2 DEF Sender
<1> QED
  BY <1>1, <1>2, <1>3 DEF Next

LEMMA InitClosed == Init => Closed
<1> SUFFICES ASSUME Init PROVE Closed
  OBVIOUS
<1>1. Empty \in Message /\ Empty.by = Nobody
  BY DEF Empty, Message, Text
<1>2. messages = <<Empty>> /\ now = 0
  BY DEF Init
<1> HIDE DEF Empty
<1> QED
  BY <1>1, <1>2 DEF Closed

LEMMA NextClosed == Closed /\ [Next]_vars => Closed'
<1> SUFFICES ASSUME Closed, [Next]_vars PROVE Closed'
  OBVIOUS
<1>1. CASE UNCHANGED vars
  BY <1>1 DEF vars, Closed
<1>2. CASE Next
  <2>1. CASE messages' = messages /\ now' \in Nat
    BY <2>1 DEF Closed
  <2>2. ASSUME NEW m \in Message, m.by \in Sender, Insert(m), now' = now PROVE Closed'
    <3>1. messages' \in Seq(Message) /\ Inserted(m)
      BY <2>2, InsertPlaces DEF Closed
    <3>2. m.by # Nobody
      BY <2>2, BubblesAssumption DEF Sender
    <3>5. Len(messages) \in Nat
      BY DEF Closed
    <3>3. DOMAIN messages' = 1..(Len(messages) + 1) /\ DOMAIN messages = 1..Len(messages)
          /\ Len(messages) \in Nat /\ Len(messages) >= 1
      BY <3>1 DEF Closed, Inserted
    <3>4. ASSUME NEW i \in DOMAIN messages'
          PROVE  (messages'[i].by = Nobody) <=> (i = Len(messages'))
      <4>1. CASE i \in 1..(Len(messages) - 1)
        BY <3>1, <3>3, <4>1 DEF Inserted, Closed
      <4>2. CASE i = Len(messages)
        <5>1. messages'[i] = m /\ Len(messages') = Len(messages) + 1
          BY <3>1, <4>2 DEF Inserted
        <5>2. Len(messages) # Len(messages) + 1
          BY <3>5
        <5> QED
          BY <3>2, <4>2, <5>1, <5>2
      <4>3. CASE i = Len(messages) + 1
        BY <3>1, <3>3, <4>3 DEF Inserted, Closed
      <4> QED
        BY <3>3, <3>4, <4>1, <4>2, <4>3
    <3> QED
      BY <2>2, <3>1, <3>3, <3>4 DEF Closed
  <2> QED
    BY <1>2, <2>1, <2>2, StepInserts
<1> QED
  BY <1>1, <1>2

(* A row above the last keeps its two neighbours, and with them its cell.  *)
LEMMA UpperRowsStay ==
    ASSUME Closed, NEW m \in Message, Insert(m), NEW i \in Rows, i < Len(messages) - 1
    PROVE  Cell(i)' = Cell(i)
<1>1. Inserted(m)
  BY InsertPlaces DEF Closed
<1>2. Len(messages) \in Nat /\ i \in 1..(Len(messages) - 2)
  BY DEF Closed, Rows
<1>3. /\ messages'[i] = messages[i] /\ messages'[i + 1] = messages[i + 1]
      /\ i > 1 => messages'[i - 1] = messages[i - 1]
  BY <1>1, <1>2 DEF Inserted
<1>4. ~LastRow(i) /\ ~LastRow(i)'
  BY <1>1, <1>2 DEF LastRow, Inserted
<1>5. /\ Mine(i)' = Mine(i) /\ Notice(i)' = Notice(i) /\ NoticeCell(i)' = NoticeCell(i)
      /\ GoesOn(i)' = GoesOn(i)
      /\ i > 1 => SameSender(i, i - 1)' = SameSender(i, i - 1)
  BY <1>3 DEF Mine, Notice, NoticeCell, GoesOn, SameSender, SameMinute, Label
<1>6. OwnCell(i)' = OwnCell(i) /\ OthersCell(i)' = OthersCell(i)
  BY <1>3, <1>5 DEF OwnCell, OthersCell
<1> QED
  BY <1>4, <1>5, <1>6 DEF Cell

(* The last row shows a name exactly if it did.                            *)
LEMMA LastNameStays ==
    ASSUME Closed, NEW m \in Message, Insert(m), NEW i \in Rows, i = Len(messages) - 1
    PROVE  (Cell(i) \in Named)' = (Cell(i) \in Named)
<1>1. Inserted(m)
  BY InsertPlaces DEF Closed
<1>2. Len(messages) \in Nat /\ i \in 1..(Len(messages) - 1)
  BY DEF Closed, Rows
<1>3. messages'[i] = messages[i] /\ (i > 1 => messages'[i - 1] = messages[i - 1])
  BY <1>1, <1>2 DEF Inserted
<1>4. LastRow(i) /\ ~LastRow(i)'
  BY <1>1, <1>2 DEF LastRow, Inserted
<1>5. /\ Mine(i)' = Mine(i) /\ Notice(i)' = Notice(i) /\ NoticeCell(i)' = NoticeCell(i)
      /\ i > 1 => SameSender(i, i - 1)' = SameSender(i, i - 1)
  BY <1>3 DEF Mine, Notice, NoticeCell, SameSender
<1> QED
  <2>1. CASE Notice(i)
    BY <1>5, <2>1 DEF Cell, Named
  <2>2. CASE ~Notice(i) /\ Mine(i)
    BY <1>4, <1>5, <2>2 DEF Cell, OnlyCell, LastCell, OwnCell, Named
  <2>3. CASE ~Notice(i) /\ ~Mine(i) /\ i = 1
    <3>1. Cell(i) = "rightTimeAndUser"
      BY <1>4, <2>3 DEF Cell, OnlyCell
    <3>2. Cell(i)' = OthersCell(i)'
      BY <1>4, <1>5, <2>3 DEF Cell
    <3>3. OthersCell(i)' \in Named
      BY <2>3 DEF OthersCell, Named
    <3> QED
      BY <3>1, <3>2, <3>3 DEF Named
  <2>4. CASE ~Notice(i) /\ ~Mine(i) /\ i > 1
    <3>1. Cell(i) = IF SameSender(i, i - 1) THEN "rightTime" ELSE "rightTimeAndUser"
      BY <1>4, <2>4 DEF Cell, LastCell
    <3>2. Cell(i)' = OthersCell(i)'
      BY <1>4, <1>5, <2>4 DEF Cell
    <3>3. CASE SameSender(i, i - 1)
      <4>1. OthersCell(i)' \in {"chat", "rightTime"}
        BY <1>5, <2>4, <3>3 DEF OthersCell
      <4> QED
        BY <3>1, <3>2, <3>3, <4>1 DEF Named
    <3>4. CASE ~SameSender(i, i - 1)
      <4>1. OthersCell(i)' \in Named
        BY <1>5, <2>4, <3>4 DEF OthersCell, Named
      <4> QED
        BY <3>1, <3>2, <3>4, <4>1 DEF Named
    <3> QED
      BY <3>3, <3>4
  <2> QED
    BY <1>2, <2>1, <2>2, <2>3, <2>4

(* A message that arrives changes no row that was there but the last, and  *)
(* no name: for any number of students and messages, and whatever they     *)
(* write, markers of announcements included.                               *)
THEOREM LayoutStable == Spec => OldRowsStay
<1> DEFINE Stay == \A i \in Rows :
          /\ i < Len(messages) - 1 => Cell(i)' = Cell(i)
          /\ (Cell(i) \in Named) = (Cell(i) \in Named)'
<1>1. Closed /\ [Next]_vars => [Stay]_vars
  <2> SUFFICES ASSUME Closed, Next PROVE Stay
    OBVIOUS
  <2>1. CASE messages' = messages
    <3> SUFFICES ASSUME NEW i \in Rows PROVE Cell(i)' = Cell(i)
      OBVIOUS
    <3> QED
      BY <2>1 DEF Cell, Notice, NoticeCell, LastRow, OnlyCell, Mine, OwnCell,
         OthersCell, LastCell, GoesOn, SameSender, SameMinute, Label
  <2>2. ASSUME NEW m \in Message, Insert(m) PROVE Stay
    <3> SUFFICES ASSUME NEW i \in Rows
                 PROVE  /\ i < Len(messages) - 1 => Cell(i)' = Cell(i)
                        /\ (Cell(i) \in Named) = (Cell(i) \in Named)'
      OBVIOUS
    <3>1. CASE i < Len(messages) - 1
      <4>1. Cell(i)' = Cell(i)
        BY <2>2, <3>1, UpperRowsStay
      <4> QED
        BY <4>1 DEF Named
    <3>2. CASE i = Len(messages) - 1
      BY <2>2, <3>2, LastNameStays DEF Rows, Closed
    <3>3. i < Len(messages) - 1 \/ i = Len(messages) - 1
      BY DEF Rows, Closed
    <3> QED
      BY <3>1, <3>2, <3>3
  <2> QED
    BY <2>1, <2>2, StepInserts
<1>2. Init => Closed
  BY InitClosed
<1>3. Closed /\ [Next]_vars => Closed'
  BY NextClosed
<1> QED
  BY <1>1, <1>2, <1>3, PTL DEF Spec, OldRowsStay
-----------------------------------------------------------------------------
(* A set of numbers has a least one and, below a bound, a greatest.        *)
LEMMA Least ==
    ASSUME NEW T \in SUBSET Nat, T # {}
    PROVE  \E n \in T : \A m \in T : n <= m
<1>1. PICK n \in T : \A m \in T : ~(<<m, n>> \in OpToRel(<, Nat))
  BY NatLessThanWellFounded, WFMin
<1>2. \A m \in T : ~(m < n)
  BY <1>1 DEF OpToRel
<1> QED
  BY <1>2

LEMMA Greatest ==
    ASSUME NEW N \in Nat, NEW T \in SUBSET (0..N), T # {}
    PROVE  \E n \in T : \A m \in T : m <= n
<1> DEFINE U == {u \in 0..N : N - u \in T}
<1>1. U \in SUBSET Nat /\ U # {}
  <2>1. PICK t \in T : TRUE
    OBVIOUS
  <2>2. N - t \in U
    BY <2>1
  <2> QED
    BY <2>2
<1>2. PICK u \in U : \A v \in U : u <= v
  <2> HIDE DEF U
  <2> QED
    BY <1>1, Least
<1>3. N - u \in T
  BY <1>2
<1>4. \A m \in T : m \in 0..N /\ N - m \in U
  OBVIOUS
<1>5. \A m \in T : m <= N - u
  BY <1>2, <1>4
<1> QED
  BY <1>3, <1>5

(* Unless students type markers, a message is a notice exactly if it is an *)
(* announcement of the system.                                             *)
Marked == ~markers => \A i \in Rows : Notice(i) <=> messages[i].by = System

LEMMA NextMarked == Closed /\ Marked /\ [Next]_vars => Marked'
<1> SUFFICES ASSUME Closed, Marked, [Next]_vars PROVE Marked'
  OBVIOUS
<1>1. CASE messages' = messages /\ markers' = markers
  BY <1>1 DEF Marked, Rows, Notice
<1>2. ASSUME NEW m \in Message, Insert(m), markers' = markers,
             ~markers => (m.text # "plain" <=> m.by = System)
      PROVE  Marked'
  <2>1. Inserted(m)
    BY <1>2, InsertPlaces DEF Closed
  <2>2. Len(messages) \in Nat /\ Rows = 1..(Len(messages) - 1) /\ Rows' = 1..Len(messages)
    BY <2>1 DEF Closed, Rows, Inserted
  <2>3. \A i \in Rows' : messages'[i] = m \/ (i \in Rows /\ messages'[i] = messages[i])
    BY <2>1, <2>2 DEF Inserted
  <2> QED
    BY <1>2, <2>3 DEF Marked, Notice
<1>3. CASE MinutePasses \/ UNCHANGED vars
  BY <1>1, <1>3 DEF MinutePasses, vars
<1>4. CASE Announce
  <2>1. PICK t \in {"in", "out"} :
            Insert([by |-> System, text |-> t, time |-> now]) /\ markers' = markers
    BY <1>4 DEF Announce
  <2> DEFINE m == [by |-> System, text |-> t, time |-> now]
  <2>2. m \in Message /\ m.text # "plain" /\ m.by = System
    BY <2>1 DEF Message, Text, Closed
  <2> HIDE DEF m
  <2> QED
    BY <1>2, <2>1, <2>2 DEF m
<1>5. ASSUME NEW u \in {Me} \cup Other, Say(u) PROVE Marked'
  <2>1. PICK t \in IF markers THEN Text ELSE {"plain"} :
            Insert([by |-> u, text |-> t, time |-> now]) /\ markers' = markers
    BY <1>5 DEF Say
  <2> DEFINE m == [by |-> u, text |-> t, time |-> now]
  <2>2. /\ m \in Message /\ m.by # System /\ (~markers => m.text = "plain")
    BY <2>1, BubblesAssumption DEF Message, Text, Closed
  <2> HIDE DEF m
  <2> QED
    BY <1>2, <2>1, <2>2 DEF m
<1> QED
  BY <1>3, <1>4, <1>5 DEF Next

(* Where the rows of a layout show a name.                                 *)
LEMMA WhereNamed ==
    ASSUME Closed, NEW i \in Rows, ~Notice(i)
    PROVE  Cell(i) \in Named <=> ~Mine(i) /\ ~(i > 1 /\ SameSender(i, i - 1))
<1>1. CASE Mine(i)
  BY <1>1 DEF Cell, OnlyCell, OwnCell, LastCell, Named
<1>2. CASE ~Mine(i)
  <2>1. i > 1 \/ i = 1
    BY DEF Rows, Closed
  <2>2. CASE ~LastRow(i)
    <3>1. Cell(i) = OthersCell(i)
      BY <1>2, <2>2 DEF Cell
    <3> QED
      BY <1>2, <3>1 DEF OthersCell, Named
  <2>3. CASE LastRow(i) /\ i = 1
    BY <1>2, <2>3 DEF Cell, OnlyCell, Named
  <2>4. CASE LastRow(i) /\ i > 1
    <3>1. Cell(i) = IF SameSender(i, i - 1) THEN "rightTime" ELSE "rightTimeAndUser"
      BY <1>2, <2>4 DEF Cell, LastCell
    <3> QED
      BY <1>2, <2>4, <3>1 DEF Named
  <2> QED
    BY <2>1, <2>2, <2>3, <2>4
<1> QED
  BY <1>1, <1>2

(* Where they show a time: at the last row, and where the next row does    *)
(* not go on.  A row that goes on shows none if the next is no notice.     *)
LEMMA WhereTimed ==
    ASSUME Closed, NEW i \in Rows, ~Notice(i)
    PROVE  /\ LastRow(i) \/ ~GoesOn(i) => Cell(i) \in Timed
           /\ ~LastRow(i) /\ GoesOn(i) /\ ~Notice(i + 1) => Cell(i) \notin Timed
<1>0. Len(messages) \in Nat /\ i \in 1..(Len(messages) - 1) /\ (i > 1 \/ i = 1)
  BY DEF Rows, Closed
<1>1. CASE Mine(i)
  BY <1>0, <1>1 DEF Cell, OnlyCell, OwnCell, LastCell, Timed
<1>2. CASE ~Mine(i) /\ ~LastRow(i)
  <2>1. Cell(i) = OthersCell(i)
    BY <1>2 DEF Cell
  <2> QED
    BY <1>2, <2>1 DEF OthersCell, Timed, Notice
<1>3. CASE ~Mine(i) /\ LastRow(i)
  BY <1>0, <1>3 DEF Cell, OnlyCell, LastCell, Timed
<1> QED
  BY <1>1, <1>2, <1>3

(* In every burst of another student the first row shows his name, and no  *)
(* other; one's own rows show none.                                        *)
LEMMA AlwaysAttributed ==
    ASSUME Closed, Marked
    PROVE  Attributed
<1> SUFFICES ASSUME ~markers, NEW i \in Rows, ~Notice(i)
             PROVE  Cardinality({k \in 1..i : Burst(k, i) /\ Cell(k) \in Named})
                        = IF Mine(i) THEN 0 ELSE 1
  BY DEF Attributed
<1> DEFINE S == {k \in 1..i : Burst(k, i) /\ Cell(k) \in Named}
           T == {k \in 1..i : Burst(k, i)}
<1>0. /\ Len(messages) \in Nat /\ Rows = 1..(Len(messages) - 1) /\ i \in Nat
      /\ \A k \in 1..i : k \in Rows /\ k \in Nat
  BY DEF Rows, Closed
<1>1. \A k \in T : /\ k \in Rows /\ k \in 1..i /\ ~Notice(k) /\ (Mine(k) <=> Mine(i))
                   /\ \A h \in k..i : SameSender(h, k)
  <2> SUFFICES ASSUME NEW k \in T
               PROVE  /\ k \in Rows /\ k \in 1..i /\ ~Notice(k) /\ (Mine(k) <=> Mine(i))
                      /\ \A h \in k..i : SameSender(h, k)
    OBVIOUS
  <2>1. k \in 1..i /\ \A h \in k..i : SameSender(h, k)
    BY DEF Burst
  <2>2. SameSender(i, k) /\ k \in Rows
    BY <1>0, <2>1
  <2> QED
    BY <2>1, <2>2 DEF SameSender, Mine, Marked
<1>2. CASE Mine(i)
  <2>1. \A k \in T : Cell(k) \notin Named
    BY <1>1, <1>2, WhereNamed
  <2>2. S = {}
    BY <2>1
  <2> QED
    BY <1>2, <2>2, FS_EmptySet
<1>3. CASE ~Mine(i)
  <2>1. i \in T
    BY <1>0 DEF Burst, SameSender
  <2>2. PICK b \in T : \A k \in T : b <= k
    <3>1. T \in SUBSET Nat /\ T # {}
      BY <1>0, <2>1
    <3> HIDE DEF T
    <3> QED
      BY <3>1, Least
  <2>3. b \in Rows /\ b \in 1..i /\ ~Notice(b) /\ ~Mine(b) /\ \A h \in b..i : SameSender(h, b)
    BY <1>1, <1>3, <2>2
  <2>4. ~(b > 1 /\ SameSender(b, b - 1))
    <3> SUFFICES ASSUME b > 1, SameSender(b, b - 1) PROVE FALSE
      OBVIOUS
    <3>1. b - 1 \in 1..i /\ \A h \in (b - 1)..i : h = b - 1 \/ h \in b..i
      BY <1>0, <2>3
    <3>2. \A h \in (b - 1)..i : SameSender(h, b - 1)
      BY <2>3, <3>1 DEF SameSender
    <3>3. b - 1 \in T
      BY <1>0, <3>1, <3>2 DEF Burst
    <3>4. b <= b - 1
      BY <2>2, <3>3
    <3> QED
      BY <1>0, <2>3, <3>4
  <2>5. Cell(b) \in Named
    BY <2>3, <2>4, WhereNamed
  <2>6. ASSUME NEW k \in T, k # b
        PROVE  Cell(k) \notin Named
    <3>1. b <= k /\ k \in 1..i /\ k \in Rows /\ ~Notice(k)
      BY <1>1, <2>2
    <3>2. k > 1 /\ k \in b..i /\ k - 1 \in b..i
      BY <1>0, <2>3, <2>6, <3>1
    <3>3. SameSender(k, k - 1)
      BY <2>3, <3>2 DEF SameSender
    <3> QED
      BY <3>1, <3>2, <3>3, WhereNamed
  <2>7. S = {b}
    BY <2>2, <2>5, <2>6
  <2> QED
    BY <1>3, <2>7, FS_Singleton
<1> QED
  BY <1>2, <1>3

(* In every run of one student's messages of one minute the last row shows *)
(* the time, and no other.                                                 *)
LEMMA AlwaysDated ==
    ASSUME Closed, Marked
    PROVE  Dated
<1> SUFFICES ASSUME ~markers, NEW i \in Rows, ~Notice(i)
             PROVE  Cardinality({k \in i..(Len(messages) - 1) :
                        /\ Burst(i, k) /\ \A h \in i..k : SameMinute(h, i)
                        /\ Cell(k) \in Timed}) = 1
  BY DEF Dated
<1> DEFINE n == Len(messages) - 1
           T == {k \in i..n : Burst(i, k) /\ \A h \in i..k : SameMinute(h, i)}
           S == {k \in i..n : /\ Burst(i, k) /\ \A h \in i..k : SameMinute(h, i)
                              /\ Cell(k) \in Timed}
<1>0. n \in Nat /\ n + 1 = Len(messages) /\ Rows = 1..n /\ i \in 1..n
  BY DEF Rows, Closed
<1> HIDE DEF n
<1>1. ASSUME NEW k \in T
      PROVE  /\ k \in i..n /\ k \in Rows /\ ~Notice(k)
             /\ \A h \in i..k : SameSender(h, i) /\ SameMinute(h, i) /\ ~Notice(h)
  <2>1. k \in i..n /\ k \in Rows /\ \A h \in i..k : SameSender(h, i) /\ SameMinute(h, i)
    BY <1>0 DEF Burst
  <2>2. \A h \in i..k : h \in Rows /\ ~Notice(h)
    BY <1>0, <2>1 DEF SameSender, Marked
  <2>3. k \in i..k
    BY <1>0, <2>1
  <2> QED
    BY <2>1, <2>2, <2>3
<1>2. i \in T
  BY <1>0 DEF Burst, SameSender, SameMinute
<1>3. PICK e \in T : \A k \in T : k <= e
  <2>1. T \in SUBSET (0..n) /\ T # {}
    BY <1>0, <1>2
  <2> HIDE DEF T
  <2> QED
    BY <1>0, <2>1, Greatest
<1>4. /\ e \in i..n /\ e \in Rows /\ ~Notice(e)
      /\ \A h \in i..e : SameSender(h, i) /\ SameMinute(h, i) /\ ~Notice(h)
  BY <1>1, <1>3
<1>5. LastRow(e) \/ ~GoesOn(e)
  <2> SUFFICES ASSUME ~LastRow(e), GoesOn(e) PROVE FALSE
    OBVIOUS
  <2>1. e + 1 \in i..n /\ \A h \in i..(e + 1) : h \in i..e \/ h = e + 1
    BY <1>0, <1>4 DEF LastRow
  <2>2. SameSender(e + 1, i) /\ SameMinute(e + 1, i)
    <3>1. SameSender(e, i) /\ SameMinute(e, i)
      BY <1>0, <1>4
    <3> QED
      BY <3>1 DEF GoesOn, SameSender, SameMinute
  <2>3. e + 1 \in T
    BY <1>0, <1>4, <2>1, <2>2 DEF Burst
  <2>4. e + 1 <= e
    BY <1>3, <2>3
  <2> QED
    BY <1>0, <1>4, <2>4
<1>6. Cell(e) \in Timed
  BY <1>4, <1>5, WhereTimed
<1>7. ASSUME NEW k \in T, k # e
      PROVE  Cell(k) \notin Timed
  <2>1. k <= e /\ k \in i..n /\ k \in Rows /\ ~Notice(k)
    BY <1>1, <1>3
  <2>2. k \in i..e /\ k + 1 \in i..e /\ ~LastRow(k)
    BY <1>0, <1>4, <1>7, <2>1 DEF LastRow
  <2>3. GoesOn(k) /\ ~Notice(k + 1)
    BY <1>4, <2>2 DEF GoesOn, SameSender, SameMinute
  <2> QED
    BY <2>1, <2>2, <2>3, WhereTimed
<1>8. S = {e}
  BY <1>3, <1>6, <1>7
<1> QED
  BY <1>8, FS_Singleton DEF n

LEMMA ConversationInvariant == Spec => [](Closed /\ Marked /\ markers \in BOOLEAN)
<1> DEFINE Inv == Closed /\ Marked /\ markers \in BOOLEAN
<1>1. Init => Inv
  <2>1. Init => Marked
    BY DEF Init, Marked, Rows
  <2>2. Init => markers \in BOOLEAN
    BY DEF Init
  <2> QED
    BY <2>1, <2>2, InitClosed
<1>2. Inv /\ [Next]_vars => Inv'
  <2>1. markers \in BOOLEAN /\ [Next]_vars => (markers \in BOOLEAN)'
    <3>1. [Next]_vars => markers' = markers
      BY DEF Next, MinutePasses, Announce, Say, vars
    <3> QED
      BY <3>1
  <2> QED
    BY <2>1, NextClosed, NextMarked
<1> QED
  BY <1>1, <1>2, PTL DEF Spec

(* The list is made of messages and ends with the one that has no row, and *)
(* cellForItemAt has an answer for every row.                              *)
THEOREM ConversationTypes == Spec => []TypeOK
<1>1. ASSUME Closed, markers \in BOOLEAN PROVE TypeOK
  <2>1. \A i \in Rows : Cell(i) \in Cells
    BY DEF Cell, NoticeCell, OnlyCell, OwnCell, OthersCell, LastCell, Cells
  <2> QED
    BY <1>1, <2>1, Zenon DEF Closed, TypeOK
<1> QED
  BY ConversationInvariant, <1>1, PTL

(* Whatever is said, by any number of students, in any number of messages  *)
(* and minutes, the reader can tell who wrote every message, and when.     *)
THEOREM AlwaysReadable == Spec => []Readable
<1>1. Closed /\ Marked => Readable
  BY AlwaysAttributed, AlwaysDated DEF Readable
<1> QED
  BY ConversationInvariant, <1>1, PTL
=============================================================================
