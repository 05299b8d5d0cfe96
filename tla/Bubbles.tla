------------------------------- MODULE Bubbles -------------------------------
(***************************************************************************)
(* How a chat room lays out its messages: which of six cells a message     *)
(* gets, by its place among its neighbours.  The list always ends with an  *)
(* empty message that has no row; row i of the screen is messages[i].      *)
(***************************************************************************)
EXTENDS Integers, Sequences, SequencesExt, FiniteSets

CONSTANTS Me,            (* the student whose screen it is                  *)
          Other,         (* the other students of the room                  *)
          System,        (* the sender of announcements                     *)
          Nobody,        (* the sender of the empty message                 *)
          Minutes,       (* times a label can tell apart: the minutes of a  *)
                         (* day                                             *)
          MaxMessages,   (* bound: messages of a conversation               *)
          MaxTime        (* bound: minutes a conversation takes             *)

ASSUME BubblesAssumption ==
    /\ Me \notin Other /\ {System, Nobody} \cap ({Me} \cup Other) = {}
    /\ System # Nobody
    /\ Minutes \in Nat \ {0} /\ MaxMessages \in Nat /\ MaxTime \in Nat

VARIABLES messages,   (* messages, the empty one included                   *)
          now,        (* the time of the next message, in minutes           *)
          markers     (* whether students type "/In/" or "/Out/" as text;   *)
                      (* never changes                                      *)

vars == <<messages, now, markers>>

(* Texts: an ordinary one, one that contains "/In/", one that contains     *)
(* "/Out/" among other letters, and "/Out/" by itself.                     *)
Text    == {"plain", "in", "out", "bareOut"}
Message == [by : {Me, System, Nobody} \cup Other, text : Text, time : Nat]
Empty   == [by |-> Nobody, text |-> "plain", time |-> 0]
Cells   == {"chat", "chatAndUser", "leftTime", "rightTime", "rightTimeAndUser",
            "entrance", "trap"}

Rows == 1..(Len(messages) - 1)

Init == messages = <<Empty>> /\ now = 0 /\ markers \in BOOLEAN
-----------------------------------------------------------------------------
(* The label of a time is its minute of the day.                           *)
Label(m) == m.time % Minutes

Mine(i)          == messages[i].by = Me
SameSender(i, j) == messages[i].by = messages[j].by
SameMinute(i, j) == Label(messages[i]) = Label(messages[j])

LastRow(i)       == i = Len(messages) - 1

(* The next row goes on with this one: same sender, same minute.           *)
GoesOn(i) == SameSender(i, i + 1) /\ SameMinute(i, i + 1)

(* An announcement loses its marker, "/In/" four letters and "/Out/" six:  *)
(* of "/Out/" by itself that is one too many.                              *)
Notice(i) == messages[i].text # "plain"
NoticeCell(i) == IF messages[i].text = "bareOut" THEN "trap" ELSE "entrance"

(* The only row of the screen.                                             *)
OnlyCell(i) == IF Mine(i) THEN "leftTime" ELSE "rightTimeAndUser"

(* One's own, with a row below it.                                         *)
OwnCell(i) == IF GoesOn(i) THEN "chat" ELSE "leftTime"

(* Mutants: the row below is compared for the name; when the sender is     *)
(* new, the time of a row that goes on is shown, and vice versa.           *)
OthersCellBelow(i) ==
    IF SameSender(i, i + 1)
    THEN IF GoesOn(i) /\ messages[i + 1].text \notin {"out", "bareOut"}
         THEN "chat" ELSE "rightTime"
    ELSE IF GoesOn(i) THEN "chatAndUser" ELSE "rightTimeAndUser"
OthersCellSwapped(i) ==
    IF i > 1 /\ SameSender(i, i - 1)
    THEN IF GoesOn(i) /\ messages[i + 1].text \notin {"out", "bareOut"}
         THEN "chat" ELSE "rightTime"
    ELSE IF GoesOn(i) THEN "rightTimeAndUser" ELSE "chatAndUser"

(* Another student's, with a row below it.                                 *)
OthersCell(i) ==
    IF i > 1 /\ SameSender(i, i - 1)
    THEN IF GoesOn(i) /\ messages[i + 1].text \notin {"out", "bareOut"}
         THEN "chat" ELSE "rightTime"
    ELSE IF GoesOn(i) THEN "chatAndUser" ELSE "rightTimeAndUser"

(* Mutant: the last row shows no name.                                     *)
LastCellNameless(i) == IF Mine(i) THEN "leftTime" ELSE "rightTime"

(* The last of several rows.                                               *)
LastCell(i) ==
    IF Mine(i) THEN "leftTime"
    ELSE IF SameSender(i, i - 1) THEN "rightTime" ELSE "rightTimeAndUser"

(* cellForItemAt, in the order of its guards and conditions.               *)
Cell(i) ==
    IF Notice(i) THEN NoticeCell(i)
    ELSE IF i = 1 /\ LastRow(i) THEN OnlyCell(i)
    ELSE IF ~LastRow(i) THEN (IF Mine(i) THEN OwnCell(i) ELSE OthersCell(i))
    ELSE LastCell(i)
-----------------------------------------------------------------------------
(* Mutant: a message is put behind the empty one.                                 *)
InsertBehind(m) == messages' = Append(messages, m)

(* A message arrives and is put before the empty one; all rows are laid    *)
(* out anew.                                                               *)
Insert(m) == messages' = InsertAt(messages, Len(messages), m)

More == Len(messages) <= MaxMessages

Say(u) ==
    /\ More
    /\ \E t \in IF markers THEN Text ELSE {"plain"} :
           Insert([by |-> u, text |-> t, time |-> now])
    /\ UNCHANGED <<now, markers>>

Announce ==
    /\ More
    /\ \E t \in {"in", "out"} : Insert([by |-> System, text |-> t, time |-> now])
    /\ UNCHANGED <<now, markers>>

MinutePasses ==
    /\ now < MaxTime
    /\ now' = now + 1
    /\ UNCHANGED <<messages, markers>>

Next == MinutePasses \/ Announce \/ \E u \in {Me} \cup Other : Say(u)

Spec == Init /\ [][Next]_vars
-----------------------------------------------------------------------------
Named == {"chatAndUser", "rightTimeAndUser"}
Timed == {"leftTime", "rightTime", "rightTimeAndUser"}

(* The list ends with the empty message, the only one without a row, and   *)
(* every row has a cell.                                                   *)
TypeOK ==
    /\ messages \in Seq(Message) /\ messages # <<>>
    /\ \A i \in DOMAIN messages : (messages[i].by = Nobody) <=> (i = Len(messages))
    /\ now \in Nat /\ markers \in BOOLEAN
    /\ \A i \in Rows : Cell(i) \in Cells

(* Rows from i to j that one student wrote without another in between.     *)
Burst(i, j) == i <= j /\ \A k \in i..j : SameSender(k, i)

(* The reader can tell who wrote what: every message of another student    *)
(* has, at or above it and with no other sender in between, exactly one    *)
(* row with his name; one's own have none.                                 *)
Attributed == ~markers =>
    \A i \in Rows : ~Notice(i) =>
        Cardinality({k \in 1..i : Burst(k, i) /\ Cell(k) \in Named})
            = IF Mine(i) THEN 0 ELSE 1

(* The reader can tell when: every message has, at or below it in the same *)
(* burst and minute, exactly one row with a time.                          *)
Dated == ~markers =>
    \A i \in Rows : ~Notice(i) =>
        Cardinality({k \in i..(Len(messages) - 1) :
            /\ Burst(i, k) /\ \A h \in i..k : SameMinute(h, i)
            /\ Cell(k) \in Timed}) = 1

(* A reader can tell who wrote every message, and when.                    *)
Readable == Attributed /\ Dated

(* A message that arrives changes no row that was there but the last, and  *)
(* of that at most its time.  (A student never types announcements.)       *)
OldRowsStay ==
    [][\A i \in Rows :
          /\ i < Len(messages) - 1 => Cell(i)' = Cell(i)
          /\ (Cell(i) \in Named) = (Cell(i) \in Named)']_vars
=============================================================================
