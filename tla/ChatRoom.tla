------------------------------ MODULE ChatRoom ------------------------------
(***************************************************************************)
(* The messages of one chat room, as its members write and see them.       *)
(* Sending is three requests, each made by the callback of the one before: *)
(* read the sender's name, write the message, write lastMessage; the text  *)
(* field is read again at every step.  Reading is an observer that is      *)
(* started beside the read that tells from when on messages are shown.     *)
(* Each visit has a screen of its own; what an earlier screen has under    *)
(* way goes on behind it.                                                  *)
(***************************************************************************)
EXTENDS Integers, Sequences, FiniteSets

CONSTANTS User,         (* students of the room                             *)
          Text,         (* texts one can type                               *)
          Blank,        (* the empty text                                   *)
          Regimes,      (* sets of what may happen besides one send at a    *)
                        (* time, one of which a behaviour keeps to          *)
          MaxSends,     (* bound: messages sent, by regime                  *)
          MaxVisits     (* bound: how often the room is opened, likewise    *)

(***************************************************************************)
(*   typing    the text may change, and "send" be tapped again, while a    *)
(*             message is on its way                                       *)
(*   together  several students may have a message on its way              *)
(*   errors    a request may end in an error instead of an answer          *)
(***************************************************************************)
ASSUME ChatRoomAssumption ==
    /\ Blank \notin Text
    /\ Regimes \subseteq SUBSET {"typing", "together", "errors"}
    /\ MaxSends \in [Regimes -> Nat] /\ MaxVisits \in [Regimes -> Nat]

VARIABLES
    regime,    (* what may happen in this behaviour; never changes          *)
    log,       (* Realtime DB: group/<post>/messages, in order              *)
    last,      (* Realtime DB: group/<post>/lastMessage                     *)
    entered,   (* Realtime DB: user/<uid>/groups/<post>, the time he joined,*)
               (* as the number of messages before it; -1 before            *)
    open,      (* students with the room on their screen                    *)
    since,     (* enterenceTimestemp: 0 until the read is answered          *)
    asking,    (* students whose read of it is not answered                 *)
    heard,     (* messages that the observer of this visit has delivered    *)
    shown,     (* messages on a student's screen, by their place in log     *)
    field,     (* the text fields of his visits, the present one last       *)
    enabled,   (* whether his send button is enabled                        *)
    queue,     (* his requests to the Realtime DB, first in first out       *)
    sent,      (* history: the texts he saw when he tapped "send"           *)
    crashed    (* history: students whose list scrolled to row -1           *)

server == <<log, last, entered>>
view   == <<since, asking, heard, shown>>
input  == <<field, enabled>>
vars   == <<regime, server, open, view, input, queue, sent, crashed>>

AnyText == Text \cup {Blank}
Message == [by : User, text : AnyText]
Request == [op : {"name", "message", "lastMessage"}, text : AnyText,
            visit : Nat]

(* Every variable has the type of the field or document it stands for.     *)
TypeOK ==
    /\ regime \in Regimes /\ log \in Seq(Message) /\ last \in AnyText
    /\ entered \in [User -> Nat \cup {-1}]
    /\ open \subseteq User /\ asking \subseteq User /\ crashed \subseteq User
    /\ since \in [User -> Nat] /\ heard \in [User -> Nat]
    /\ shown \in [User -> Seq(Nat)]
    /\ field \in [User -> Seq(AnyText)] /\ enabled \in [User -> BOOLEAN]
    /\ queue \in [User -> Seq(Request)]
    /\ sent \in [User -> Seq(AnyText)]

Init ==
    /\ regime \in Regimes /\ log = <<>> /\ last = Blank
    /\ entered = [u \in User |-> -1]
    /\ open = {} /\ asking = {} /\ crashed = {}
    /\ since = [u \in User |-> 0] /\ heard = [u \in User |-> 0]
    /\ shown = [u \in User |-> <<>>]
    /\ field = [u \in User |-> <<>>] /\ enabled = [u \in User |-> FALSE]
    /\ queue = [u \in User |-> <<>>]
    /\ sent = [u \in User |-> <<>>]

Busy(u)  == queue[u] # <<>>
Visit(u) == Len(field[u])
Total(f) == Cardinality(UNION {{u} \X DOMAIN f[u] : u \in User})

(* A message of this screen is on its way.                                 *)
Sending(u) == \E i \in DOMAIN queue[u] : queue[u][i].visit = Visit(u)

Calm(u) ==
    /\ "typing" \in regime \/ ~Sending(u)
    /\ "together" \in regime \/ \A v \in User \ {u} : ~Busy(v)
-----------------------------------------------------------------------------
Participate(u) ==
    /\ entered[u] = -1
    /\ entered' = [entered EXCEPT ![u] = Len(log)]
    /\ UNCHANGED <<log, last, open, view, input, queue, sent, crashed>>

(* The room is opened from the chat list, on a new screen: fetchMessages   *)
(* asks for the time the student joined and starts the observer.           *)
OpenRoom(u) ==
    /\ entered[u] # -1 /\ u \notin open /\ u \notin crashed
    /\ Total(field) < MaxVisits[regime]
    /\ open' = open \cup {u} /\ asking' = asking \cup {u}
    /\ since' = [since EXCEPT ![u] = 0] /\ heard' = [heard EXCEPT ![u] = 0]
    /\ shown' = [shown EXCEPT ![u] = <<>>]
    /\ field' = [field EXCEPT ![u] = Append(@, Blank)]
    /\ enabled' = [enabled EXCEPT ![u] = FALSE]
    /\ UNCHANGED <<server, queue, sent, crashed>>

(* Back to the chat list.  Callbacks and observers keep the screen alive:  *)
(* the former run to their end, the latter fill a list nobody sees and,    *)
(* out of the navigation, do not scroll it.                                *)
CloseRoom(u) ==
    /\ u \in open
    /\ open' = open \ {u} /\ asking' = asking \ {u}
    /\ UNCHANGED <<server, since, heard, shown, input, queue, sent, crashed>>

(* Mutant: the second before the entrance counts as after it.              *)
AnswerEntranceEarly(u) ==
    /\ u \in asking
    /\ asking' = asking \ {u} /\ since' = [since EXCEPT ![u] = entered[u] - 1]
    /\ UNCHANGED <<server, open, heard, shown, input, queue, sent, crashed>>

AnswerEntrance(u) ==
    /\ u \in asking
    /\ asking' = asking \ {u} /\ since' = [since EXCEPT ![u] = entered[u]]
    /\ UNCHANGED <<server, open, heard, shown, input, queue, sent, crashed>>

(* The read fails: its callback returns, and the screen counts from the    *)
(* first message of the room on.                                           *)
FailEntrance(u) ==
    /\ "errors" \in regime /\ u \in asking
    /\ asking' = asking \ {u}
    /\ UNCHANGED <<server, open, since, heard, shown, input, queue, sent, crashed>>

(* Mutant: the first message after the entrance is left out.               *)
HearFromEntrance(u) ==
    LET next == heard[u] + 1
        list == IF next > since[u] + 1 THEN Append(shown[u], next) ELSE shown[u]
    IN
    /\ u \in open /\ heard[u] < Len(log)
    /\ heard' = [heard EXCEPT ![u] = next]
    /\ shown' = [shown EXCEPT ![u] = list]
    /\ UNCHANGED <<server, open, since, asking, input, queue, sent, crashed>>

(* The observer delivers the next message; an earlier one than the         *)
(* student's entrance, as far as known, is not shown.  The list scrolls to *)
(* its last row: with nothing shown that is row -1, and UIKit throws.      *)
Hear(u) ==
    LET next == heard[u] + 1
        list == IF next > since[u] THEN Append(shown[u], next) ELSE shown[u]
    IN
    /\ u \in open /\ heard[u] < Len(log)
    /\ heard' = [heard EXCEPT ![u] = next]
    /\ shown' = [shown EXCEPT ![u] = list]
    /\ \/ list # <<>> /\ UNCHANGED <<open, asking, queue, crashed>>
       \/ /\ list = <<>>
          /\ crashed' = crashed \cup {u}
          /\ open' = open \ {u} /\ asking' = asking \ {u}
          /\ queue' = [queue EXCEPT ![u] = <<>>]
    /\ UNCHANGED <<server, since, input, sent>>

(* A keystroke decides whether the button is enabled; clearing the field   *)
(* from the program does not.                                              *)
Type(u, t) ==
    /\ u \in open /\ ("typing" \in regime \/ ~Sending(u))
    /\ t # field[u][Visit(u)]
    /\ field' = [field EXCEPT ![u][Visit(u)] = t]
    /\ enabled' = [enabled EXCEPT ![u] = (t # Blank)]
    /\ UNCHANGED <<server, open, view, queue, sent, crashed>>
-----------------------------------------------------------------------------
Serves(u, op)  == Busy(u) /\ Head(queue[u]).op = op
Then(u, op, t) ==
    Append(Tail(queue[u]), [op |-> op, text |-> t, visit |-> Head(queue[u]).visit])

(* Mutant: the text is taken from the screen he sees now.                  *)
FieldOnScreen(u) == field[u][Visit(u)]

(* The text field of the screen that sends the message, and without text.  *)
Field(u)   == field[u][Head(queue[u]).visit]
Cleared(u) == [field EXCEPT ![u][Head(queue[u]).visit] = Blank]

AskName(u) ==
    /\ u \in open /\ enabled[u] /\ Calm(u) /\ Total(sent) < MaxSends[regime]
    /\ queue' = [queue EXCEPT ![u] =
           Append(@, [op |-> "name", text |-> Blank, visit |-> Visit(u)])]
    /\ sent' = [sent EXCEPT ![u] = Append(@, field[u][Visit(u)])]

(* Mutant: the field is cleared by the tap.                                *)
SendClearing(u) ==
    /\ AskName(u)
    /\ field' = [field EXCEPT ![u][Visit(u)] = Blank]
    /\ UNCHANGED <<server, open, view, enabled, crashed>>

Send(u) ==
    /\ AskName(u)
    /\ UNCHANGED <<server, open, view, input, crashed>>

(* Mutant: the callback returns without writing the message.               *)
AnswerNameDropping(u) ==
    /\ Serves(u, "name")
    /\ queue' = [queue EXCEPT ![u] = Tail(@)]
    /\ UNCHANGED <<server, open, view, input, sent, crashed>>

(* The name is known: the message takes the text of the field as it is now.*)
AnswerName(u) ==
    /\ Serves(u, "name")
    /\ queue' = [queue EXCEPT ![u] = Then(u, "message", Field(u))]
    /\ UNCHANGED <<server, open, view, input, sent, crashed>>

(* Mutant: the field is cleared before it is read for lastMessage.         *)
WriteMessageCleared(u) ==
    /\ Serves(u, "message")
    /\ log' = Append(log, [by |-> u, text |-> Head(queue[u]).text])
    /\ queue' = [queue EXCEPT ![u] = Then(u, "lastMessage", Blank)]
    /\ field' = Cleared(u)
    /\ UNCHANGED <<last, entered, open, view, enabled, sent, crashed>>

(* The message is written; its completion takes the text of the field once *)
(* more, for lastMessage, and clears it.                                   *)
WriteMessage(u) ==
    /\ Serves(u, "message")
    /\ log' = Append(log, [by |-> u, text |-> Head(queue[u]).text])
    /\ queue' = [queue EXCEPT ![u] = Then(u, "lastMessage", Field(u))]
    /\ field' = Cleared(u)
    /\ UNCHANGED <<last, entered, open, view, enabled, sent, crashed>>

WriteLast(u) ==
    /\ Serves(u, "lastMessage")
    /\ last' = Head(queue[u]).text
    /\ queue' = [queue EXCEPT ![u] = Tail(@)]
    /\ UNCHANGED <<log, entered, open, view, input, sent, crashed>>

(* A request fails: its callback returns, and lastMessage has none.  The   *)
(* message goes no further, and its text stays in the field.               *)
FailRequest(u) ==
    /\ "errors" \in regime /\ Busy(u)
    /\ queue' = [queue EXCEPT ![u] = Tail(@)]
    /\ UNCHANGED <<server, open, view, input, sent, crashed>>

Serve(u) == AnswerName(u) \/ WriteMessage(u) \/ WriteLast(u)

Step(u) ==
    \/ Participate(u) \/ OpenRoom(u) \/ CloseRoom(u) \/ AnswerEntrance(u) \/ Hear(u)
    \/ \E t \in AnyText : Type(u, t)
    \/ Send(u) \/ Serve(u) \/ FailEntrance(u) \/ FailRequest(u)

Next == \E u \in User : Step(u) /\ UNCHANGED regime

Spec == Init /\ [][Next]_vars
(* The Realtime DB serves every request, or refuses it under "errors".     *)
Fairness == \A u \in User : WF_vars(Serve(u) /\ UNCHANGED regime)
FairSpec == Spec /\ Fairness
-----------------------------------------------------------------------------
(* The messages of a student among the first n of the room.                *)
Own(u, n) == {i \in 1..n : log[i].by = u}

(* Every request is answered, and nobody types while his message is on its *)
(* way.                                                                    *)
Steady == regime \cap {"typing", "errors"} = {}

(* Without errors, and unless a student types on where his message is on   *)
(* its way: what reaches the room is what he had in his field when he      *)
(* tapped "send", each text once and in order, whatever the others do, and *)
(* if he leaves the room, comes back and sends the next one before the     *)
(* first has arrived.                                                      *)
SentAsTyped == Steady =>
    \A n \in DOMAIN log :
        LET u == log[n].by
            k == Cardinality(Own(u, n))
        IN  k <= Len(sent[u]) /\ log[n].text = sent[u][k]

(* With one sender at a time who waits, whenever nothing is on its way or  *)
(* was lost in a crash, the chat list's last message is the room's.        *)
LastIsLast == regime = {} =>
    ((\A u \in User : ~Busy(u)) /\ crashed = {} /\ log # <<>>
        => last = log[Len(log)].text)

(* The text field is read again in each of three callbacks, and still the  *)
(* room and the chat list hold what was in it at the tap on "send".        *)
TextSurvives == SentAsTyped /\ LastIsLast

(* Whatever the order of the answers, and if a read or a write fails: no   *)
(* message from after his entrance is withheld or repeated once the        *)
(* observer has delivered it.                                              *)
NothingWithheld ==
    \A u \in User \ crashed : entered[u] # -1 =>
        /\ \A i \in (entered[u] + 1)..heard[u] : \E j \in DOMAIN shown[u] : shown[u][j] = i
        /\ \A i, j \in DOMAIN shown[u] : i < j => shown[u][i] < shown[u][j]

(* Every tap on "send" puts a message in the room, unless a request fails  *)
(* or the app crashes, and whatever is typed, sent, left or reopened       *)
(* meanwhile.                                                              *)
SendNumber == UNION {1..MaxSends[r] : r \in Regimes}
EverySendArrives ==
    \A u \in User : \A n \in SendNumber :
        ("errors" \notin regime /\ Len(sent[u]) >= n)
            ~> (Cardinality(Own(u, Len(log))) >= n \/ u \in crashed)
=============================================================================
