--------------------------- MODULE ChatRoomProofs ---------------------------
(***************************************************************************)
(* For any students, texts, messages and visits: in every regime the types *)
(* and that no message from after the entrance is withheld or shown twice; *)
(* where no request fails and nobody types on, that what is written in the *)
(* room are the texts that were in the fields at the taps on "send",       *)
(* although the field is read again in every callback.  The last one needs *)
(* what is on its way: a student's requests, in the order of their visits  *)
(* and stages, with the fields they will read, carry the texts he sent     *)
(* that the room does not hold yet (OnWay).                                *)
(***************************************************************************)
EXTENDS ChatRoom, TLAPS, SequenceTheorems, FiniteSetTheorems

(* What a screen has made of the messages its observer delivered: h of     *)
(* them, compared with s, for a student who entered behind message e.      *)
Shows(list, h, s, e) ==
    /\ s <= e \/ (e = -1 /\ s = 0)
    /\ e = -1 => h = 0
    /\ \A i \in 1..Len(list) : list[i] <= h
    /\ \A i, j \in 1..Len(list) : i < j => list[i] < list[j]
    /\ e # -1 => \A i \in (e + 1)..h : \E j \in 1..Len(list) : list[j] = i

(* Every request is of a visit, and an open room has one.                  *)
Visited(u) ==
    /\ u \in asking => u \in open
    /\ u \in open => entered[u] # -1 /\ Len(field[u]) >= 1
    /\ \A k \in 1..Len(queue[u]) : queue[u][k].visit \in 1..Len(field[u])

IInv ==
    /\ TypeOK
    /\ \A u \in User : Visited(u)
    /\ \A u \in User : Shows(shown[u], heard[u], since[u], entered[u])

(* A message that is delivered next keeps the list complete and in order.  *)
LEMMA HearsNext ==
    ASSUME NEW list \in Seq(Nat), NEW h \in Nat, NEW s \in Nat, NEW e \in Nat,
           Shows(list, h, s, e)
    PROVE  LET l == IF h + 1 > s THEN Append(list, h + 1) ELSE list
           IN l \in Seq(Nat) /\ Shows(l, h + 1, s, e)
<1>1. CASE h + 1 > s
  <2> DEFINE l == Append(list, h + 1)
  <2>1. /\ l \in Seq(Nat) /\ Len(l) = Len(list) + 1 /\ Len(list) \in Nat
        /\ l[Len(list) + 1] = h + 1
        /\ \A k \in 1..Len(list) : l[k] = list[k] /\ list[k] \in Nat
    <3>1. h + 1 \in Nat /\ Len(list) \in Nat /\ \A k \in 1..Len(list) : list[k] \in Nat
      OBVIOUS
    <3>2. /\ l \in Seq(Nat) /\ Len(l) = Len(list) + 1 /\ l[Len(list) + 1] = h + 1
          /\ \A k \in 1..Len(list) : l[k] = list[k]
      BY <3>1, AppendProperties
    <3> QED
      BY <3>1, <3>2
  <2> HIDE DEF l
  <2>2. \A i \in 1..Len(l) : l[i] <= h + 1
    <3>1. \A i \in 1..Len(l) : i \in 1..Len(list) \/ i = Len(list) + 1
      BY <2>1
    <3>2. \A i \in 1..Len(list) : l[i] \in Nat /\ l[i] <= h
      BY <2>1 DEF Shows
    <3>3. \A x \in Nat : x <= h => x <= h + 1
      OBVIOUS
    <3>4. l[Len(list) + 1] <= h + 1
      BY <2>1
    <3> QED
      BY <3>1, <3>2, <3>3, <3>4
  <2>3. ASSUME NEW i \in 1..Len(l), NEW j \in 1..Len(l), i < j
        PROVE  l[i] < l[j]
    <3>1. i \in 1..Len(list)
      BY <2>1, <2>3
    <3>2. j \in 1..Len(list) \/ j = Len(list) + 1
      BY <2>1
    <3> QED
      BY SMTT(30), <2>1, <2>3, <3>1, <3>2 DEF Shows
  <2>4. ASSUME NEW i \in (e + 1)..(h + 1)
        PROVE  \E j \in 1..Len(l) : l[j] = i
    <3>1. CASE i = h + 1
      <4>1. Len(list) + 1 \in 1..Len(l)
        BY <2>1
      <4> QED
        BY <2>1, <3>1, <4>1
    <3>2. CASE i # h + 1
      <4>1. i \in (e + 1)..h /\ e # -1
        BY <3>2
      <4>2. PICK j \in 1..Len(list) : list[j] = i
        BY <4>1 DEF Shows
      <4>3. j \in 1..Len(l) /\ l[j] = i
        BY <2>1, <4>2
      <4> QED
        BY <4>3
    <3> QED
      BY <3>1, <3>2
  <2>5. Shows(l, h + 1, s, e)
    BY <2>2, <2>3, <2>4 DEF Shows
  <2> QED
    BY <1>1, <2>1, <2>5 DEF l
<1>2. CASE ~(h + 1 > s)
  <2>1. h + 1 <= e
    BY <1>2 DEF Shows
  <2>2. \A i \in 1..Len(list) : list[i] \in Nat
    OBVIOUS
  <2>3. Shows(list, h + 1, s, e)
    BY <2>1, <2>2 DEF Shows
  <2> QED
    BY <1>2, <2>3
<1> QED
  BY <1>1, <1>2

(* Nothing that a list depends on has changed.                             *)
LEMMA ViewStays ==
    ASSUME IInv, UNCHANGED <<entered, view>>
    PROVE  \A u \in User : Shows(shown'[u], heard'[u], since'[u], entered'[u])
  BY DEF IInv, view

LEMMA VisitsStay ==
    ASSUME IInv, UNCHANGED <<asking, open, entered, field, queue>>
    PROVE  \A u \in User : Visited(u)'
  BY DEF IInv, Visited

THEOREM InitInv == Init => IInv
<1> SUFFICES ASSUME Init PROVE IInv
  OBVIOUS
<1>1. TypeOK
  <2>1. <<>> \in Seq(Message) /\ <<>> \in Seq(Nat) /\ <<>> \in Seq(AnyText)
        /\ <<>> \in Seq(Request)
    OBVIOUS
  <2> QED
    BY <2>1 DEF Init, TypeOK, AnyText
<1>2. \A u \in User : Visited(u)
  BY DEF Init, Visited
<1>3. \A u \in User : Shows(shown[u], heard[u], since[u], entered[u])
  BY DEF Init, Shows
<1> QED
  BY <1>1, <1>2, <1>3 DEF IInv
-----------------------------------------------------------------------------
(* Entering, opening, closing, reading.                                    *)
LEMMA ParticipateInv ==
    ASSUME IInv, NEW u \in User, Participate(u), UNCHANGED regime
    PROVE  IInv'
<1>1. /\ entered[u] = -1 /\ entered' = [entered EXCEPT ![u] = Len(log)]
      /\ UNCHANGED <<log, last, open, since, asking, heard, shown, field, enabled,
                     queue, sent, crashed>>
  BY DEF Participate, view, input
<1>2. /\ log \in Seq(Message) /\ entered \in [User -> Nat \cup {-1}]
      /\ since \in [User -> Nat] /\ heard \in [User -> Nat]
      /\ shown \in [User -> Seq(Nat)]
  BY DEF IInv, TypeOK
<1>3. Len(log) \in Nat
  BY <1>2
<1>4. entered' \in [User -> Nat \cup {-1}]
  BY <1>1, <1>2, <1>3
<1>5. TypeOK'
  BY <1>1, <1>4 DEF IInv, TypeOK
<1>6. \A v \in User : entered'[v] = IF v = u THEN Len(log) ELSE entered[v]
  BY <1>1, <1>2
<1>7. \A v \in User : Visited(v)'
  <2>1. \A v \in User : entered[v] # -1 => entered'[v] # -1
    BY <1>1, <1>6
  <2> QED
    BY <1>1, <2>1 DEF IInv, Visited
<1>8. ASSUME NEW v \in User
      PROVE  Shows(shown'[v], heard'[v], since'[v], entered'[v])
  <2>1. Shows(shown[v], heard[v], since[v], entered[v])
    BY DEF IInv
  <2>2. CASE v # u
    BY <1>1, <1>6, <2>1, <2>2
  <2>3. CASE v = u
    <3> DEFINE n == Len(log)
    <3>1. entered'[u] = n /\ n \in Nat
      BY <1>3, <1>6
    <3> HIDE DEF n
    <3>2. heard[u] = 0 /\ since[u] = 0 /\ (n + 1)..0 = {}
      BY <1>1, <1>2, <2>1, <2>3, <3>1 DEF Shows
    <3>3. Shows(shown[u], heard[u], since[u], n)
      BY <2>1, <2>3, <3>1, <3>2 DEF Shows
    <3> QED
      BY <1>1, <2>3, <3>1, <3>3
  <2> QED
    BY <2>2, <2>3
<1> QED
  BY <1>5, <1>7, <1>8 DEF IInv

LEMMA OpenInv ==
    ASSUME IInv, NEW u \in User, OpenRoom(u), UNCHANGED regime
    PROVE  IInv'
<1>1. /\ entered[u] # -1 /\ open' = open \cup {u} /\ asking' = asking \cup {u}
      /\ since' = [since EXCEPT ![u] = 0] /\ heard' = [heard EXCEPT ![u] = 0]
      /\ shown' = [shown EXCEPT ![u] = <<>>]
      /\ field' = [field EXCEPT ![u] = Append(@, Blank)]
      /\ enabled' = [enabled EXCEPT ![u] = FALSE]
      /\ UNCHANGED <<log, last, entered, queue, sent, crashed>>
  BY DEF OpenRoom, server
<1>2. /\ entered \in [User -> Nat \cup {-1}] /\ since \in [User -> Nat]
      /\ heard \in [User -> Nat] /\ shown \in [User -> Seq(Nat)]
      /\ field \in [User -> Seq(AnyText)] /\ enabled \in [User -> BOOLEAN]
      /\ open \subseteq User /\ asking \subseteq User
  BY DEF IInv, TypeOK
<1> DEFINE f == Append(field[u], Blank)
<1>3. f \in Seq(AnyText) /\ Len(f) = Len(field[u]) + 1 /\ Len(field[u]) \in Nat
  <2>1. Blank \in AnyText /\ field[u] \in Seq(AnyText)
    BY <1>2 DEF AnyText
  <2> QED
    BY <2>1, AppendProperties
<1>4. field' = [field EXCEPT ![u] = f]
  BY <1>1
<1> HIDE DEF f
<1>5. \A v \in User : field'[v] = IF v = u THEN f ELSE field[v]
  BY <1>2, <1>4
<1>6. TypeOK'
  <2>1. <<>> \in Seq(Nat)
    OBVIOUS
  <2>2. shown' \in [User -> Seq(Nat)]
    BY <1>1, <1>2, <2>1
  <2>3. field' \in [User -> Seq(AnyText)]
    BY <1>2, <1>3, <1>4
  <2> QED
    BY <1>1, <1>2, <2>2, <2>3 DEF IInv, TypeOK
<1>7. ASSUME NEW v \in User PROVE Visited(v)'
  <2>1. Visited(v) /\ Visited(u)
    BY DEF IInv
  <2>2. CASE v # u
    BY <1>1, <1>5, <2>1, <2>2 DEF Visited
  <2>3. CASE v = u
    <3> DEFINE m == Len(field[u])
               n == Len(f)
    <3>1. m \in Nat /\ n = m + 1
      BY <1>3
    <3>2. \A k \in 1..Len(queue[u]) : queue[u][k].visit \in 1..m
      BY <2>1 DEF Visited
    <3> HIDE DEF m, n
    <3>3. n >= 1 /\ \A x \in 1..m : x \in 1..n
      BY <3>1
    <3>4. \A k \in 1..Len(queue[u]) : queue[u][k].visit \in 1..n
      BY <3>2, <3>3
    <3> QED
      BY <1>1, <1>5, <2>3, <3>3, <3>4 DEF n, Visited
  <2> QED
    BY <2>2, <2>3
<1>8. ASSUME NEW v \in User
      PROVE  Shows(shown'[v], heard'[v], since'[v], entered'[v])
  <2>1. Shows(shown[v], heard[v], since[v], entered[v])
    BY DEF IInv
  <2>2. CASE v # u
    BY <1>1, <1>2, <2>1, <2>2
  <2>3. CASE v = u
    <3>1. /\ shown'[u] = <<>> /\ heard'[u] = 0 /\ since'[u] = 0
          /\ entered'[u] = entered[u] /\ entered[u] \in Nat
      BY <1>1, <1>2
    <3>2. (entered[u] + 1)..0 = {} /\ 1..Len(<<>>) = {} /\ 0 <= entered[u]
      BY <3>1
    <3>3. Shows(<<>>, 0, 0, entered[u])
      BY <3>1, <3>2 DEF Shows
    <3> QED
      BY <2>3, <3>1, <3>3
  <2> QED
    BY <2>2, <2>3
<1> QED
  BY <1>6, <1>7, <1>8 DEF IInv

LEMMA CloseInv ==
    ASSUME IInv, NEW u \in User, CloseRoom(u), UNCHANGED regime
    PROVE  IInv'
<1>1. /\ open' = open \ {u} /\ asking' = asking \ {u}
      /\ UNCHANGED <<log, last, entered, since, heard, shown, field, enabled, queue,
                     sent, crashed>>
  BY DEF CloseRoom, server, input
<1>2. TypeOK'
  BY <1>1 DEF IInv, TypeOK
<1>3. \A v \in User : Visited(v)'
  BY <1>1 DEF IInv, Visited
<1> QED
  BY <1>1, <1>2, <1>3 DEF IInv

LEMMA FailEntranceInv ==
    ASSUME IInv, NEW u \in User, FailEntrance(u), UNCHANGED regime
    PROVE  IInv'
<1>1. /\ asking' = asking \ {u}
      /\ UNCHANGED <<log, last, entered, open, since, heard, shown, field, enabled, queue,
                     sent, crashed>>
  BY DEF FailEntrance, server, input
<1>2. TypeOK'
  BY <1>1 DEF IInv, TypeOK
<1>3. \A v \in User : Visited(v)'
  BY <1>1 DEF IInv, Visited
<1> QED
  BY <1>1, <1>2, <1>3 DEF IInv

LEMMA EntranceInv ==
    ASSUME IInv, NEW u \in User, AnswerEntrance(u), UNCHANGED regime
    PROVE  IInv'
<1>1. /\ u \in asking /\ asking' = asking \ {u}
      /\ since' = [since EXCEPT ![u] = entered[u]]
      /\ UNCHANGED <<log, last, entered, open, heard, shown, field, enabled, queue,
                     sent, crashed>>
  BY DEF AnswerEntrance, server, input
<1>2. /\ since \in [User -> Nat] /\ entered \in [User -> Nat \cup {-1}]
      /\ Visited(u)
  BY DEF IInv, TypeOK
<1>3. entered[u] \in Nat
  BY <1>1, <1>2 DEF Visited
<1>4. since' \in [User -> Nat]
  BY <1>1, <1>2, <1>3
<1>5. TypeOK'
  BY <1>1, <1>4 DEF IInv, TypeOK
<1>6. \A v \in User : Visited(v)'
  BY <1>1 DEF IInv, Visited
<1>7. ASSUME NEW v \in User
      PROVE  Shows(shown'[v], heard'[v], since'[v], entered'[v])
  <2>1. Shows(shown[v], heard[v], since[v], entered[v])
    BY DEF IInv
  <2>2. /\ since'[v] = IF v = u THEN entered[v] ELSE since[v]
        /\ shown'[v] = shown[v] /\ heard'[v] = heard[v] /\ entered'[v] = entered[v]
    BY <1>1, <1>2
  <2> QED
    BY <1>3, <2>1, <2>2 DEF Shows
<1> QED
  BY <1>5, <1>6, <1>7 DEF IInv

LEMMA HearInv ==
    ASSUME IInv, NEW u \in User, Hear(u), UNCHANGED regime
    PROVE  IInv'
<1> DEFINE next == heard[u] + 1
           list == IF next > since[u] THEN Append(shown[u], next) ELSE shown[u]
<1>1. /\ u \in open /\ heard' = [heard EXCEPT ![u] = next]
      /\ shown' = [shown EXCEPT ![u] = list]
      /\ UNCHANGED <<log, last, entered, since, field, enabled, sent>>
  BY DEF Hear, server, input
<1>2. \/ UNCHANGED <<open, asking, queue, crashed>>
      \/ /\ crashed' = crashed \cup {u} /\ open' = open \ {u} /\ asking' = asking \ {u}
         /\ queue' = [queue EXCEPT ![u] = <<>>]
  BY DEF Hear
<1>3. /\ entered \in [User -> Nat \cup {-1}] /\ since \in [User -> Nat]
      /\ heard \in [User -> Nat] /\ shown \in [User -> Seq(Nat)]
      /\ queue \in [User -> Seq(Request)] /\ open \subseteq User
      /\ asking \subseteq User /\ crashed \subseteq User
      /\ Visited(u) /\ Shows(shown[u], heard[u], since[u], entered[u])
  BY DEF IInv, TypeOK
<1>4. entered[u] \in Nat
  BY <1>1, <1>3 DEF Visited
<1>5. list \in Seq(Nat) /\ Shows(list, next, since[u], entered[u]) /\ next \in Nat
  BY <1>3, <1>4, HearsNext
<1> HIDE DEF list, next
<1>6. heard' \in [User -> Nat] /\ shown' \in [User -> Seq(Nat)]
  BY <1>1, <1>3, <1>5
<1>7. /\ queue' \in [User -> Seq(Request)] /\ open' \subseteq User
      /\ asking' \subseteq User /\ crashed' \subseteq User
  <2>1. <<>> \in Seq(Request)
    OBVIOUS
  <2> QED
    BY ZenonT(40), <1>2, <1>3, <2>1
<1>8. TypeOK'
  BY <1>1, <1>6, <1>7 DEF IInv, TypeOK
<1>9. ASSUME NEW v \in User PROVE Visited(v)'
  <2>1. Visited(v)
    BY DEF IInv
  <2>2. \A k \in 1..Len(queue'[v]) : queue'[v][k].visit \in 1..Len(field[v])
    <3>1. CASE queue'[v] = queue[v]
      BY <2>1, <3>1 DEF Visited
    <3>2. CASE queue'[v] = <<>>
      BY <3>2
    <3> QED
      BY <1>2, <1>3, <3>1, <3>2
  <2>3. (v \in asking' => v \in open') /\ (v \in open' => v \in open)
    BY <1>2, <2>1 DEF Visited
  <2> QED
    BY <1>1, <2>1, <2>2, <2>3 DEF Visited
<1>10. ASSUME NEW v \in User
       PROVE  Shows(shown'[v], heard'[v], since'[v], entered'[v])
  <2>1. Shows(shown[v], heard[v], since[v], entered[v])
    BY DEF IInv
  <2>2. CASE v = u
    BY <1>1, <1>3, <1>5, <2>2
  <2>3. CASE v # u
    BY <1>1, <1>3, <2>1, <2>3
  <2> QED
    BY <2>2, <2>3
<1> QED
  BY <1>8, <1>9, <1>10 DEF IInv
-----------------------------------------------------------------------------
(* Typing, sending, and what the Realtime DB serves.                       *)
OfVisits(q, n) == \A k \in 1..Len(q) : q[k].visit \in 1..n

LEMMA AppendOfVisits ==
    ASSUME NEW q \in Seq(Request), NEW n \in Nat, OfVisits(q, n),
           NEW r \in Request, r.visit \in 1..n
    PROVE  Append(q, r) \in Seq(Request) /\ OfVisits(Append(q, r), n)
<1> DEFINE l == Append(q, r)
<1>1. /\ l \in Seq(Request) /\ Len(l) = Len(q) + 1 /\ l[Len(q) + 1] = r
      /\ \A k \in 1..Len(q) : l[k] = q[k]
      /\ Len(q) \in Nat
  BY AppendProperties
<1> HIDE DEF l
<1>2. \A k \in 1..Len(l) : k \in 1..Len(q) \/ k = Len(q) + 1
  BY <1>1
<1>3. OfVisits(l, n)
  BY <1>1, <1>2 DEF OfVisits
<1> QED
  BY <1>1, <1>3 DEF l

LEMMA TailOfVisits ==
    ASSUME NEW q \in Seq(Request), q # <<>>, NEW n \in Nat, OfVisits(q, n)
    PROVE  /\ Head(q) \in Request /\ Head(q).visit \in 1..n
           /\ Tail(q) \in Seq(Request) /\ OfVisits(Tail(q), n)
<1> DEFINE l == Tail(q)
<1>1. /\ l \in Seq(Request) /\ Len(l) = Len(q) - 1 /\ Len(q) \in Nat
      /\ Len(q) # 0 /\ Head(q) = q[1] /\ Head(q) \in Request
      /\ \A k \in 1..Len(l) : l[k] = q[k + 1]
  BY HeadTailProperties, EmptySeq
<1> HIDE DEF l
<1>2. 1 \in 1..Len(q) /\ \A k \in 1..Len(l) : k + 1 \in 1..Len(q)
  BY <1>1
<1>3. OfVisits(l, n) /\ q[1].visit \in 1..n
  BY <1>1, <1>2 DEF OfVisits
<1> QED
  BY <1>1, <1>3 DEF l

LEMMA FieldSet ==
    ASSUME field \in [User -> Seq(AnyText)], NEW u \in User,
           NEW k \in 1..Len(field[u]), NEW t \in AnyText,
           field' = [field EXCEPT ![u][k] = t]
    PROVE  /\ field' \in [User -> Seq(AnyText)]
           /\ \A v \in User : Len(field'[v]) = Len(field[v])
<1> DEFINE f == [field[u] EXCEPT ![k] = t]
<1>1. f \in Seq(AnyText) /\ Len(f) = Len(field[u])
  BY ExceptSeq
<1>2. field' = [field EXCEPT ![u] = f]
  OBVIOUS
<1> HIDE DEF f
<1> QED
  BY <1>1, <1>2

(* A queue whose requests are of visits, in a state that is otherwise the  *)
(* same for the visits.                                                    *)
LEMMA QueueSet ==
    ASSUME IInv, NEW u \in User, NEW q \in Seq(Request),
           OfVisits(q, Len(field[u])), queue' = [queue EXCEPT ![u] = q],
           \A v \in User : Len(field'[v]) = Len(field[v]),
           UNCHANGED <<asking, open, entered>>
    PROVE  queue' \in [User -> Seq(Request)] /\ \A v \in User : Visited(v)'
<1>1. queue \in [User -> Seq(Request)]
  BY DEF IInv, TypeOK
<1>2. \A v \in User : queue'[v] = IF v = u THEN q ELSE queue[v]
  BY <1>1
<1> QED
  BY <1>1, <1>2 DEF IInv, Visited, OfVisits

(* The facts of the request that is served.                                *)
LEMMA Served ==
    ASSUME IInv, NEW u \in User, Busy(u)
    PROVE  /\ queue[u] \in Seq(Request) /\ Len(field[u]) \in Nat
           /\ Head(queue[u]) \in Request
           /\ Head(queue[u]).visit \in 1..Len(field[u])
           /\ Tail(queue[u]) \in Seq(Request)
           /\ OfVisits(Tail(queue[u]), Len(field[u])) /\ Field(u) \in AnyText
<1>1. queue[u] \in Seq(Request) /\ field[u] \in Seq(AnyText)
  BY DEF IInv, TypeOK
<1>2. Len(field[u]) \in Nat /\ OfVisits(queue[u], Len(field[u])) /\ queue[u] # <<>>
  BY <1>1 DEF IInv, Visited, OfVisits, Busy
<1>3. /\ Head(queue[u]) \in Request /\ Head(queue[u]).visit \in 1..Len(field[u])
      /\ Tail(queue[u]) \in Seq(Request)
      /\ OfVisits(Tail(queue[u]), Len(field[u]))
  BY <1>1, <1>2, TailOfVisits
<1>4. Field(u) \in AnyText
  BY <1>1, <1>3, ElementOfSeq DEF Field
<1> QED
  BY <1>1, <1>2, <1>3, <1>4

LEMMA ThenOfVisits ==
    ASSUME IInv, NEW u \in User, Busy(u), NEW t \in AnyText,
           NEW op \in {"name", "message", "lastMessage"}
    PROVE  Then(u, op, t) \in Seq(Request) /\ OfVisits(Then(u, op, t), Len(field[u]))
<1> DEFINE r == [op |-> op, text |-> t, visit |-> Head(queue[u]).visit]
<1>1. r \in Request /\ r.visit \in 1..Len(field[u])
  <2>1. Head(queue[u]).visit \in 1..Len(field[u]) /\ Head(queue[u]).visit \in Nat
    BY Served DEF Request
  <2> QED
    BY <2>1 DEF Request
<1> HIDE DEF r
<1>2. Append(Tail(queue[u]), r) \in Seq(Request)
      /\ OfVisits(Append(Tail(queue[u]), r), Len(field[u]))
  BY <1>1, Served, AppendOfVisits
<1> QED
  BY <1>2 DEF Then, r

LEMMA TypeInv ==
    ASSUME IInv, NEW u \in User, NEW t \in AnyText, Type(u, t), UNCHANGED regime
    PROVE  IInv'
<1>1. /\ u \in open /\ field' = [field EXCEPT ![u][Visit(u)] = t]
      /\ enabled' = [enabled EXCEPT ![u] = (t # Blank)]
      /\ UNCHANGED <<log, last, entered, open, since, asking, heard, shown, queue,
                     sent, crashed>>
  BY DEF Type, server, view
<1>2. field \in [User -> Seq(AnyText)] /\ enabled \in [User -> BOOLEAN] /\ Visited(u)
  BY DEF IInv, TypeOK
<1>3. Visit(u) \in 1..Len(field[u])
  <2>1. Len(field[u]) \in Nat /\ Len(field[u]) >= 1
    BY <1>1, <1>2 DEF Visited
  <2> QED
    BY <2>1 DEF Visit
<1>4. /\ field' \in [User -> Seq(AnyText)]
      /\ \A v \in User : Len(field'[v]) = Len(field[v])
  BY <1>1, <1>2, <1>3, FieldSet
<1>5. TypeOK'
  BY <1>1, <1>2, <1>4 DEF IInv, TypeOK
<1>6. \A v \in User : Visited(v)'
  BY <1>1, <1>4 DEF IInv, Visited
<1>7. \A v \in User : Shows(shown'[v], heard'[v], since'[v], entered'[v])
  BY <1>1, ViewStays DEF view
<1> QED
  BY <1>5, <1>6, <1>7 DEF IInv

LEMMA SendInv ==
    ASSUME IInv, NEW u \in User, Send(u), UNCHANGED regime
    PROVE  IInv'
<1> DEFINE r == [op |-> "name", text |-> Blank, visit |-> Visit(u)]
           q == Append(queue[u], r)
           x == field[u][Visit(u)]
<1>1. /\ u \in open /\ queue' = [queue EXCEPT ![u] = q]
      /\ sent' = [sent EXCEPT ![u] = Append(sent[u], x)]
      /\ UNCHANGED <<log, last, entered, open, since, asking, heard, shown, field,
                     enabled, crashed>>
  BY DEF Send, AskName, server, view, input
<1>2. /\ field[u] \in Seq(AnyText) /\ queue[u] \in Seq(Request)
      /\ sent \in [User -> Seq(AnyText)] /\ sent[u] \in Seq(AnyText) /\ Visited(u)
  BY DEF IInv, TypeOK
<1>3. Visit(u) \in 1..Len(field[u]) /\ Visit(u) \in Nat /\ Len(field[u]) \in Nat
  <2>1. Len(field[u]) \in Nat /\ Len(field[u]) >= 1
    BY <1>1, <1>2 DEF Visited
  <2> QED
    BY <2>1 DEF Visit
<1>4. x \in AnyText
  BY <1>2, <1>3, ElementOfSeq
<1>5. r \in Request /\ r.visit \in 1..Len(field[u])
  BY <1>3 DEF Request, AnyText
<1> HIDE DEF r, x
<1>6. q \in Seq(Request) /\ OfVisits(q, Len(field[u]))
  <2>1. OfVisits(queue[u], Len(field[u]))
    BY <1>2 DEF Visited, OfVisits
  <2> QED
    BY <1>2, <1>3, <1>5, <2>1, AppendOfVisits
<1> HIDE DEF q
<1>7. queue' \in [User -> Seq(Request)] /\ \A v \in User : Visited(v)'
  BY <1>1, <1>6, QueueSet
<1>8. sent' \in [User -> Seq(AnyText)]
  <2>1. Append(sent[u], x) \in Seq(AnyText)
    BY <1>2, <1>4
  <2> QED
    BY <1>1, <1>2, <2>1
<1>9. TypeOK'
  BY <1>1, <1>7, <1>8 DEF IInv, TypeOK
<1>10. \A v \in User : Shows(shown'[v], heard'[v], since'[v], entered'[v])
  BY <1>1, ViewStays DEF view
<1> QED
  BY <1>7, <1>9, <1>10 DEF IInv

LEMMA NameInv ==
    ASSUME IInv, NEW u \in User, AnswerName(u), UNCHANGED regime
    PROVE  IInv'
<1> DEFINE q == Then(u, "message", Field(u))
<1>1. /\ Busy(u) /\ queue' = [queue EXCEPT ![u] = q]
      /\ UNCHANGED <<log, last, entered, open, since, asking, heard, shown, field,
                     enabled, sent, crashed>>
  BY DEF AnswerName, Serves, server, view, input
<1>2. q \in Seq(Request) /\ OfVisits(q, Len(field[u]))
  BY <1>1, Served, ThenOfVisits
<1> HIDE DEF q
<1>3. queue' \in [User -> Seq(Request)] /\ \A v \in User : Visited(v)'
  BY <1>1, <1>2, QueueSet
<1>4. TypeOK'
  BY <1>1, <1>3 DEF IInv, TypeOK
<1>5. \A v \in User : Shows(shown'[v], heard'[v], since'[v], entered'[v])
  BY <1>1, ViewStays DEF view
<1> QED
  BY <1>3, <1>4, <1>5 DEF IInv

LEMMA MessageInv ==
    ASSUME IInv, NEW u \in User, WriteMessage(u), UNCHANGED regime
    PROVE  IInv'
<1> DEFINE q == Then(u, "lastMessage", Field(u))
           m == [by |-> u, text |-> Head(queue[u]).text]
<1>1. /\ Busy(u) /\ queue' = [queue EXCEPT ![u] = q] /\ log' = Append(log, m)
      /\ field' = [field EXCEPT ![u][Head(queue[u]).visit] = Blank]
      /\ UNCHANGED <<last, entered, open, since, asking, heard, shown, enabled, sent,
                     crashed>>
  BY DEF WriteMessage, Serves, Cleared, view
<1>2. q \in Seq(Request) /\ OfVisits(q, Len(field[u]))
  BY <1>1, Served, ThenOfVisits
<1>3. m \in Message
  <2>1. Head(queue[u]).text \in AnyText
    BY <1>1, Served DEF Request
  <2> QED
    BY <2>1 DEF Message
<1> HIDE DEF q, m
<1>4. log' \in Seq(Message)
  BY <1>1, <1>3 DEF IInv, TypeOK
<1>5. /\ field' \in [User -> Seq(AnyText)]
      /\ \A v \in User : Len(field'[v]) = Len(field[v])
  <2>1. field \in [User -> Seq(AnyText)] /\ Blank \in AnyText
    BY DEF IInv, TypeOK, AnyText
  <2>2. Head(queue[u]).visit \in 1..Len(field[u])
    BY <1>1, Served
  <2> QED
    BY <1>1, <2>1, <2>2, FieldSet
<1>6. queue' \in [User -> Seq(Request)] /\ \A v \in User : Visited(v)'
  BY <1>1, <1>2, <1>5, QueueSet
<1>7. TypeOK'
  BY <1>1, <1>4, <1>5, <1>6 DEF IInv, TypeOK
<1>8. \A v \in User : Shows(shown'[v], heard'[v], since'[v], entered'[v])
  BY <1>1, ViewStays DEF view
<1> QED
  BY <1>6, <1>7, <1>8 DEF IInv

LEMMA LastWriteInv ==
    ASSUME IInv, NEW u \in User, WriteLast(u), UNCHANGED regime
    PROVE  IInv'
<1>1. /\ Busy(u) /\ queue' = [queue EXCEPT ![u] = Tail(queue[u])]
      /\ last' = Head(queue[u]).text
      /\ UNCHANGED <<log, entered, open, since, asking, heard, shown, field, enabled,
                     sent, crashed>>
  BY DEF WriteLast, Serves, view, input
<1>2. Tail(queue[u]) \in Seq(Request) /\ OfVisits(Tail(queue[u]), Len(field[u]))
  BY <1>1, Served
<1>3. last' \in AnyText
  BY <1>1, Served DEF Request
<1>4. queue' \in [User -> Seq(Request)] /\ \A v \in User : Visited(v)'
  BY <1>1, <1>2, QueueSet
<1>5. TypeOK'
  BY <1>1, <1>3, <1>4 DEF IInv, TypeOK
<1>6. \A v \in User : Shows(shown'[v], heard'[v], since'[v], entered'[v])
  BY <1>1, ViewStays DEF view
<1> QED
  BY <1>4, <1>5, <1>6 DEF IInv

LEMMA FailRequestInv ==
    ASSUME IInv, NEW u \in User, FailRequest(u), UNCHANGED regime
    PROVE  IInv'
<1>1. /\ Busy(u) /\ queue' = [queue EXCEPT ![u] = Tail(queue[u])]
      /\ UNCHANGED <<log, last, entered, open, since, asking, heard, shown, field, enabled,
                     sent, crashed>>
  BY DEF FailRequest, server, view, input
<1>2. Tail(queue[u]) \in Seq(Request) /\ OfVisits(Tail(queue[u]), Len(field[u]))
  BY <1>1, Served
<1>3. queue' \in [User -> Seq(Request)] /\ \A v \in User : Visited(v)'
  BY <1>1, <1>2, QueueSet
<1>4. TypeOK'
  BY <1>1, <1>3 DEF IInv, TypeOK
<1>5. \A v \in User : Shows(shown'[v], heard'[v], since'[v], entered'[v])
  BY <1>1, ViewStays DEF view
<1> QED
  BY <1>3, <1>4, <1>5 DEF IInv
-----------------------------------------------------------------------------
THEOREM NextInv == IInv /\ [Next]_vars => IInv'
<1> SUFFICES ASSUME IInv, [Next]_vars PROVE IInv'
  OBVIOUS
<1>1. CASE UNCHANGED vars
  BY <1>1 DEF vars, server, view, input, IInv, TypeOK, Visited
<1>2. CASE Next
  <2> PICK u \in User : Step(u) /\ UNCHANGED regime
    BY <1>2 DEF Next
  <2>1. CASE \E t \in AnyText : Type(u, t)
    BY <2>1, TypeInv
  <2>2. CASE Serve(u)
    BY <2>2, NameInv, MessageInv, LastWriteInv DEF Serve
  <2> QED
    BY <2>1, <2>2, ParticipateInv, OpenInv, CloseInv, EntranceInv, HearInv, SendInv,
       FailEntranceInv, FailRequestInv DEF Step
<1> QED
  BY <1>1, <1>2

LEMMA InvNothingWithheld == IInv => NothingWithheld
<1> SUFFICES ASSUME IInv, NEW u \in User, entered[u] # -1
             PROVE /\ \A i \in (entered[u] + 1)..heard[u] :
                          \E j \in DOMAIN shown[u] : shown[u][j] = i
                   /\ \A i, j \in DOMAIN shown[u] : i < j => shown[u][i] < shown[u][j]
  BY DEF NothingWithheld
<1>1. shown[u] \in Seq(Nat) /\ Shows(shown[u], heard[u], since[u], entered[u])
  BY DEF IInv, TypeOK
<1>2. DOMAIN shown[u] = 1..Len(shown[u])
  BY <1>1
<1> QED
  BY <1>1, <1>2 DEF Shows

(* For any number of students, messages and visits, every variable keeps   *)
(* the type of the field or document it stands for.                        *)
THEOREM TypeCorrect == Spec => []TypeOK
<1>1. IInv => TypeOK
  BY DEF IInv
<1> QED
  BY <1>1, InitInv, NextInv, PTL DEF Spec

(* In whatever order the entrance time and the messages arrive, on         *)
(* whichever visit: no message from after the entrance is withheld once    *)
(* delivered, and none is shown twice or out of order.                     *)
THEOREM NoneWithheld == Spec => []NothingWithheld
<1> QED
  BY InvNothingWithheld, InitInv, NextInv, PTL DEF Spec
-----------------------------------------------------------------------------
(* Why the text survives.  Requests of one student are of different visits *)
(* and overtake each other by at most a callback: of two, the one of the   *)
(* earlier visit has come as far, or further if it stands behind.  So the  *)
(* message that is written next is the one of the earliest visit that has  *)
(* none yet, and its field is as it was at the tap.                        *)
Stage(r) == IF r.op = "name" THEN 0 ELSE IF r.op = "message" THEN 1 ELSE 2

InOrder(q) ==
    \A i, j \in 1..Len(q) : i < j =>
        /\ q[i].visit # q[j].visit
        /\ q[i].visit < q[j].visit => Stage(q[i]) >= Stage(q[j])
        /\ q[i].visit > q[j].visit => Stage(q[i]) < Stage(q[j])

(* The visits, of the first n, whose message is still to be written.       *)
Unwritten(q, n) ==
    {v \in 1..n : \E k \in 1..Len(q) : q[k].visit = v /\ q[k].op # "lastMessage"}

(* The request at the head, one stage on, at the end of the queue.         *)
LEMMA MovedQueue ==
    ASSUME NEW q \in Seq(Request), q # <<>>, NEW r \in Request
    PROVE  LET l == Append(Tail(q), r)
           IN  /\ Len(q) \in Nat /\ Len(q) >= 1 /\ Len(l) = Len(q) /\ Head(q) = q[1]
               /\ \A k \in 1..(Len(q) - 1) : l[k] = q[k + 1]
               /\ l[Len(q)] = r
               /\ Len(Tail(q)) = Len(q) - 1
               /\ \A k \in 1..(Len(q) - 1) : Tail(q)[k] = q[k + 1]
<1>1. /\ Tail(q) \in Seq(Request) /\ Len(Tail(q)) = Len(q) - 1 /\ Head(q) = q[1]
      /\ Len(q) \in Nat /\ Len(q) # 0
      /\ \A k \in 1..Len(Tail(q)) : Tail(q)[k] = q[k + 1]
  BY HeadTailProperties, EmptySeq
<1> DEFINE t == Tail(q)
<1> HIDE DEF t
<1>2. /\ Len(Append(t, r)) = Len(t) + 1 /\ Append(t, r)[Len(t) + 1] = r
      /\ \A k \in 1..Len(t) : Append(t, r)[k] = t[k]
  <2>1. t \in Seq(Request)
    BY <1>1 DEF t
  <2> QED
    BY <2>1, AppendProperties
<1>3. Len(t) = Len(q) - 1 /\ Len(q) >= 1 /\ \A k \in 1..(Len(q) - 1) : t[k] = q[k + 1]
  BY <1>1 DEF t
<1>4. Len(t) + 1 = Len(q)
  BY <1>1, <1>3
<1> QED
  BY <1>1, <1>2, <1>3, <1>4 DEF t

LEMMA StageType == \A r \in Request : Stage(r) \in 0..2 /\ r.visit \in Nat
  BY DEF Stage, Request

LEMMA MoveInOrder ==
    ASSUME NEW q \in Seq(Request), q # <<>>, InOrder(q), NEW r \in Request,
           r.visit = Head(q).visit, Stage(r) = Stage(Head(q)) + 1
    PROVE  InOrder(Append(Tail(q), r)) /\ InOrder(Tail(q))
<1> DEFINE l == Append(Tail(q), r)
           n == Len(q)
<1>1. /\ n \in Nat /\ n >= 1 /\ Len(l) = n /\ Head(q) = q[1]
      /\ \A k \in 1..(n - 1) : l[k] = q[k + 1]
      /\ l[n] = r /\ Len(Tail(q)) = n - 1
      /\ \A k \in 1..(n - 1) : Tail(q)[k] = q[k + 1]
  BY MovedQueue
<1>2. \A k \in 1..n : q[k] \in Request /\ Stage(q[k]) \in 0..2 /\ q[k].visit \in Nat
  BY StageType
<1>3. Stage(r) \in 0..2 /\ r.visit \in Nat /\ Stage(r) = Stage(q[1]) + 1 /\ r.visit = q[1].visit
  BY <1>1, StageType
<1> HIDE DEF l, n
<1>4. ASSUME NEW i \in 1..(n - 1), NEW j \in 1..(n - 1), i < j
      PROVE  /\ q[i + 1].visit # q[j + 1].visit
             /\ q[i + 1].visit < q[j + 1].visit => Stage(q[i + 1]) >= Stage(q[j + 1])
             /\ q[i + 1].visit > q[j + 1].visit => Stage(q[i + 1]) < Stage(q[j + 1])
  <2>1. i + 1 \in 1..n /\ j + 1 \in 1..n /\ i + 1 < j + 1
    BY <1>1, <1>4
  <2> QED
    BY <2>1 DEF InOrder, n
<1>5. ASSUME NEW i \in 1..(n - 1)
      PROVE  /\ q[i + 1].visit # r.visit
             /\ q[i + 1].visit < r.visit => Stage(q[i + 1]) >= Stage(r)
             /\ q[i + 1].visit > r.visit => Stage(q[i + 1]) < Stage(r)
  <2>1. i + 1 \in 1..n /\ 1 \in 1..n /\ 1 < i + 1
    BY <1>1
  <2>2. /\ q[1].visit # q[i + 1].visit
        /\ q[1].visit < q[i + 1].visit => Stage(q[1]) >= Stage(q[i + 1])
        /\ q[1].visit > q[i + 1].visit => Stage(q[1]) < Stage(q[i + 1])
    BY <2>1 DEF InOrder, n
  <2>3. /\ Stage(q[1]) \in 0..2 /\ Stage(q[i + 1]) \in 0..2
        /\ q[1].visit \in Nat /\ q[i + 1].visit \in Nat
    BY <1>2, <2>1
  <2> QED
    BY <1>3, <2>2, <2>3
<1>6. InOrder(l)
  <2> SUFFICES ASSUME NEW i \in 1..n, NEW j \in 1..n, i < j
               PROVE  /\ l[i].visit # l[j].visit
                      /\ l[i].visit < l[j].visit => Stage(l[i]) >= Stage(l[j])
                      /\ l[i].visit > l[j].visit => Stage(l[i]) < Stage(l[j])
    BY <1>1 DEF InOrder
  <2>1. i \in 1..(n - 1) /\ l[i] = q[i + 1]
    BY <1>1
  <2>2. CASE j = n
    BY <1>1, <1>5, <2>1, <2>2
  <2>3. CASE j # n
    <3>1. j \in 1..(n - 1) /\ l[j] = q[j + 1]
      BY <1>1, <2>3
    <3> QED
      BY <1>4, <2>1, <3>1
  <2> QED
    BY <2>2, <2>3
<1>7. InOrder(Tail(q))
  BY <1>1, <1>4 DEF InOrder
<1> QED
  BY <1>6, <1>7 DEF l

LEMMA TailInOrder ==
    ASSUME NEW q \in Seq(Request), q # <<>>, InOrder(q)
    PROVE  InOrder(Tail(q))
<1> DEFINE n == Len(q)
<1>1. /\ n \in Nat /\ n >= 1 /\ Len(Tail(q)) = n - 1
      /\ \A k \in 1..(n - 1) : Tail(q)[k] = q[k + 1]
  <2>1. q[1] \in Request
    BY EmptySeq
  <2> QED
    BY <2>1, MovedQueue
<1> HIDE DEF n
<1> SUFFICES ASSUME NEW i \in 1..(n - 1), NEW j \in 1..(n - 1), i < j
             PROVE  /\ q[i + 1].visit # q[j + 1].visit
                    /\ q[i + 1].visit < q[j + 1].visit => Stage(q[i + 1]) >= Stage(q[j + 1])
                    /\ q[i + 1].visit > q[j + 1].visit => Stage(q[i + 1]) < Stage(q[j + 1])
  BY <1>1 DEF InOrder
<1>2. i + 1 \in 1..n /\ j + 1 \in 1..n /\ i + 1 < j + 1
  BY <1>1
<1> QED
  BY <1>2 DEF InOrder, n

(* A request of a visit that has none, and is later than all that have.    *)
LEMMA AddInOrder ==
    ASSUME NEW q \in Seq(Request), InOrder(q), NEW r \in Request, r.op = "name",
           \A k \in 1..Len(q) : q[k].visit < r.visit
    PROVE  InOrder(Append(q, r))
<1> DEFINE l == Append(q, r)
           n == Len(q)
<1>1. /\ n \in Nat /\ Len(l) = n + 1 /\ l[n + 1] = r
      /\ \A k \in 1..n : l[k] = q[k]
  BY AppendProperties
<1>2. \A k \in 1..n : /\ Stage(q[k]) \in 0..2 /\ q[k].visit \in Nat
                      /\ q[k].visit < r.visit
  BY StageType
<1>3. Stage(r) = 0 /\ r.visit \in Nat
  BY StageType DEF Stage
<1> HIDE DEF l
<1> SUFFICES ASSUME NEW i \in 1..(n + 1), NEW j \in 1..(n + 1), i < j
             PROVE  /\ l[i].visit # l[j].visit
                    /\ l[i].visit < l[j].visit => Stage(l[i]) >= Stage(l[j])
                    /\ l[i].visit > l[j].visit => Stage(l[i]) < Stage(l[j])
  BY <1>1 DEF InOrder, l
<1>4. i \in 1..n /\ l[i] = q[i]
  BY <1>1
<1>5. CASE j = n + 1
  BY <1>1, <1>2, <1>3, <1>4, <1>5
<1>6. CASE j # n + 1
  <2>1. j \in 1..n /\ l[j] = q[j]
    BY <1>1, <1>6
  <2> QED
    BY <1>4, <2>1 DEF InOrder
<1> QED
  BY <1>5, <1>6

(* What each kind of step does to the visits still to be written.          *)
LEMMA NameUnwritten ==
    ASSUME NEW q \in Seq(Request), q # <<>>, NEW r \in Request, NEW n \in Nat,
           r.visit = Head(q).visit, Head(q).op = "name", r.op = "message"
    PROVE  Unwritten(Append(Tail(q), r), n) = Unwritten(q, n)
<1> DEFINE l == Append(Tail(q), r)
           m == Len(q)
<1>1. /\ m \in Nat /\ m >= 1 /\ Len(l) = m /\ Head(q) = q[1]
      /\ \A k \in 1..(m - 1) : l[k] = q[k + 1]
      /\ l[m] = r
  BY MovedQueue
<1> HIDE DEF l, m
<1>2. ASSUME NEW v, NEW k \in 1..m, q[k].visit = v, q[k].op # "lastMessage"
      PROVE  \E j \in 1..m : l[j].visit = v /\ l[j].op # "lastMessage"
  <2>1. CASE k = 1
    BY <1>1, <1>2, <2>1
  <2>2. CASE k # 1
    <3>1. k - 1 \in 1..(m - 1) /\ k - 1 \in 1..m /\ (k - 1) + 1 = k
      BY <1>1, <2>2
    <3>2. l[k - 1] = q[k]
      BY <1>1, <3>1
    <3> QED
      BY <1>2, <3>1, <3>2
  <2> QED
    BY <2>1, <2>2
<1>3. ASSUME NEW v, NEW k \in 1..m, l[k].visit = v, l[k].op # "lastMessage"
      PROVE  \E j \in 1..m : q[j].visit = v /\ q[j].op # "lastMessage"
  <2>1. CASE k = m
    BY <1>1, <1>3, <2>1
  <2>2. CASE k # m
    <3>1. k + 1 \in 1..m /\ l[k] = q[k + 1]
      BY <1>1, <2>2
    <3> QED
      BY <1>3, <3>1
  <2> QED
    BY <2>1, <2>2
<1>4. \A v \in 1..n :
         (\E k \in 1..m : l[k].visit = v /\ l[k].op # "lastMessage") <=>
         (\E k \in 1..m : q[k].visit = v /\ q[k].op # "lastMessage")
  BY <1>2, <1>3
<1>5. Unwritten(l, n) = Unwritten(q, n)
  BY <1>1, <1>4 DEF Unwritten, m
<1> QED
  BY <1>5 DEF l

LEMMA MessageUnwritten ==
    ASSUME NEW q \in Seq(Request), q # <<>>, InOrder(q), NEW r \in Request, NEW n \in Nat,
           r.visit = Head(q).visit, Head(q).op = "message", r.op = "lastMessage",
           Head(q).visit \in 1..n
    PROVE  /\ Unwritten(Append(Tail(q), r), n) = Unwritten(q, n) \ {Head(q).visit}
           /\ Head(q).visit \in Unwritten(q, n)
           /\ \A v \in Unwritten(q, n) : Head(q).visit <= v
<1> DEFINE l == Append(Tail(q), r)
           m == Len(q)
           h == Head(q).visit
<1>1. /\ m \in Nat /\ m >= 1 /\ Len(l) = m /\ Head(q) = q[1]
      /\ \A k \in 1..(m - 1) : l[k] = q[k + 1]
      /\ l[m] = r
  BY MovedQueue
<1>2. \A k \in 1..m : /\ q[k].op \in {"name", "message", "lastMessage"}
                      /\ q[k].visit \in Nat
  <2>1. \A k \in 1..m : q[k] \in Request
    OBVIOUS
  <2> HIDE DEF m
  <2> QED
    BY <2>1 DEF Request
<1> HIDE DEF l, m
<1>3. ASSUME NEW k \in 1..m, k # 1
      PROVE  /\ q[k].visit # h
             /\ q[k].op # "lastMessage" => h < q[k].visit
  <2>1. 1 \in 1..m /\ 1 < k
    BY <1>1, <1>3
  <2>2. /\ h # q[k].visit /\ (h > q[k].visit => Stage(q[1]) < Stage(q[k]))
        /\ Stage(q[1]) = 1 /\ h \in Nat
    BY <1>1, <1>2, <2>1 DEF InOrder, Stage, m
  <2>3. q[k].op # "lastMessage" => Stage(q[k]) \in {0, 1}
    BY <1>2 DEF Stage
  <2> QED
    BY <1>2, <2>2, <2>3
<1>4. ASSUME NEW v \in 1..n
      PROVE  (\E k \in 1..m : l[k].visit = v /\ l[k].op # "lastMessage") <=>
             (\E k \in 1..m : q[k].visit = v /\ q[k].op # "lastMessage") /\ v # h
  <2>1. ASSUME NEW k \in 1..m, l[k].visit = v, l[k].op # "lastMessage"
        PROVE  (\E j \in 1..m : q[j].visit = v /\ q[j].op # "lastMessage") /\ v # h
    <3>1. k # m
      BY <1>1, <2>1
    <3>2. k + 1 \in 1..m /\ k + 1 # 1 /\ l[k] = q[k + 1]
      BY <1>1, <3>1
    <3> QED
      BY <1>3, <2>1, <3>2
  <2>2. ASSUME NEW k \in 1..m, q[k].visit = v, q[k].op # "lastMessage", v # h
        PROVE  \E j \in 1..m : l[j].visit = v /\ l[j].op # "lastMessage"
    <3>1. k # 1
      BY <1>1, <2>2
    <3>2. k - 1 \in 1..(m - 1) /\ k - 1 \in 1..m /\ (k - 1) + 1 = k
      BY <1>1, <3>1
    <3>3. l[k - 1] = q[k]
      BY <1>1, <3>2
    <3> QED
      BY <2>2, <3>2, <3>3
  <2> QED
    BY <2>1, <2>2
<1>5. h \in Unwritten(q, n)
  BY <1>1 DEF Unwritten, m
<1>6. ASSUME NEW v \in Unwritten(q, n)
      PROVE  h <= v
  <2>1. PICK k \in 1..m : q[k].visit = v /\ q[k].op # "lastMessage"
    BY DEF Unwritten, m
  <2>2. CASE k = 1
    BY <1>1, <1>2, <2>1, <2>2
  <2>3. CASE k # 1
    BY <1>1, <1>2, <1>3, <2>1, <2>3
  <2> QED
    BY <2>2, <2>3
<1>7. Unwritten(l, n) = Unwritten(q, n) \ {h}
  BY <1>1, <1>4 DEF Unwritten, m
<1> QED
  BY <1>5, <1>6, <1>7 DEF l

LEMMA LastUnwritten ==
    ASSUME NEW q \in Seq(Request), q # <<>>, NEW n \in Nat, Head(q).op = "lastMessage"
    PROVE  Unwritten(Tail(q), n) = Unwritten(q, n)
<1> DEFINE m == Len(q)
<1>1. /\ m \in Nat /\ m >= 1 /\ Len(Tail(q)) = m - 1 /\ Head(q) = q[1]
      /\ \A k \in 1..(m - 1) : Tail(q)[k] = q[k + 1]
  <2>1. q[1] \in Request
    BY EmptySeq
  <2> QED
    BY <2>1, MovedQueue
<1> HIDE DEF m
<1>2. ASSUME NEW v, NEW k \in 1..m, q[k].visit = v, q[k].op # "lastMessage"
      PROVE  \E j \in 1..(m - 1) : Tail(q)[j].visit = v /\ Tail(q)[j].op # "lastMessage"
  <2>1. k - 1 \in 1..(m - 1) /\ (k - 1) + 1 = k
    BY <1>1, <1>2
  <2> QED
    BY <1>1, <1>2, <2>1
<1>3. ASSUME NEW v, NEW k \in 1..(m - 1), Tail(q)[k].visit = v, Tail(q)[k].op # "lastMessage"
      PROVE  \E j \in 1..m : q[j].visit = v /\ q[j].op # "lastMessage"
  <2>1. k + 1 \in 1..m
    BY <1>1
  <2> QED
    BY <1>1, <1>3, <2>1
<1> QED
  BY <1>1, <1>2, <1>3 DEF Unwritten, m

LEMMA SendUnwritten ==
    ASSUME NEW q \in Seq(Request), NEW r \in Request, NEW n \in Nat,
           r.op # "lastMessage", r.visit \in 1..n
    PROVE  Unwritten(Append(q, r), n) = Unwritten(q, n) \cup {r.visit}
<1> DEFINE l == Append(q, r)
           m == Len(q)
<1>1. /\ m \in Nat /\ Len(l) = m + 1 /\ l[m + 1] = r
      /\ \A k \in 1..m : l[k] = q[k]
  BY AppendProperties
<1> HIDE DEF l, m
<1>2. \A k \in 1..(m + 1) : k \in 1..m \/ k = m + 1
  BY <1>1
<1>3. m + 1 \in 1..(m + 1) /\ \A k \in 1..m : k \in 1..(m + 1)
  BY <1>1
<1> QED
  BY <1>1, <1>2, <1>3 DEF Unwritten, l, m
-----------------------------------------------------------------------------
(* The place of a number in a finite set of numbers.                       *)
Rank(S, v) == Cardinality({w \in S : w <= v})

LEMMA RankType ==
    ASSUME NEW n \in Nat, NEW S \in SUBSET (1..n)
    PROVE  /\ IsFiniteSet(S) /\ Cardinality(S) \in Nat
           /\ \A v \in S : Rank(S, v) \in 1..Cardinality(S)
<1>1. IsFiniteSet(1..n)
  BY FS_Interval
<1>2. IsFiniteSet(S) /\ Cardinality(S) \in Nat
  BY <1>1, FS_Subset, FS_CardinalityType
<1>3. ASSUME NEW v \in S
      PROVE  Rank(S, v) \in 1..Cardinality(S)
  <2> DEFINE T == {w \in S : w <= v}
  <2>1. T \subseteq S /\ T # {}
    OBVIOUS
  <2> HIDE DEF T
  <2>2. IsFiniteSet(T) /\ Cardinality(T) \in Nat /\ Cardinality(T) <= Cardinality(S)
    BY <1>2, <2>1, FS_Subset, FS_CardinalityType
  <2>3. Cardinality(T) # 0
    BY <2>1, <2>2, FS_EmptySet
  <2>4. Cardinality(T) \in 1..Cardinality(S)
    BY <1>2, <2>2, <2>3
  <2> QED
    BY <2>4 DEF Rank, T
<1> QED
  BY <1>2, <1>3

(* Without its least number, every other one comes one place earlier.      *)
LEMMA RankWithoutLeast ==
    ASSUME NEW n \in Nat, NEW S \in SUBSET (1..n), NEW h \in S, \A w \in S : h <= w
    PROVE  /\ Cardinality(S \ {h}) = Cardinality(S) - 1 /\ Rank(S, h) = 1
           /\ \A v \in S \ {h} : Rank(S \ {h}, v) = Rank(S, v) - 1
<1>1. IsFiniteSet(S) /\ Cardinality(S) \in Nat
  BY RankType
<1>2. Cardinality(S \ {h}) = Cardinality(S) - 1
  BY <1>1, FS_RemoveElement
<1>3. Rank(S, h) = 1
  <2>0. \A w \in S : w \in Nat /\ (w <= h => w = h)
    OBVIOUS
  <2>1. {w \in S : w <= h} = {h}
    BY <2>0
  <2> QED
    BY <2>1, FS_Singleton DEF Rank
<1>4. ASSUME NEW v \in S \ {h}
      PROVE  Rank(S \ {h}, v) = Rank(S, v) - 1
  <2> DEFINE T == {w \in S : w <= v}
  <2>1. {w \in S \ {h} : w <= v} = T \ {h} /\ h \in T /\ T \subseteq S
    OBVIOUS
  <2> HIDE DEF T
  <2>2. Cardinality(T \ {h}) = Cardinality(T) - 1
    BY <1>1, <2>1, FS_Subset, FS_RemoveElement
  <2> QED
    BY <2>1, <2>2 DEF Rank, T
<1> QED
  BY <1>2, <1>3, <1>4

(* A greater number comes last, and changes no place.                      *)
LEMMA RankWithGreater ==
    ASSUME NEW n \in Nat, NEW S \in SUBSET (1..n), NEW x \in 1..n, \A w \in S : w < x
    PROVE  /\ Cardinality(S \cup {x}) = Cardinality(S) + 1
           /\ Rank(S \cup {x}, x) = Cardinality(S) + 1
           /\ \A v \in S : Rank(S \cup {x}, v) = Rank(S, v)
<1>0. x \in Nat /\ x \notin S /\ \A w \in S : w \in Nat /\ w <= x
  OBVIOUS
<1>1. IsFiniteSet(S) /\ Cardinality(S) \in Nat
  BY RankType
<1>2. Cardinality(S \cup {x}) = Cardinality(S) + 1
  BY <1>0, <1>1, FS_AddElement
<1>3. {w \in S \cup {x} : w <= x} = S \cup {x}
  <2>1. \A w \in S \cup {x} : w <= x
    BY <1>0
  <2> QED
    BY <2>1
<1>4. \A v \in S : {w \in S \cup {x} : w <= v} = {w \in S : w <= v}
  BY <1>0
<1> QED
  BY <1>2, <1>3, <1>4 DEF Rank

(* A queue q, the fields f of the visits, the texts s he saw when he sent, *)
(* and w messages written: the fields of the visits still to be written    *)
(* hold the texts that are still to come, in order.                        *)
Carries(q, f, s, w) ==
    LET S == Unwritten(q, Len(f)) IN
    /\ InOrder(q)
    /\ w + Cardinality(S) <= Len(s)
    /\ \A v \in S : f[v] = s[w + Rank(S, v)]
    /\ \A k \in 1..Len(q) : q[k].op = "message" => q[k].text = f[q[k].visit]

LEMMA CarriesNothing ==
    ASSUME NEW f \in Seq(AnyText), NEW s \in Seq(AnyText), NEW w \in Nat, w <= Len(s)
    PROVE  Carries(<<>>, f, s, w) /\ Cardinality(Unwritten(<<>>, Len(f))) = 0
<1>1. Unwritten(<<>>, Len(f)) = {}
  BY DEF Unwritten
<1>2. Cardinality(Unwritten(<<>>, Len(f))) = 0
  BY <1>1, FS_EmptySet
<1>3. InOrder(<<>>)
  BY DEF InOrder
<1>4. Len(s) \in Nat /\ Len(<<>>) = 0
  OBVIOUS
<1> QED
  BY <1>1, <1>2, <1>3, <1>4 DEF Carries

LEMMA CarriesName ==
    ASSUME NEW q \in Seq(Request), q # <<>>, NEW f \in Seq(AnyText), NEW s, NEW w,
           Carries(q, f, s, w), OfVisits(q, Len(f)), NEW r \in Request,
           r.visit = Head(q).visit, Head(q).op = "name", r.op = "message",
           r.text = f[r.visit]
    PROVE  /\ Carries(Append(Tail(q), r), f, s, w)
           /\ Unwritten(Append(Tail(q), r), Len(f)) = Unwritten(q, Len(f))
<1> DEFINE l == Append(Tail(q), r)
<1>0. Len(f) \in Nat
  OBVIOUS
<1>1. InOrder(l)
  BY MoveInOrder DEF Carries, Stage
<1>2. Unwritten(l, Len(f)) = Unwritten(q, Len(f))
  BY <1>0, NameUnwritten
<1>3. ASSUME NEW k \in 1..Len(l), l[k].op = "message"
      PROVE  l[k].text = f[l[k].visit]
  <2>1. /\ Len(q) \in Nat /\ Len(l) = Len(q) /\ l[Len(q)] = r
        /\ \A j \in 1..(Len(q) - 1) : l[j] = q[j + 1]
    BY MovedQueue
  <2> HIDE DEF l
  <2>2. CASE k = Len(q)
    BY <2>1, <2>2
  <2>3. CASE k # Len(q)
    <3>1. k \in 1..(Len(q) - 1) /\ k + 1 \in 1..Len(q)
      BY <2>1, <2>3
    <3> QED
      BY <1>3, <2>1, <3>1 DEF Carries
  <2> QED
    BY <2>2, <2>3
<1> HIDE DEF l
<1> QED
  BY <1>1, <1>2, <1>3 DEF Carries, l

LEMMA CarriesMessage ==
    ASSUME NEW q \in Seq(Request), q # <<>>, NEW f \in Seq(AnyText), NEW s \in Seq(AnyText),
           NEW w \in Nat, Carries(q, f, s, w), OfVisits(q, Len(f)), NEW r \in Request,
           r.visit = Head(q).visit, Head(q).op = "message", r.op = "lastMessage",
           NEW g \in Seq(AnyText), Len(g) = Len(f),
           \A v \in 1..Len(f) : v # r.visit => g[v] = f[v]
    PROVE  /\ Carries(Append(Tail(q), r), g, s, w + 1)
           /\ Head(q).text = s[w + 1] /\ w + 1 <= Len(s)
           /\ Cardinality(Unwritten(Append(Tail(q), r), Len(g))) =
                 Cardinality(Unwritten(q, Len(f))) - 1
           /\ Head(q).text = f[Head(q).visit]
<1> DEFINE l == Append(Tail(q), r)
           h == Head(q).visit
           S == Unwritten(q, Len(f))
<1>0. Len(f) \in Nat /\ Len(g) = Len(f) /\ Len(s) \in Nat /\ DOMAIN f = 1..Len(f)
  OBVIOUS
<1>1. /\ Len(q) \in Nat /\ Len(q) >= 1 /\ Len(l) = Len(q) /\ l[Len(q)] = r /\ Head(q) = q[1]
      /\ \A j \in 1..(Len(q) - 1) : l[j] = q[j + 1]
  BY MovedQueue
<1>2. h \in 1..Len(f)
  BY <1>1 DEF OfVisits
<1>3. /\ Unwritten(l, Len(g)) = S \ {h} /\ h \in S /\ \A v \in S : h <= v
  <2>1. InOrder(q)
    BY DEF Carries
  <2> QED
    BY <1>0, <1>2, <2>1, MessageUnwritten
<1>4. S \in SUBSET (1..Len(f))
  BY DEF Unwritten
<1>5. /\ Cardinality(S) \in Nat /\ Cardinality(S \ {h}) = Cardinality(S) - 1
      /\ Rank(S, h) = 1
      /\ \A v \in S \ {h} : Rank(S \ {h}, v) = Rank(S, v) - 1 /\ Rank(S, v) \in Nat
      /\ Rank(S, h) \in 1..Cardinality(S)
  <2> HIDE DEF S, h
  <2>1. /\ Cardinality(S) \in Nat
        /\ \A v \in S : Rank(S, v) \in 1..Cardinality(S)
    BY <1>0, <1>4, RankType
  <2>2. /\ Cardinality(S \ {h}) = Cardinality(S) - 1 /\ Rank(S, h) = 1
        /\ \A v \in S \ {h} : Rank(S \ {h}, v) = Rank(S, v) - 1
    BY <1>0, <1>3, <1>4, RankWithoutLeast
  <2>3. \A v \in S : Rank(S, v) \in Nat
    BY <2>1
  <2> QED
    BY <1>3, <2>1, <2>2, <2>3, Zenon
<1>6. Head(q).text = f[h] /\ f[h] = s[w + 1] /\ w + Cardinality(S) <= Len(s)
  <2>1. 1 \in 1..Len(q)
    BY <1>1
  <2>2. Head(q).text = f[h]
    BY <1>1, <2>1 DEF Carries
  <2>3. f[h] = s[w + Rank(S, h)] /\ w + Cardinality(S) <= Len(s)
    BY <1>3 DEF Carries
  <2> QED
    BY <1>5, <2>2, <2>3
<1>7. InOrder(l)
  BY MoveInOrder DEF Carries, Stage
<1>8. ASSUME NEW v \in S \ {h}
      PROVE  g[v] = s[(w + 1) + Rank(S \ {h}, v)]
  <2>1. g[v] = f[v]
    BY <1>0, <1>4
  <2>2. f[v] = s[w + Rank(S, v)]
    BY DEF Carries
  <2> HIDE DEF S, h
  <2>3. (w + 1) + (Rank(S, v) - 1) = w + Rank(S, v)
    BY <1>5
  <2> QED
    BY <1>5, <2>1, <2>2, <2>3
<1>9. ASSUME NEW k \in 1..Len(l), l[k].op = "message"
      PROVE  l[k].text = g[l[k].visit]
  <2>1. k # Len(q)
    BY <1>1, <1>9
  <2>2. k \in 1..(Len(q) - 1) /\ k + 1 \in 1..Len(q) /\ l[k] = q[k + 1]
    <3> HIDE DEF l
    <3> QED
      BY <1>1, <2>1
  <2>3. q[k + 1].text = f[q[k + 1].visit]
    BY <1>9, <2>2 DEF Carries
  <2>4. q[k + 1].visit # h /\ q[k + 1].visit \in 1..Len(f)
    <3>1. 1 \in 1..Len(q) /\ 1 < k + 1
      BY <1>1, <2>2
    <3> QED
      BY <1>1, <2>2, <3>1 DEF Carries, InOrder, OfVisits
  <2> QED
    BY <1>0, <2>2, <2>3, <2>4
<1> HIDE DEF l, h, S
<1>10. /\ w + 1 <= Len(s)
       /\ (w + 1) + Cardinality(S \ {h}) <= Len(s)
  BY <1>0, <1>5, <1>6
<1>11. Carries(l, g, s, w + 1)
  BY <1>3, <1>7, <1>8, <1>9, <1>10 DEF Carries
<1> QED
  BY <1>3, <1>5, <1>6, <1>10, <1>11 DEF l, h, S

LEMMA CarriesLast ==
    ASSUME NEW q \in Seq(Request), q # <<>>, NEW f \in Seq(AnyText), NEW s, NEW w,
           Carries(q, f, s, w), Head(q).op = "lastMessage"
    PROVE  /\ Carries(Tail(q), f, s, w)
           /\ Unwritten(Tail(q), Len(f)) = Unwritten(q, Len(f))
<1> DEFINE l == Tail(q)
<1>0. Len(f) \in Nat
  OBVIOUS
<1>1. InOrder(l)
  BY TailInOrder DEF Carries
<1>2. Unwritten(l, Len(f)) = Unwritten(q, Len(f))
  BY <1>0, LastUnwritten
<1>3. ASSUME NEW k \in 1..Len(l), l[k].op = "message"
      PROVE  l[k].text = f[l[k].visit]
  <2>1. /\ Len(q) \in Nat /\ Len(l) = Len(q) - 1
        /\ \A j \in 1..(Len(q) - 1) : l[j] = q[j + 1]
    <3>1. q[1] \in Request
      BY EmptySeq
    <3> QED
      BY <3>1, MovedQueue
  <2> HIDE DEF l
  <2>2. k \in 1..(Len(q) - 1) /\ k + 1 \in 1..Len(q)
    BY <2>1
  <2> QED
    BY <1>3, <2>1, <2>2 DEF Carries
<1> HIDE DEF l
<1> QED
  BY <1>1, <1>2, <1>3 DEF Carries, l

LEMMA CarriesSend ==
    ASSUME NEW q \in Seq(Request), NEW f \in Seq(AnyText), NEW s \in Seq(AnyText),
           NEW w \in Nat, Carries(q, f, s, w), OfVisits(q, Len(f)), f # <<>>,
           \A k \in 1..Len(q) : q[k].visit # Len(f),
           w + Cardinality(Unwritten(q, Len(f))) = Len(s),
           NEW r \in Request, r.op = "name", r.visit = Len(f)
    PROVE  /\ Carries(Append(q, r), f, Append(s, f[Len(f)]), w)
           /\ w + Cardinality(Unwritten(Append(q, r), Len(f))) = Len(Append(s, f[Len(f)]))
<1> DEFINE l == Append(q, r)
           n == Len(f)
           S == Unwritten(q, n)
           t == Append(s, f[n])
<1>1. n \in Nat /\ n >= 1
  BY EmptySeq
<1>2. \A k \in 1..Len(q) : q[k].visit < n
  BY <1>1 DEF OfVisits
<1>3. InOrder(l)
  BY <1>2, AddInOrder DEF Carries
<1>4. Unwritten(l, n) = S \cup {n}
  <2>1. n \in 1..n
    BY <1>1
  <2> HIDE DEF n
  <2> QED
    BY <1>1, <2>1, SendUnwritten DEF n
<1>5. S \in SUBSET (1..n) /\ \A v \in S : v < n
  BY <1>2 DEF Unwritten
<1>6. /\ Cardinality(S) \in Nat
      /\ Cardinality(S \cup {n}) = Cardinality(S) + 1
      /\ Rank(S \cup {n}, n) = Cardinality(S) + 1
      /\ \A v \in S : Rank(S \cup {n}, v) = Rank(S, v) /\ Rank(S, v) \in 1..Cardinality(S)
  <2>1. n \in 1..n
    BY <1>1
  <2> HIDE DEF n, S
  <2> QED
    BY ZenonT(40), <1>1, <1>5, <2>1, RankType, RankWithGreater
<1>7. /\ Len(s) \in Nat /\ Len(t) = Len(s) + 1 /\ t[Len(s) + 1] = f[n]
      /\ \A k \in 1..Len(s) : t[k] = s[k]
  <2>1. f[n] \in AnyText
    BY <1>1, ElementOfSeq
  <2> QED
    BY <2>1, AppendProperties
<1> HIDE DEF t
<1>8. w + Cardinality(S) = Len(s) /\ \A v \in S : f[v] = s[w + Rank(S, v)]
  BY DEF Carries
<1>9. ASSUME NEW v \in S \cup {n}
      PROVE  f[v] = t[w + Rank(S \cup {n}, v)]
  <2> HIDE DEF n, S
  <2>1. CASE v = n
    <3>1. w + (Cardinality(S) + 1) = Len(s) + 1
      BY <1>6, <1>8
    <3> QED
      BY <1>6, <1>7, <2>1, <3>1
  <2>2. CASE v \in S
    <3>1. w + Rank(S, v) \in 1..Len(s)
      BY <1>6, <1>7, <1>8, <2>2
    <3> QED
      BY <1>6, <1>7, <1>8, <2>2, <3>1
  <2> QED
    BY <2>1, <2>2
<1>10. ASSUME NEW k \in 1..Len(l), l[k].op = "message"
       PROVE  l[k].text = f[l[k].visit]
  <2>1. /\ Len(q) \in Nat /\ Len(l) = Len(q) + 1 /\ l[Len(q) + 1] = r
        /\ \A j \in 1..Len(q) : l[j] = q[j]
    BY AppendProperties
  <2> HIDE DEF l
  <2>2. k # Len(q) + 1
    BY <1>10, <2>1
  <2>3. k \in 1..Len(q)
    BY <2>1, <2>2
  <2> QED
    BY <1>10, <2>1, <2>3 DEF Carries
<1> HIDE DEF l, n, S
<1>11. w + (Cardinality(S) + 1) = Len(t)
  BY <1>6, <1>7, <1>8
<1>12. w + Cardinality(S \cup {n}) <= Len(t) /\ w + Cardinality(S \cup {n}) = Len(t)
  BY <1>6, <1>7, <1>11
<1>13. Carries(l, f, t, w)
  BY <1>3, <1>4, <1>9, <1>10, <1>12 DEF Carries, n
<1> QED
  BY <1>4, <1>12, <1>13 DEF l, n, t

(* Typing into a field of which nothing is on its way, or a new visit.     *)
LEMMA CarriesType ==
    ASSUME NEW q \in Seq(Request), NEW f \in Seq(AnyText), NEW s, NEW w, NEW g \in Seq(AnyText),
           Carries(q, f, s, w), OfVisits(q, Len(f)), Len(g) >= Len(f),
           \A v \in 1..Len(f) : g[v] # f[v] => \A k \in 1..Len(q) : q[k].visit # v
    PROVE  /\ Carries(q, g, s, w)
           /\ Unwritten(q, Len(g)) = Unwritten(q, Len(f))
<1>1. Len(f) \in Nat /\ Len(g) \in Nat
  OBVIOUS
<1>2. Unwritten(q, Len(g)) = Unwritten(q, Len(f))
  BY <1>1 DEF Unwritten, OfVisits
<1>3. \A v \in Unwritten(q, Len(f)) : g[v] = f[v]
  BY DEF Unwritten
<1>4. \A k \in 1..Len(q) : g[q[k].visit] = f[q[k].visit]
  BY DEF OfVisits
<1> QED
  BY <1>2, <1>3, <1>4 DEF Carries
-----------------------------------------------------------------------------
(* How many of his messages are in the room.                               *)
Written(u) == Cardinality(Own(u, Len(log)))

(* A student's sends: those whose message is written, and those of his     *)
(* visits whose message is on its way, are all he made, unless the app     *)
(* crashed and took the latter with it.                                    *)
Way(u) ==
    /\ Carries(queue[u], field[u], sent[u], Written(u))
    /\ u \in crashed => u \notin open /\ queue[u] = <<>>
    /\ u \notin crashed =>
          Written(u) + Cardinality(Unwritten(queue[u], Len(field[u]))) = Len(sent[u])

OnWay == Steady => SentAsTyped /\ \A u \in User : Way(u)

LEMMA OwnType ==
    ASSUME log \in Seq(Message), NEW u
    PROVE  /\ \A n \in Nat : IsFiniteSet(Own(u, n)) /\ Cardinality(Own(u, n)) \in Nat
           /\ Written(u) \in Nat
<1>1. ASSUME NEW n \in Nat
      PROVE  IsFiniteSet(Own(u, n)) /\ Cardinality(Own(u, n)) \in Nat
  <2>1. IsFiniteSet(1..n) /\ Own(u, n) \subseteq 1..n
    BY FS_Interval DEF Own
  <2> QED
    BY <2>1, FS_Subset, FS_CardinalityType
<1>2. Len(log) \in Nat
  OBVIOUS
<1> QED
  BY <1>1, <1>2 DEF Written

(* A message of u is one more of his own, and of nobody else's.            *)
LEMMA OwnGrows ==
    ASSUME log \in Seq(Message), NEW u \in User, NEW t \in AnyText,
           log' = Append(log, [by |-> u, text |-> t])
    PROVE  /\ Len(log') = Len(log) + 1
           /\ log'[Len(log) + 1] = [by |-> u, text |-> t]
           /\ \A n \in 1..Len(log) : log'[n] = log[n]
           /\ \A v, n : n \in 1..Len(log) => Own(v, n)' = Own(v, n)
           /\ Written(u)' = Written(u) + 1
           /\ \A v : v # u => Written(v)' = Written(v)
<1> DEFINE m == [by |-> u, text |-> t]
           n == Len(log)
<1>1. /\ n \in Nat /\ Len(log') = n + 1 /\ log'[n + 1] = m
      /\ \A i \in 1..n : log'[i] = log[i]
  <2>1. m \in Message
    BY DEF Message
  <2>2. log' = Append(log, m)
    OBVIOUS
  <2> HIDE DEF m
  <2> QED
    BY <2>1, <2>2, AppendProperties
<1>2. m.by = u
  OBVIOUS
<1> HIDE DEF m, n
<1>3. ASSUME NEW v, NEW k, k \in 1..n
      PROVE  Own(v, k)' = Own(v, k)
  BY <1>1, <1>3 DEF Own
<1>4. \A v : {i \in 1..n : log'[i].by = v} = Own(v, n)
  BY <1>1 DEF Own
<1>5. \A v : {i \in 1..(n + 1) : log'[i].by = v} =
                 IF v = u THEN Own(v, n) \cup {n + 1} ELSE Own(v, n)
  BY <1>1, <1>2, <1>4
<1>6. \A v : Written(v)' = Cardinality(IF v = u THEN Own(v, n) \cup {n + 1} ELSE Own(v, n))
  BY <1>1, <1>5 DEF Written, Own
<1>7. Cardinality(Own(u, n) \cup {n + 1}) = Cardinality(Own(u, n)) + 1
  <2>1. n + 1 \notin Own(u, n)
    BY <1>1 DEF Own
  <2> QED
    BY <1>1, <2>1, OwnType, FS_AddElement
<1> QED
  BY <1>1, <1>3, <1>6, <1>7 DEF Written, n, m

LEMMA WayStays ==
    ASSUME NEW v \in User, Way(v), queue'[v] = queue[v], field'[v] = field[v],
           sent'[v] = sent[v], Written(v)' = Written(v),
           v \in crashed' <=> v \in crashed, v \in crashed => v \notin open'
    PROVE  Way(v)'
  BY DEF Way

LEMMA WrittenStays ==
    ASSUME log' = log
    PROVE  /\ \A v : Written(v)' = Written(v)
           /\ \A v, n : Own(v, n)' = Own(v, n)
  BY DEF Written, Own

(* Sent texts are added behind those that were sent.                       *)
LEMMA SentStays ==
    ASSUME SentAsTyped, Steady, log \in Seq(Message), log' = log,
           sent \in [User -> Seq(AnyText)],
           \A v \in User : \/ sent'[v] = sent[v]
                           \/ \E t \in AnyText : sent'[v] = Append(sent[v], t)
    PROVE  SentAsTyped'
<1> SUFFICES ASSUME NEW n \in DOMAIN log
             PROVE  LET u == log[n].by
                        k == Cardinality(Own(u, n))
                    IN  k <= Len(sent'[u]) /\ log[n].text = sent'[u][k]
  BY WrittenStays DEF SentAsTyped
<1> DEFINE u == log[n].by
           k == Cardinality(Own(u, n))
<1>1. n \in Nat /\ u \in User /\ DOMAIN log = 1..Len(log) /\ n \in 1..n
  <2>1. n \in 1..Len(log) /\ Len(log) \in Nat /\ DOMAIN log = 1..Len(log)
    OBVIOUS
  <2>2. log[n] \in Message
    BY <2>1, ElementOfSeq
  <2>3. u \in User
    BY <2>2 DEF Message
  <2> HIDE DEF u, k
  <2> QED
    BY <2>1, <2>3
<1>2. k \in Nat /\ k # 0
  <2>1. IsFiniteSet(Own(u, n)) /\ k \in Nat
    BY <1>1, OwnType
  <2>2. n \in Own(u, n)
    BY <1>1 DEF Own
  <2> QED
    BY <2>1, <2>2, FS_EmptySet
<1>3. k <= Len(sent[u]) /\ log[n].text = sent[u][k]
  BY DEF SentAsTyped
<1>4. sent[u] \in Seq(AnyText)
  BY <1>1
<1> HIDE DEF u, k
<1>5. CASE sent'[u] = sent[u]
  BY <1>3, <1>5 DEF u, k
<1>6. ASSUME NEW t \in AnyText, sent'[u] = Append(sent[u], t)
      PROVE  k <= Len(sent'[u]) /\ sent'[u][k] = sent[u][k]
  <2>1. /\ Len(sent[u]) \in Nat /\ Len(sent'[u]) = Len(sent[u]) + 1
        /\ \A i \in 1..Len(sent[u]) : sent'[u][i] = sent[u][i]
    BY <1>4, <1>6, AppendProperties
  <2> QED
    BY <1>2, <1>3, <2>1
<1> QED
  BY <1>1, <1>3, <1>5, <1>6 DEF u, k

LEMMA InitOnWay == Init => OnWay
<1> SUFFICES ASSUME Init PROVE OnWay
  OBVIOUS
<1>1. SentAsTyped
  BY DEF Init, SentAsTyped
<1>2. ASSUME NEW u \in User PROVE Way(u)
  <2>1. Written(u) = 0
    <3>1. Own(u, Len(log)) = {}
      BY DEF Init, Own
    <3> QED
      BY <3>1, FS_EmptySet DEF Written
  <2>2. queue[u] = <<>> /\ field[u] = <<>> /\ sent[u] = <<>> /\ crashed = {}
    BY DEF Init
  <2>3. PICK e \in Seq(AnyText) : e = <<>> /\ Len(e) = 0
    <3>1. <<>> \in Seq(AnyText) /\ Len(<<>>) = 0
      OBVIOUS
    <3> QED
      BY <3>1, Zenon
  <2>4. 0 \in Nat /\ 0 <= Len(e)
    BY <2>3
  <2>5. Carries(<<>>, e, e, 0) /\ Cardinality(Unwritten(<<>>, Len(e))) = 0
    BY <2>4, CarriesNothing
  <2> QED
    BY <2>1, <2>2, <2>3, <2>5 DEF Way
<1> QED
  BY <1>1, <1>2 DEF OnWay

(* What his queue, his fields and his sends are made of.                   *)
LEMMA WayTypes ==
    ASSUME IInv, NEW u \in User
    PROVE  /\ log \in Seq(Message) /\ queue[u] \in Seq(Request)
           /\ field[u] \in Seq(AnyText) /\ sent[u] \in Seq(AnyText) /\ Written(u) \in Nat
           /\ OfVisits(queue[u], Len(field[u])) /\ Len(field[u]) \in Nat
           /\ u \in open => field[u] # <<>>
<1>1. /\ log \in Seq(Message) /\ queue[u] \in Seq(Request)
      /\ field[u] \in Seq(AnyText) /\ sent[u] \in Seq(AnyText)
  BY DEF IInv, TypeOK
<1> QED
  BY <1>1, OwnType DEF IInv, Visited, OfVisits

(* Steps that leave the requests and what was sent alone.                  *)
LEMMA IdleOnWay ==
    ASSUME IInv, OnWay, Steady, NEW u \in User,
           Participate(u) \/ CloseRoom(u) \/ AnswerEntrance(u)
    PROVE  SentAsTyped' /\ \A v \in User : Way(v)'
<1>1. UNCHANGED <<log, field, queue, sent, crashed>> /\ open' \subseteq open
  BY DEF Participate, CloseRoom, AnswerEntrance, server, input
<1>2. SentAsTyped'
  BY <1>1, SentStays DEF OnWay, IInv, TypeOK
<1>3. \A v \in User : Way(v)'
  <2>1. \A v \in User : v \in crashed => v \notin open'
    BY <1>1 DEF OnWay, Way
  <2> QED
    BY <1>1, <2>1, WrittenStays, WayStays DEF OnWay
<1> QED
  BY <1>2, <1>3

LEMMA OpenOnWay ==
    ASSUME IInv, OnWay, Steady, NEW u \in User, OpenRoom(u)
    PROVE  SentAsTyped' /\ \A v \in User : Way(v)'
<1>1. /\ UNCHANGED <<log, queue, sent, crashed>> /\ open' = open \cup {u}
      /\ u \notin crashed /\ field' = [field EXCEPT ![u] = Append(field[u], Blank)]
  BY DEF OpenRoom, server
<1>2. SentAsTyped'
  BY <1>1, SentStays DEF OnWay, IInv, TypeOK
<1>3. field \in [User -> Seq(AnyText)] /\ Blank \in AnyText
  BY DEF IInv, TypeOK, AnyText
<1>4. \A v \in User : v # u => Way(v)'
  <2>1. \A v \in User : v # u => field'[v] = field[v] /\ (v \in crashed => v \notin open')
    BY <1>1, <1>3 DEF OnWay, Way
  <2> QED
    BY <1>1, <2>1, WrittenStays, WayStays DEF OnWay
<1>5. Way(u)'
  <2> DEFINE g == Append(field[u], Blank)
  <2>1. /\ g \in Seq(AnyText) /\ Len(g) >= Len(field[u])
        /\ \A k \in 1..Len(field[u]) : g[k] = field[u][k]
    <3>1. field[u] \in Seq(AnyText)
      BY <1>3
    <3>2. /\ Append(field[u], Blank) \in Seq(AnyText)
          /\ Len(Append(field[u], Blank)) = Len(field[u]) + 1
          /\ \A k \in 1..Len(field[u]) : Append(field[u], Blank)[k] = field[u][k]
      BY <1>3, <3>1, AppendProperties
    <3>3. Len(field[u]) \in Nat
      BY <3>1
    <3> HIDE DEF g
    <3> QED
      BY <3>2, <3>3 DEF g
  <2> HIDE DEF g
  <2>2. /\ Carries(queue[u], g, sent[u], Written(u))
        /\ Unwritten(queue[u], Len(g)) = Unwritten(queue[u], Len(field[u]))
    <3>1. Carries(queue[u], field[u], sent[u], Written(u))
      BY DEF OnWay, Way
    <3>2. \A k \in 1..Len(field[u]) : g[k] # field[u][k] =>
             \A j \in 1..Len(queue[u]) : queue[u][j].visit # k
      BY <2>1
    <3>3. /\ queue[u] \in Seq(Request) /\ field[u] \in Seq(AnyText)
          /\ OfVisits(queue[u], Len(field[u]))
      BY WayTypes
    <3> QED
      BY <2>1, <3>1, <3>2, <3>3, CarriesType
  <2>3. field'[u] = g /\ Written(u)' = Written(u)
    BY <1>1, <1>3, WrittenStays DEF g
  <2> QED
    BY <1>1, <2>2, <2>3 DEF OnWay, Way
<1> QED
  BY <1>2, <1>4, <1>5

LEMMA HearOnWay ==
    ASSUME IInv, OnWay, Steady, NEW u \in User, Hear(u)
    PROVE  SentAsTyped' /\ \A v \in User : Way(v)'
<1>1. UNCHANGED <<log, field, sent>>
  BY DEF Hear, server, input
<1>2. \/ UNCHANGED <<open, queue, crashed>>
      \/ /\ crashed' = crashed \cup {u} /\ open' = open \ {u}
         /\ queue' = [queue EXCEPT ![u] = <<>>]
  BY DEF Hear
<1>3. SentAsTyped'
  BY <1>1, SentStays DEF OnWay, IInv, TypeOK
<1>4. queue \in [User -> Seq(Request)]
  BY DEF IInv, TypeOK
<1>5. \A v \in User : v # u \/ UNCHANGED <<open, queue, crashed>> => Way(v)'
  <2>1. \A v \in User : v # u \/ UNCHANGED <<open, queue, crashed>> =>
            /\ queue'[v] = queue[v] /\ (v \in crashed' <=> v \in crashed)
            /\ v \in crashed => v \notin open'
    BY <1>2, <1>4 DEF OnWay, Way
  <2> QED
    BY <1>1, <2>1, WrittenStays, WayStays DEF OnWay
<1>6. CASE /\ crashed' = crashed \cup {u} /\ open' = open \ {u}
           /\ queue' = [queue EXCEPT ![u] = <<>>]
  <2>1. Carries(<<>>, field[u], sent[u], Written(u))
    <3> DEFINE S == Unwritten(queue[u], Len(field[u]))
    <3>1. Written(u) + Cardinality(S) <= Len(sent[u])
      BY DEF OnWay, Way, Carries
    <3>2. S \in SUBSET (1..Len(field[u]))
      BY DEF Unwritten
    <3> HIDE DEF S
    <3>3. Cardinality(S) \in Nat
      BY <3>2, WayTypes, RankType
    <3>4. Len(sent[u]) \in Nat /\ Written(u) \in Nat
      BY WayTypes
    <3>5. Written(u) <= Len(sent[u])
      BY <3>1, <3>3, <3>4
    <3> QED
      BY <3>5, WayTypes, CarriesNothing
  <2>2. /\ queue'[u] = <<>> /\ field'[u] = field[u] /\ sent'[u] = sent[u]
        /\ Written(u)' = Written(u) /\ u \in crashed' /\ u \notin open'
    BY <1>1, <1>4, <1>6, WrittenStays
  <2>3. Way(u)'
    BY <2>1, <2>2 DEF Way
  <2> QED
    BY <1>3, <1>5, <2>3
<1> QED
  BY <1>2, <1>3, <1>5, <1>6

LEMMA TypeOnWay ==
    ASSUME IInv, OnWay, Steady, NEW u \in User, NEW t \in AnyText, Type(u, t)
    PROVE  SentAsTyped' /\ \A v \in User : Way(v)'
<1>1. /\ UNCHANGED <<log, open, queue, sent, crashed>> /\ ~Sending(u) /\ u \in open
      /\ field' = [field EXCEPT ![u][Visit(u)] = t]
  BY DEF Type, Steady, server
<1>2. SentAsTyped'
  BY <1>1, SentStays DEF OnWay, IInv, TypeOK
<1>3. field \in [User -> Seq(AnyText)]
  BY DEF IInv, TypeOK
<1>4. \A v \in User : v # u => Way(v)'
  <2>1. \A v \in User : v # u => field'[v] = field[v] /\ (v \in crashed => v \notin open')
    BY <1>1, <1>3 DEF OnWay, Way
  <2> QED
    BY <1>1, <2>1, WrittenStays, WayStays DEF OnWay
<1>5. Way(u)'
  <2> DEFINE g == [field[u] EXCEPT ![Visit(u)] = t]
  <2>1. Visit(u) \in 1..Len(field[u])
    BY <1>1, WayTypes, EmptySeq DEF Visit
  <2>2. g \in Seq(AnyText) /\ Len(g) = Len(field[u])
    BY <1>3, <2>1, ExceptSeq
  <2>3. \A k \in 1..Len(field[u]) : g[k] # field[u][k] => k = Visit(u)
    BY <1>3
  <2>4. \A k \in 1..Len(queue[u]) : queue[u][k].visit # Visit(u)
    BY <1>1, WayTypes DEF Sending
  <2> HIDE DEF g
  <2>5. Len(g) >= Len(field[u])
    BY <2>2, WayTypes
  <2>6. /\ Carries(queue[u], g, sent[u], Written(u))
        /\ Unwritten(queue[u], Len(g)) = Unwritten(queue[u], Len(field[u]))
    BY <2>2, <2>3, <2>4, <2>5, WayTypes, CarriesType DEF OnWay, Way
  <2>7. field'[u] = g /\ Written(u)' = Written(u)
    BY <1>1, <1>3, WrittenStays DEF g
  <2> QED
    BY <1>1, <2>6, <2>7 DEF OnWay, Way
<1> QED
  BY <1>2, <1>4, <1>5

LEMMA SendOnWay ==
    ASSUME IInv, OnWay, Steady, NEW u \in User, Send(u)
    PROVE  SentAsTyped' /\ \A v \in User : Way(v)'
<1> DEFINE r == [op |-> "name", text |-> Blank, visit |-> Visit(u)]
           x == field[u][Visit(u)]
<1>1. /\ UNCHANGED <<log, open, field, crashed>> /\ ~Sending(u) /\ u \in open
      /\ queue' = [queue EXCEPT ![u] = Append(queue[u], r)]
      /\ sent' = [sent EXCEPT ![u] = Append(sent[u], x)]
  BY DEF Send, AskName, Calm, Steady, server, input
<1>2. /\ queue \in [User -> Seq(Request)] /\ sent \in [User -> Seq(AnyText)]
  BY DEF IInv, TypeOK
<1>3. Visit(u) \in 1..Len(field[u]) /\ Visit(u) \in Nat /\ Visit(u) = Len(field[u])
  BY <1>1, WayTypes, EmptySeq DEF Visit
<1>4. x \in AnyText
  BY <1>3, WayTypes, ElementOfSeq
<1>5. r \in Request /\ r.op = "name" /\ r.visit = Len(field[u])
  BY <1>3 DEF Request, AnyText
<1> HIDE DEF r
<1>6. SentAsTyped'
  <2>1. \A v \in User : sent'[v] = sent[v] \/ \E t \in AnyText : sent'[v] = Append(sent[v], t)
    BY <1>1, <1>2, <1>4
  <2> QED
    BY <1>1, <2>1, SentStays DEF OnWay, IInv, TypeOK
<1>7. \A v \in User : v # u => Way(v)'
  <2>1. \A v \in User : v # u => /\ queue'[v] = queue[v] /\ sent'[v] = sent[v]
                                 /\ v \in crashed => v \notin open'
    BY <1>1, <1>2 DEF OnWay, Way
  <2> QED
    BY <1>1, <2>1, WrittenStays, WayStays DEF OnWay
<1>8. Way(u)'
  <2>1. \A k \in 1..Len(queue[u]) : queue[u][k].visit # Len(field[u])
    BY <1>1, <1>3, WayTypes DEF Sending
  <2>2. u \notin crashed /\ Way(u)
    BY <1>1 DEF OnWay, Way
  <2>3. /\ Carries(Append(queue[u], r), field[u], Append(sent[u], x), Written(u))
        /\ Written(u) + Cardinality(Unwritten(Append(queue[u], r), Len(field[u])))
              = Len(Append(sent[u], x))
    <3>1. x = field[u][Len(field[u])]
      BY <1>3
    <3> HIDE DEF x
    <3>2. /\ Carries(queue[u], field[u], sent[u], Written(u))
          /\ Written(u) + Cardinality(Unwritten(queue[u], Len(field[u]))) = Len(sent[u])
      BY <2>2 DEF Way
    <3>3. /\ queue[u] \in Seq(Request) /\ field[u] \in Seq(AnyText)
          /\ sent[u] \in Seq(AnyText) /\ Written(u) \in Nat
          /\ OfVisits(queue[u], Len(field[u])) /\ field[u] # <<>>
      BY <1>1, WayTypes
    <3> QED
      BY ZenonT(40), <1>5, <2>1, <3>1, <3>2, <3>3, CarriesSend
  <2>4. /\ queue'[u] = Append(queue[u], r) /\ sent'[u] = Append(sent[u], x)
        /\ field'[u] = field[u] /\ Written(u)' = Written(u) /\ u \notin crashed'
    BY <1>1, <1>2, <2>2, WrittenStays
  <2> QED
    BY <2>3, <2>4 DEF Way
<1> QED
  BY <1>6, <1>7, <1>8

(* A student one of whose requests is served has not crashed.              *)
LEMMA NameOnWay ==
    ASSUME IInv, OnWay, Steady, NEW u \in User, AnswerName(u)
    PROVE  SentAsTyped' /\ \A v \in User : Way(v)'
<1> DEFINE q == queue[u]
           r == [op |-> "message", text |-> Field(u), visit |-> Head(q).visit]
<1>1. /\ UNCHANGED <<log, open, field, sent, crashed>> /\ q # <<>> /\ Head(q).op = "name"
      /\ queue' = [queue EXCEPT ![u] = Append(Tail(q), r)]
  BY DEF AnswerName, Serves, Busy, Then, server, input
<1>2. queue \in [User -> Seq(Request)]
  BY DEF IInv, TypeOK
<1>3. SentAsTyped'
  BY <1>1, SentStays DEF OnWay, IInv, TypeOK
<1>4. \A v \in User : v # u => Way(v)'
  <2>1. \A v \in User : v # u => queue'[v] = queue[v] /\ (v \in crashed => v \notin open')
    BY <1>1, <1>2 DEF OnWay, Way
  <2> QED
    BY <1>1, <2>1, WrittenStays, WayStays DEF OnWay
<1>5. /\ r \in Request /\ r.op = "message" /\ r.visit = Head(q).visit
      /\ r.text = field[u][r.visit]
  <2>1. Field(u) \in AnyText /\ Head(q) \in Request
    BY <1>1, Served DEF Busy
  <2>2. Head(q).visit \in Nat
    BY <2>1 DEF Request
  <2>3. Field(u) = field[u][Head(q).visit]
    BY DEF Field
  <2> QED
    BY <2>1, <2>2, <2>3 DEF Request
<1> HIDE DEF r
<1>6. /\ Carries(Append(Tail(q), r), field[u], sent[u], Written(u))
      /\ Unwritten(Append(Tail(q), r), Len(field[u])) = Unwritten(q, Len(field[u]))
  BY <1>1, <1>5, WayTypes, CarriesName DEF OnWay, Way
<1>7. /\ queue'[u] = Append(Tail(q), r) /\ sent'[u] = sent[u] /\ field'[u] = field[u]
      /\ Written(u)' = Written(u) /\ u \notin crashed /\ u \notin crashed' /\ Way(u)
  BY <1>1, <1>2, WrittenStays DEF OnWay, Way
<1>8. Way(u)'
  BY <1>6, <1>7 DEF Way
<1> QED
  BY <1>3, <1>4, <1>8

LEMMA LastOnWay ==
    ASSUME IInv, OnWay, Steady, NEW u \in User, WriteLast(u)
    PROVE  SentAsTyped' /\ \A v \in User : Way(v)'
<1> DEFINE q == queue[u]
<1>1. /\ UNCHANGED <<log, open, field, sent, crashed>> /\ q # <<>>
      /\ Head(q).op = "lastMessage" /\ queue' = [queue EXCEPT ![u] = Tail(q)]
  BY DEF WriteLast, Serves, Busy, input
<1>2. queue \in [User -> Seq(Request)]
  BY DEF IInv, TypeOK
<1>3. SentAsTyped'
  BY <1>1, SentStays DEF OnWay, IInv, TypeOK
<1>4. \A v \in User : v # u => Way(v)'
  <2>1. \A v \in User : v # u => queue'[v] = queue[v] /\ (v \in crashed => v \notin open')
    BY <1>1, <1>2 DEF OnWay, Way
  <2> QED
    BY <1>1, <2>1, WrittenStays, WayStays DEF OnWay
<1>5. /\ Carries(Tail(q), field[u], sent[u], Written(u))
      /\ Unwritten(Tail(q), Len(field[u])) = Unwritten(q, Len(field[u]))
  BY <1>1, WayTypes, CarriesLast DEF OnWay, Way
<1>6. /\ queue'[u] = Tail(q) /\ sent'[u] = sent[u] /\ field'[u] = field[u]
      /\ Written(u)' = Written(u) /\ u \notin crashed /\ u \notin crashed' /\ Way(u)
  BY <1>1, <1>2, WrittenStays DEF OnWay, Way
<1>7. Way(u)'
  BY <1>5, <1>6 DEF Way
<1> QED
  BY <1>3, <1>4, <1>7

(* Of the messages l, the n-th has the text its student sent.              *)
AsTyped(l, s, n) ==
    LET u == l[n].by
        k == Cardinality({i \in 1..n : l[i].by = u})
    IN  k <= Len(s[u]) /\ l[n].text = s[u][k]

(* The message that is written is the next one of those he sent.           *)
LEMMA MessageOnWay ==
    ASSUME IInv, OnWay, Steady, NEW u \in User, WriteMessage(u)
    PROVE  SentAsTyped' /\ \A v \in User : Way(v)'
<1> DEFINE q == queue[u]
           t == Head(queue[u]).text
           r == [op |-> "lastMessage", text |-> Field(u), visit |-> Head(queue[u]).visit]
           g == [field[u] EXCEPT ![Head(queue[u]).visit] = Blank]
           w == Written(u)
<1>1. /\ UNCHANGED <<open, sent, crashed>> /\ q # <<>> /\ Head(q).op = "message"
      /\ queue' = [queue EXCEPT ![u] = Append(Tail(q), r)]
      /\ field' = [field EXCEPT ![u] = g]
      /\ log' = Append(log, [by |-> u, text |-> t])
  BY DEF WriteMessage, Serves, Busy, Then, Cleared
<1>2. /\ queue \in [User -> Seq(Request)] /\ field \in [User -> Seq(AnyText)]
      /\ log \in Seq(Message) /\ Blank \in AnyText
  BY DEF IInv, TypeOK, AnyText
<1>3. /\ Field(u) \in AnyText /\ Head(q) \in Request
  BY <1>1, Served DEF Busy
<1>4. t \in AnyText /\ Head(q).visit \in Nat
  BY <1>3 DEF Request
<1>5. r \in Request /\ r.op = "lastMessage" /\ r.visit = Head(q).visit
  BY <1>3, <1>4 DEF Request
<1>6. /\ g \in Seq(AnyText) /\ Len(g) = Len(field[u])
      /\ \A v \in 1..Len(field[u]) : v # r.visit => g[v] = field[u][v]
  <2>1. field[u] \in Seq(AnyText) /\ Head(q).visit \in 1..Len(field[u])
    BY <1>1, <1>2, WayTypes, Served DEF Busy
  <2>2. \A v \in 1..Len(field[u]) : v # Head(q).visit => g[v] = field[u][v]
    BY <2>1
  <2>3. g \in Seq(AnyText) /\ Len(g) = Len(field[u])
    BY <1>2, <2>1, ExceptSeq
  <2> HIDE DEF g
  <2> QED
    BY <2>2, <2>3
<1>7. /\ Len(log) \in Nat /\ Len(log') = Len(log) + 1
      /\ log'[Len(log) + 1] = [by |-> u, text |-> t]
      /\ \A n \in 1..Len(log) : log'[n] = log[n]
      /\ \A v, n : n \in 1..Len(log) => Own(v, n)' = Own(v, n)
      /\ Written(u)' = w + 1
      /\ \A v : v # u => Written(v)' = Written(v)
  BY <1>1, <1>2, <1>4, OwnGrows
<1>8. /\ Carries(q, field[u], sent[u], w) /\ u \notin crashed /\ SentAsTyped
      /\ w + Cardinality(Unwritten(q, Len(field[u]))) = Len(sent[u])
  BY <1>1 DEF OnWay, Way
<1>9. /\ q \in Seq(Request) /\ field[u] \in Seq(AnyText) /\ sent[u] \in Seq(AnyText)
      /\ w \in Nat /\ OfVisits(q, Len(field[u]))
  BY WayTypes
<1>10. /\ queue'[u] = Append(Tail(q), r) /\ field'[u] = g /\ sent'[u] = sent[u]
       /\ u \notin crashed'
  BY <1>1, <1>2, <1>8
<1>11. \A v \in User : v # u => Way(v)'
  <2>1. \A v \in User : v # u => /\ queue'[v] = queue[v] /\ field'[v] = field[v]
                                 /\ v \in crashed => v \notin open'
    BY <1>1, <1>2 DEF OnWay, Way
  <2> QED
    BY <1>1, <1>7, <2>1, WayStays DEF OnWay
<1> HIDE DEF r, g, t, w
<1>12. /\ Carries(Append(Tail(q), r), g, sent[u], w + 1)
       /\ Head(q).text = sent[u][w + 1] /\ w + 1 <= Len(sent[u])
       /\ Cardinality(Unwritten(Append(Tail(q), r), Len(g))) =
             Cardinality(Unwritten(q, Len(field[u]))) - 1
  <2>1. q # <<>> /\ Head(q).op = "message"
    BY <1>1
  <2> HIDE DEF q
  <2>2. PICK f \in Seq(AnyText) : f = field[u]
    BY <1>9
  <2>3. /\ g \in Seq(AnyText) /\ Len(g) = Len(f)
        /\ \A v \in 1..Len(f) : v # r.visit => g[v] = f[v]
    BY <1>6, <2>2
  <2>4. Carries(q, f, sent[u], w) /\ OfVisits(q, Len(f))
    BY <1>8, <1>9, <2>2
  <2>5. q \in Seq(Request) /\ sent[u] \in Seq(AnyText) /\ w \in Nat
    BY <1>9
  <2>6. /\ r \in Request /\ r.visit = Head(q).visit /\ r.op = "lastMessage"
    BY <1>5
  <2>7. /\ Carries(Append(Tail(q), r), g, sent[u], w + 1)
        /\ Head(q).text = sent[u][w + 1] /\ w + 1 <= Len(sent[u])
        /\ Cardinality(Unwritten(Append(Tail(q), r), Len(g))) =
              Cardinality(Unwritten(q, Len(f))) - 1
    BY <2>1, <2>3, <2>4, <2>5, <2>6, CarriesMessage
  <2> QED
    BY <2>2, <2>7
<1>13. Way(u)'
  <2>1. Cardinality(Unwritten(q, Len(field[u]))) \in Nat
    <3>1. Unwritten(q, Len(field[u])) \in SUBSET (1..Len(field[u])) /\ Len(field[u]) \in Nat
      BY <1>9 DEF Unwritten
    <3> QED
      BY <3>1, RankType
  <2>2. (w + 1) + (Cardinality(Unwritten(q, Len(field[u]))) - 1) = Len(sent[u])
    BY <1>8, <1>9, <2>1
  <2> QED
    BY <1>7, <1>10, <1>12, <2>2 DEF Way
<1>14. SentAsTyped'
  <2> SUFFICES ASSUME NEW n \in DOMAIN log'
               PROVE  AsTyped(log', sent', n)
    BY DEF SentAsTyped, AsTyped, Own
  <2>1. n \in 1..(Len(log) + 1) /\ DOMAIN log = 1..Len(log)
    <3>1. log' \in Seq(Message)
      <4>1. [by |-> u, text |-> t] \in Message
        BY <1>4 DEF Message, t
      <4> QED
        BY <1>1, <1>2, <4>1, AppendProperties
    <3> QED
      BY <1>2, <1>7, <3>1
  <2>2. CASE n \in 1..Len(log)
    <3>1. \A i \in 1..n : log'[i] = log[i] /\ n \in 1..n
      BY <1>7, <2>2
    <3>2. {i \in 1..n : log'[i].by = log'[n].by} = {i \in 1..n : log[i].by = log[n].by}
      BY <3>1
    <3>3. AsTyped(log, sent, n)
      BY <1>8, <2>1, <2>2 DEF SentAsTyped, AsTyped, Own
    <3>4. log'[n].by = log[n].by /\ log'[n].text = log[n].text /\ sent' = sent
      BY <1>1, <3>1
    <3>5. {i \in 1..n : log'[i].by = log[n].by} = {i \in 1..n : log[i].by = log[n].by}
      BY <3>2, <3>4
    <3> QED
      BY <3>3, <3>4, <3>5, Zenon DEF AsTyped
  <2>3. CASE n = Len(log) + 1
    <3>1. log'[n].by = u /\ log'[n].text = t
      BY <1>7, <2>3
    <3>2. Cardinality({i \in 1..n : log'[i].by = u}) = w + 1
      BY <1>7, <2>3 DEF Written, Own
    <3>3. t = sent[u][w + 1] /\ w + 1 <= Len(sent[u]) /\ sent' = sent
      BY <1>1, <1>12 DEF t
    <3> QED
      BY <3>1, <3>2, <3>3 DEF AsTyped
  <2> QED
    BY <1>7, <2>1, <2>2, <2>3
<1> QED
  BY <1>11, <1>13, <1>14

LEMMA NextOnWay == IInv /\ OnWay /\ [Next]_vars => OnWay'
<1> SUFFICES ASSUME IInv, OnWay, [Next]_vars, Steady
             PROVE  SentAsTyped' /\ \A v \in User : Way(v)'
  <2>1. CASE Next
    BY <2>1 DEF OnWay, Next, Steady
  <2>2. CASE UNCHANGED vars
    BY <2>2 DEF OnWay, vars, Steady
  <2> QED
    BY <2>1, <2>2
<1>1. CASE UNCHANGED vars
  <2>1. UNCHANGED <<regime, log, open, field, queue, sent, crashed>>
    BY <1>1 DEF vars, server, input
  <2>2. SentAsTyped'
    BY <2>1, SentStays DEF OnWay, IInv, TypeOK
  <2> QED
    BY <2>1, <2>2, WrittenStays, WayStays DEF OnWay, Way
<1>2. CASE Next
  <2>1. PICK u \in User : Step(u)
    BY <1>2 DEF Next
  <2>2. \/ Participate(u) \/ CloseRoom(u) \/ AnswerEntrance(u)
        \/ OpenRoom(u) \/ Hear(u) \/ (\E t \in AnyText : Type(u, t))
        \/ Send(u) \/ AnswerName(u) \/ WriteMessage(u) \/ WriteLast(u)
    BY <2>1 DEF Step, Serve, FailEntrance, FailRequest, Steady
  <2>3. CASE Participate(u) \/ CloseRoom(u) \/ AnswerEntrance(u)
    BY <2>3, IdleOnWay
  <2>4. CASE OpenRoom(u)
    BY <2>4, OpenOnWay
  <2>5. CASE Hear(u)
    BY <2>5, HearOnWay
  <2>6. CASE \E t \in AnyText : Type(u, t)
    BY <2>6, TypeOnWay
  <2>7. CASE Send(u)
    BY <2>7, SendOnWay
  <2>8. CASE AnswerName(u)
    BY <2>8, NameOnWay
  <2>9. CASE WriteMessage(u)
    BY <2>9, MessageOnWay
  <2>10. CASE WriteLast(u)
    BY <2>10, LastOnWay
  <2> QED
    BY <2>2, <2>3, <2>4, <2>5, <2>6, <2>7, <2>8, <2>9, <2>10
<1> QED
  BY <1>1, <1>2
-----------------------------------------------------------------------------
(* A queue without a write of lastMessage, and one whose last such write   *)
(* has the text t.                                                         *)
IsLast(q, k) == k \in 1..Len(q) /\ q[k].op = "lastMessage"
NoLast(q)    == \A k \in 1..Len(q) : ~IsLast(q, k)
EndsWith(q, t) ==
    \A k \in 1..Len(q) :
        IsLast(q, k) /\ (\A j \in 1..Len(q) : j > k => ~IsLast(q, j)) => q[k].text = t

LEMMA AppendOther ==
    ASSUME NEW q \in Seq(Request), NEW r \in Request, r.op # "lastMessage", NEW t
    PROVE  /\ NoLast(Append(q, r)) => NoLast(q)
           /\ EndsWith(q, t) => EndsWith(Append(q, r), t)
<1> DEFINE l == Append(q, r)
<1>1. /\ Len(q) \in Nat /\ Len(l) = Len(q) + 1 /\ l[Len(q) + 1] = r
      /\ \A k \in 1..Len(q) : l[k] = q[k]
  BY AppendProperties
<1> HIDE DEF l
<1>2. \A k : k \in 1..Len(l) <=> k \in 1..Len(q) \/ k = Len(q) + 1
  BY <1>1
<1>3. \A k : IsLast(l, k) <=> IsLast(q, k)
  BY <1>1, <1>2 DEF IsLast
<1>4. \A k : IsLast(q, k) => l[k] = q[k] /\ k \in 1..Len(q)
  BY <1>1 DEF IsLast
<1>5. NoLast(l) => NoLast(q)
  BY <1>2, <1>3 DEF NoLast
<1>6. EndsWith(q, t) => EndsWith(l, t)
  BY <1>2, <1>3, <1>4 DEF EndsWith
<1> QED
  BY <1>5, <1>6 DEF l

LEMMA AppendLast ==
    ASSUME NEW q \in Seq(Request), NEW r \in Request, r.op = "lastMessage"
    PROVE  ~NoLast(Append(q, r)) /\ EndsWith(Append(q, r), r.text)
<1> DEFINE l == Append(q, r)
<1>1. Len(q) \in Nat /\ Len(l) = Len(q) + 1 /\ l[Len(q) + 1] = r
  BY AppendProperties
<1> HIDE DEF l
<1>2. IsLast(l, Len(q) + 1) /\ Len(q) + 1 \in 1..Len(l)
  BY <1>1 DEF IsLast
<1>3. \A k \in 1..Len(l) : Len(q) + 1 > k \/ k = Len(q) + 1
  BY <1>1
<1> QED
  BY <1>1, <1>2, <1>3 DEF NoLast, EndsWith, l

LEMMA TailEnds ==
    ASSUME NEW q \in Seq(Request), q # <<>>, NEW t
    PROVE  /\ EndsWith(q, t) => EndsWith(Tail(q), t)
           /\ Head(q).op # "lastMessage" /\ NoLast(Tail(q)) => NoLast(q)
           /\ Head(q).op = "lastMessage" /\ NoLast(Tail(q)) /\ EndsWith(q, t) =>
                 Head(q).text = t
<1> DEFINE l == Tail(q)
<1>1. /\ Len(q) \in Nat /\ Len(q) >= 1 /\ Len(l) = Len(q) - 1 /\ Head(q) = q[1]
      /\ \A k \in 1..(Len(q) - 1) : l[k] = q[k + 1]
  <2>1. q[1] \in Request
    BY EmptySeq
  <2> QED
    BY <2>1, MovedQueue
<1> HIDE DEF l
<1>2. ASSUME NEW k \in 1..Len(l)
      PROVE  /\ k + 1 \in 1..Len(q) /\ l[k] = q[k + 1]
             /\ IsLast(l, k) <=> IsLast(q, k + 1)
  BY <1>1, <1>2 DEF IsLast
<1>3. ASSUME NEW k \in 1..Len(q), k # 1
      PROVE  k - 1 \in 1..Len(l) /\ (k - 1) + 1 = k
  BY <1>1, <1>3
<1>4. ASSUME NEW k \in 1..Len(q), k # 1
      PROVE  IsLast(q, k) <=> IsLast(l, k - 1)
  BY <1>2, <1>3, <1>4
<1>5. ASSUME EndsWith(q, t), NEW k \in 1..Len(l), IsLast(l, k),
             \A j \in 1..Len(l) : j > k => ~IsLast(l, j)
      PROVE  l[k].text = t
  <2>1. IsLast(q, k + 1)
    BY <1>2, <1>5
  <2>2. ASSUME NEW j \in 1..Len(q), j > k + 1
        PROVE  ~IsLast(q, j)
    <3>1. j # 1 /\ j - 1 > k
      BY <1>1, <2>2
    <3> QED
      BY <1>3, <1>4, <1>5, <3>1
  <2> QED
    BY <1>2, <1>5, <2>1, <2>2 DEF EndsWith
<1>6. ASSUME NoLast(l), NEW j \in 1..Len(q), j # 1
      PROVE  ~IsLast(q, j)
  BY <1>3, <1>4, <1>6 DEF NoLast
<1>7. ASSUME Head(q).op # "lastMessage"
      PROVE  ~IsLast(q, 1)
  BY <1>1, <1>7 DEF IsLast
<1>8. ASSUME Head(q).op = "lastMessage", NoLast(l), EndsWith(q, t)
      PROVE  Head(q).text = t
  <2>1. 1 \in 1..Len(q) /\ IsLast(q, 1)
    BY <1>1, <1>8 DEF IsLast
  <2>2. \A j \in 1..Len(q) : j > 1 => ~IsLast(q, j)
    BY <1>6, <1>8
  <2> QED
    BY <1>1, <1>8, <2>1, <2>2 DEF EndsWith
<1>9. NoLast(l) /\ Head(q).op # "lastMessage" => NoLast(q)
  BY <1>6, <1>7 DEF NoLast
<1> QED
  BY <1>5, <1>8, <1>9 DEF EndsWith, l

(* One sender at a time: he alone has requests, the last lastMessage he    *)
(* has on its way is the room's last message, and with none on its way     *)
(* that is the one the chat list shows.                                    *)
Newest == log[Len(log)].text
Shown  == /\ \A u \in User : EndsWith(queue[u], Newest)
          /\ (\A u \in User : NoLast(queue[u])) => last = Newest
Lasts ==
    /\ \A u, v \in User : Busy(u) /\ Busy(v) => u = v
    /\ crashed = {} /\ log # <<>> => Shown

LastInv == regime = {} => Lasts

LEMMA EmptyEnds ==
    \A t : NoLast(<<>>) /\ EndsWith(<<>>, t)
BY DEF NoLast, EndsWith

(* What the student at the head of the line does to his queue.             *)
LEMMA QueueLasts ==
    ASSUME Lasts, NEW u \in User, queue \in [User -> Seq(Request)],
           NEW q \in Seq(Request), queue' = [queue EXCEPT ![u] = q],
           \A v \in User : v # u => ~Busy(v),
           UNCHANGED <<log, last>>, crashed' = {} => crashed = {},
           EndsWith(queue[u], Newest) => EndsWith(q, Newest),
           crashed' = {} /\ NoLast(q) /\ (NoLast(queue[u]) => last = Newest)
                /\ EndsWith(queue[u], Newest) => last = Newest
    PROVE  Lasts'
<1>1. \A v \in User : queue'[v] = IF v = u THEN q ELSE queue[v]
  OBVIOUS
<1>2. \A v \in User : v # u => queue[v] = <<>>
  BY DEF Busy
<1>3. \A v \in User : Busy(v)' => v = u
  BY <1>1, <1>2 DEF Busy
<1>4. Newest' = Newest
  BY DEF Newest
<1>5. ASSUME crashed' = {}, log' # <<>>
      PROVE  Shown'
  <2>1. Shown
    BY <1>5 DEF Lasts
  <2>2. \A v \in User : EndsWith(queue[v], Newest)
    BY <2>1 DEF Shown
  <2>3. \A v \in User : EndsWith(queue'[v], Newest)
    BY <1>1, <2>2
  <2>4. NoLast(queue[u]) => last = Newest
    BY <1>2, <2>1, EmptyEnds DEF Shown
  <2>5. (\A v \in User : NoLast(queue'[v])) => last = Newest
    BY <1>1, <1>5, <2>2, <2>4
  <2> QED
    BY <1>4, <2>3, <2>5 DEF Shown
<1> QED
  BY <1>3, <1>5 DEF Lasts

LEMMA QuietLasts ==
    ASSUME Lasts, UNCHANGED <<log, last, queue, crashed>>
    PROVE  Lasts'
BY DEF Lasts, Shown, Newest, Busy

LEMMA HearLasts ==
    ASSUME IInv, Lasts, NEW u \in User, Hear(u)
    PROVE  Lasts'
<1>1. UNCHANGED <<log, last>>
  BY DEF Hear, server
<1>2. CASE UNCHANGED <<queue, crashed>>
  BY <1>1, <1>2, QuietLasts
<1>3. CASE crashed' = crashed \cup {u} /\ queue' = [queue EXCEPT ![u] = <<>>]
  <2>1. \A v \in User : queue'[v] = IF v = u THEN <<>> ELSE queue[v]
    BY <1>3 DEF IInv, TypeOK
  <2>2. \A v \in User : Busy(v)' => Busy(v)
    BY <2>1 DEF Busy
  <2> QED
    BY <1>3, <2>2 DEF Lasts
<1> QED
  BY <1>2, <1>3 DEF Hear

LEMMA SendLasts ==
    ASSUME IInv, Lasts, regime = {}, NEW u \in User, Send(u)
    PROVE  Lasts'
<1> DEFINE r == [op |-> "name", text |-> Blank, visit |-> Visit(u)]
<1>1. /\ UNCHANGED <<log, last, crashed>> /\ queue' = [queue EXCEPT ![u] = Append(queue[u], r)]
      /\ \A v \in User : v # u => ~Busy(v)
  BY DEF Send, AskName, Calm, server
<1>2. queue \in [User -> Seq(Request)]
  BY DEF IInv, TypeOK
<1>3. r \in Request /\ r.op # "lastMessage"
  <2>1. Visit(u) \in Nat /\ Blank \in AnyText
    BY WayTypes DEF Visit, AnyText
  <2> QED
    BY <2>1 DEF Request
<1> HIDE DEF r
<1>4. Append(queue[u], r) \in Seq(Request) /\ queue[u] \in Seq(Request)
  BY <1>2, <1>3, AppendProperties
<1>5. /\ NoLast(Append(queue[u], r)) => NoLast(queue[u])
      /\ EndsWith(queue[u], Newest) => EndsWith(Append(queue[u], r), Newest)
  BY <1>3, <1>4, AppendOther
<1> QED
  BY <1>1, <1>2, <1>4, <1>5, QueueLasts

LEMMA NameLasts ==
    ASSUME IInv, Lasts, NEW u \in User, AnswerName(u)
    PROVE  Lasts'
<1> DEFINE q == queue[u]
           r == [op |-> "message", text |-> Field(u), visit |-> Head(queue[u]).visit]
           l == Append(Tail(queue[u]), r)
<1>1. /\ UNCHANGED <<log, last, crashed>> /\ Busy(u) /\ q # <<>> /\ Head(q).op = "name"
      /\ queue' = [queue EXCEPT ![u] = l]
  BY DEF AnswerName, Serves, Busy, Then, server
<1>2. queue \in [User -> Seq(Request)]
  BY DEF IInv, TypeOK
<1>3. r \in Request /\ r.op # "lastMessage" /\ Tail(q) \in Seq(Request)
  <2>1. Field(u) \in AnyText /\ Head(q) \in Request /\ Tail(q) \in Seq(Request)
    BY <1>1, <1>2, Served, HeadTailProperties
  <2>2. Head(q).visit \in Nat
    BY <2>1 DEF Request
  <2> QED
    BY <2>1, <2>2 DEF Request
<1> HIDE DEF r
<1>4. l \in Seq(Request) /\ q \in Seq(Request)
  BY <1>2, <1>3, AppendProperties
<1>5. /\ NoLast(l) => NoLast(Tail(q))
      /\ EndsWith(Tail(q), Newest) => EndsWith(l, Newest)
  BY <1>3, AppendOther
<1>6. /\ NoLast(Tail(q)) => NoLast(q)
      /\ EndsWith(q, Newest) => EndsWith(Tail(q), Newest)
  BY <1>1, <1>4, TailEnds
<1>7. \A v \in User : v # u => ~Busy(v)
  BY <1>1 DEF Lasts
<1> HIDE DEF l
<1> QED
  BY <1>1, <1>2, <1>4, <1>5, <1>6, <1>7, QueueLasts DEF q

LEMMA WriteLasts ==
    ASSUME IInv, Lasts, NEW u \in User, WriteMessage(u), Way(u)
    PROVE  Lasts'
<1> DEFINE q == queue[u]
           t == Head(queue[u]).text
           r == [op |-> "lastMessage", text |-> Field(u), visit |-> Head(queue[u]).visit]
           l == Append(Tail(queue[u]), r)
<1>1. /\ crashed' = crashed /\ Busy(u) /\ q # <<>> /\ Head(q).op = "message"
      /\ queue' = [queue EXCEPT ![u] = l]
      /\ log' = Append(log, [by |-> u, text |-> t])
  BY DEF WriteMessage, Serves, Busy, Then
<1>2. queue \in [User -> Seq(Request)] /\ log \in Seq(Message)
  BY DEF IInv, TypeOK
<1>3. Field(u) \in AnyText /\ Head(q) \in Request /\ Tail(q) \in Seq(Request)
  BY <1>1, <1>2, Served, HeadTailProperties
<1>4. t \in AnyText /\ Head(q).visit \in Nat
  BY <1>3 DEF Request
<1>5. r \in Request /\ r.op = "lastMessage" /\ r.text = Field(u)
  BY <1>3, <1>4 DEF Request
<1>6. Field(u) = t
  <2>1. q \in Seq(Request) /\ 1 \in 1..Len(q) /\ Head(q) = q[1]
    BY <1>1, <1>2, EmptySeq, MovedQueue
  <2>2. q[1].text = field[u][q[1].visit]
    BY <1>1, <2>1 DEF Way, Carries
  <2> QED
    BY <2>1, <2>2 DEF Field
<1>7. Len(log') = Len(log) + 1 /\ log'[Len(log) + 1] = [by |-> u, text |-> t]
  BY <1>1, <1>2, <1>4, OwnGrows
<1>8. Newest' = t
  BY <1>7 DEF Newest
<1> HIDE DEF r, t
<1>9. ~NoLast(l) /\ EndsWith(l, Newest')
  BY <1>3, <1>5, <1>6, <1>8, AppendLast
<1>10. \A v \in User : v # u => queue[v] = <<>>
  BY <1>1 DEF Lasts, Busy
<1> HIDE DEF l
<1>11. queue'[u] = l /\ \A v \in User : v # u => queue'[v] = <<>>
  BY <1>1, <1>2, <1>10
<1>12. \A v \in User : EndsWith(queue'[v], Newest')
  BY <1>9, <1>11, EmptyEnds
<1> QED
  BY <1>9, <1>11, <1>12 DEF Lasts, Shown, Busy

LEMMA LastLasts ==
    ASSUME IInv, Lasts, NEW u \in User, WriteLast(u)
    PROVE  Lasts'
<1> DEFINE q == queue[u]
           l == Tail(queue[u])
<1>1. /\ UNCHANGED <<log, crashed>> /\ Busy(u) /\ q # <<>> /\ Head(q).op = "lastMessage"
      /\ queue' = [queue EXCEPT ![u] = l] /\ last' = Head(q).text
  BY DEF WriteLast, Serves, Busy
<1>2. queue \in [User -> Seq(Request)] /\ q \in Seq(Request)
  BY DEF IInv, TypeOK
<1>3. \A v \in User : v # u => queue[v] = <<>>
  BY <1>1 DEF Lasts, Busy
<1> HIDE DEF l
<1>4. queue'[u] = l /\ \A v \in User : v # u => queue'[v] = <<>>
  BY <1>1, <1>2, <1>3
<1>5. /\ EndsWith(q, Newest) => EndsWith(l, Newest)
      /\ NoLast(l) /\ EndsWith(q, Newest) => Head(q).text = Newest
  BY <1>1, <1>2, TailEnds DEF l
<1>6. Newest' = Newest
  BY <1>1 DEF Newest
<1>7. ASSUME crashed' = {}, log' # <<>>
      PROVE  Shown'
  <2>1. EndsWith(q, Newest)
    BY <1>1, <1>7 DEF Lasts, Shown
  <2>2. \A v \in User : EndsWith(queue'[v], Newest)
    BY <1>4, <1>5, <2>1, EmptyEnds
  <2> QED
    BY <1>1, <1>4, <1>5, <1>6, <2>1, <2>2 DEF Shown
<1> QED
  BY <1>4, <1>7 DEF Lasts, Busy

THEOREM TextStep == IInv /\ OnWay /\ LastInv /\ [Next]_vars => LastInv'
<1> SUFFICES ASSUME IInv, OnWay, LastInv, [Next]_vars, regime = {}
             PROVE  Lasts'
  <2>1. CASE Next
    BY <2>1 DEF LastInv, Next
  <2>2. CASE UNCHANGED vars
    BY <2>2 DEF LastInv, vars
  <2> QED
    BY <2>1, <2>2
<1>0. Lasts /\ \A u \in User : Way(u)
  BY DEF LastInv, OnWay, Steady
<1>1. CASE UNCHANGED vars
  BY <1>0, <1>1, QuietLasts DEF vars, server
<1>2. CASE Next
  <2>1. PICK u \in User : Step(u)
    BY <1>2 DEF Next
  <2>2. \/ Participate(u) \/ CloseRoom(u) \/ AnswerEntrance(u)
        \/ OpenRoom(u) \/ Hear(u) \/ (\E t \in AnyText : Type(u, t))
        \/ Send(u) \/ AnswerName(u) \/ WriteMessage(u) \/ WriteLast(u)
    BY <2>1 DEF Step, Serve, FailEntrance, FailRequest, Steady
  <2>3. CASE \/ Participate(u) \/ CloseRoom(u) \/ AnswerEntrance(u)
             \/ OpenRoom(u) \/ \E t \in AnyText : Type(u, t)
    <3>1. UNCHANGED <<log, last, queue, crashed>>
      BY <2>3 DEF Participate, CloseRoom, AnswerEntrance, OpenRoom, Type, server
    <3> QED
      BY <1>0, <3>1, QuietLasts
  <2>4. CASE Hear(u)
    BY <1>0, <2>4, HearLasts
  <2>5. CASE Send(u)
    BY <1>0, <2>5, SendLasts
  <2>6. CASE AnswerName(u)
    BY <1>0, <2>6, NameLasts
  <2>7. CASE WriteMessage(u)
    BY <1>0, <2>7, WriteLasts
  <2>8. CASE WriteLast(u)
    BY <1>0, <2>8, LastLasts
  <2> QED
    BY <2>2, <2>3, <2>4, <2>5, <2>6, <2>7, <2>8
<1> QED
  BY <1>1, <1>2

(* In the room are the texts that were in the fields at the taps on "send",*)
(* and with one sender at a time the chat list ends on the newest.         *)
THEOREM TextAlwaysSurvives == Spec => []TextSurvives
<1>1. Init => LastInv
  <2> SUFFICES ASSUME Init PROVE Lasts
    BY DEF LastInv
  <2>1. log = <<>> /\ \A u \in User : queue[u] = <<>>
    BY DEF Init
  <2> QED
    BY <2>1 DEF Lasts, Busy
<1>2. OnWay /\ LastInv => TextSurvives
  <2> SUFFICES ASSUME OnWay, LastInv PROVE TextSurvives
    OBVIOUS
  <2>1. SentAsTyped
    BY DEF OnWay, SentAsTyped
  <2>2. LastIsLast
    <3> SUFFICES ASSUME regime = {}, \A u \in User : ~Busy(u), crashed = {}, log # <<>>
                 PROVE  last = log[Len(log)].text
      BY DEF LastIsLast
    <3>1. Shown /\ \A u \in User : queue[u] = <<>>
      BY DEF LastInv, Lasts, Busy
    <3> QED
      BY <3>1, EmptyEnds DEF Shown, Newest
  <2> QED
    BY <2>1, <2>2 DEF TextSurvives
<1> QED
  BY <1>1, <1>2, InitInv, NextInv, InitOnWay, NextOnWay, TextStep, PTL DEF Spec
=============================================================================
