------------------------- MODULE RecruitmentProofs -------------------------
(***************************************************************************)
(* Proofs about Recruitment, for every number of students, posts, taps and *)
(* seats.  In every environment: type correctness, the bound on the        *)
(* counters, and the participants of a room.  One operation after another: *)
(* the databases agree, nobody is overbooked, the app never traps, and the *)
(* chains of writes implement the atomic steps of Roster.                  *)
(***************************************************************************)
EXTENDS Recruitment, SequenceTheorems, FiniteSetTheorems, FunctionTheorems, TLAPS

-----------------------------------------------------------------------------
(* Queues.                                                                 *)

LEMMA Items ==
    ASSUME NEW S
    PROVE  /\ <<>> \in Seq(S)
           /\ \A a \in S : <<a>> \in Seq(S)
           /\ \A a, b \in S : <<a, b>> \in Seq(S)
           /\ \A a, b, c \in S : <<a, b, c>> \in Seq(S)
OBVIOUS

LEMMA Appended ==
    ASSUME NEW S, NEW T, S \subseteq T, NEW s \in Seq(S), NEW t \in Seq(T)
    PROVE  s \o t \in Seq(T)
<1>1. s \in Seq(T)
  BY SeqMonotonic
<1> QED
  BY <1>1, ConcatProperties

LEMMA Served ==
    ASSUME NEW S, NEW s \in Seq(S), s # <<>>
    PROVE  Head(s) \in S /\ Tail(s) \in Seq(S)
BY HeadTailProperties

(* A queue that got more items, and the one whose head was served.         *)
LEMMA QueueType ==
    ASSUME NEW S, NEW q \in [User -> Seq(S)], NEW u \in User, NEW items \in Seq(S)
    PROVE  Queue(q, u, items) \in [User -> Seq(S)]
<1>1. q[u] \o items \in Seq(S)
  BY Appended
<1> QED
  BY <1>1 DEF Queue

LEMMA ThenType ==
    ASSUME NEW S, rt \in [User -> Seq(S)], NEW u \in User, rt[u] # <<>>,
           NEW items \in Seq(S)
    PROVE  Then(u, items) \in [User -> Seq(S)]
<1>1. Tail(rt[u]) \in Seq(S)
  BY Served
<1>2. Tail(rt[u]) \o items \in Seq(S)
  BY <1>1, Appended
<1> QED
  BY <1>2 DEF Then
-----------------------------------------------------------------------------
(* Requests, writes and reads have the types of their queues.              *)

LEMMA RtTypes ==
    ASSUME NEW u \in User, NEW p \in Post
    PROVE  /\ \A op \in RtKind : Rt(u, op, p) \in RtOp
           /\ \A n \in Int : SetCount(u, p, n) \in RtOp
           /\ \A ps \in SUBSET Post : SetGroups(u, p, ps) \in RtOp
BY DEF Rt, SetCount, SetGroups, RtOp, RtKind

LEMMA FsTypes ==
    ASSUME NEW p \in Post
    PROVE  /\ \A d \in Recruit : SetRecruit(p, d) \in FsWrite /\ MergeRecruit(p, d) \in FsWrite
           /\ \A us \in Seq(User) \cup {Nil} : SetMembers(p, us) \in FsWrite
           /\ NoRecruit \in Recruit
BY DEF SetRecruit, MergeRecruit, SetMembers, FsWrite, NoRecruit, Recruit

LEMMA PageType ==
    ASSUME NEW pg \in Page
    PROVE  [pg EXCEPT !.joinable = FALSE] \in Page
BY Zenon DEF Page

LEMMA GroupTypes ==
    ASSUME NEW g \in Group, NEW n \in Int
    PROVE  /\ [g EXCEPT !.cur = n] \in Group
           /\ [g EXCEPT !.talk = TRUE] \in Group
           /\ [name |-> TRUE, cur |-> 1, talk |-> FALSE] \in Group
           /\ NoGroup \in Group
<1>1. [g EXCEPT !.cur = n] \in Group
  BY SMT DEF Group
<1>2. [g EXCEPT !.talk = TRUE] \in Group
  BY Zenon DEF Group
<1>3. [name |-> TRUE, cur |-> 1, talk |-> FALSE] \in Group
  BY SMT DEF Group
<1>4. NoGroup \in Group
  BY SMT DEF Group, NoGroup
<1> QED
  BY <1>1, <1>2, <1>3, <1>4

LEMMA AskTypes ==
    ASSUME asked \in [User -> [Read -> Nat]], NEW u \in User, NEW p \in Post
    PROVE  /\ \A kinds : Ask(u, kinds, p) \in [User -> [Read -> Nat]]
           /\ \A kind \in ReadKind : asked[u][<<kind, p>>] > 0 =>
                Answered(u, kind, p) \in [User -> [Read -> Nat]]
<1>1. \A r \in Read : asked[u][r] \in Nat
  OBVIOUS
<1>2. ASSUME NEW kinds
      PROVE  Ask(u, kinds, p) \in [User -> [Read -> Nat]]
  <2>1. [r \in Read |-> IF r[1] \in kinds /\ r[2] = p THEN asked[u][r] + 1
                        ELSE asked[u][r]] \in [Read -> Nat]
    BY <1>1
  <2> QED
    BY <2>1 DEF Ask
<1>3. ASSUME NEW kind \in ReadKind, asked[u][<<kind, p>>] > 0
      PROVE  Answered(u, kind, p) \in [User -> [Read -> Nat]]
  <2>1. \A r \in Read : (IF r = <<kind, p>> THEN asked[u][r] - 1 ELSE asked[u][r]) \in Nat
    BY <1>1, <1>3
  <2>2. [r \in Read |-> IF r = <<kind, p>> THEN asked[u][r] - 1
                        ELSE asked[u][r]] \in [Read -> Nat]
    BY <2>1
  <2> QED
    BY <2>2 DEF Answered
<1> QED
  BY <1>2, <1>3

LEMMA WithoutFirstType ==
    ASSUME NEW S, NEW s \in Seq(S), NEW u
    PROVE  WithoutFirst(s, u) \in Seq(S)
<1>1. CASE \E i \in DOMAIN s : s[i] = u
  <2> DEFINE k == CHOOSE i \in DOMAIN s : s[i] = u /\ \A j \in 1..(i - 1) : s[j] # u
             t == [i \in 1..(Len(s) - 1) |-> IF i < k THEN s[i] ELSE s[i + 1]]
  <2>1. Len(s) \in Nat /\ DOMAIN s = 1..Len(s) /\ Len(s) - 1 \in Nat
    BY <1>1, LenProperties
  <2>2. \A i \in 1..(Len(s) - 1) : s[i] \in S /\ s[i + 1] \in S
    BY <2>1, ElementOfSeq
  <2>3. t \in [1..(Len(s) - 1) -> S]
    BY <2>2
  <2>4. t \in Seq(S)
    BY <2>1, <2>3, SeqDef
  <2> QED
    BY <1>1, <2>4 DEF WithoutFirst
<1>2. CASE ~ \E i \in DOMAIN s : s[i] = u
  BY <1>2 DEF WithoutFirst
<1> QED
  BY <1>1, <1>2
-----------------------------------------------------------------------------
(* Type correctness, one lemma for each kind of step.                      *)

LEMMA TypeInit == Init => TypeOK
<1>1. NothingAsked \in [Read -> Nat]
  BY DEF NothingAsked
<1> QED
  BY <1>1, Items, RecruitmentAssumption
  DEF Init, TypeOK, NoRecruit, Recruit, NoGroup, Group

LEMMA TypeRestart ==
    ASSUME TypeOK, NEW u \in User, Restart(u)
    PROVE  TypeOK' <=> crashed' \subseteq User
<1>1. NothingAsked \in [Read -> Nat]
  BY DEF NothingAsked
<1>2. rt' \in [User -> Seq(RtOp)]
  BY Items DEF TypeOK, Restart
<1>3. asked' \in [User -> [Read -> Nat]]
  BY <1>1 DEF TypeOK, Restart
<1> QED
  BY <1>2, <1>3 DEF TypeOK, Restart, servers

LEMMA TypeCrash ==
    ASSUME TypeOK, NEW u \in User, Crash(u)
    PROVE  TypeOK'
BY TypeRestart DEF Crash, TypeOK

LEMMA TapCounted == TypeOK /\ StartsOperation => taps' \in 0..MaxTaps
BY RecruitmentAssumption DEF TypeOK, StartsOperation

LEMMA TypeTap ==
    ASSUME TypeOK, NEW u \in User, Tap(u)
    PROVE  TypeOK'
<1> USE RecruitmentAssumption
<1>1. ASSUME NEW p \in Post, NEW m \in 2..MaxSeats, Create(u, p, m)
      PROVE  TypeOK'
  <2>1. rt' \in [User -> Seq(RtOp)]
    BY <1>1, RtTypes, Items, QueueType DEF Create, TypeOK, RtKind
  <2>2. [uid |-> u, cur |-> 1, max |-> m] \in Recruit /\ <<u>> \in Seq(User)
    BY Items DEF Recruit
  <2>3. fs' \in [User -> Seq(FsWrite)]
    BY <1>1, <2>2, FsTypes, Items, QueueType DEF Create, TypeOK
  <2>4. seats' \in [Post -> Nat] /\ mostSeats' \in [Post -> Nat]
    BY <1>1 DEF Create, TypeOK, Larger
  <2>5. joined' \in [Post -> SUBSET User]
    BY <1>1 DEF Create, TypeOK
  <2> QED
    BY <1>1, <2>1, <2>3, <2>4, <2>5, TapCounted DEF Create, TypeOK, servers, screens
<1>2. ASSUME Join(u) PROVE TypeOK'
  <2> DEFINE p == page[u].post
             n == page[u].cur + 1
  <2>1. page[u] \in Page /\ p \in Post /\ n \in Int
    BY <1>2 DEF Join, TypeOK, Page
  <2>2. rt' \in [User -> Seq(RtOp)]
    BY <1>2, <2>1, RtTypes, Items, QueueType DEF Join, TypeOK, RtKind
  <2>3. [NoRecruit EXCEPT !.cur = n] \in Recruit
    BY <2>1 DEF Recruit, NoRecruit
  <2>4. fs' \in [User -> Seq(FsWrite)]
    BY <1>2, <2>1, <2>3, FsTypes, Items, QueueType DEF Join, TypeOK
  <2>5. asked' \in [User -> [Read -> Nat]]
    BY <1>2, <2>1, AskTypes DEF Join, TypeOK
  <2> QED
    BY <1>2, <2>1, <2>2, <2>4, <2>5, TapCounted DEF Join, TypeOK, servers
<1>3. ASSUME NEW m \in 2..MaxSeats, Edit(u, m) PROVE TypeOK'
  <2> DEFINE p == page[u].post
  <2>1. page[u] \in Page /\ p \in Post /\ page[u].cur \in Int
    BY <1>3 DEF Edit, TypeOK, Page
  <2>2. [uid |-> Nil, cur |-> page[u].cur, max |-> m] \in Recruit
    BY <2>1 DEF Recruit
  <2>3. fs' \in [User -> Seq(FsWrite)]
    BY <1>3, <2>1, <2>2, FsTypes, Items, QueueType DEF Edit, TypeOK
  <2>4. [page[u] EXCEPT !.max = m] \in Page
    BY <2>1 DEF Page
  <2>5. page' \in [User -> Page \cup {Nil}]
    BY <1>3, <2>4 DEF Edit, TypeOK
  <2>6. seats' \in [Post -> Nat] /\ mostSeats' \in [Post -> Nat]
    BY <1>3, <2>1 DEF Edit, TypeOK, Larger
  <2> QED
    BY <1>3, <2>1, <2>3, <2>5, <2>6, TapCounted DEF Edit, TypeOK, servers
<1>4. ASSUME DeletePost(u) PROVE TypeOK'
  <2> DEFINE p == page[u].post
  <2>1. p \in Post
    BY <1>4 DEF DeletePost, TypeOK, Page
  <2>2. rt' \in [User -> Seq(RtOp)]
    BY <1>4, <2>1, RtTypes, Items, QueueType DEF DeletePost, TypeOK, RtKind
  <2>3. fs' \in [User -> Seq(FsWrite)]
    BY <1>4, <2>1, FsTypes, Items, QueueType DEF DeletePost, TypeOK
  <2>4. asked' \in [User -> [Read -> Nat]]
    BY <1>4, <2>1, AskTypes DEF DeletePost, TypeOK
  <2> QED
    BY <1>4, <2>1, <2>2, <2>3, <2>4, TapCounted DEF DeletePost, TypeOK, servers
<1>5. ASSUME Leave(u) PROVE TypeOK'
  <2>1. rt' \in [User -> Seq(RtOp)]
    BY <1>5, RtTypes, Items, QueueType DEF Leave, TypeOK, RtKind
  <2> QED
    BY <1>5, <2>1, TapCounted DEF Leave, TypeOK, servers
<1>6. ASSUME NEW p \in Post, SwipeDelete(u, p) PROVE TypeOK'
  <2>1. rt' \in [User -> Seq(RtOp)]
    BY <1>6, RtTypes, Items, QueueType DEF SwipeDelete, TypeOK, RtKind
  <2> QED
    BY <1>6, <2>1, TapCounted DEF SwipeDelete, TypeOK, servers, screens
<1> QED
  BY <1>1, <1>2, <1>3, <1>4, <1>5, <1>6 DEF Tap

LEMMA TypeBrowse ==
    ASSUME TypeOK, NEW u \in User, Browse(u)
    PROVE  TypeOK'
<1>1. ASSUME NEW p \in Post, NEW s \in BOOLEAN, OpenPage(u, p, s) PROVE TypeOK'
  <2>1. rt' \in [User -> Seq(RtOp)]
    BY <1>1, RtTypes, Items, QueueType DEF OpenPage, TypeOK, RtKind
  <2>2. recruit[p] \in [uid : User, cur : Int, max : Int]
    BY <1>1 DEF OpenPage, Complete, TypeOK, Recruit
  <2>3. page' \in [User -> Page \cup {Nil}]
    BY <1>1, <2>2 DEF OpenPage, TypeOK, Page
  <2> QED
    BY <1>1, <2>1, <2>3 DEF OpenPage, TypeOK, servers, history
<1>2. ClosePage(u) \/ PopChat(u) => TypeOK'
  BY DEF ClosePage, PopChat, TypeOK, servers, wires, history
<1>3. ASSUME NEW p \in Post, OpenChat(u, p) PROVE TypeOK'
  BY <1>3 DEF OpenChat, TypeOK, servers, wires, history
<1>4. FetchPartialPost(u) \/ ListPartialRoom(u) => TypeOK'
  BY TypeCrash DEF FetchPartialPost, ListPartialRoom
<1> QED
  BY <1>1, <1>2, <1>3, <1>4 DEF Browse

LEMMA TypeRealtime ==
    ASSUME TypeOK, NEW u \in User, RealtimeStep(u)
    PROVE  TypeOK'
<1> DEFINE m == Head(rt[u])
<1>1. /\ rt[u] # <<>> => m \in RtOp
      /\ m \in RtOp => m.post \in Post /\ m.who \in User /\ m.num \in Int /\ m.posts \in SUBSET Post
  BY Served DEF TypeOK, RtOp
<1>2. ASSUME rt[u] # <<>>, NEW items \in Seq(RtOp), rt' = Then(u, items)
      PROVE  rt' \in [User -> Seq(RtOp)]
  BY <1>2, ThenType DEF TypeOK
<1> USE DEF Serves
<1>3. CASE List(u)
  <2>1. rt' \in [User -> Seq(RtOp)]
    BY <1>1, <1>2, <1>3, RtTypes, Items DEF List, RtKind
  <2> QED
    BY <1>1, <1>3, <2>1 DEF List, TypeOK, screens, history
<1>4. CASE Unlist(u)
  BY <1>1, <1>2, <1>4, Items DEF Unlist, TypeOK, screens, history
<1>5. CASE WriteGroup(u)
  <2>1. rt' \in [User -> Seq(RtOp)]
    BY <1>2, <1>5, Items DEF WriteGroup
  <2>2. group' \in [Post -> Group]
    <3>1. m \in RtOp /\ m.post \in Post /\ m.num \in Int /\ group[m.post] \in Group
      BY <1>1, <1>5 DEF WriteGroup, TypeOK
    <3>2. /\ [name |-> TRUE, cur |-> 1, talk |-> FALSE] \in Group
          /\ [group[m.post] EXCEPT !.cur = m.num] \in Group
          /\ [group[m.post] EXCEPT !.talk = TRUE] \in Group
          /\ NoGroup \in Group
      BY <3>1, GroupTypes
    <3>3. /\ [group EXCEPT ![m.post].cur = m.num] \in [Post -> Group]
          /\ [group EXCEPT ![m.post].talk = TRUE] \in [Post -> Group]
      BY <3>2 DEF TypeOK
    <3>4. /\ [group EXCEPT ![m.post] = [name |-> TRUE, cur |-> 1, talk |-> FALSE]] \in [Post -> Group]
          /\ [group EXCEPT ![m.post] = NoGroup] \in [Post -> Group]
      BY <3>2 DEF TypeOK
    <3> QED
      BY <1>5, <3>3, <3>4 DEF WriteGroup
  <2> QED
    BY <1>5, <2>1, <2>2 DEF WriteGroup, TypeOK, screens, history
<1>6. CASE WriteGroups(u)
  BY <1>1, <1>2, <1>6, Items DEF WriteGroups, TypeOK, screens, history
<1>7. CASE GotID(u)
  <2>1. rt' \in [User -> Seq(RtOp)]
    BY <1>1, <1>2, <1>7, RtTypes, Items DEF GotID, RtKind
  <2> QED
    BY <1>7, <2>1 DEF GotID, TypeOK, servers, screens, history
<1>8. CASE GotCheck(u)
  <2>1. page' \in [User -> Page \cup {Nil}]
    <3>1. page[u] # Nil => [page[u] EXCEPT !.joinable = FALSE] \in Page
      BY PageType DEF TypeOK
    <3>2. page[u] # Nil => [page EXCEPT ![u].joinable = FALSE] \in [User -> Page \cup {Nil}]
      BY <3>1 DEF TypeOK
    <3> QED
      BY <1>8, <3>2 DEF GotCheck, TypeOK
  <2>2. rt' \in [User -> Seq(RtOp)]
    BY <1>2, <1>8, Items DEF GotCheck
  <2> QED
    BY <1>8, <2>1, <2>2 DEF GotCheck, TypeOK, servers, history
<1>9. CASE GotGroup(u)
  <2> DEFINE p == m.post
             cur == group[p].cur
  <2>1. p \in Post /\ m \in RtOp
    BY <1>1, <1>9 DEF GotGroup
  <2>2. CASE cur = Nil /\ Crash(u)
    BY <2>2, TypeCrash
  <2>3. CASE cur = 1 /\ ~(cur = Nil /\ Crash(u))
    <3>1. rt' \in [User -> Seq(RtOp)]
      BY <1>2, <1>9, <2>1, <2>3, RtTypes, Items, RecruitmentAssumption DEF GotGroup, RtKind
    <3>4. SetRecruit(p, NoRecruit) \in FsWrite
      BY <2>1, FsTypes
    <3>5. fs' = Queue(fs, u, <<SetRecruit(p, NoRecruit)>>)
      BY <1>9, <2>3, RecruitmentAssumption DEF GotGroup
    <3>2. fs' \in [User -> Seq(FsWrite)]
      BY <3>4, <3>5, Items, QueueType DEF TypeOK
    <3>3. asked' \in [User -> [Read -> Nat]]
      BY <1>9, <2>1, <2>3, AskTypes DEF GotGroup, TypeOK
    <3> QED
      BY <1>9, <2>3, <3>1, <3>2, <3>3 DEF GotGroup, TypeOK, servers, screens, history
  <2>4. CASE cur \notin {Nil, 1}
    <3>1. cur - 1 \in Int
      BY <2>1, <2>4 DEF TypeOK, Group
    <3>2. rt' \in [User -> Seq(RtOp)]
      BY <1>2, <1>9, <2>1, <2>4, <3>1, RtTypes, Items DEF GotGroup, RtKind
    <3>3. asked' \in [User -> [Read -> Nat]]
      BY <1>9, <2>1, <2>4, AskTypes DEF GotGroup, TypeOK
    <3> QED
      BY <1>9, <2>4, <3>2, <3>3 DEF GotGroup, TypeOK, servers, screens, history
  <2> QED
    BY <1>9, <2>2, <2>3, <2>4 DEF GotGroup
<1>10. CASE GotUser(u)
  <2>1. CASE userGroups[u] = {} /\ Crash(u)
    BY <2>1, TypeCrash
  <2>2. CASE userGroups[u] # {}
    <3>1. userGroups[u] \ {m.post} \in SUBSET Post
      BY DEF TypeOK
    <3>2. rt' \in [User -> Seq(RtOp)]
      BY <1>1, <1>2, <1>10, <2>2, <3>1, RtTypes, Items DEF GotUser, RtKind
    <3> QED
      BY <1>10, <2>2, <3>2 DEF GotUser, TypeOK, servers, screens, history
  <2> QED
    BY <1>10, <2>1, <2>2 DEF GotUser
<1>11. CASE GotGroups(u)
  <2> DEFINE list == userGroups[m.who]
  <2>1. CASE list = {} /\ Crash(u)
    BY <2>1, TypeCrash
  <2>2. CASE list # {}
    <3>1. Stripped(m, list) \in SUBSET Post
      BY <1>1, <1>11 DEF GotGroups, TypeOK, Stripped
    <3>2. rt' \in [User -> Seq(RtOp)]
      BY <1>1, <1>2, <1>11, <2>2, <3>1, RtTypes, Items DEF GotGroups
    <3> QED
      BY <1>11, <2>2, <3>2 DEF GotGroups, TypeOK, servers, screens, history
  <2> QED
    BY <1>11, <2>1, <2>2 DEF GotGroups
<1> QED
  BY <1>3, <1>4, <1>5, <1>6, <1>7, <1>8, <1>9, <1>10, <1>11 DEF RealtimeStep

LEMMA TypeCommit ==
    ASSUME TypeOK, NEW u \in User, Commit(u)
    PROVE  TypeOK'
<1> DEFINE w == Head(fs[u])
<1>1. w \in FsWrite /\ Tail(fs[u]) \in Seq(FsWrite)
  BY Served DEF Commit, TypeOK
<1>2. /\ w.post \in Post /\ w.users \in Seq(User) \cup {Nil}
      /\ w.fields \in Recruit
  BY <1>1 DEF FsWrite
<1>3. Merged(recruit[w.post], w.fields) \in Recruit
  BY <1>2 DEF Merged, Recruit, TypeOK
<1>4. recruit' \in [Post -> Recruit] /\ members' \in [Post -> Seq(User) \cup {Nil}]
  BY ZenonT(40), <1>2, <1>3 DEF Commit, TypeOK
<1>5. fs' \in [User -> Seq(FsWrite)]
  BY <1>1 DEF Commit, TypeOK
<1> QED
  BY <1>4, <1>5 DEF Commit, TypeOK, screens, history

(* The requests that walk through the members of a post.                   *)
LEMMA WalkType ==
    ASSUME NEW us \in Seq(User), NEW p \in Post, NEW op \in RtKind
    PROVE  [i \in 1..Len(us) |-> Rt(us[i], op, p)] \in Seq(RtOp)
<1> DEFINE walk == [i \in 1..Len(us) |-> Rt(us[i], op, p)]
<1>1. Len(us) \in Nat /\ \A i \in 1..Len(us) : us[i] \in User
  BY LenProperties, ElementOfSeq
<1>2. walk \in [1..Len(us) -> RtOp]
  BY <1>1, RtTypes
<1> QED
  BY <1>1, <1>2, SeqDef

LEMMA TypeAnswer ==
    ASSUME TypeOK, NEW u \in User, NEW p \in Post, FirestoreAnswer(u, p)
    PROVE  TypeOK'
<1> USE DEF Answers
<1>1. CASE AnswerAppend(u, p)
  <2>1. CASE members[p] = Nil /\ Crash(u)
    BY <2>1, TypeCrash
  <2>2. CASE members[p] # Nil
    <3>0. /\ asked[u][<<"append", p>>] > 0
          /\ fs' = Queue(fs, u, <<SetMembers(p, Append(members[p], u))>>)
          /\ asked' = Answered(u, "append", p)
      BY <1>1, <2>2 DEF AnswerAppend
    <3>1. Append(members[p], u) \in Seq(User)
      BY <2>2, AppendProperties DEF TypeOK
    <3>2. fs' \in [User -> Seq(FsWrite)]
      BY <3>1, <3>0, FsTypes, Items, QueueType DEF TypeOK
    <3>3. asked' \in [User -> [Read -> Nat]]
      BY <3>0, AskTypes DEF TypeOK, ReadKind
    <3> QED
      BY <1>1, <2>2, <3>2, <3>3 DEF AnswerAppend, TypeOK, servers, screens, history
  <2> QED
    BY <1>1, <2>1, <2>2 DEF AnswerAppend
<1>2. CASE AnswerRemove(u, p)
  <2>1. CASE members[p] = Nil /\ Crash(u)
    BY <2>1, TypeCrash
  <2>2. CASE members[p] # Nil
    <3>0. /\ asked[u][<<"remove", p>>] > 0
          /\ fs' = Queue(fs, u, <<SetMembers(p, WithoutFirst(members[p], u))>>)
          /\ asked' = Answered(u, "remove", p)
      BY <1>2, <2>2 DEF AnswerRemove
    <3>1. WithoutFirst(members[p], u) \in Seq(User)
      BY <2>2, WithoutFirstType DEF TypeOK
    <3>2. fs' \in [User -> Seq(FsWrite)]
      BY <3>1, <3>0, FsTypes, Items, QueueType DEF TypeOK
    <3>3. asked' \in [User -> [Read -> Nat]]
      BY <3>0, AskTypes DEF TypeOK, ReadKind
    <3> QED
      BY <1>2, <2>2, <3>2, <3>3 DEF AnswerRemove, TypeOK, servers, screens, history
  <2> QED
    BY <1>2, <2>1, <2>2 DEF AnswerRemove
<1>3. CASE AnswerDecrement(u, p)
  <2>1. CASE recruit[p].cur = Nil /\ Crash(u)
    BY <2>1, TypeCrash
  <2>2. CASE recruit[p].cur # Nil
    <3>0. /\ asked[u][<<"decrement", p>>] > 0
          /\ fs' = Queue(fs, u, <<SetRecruit(p, LoweredByOne(recruit[p]))>>)
          /\ asked' = Answered(u, "decrement", p)
      BY <1>3, <2>2 DEF AnswerDecrement
    <3>1. LoweredByOne(recruit[p]) \in Recruit
      <4>1. recruit[p] \in Recruit /\ recruit[p].cur \in Int
        BY <2>2 DEF TypeOK, Recruit
      <4> QED
        BY <4>1 DEF Recruit, LoweredByOne
    <3>2. fs' \in [User -> Seq(FsWrite)]
      BY <3>1, <3>0, FsTypes, Items, QueueType DEF TypeOK
    <3>3. asked' \in [User -> [Read -> Nat]]
      BY <3>0, AskTypes DEF TypeOK, ReadKind
    <3> QED
      BY <1>3, <2>2, <3>2, <3>3 DEF AnswerDecrement, TypeOK, servers, screens, history
  <2> QED
    BY <1>3, <2>1, <2>2 DEF AnswerDecrement
<1>4. ASSUME NEW kind \in ReadKind, NEW strip \in RtKind, AnswerMembers(u, p, kind, strip)
      PROVE  TypeOK'
  <2>1. CASE members[p] = Nil /\ Crash(u)
    BY <2>1, TypeCrash
  <2>2. CASE members[p] # Nil
    <3> DEFINE walk == [i \in 1..Len(members[p]) |-> Rt(members[p][i], strip, p)]
    <3>0. /\ rt' = Queue(rt, u, walk)
          /\ fs' = Queue(fs, u, <<SetMembers(p, Nil)>>)
      BY <1>4, <2>2 DEF AnswerMembers
    <3>4. walk \in Seq(RtOp)
      BY <2>2, WalkType DEF TypeOK
    <3>1. rt' \in [User -> Seq(RtOp)]
      <4> HIDE DEF walk
      <4> QED
        BY <3>0, <3>4, QueueType DEF TypeOK
    <3>2. fs' \in [User -> Seq(FsWrite)]
      BY <3>0, FsTypes, Items, QueueType DEF TypeOK
    <3>3. asked' \in [User -> [Read -> Nat]]
      BY <1>4, <2>2, AskTypes DEF AnswerMembers, TypeOK
    <3> QED
      BY <1>4, <2>2, <3>1, <3>2, <3>3 DEF AnswerMembers, TypeOK, servers, screens, history
  <2> QED
    BY <1>4, <2>1, <2>2 DEF AnswerMembers
<1> QED
  BY <1>1, <1>2, <1>3, <1>4 DEF FirestoreAnswer, ReadKind, RtKind

LEMMA TypeTrouble ==
    ASSUME TypeOK, NEW u \in User, ReadFails(u) \/ Kill(u)
    PROVE  TypeOK'
<1>1. CASE Kill(u)
  BY <1>1, TypeRestart DEF Kill, TypeOK
<1>2. CASE ReadFails(u)
  <2>1. rt' \in [User -> Seq(RtOp)]
    <3>1. rt[u] # <<>> => Then(u, <<>>) \in [User -> Seq(RtOp)]
      BY Items, ThenType DEF TypeOK
    <3> QED
      BY <1>2, <3>1 DEF ReadFails, TypeOK
  <2>2. asked' \in [User -> [Read -> Nat]]
    <3>1. ASSUME NEW r \in Read, asked[u][r] > 0
          PROVE  Answered(u, r[1], r[2]) \in [User -> [Read -> Nat]]
      <4>1. r[1] \in ReadKind /\ r[2] \in Post /\ r = <<r[1], r[2]>>
        BY DEF Read
      <4> QED
        BY <3>1, <4>1, AskTypes DEF TypeOK
    <3> QED
      BY <1>2, <3>1 DEF ReadFails, TypeOK
  <2> QED
    BY <1>2, <2>1, <2>2 DEF ReadFails, TypeOK, servers, screens, history
<1> QED
  BY <1>1, <1>2

LEMMA TypeNext == TypeOK /\ [Next]_vars => TypeOK'
<1> SUFFICES ASSUME TypeOK, [Next]_vars PROVE TypeOK'
  OBVIOUS
<1>1. CASE UNCHANGED vars
  BY <1>1 DEF TypeOK, vars, servers, screens, wires, history
<1>2. CASE Next
  BY <1>2, TypeTap, TypeBrowse, TypeRealtime, TypeCommit, TypeAnswer, TypeTrouble
  DEF Next, Network
<1> QED
  BY <1>1, <1>2

(* What the databases, the screens and the queues hold has its type: no    *)
(* step writes a count, a list or a request of the wrong shape.            *)
THEOREM TypeCorrect == Spec => []TypeOK
BY TypeInit, TypeNext, PTL DEF Spec
-----------------------------------------------------------------------------
(***************************************************************************)
(* The bound on the counters and the participants of a room.  Neither is   *)
(* inductive: a counter comes from a page's copy, a list from another      *)
(* callback's read, and both travel through the queues.  The invariant     *)
(* follows them there: no copy and no queued write holds a count above the *)
(* largest capacity, or names a student who never joined.                  *)
(***************************************************************************)
Bounded(c, p) == c # Nil => c <= mostSeats[p]

StoredSafe == \A p \in Post :
    /\ Bounded(recruit[p].cur, p) /\ Bounded(recruit[p].max, p)
    /\ Bounded(group[p].cur, p)
    /\ members[p] \in Seq(joined[p]) \cup {Nil}

ListsSafe == \A u \in User : \A p \in userGroups[u] : u \in joined[p]

CopySafe(pg) == pg.cur <= mostSeats[pg.post] /\ pg.max <= mostSeats[pg.post]
CopiesSafe == \A u \in User : page[u] # Nil => CopySafe(page[u])

(* The requests a student may have queued, and the Firestore writes.       *)
SafeRt(u) == {m \in RtOp :
    /\ m.op = "setCount" => m.num <= mostSeats[m.post]
    /\ m.op \in {"create", "setGroup"} => 1 <= mostSeats[m.post]
    /\ m.op \in {"create", "list"} => u \in joined[m.post]
    /\ m.op = "setGroups" => \A q \in m.posts : m.who \in joined[q]}
SafeFs == {w \in FsWrite :
    /\ Bounded(w.fields.cur, w.post) /\ Bounded(w.fields.max, w.post)
    /\ w.users \in Seq(joined[w.post]) \cup {Nil}}

RtSafe    == \A u \in User : rt[u] \in Seq(SafeRt(u))
FsSafe    == \A u \in User : fs[u] \in Seq(SafeFs)
AsksSafe  == \A u \in User, p \in Post : asked[u][<<"append", p>>] > 0 => u \in joined[p]

IInv == TypeOK /\ StoredSafe /\ ListsSafe /\ CopiesSafe /\ RtSafe /\ FsSafe /\ AsksSafe

LEMMA InvInit == Init => IInv
<1> SUFFICES ASSUME Init PROVE IInv
  OBVIOUS
<1>1. TypeOK
  BY TypeInit
<1>2. StoredSafe /\ ListsSafe /\ CopiesSafe
  BY DEF Init, StoredSafe, ListsSafe, CopiesSafe, Bounded, NoRecruit, NoGroup
<1>3. RtSafe /\ FsSafe
  BY Items DEF Init, RtSafe, FsSafe
<1>4. AsksSafe
  BY DEF Init, AsksSafe, NothingAsked, Read, ReadKind
<1> QED
  BY <1>1, <1>2, <1>3, <1>4 DEF IInv

(* Capacities only grow and nobody un-joins: what was safe stays safe.     *)
Grows == \A p \in Post : mostSeats[p] <= mostSeats'[p] /\ joined[p] \subseteq joined'[p]

LEMMA SafeGrows ==
    ASSUME TypeOK, TypeOK', Grows
    PROVE  /\ \A u \in User : SafeRt(u) \subseteq SafeRt(u)'
           /\ SafeFs \subseteq SafeFs'
           /\ \A p \in Post, c \in Int \cup {Nil} : Bounded(c, p) => Bounded(c, p)'
<1>1. \A p \in Post : mostSeats[p] \in Nat /\ mostSeats'[p] \in Nat
  BY DEF TypeOK
<1>2. ASSUME NEW p \in Post, NEW c \in Int \cup {Nil}, Bounded(c, p)
      PROVE  Bounded(c, p)'
  BY <1>1, <1>2 DEF Grows, Bounded
<1>3. \A p \in Post : Seq(joined[p]) \subseteq Seq(joined'[p])
  BY SeqMonotonic DEF Grows
<1>4. ASSUME NEW u \in User, NEW m \in SafeRt(u) PROVE m \in SafeRt(u)'
  <2>1. m \in RtOp /\ m.post \in Post /\ m.num \in Int /\ m.posts \subseteq Post
    BY DEF SafeRt, RtOp
  <2> QED
    BY <1>1, <1>4, <2>1 DEF SafeRt, Grows
<1>5. ASSUME NEW w \in SafeFs PROVE w \in SafeFs'
  <2>1. /\ w \in FsWrite /\ w.post \in Post
        /\ w.fields.cur \in Int \cup {Nil} /\ w.fields.max \in Int \cup {Nil}
    BY DEF SafeFs, FsWrite, Recruit
  <2> QED
    BY <1>2, <1>3, <1>5, <2>1 DEF SafeFs
<1> QED
  BY <1>2, <1>4, <1>5

LEMMA CopyStays ==
    ASSUME TypeOK, TypeOK', Grows, NEW pg \in Page, CopySafe(pg)
    PROVE  pg.cur <= mostSeats'[pg.post] /\ pg.max <= mostSeats'[pg.post]
<1>1. pg.post \in Post /\ pg.cur \in Int /\ pg.max \in Int
  BY DEF Page
<1>2. /\ mostSeats[pg.post] \in Nat /\ mostSeats'[pg.post] \in Nat
      /\ mostSeats[pg.post] <= mostSeats'[pg.post]
  BY <1>1 DEF TypeOK, Grows
<1> QED
  BY <1>1, <1>2 DEF CopySafe

(* Where the history does not change, safety of queues is the same set.    *)
LEMMA SafeSame ==
    ASSUME mostSeats' = mostSeats, joined' = joined
    PROVE  /\ \A u \in User : SafeRt(u)' = SafeRt(u)
           /\ SafeFs' = SafeFs
           /\ \A p, c : Bounded(c, p)' = Bounded(c, p)
BY DEF SafeRt, SafeFs, Bounded

(* A queue that got items which are safe afterwards.                       *)
LEMMA RtQueued ==
    ASSUME RtSafe, NEW u \in User, NEW items \in Seq(SafeRt(u)'),
           TypeOK, rt' = Queue(rt, u, items),
           \A v \in User : SafeRt(v) \subseteq SafeRt(v)'
    PROVE  RtSafe'
<1>1. rt'[u] \in Seq(SafeRt(u)')
  <2>1. rt'[u] = rt[u] \o items
    BY DEF Queue, TypeOK
  <2> QED
    BY <2>1, Appended DEF RtSafe
<1>2. \A v \in User \ {u} : rt'[v] \in Seq(SafeRt(v)')
  BY SeqMonotonic DEF Queue, TypeOK, RtSafe
<1> QED
  BY <1>1, <1>2 DEF RtSafe

LEMMA FsQueued ==
    ASSUME FsSafe, NEW u \in User, NEW items \in Seq(SafeFs'),
           TypeOK, fs' = Queue(fs, u, items), SafeFs \subseteq SafeFs'
    PROVE  FsSafe'
<1>1. fs'[u] \in Seq(SafeFs')
  <2>1. fs'[u] = fs[u] \o items
    BY DEF Queue, TypeOK
  <2> QED
    BY <2>1, Appended DEF FsSafe
<1>2. \A v \in User \ {u} : fs'[v] \in Seq(SafeFs')
  BY SeqMonotonic DEF Queue, TypeOK, FsSafe
<1> QED
  BY <1>1, <1>2 DEF FsSafe

LEMMA RtServed ==
    ASSUME RtSafe, NEW u \in User, rt[u] # <<>>, NEW items \in Seq(SafeRt(u)'),
           TypeOK, rt' = Then(u, items), mostSeats' = mostSeats, joined' = joined
    PROVE  RtSafe'
<1>1. Tail(rt[u]) \in Seq(SafeRt(u))
  BY Served DEF RtSafe
<1>2. rt'[u] \in Seq(SafeRt(u)')
  <2>1. rt'[u] = Tail(rt[u]) \o items
    BY DEF Then, TypeOK
  <2> QED
    BY <1>1, <2>1, SafeSame, Appended
<1>3. \A v \in User \ {u} : rt'[v] \in Seq(SafeRt(v)')
  BY SafeSame DEF Then, TypeOK, RtSafe
<1> QED
  BY <1>2, <1>3 DEF RtSafe

LEMMA Kept ==
    ASSUME IInv, mostSeats' = mostSeats, joined' = joined
    PROVE  /\ rt' = rt => RtSafe'
           /\ fs' = fs => FsSafe'
           /\ asked' = asked => AsksSafe'
           /\ page' = page => CopiesSafe'
           /\ userGroups' = userGroups => ListsSafe'
           /\ recruit' = recruit /\ members' = members /\ group' = group => StoredSafe'
<1>1. rt' = rt => RtSafe'
  BY SafeSame DEF IInv, RtSafe
<1>2. fs' = fs => FsSafe'
  BY SafeSame DEF IInv, FsSafe
<1>3. asked' = asked => AsksSafe'
  BY DEF IInv, AsksSafe
<1>4. page' = page => CopiesSafe'
  BY DEF IInv, CopiesSafe, CopySafe
<1>5. userGroups' = userGroups => ListsSafe'
  BY DEF IInv, ListsSafe
<1>6. recruit' = recruit /\ members' = members /\ group' = group => StoredSafe'
  BY DEF IInv, StoredSafe, Bounded
<1> QED
  BY <1>1, <1>2, <1>3, <1>4, <1>5, <1>6

LEMMA InvRestart ==
    ASSUME IInv, TypeOK', NEW u \in User, Restart(u)
    PROVE  IInv'
<1>1. StoredSafe' /\ ListsSafe' /\ FsSafe'
  BY Kept DEF Restart, servers
<1>2. RtSafe'
  BY SafeSame, Items DEF IInv, TypeOK, Restart, RtSafe
<1>3. CopiesSafe'
  BY DEF IInv, TypeOK, Restart, CopiesSafe, CopySafe
<1>4. AsksSafe'
  BY DEF IInv, TypeOK, Restart, AsksSafe, NothingAsked, Read, ReadKind
<1> QED
  BY <1>1, <1>2, <1>3, <1>4 DEF IInv

LEMMA InvCrash ==
    ASSUME IInv, TypeOK', NEW u \in User, Crash(u)
    PROVE  IInv'
BY InvRestart DEF Crash

LEMMA InvTap ==
    ASSUME IInv, TypeOK', NEW u \in User, Tap(u)
    PROVE  IInv'
<1>1. TypeOK /\ StoredSafe /\ ListsSafe /\ CopiesSafe /\ RtSafe /\ FsSafe /\ AsksSafe
  BY DEF IInv
<1> USE RecruitmentAssumption
<1>2. ASSUME NEW p \in Post, NEW m \in 2..MaxSeats, Create(u, p, m)
      PROVE  IInv'
  <2>1. Grows /\ mostSeats'[p] >= m /\ u \in joined'[p]
    BY <1>1, <1>2 DEF Create, TypeOK, Grows, Larger
  <2>2. /\ \A v \in User : SafeRt(v) \subseteq SafeRt(v)'
        /\ SafeFs \subseteq SafeFs'
        /\ \A q \in Post, c \in Int \cup {Nil} : Bounded(c, q) => Bounded(c, q)'
    BY <1>1, <2>1, SafeGrows
  <2>3. Rt(u, "create", p) \in SafeRt(u)'
    <3>1. Rt(u, "create", p) \in RtOp
      BY RtTypes DEF RtKind
    <3> QED
      BY <1>1, <2>1, <3>1 DEF SafeRt, Rt, TypeOK
  <2>4. RtSafe'
    <3>1. <<Rt(u, "create", p)>> \in Seq(SafeRt(u)')
      BY <2>3, Items
    <3> QED
      BY <1>1, <1>2, <2>2, <3>1, RtQueued DEF Create
  <2> DEFINE d == [uid |-> u, cur |-> 1, max |-> m]
  <2>5. SetRecruit(p, d) \in SafeFs'
    <3>1. SetRecruit(p, d) \in FsWrite
      BY FsTypes DEF Recruit
    <3> QED
      BY <1>1, <2>1, <3>1 DEF SafeFs, SetRecruit, Bounded, TypeOK
  <2>6. SetMembers(p, <<u>>) \in SafeFs'
    <3>1. <<u>> \in Seq(User) /\ <<u>> \in Seq(joined'[p])
      BY <2>1, Items
    <3>2. SetMembers(p, <<u>>) \in FsWrite
      BY <3>1, FsTypes
    <3> QED
      BY <3>1, <3>2 DEF SafeFs, SetMembers, Bounded, NoRecruit
  <2>7. FsSafe'
    <3>1. <<SetRecruit(p, d), SetMembers(p, <<u>>)>> \in Seq(SafeFs')
      BY <2>5, <2>6, Items
    <3> QED
      BY <1>1, <1>2, <2>2, <3>1, FsQueued DEF Create
  <2>8. StoredSafe' /\ ListsSafe' /\ CopiesSafe' /\ AsksSafe'
    <3>1. StoredSafe'
      <4> SUFFICES ASSUME NEW q \in Post
                   PROVE  /\ Bounded(recruit[q].cur, q)' /\ Bounded(recruit[q].max, q)'
                          /\ Bounded(group[q].cur, q)'
                          /\ members'[q] \in Seq(joined'[q]) \cup {Nil}
        BY DEF StoredSafe
      <4>1. /\ recruit[q].cur \in Int \cup {Nil} /\ recruit[q].max \in Int \cup {Nil}
            /\ group[q].cur \in Int \cup {Nil}
        BY <1>1 DEF TypeOK, Recruit, Group
      <4>2. recruit' = recruit /\ group' = group /\ members' = members
        BY <1>2 DEF Create, servers
      <4>3. members[q] \in Seq(joined'[q]) \cup {Nil}
        BY <1>1, <2>1, SeqMonotonic DEF Grows, StoredSafe
      <4> QED
        BY <1>1, <2>2, <4>1, <4>2, <4>3 DEF StoredSafe, Bounded
    <3>2. ListsSafe' /\ AsksSafe'
      BY <1>1, <1>2, <2>1 DEF Create, servers, Grows, ListsSafe, AsksSafe, TypeOK
    <3>3. CopiesSafe'
      <4> SUFFICES ASSUME NEW v \in User, page'[v] # Nil PROVE CopySafe(page[v])'
        BY DEF CopiesSafe
      <4>1. page' = page /\ page[v] \in Page
        BY <1>1, <1>2 DEF Create, screens, TypeOK
      <4> QED
        BY <1>1, <2>1, <4>1, CopyStays DEF CopiesSafe, CopySafe
    <3> QED
      BY <3>1, <3>2, <3>3
  <2> QED
    BY <2>4, <2>7, <2>8 DEF IInv
<1>3. ASSUME Join(u) PROVE IInv'
  <2> DEFINE p == page[u].post
             n == page[u].cur + 1
  <2>1. page[u] \in Page /\ p \in Post /\ n \in Int
    BY SMTT(30), <1>1, <1>3 DEF Join, TypeOK, Page
  <2>2. /\ Grows /\ u \in joined'[p]
        /\ mostSeats' = mostSeats /\ mostSeats[p] \in Nat /\ n <= mostSeats[p]
    <3>1. mostSeats' = mostSeats /\ joined' = [joined EXCEPT ![p] = @ \cup {u}]
      BY <1>3 DEF Join
    <3>2. Grows /\ u \in joined'[p] /\ mostSeats[p] \in Nat
      BY <1>1, <2>1, <3>1 DEF TypeOK, Grows
    <3>3. page[u].cur < page[u].max /\ page[u].max <= mostSeats[p]
      BY <1>1, <1>3 DEF Join, HasRoom, CopiesSafe, CopySafe
    <3>4. page[u].cur \in Int /\ page[u].max \in Int
      BY <2>1 DEF Page
    <3> QED
      BY <3>1, <3>2, <3>3, <3>4
  <2>3. /\ \A v \in User : SafeRt(v) \subseteq SafeRt(v)'
        /\ SafeFs \subseteq SafeFs'
    BY <1>1, <2>2, SafeGrows
  <2>4. RtSafe'
    <3>1. SetCount(u, p, n) \in RtOp /\ Rt(u, "list", p) \in RtOp /\ Rt(u, "getID", p) \in RtOp
      BY <2>1, RtTypes DEF RtKind
    <3>2. /\ SetCount(u, p, n) \in SafeRt(u)' /\ Rt(u, "list", p) \in SafeRt(u)'
          /\ Rt(u, "getID", p) \in SafeRt(u)'
      BY <2>1, <2>2, <3>1 DEF SafeRt, SetCount, Rt
    <3>3. <<SetCount(u, p, n), Rt(u, "list", p), Rt(u, "getID", p)>> \in Seq(SafeRt(u)')
      BY <3>2, Items
    <3> QED
      BY <1>1, <1>3, <2>3, <3>3, RtQueued DEF Join
  <2>5. FsSafe'
    <3> DEFINE d == [NoRecruit EXCEPT !.cur = n]
    <3>1. MergeRecruit(p, d) \in FsWrite
      BY <2>1, FsTypes DEF NoRecruit, Recruit
    <3>2. MergeRecruit(p, d) \in SafeFs'
      BY <2>1, <2>2, <3>1 DEF SafeFs, MergeRecruit, SetRecruit, NoRecruit, Bounded
    <3>3. <<MergeRecruit(p, d)>> \in Seq(SafeFs')
      BY <3>2, Items
    <3>4. CASE fs' = fs
      BY <1>1, <2>3, <3>4, SeqMonotonic DEF FsSafe
    <3>5. CASE fs' = Queue(fs, u, <<MergeRecruit(p, d)>>)
      BY <1>1, <2>3, <3>3, <3>5, FsQueued
    <3> QED
      BY <1>3, <3>4, <3>5 DEF Join
  <2>6. StoredSafe'
    BY <1>1, <1>3, <2>2, SeqMonotonic DEF Join, servers, StoredSafe, Bounded, Grows
  <2>7. ListsSafe' /\ CopiesSafe'
    BY SMTT(30), <1>1, <1>3, <2>2 DEF Join, servers, ListsSafe, CopiesSafe, CopySafe, Grows, TypeOK
  <2>8. AsksSafe'
    BY SMTT(30), <1>1, <1>3, <2>1, <2>2 DEF Join, Ask, AsksSafe, Grows, TypeOK, Read, ReadKind
  <2> QED
    BY <2>4, <2>5, <2>6, <2>7, <2>8 DEF IInv
<1>4. ASSUME NEW m \in 2..MaxSeats, Edit(u, m) PROVE IInv'
  <2> DEFINE p == page[u].post
             d == [uid |-> Nil, cur |-> page[u].cur, max |-> m]
  <2>1. page[u] \in Page /\ p \in Post /\ page[u].cur \in Int
    BY <1>1, <1>4 DEF Edit, TypeOK, Page
  <2>2. Grows /\ joined' = joined /\ m <= mostSeats'[p] /\ page[u].cur <= mostSeats'[p]
    BY SMTT(30), <1>1, <1>4, <2>1 DEF Edit, TypeOK, Grows, Larger, CopiesSafe, CopySafe
  <2>3. /\ \A v \in User : SafeRt(v) \subseteq SafeRt(v)'
        /\ SafeFs \subseteq SafeFs'
        /\ \A q \in Post, c \in Int \cup {Nil} : Bounded(c, q) => Bounded(c, q)'
    BY <1>1, <2>2, SafeGrows
  <2>4. RtSafe'
    BY <1>1, <1>4, <2>3, SeqMonotonic DEF Edit, RtSafe
  <2>5. FsSafe'
    <3>1. MergeRecruit(p, d) \in FsWrite
      BY <2>1, FsTypes DEF Recruit
    <3>2. MergeRecruit(p, d) \in SafeFs'
      BY <2>1, <2>2, <3>1 DEF SafeFs, MergeRecruit, SetRecruit, Bounded
    <3>3. <<MergeRecruit(p, d)>> \in Seq(SafeFs')
      BY <3>2, Items
    <3> QED
      BY <1>1, <1>4, <2>3, <3>3, FsQueued DEF Edit
  <2>6. StoredSafe'
    <3> SUFFICES ASSUME NEW q \in Post
                 PROVE  /\ Bounded(recruit[q].cur, q)' /\ Bounded(recruit[q].max, q)'
                        /\ Bounded(group[q].cur, q)'
                        /\ members'[q] \in Seq(joined'[q]) \cup {Nil}
      BY DEF StoredSafe
    <3>1. /\ recruit[q].cur \in Int \cup {Nil} /\ recruit[q].max \in Int \cup {Nil}
          /\ group[q].cur \in Int \cup {Nil}
      BY <1>1 DEF TypeOK, Recruit, Group
    <3>2. recruit' = recruit /\ group' = group /\ members' = members
      BY <1>4 DEF Edit, servers
    <3> QED
      BY <1>1, <2>2, <2>3, <3>1, <3>2 DEF StoredSafe, Bounded
  <2>7. ListsSafe' /\ AsksSafe'
    BY <1>1, <1>4, <2>2 DEF Edit, servers, ListsSafe, AsksSafe
  <2>8. CopiesSafe'
    <3> SUFFICES ASSUME NEW v \in User, page'[v] # Nil PROVE CopySafe(page[v])'
      BY DEF CopiesSafe
    <3>1. CASE v = u
      <4>1. page'[u] = [page[u] EXCEPT !.max = m]
        BY <1>1, <1>4 DEF Edit, TypeOK
      <4>2. page'[u].post = p /\ page'[u].cur = page[u].cur /\ page'[u].max = m
        BY <2>1, <4>1 DEF Page
      <4> QED
        BY <2>2, <3>1, <4>2 DEF CopySafe
    <3>2. CASE v # u
      <4>1. page'[v] = page[v] /\ page[v] \in Page
        BY <1>1, <1>4, <3>2 DEF Edit, TypeOK
      <4> QED
        BY <1>1, <2>2, <4>1, CopyStays DEF CopiesSafe, CopySafe
    <3> QED
      BY <3>1, <3>2
  <2> QED
    BY <2>4, <2>5, <2>6, <2>7, <2>8 DEF IInv
<1>5. ASSUME DeletePost(u) PROVE IInv'
  <2> DEFINE p == page[u].post
  <2>1. p \in Post /\ mostSeats' = mostSeats /\ joined' = joined
    BY <1>1, <1>5 DEF DeletePost, TypeOK, Page
  <2>2. StoredSafe' /\ ListsSafe'
    BY <1>5, <2>1, Kept DEF DeletePost, servers
  <2>3. Rt(u, "removeGroup", p) \in SafeRt(u)'
    BY <2>1, RtTypes DEF SafeRt, Rt, RtKind
  <2>4. SetRecruit(p, NoRecruit) \in SafeFs'
    BY <2>1, FsTypes DEF SafeFs, SetRecruit, NoRecruit, Bounded
  <2>5. RtSafe'
    <3>1. <<Rt(u, "removeGroup", p)>> \in Seq(SafeRt(u)')
      BY <2>3, Items
    <3> QED
      BY <1>1, <1>5, <2>1, <3>1, SafeSame, RtQueued DEF DeletePost
  <2>6. FsSafe'
    <3>1. <<SetRecruit(p, NoRecruit)>> \in Seq(SafeFs')
      BY <2>4, Items
    <3> QED
      BY <1>1, <1>5, <2>1, <3>1, SafeSame, FsQueued DEF DeletePost
  <2>7. CopiesSafe' /\ AsksSafe'
    BY SMTT(30), <1>1, <1>5, <2>1
    DEF DeletePost, CopiesSafe, CopySafe, AsksSafe, Ask, TypeOK, Read, ReadKind
  <2> QED
    BY <2>2, <2>5, <2>6, <2>7 DEF IInv
<1>6. ASSUME Leave(u) PROVE IInv'
  <2>1. mostSeats' = mostSeats /\ joined' = joined /\ chat[u] \in Post
    BY <1>1, <1>6 DEF Leave, TypeOK
  <2>2. StoredSafe' /\ ListsSafe' /\ FsSafe' /\ AsksSafe' /\ CopiesSafe'
    BY <1>6, <2>1, Kept DEF Leave, servers
  <2>3. Rt(u, "getGroup", chat[u]) \in SafeRt(u)'
    BY <2>1, RtTypes DEF SafeRt, Rt, RtKind
  <2>4. RtSafe'
    <3>1. <<Rt(u, "getGroup", chat[u])>> \in Seq(SafeRt(u)')
      BY <2>3, Items
    <3> QED
      BY <1>1, <1>6, <2>1, <3>1, SafeSame, RtQueued DEF Leave
  <2> QED
    BY <2>2, <2>4 DEF IInv
<1>7. ASSUME NEW p \in Post, SwipeDelete(u, p) PROVE IInv'
  <2>1. mostSeats' = mostSeats /\ joined' = joined
    BY <1>7 DEF SwipeDelete
  <2>2. StoredSafe' /\ ListsSafe' /\ FsSafe' /\ AsksSafe' /\ CopiesSafe'
    BY <1>7, <2>1, Kept DEF SwipeDelete, servers, screens
  <2>3. Rt(u, "unlist", p) \in SafeRt(u)'
    BY <2>1, RtTypes DEF SafeRt, Rt, RtKind
  <2>4. RtSafe'
    <3>1. <<Rt(u, "unlist", p)>> \in Seq(SafeRt(u)')
      BY <2>3, Items
    <3> QED
      BY <1>1, <1>7, <2>1, <3>1, SafeSame, RtQueued DEF SwipeDelete
  <2> QED
    BY <2>2, <2>4 DEF IInv
<1> QED
  BY <1>2, <1>3, <1>4, <1>5, <1>6, <1>7 DEF Tap

LEMMA InvBrowse ==
    ASSUME IInv, TypeOK', NEW u \in User, Browse(u)
    PROVE  IInv'
<1>1. TypeOK /\ StoredSafe /\ CopiesSafe /\ RtSafe
  BY DEF IInv
<1>2. ASSUME NEW p \in Post, NEW s \in BOOLEAN, OpenPage(u, p, s) PROVE IInv'
  <2>1. mostSeats' = mostSeats /\ joined' = joined
    BY <1>2 DEF OpenPage, history
  <2>2. StoredSafe' /\ ListsSafe' /\ FsSafe' /\ AsksSafe'
    BY <1>2, <2>1, Kept DEF OpenPage, servers
  <2>3. RtSafe'
    <3>1. Rt(u, "check", p) \in SafeRt(u)'
      BY <2>1, RtTypes DEF SafeRt, Rt, RtKind
    <3>2. <<Rt(u, "check", p)>> \in Seq(SafeRt(u)')
      BY <3>1, Items
    <3> QED
      BY <1>1, <1>2, <2>1, <3>2, SafeSame, RtQueued DEF OpenPage
  <2>4. CopiesSafe'
    <3>1. /\ page'[u].post = p /\ page'[u].cur = recruit[p].cur
          /\ page'[u].max = recruit[p].max
      BY <1>1, <1>2 DEF OpenPage, TypeOK
    <3>2. CopySafe(page[u])'
      BY <1>1, <1>2, <2>1, <3>1 DEF OpenPage, Complete, CopySafe, StoredSafe, Bounded
    <3> QED
      BY <1>1, <1>2, <2>1, <3>2 DEF OpenPage, CopiesSafe, CopySafe, TypeOK
  <2> QED
    BY <2>2, <2>3, <2>4 DEF IInv
<1>3. ASSUME ClosePage(u) PROVE IInv'
  <2>1. mostSeats' = mostSeats /\ joined' = joined
    BY <1>3 DEF ClosePage, history
  <2>2. CopiesSafe'
    BY <1>1, <1>3, <2>1 DEF ClosePage, CopiesSafe, CopySafe, TypeOK
  <2> QED
    BY <1>3, <2>1, <2>2, Kept DEF ClosePage, servers, wires, IInv
<1>4. ASSUME PopChat(u) \/ \E p \in Post : OpenChat(u, p) PROVE IInv'
  BY <1>4, Kept DEF PopChat, OpenChat, servers, wires, history, IInv
<1>5. FetchPartialPost(u) \/ ListPartialRoom(u) => IInv'
  BY InvCrash DEF FetchPartialPost, ListPartialRoom
<1> QED
  BY <1>2, <1>3, <1>4, <1>5 DEF Browse

LEMMA InvRealtime ==
    ASSUME IInv, TypeOK', NEW u \in User, RealtimeStep(u)
    PROVE  IInv'
<1> DEFINE m == Head(rt[u])
<1>1. TypeOK /\ StoredSafe /\ ListsSafe /\ CopiesSafe /\ RtSafe /\ FsSafe /\ AsksSafe
  BY DEF IInv
<1>2. rt[u] # <<>> => m \in SafeRt(u) /\ m \in RtOp
  BY <1>1, Served DEF RtSafe, SafeRt
<1>3. m \in RtOp => m.post \in Post /\ m.who \in User /\ m.num \in Int /\ m.posts \subseteq Post
  BY DEF RtOp
<1>4. ASSUME rt[u] # <<>>, mostSeats' = mostSeats, joined' = joined,
             NEW items \in Seq(SafeRt(u)'), rt' = Then(u, items)
      PROVE  RtSafe'
  BY <1>1, <1>4, RtServed
(* A request whose kind the invariant does not constrain.                  *)
<1>5. ASSUME NEW p \in Post, NEW v \in User,
             NEW op \in RtKind \ {"setCount", "create", "setGroup", "list", "setGroups"}
      PROVE  Rt(v, op, p) \in SafeRt(u)'
  BY RtTypes DEF SafeRt, Rt
<1> USE DEF Serves
<1>6. CASE List(u)
  <2>1. /\ mostSeats' = mostSeats /\ joined' = joined
        /\ m \in SafeRt(u) /\ m.post \in Post /\ m.op \in {"create", "list"}
    BY <1>2, <1>3, <1>6 DEF List, history
  <2>2. u \in joined[m.post] /\ (m.op = "create" => 1 <= mostSeats[m.post])
    BY <2>1 DEF SafeRt
  <2>3. ListsSafe'
    BY <1>1, <1>6, <2>1, <2>2 DEF List, ListsSafe, TypeOK
  <2>4. RtSafe'
    <3>1. m.op = "create" => Rt(u, "setGroup", m.post) \in SafeRt(u)'
      BY <2>1, <2>2, RtTypes DEF SafeRt, Rt, RtKind
    <3> QED
      BY <1>4, <1>6, <2>1, <3>1, Items DEF List
  <2> QED
    BY <1>6, <2>1, <2>3, <2>4, Kept DEF List, screens, IInv
<1>7. CASE Unlist(u)
  <2>1. mostSeats' = mostSeats /\ joined' = joined
    BY <1>7 DEF Unlist, history
  <2>2. RtSafe'
    BY <1>4, <1>7, <2>1, Items DEF Unlist
  <2>3. ListsSafe'
    BY <1>1, <1>7, <2>1 DEF Unlist, ListsSafe, TypeOK
  <2> QED
    BY <1>7, <2>1, <2>2, <2>3, Kept DEF Unlist, screens, IInv
<1>8. CASE WriteGroup(u)
  <2>1. /\ mostSeats' = mostSeats /\ joined' = joined
        /\ m \in SafeRt(u) /\ m.post \in Post
    BY <1>2, <1>3, <1>8 DEF WriteGroup, history
  <2>2. RtSafe'
    BY <1>4, <1>8, <2>1, Items DEF WriteGroup
  <2>3. ASSUME NEW p \in Post PROVE Bounded(group[p].cur, p)'
    <3>1. group[p] \in Group /\ group[m.post] \in Group
      BY <1>1, <2>1 DEF TypeOK
    <3>2. CASE p # m.post
      <4>1. group'[p] = group[p]
        BY <1>1, <1>8, <2>1, <3>2 DEF WriteGroup, TypeOK
      <4> QED
        BY <1>1, <2>1, <4>1 DEF StoredSafe, Bounded
    <3>3. CASE p = m.post
      <4>0. \/ m.op = "setGroup" /\ group'[p] = [name |-> TRUE, cur |-> 1, talk |-> FALSE]
            \/ m.op = "setCount" /\ group'[p] = [group[p] EXCEPT !.cur = m.num]
            \/ group'[p] = [group[p] EXCEPT !.talk = TRUE]
            \/ group'[p] = NoGroup
        <5>1. group \in [Post -> Group]
          BY <1>1 DEF TypeOK
        <5> QED
          BY <1>8, <2>1, <3>3, <5>1, Zenon DEF WriteGroup
      <4>1. \/ m.op = "setGroup" /\ group'[p].cur = 1
            \/ m.op = "setCount" /\ group'[p].cur = m.num
            \/ group'[p].cur = group[p].cur
            \/ group'[p].cur = Nil
        BY <3>1, <4>0 DEF Group, NoGroup
      <4>2. m.op = "setGroup" => 1 <= mostSeats[p]
        BY <2>1, <3>3 DEF SafeRt
      <4>3. m.op = "setCount" => m.num <= mostSeats[p]
        BY <2>1, <3>3 DEF SafeRt
      <4> QED
        BY <1>1, <2>1, <4>1, <4>2, <4>3 DEF StoredSafe, Bounded
    <3> QED
      BY <3>2, <3>3
  <2>4. StoredSafe'
    BY <1>1, <1>8, <2>1, <2>3 DEF WriteGroup, StoredSafe, Bounded
  <2> QED
    BY <1>8, <2>1, <2>2, <2>4, Kept DEF WriteGroup, screens, IInv
<1>9. CASE WriteGroups(u)
  <2>1. /\ mostSeats' = mostSeats /\ joined' = joined
        /\ m \in SafeRt(u) /\ m.who \in User /\ m.op = "setGroups"
    BY <1>2, <1>3, <1>9 DEF WriteGroups, history
  <2>2. RtSafe'
    BY <1>4, <1>9, <2>1, Items DEF WriteGroups
  <2>3. \A q \in m.posts : m.who \in joined[q]
    BY <2>1 DEF SafeRt
  <2>4. ListsSafe'
    BY <1>1, <1>9, <2>1, <2>3 DEF WriteGroups, ListsSafe, TypeOK
  <2> QED
    BY <1>9, <2>1, <2>2, <2>4, Kept DEF WriteGroups, screens, IInv
<1>10. CASE GotID(u)
  <2>1. mostSeats' = mostSeats /\ joined' = joined /\ m.post \in Post
    BY <1>2, <1>3, <1>10 DEF GotID, history
  <2>2. <<Rt(u, "push", m.post)>> \in Seq(SafeRt(u)')
    BY <1>5, <2>1, Items DEF RtKind
  <2>3. RtSafe'
    BY <1>4, <1>10, <2>1, <2>2 DEF GotID
  <2> QED
    BY <1>10, <2>1, <2>3, Kept DEF GotID, servers, screens, IInv
<1>11. CASE GotCheck(u)
  <2>1. mostSeats' = mostSeats /\ joined' = joined
    BY <1>11 DEF GotCheck, history
  <2>2. RtSafe'
    BY <1>4, <1>11, <2>1, Items DEF GotCheck
  <2>3. CopiesSafe'
    <3> SUFFICES ASSUME NEW v \in User, page'[v] # Nil PROVE CopySafe(page[v])'
      BY DEF CopiesSafe
    <3>1. CASE page'[v] = page[v]
      BY <1>1, <2>1, <3>1 DEF CopiesSafe, CopySafe
    <3>2. CASE page'[v] # page[v]
      <4>1. page[v] # Nil /\ page'[v] = [page[v] EXCEPT !.joinable = FALSE]
        <5>1. page \in [User -> Page \cup {Nil}]
          BY <1>1 DEF TypeOK
        <5> QED
          BY <1>11, <3>2, <5>1, Zenon DEF GotCheck
      <4>2. page[v] \in Page /\ CopySafe(page[v])
        BY <1>1, <4>1 DEF TypeOK, CopiesSafe
      <4>3. /\ page'[v].post = page[v].post /\ page'[v].cur = page[v].cur
            /\ page'[v].max = page[v].max
        BY <4>1, <4>2 DEF Page
      <4> QED
        BY <2>1, <4>2, <4>3 DEF CopySafe
    <3> QED
      BY <3>1, <3>2
  <2> QED
    BY <1>11, <2>1, <2>2, <2>3, Kept DEF GotCheck, servers, IInv
<1>12. CASE GotGroup(u)
  <2> DEFINE p == m.post
             cur == group[p].cur
  <2>1. p \in Post /\ rt[u] # <<>>
    BY <1>2, <1>3, <1>12 DEF GotGroup
  <2>2. CASE cur = Nil /\ Crash(u)
    BY <2>2, InvCrash
  <2>3. CASE cur = 1 /\ ~(cur = Nil /\ Crash(u))
    <3>0. /\ asked' = Ask(u, {"close"}, p)
          /\ fs' = Queue(fs, u, <<SetRecruit(p, NoRecruit)>>)
          /\ rt' = Then(u, <<Rt(u, "removeGroup", p)>>)
          /\ UNCHANGED <<servers, screens, history>>
      BY <1>12, <2>3, RecruitmentAssumption DEF GotGroup
    <3>1. mostSeats' = mostSeats /\ joined' = joined
      BY <3>0 DEF history
    <3>2. RtSafe'
      <4>1. <<Rt(u, "removeGroup", p)>> \in Seq(SafeRt(u)')
        BY <1>5, <2>1, Items DEF RtKind
      <4> QED
        BY <1>4, <2>1, <3>0, <3>1, <4>1
    <3>3. FsSafe'
      <4>0. SetRecruit(p, NoRecruit) \in SafeFs'
        BY <2>1, FsTypes DEF SafeFs, SetRecruit, NoRecruit, Bounded
      <4>1. <<SetRecruit(p, NoRecruit)>> \in Seq(SafeFs')
        BY <4>0, Items
      <4> QED
        BY <1>1, <3>0, <3>1, <4>1, SafeSame, FsQueued
    <3>4. AsksSafe'
      BY <1>1, <3>0, <3>1 DEF AsksSafe, Ask, TypeOK, Read, ReadKind
    <3> QED
      BY <3>0, <3>1, <3>2, <3>3, <3>4, Kept DEF servers, screens, IInv
  <2>4. CASE cur \notin {Nil, 1}
    <3>0. /\ asked' = Ask(u, {"remove", "decrement"}, p)
          /\ rt' = Then(u, <<Rt(u, "getUser", p), SetCount(u, p, cur - 1)>>)
          /\ UNCHANGED <<servers, screens, fs, history>>
      BY <1>12, <2>4 DEF GotGroup
    <3>1. mostSeats' = mostSeats /\ joined' = joined
      BY <3>0 DEF history
    <3>2. RtSafe'
      <4>1. cur \in Int /\ cur <= mostSeats[p] /\ mostSeats[p] \in Nat
        BY <1>1, <2>1, <2>4 DEF TypeOK, Group, StoredSafe, Bounded
      <4>2. SetCount(u, p, cur - 1) \in RtOp
        BY <2>1, <4>1, RtTypes
      <4>3. SetCount(u, p, cur - 1) \in SafeRt(u)'
        BY SMTT(30), <3>1, <4>1, <4>2 DEF SafeRt, SetCount, Rt
      <4>4. Rt(u, "getUser", p) \in SafeRt(u)'
        BY <1>5, <2>1 DEF RtKind
      <4>5. <<Rt(u, "getUser", p), SetCount(u, p, cur - 1)>> \in Seq(SafeRt(u)')
        BY <4>3, <4>4, Items
      <4> QED
        BY <1>4, <2>1, <3>0, <3>1, <4>5
    <3>3. AsksSafe'
      BY <1>1, <3>0, <3>1 DEF AsksSafe, Ask, TypeOK, Read, ReadKind
    <3> QED
      BY <3>0, <3>1, <3>2, <3>3, Kept DEF servers, screens, IInv
  <2> QED
    BY <1>12, <2>2, <2>3, <2>4 DEF GotGroup
<1>13. CASE GotUser(u)
  <2>1. CASE userGroups[u] = {} /\ Crash(u)
    BY <2>1, InvCrash
  <2>2. CASE userGroups[u] # {}
    <3>0. /\ rt[u] # <<>> /\ m.post \in Post
          /\ rt' = Then(u, <<Rt(u, "push", m.post), SetGroups(u, m.post, userGroups[u] \ {m.post})>>)
          /\ UNCHANGED <<servers, screens, fs, asked, history>>
      BY <1>2, <1>3, <1>13, <2>2 DEF GotUser
    <3>1. mostSeats' = mostSeats /\ joined' = joined
      BY <3>0 DEF history
    <3>2. SetGroups(u, m.post, userGroups[u] \ {m.post}) \in RtOp
      BY <1>1, <3>0, RtTypes DEF TypeOK
    <3>3. SetGroups(u, m.post, userGroups[u] \ {m.post}) \in SafeRt(u)'
      BY <1>1, <3>1, <3>2 DEF SafeRt, SetGroups, Rt, ListsSafe
    <3>4. Rt(u, "push", m.post) \in SafeRt(u)'
      BY <1>5, <3>0 DEF RtKind
    <3>5. <<Rt(u, "push", m.post), SetGroups(u, m.post, userGroups[u] \ {m.post})>> \in Seq(SafeRt(u)')
      BY <3>3, <3>4, Items
    <3>6. RtSafe'
      BY <1>4, <3>0, <3>1, <3>5
    <3> QED
      BY <3>0, <3>1, <3>6, Kept DEF servers, screens, IInv
  <2> QED
    BY <1>13, <2>1, <2>2 DEF GotUser
<1>14. CASE GotGroups(u)
  <2> DEFINE list == userGroups[m.who]
             back == SetGroups(m.who, m.post, Stripped(m, list))
  <2>1. CASE list = {} /\ Crash(u)
    BY <2>1, InvCrash
  <2>2. CASE list # {}
    <3>0. /\ rt[u] # <<>> /\ m.post \in Post /\ m.who \in User
          /\ rt' = Then(u, <<back>>)
          /\ UNCHANGED <<servers, screens, fs, asked, history>>
      BY <1>2, <1>3, <1>14, <2>2 DEF GotGroups
    <3>1. mostSeats' = mostSeats /\ joined' = joined
      BY <3>0 DEF history
    <3>2. Stripped(m, list) \subseteq list /\ list \in SUBSET Post
      BY <1>1, <3>0 DEF Stripped, TypeOK
    <3>3. back \in RtOp
      BY <3>0, <3>2, RtTypes
    <3>4. back \in SafeRt(u)'
      BY <1>1, <3>0, <3>1, <3>2, <3>3 DEF SafeRt, SetGroups, Rt, ListsSafe
    <3>5. <<back>> \in Seq(SafeRt(u)')
      BY <3>4, Items
    <3>6. RtSafe'
      BY <1>4, <3>0, <3>1, <3>5
    <3> QED
      BY <3>0, <3>1, <3>6, Kept DEF servers, screens, IInv
  <2> QED
    BY <1>14, <2>1, <2>2 DEF GotGroups
<1> QED
  BY <1>6, <1>7, <1>8, <1>9, <1>10, <1>11, <1>12, <1>13, <1>14 DEF RealtimeStep

LEMMA InvCommit ==
    ASSUME IInv, TypeOK', NEW u \in User, Commit(u)
    PROVE  IInv'
<1> DEFINE w == Head(fs[u])
<1>1. TypeOK /\ StoredSafe /\ FsSafe
  BY DEF IInv
<1>2. w \in SafeFs /\ Tail(fs[u]) \in Seq(SafeFs)
  BY <1>1, Served DEF Commit, FsSafe
<1>3. mostSeats' = mostSeats /\ joined' = joined
  BY DEF Commit, history
<1>4. /\ w \in FsWrite /\ w.post \in Post
      /\ Bounded(w.fields.cur, w.post) /\ Bounded(w.fields.max, w.post)
      /\ w.users \in Seq(joined[w.post]) \cup {Nil}
  BY <1>2 DEF SafeFs, FsWrite
<1>5. FsSafe'
  BY <1>1, <1>2, <1>3, SafeSame DEF Commit, FsSafe, TypeOK
<1>6. ASSUME NEW p \in Post
      PROVE  Bounded(recruit[p].cur, p)' /\ Bounded(recruit[p].max, p)'
  <2>1. Bounded(recruit[p].cur, p) /\ Bounded(recruit[p].max, p)
    BY <1>1 DEF StoredSafe
  <2>2. \/ recruit'[p] = recruit[p]
        \/ p = w.post /\ recruit'[p] = Merged(recruit[p], w.fields)
        \/ p = w.post /\ recruit'[p] = w.fields
    <3>1. recruit \in [Post -> Recruit]
      BY <1>1 DEF TypeOK
    <3> QED
      BY <1>4, <3>1 DEF Commit
  <2> QED
    BY <1>3, <1>4, <2>1, <2>2 DEF Merged, Bounded
<1>7. ASSUME NEW p \in Post PROVE members'[p] \in Seq(joined[p]) \cup {Nil}
  BY <1>1, <1>4 DEF Commit, StoredSafe, TypeOK
<1>8. StoredSafe'
  <2>1. group' = group
    BY DEF Commit
  <2> QED
    BY <1>1, <1>3, <1>6, <1>7, <2>1 DEF StoredSafe, Bounded
<1> QED
  BY <1>3, <1>5, <1>8, Kept DEF Commit, screens, IInv

LEMMA AnsweredKeeps ==
    ASSUME TypeOK, AsksSafe, NEW u \in User, NEW kind \in ReadKind, NEW p \in Post,
           asked' = Answered(u, kind, p), joined' = joined
    PROVE  AsksSafe'
<1> SUFFICES ASSUME NEW v \in User, NEW q \in Post, asked'[v][<<"append", q>>] > 0
             PROVE  v \in joined[q]
  BY DEF AsksSafe
<1>1. <<"append", q>> \in Read
  BY DEF Read, ReadKind
<1>2. asked[v][<<"append", q>>] \in Nat
  BY <1>1 DEF TypeOK
<1>3. \/ asked'[v][<<"append", q>>] = asked[v][<<"append", q>>]
      \/ asked'[v][<<"append", q>>] = asked[v][<<"append", q>>] - 1
  BY <1>1 DEF Answered, TypeOK
<1> QED
  BY <1>2, <1>3 DEF AsksSafe

LEMMA InvAnswer ==
    ASSUME IInv, TypeOK', NEW u \in User, NEW p \in Post, FirestoreAnswer(u, p)
    PROVE  IInv'
<1> USE DEF Answers
<1>1. TypeOK /\ StoredSafe /\ RtSafe /\ FsSafe /\ AsksSafe
  BY DEF IInv
(* A write that is safe may be queued.                                     *)
<1>2. ASSUME NEW w \in SafeFs, fs' = Queue(fs, u, <<w>>),
             mostSeats' = mostSeats, joined' = joined
      PROVE  FsSafe'
  <2>1. <<w>> \in Seq(SafeFs')
    BY <1>2, SafeSame, Items
  <2> QED
    BY <1>1, <1>2, <2>1, SafeSame, FsQueued
<1>3. ASSUME NEW us \in Seq(joined[p]), us \in Seq(User)
      PROVE  SetMembers(p, us) \in SafeFs
  BY <1>3, FsTypes DEF SafeFs, SetMembers, NoRecruit, Bounded
<1>4. members[p] # Nil => members[p] \in Seq(joined[p]) /\ members[p] \in Seq(User)
  BY <1>1 DEF StoredSafe, TypeOK
<1>5. CASE AnswerAppend(u, p)
  <2>1. CASE members[p] = Nil /\ Crash(u)
    BY <2>1, InvCrash
  <2>2. CASE members[p] # Nil
    <3>0. /\ asked[u][<<"append", p>>] > 0
          /\ fs' = Queue(fs, u, <<SetMembers(p, Append(members[p], u))>>)
          /\ asked' = Answered(u, "append", p)
          /\ UNCHANGED <<servers, screens, rt, history>>
      BY <1>5, <2>2 DEF AnswerAppend
    <3>1. mostSeats' = mostSeats /\ joined' = joined
      BY <3>0 DEF history
    <3>2. u \in joined[p]
      BY <1>1, <3>0 DEF AsksSafe
    <3>3. Append(members[p], u) \in Seq(joined[p]) /\ Append(members[p], u) \in Seq(User)
      BY <1>4, <2>2, <3>2, AppendProperties
    <3>4. FsSafe'
      BY <1>2, <1>3, <3>0, <3>1, <3>3
    <3>5. AsksSafe'
      BY <1>1, <3>0, <3>1, AnsweredKeeps DEF ReadKind
    <3> QED
      BY <3>0, <3>1, <3>4, <3>5, Kept DEF servers, screens, IInv
  <2> QED
    BY <1>5, <2>1, <2>2 DEF AnswerAppend
<1>6. CASE AnswerRemove(u, p)
  <2>1. CASE members[p] = Nil /\ Crash(u)
    BY <2>1, InvCrash
  <2>2. CASE members[p] # Nil
    <3>0. /\ fs' = Queue(fs, u, <<SetMembers(p, WithoutFirst(members[p], u))>>)
          /\ asked' = Answered(u, "remove", p)
          /\ UNCHANGED <<servers, screens, rt, history>>
      BY <1>6, <2>2 DEF AnswerRemove
    <3>1. mostSeats' = mostSeats /\ joined' = joined
      BY <3>0 DEF history
    <3>3. /\ WithoutFirst(members[p], u) \in Seq(joined[p])
          /\ WithoutFirst(members[p], u) \in Seq(User)
      BY <1>4, <2>2, WithoutFirstType
    <3>4. FsSafe'
      BY <1>2, <1>3, <3>0, <3>1, <3>3
    <3>5. AsksSafe'
      BY <1>1, <3>0, <3>1, AnsweredKeeps DEF ReadKind
    <3> QED
      BY <3>0, <3>1, <3>4, <3>5, Kept DEF servers, screens, IInv
  <2> QED
    BY <1>6, <2>1, <2>2 DEF AnswerRemove
<1>7. CASE AnswerDecrement(u, p)
  <2>1. CASE recruit[p].cur = Nil /\ Crash(u)
    BY <2>1, InvCrash
  <2>2. CASE recruit[p].cur # Nil
    <3> DEFINE d == LoweredByOne(recruit[p])
    <3>0. /\ fs' = Queue(fs, u, <<SetRecruit(p, d)>>)
          /\ asked' = Answered(u, "decrement", p)
          /\ UNCHANGED <<servers, screens, rt, history>>
      BY <1>7, <2>2 DEF AnswerDecrement
    <3>1. mostSeats' = mostSeats /\ joined' = joined /\ mostSeats[p] \in Nat
      BY <1>1, <3>0 DEF history, TypeOK
    <3>2. /\ recruit[p] \in Recruit /\ recruit[p].cur \in Int
          /\ recruit[p].cur <= mostSeats[p] /\ Bounded(recruit[p].max, p)
      BY <1>1, <2>2 DEF TypeOK, Recruit, StoredSafe, Bounded
    <3>3. d \in Recruit /\ d.cur = recruit[p].cur - 1 /\ d.max = recruit[p].max
      BY <3>2 DEF Recruit, LoweredByOne
    <3>4. Bounded(d.cur, p) /\ Bounded(d.max, p)
      BY <3>1, <3>2, <3>3 DEF Bounded
    <3>5. SetRecruit(p, d) \in SafeFs
      <4> HIDE DEF d
      <4>1. SetRecruit(p, d) \in FsWrite
        BY <3>3, FsTypes
      <4> QED
        BY <3>4, <4>1 DEF SafeFs, SetRecruit
    <3>6. FsSafe'
      BY <1>2, <3>0, <3>1, <3>5
    <3>7. AsksSafe'
      BY <1>1, <3>0, <3>1, AnsweredKeeps DEF ReadKind
    <3> QED
      BY <3>0, <3>1, <3>6, <3>7, Kept DEF servers, screens, IInv
  <2> QED
    BY <1>7, <2>1, <2>2 DEF AnswerDecrement
<1>8. ASSUME NEW kind \in {"delete", "close"}, NEW strip \in {"stripPost", "stripUid"},
             AnswerMembers(u, p, kind, strip)
      PROVE  IInv'
  <2>1. CASE members[p] = Nil /\ Crash(u)
    BY <2>1, InvCrash
  <2>2. CASE members[p] # Nil
    <3> DEFINE walk == [i \in 1..Len(members[p]) |-> Rt(members[p][i], strip, p)]
    <3>0. /\ rt' = Queue(rt, u, walk)
          /\ fs' = Queue(fs, u, <<SetMembers(p, Nil)>>)
          /\ asked' = Answered(u, kind, p)
          /\ UNCHANGED <<servers, screens, history>>
      BY <1>8, <2>2 DEF AnswerMembers
    <3>1. mostSeats' = mostSeats /\ joined' = joined
      BY <3>0 DEF history
    <3>2. walk \in Seq(SafeRt(u)')
      <4>1. \A v \in User : Rt(v, strip, p) \in SafeRt(u)'
        BY RtTypes DEF SafeRt, Rt, RtKind
      <4>2. /\ Len(members[p]) \in Nat
            /\ \A i \in 1..Len(members[p]) : members[p][i] \in User
        BY <1>4, <2>2, LenProperties, ElementOfSeq
      <4>3. walk \in [1..Len(members[p]) -> SafeRt(u)']
        BY <4>1, <4>2
      <4> QED
        BY <4>2, <4>3, SeqDef
    <3>3. RtSafe'
      <4> HIDE DEF walk
      <4> QED
        BY <1>1, <3>0, <3>1, <3>2, SafeSame, RtQueued
    <3>4. SetMembers(p, Nil) \in SafeFs
      BY FsTypes DEF SafeFs, SetMembers, NoRecruit, Bounded
    <3>5. FsSafe'
      BY <1>2, <3>0, <3>1, <3>4
    <3>6. AsksSafe'
      BY <1>1, <3>0, <3>1, AnsweredKeeps DEF ReadKind
    <3> QED
      BY <3>0, <3>1, <3>3, <3>5, <3>6, Kept DEF servers, screens, IInv
  <2> QED
    BY <1>8, <2>1, <2>2 DEF AnswerMembers
<1> QED
  BY <1>5, <1>6, <1>7, <1>8 DEF FirestoreAnswer

LEMMA InvTrouble ==
    ASSUME IInv, TypeOK', NEW u \in User, ReadFails(u) \/ Kill(u)
    PROVE  IInv'
<1>1. CASE Kill(u)
  BY <1>1, InvRestart DEF Kill
<1>2. CASE ReadFails(u)
  <2>1. mostSeats' = mostSeats /\ joined' = joined
    BY <1>2 DEF ReadFails, history
  <2>2. RtSafe'
    <3>1. rt[u] # <<>> /\ rt' = Then(u, <<>>) => RtSafe'
      BY <2>1, Items, RtServed DEF IInv
    <3>2. rt' = rt => RtSafe'
      BY <2>1, Kept
    <3> QED
      BY <1>2, <3>1, <3>2 DEF ReadFails
  <2>3. AsksSafe'
    <3>1. ASSUME NEW r \in Read, asked' = Answered(u, r[1], r[2])
          PROVE  AsksSafe'
      <4>1. r[1] \in ReadKind /\ r[2] \in Post
        BY DEF Read
      <4> QED
        BY <2>1, <3>1, <4>1, AnsweredKeeps DEF IInv
    <3>2. asked' = asked => AsksSafe'
      BY <2>1, Kept
    <3> QED
      BY <1>2, <3>1, <3>2 DEF ReadFails
  <2> QED
    BY <1>2, <2>1, <2>2, <2>3, Kept DEF ReadFails, servers, screens, IInv
<1> QED
  BY <1>1, <1>2

LEMMA InvNext == IInv /\ [Next]_vars => IInv'
<1> SUFFICES ASSUME IInv, [Next]_vars PROVE IInv'
  OBVIOUS
<1>1. TypeOK'
  BY TypeNext DEF IInv
<1>2. CASE UNCHANGED vars
  BY <1>1, <1>2, Kept DEF vars, servers, screens, wires, history, IInv
<1>3. CASE Next
  BY <1>1, <1>3, InvTap, InvBrowse, InvRealtime, InvCommit, InvAnswer, InvTrouble
  DEF Next, Network
<1> QED
  BY <1>2, <1>3

(* However stale the copies that joins, edits and leaves compute with, and *)
(* however their writes interleave, get lost in a kill or fail half-way,   *)
(* no counter in a database exceeds the largest capacity submitted.        *)
THEOREM CountersBounded == Spec => []CounterWithinCapacity
<1>1. IInv => CounterWithinCapacity
  BY DEF IInv, StoredSafe, Bounded, CounterWithinCapacity
<1> QED
  BY <1>1, InvInit, InvNext, PTL DEF Spec

(* Nobody is listed in a room, or holds it in his chat list, who did not   *)
(* create or join its post, although lists are written back whole and by   *)
(* the apps of other students.                                             *)
THEOREM ParticipantsOnly == Spec => []OnlyParticipantsListed
<1>1. ASSUME IInv PROVE OnlyParticipantsListed
  <2>1. ASSUME NEW p \in Post, members[p] # Nil, NEW i \in DOMAIN members[p]
        PROVE  members[p][i] \in joined[p]
    <3>1. members[p] \in Seq(joined[p])
      BY <1>1, <2>1 DEF IInv, StoredSafe
    <3> QED
      BY <2>1, <3>1, ElementOfSeq, LenProperties
  <2> QED
    BY <1>1, <2>1 DEF IInv, ListsSafe, OnlyParticipantsListed
<1> QED
  BY <1>1, InvInit, InvNext, PTL DEF Spec
-----------------------------------------------------------------------------
(***************************************************************************)
(* One operation after another.                                            *)
(***************************************************************************)
Serial == Environment = {}

Those(s) == {s[i] : i \in 1..Len(s)}
Once(s)  == \A i, j \in 1..Len(s) : s[i] = s[j] => i = j

(* A document d and a member list s that tell the same of an open post.    *)
Tells(d, s, p) ==
    /\ d \in Recruit /\ s \in Seq(User) /\ s # <<>> /\ Once(s)
    /\ d.uid # Nil /\ d.cur = Len(s) /\ d.max = seats[p] /\ seats[p] # 0

(* The room has n members by its counter, and these by their chat lists.   *)
Room(p, n, who) == group[p].name /\ group[p].cur = n /\ Listed(p) = who

(* A post between operations: not created yet, open, or closed.            *)
Untouched(p) == seats[p] = 0 /\ Gone(p) /\ Listed(p) = {} /\ p \notin removed
Running(p) ==
    /\ members[p] # Nil /\ Tells(recruit[p], members[p], p)
    /\ Room(p, Len(members[p]), Those(members[p])) /\ p \notin removed
Over(p)  == seats[p] # 0 /\ Gone(p) /\ (p \in removed => Listed(p) = {})
Story(p) == Untouched(p) \/ Running(p) \/ Over(p)

(* The Firestore half of an operation: the document and the member list    *)
(* are each asked for first (by a read of this kind), queued, or written.  *)
Stage == {"asked", "queued", "done"}
Queued(q, x, v, y, w) ==
    \/ x = "queued" /\ y = "queued" /\ (q = <<v, w>> \/ q = <<w, v>>)
    \/ x = "queued" /\ y # "queued" /\ q = <<v>>
    \/ x # "queued" /\ y = "queued" /\ q = <<w>>
    \/ x # "queued" /\ y # "queued" /\ q = <<>>
Asked(p, x, k, y, l) ==
    [r \in Read |-> IF \/ x = "asked" /\ r = <<k, p>>
                       \/ y = "asked" /\ r = <<l, p>> THEN 1 ELSE 0]
Half(u, p, x, a, y, b) ==
    /\ recruit[p] = IF x = "done" THEN a.new ELSE a.old
    /\ members[p] = IF y = "done" THEN b.new ELSE b.old
    /\ Queued(fs[u], x, a.write, y, SetMembers(p, b.new))
    /\ asked[u] = Asked(p, x, a.read, y, b.read)

DocPlan(k, d, e, w) == [read |-> k, old |-> d, new |-> e, write |-> w]
ListPlan(k, s, t)   == [read |-> k, old |-> s, new |-> t]

(* Creating: nobody has the room, then its author, then it is there.       *)
First(u, m) == [uid |-> u, cur |-> 1, max |-> m]
CreateDoc(u, p, m) == DocPlan("none", NoRecruit, First(u, m), SetRecruit(p, First(u, m)))
CreateList(u)  == ListPlan("none", Nil, <<u>>)
NewRoom        == [name |-> TRUE, cur |-> 1, talk |-> FALSE]
CreateRt(u, p) ==
    \/ rt[u] = <<Rt(u, "create", p)>> /\ Listed(p) = {} /\ group[p] = NoGroup
    \/ rt[u] = <<Rt(u, "setGroup", p)>> /\ Listed(p) = {u} /\ group[p] = NoGroup
    \/ rt[u] = <<>> /\ Listed(p) = {u} /\ group[p] = NewRoom
InCreate(u, p) == \E m \in Nat \ {0}, x, y \in {"queued", "done"} :
    /\ seats[p] = m /\ p \notin removed
    /\ Half(u, p, x, CreateDoc(u, p, m), y, CreateList(u))
    /\ CreateRt(u, p)

(* Joining.                                                                *)
Raised(d) == [d EXCEPT !.cur = @ + 1]
JoinDoc(p, d) ==
    DocPlan("none", d, Raised(d), MergeRecruit(p, [NoRecruit EXCEPT !.cur = d.cur + 1]))
JoinList(u, s)  == ListPlan("append", s, Append(s, u))
JoinRt(u, p, s) ==
    \/ /\ rt[u] = <<SetCount(u, p, Len(s) + 1), Rt(u, "list", p), Rt(u, "getID", p)>>
       /\ Room(p, Len(s), Those(s))
    \/ rt[u] = <<Rt(u, "list", p), Rt(u, "getID", p)>> /\ Room(p, Len(s) + 1, Those(s))
    \/ /\ rt[u] \in {<<Rt(u, "getID", p)>>, <<Rt(u, "push", p)>>, <<>>}
       /\ Room(p, Len(s) + 1, Those(s) \cup {u})
InJoin(u, p) == \E d \in Recruit, s \in Seq(User), x \in {"queued", "done"}, y \in Stage :
    /\ Tells(d, s, p) /\ p \notin removed /\ u \notin Those(s) /\ Len(s) < seats[p]
    /\ Half(u, p, x, JoinDoc(p, d), y, JoinList(u, s))
    /\ JoinRt(u, p, s)

(* Editing: only the document changes.                                     *)
EditDoc(p, d, m) ==
    DocPlan("none", d, [d EXCEPT !.max = m],
            MergeRecruit(p, [uid |-> Nil, cur |-> d.cur, max |-> m]))
InEdit(u, p) == \E m \in Nat, d \in Recruit, s \in Seq(User), x \in {"queued", "done"} :
    /\ seats[p] = m /\ p \notin removed
    /\ d.max \in Int /\ Tells([d EXCEPT !.max = m], s, p)
    /\ Half(u, p, x, EditDoc(p, d, m), "done", ListPlan("none", s, s))
    /\ rt[u] = <<>> /\ Room(p, Len(s), Those(s))

(* Asking for the room: of a page, or to leave it.                         *)
InRead(u, p, op) ==
    /\ Running(p) /\ fs[u] = <<>> /\ asked[u] = NothingAsked
    /\ rt[u] = <<Rt(u, op, p)>>
InCheck(u, p) == InRead(u, p, "check")
InAsk(u, p)   == InRead(u, p, "getGroup") /\ Holds(u, p)

(* Leaving a room that keeps others.                                       *)
ExitDoc(p, d) == DocPlan("decrement", d, LoweredByOne(d), SetRecruit(p, LoweredByOne(d)))
ExitList(u, s) == ListPlan("remove", s, WithoutFirst(s, u))
Unlisting(u, p) == SetGroups(u, p, userGroups[u] \ {p})
ExitRt(u, p, s) ==
    \/ /\ rt[u] = <<Rt(u, "getUser", p), SetCount(u, p, Len(s) - 1)>>
       /\ Room(p, Len(s), Those(s))
    \/ /\ rt[u] = <<SetCount(u, p, Len(s) - 1), Rt(u, "push", p), Unlisting(u, p)>>
       /\ Room(p, Len(s), Those(s))
    \/ /\ rt[u] \in {<<Rt(u, "push", p), Unlisting(u, p)>>, <<Unlisting(u, p)>>}
       /\ Room(p, Len(s) - 1, Those(s))
    \/ rt[u] = <<>> /\ Room(p, Len(s) - 1, Those(s) \ {u})
InExit(u, p) == \E d \in Recruit, s \in Seq(User), x, y \in Stage :
    /\ Tells(d, s, p) /\ p \notin removed /\ u \in Those(s) /\ Len(s) > 1
    /\ Half(u, p, x, ExitDoc(p, d), y, ExitList(u, s))
    /\ ExitRt(u, p, s)

(* The end of a post: its author deletes it, or the last member leaves.    *)
EndDoc(p, d)   == DocPlan("none", d, NoRecruit, SetRecruit(p, NoRecruit))
EndList(k, s)  == ListPlan(k, s, Nil)
StripOf(k)     == IF k = "delete" THEN "stripPost" ELSE "stripUid"
Left(k, p, ps) == IF k = "delete" THEN ps \ {p} ELSE ps
Removing(q)    == q # <<>> /\ q[1].op = "removeGroup"
Walk(u, p, k) == \A i \in 1..Len(rt[u]) :
    /\ rt[u][i].post = p
    /\ \/ i = 1 /\ rt[u][i].op = "removeGroup"
       \/ rt[u][i].op = StripOf(k) /\ Holds(rt[u][i].who, p)
       \/ /\ rt[u][i].op = "setGroups"
          /\ rt[u][i].posts = Left(k, p, userGroups[rt[u][i].who])
Apart(q) == \A i, j \in 1..Len(q) :
    (q[i].op # "removeGroup" /\ q[j].op # "removeGroup" /\ q[i].who = q[j].who) => i = j
EndRt(u, p, k, s, y) ==
    /\ Walk(u, p, k) /\ Apart(rt[u])
    /\ IF Removing(rt[u]) THEN group[p].name ELSE group[p] = NoGroup
    /\ y = "asked" => /\ \A i \in 1..Len(rt[u]) : rt[u][i].op = "removeGroup"
                      /\ Listed(p) = Those(s)
    /\ y # "asked" /\ k = "delete" => \A v \in Listed(p) : \E i \in 1..Len(rt[u]) :
           rt[u][i].op # "removeGroup" /\ rt[u][i].who = v
InEnd(u, p, k) == \E d \in Recruit, s \in Seq(User), x \in {"queued", "done"}, y \in Stage :
    /\ Tells(d, s, p) /\ (p \in removed) = (k = "delete")
    /\ Half(u, p, x, EndDoc(p, d), y, EndList(k, s))
    /\ EndRt(u, p, k, s, y)

(* No screen shows the post.                                               *)
Unseen(p) == \A v \in User : chat[v] # p /\ (page[v] # Nil => page[v].post # p)

(* One student has one operation under way, on one post.                   *)
Acting(u, p) ==
    \/ InCheck(u, p) \/ InEdit(u, p)
    \/ /\ Unseen(p)
       /\ \/ InCreate(u, p) \/ InJoin(u, p) \/ InAsk(u, p) \/ InExit(u, p)
          \/ InEnd(u, p, "delete") \/ InEnd(u, p, "close")
Alone(u, p) ==
    /\ \A v \in User \ {u} : Idle(v)
    /\ \A q \in Post \ {p} : Story(q)
    /\ Acting(u, p)
AtRest == Quiet /\ \A p \in Post : Story(p)

(* There is one screen at most, and what it copied is still so.            *)
Looks(v) == page[v] # Nil \/ chat[v] # Nil
FreshPage(v) ==
    LET p == page[v].post IN
    /\ ~page[v].search
    /\ recruit[p].uid # Nil /\ recruit[p].cur = page[v].cur
    /\ page[v].max = seats[p]
    /\ page[v].joinable => ~Holds(v, p) \/ rt[v] = <<Rt(v, "check", p)>>
Screens == \A v \in User :
    /\ \A w \in User : Looks(v) /\ Looks(w) => v = w
    /\ page[v] = Nil \/ chat[v] = Nil
    /\ page[v] # Nil => FreshPage(v)
    /\ chat[v] # Nil => Holds(v, chat[v]) /\ group[chat[v]].name

SerialInv ==
    /\ NoCrash /\ Screens
    /\ AtRest \/ \E u \in User, p \in Post : Alone(u, p)
-----------------------------------------------------------------------------
(* Requests, writes, and what serving a request does.                      *)

LEMMA RtFields ==
    ASSUME NEW u \in User, NEW p \in Post
    PROVE  /\ \A op \in RtKind : /\ Rt(u, op, p).op = op /\ Rt(u, op, p).post = p
                                 /\ Rt(u, op, p).who = u
           /\ \A n \in Int : /\ SetCount(u, p, n).op = "setCount"
                             /\ SetCount(u, p, n).post = p /\ SetCount(u, p, n).num = n
           /\ \A ps \in SUBSET Post :
                 /\ SetGroups(u, p, ps).op = "setGroups" /\ SetGroups(u, p, ps).post = p
                 /\ SetGroups(u, p, ps).who = u /\ SetGroups(u, p, ps).posts = ps
BY DEF Rt, SetCount, SetGroups, RtKind

LEMMA FsFields ==
    ASSUME NEW p \in Post
    PROVE  /\ \A d \in Recruit :
                 /\ SetRecruit(p, d).doc = "recruit" /\ SetRecruit(p, d).post = p
                 /\ SetRecruit(p, d).merge = FALSE /\ SetRecruit(p, d).fields = d
                 /\ MergeRecruit(p, d).doc = "recruit" /\ MergeRecruit(p, d).post = p
                 /\ MergeRecruit(p, d).merge = TRUE /\ MergeRecruit(p, d).fields = d
           /\ \A s : /\ SetMembers(p, s).doc = "members" /\ SetMembers(p, s).post = p
                     /\ SetMembers(p, s).users = s
BY DEF SetRecruit, MergeRecruit, SetMembers

(* Only the two halves of a student's queue change.                        *)
Beside == UNCHANGED <<page, chat, joined, seats, mostSeats, removed, crashed, taps>>
Firestore == UNCHANGED <<recruit, members, fs, asked>>

LEMMA ServeList ==
    ASSUME NEW u \in User, RealtimeStep(u), Head(rt[u]).op \in {"list", "create"}
    PROVE  /\ userGroups' = [userGroups EXCEPT ![u] = @ \cup {Head(rt[u]).post}]
           /\ rt' = Then(u, IF Head(rt[u]).op = "create"
                            THEN <<Rt(u, "setGroup", Head(rt[u]).post)>> ELSE <<>>)
           /\ UNCHANGED group /\ Beside /\ Firestore
<1>1. List(u)
  BY DEF RealtimeStep, Serves, List, Unlist, WriteGroup, WriteGroups, GotID, GotCheck,
         GotGroup, GotUser, GotGroups
<1> QED
  BY <1>1 DEF List, Serves, Beside, Firestore, history, screens

LEMMA ServeGroup ==
    ASSUME NEW u \in User, RealtimeStep(u),
           Head(rt[u]).op \in {"setGroup", "setCount", "push", "removeGroup"}
    PROVE  /\ group' = [group EXCEPT ![Head(rt[u]).post] =
                   IF Head(rt[u]).op = "setGroup" THEN NewRoom
                   ELSE IF Head(rt[u]).op = "setCount" THEN [@ EXCEPT !.cur = Head(rt[u]).num]
                   ELSE IF Head(rt[u]).op = "push" THEN [@ EXCEPT !.talk = TRUE]
                   ELSE NoGroup]
           /\ rt' = Then(u, <<>>)
           /\ UNCHANGED userGroups /\ Beside /\ Firestore
<1>1. WriteGroup(u)
  BY DEF RealtimeStep, Serves, List, Unlist, WriteGroup, WriteGroups, GotID, GotCheck,
         GotGroup, GotUser, GotGroups
<1> QED
  BY <1>1 DEF WriteGroup, NewRoom, Serves, Beside, Firestore, history, screens

LEMMA ServeLists ==
    ASSUME NEW u \in User, RealtimeStep(u), Head(rt[u]).op = "setGroups"
    PROVE  /\ userGroups' = [userGroups EXCEPT ![Head(rt[u]).who] = Head(rt[u]).posts]
           /\ rt' = Then(u, <<>>)
           /\ UNCHANGED group /\ Beside /\ Firestore
<1>1. WriteGroups(u)
  BY DEF RealtimeStep, Serves, List, Unlist, WriteGroup, WriteGroups, GotID, GotCheck,
         GotGroup, GotUser, GotGroups
<1> QED
  BY <1>1 DEF WriteGroups, Serves, Beside, Firestore, history, screens

LEMMA ServeName ==
    ASSUME NEW u \in User, RealtimeStep(u), Head(rt[u]).op = "getID"
    PROVE  /\ rt' = Then(u, <<Rt(u, "push", Head(rt[u]).post)>>)
           /\ UNCHANGED <<group, userGroups>> /\ Beside /\ Firestore
<1>1. GotID(u)
  BY DEF RealtimeStep, Serves, List, Unlist, WriteGroup, WriteGroups, GotID, GotCheck,
         GotGroup, GotUser, GotGroups
<1> QED
  BY <1>1 DEF GotID, Beside, Firestore, history, screens, servers

LEMMA ServeUser ==
    ASSUME NEW u \in User, RealtimeStep(u), Head(rt[u]).op = "getUser", userGroups[u] # {}
    PROVE  /\ rt' = Then(u, <<Rt(u, "push", Head(rt[u]).post),
                   SetGroups(u, Head(rt[u]).post, userGroups[u] \ {Head(rt[u]).post})>>)
           /\ UNCHANGED <<group, userGroups>> /\ Beside /\ Firestore
<1>1. GotUser(u)
  BY DEF RealtimeStep, Serves, List, Unlist, WriteGroup, WriteGroups, GotID, GotCheck,
         GotGroup, GotUser, GotGroups
<1> QED
  BY <1>1 DEF GotUser, Beside, Firestore, history, screens, servers

LEMMA ServeStrip ==
    ASSUME NEW u \in User, RealtimeStep(u), Head(rt[u]).op \in {"stripPost", "stripUid"},
           userGroups[Head(rt[u]).who] # {}
    PROVE  /\ rt' = Then(u, <<SetGroups(Head(rt[u]).who, Head(rt[u]).post,
                   Stripped(Head(rt[u]), userGroups[Head(rt[u]).who]))>>)
           /\ UNCHANGED <<group, userGroups>> /\ Beside /\ Firestore
<1>1. GotGroups(u)
  BY DEF RealtimeStep, Serves, List, Unlist, WriteGroup, WriteGroups, GotID, GotCheck,
         GotGroup, GotUser, GotGroups
<1> QED
  BY <1>1 DEF GotGroups, Beside, Firestore, history, screens, servers

LEMMA ServeReads ==
    ASSUME NEW u \in User, RealtimeStep(u)
    PROVE  /\ Head(rt[u]).op = "check" => GotCheck(u)
           /\ Head(rt[u]).op = "getGroup" => GotGroup(u)
BY DEF RealtimeStep, Serves, List, Unlist, WriteGroup, WriteGroups, GotID, GotCheck,
       GotGroup, GotUser, GotGroups

(* The room in the chat lists.                                             *)
LEMMA ListedMoves ==
    ASSUME TypeOK, NEW p \in Post
    PROVE  /\ Listed(p) \subseteq User
           /\ \A u \in User : Holds(u, p) <=> u \in Listed(p)
           /\ UNCHANGED userGroups => Listed(p)' = Listed(p)
           /\ \A u \in User : userGroups' = [userGroups EXCEPT ![u] = @ \cup {p}]
                 => Listed(p)' = Listed(p) \cup {u}
           /\ \A u \in User : userGroups' = [userGroups EXCEPT ![u] = @ \ {p}]
                 => Listed(p)' = Listed(p) \ {u}
<1>1. userGroups \in [User -> SUBSET Post]
  BY DEF TypeOK
<1>2. \A u \in User : userGroups' = [userGroups EXCEPT ![u] = @ \cup {p}]
                 => Listed(p)' = Listed(p) \cup {u}
  BY <1>1 DEF Listed
<1>3. \A u \in User : userGroups' = [userGroups EXCEPT ![u] = @ \ {p}]
                 => Listed(p)' = Listed(p) \ {u}
  BY <1>1 DEF Listed
<1> QED
  BY <1>2, <1>3 DEF Listed, Holds
-----------------------------------------------------------------------------
(* The Firestore half of an operation: its writes are committed, its reads *)
(* answered, in any order.                                                 *)

LEMMA QueuedHead ==
    ASSUME NEW q, NEW x \in Stage, NEW y \in Stage, NEW v, NEW w,
           Queued(q, x, v, y, w), q # <<>>
    PROVE  \/ x = "queued" /\ Head(q) = v /\ Queued(Tail(q), "done", v, y, w)
           \/ y = "queued" /\ Head(q) = w /\ Queued(Tail(q), x, v, "done", w)
<1>1. /\ Head(<<v, w>>) = v /\ Tail(<<v, w>>) = <<w>>
      /\ Head(<<w, v>>) = w /\ Tail(<<w, v>>) = <<v>>
      /\ Head(<<v>>) = v /\ Tail(<<v>>) = <<>> /\ Head(<<w>>) = w /\ Tail(<<w>>) = <<>>
  OBVIOUS
<1>2. CASE x = "queued" /\ y = "queued"
  BY <1>1, <1>2 DEF Queued
<1>3. CASE x = "queued" /\ y # "queued"
  BY <1>1, <1>3 DEF Queued
<1>4. CASE x # "queued" /\ y = "queued"
  BY <1>1, <1>4 DEF Queued
<1>5. CASE x # "queued" /\ y # "queued"
  BY <1>5 DEF Queued
<1> QED
  BY <1>2, <1>3, <1>4, <1>5

LEMMA Joined ==
    ASSUME NEW v, NEW w
    PROVE  <<v>> \o <<w>> = <<v, w>> /\ <<>> \o <<v>> = <<v>> /\ <<v>> \o <<>> = <<v>>
<1> DEFINE T == {v, w}
<1>1. <<>> \in Seq(T) /\ <<v>> \in Seq(T) /\ <<w>> \in Seq(T) /\ <<v, w>> \in Seq(T)
  OBVIOUS
<1>2. <<>> \o <<v>> = <<v>> /\ <<v>> \o <<>> = <<v>>
  BY <1>1, ConcatEmptySeq
<1>3. <<v>> \o <<w>> = Append(<<v>>, w)
  BY <1>1, AppendIsConcat
<1>4. Append(<<v>>, w) = <<v, w>>
  <2> DEFINE q == Append(<<v>>, w)
             r == <<v, w>>
  <2>1. /\ q \in Seq(T) /\ Len(q) = 2 /\ q[1] = v /\ q[2] = w
        /\ Len(r) = 2 /\ r[1] = v /\ r[2] = w
    BY <1>1, AppendProperties
  <2> HIDE DEF q, r
  <2>2. \A i \in 1..Len(q) : q[i] = r[i]
    BY <2>1
  <2>3. r \in Seq(T)
    BY <1>1 DEF r
  <2>4. q = r
    BY <2>1, <2>2, <2>3, SeqEqual
  <2> QED
    BY <2>4 DEF q, r
<1> QED
  BY <1>2, <1>3, <1>4

LEMMA QueuedMore ==
    ASSUME NEW q, NEW x \in Stage, NEW y \in Stage, NEW v, NEW w, Queued(q, x, v, y, w)
    PROVE  /\ x = "asked" => Queued(q \o <<v>>, "queued", v, y, w)
           /\ y = "asked" => Queued(q \o <<w>>, x, v, "queued", w)
<1> QED
  BY Joined DEF Queued

(* Nothing in flight: both are written.                                    *)
LEMMA HalfIdle ==
    ASSUME NEW u \in User, NEW p \in Post, NEW x \in Stage, NEW y \in Stage,
           NEW a, NEW b, Half(u, p, x, a, y, b), Idle(u),
           x = "asked" => a.read \in ReadKind, y = "asked" => b.read \in ReadKind
    PROVE  recruit[p] = a.new /\ members[p] = b.new
<1>1. x # "queued" /\ y # "queued"
  BY DEF Half, Queued, Idle
<1>2. x # "asked"
  <2> SUFFICES ASSUME x = "asked" PROVE FALSE
    OBVIOUS
  <2>1. <<a.read, p>> \in Read
    BY DEF Read
  <2>2. asked[u][<<a.read, p>>] = 1
    BY <2>1 DEF Half, Asked
  <2> QED
    BY <2>1, <2>2 DEF Idle, NothingAsked
<1>3. y # "asked"
  <2> SUFFICES ASSUME y = "asked" PROVE FALSE
    OBVIOUS
  <2>1. <<b.read, p>> \in Read
    BY DEF Read
  <2>2. asked[u][<<b.read, p>>] = 1
    BY <2>1 DEF Half, Asked
  <2> QED
    BY <2>1, <2>2 DEF Idle, NothingAsked
<1> QED
  BY <1>1, <1>2, <1>3 DEF Half, Stage

LEMMA HalfStays ==
    ASSUME NEW u, NEW p, NEW x, NEW y, NEW a, NEW b, Half(u, p, x, a, y, b), Firestore
    PROVE  Half(u, p, x, a, y, b)'
BY DEF Half, Firestore

(* A write reaches its document.                                           *)
Changes(w, p, d, e) ==
    /\ w.doc = "recruit" /\ w.post = p
    /\ (IF w.merge THEN Merged(d, w.fields) ELSE w.fields) = e

LEMMA HalfCommit ==
    ASSUME TypeOK, NEW u \in User, NEW p \in Post, NEW x \in Stage, NEW y \in Stage,
           NEW a, NEW b, Half(u, p, x, a, y, b), Changes(a.write, p, a.old, a.new),
           Commit(u)
    PROVE  \/ /\ x = "queued" /\ Half(u, p, "done", a, y, b)'
              /\ recruit' = [recruit EXCEPT ![p] = a.new] /\ UNCHANGED members
           \/ /\ y = "queued" /\ Half(u, p, x, a, "done", b)'
              /\ members' = [members EXCEPT ![p] = b.new] /\ UNCHANGED recruit
<1> DEFINE v == SetMembers(p, b.new)
           q == Tail(fs[u])
<1>1. v.doc = "members" /\ v.post = p /\ v.users = b.new
  BY DEF SetMembers
<1> HIDE DEF v
<1>2. fs[u] # <<>> /\ fs'[u] = q /\ asked' = asked
  BY DEF Commit, TypeOK
<1>3. recruit \in [Post -> Recruit] /\ DOMAIN members = Post
  BY DEF TypeOK
<1>4. \/ x = "queued" /\ Head(fs[u]) = a.write /\ Queued(q, "done", a.write, y, v)
      \/ y = "queued" /\ Head(fs[u]) = v /\ Queued(q, x, a.write, "done", v)
  BY <1>2, QueuedHead DEF Half, v
<1> HIDE DEF q
<1>5. CASE x = "queued" /\ Head(fs[u]) = a.write /\ Queued(q, "done", a.write, y, v)
  <2>1. recruit[p] = a.old
    BY <1>5 DEF Half
  <2>2. recruit' = [recruit EXCEPT ![p] = a.new] /\ UNCHANGED members
    BY <1>5, <2>1 DEF Commit, Changes
  <2>3. recruit'[p] = a.new
    BY <1>3, <2>2
  <2>4. asked'[u] = Asked(p, "done", a.read, y, b.read)
    BY <1>2, <1>5 DEF Half, Asked
  <2>5. Half(u, p, "done", a, y, b)'
    BY <1>2, <1>5, <2>2, <2>3, <2>4 DEF Half, v
  <2> QED
    BY <1>5, <2>2, <2>5
<1>6. CASE y = "queued" /\ Head(fs[u]) = v /\ Queued(q, x, a.write, "done", v)
  <2>1. members' = [members EXCEPT ![p] = b.new] /\ UNCHANGED recruit
    BY <1>1, <1>6 DEF Commit
  <2>2. members'[p] = b.new
    BY <1>3, <2>1
  <2>3. asked'[u] = Asked(p, x, a.read, "done", b.read)
    BY <1>2, <1>6 DEF Half, Asked
  <2>4. Half(u, p, x, a, "done", b)'
    BY <1>2, <1>6, <2>1, <2>2, <2>3 DEF Half, v
  <2> QED
    BY <1>6, <2>1, <2>4
<1> QED
  BY <1>4, <1>5, <1>6

(* Only what was asked is answered.                                        *)
LEMMA HalfAsks ==
    ASSUME NEW u \in User, NEW p \in Post, NEW x \in Stage, NEW y \in Stage,
           NEW a, NEW b, Half(u, p, x, a, y, b),
           NEW kind \in ReadKind, NEW q \in Post, asked[u][<<kind, q>>] > 0
    PROVE  q = p /\ ((x = "asked" /\ kind = a.read) \/ (y = "asked" /\ kind = b.read))
<1>1. <<kind, q>> \in Read
  BY DEF Read
<1> QED
  BY <1>1 DEF Half, Asked

LEMMA HalfDocAnswered ==
    ASSUME TypeOK, NEW u \in User, NEW p \in Post, NEW y \in Stage,
           NEW a, NEW b, Half(u, p, "asked", a, y, b), a.read # b.read,
           fs' = Queue(fs, u, <<a.write>>), asked' = Answered(u, a.read, p),
           UNCHANGED <<recruit, members>>
    PROVE  Half(u, p, "queued", a, y, b)'
<1>1. fs'[u] = fs[u] \o <<a.write>>
  BY DEF Queue, TypeOK
<1>2. Queued(fs[u] \o <<a.write>>, "queued", a.write, y, SetMembers(p, b.new))
  BY QueuedMore DEF Half, Stage
<1>3. asked'[u] = [r \in Read |-> IF r = <<a.read, p>> THEN asked[u][r] - 1 ELSE asked[u][r]]
  BY DEF Answered, TypeOK
<1>4. asked'[u] = Asked(p, "queued", a.read, y, b.read)
  BY <1>3 DEF Half, Asked
<1> QED
  BY <1>1, <1>2, <1>4 DEF Half

LEMMA HalfListAnswered ==
    ASSUME TypeOK, NEW u \in User, NEW p \in Post, NEW x \in Stage,
           NEW a, NEW b, Half(u, p, x, a, "asked", b), a.read # b.read,
           fs' = Queue(fs, u, <<SetMembers(p, b.new)>>), asked' = Answered(u, b.read, p),
           UNCHANGED <<recruit, members>>
    PROVE  Half(u, p, x, a, "queued", b)'
<1>1. fs'[u] = fs[u] \o <<SetMembers(p, b.new)>>
  BY DEF Queue, TypeOK
<1>2. Queued(fs[u] \o <<SetMembers(p, b.new)>>, x, a.write, "queued", SetMembers(p, b.new))
  BY QueuedMore DEF Half, Stage
<1>3. asked'[u] = [r \in Read |-> IF r = <<b.read, p>> THEN asked[u][r] - 1 ELSE asked[u][r]]
  BY DEF Answered, TypeOK
<1>4. asked'[u] = Asked(p, x, a.read, "queued", b.read)
  BY <1>3 DEF Half, Asked
<1> QED
  BY <1>1, <1>2, <1>4 DEF Half
-----------------------------------------------------------------------------
(* What a step leaves alone: other posts, and other students' queues.      *)

Elsewhere(p) == \A q \in Post \ {p} :
    /\ recruit'[q] = recruit[q] /\ members'[q] = members[q] /\ group'[q] = group[q]
    /\ \A v \in User : Holds(v, q)' = Holds(v, q)
    /\ seats'[q] = seats[q] /\ (q \in removed') = (q \in removed)
Mine(u) == \A v \in User \ {u} :
    rt'[v] = rt[v] /\ fs'[v] = fs[v] /\ asked'[v] = asked[v]

LEMMA StoryStays ==
    ASSUME NEW p \in Post, Elsewhere(p), NEW q \in Post \ {p}, Story(q)
    PROVE  Story(q)'
<1>1. /\ recruit'[q] = recruit[q] /\ members'[q] = members[q] /\ group'[q] = group[q]
      /\ seats'[q] = seats[q] /\ (q \in removed') = (q \in removed)
  BY DEF Elsewhere
<1>2. Listed(q)' = Listed(q)
  BY DEF Elsewhere, Listed, Holds
<1>3. Gone(q)' <=> Gone(q)
  BY <1>1 DEF Gone
<1>4. Running(q) => Running(q)'
  BY <1>1, <1>2 DEF Running, Tells, Room
<1>5. Untouched(q) => Untouched(q)'
  BY <1>1, <1>2, <1>3 DEF Untouched
<1>6. Over(q) => Over(q)'
  BY <1>1, <1>2, <1>3 DEF Over
<1> QED
  BY <1>4, <1>5, <1>6 DEF Story

(* A step of one half of u's queue that concerns p only.                   *)
Onward(u, p) ==
    /\ Elsewhere(p) /\ Mine(u) /\ UNCHANGED <<page, chat, crashed>>
    /\ rt'[u] = rt[u] \/ rt[u] = <<>> \/ Head(rt[u]).post = p
Chain(u, p) == InCreate(u, p) \/ InJoin(u, p) \/ InAsk(u, p) \/ InExit(u, p)
               \/ InEnd(u, p, "delete") \/ InEnd(u, p, "close")

LEMMA ScreensStay ==
    ASSUME NEW u \in User, NEW p \in Post, Screens, Onward(u, p), Unseen(p), TypeOK
    PROVE  Screens' /\ Unseen(p)'
<1>1. \A v \in User : page'[v] = page[v] /\ chat'[v] = chat[v]
  BY DEF Onward
<1>2. Unseen(p)'
  BY <1>1 DEF Unseen
<1>3. ASSUME NEW v \in User, page[v] # Nil
      PROVE  FreshPage(v)'
  <2> DEFINE q == page[v].post
  <2>1. q \in Post \ {p}
    BY <1>3 DEF TypeOK, Unseen, Page
  <2>2. /\ recruit'[q] = recruit[q] /\ seats'[q] = seats[q]
        /\ Holds(v, q)' = Holds(v, q)
    BY <2>1 DEF Elsewhere, Onward
  <2>3. FreshPage(v)
    BY <1>3 DEF Screens
  <2>4. rt[v] = <<Rt(v, "check", q)>> => rt'[v] = rt[v]
    <3>1. CASE v # u
      BY <3>1 DEF Onward, Mine
    <3>2. CASE v = u
      <4>1. /\ Head(<<Rt(v, "check", q)>>) = Rt(v, "check", q)
            /\ <<Rt(v, "check", q)>> # <<>>
        OBVIOUS
      <4>2. Rt(v, "check", q).post # p
        BY <2>1 DEF Rt
      <4> QED
        BY <3>2, <4>1, <4>2 DEF Onward
    <3> QED
      BY <3>1, <3>2
  <2> QED
    BY <1>1, <2>2, <2>3, <2>4 DEF FreshPage
<1>4. ASSUME NEW v \in User, chat[v] # Nil
      PROVE  Holds(v, chat[v])' /\ group'[chat[v]].name
  <2>1. chat[v] \in Post \ {p}
    BY <1>4 DEF TypeOK, Unseen
  <2>2. Holds(v, chat[v])' = Holds(v, chat[v]) /\ group'[chat[v]] = group[chat[v]]
    <3> DEFINE q == chat[v]
    <3>1. q \in Post \ {p} /\ q' = q
      BY <1>1, <2>1
    <3> HIDE DEF q
    <3>2. \A r \in Post \ {p} : Holds(v, r)' = Holds(v, r) /\ group'[r] = group[r]
      BY DEF Onward, Elsewhere
    <3> QED
      BY <1>1, <2>1, <3>2 DEF Holds
  <2> QED
    BY <1>4, <2>2 DEF Screens
<1> QED
  BY <1>1, <1>2, <1>3, <1>4 DEF Screens, Looks

LEMMA OthersStay ==
    ASSUME NEW u \in User, NEW p \in Post, Elsewhere(p), Mine(u),
           \A v \in User \ {u} : Idle(v), \A q \in Post \ {p} : Story(q)
    PROVE  (\A v \in User \ {u} : Idle(v)') /\ (\A q \in Post \ {p} : Story(q)')
<1>1. \A v \in User \ {u} : Idle(v)'
  BY DEF Mine, Idle
<1> QED
  BY <1>1, StoryStays

LEMMA Moved ==
    ASSUME TypeOK, SerialInv, NEW u \in User, NEW p \in Post,
           \A v \in User \ {u} : Idle(v), \A q \in Post \ {p} : Story(q),
           Unseen(p), Onward(u, p), Chain(u, p)'
    PROVE  SerialInv'
<1>1. Screens' /\ Unseen(p)'
  BY ScreensStay DEF SerialInv
<1>2. NoCrash'
  BY DEF SerialInv, NoCrash, Onward
<1>3. (\A v \in User \ {u} : Idle(v)') /\ (\A q \in Post \ {p} : Story(q)')
  BY OthersStay DEF Onward
<1>4. Alone(u, p)'
  BY <1>1, <1>3 DEF Alone, Acting, Chain
<1> QED
  BY <1>1, <1>2, <1>4 DEF SerialInv
-----------------------------------------------------------------------------
(* Lists of members, each once.                                            *)

LEMMA Joins ==
    ASSUME NEW s \in Seq(User), Once(s), NEW u \in User, u \notin Those(s)
    PROVE  /\ Append(s, u) \in Seq(User) /\ Append(s, u) # <<>>
           /\ Len(Append(s, u)) = Len(s) + 1 /\ Len(s) \in Nat
           /\ Once(Append(s, u)) /\ Those(Append(s, u)) = Those(s) \cup {u}
<1> DEFINE t == Append(s, u)
           n == Len(s)
<1>1. /\ t \in Seq(User) /\ Len(t) = n + 1 /\ n \in Nat
      /\ t[n + 1] = u /\ \A i \in 1..n : t[i] = s[i]
  BY AppendProperties
<1>2. \A i \in 1..n : s[i] # u
  BY DEF Those
<1> HIDE DEF t
<1>3. \A i \in 1..(n + 1) : i \in 1..n \/ i = n + 1
  BY <1>1
<1>4. Once(t)
  <2> SUFFICES ASSUME NEW i \in 1..(n + 1), NEW j \in 1..(n + 1), t[i] = t[j] PROVE i = j
    BY <1>1 DEF Once
  <2>1. CASE i \in 1..n /\ j \in 1..n
    BY <1>1, <2>1 DEF Once
  <2>2. CASE i = n + 1 \/ j = n + 1
    BY <1>1, <1>2, <1>3, <2>2
  <2> QED
    BY <1>3, <2>1, <2>2
<1>5. Those(t) = Those(s) \cup {u}
  <2>1. \A x \in Those(t) : x \in Those(s) \cup {u}
    BY <1>1, <1>3 DEF Those
  <2>2. \A x \in Those(s) : x \in Those(t)
    <3>1. \A i \in 1..n : i \in 1..(n + 1)
      BY <1>1
    <3> QED
      BY <1>1, <3>1 DEF Those
  <2>3. u \in Those(t)
    <3>1. n + 1 \in 1..(n + 1)
      BY <1>1
    <3> QED
      BY <1>1, <3>1 DEF Those
  <2> QED
    BY <2>1, <2>2, <2>3
<1>6. t # <<>>
  BY <1>1
<1> QED
  BY <1>1, <1>4, <1>5, <1>6 DEF t

LEMMA Leaves ==
    ASSUME NEW s \in Seq(User), Once(s), NEW u \in Those(s), Len(s) > 1
    PROVE  /\ WithoutFirst(s, u) \in Seq(User) /\ WithoutFirst(s, u) # <<>>
           /\ Len(WithoutFirst(s, u)) = Len(s) - 1 /\ Len(s) \in Nat
           /\ Once(WithoutFirst(s, u)) /\ Those(WithoutFirst(s, u)) = Those(s) \ {u}
<1> DEFINE n == Len(s)
           k == CHOOSE i \in DOMAIN s : s[i] = u /\ \A j \in 1..(i - 1) : s[j] # u
           t == WithoutFirst(s, u)
<1>1. n \in Nat /\ DOMAIN s = 1..n /\ n > 1 /\ n - 1 \in Nat
  OBVIOUS
<1>2. PICK h \in 1..n : s[h] = u
  BY DEF Those
<1>3. s[h] = u /\ \A j \in 1..(h - 1) : s[j] # u
  BY <1>1, <1>2 DEF Once
<1>4. k \in 1..n /\ s[k] = u
  BY <1>1, <1>3
<1>5. t = [i \in 1..(n - 1) |-> IF i < k THEN s[i] ELSE s[i + 1]]
  <2>1. \E i \in DOMAIN s : s[i] = u
    BY <1>1, <1>2
  <2> QED
    BY <2>1 DEF WithoutFirst
<1> HIDE DEF k, t, n
<1>6. /\ \A i \in 1..(n - 1) : i < k => t[i] = s[i] /\ i \in 1..n /\ i # k
      /\ \A i \in 1..(n - 1) : ~(i < k) => t[i] = s[i + 1] /\ i + 1 \in 1..n /\ i + 1 # k
  BY <1>1, <1>4, <1>5
<1>7. \A i \in 1..n : s[i] \in User
  BY <1>1 DEF n
<1>8. t \in Seq(User) /\ Len(t) = n - 1
  <2>1. \A i \in 1..(n - 1) : t[i] \in User
    BY <1>6, <1>7
  <2>2. t \in [1..(n - 1) -> User]
    BY <1>5, <2>1
  <2>3. t \in Seq(User)
    BY <1>1, <2>2, SeqDef
  <2> QED
    BY <1>1, <2>2, <2>3, LenProperties
<1>9. \A i, j \in 1..n : s[i] = s[j] => i = j
  BY DEF Once, n
<1>10. Once(t)
  <2> SUFFICES ASSUME NEW i \in 1..(n - 1), NEW j \in 1..(n - 1), t[i] = t[j] PROVE i = j
    BY <1>8 DEF Once
  <2>1. CASE i < k /\ j < k
    BY <1>6, <1>9, <2>1
  <2>2. CASE ~(i < k) /\ ~(j < k)
    <3>1. i + 1 = j + 1
      BY <1>6, <1>9, <2>2
    <3> QED
      BY <1>1, <3>1
  <2>3. CASE i < k /\ ~(j < k)
    <3>1. i = j + 1
      BY <1>6, <1>9, <2>3
    <3> QED
      BY <1>1, <1>4, <2>3, <3>1
  <2>4. CASE ~(i < k) /\ j < k
    <3>1. i + 1 = j
      BY <1>6, <1>9, <2>4
    <3> QED
      BY <1>1, <1>4, <2>4, <3>1
  <2> QED
    BY <2>1, <2>2, <2>3, <2>4
<1>11. Those(t) = Those(s) \ {u}
  <2>1. ASSUME NEW i \in 1..(n - 1) PROVE t[i] \in Those(s) \ {u}
    <3>1. PICK j \in 1..n : t[i] = s[j] /\ j # k
      BY <1>6
    <3>2. s[j] # u
      BY <1>4, <1>9, <3>1
    <3> QED
      BY <3>1, <3>2 DEF Those, n
  <2>2. ASSUME NEW x \in Those(s) \ {u} PROVE x \in Those(t)
    <3>1. PICK j \in 1..n : s[j] = x
      BY <2>2 DEF Those, n
    <3>2. j # k
      BY <1>4, <2>2, <3>1
    <3>3. CASE j < k
      <4>1. j \in 1..(n - 1)
        BY <1>1, <1>4, <3>3
      <4> QED
        BY <1>6, <1>8, <3>1, <3>3, <4>1 DEF Those
    <3>4. CASE j > k
      <4>1. j - 1 \in 1..(n - 1) /\ ~(j - 1 < k) /\ (j - 1) + 1 = j
        BY <1>1, <1>4, <3>4
      <4> QED
        BY <1>6, <1>8, <3>1, <4>1 DEF Those
    <3> QED
      BY <1>1, <1>4, <3>2, <3>3, <3>4
  <2> QED
    BY <1>8, <2>1, <2>2 DEF Those
<1>12. t # <<>>
  BY <1>1, <1>8
<1> QED
  BY <1>1, <1>8, <1>10, <1>11, <1>12 DEF t, n

LEMMA Counted ==
    ASSUME NEW s \in Seq(User), Once(s)
    PROVE  IsFiniteSet(Those(s)) /\ Cardinality(Those(s)) = Len(s)
<1> DEFINE n == Len(s)
           f == [i \in 1..n |-> s[i]]
<1>1. n \in Nat
  OBVIOUS
<1>2. f \in Bijection(1..n, Those(s))
  <2>1. f \in [1..n -> Those(s)]
    BY DEF Those
  <2>2. \A a, b \in 1..n : f[a] = f[b] => a = b
    BY DEF Once
  <2>3. \A t \in Those(s) : \E i \in 1..n : f[i] = t
    BY DEF Those
  <2> QED
    BY <2>1, <2>2, <2>3, Fun_IsBij
<1>3. IsFiniteSet(1..n) /\ Cardinality(1..n) = n
  <2>1. Cardinality(1..n) = IF 1 > n THEN 0 ELSE n - 1 + 1
    BY <1>1, FS_Interval
  <2> QED
    BY <1>1, <2>1, FS_Interval
<1> QED
  BY <1>2, <1>3, FS_Bijection, Fun_ExistsBij DEF ExistsBijection
-----------------------------------------------------------------------------
(* One request of an operation is served.                                  *)

LEMMA Concats ==
    ASSUME TypeOK, NEW u \in User, rt[u] # <<>>, NEW items
    PROVE  /\ Tail(rt[u]) \o <<>> = Tail(rt[u])
           /\ Then(u, items)[u] = Tail(rt[u]) \o items
           /\ \A v \in User \ {u} : Then(u, items)[v] = rt[v]
<1>1. Tail(rt[u]) \in Seq(RtOp)
  BY Served DEF TypeOK
<1>2. Tail(rt[u]) \o <<>> = Tail(rt[u])
  BY <1>1, ConcatEmptySeq
<1> QED
  BY <1>2 DEF Then, TypeOK

LEMMA OnwardRt ==
    ASSUME NEW u \in User, NEW p \in Post, rt[u] # <<>>, Head(rt[u]).post = p,
           Beside, Firestore, \A v \in User \ {u} : rt'[v] = rt[v],
           \A q \in Post \ {p} : group'[q] = group[q],
           \A q \in Post \ {p} : \A v \in User : Holds(v, q)' = Holds(v, q)
    PROVE  Onward(u, p)
BY DEF Onward, Elsewhere, Mine, Firestore, Beside

LEMMA HoldsElsewhere ==
    ASSUME TypeOK, NEW p \in Post,
           \/ UNCHANGED userGroups
           \/ \E v \in User : \/ userGroups' = [userGroups EXCEPT ![v] = @ \cup {p}]
                              \/ userGroups' = [userGroups EXCEPT ![v] = @ \ {p}]
    PROVE  \A q \in Post \ {p} : \A v \in User : Holds(v, q)' = Holds(v, q)
<1>1. userGroups \in [User -> SUBSET Post]
  BY DEF TypeOK
<1>2. CASE UNCHANGED userGroups
  BY <1>2 DEF Holds
<1>3. ASSUME NEW w \in User, userGroups' = [userGroups EXCEPT ![w] = @ \cup {p}]
      PROVE  \A q \in Post \ {p} : \A v \in User : Holds(v, q)' = Holds(v, q)
  BY <1>1, <1>3 DEF Holds
<1>4. ASSUME NEW w \in User, userGroups' = [userGroups EXCEPT ![w] = @ \ {p}]
      PROVE  \A q \in Post \ {p} : \A v \in User : Holds(v, q)' = Holds(v, q)
  BY <1>1, <1>4 DEF Holds
<1> QED
  BY <1>2, <1>3, <1>4

LEMMA RoomMoves ==
    ASSUME TypeOK, NEW p \in Post, NEW n, NEW w, Room(p, n, w)
    PROVE  /\ \A k : group' = [group EXCEPT ![p] = [@ EXCEPT !.cur = k]]
                         => group'[p].name /\ group'[p].cur = k
           /\ group' = [group EXCEPT ![p] = [@ EXCEPT !.talk = TRUE]]
                         => group'[p].name /\ group'[p].cur = n
<1>1. group \in [Post -> Group] /\ group[p] \in Group
  BY DEF TypeOK
<1>2. ASSUME NEW k, group' = [group EXCEPT ![p] = [@ EXCEPT !.cur = k]]
      PROVE  group'[p].name /\ group'[p].cur = k
  <2> DEFINE g == [group[p] EXCEPT !.cur = k]
  <2>1. g.cur = k /\ g.name = group[p].name
    BY <1>1 DEF Group
  <2>2. group'[p] = g
    BY <1>1, <1>2
  <2> HIDE DEF g
  <2> QED
    BY <2>1, <2>2 DEF Room
<1>3. ASSUME group' = [group EXCEPT ![p] = [@ EXCEPT !.talk = TRUE]]
      PROVE  group'[p].name /\ group'[p].cur = n
  <2> DEFINE g == [group[p] EXCEPT !.talk = TRUE]
  <2>1. g.cur = group[p].cur /\ g.name = group[p].name
    BY <1>1 DEF Group
  <2>2. group'[p] = g
    BY <1>1, <1>3
  <2> HIDE DEF g
  <2> QED
    BY <2>1, <2>2 DEF Room
<1> QED
  BY <1>2, <1>3

(* The requests one by one.                                                *)
LEMMA JoinedTwo ==
    ASSUME NEW a, NEW b, NEW c
    PROVE  <<a>> \o <<b, c>> = <<a, b, c>>
<1> DEFINE T == {a, b, c}
           q == <<a>> \o <<b, c>>
           r == <<a, b, c>>
           s == <<b, c>>
<1>1. <<a>> \in Seq(T) /\ s \in Seq(T) /\ r \in Seq(T)
  OBVIOUS
<1>2. /\ Len(<<a>>) = 1 /\ Len(s) = 2 /\ Len(r) = 3
      /\ s[1] = b /\ s[2] = c /\ r[1] = a /\ r[2] = b /\ r[3] = c
  OBVIOUS
<1> HIDE DEF r, s
<1>3. q \in Seq(T) /\ Len(q) = 3 /\ q[1] = a /\ q[2] = s[1] /\ q[3] = s[2]
  BY <1>1, <1>2, ConcatProperties DEF s
<1> HIDE DEF q
<1>4. \A i \in 1..Len(q) : q[i] = r[i]
  BY <1>2, <1>3
<1>5. q = r
  BY <1>1, <1>2, <1>3, <1>4, SeqEqual
<1> QED
  BY <1>5 DEF q, r, s

LEMMA OnList ==
    ASSUME TypeOK, NEW u \in User, NEW p \in Post, rt[u] # <<>>,
           Head(rt[u]) = Rt(u, "list", p), RealtimeStep(u)
    PROVE  /\ Onward(u, p) /\ Beside /\ Firestore /\ UNCHANGED group
           /\ rt'[u] = Tail(rt[u]) /\ Listed(p)' = Listed(p) \cup {u}
<1>1. Head(rt[u]).op = "list" /\ Head(rt[u]).post = p
  BY RtFields DEF RtKind
<1>2. /\ userGroups' = [userGroups EXCEPT ![u] = @ \cup {p}] /\ rt' = Then(u, <<>>)
      /\ UNCHANGED group /\ Beside /\ Firestore
  BY <1>1, ServeList
<1>3. rt'[u] = Tail(rt[u]) /\ \A v \in User \ {u} : rt'[v] = rt[v]
  BY <1>2, Concats
<1>4. Listed(p)' = Listed(p) \cup {u}
  BY <1>2, ListedMoves
<1>5. \A q \in Post \ {p} : \A v \in User : Holds(v, q)' = Holds(v, q)
  BY <1>2, HoldsElsewhere
<1>6. Onward(u, p)
  BY <1>1, <1>2, <1>3, <1>5, OnwardRt
<1> QED
  BY <1>2, <1>3, <1>4, <1>6

LEMMA OnCreate ==
    ASSUME TypeOK, NEW u \in User, NEW p \in Post, rt[u] # <<>>,
           Head(rt[u]) = Rt(u, "create", p), Tail(rt[u]) = <<>>, RealtimeStep(u)
    PROVE  /\ Onward(u, p) /\ Beside /\ Firestore /\ UNCHANGED group
           /\ rt'[u] = <<Rt(u, "setGroup", p)>> /\ Listed(p)' = Listed(p) \cup {u}
<1> DEFINE r == Rt(u, "setGroup", p)
<1>1. Head(rt[u]).op = "create" /\ Head(rt[u]).post = p
  BY RtFields DEF RtKind
<1>2. /\ userGroups' = [userGroups EXCEPT ![u] = @ \cup {p}] /\ rt' = Then(u, <<r>>)
      /\ UNCHANGED group /\ Beside /\ Firestore
  BY <1>1, ServeList
<1> HIDE DEF r
<1>3. rt'[u] = <<>> \o <<r>> /\ \A v \in User \ {u} : rt'[v] = rt[v]
  BY <1>2, Concats
<1>4. rt'[u] = <<r>>
  BY <1>3, Joined
<1>5. Listed(p)' = Listed(p) \cup {u}
  BY <1>2, ListedMoves
<1>6. \A q \in Post \ {p} : \A v \in User : Holds(v, q)' = Holds(v, q)
  BY <1>2, HoldsElsewhere
<1>7. Onward(u, p)
  BY <1>1, <1>2, <1>3, <1>6, OnwardRt
<1> QED
  BY <1>2, <1>4, <1>5, <1>7 DEF r

LEMMA OnGroup ==
    ASSUME TypeOK, NEW u \in User, NEW p \in Post, rt[u] # <<>>,
           Head(rt[u]).op \in {"setGroup", "setCount", "push", "removeGroup"},
           Head(rt[u]).post = p, RealtimeStep(u)
    PROVE  /\ Onward(u, p) /\ Beside /\ Firestore /\ UNCHANGED userGroups
           /\ rt'[u] = Tail(rt[u]) /\ Listed(p)' = Listed(p)
           /\ Head(rt[u]).op = "setGroup" => group'[p] = NewRoom
           /\ Head(rt[u]).op = "setCount"
                 => group' = [group EXCEPT ![p] = [@ EXCEPT !.cur = Head(rt[u]).num]]
           /\ Head(rt[u]).op = "push"
                 => group' = [group EXCEPT ![p] = [@ EXCEPT !.talk = TRUE]]
           /\ Head(rt[u]).op = "removeGroup" => group'[p] = NoGroup
<1> DEFINE m == Head(rt[u])
           g == IF m.op = "setGroup" THEN NewRoom
                ELSE IF m.op = "setCount" THEN [group[p] EXCEPT !.cur = m.num]
                ELSE IF m.op = "push" THEN [group[p] EXCEPT !.talk = TRUE]
                ELSE NoGroup
<1>1. /\ group' = [group EXCEPT ![p] = g] /\ rt' = Then(u, <<>>)
      /\ UNCHANGED userGroups /\ Beside /\ Firestore
  BY ServeGroup
<1>2. /\ m.op = "setGroup" => g = NewRoom
      /\ m.op = "setCount" => g = [group[p] EXCEPT !.cur = m.num]
      /\ m.op = "push" => g = [group[p] EXCEPT !.talk = TRUE]
      /\ m.op = "removeGroup" => g = NoGroup
  OBVIOUS
<1> HIDE DEF g
<1>3. group'[p] = g /\ \A q \in Post \ {p} : group'[q] = group[q]
  BY <1>1 DEF TypeOK
<1>4. rt'[u] = Tail(rt[u]) /\ \A v \in User \ {u} : rt'[v] = rt[v]
  BY <1>1, Concats
<1>5. \A q \in Post \ {p} : \A v \in User : Holds(v, q)' = Holds(v, q)
  BY <1>1, HoldsElsewhere
<1>6. Onward(u, p)
  BY <1>1, <1>3, <1>4, <1>5, OnwardRt
<1>7. Listed(p)' = Listed(p)
  BY <1>1, ListedMoves
<1> QED
  BY <1>1, <1>2, <1>3, <1>4, <1>6, <1>7

LEMMA OnName ==
    ASSUME TypeOK, NEW u \in User, NEW p \in Post, rt[u] # <<>>,
           Head(rt[u]) = Rt(u, "getID", p), Tail(rt[u]) = <<>>, RealtimeStep(u)
    PROVE  /\ Onward(u, p) /\ Beside /\ Firestore /\ UNCHANGED <<group, userGroups>>
           /\ rt'[u] = <<Rt(u, "push", p)>> /\ Listed(p)' = Listed(p)
<1> DEFINE r == Rt(u, "push", p)
<1>1. Head(rt[u]).op = "getID" /\ Head(rt[u]).post = p
  BY RtFields DEF RtKind
<1>2. /\ rt' = Then(u, <<r>>)
      /\ UNCHANGED <<group, userGroups>> /\ Beside /\ Firestore
  BY <1>1, ServeName
<1> HIDE DEF r
<1>3. rt'[u] = <<>> \o <<r>> /\ \A v \in User \ {u} : rt'[v] = rt[v]
  BY <1>2, Concats
<1>4. rt'[u] = <<r>>
  BY <1>3, Joined
<1>5. Listed(p)' = Listed(p)
  BY <1>2, ListedMoves
<1>6. \A q \in Post \ {p} : \A v \in User : Holds(v, q)' = Holds(v, q)
  BY <1>2, HoldsElsewhere
<1>7. Onward(u, p)
  BY <1>1, <1>2, <1>3, <1>6, OnwardRt
<1> QED
  BY <1>2, <1>4, <1>5, <1>7 DEF r

LEMMA OnUser ==
    ASSUME TypeOK, NEW u \in User, NEW p \in Post, NEW c, rt[u] # <<>>, Holds(u, p),
           Head(rt[u]) = Rt(u, "getUser", p), Tail(rt[u]) = <<c>>, RealtimeStep(u)
    PROVE  /\ Onward(u, p) /\ Beside /\ Firestore /\ UNCHANGED <<group, userGroups>>
           /\ rt'[u] = <<c, Rt(u, "push", p), Unlisting(u, p)>>
           /\ Listed(p)' = Listed(p)
<1> DEFINE r == Rt(u, "push", p)
           l == Unlisting(u, p)
<1>1. Head(rt[u]).op = "getUser" /\ Head(rt[u]).post = p /\ userGroups[u] # {}
  BY RtFields DEF RtKind, Holds
<1>2. /\ rt' = Then(u, <<r, l>>)
      /\ UNCHANGED <<group, userGroups>> /\ Beside /\ Firestore
  BY <1>1, ServeUser DEF Unlisting
<1> HIDE DEF r, l
<1>3. rt'[u] = <<c>> \o <<r, l>> /\ \A v \in User \ {u} : rt'[v] = rt[v]
  BY <1>2, Concats
<1>4. rt'[u] = <<c, r, l>>
  BY <1>3, JoinedTwo
<1>5. Listed(p)' = Listed(p)
  BY <1>2, ListedMoves
<1>6. \A q \in Post \ {p} : \A v \in User : Holds(v, q)' = Holds(v, q)
  BY <1>2, HoldsElsewhere
<1>7. Onward(u, p)
  BY <1>1, <1>2, <1>3, <1>6, OnwardRt
<1> QED
  BY <1>2, <1>4, <1>5, <1>7 DEF r, l

LEMMA OnUnlisting ==
    ASSUME TypeOK, NEW u \in User, NEW p \in Post, rt[u] # <<>>,
           Head(rt[u]) = Unlisting(u, p), RealtimeStep(u)
    PROVE  /\ Onward(u, p) /\ Beside /\ Firestore /\ UNCHANGED group
           /\ rt'[u] = Tail(rt[u]) /\ Listed(p)' = Listed(p) \ {u}
<1>1. /\ Head(rt[u]).op = "setGroups" /\ Head(rt[u]).post = p /\ Head(rt[u]).who = u
      /\ Head(rt[u]).posts = userGroups[u] \ {p}
  <2>1. userGroups[u] \ {p} \in SUBSET Post
    BY DEF TypeOK
  <2> QED
    BY <2>1, RtFields DEF Unlisting
<1>2. /\ userGroups' = [userGroups EXCEPT ![u] = @ \ {p}] /\ rt' = Then(u, <<>>)
      /\ UNCHANGED group /\ Beside /\ Firestore
  BY <1>1, ServeLists
<1>3. rt'[u] = Tail(rt[u]) /\ \A v \in User \ {u} : rt'[v] = rt[v]
  BY <1>2, Concats
<1>4. Listed(p)' = Listed(p) \ {u}
  BY <1>2, ListedMoves
<1>5. \A q \in Post \ {p} : \A v \in User : Holds(v, q)' = Holds(v, q)
  BY <1>2, HoldsElsewhere
<1>6. Onward(u, p)
  BY <1>1, <1>2, <1>3, <1>5, OnwardRt
<1> QED
  BY <1>2, <1>3, <1>4, <1>6

LEMMA HasRequest == \A u : RealtimeStep(u) => rt[u] # <<>>
BY DEF RealtimeStep, List, Unlist, WriteGroup, WriteGroups, GotID, GotCheck,
       GotGroup, GotUser, GotGroups, Serves

LEMMA Ends ==
    \A a, b, c : /\ Head(<<a>>) = a /\ Tail(<<a>>) = <<>>
                 /\ Head(<<a, b>>) = a /\ Tail(<<a, b>>) = <<b>>
                 /\ Head(<<a, b, c>>) = a /\ Tail(<<a, b, c>>) = <<b, c>>
OBVIOUS

LEMMA CreateServed ==
    ASSUME TypeOK, NEW u \in User, NEW p \in Post, CreateRt(u, p), RealtimeStep(u)
    PROVE  CreateRt(u, p)' /\ Onward(u, p) /\ Beside /\ Firestore
<1>1. rt[u] # <<>>
  BY HasRequest
<1>2. CASE rt[u] = <<Rt(u, "create", p)>> /\ Listed(p) = {} /\ group[p] = NoGroup
  <2>1. Head(rt[u]) = Rt(u, "create", p) /\ Tail(rt[u]) = <<>>
    BY <1>2, Ends
  <2>2. /\ Onward(u, p) /\ Beside /\ Firestore /\ UNCHANGED group
        /\ rt'[u] = <<Rt(u, "setGroup", p)>> /\ Listed(p)' = Listed(p) \cup {u}
    BY <1>1, <2>1, OnCreate
  <2> QED
    BY <1>2, <2>2 DEF CreateRt
<1>3. CASE rt[u] = <<Rt(u, "setGroup", p)>> /\ Listed(p) = {u} /\ group[p] = NoGroup
  <2>1. Head(rt[u]) = Rt(u, "setGroup", p) /\ Tail(rt[u]) = <<>>
    BY <1>3, Ends
  <2>2. Head(rt[u]).op = "setGroup" /\ Head(rt[u]).post = p
    BY <2>1, RtFields DEF RtKind
  <2>3. /\ Onward(u, p) /\ Beside /\ Firestore /\ rt'[u] = <<>> /\ Listed(p)' = Listed(p)
        /\ group'[p] = NewRoom
    BY <1>1, <2>1, <2>2, OnGroup
  <2> QED
    BY <1>3, <2>3 DEF CreateRt
<1> QED
  BY <1>1, <1>2, <1>3 DEF CreateRt

LEMMA JoinServed ==
    ASSUME TypeOK, NEW u \in User, NEW p \in Post, NEW s \in Seq(User), JoinRt(u, p, s),
           RealtimeStep(u)
    PROVE  JoinRt(u, p, s)' /\ Onward(u, p) /\ Beside /\ Firestore
<1>0. PICK n \in Nat : n = Len(s)
  BY LenProperties
<1> DEFINE c == SetCount(u, p, n + 1)
           l == Rt(u, "list", p)
           g == Rt(u, "getID", p)
           h == Rt(u, "push", p)
<1>1. rt[u] # <<>>
  BY HasRequest
<1>2. /\ c.op = "setCount" /\ c.post = p /\ c.num = n + 1
      /\ h.op = "push" /\ h.post = p
  BY <1>1, RtFields DEF RtKind
<1>3. CASE rt[u] = <<c, l, g>> /\ Room(p, n, Those(s))
  <2> HIDE DEF c
  <2>1. Head(rt[u]) = c /\ Tail(rt[u]) = <<l, g>>
    BY <1>3, Ends
  <2>9. /\ Head(rt[u]).op = "setCount" /\ Head(rt[u]).post = p
        /\ Head(rt[u]).num = n + 1
    BY <1>2, <2>1
  <2>8. Head(rt[u]).op \in {"setGroup", "setCount", "push", "removeGroup"}
    BY <2>9
  <2>7. /\ Onward(u, p) /\ Beside /\ Firestore /\ UNCHANGED userGroups
        /\ rt'[u] = Tail(rt[u]) /\ Listed(p)' = Listed(p)
        /\ group' = [group EXCEPT ![p] = [@ EXCEPT !.cur = Head(rt[u]).num]]
    BY <1>1, <2>8, <2>9, OnGroup
  <2>2. /\ Onward(u, p) /\ Beside /\ Firestore
        /\ rt'[u] = <<l, g>> /\ Listed(p)' = Listed(p)
        /\ group' = [group EXCEPT ![p] = [@ EXCEPT !.cur = n + 1]]
    BY <2>1, <2>7, <2>9
  <2>3. group'[p].name /\ group'[p].cur = n + 1
    BY <1>3, <2>2, RoomMoves
  <2>4. Room(p, n + 1, Those(s))'
    BY <1>3, <2>2, <2>3 DEF Room
  <2> QED
    BY <1>0, <2>2, <2>4 DEF JoinRt
<1>4. CASE rt[u] = <<l, g>> /\ Room(p, n + 1, Those(s))
  <2>1. Head(rt[u]) = l /\ Tail(rt[u]) = <<g>>
    BY <1>4, Ends
  <2>2. /\ Onward(u, p) /\ Beside /\ Firestore /\ UNCHANGED group
        /\ rt'[u] = <<g>> /\ Listed(p)' = Listed(p) \cup {u}
    BY <1>1, <2>1, OnList
  <2>3. Room(p, n + 1, Those(s) \cup {u})'
    BY <1>4, <2>2 DEF Room
  <2> QED
    BY <1>0, <2>2, <2>3 DEF JoinRt
<1>5. CASE rt[u] = <<g>> /\ Room(p, n + 1, Those(s) \cup {u})
  <2>1. Head(rt[u]) = g /\ Tail(rt[u]) = <<>>
    BY <1>5, Ends
  <2>2. /\ Onward(u, p) /\ Beside /\ Firestore /\ UNCHANGED <<group, userGroups>>
        /\ rt'[u] = <<h>> /\ Listed(p)' = Listed(p)
    BY <1>1, <2>1, OnName
  <2>3. Room(p, n + 1, Those(s) \cup {u})'
    BY <1>5, <2>2 DEF Room
  <2> QED
    BY <1>0, <2>2, <2>3 DEF JoinRt
<1>6. CASE rt[u] = <<h>> /\ Room(p, n + 1, Those(s) \cup {u})
  <2> HIDE DEF h
  <2>1. Head(rt[u]) = h /\ Tail(rt[u]) = <<>>
    BY <1>6, Ends
  <2>2. /\ Onward(u, p) /\ Beside /\ Firestore
        /\ rt'[u] = <<>> /\ Listed(p)' = Listed(p)
        /\ group' = [group EXCEPT ![p] = [@ EXCEPT !.talk = TRUE]]
    BY <1>1, <1>2, <2>1, OnGroup
  <2>3. group'[p].name /\ group'[p].cur = n + 1
    BY <1>6, <2>2, RoomMoves
  <2>4. Room(p, n + 1, Those(s) \cup {u})'
    BY <1>6, <2>2, <2>3 DEF Room
  <2> QED
    BY <1>0, <2>2, <2>4 DEF JoinRt
<1> QED
  BY <1>0, <1>1, <1>3, <1>4, <1>5, <1>6 DEF JoinRt

LEMMA ExitServed ==
    ASSUME TypeOK, NEW u \in User, NEW p \in Post, NEW s \in Seq(User), ExitRt(u, p, s),
           u \in Those(s), RealtimeStep(u)
    PROVE  ExitRt(u, p, s)' /\ Onward(u, p) /\ Beside /\ Firestore
<1>0. PICK n \in Nat : n = Len(s)
  BY LenProperties
<1> DEFINE g == Rt(u, "getUser", p)
           c == SetCount(u, p, n - 1)
           h == Rt(u, "push", p)
           l == Unlisting(u, p)
<1>1. rt[u] # <<>>
  BY HasRequest
<1>2. /\ c.op = "setCount" /\ c.post = p /\ c.num = n - 1
      /\ h.op = "push" /\ h.post = p
  BY <1>1, RtFields DEF RtKind
<1>3. UNCHANGED userGroups => l' = l
  BY DEF Unlisting, SetGroups, Rt
<1>4. CASE rt[u] = <<g, c>> /\ Room(p, n, Those(s))
  <2> HIDE DEF c, l
  <2>1. Head(rt[u]) = g /\ Tail(rt[u]) = <<c>> /\ Holds(u, p)
    BY <1>4, Ends, ListedMoves DEF Room
  <2>2. /\ Onward(u, p) /\ Beside /\ Firestore /\ UNCHANGED <<group, userGroups>>
        /\ rt'[u] = <<c, h, l>> /\ Listed(p)' = Listed(p)
    BY <1>1, <2>1, OnUser DEF l
  <2>3. Room(p, n, Those(s))' /\ rt'[u] = <<c, h, l'>>
    BY <1>3, <1>4, <2>2 DEF Room
  <2> QED
    BY <1>0, <2>2, <2>3 DEF ExitRt, c, l
<1>5. CASE rt[u] = <<c, h, l>> /\ Room(p, n, Those(s))
  <2> HIDE DEF c, l
  <2>1. Head(rt[u]) = c /\ Tail(rt[u]) = <<h, l>>
    BY <1>5, Ends
  <2>9. /\ Head(rt[u]).op = "setCount" /\ Head(rt[u]).post = p
        /\ Head(rt[u]).num = n - 1
    BY <1>2, <2>1
  <2>8. Head(rt[u]).op \in {"setGroup", "setCount", "push", "removeGroup"}
    BY <2>9
  <2>7. /\ Onward(u, p) /\ Beside /\ Firestore /\ UNCHANGED userGroups
        /\ rt'[u] = Tail(rt[u]) /\ Listed(p)' = Listed(p)
        /\ group' = [group EXCEPT ![p] = [@ EXCEPT !.cur = Head(rt[u]).num]]
    BY <1>1, <2>8, <2>9, OnGroup
  <2>2. /\ Onward(u, p) /\ Beside /\ Firestore /\ UNCHANGED userGroups
        /\ rt'[u] = <<h, l>> /\ Listed(p)' = Listed(p)
        /\ group' = [group EXCEPT ![p] = [@ EXCEPT !.cur = n - 1]]
    BY <2>1, <2>7, <2>9
  <2>3. group'[p].name /\ group'[p].cur = n - 1
    BY <1>5, <2>2, RoomMoves
  <2>4. Room(p, n - 1, Those(s))' /\ rt'[u] = <<h, l'>>
    BY <1>3, <1>5, <2>2, <2>3 DEF Room
  <2> QED
    BY <1>0, <2>2, <2>4 DEF ExitRt, l
<1>6. CASE rt[u] = <<h, l>> /\ Room(p, n - 1, Those(s))
  <2> HIDE DEF h, l
  <2>1. Head(rt[u]) = h /\ Tail(rt[u]) = <<l>>
    BY <1>6, Ends
  <2>2. /\ Onward(u, p) /\ Beside /\ Firestore /\ UNCHANGED userGroups
        /\ rt'[u] = <<l>> /\ Listed(p)' = Listed(p)
        /\ group' = [group EXCEPT ![p] = [@ EXCEPT !.talk = TRUE]]
    BY <1>1, <1>2, <2>1, OnGroup
  <2>3. group'[p].name /\ group'[p].cur = n - 1
    BY <1>6, <2>2, RoomMoves
  <2>4. Room(p, n - 1, Those(s))' /\ rt'[u] = <<l'>>
    BY <1>3, <1>6, <2>2, <2>3 DEF Room
  <2> QED
    BY <1>0, <2>2, <2>4 DEF ExitRt, l
<1>7. CASE rt[u] = <<l>> /\ Room(p, n - 1, Those(s))
  <2> HIDE DEF l
  <2>1. Head(rt[u]) = l /\ Tail(rt[u]) = <<>>
    BY <1>7, Ends
  <2>2. /\ Onward(u, p) /\ Beside /\ Firestore /\ UNCHANGED group
        /\ rt'[u] = <<>> /\ Listed(p)' = Listed(p) \ {u}
    BY <1>1, <2>1, OnUnlisting DEF l
  <2>3. Room(p, n - 1, Those(s) \ {u})'
    BY <1>7, <2>2 DEF Room
  <2> QED
    BY <1>0, <2>2, <2>3 DEF ExitRt
<1> QED
  BY <1>0, <1>1, <1>4, <1>5, <1>6, <1>7 DEF ExitRt

LEMMA Rest ==
    ASSUME TypeOK, NEW u \in User, rt[u] # <<>>
    PROVE  \E n \in Nat \ {0} :
             /\ n = Len(rt[u]) /\ Len(Tail(rt[u])) = n - 1 /\ Head(rt[u]) = rt[u][1]
             /\ \A i \in 1..(n - 1) : Tail(rt[u])[i] = rt[u][i + 1]
             /\ \A i \in 1..n : rt[u][i] \in RtOp
             /\ \A m : /\ Len(Tail(rt[u]) \o <<m>>) = n
                       /\ (Tail(rt[u]) \o <<m>>)[n] = m
                       /\ \A i \in 1..(n - 1) : (Tail(rt[u]) \o <<m>>)[i] = rt[u][i + 1]
<1> DEFINE q == rt[u]
           n == Len(q)
           t == Tail(q)
<1>1. q \in Seq(RtOp) /\ q # <<>>
  BY DEF TypeOK
<1> HIDE DEF q
<1>2. n \in Nat \ {0} /\ n - 1 \in Nat
  BY <1>1, EmptySeq
<1>3. Head(q) = q[1] /\ \A i \in 1..n : q[i] \in RtOp
  BY <1>1, <1>2, ElementOfSeq
<1>4. t \in Seq(RtOp) /\ Len(t) = n - 1 /\ \A i \in 1..(n - 1) : t[i] = q[i + 1]
  BY <1>1, HeadTailProperties
<1> HIDE DEF n, t
<1>5. ASSUME NEW m
      PROVE  /\ Len(t \o <<m>>) = n /\ (t \o <<m>>)[n] = m
             /\ \A i \in 1..(n - 1) : (t \o <<m>>)[i] = q[i + 1]
  <2> DEFINE T == RtOp \cup {m}
             r == <<m>>
  <2>1. t \in Seq(T) /\ r \in Seq(T) /\ Len(r) = 1 /\ r[1] = m
    BY <1>4, SeqMonotonic
  <2> HIDE DEF r, T
  <2>2. /\ Len(t \o r) = Len(t) + Len(r)
        /\ \A i \in 1..(Len(t) + Len(r)) :
              (t \o r)[i] = IF i <= Len(t) THEN t[i] ELSE r[i - Len(t)]
    BY <2>1, ConcatProperties
  <2>3. Len(t \o r) = n
    BY <1>2, <1>4, <2>1, <2>2
  <2>4. (t \o r)[n] = m
    <3>1. n \in 1..(Len(t) + Len(r)) /\ ~(n <= Len(t)) /\ n - Len(t) = 1
      BY <1>2, <1>4, <2>1
    <3> QED
      BY <2>1, <2>2, <3>1
  <2>5. ASSUME NEW i \in 1..(n - 1)
        PROVE  (t \o r)[i] = q[i + 1]
    <3>1. i \in 1..(Len(t) + Len(r)) /\ i <= Len(t)
      BY <1>2, <1>4, <2>1
    <3> QED
      BY <1>4, <2>2, <3>1
  <2> QED
    BY <2>3, <2>4, <2>5 DEF r
<1> QED
  BY <1>2, <1>3, <1>4, <1>5 DEF q, n, t

(* The queue of an ending post, and the one without its head.              *)
LEMMA Walked ==
    ASSUME TypeOK, NEW u \in User, NEW p \in Post, NEW k \in {"delete", "close"},
           NEW y \in Stage, NEW s, EndRt(u, p, k, s, y), rt[u] # <<>>,
           NEW n \in Nat \ {0}, n = Len(rt[u])
    PROVE  /\ Head(rt[u]).post = p /\ Head(rt[u]).who \in User
           /\ Head(rt[u]) = rt[u][1]
           /\ \/ Head(rt[u]).op = "removeGroup" /\ group[p].name
              \/ /\ Head(rt[u]).op = StripOf(k) /\ Holds(Head(rt[u]).who, p)
                 /\ group[p] = NoGroup /\ y # "asked"
              \/ /\ Head(rt[u]).op = "setGroups"
                 /\ Head(rt[u]).posts = Left(k, p, userGroups[Head(rt[u]).who])
                 /\ group[p] = NoGroup /\ y # "asked"
           /\ StripOf(k) \in {"stripPost", "stripUid"}
           /\ \A i \in 2..n : rt[u][i].op # "removeGroup" /\ rt[u][i].who \in User
<1>1. /\ Head(rt[u]) = rt[u][1] /\ \A i \in 1..n : rt[u][i] \in RtOp
      /\ 1 \in 1..n
  BY Rest
<1>2. StripOf(k) \in {"stripPost", "stripUid"}
  BY DEF StripOf
<1>3. \A i \in 1..n :
        /\ rt[u][i].post = p
        /\ \/ i = 1 /\ rt[u][i].op = "removeGroup"
           \/ rt[u][i].op = StripOf(k) /\ Holds(rt[u][i].who, p)
           \/ /\ rt[u][i].op = "setGroups"
              /\ rt[u][i].posts = Left(k, p, userGroups[rt[u][i].who])
  BY DEF EndRt, Walk
<1>4. \A i \in 1..n : rt[u][i].who \in User
  BY <1>1 DEF RtOp
<1>5. Removing(rt[u]) <=> rt[u][1].op = "removeGroup"
  BY DEF Removing
<1>6. IF Removing(rt[u]) THEN group[p].name ELSE group[p] = NoGroup
  BY DEF EndRt
<1>7. y = "asked" => rt[u][1].op = "removeGroup"
  BY <1>1 DEF EndRt
<1>8. \A i \in 2..n : i \in 1..n /\ i # 1
  OBVIOUS
<1>9. \A i \in 2..n : rt[u][i].op # "removeGroup"
  BY <1>2, <1>3, <1>8
<1> QED
  BY <1>1, <1>2, <1>3, <1>4, <1>5, <1>6, <1>7, <1>8, <1>9

(* The queue without its head.                                             *)
Shifted(q, r) ==
    /\ Len(q) \in Nat \ {0} /\ r \in Seq(RtOp) /\ Len(r) = Len(q) - 1
    /\ \A i \in 1..(Len(q) - 1) : r[i] = q[i + 1]

ShiftedItems(q, r) ==
    /\ \A i \in 1..Len(r) : \E j \in 2..Len(q) :
          j = i + 1 /\ j \in 1..Len(q) /\ j # 1 /\ r[i] = q[j]
    /\ \A j \in 1..Len(q) : j # 1 => \E i \in 1..Len(r) : r[i] = q[j]

LEMMA ShiftedAll == \A q, r : Shifted(q, r) => ShiftedItems(q, r)
<1> SUFFICES ASSUME NEW q, NEW r, Shifted(q, r) PROVE ShiftedItems(q, r)
  OBVIOUS
<1>1. PICK n \in Nat \ {0} : n = Len(q)
  BY DEF Shifted
<1>2. Len(r) = n - 1 /\ \A i \in 1..(n - 1) : r[i] = q[i + 1]
  BY <1>1 DEF Shifted
<1>3. \A i \in 1..(n - 1) : i + 1 \in 2..n /\ i + 1 \in 1..n /\ i + 1 # 1
  OBVIOUS
<1>4. ASSUME NEW j \in 1..n, j # 1
      PROVE  \E i \in 1..(n - 1) : r[i] = q[j]
  <2>1. j - 1 \in 1..(n - 1) /\ (j - 1) + 1 = j
    BY <1>4
  <2> QED
    BY <1>2, <2>1
<1>5. \A i \in 1..(n - 1) : \E j \in 2..n : j = i + 1 /\ j \in 1..n /\ j # 1 /\ r[i] = q[j]
  BY <1>2, <1>3
<1>6. 1..Len(r) = 1..(n - 1) /\ 1..Len(q) = 1..n /\ 2..Len(q) = 2..n
  BY <1>1, <1>2
<1> QED
  BY <1>4, <1>5, <1>6 DEF ShiftedItems

LEMMA ShiftedApart ==
    ASSUME NEW q, NEW r, Shifted(q, r), Apart(q)
    PROVE  Apart(r)
<1> SUFFICES ASSUME NEW i \in 1..Len(r), NEW j \in 1..Len(r),
                    r[i].op # "removeGroup", r[j].op # "removeGroup", r[i].who = r[j].who
             PROVE  i = j
  BY DEF Apart
<1>1. PICK a \in 1..Len(q) : a = i + 1 /\ r[i] = q[a]
  BY ShiftedAll DEF ShiftedItems
<1>2. PICK b \in 1..Len(q) : b = j + 1 /\ r[j] = q[b]
  BY ShiftedAll DEF ShiftedItems
<1>3. a = b
  BY <1>1, <1>2 DEF Apart
<1> QED
  BY <1>1, <1>2, <1>3

LEMMA ShiftedWalk ==
    ASSUME NEW q, NEW r, Shifted(q, r), \A j \in 2..Len(q) : q[j].op # "removeGroup"
    PROVE  ~Removing(r)
<1>1. CASE r = <<>>
  BY <1>1 DEF Removing
<1>2. CASE r # <<>>
  <2>1. Len(r) \in Nat \ {0}
    BY <1>2, EmptySeq DEF Shifted
  <2>2. 1 \in 1..Len(r)
    BY <2>1
  <2>3. PICK j \in 2..Len(q) : r[1] = q[j]
    BY <2>2, ShiftedAll DEF ShiftedItems
  <2> QED
    BY <2>3 DEF Removing
<1> QED
  BY <1>1, <1>2

(* What is left of the walk once the head is served.                       *)
LEMMA EndMoves ==
    ASSUME TypeOK, NEW u \in User, NEW p \in Post, NEW k \in {"delete", "close"},
           NEW y \in Stage, NEW s, EndRt(u, p, k, s, y), rt[u] # <<>>,
           NEW q, q = rt[u], NEW r, r = rt'[u], Shifted(q, r),
           group'[p] = NoGroup,
           \A i \in 2..Len(q) : userGroups'[q[i].who] = userGroups[q[i].who],
           \/ Listed(p)' = Listed(p) /\ (k = "delete" => q[1].op = "removeGroup")
           \/ y # "asked" /\ Listed(p)' = Listed(p) \ {q[1].who}
           \/ y # "asked" /\ k # "delete"
    PROVE  EndRt(u, p, k, s, y)'
<1>9. ShiftedItems(q, r)
  BY ShiftedAll
<1>1. \A i \in 2..Len(q) : q[i].op # "removeGroup"
  <2>1. Len(q) \in Nat \ {0}
    BY DEF Shifted
  <2> QED
    BY <2>1, Walked
<1>2. \A i \in 1..Len(q) :
        /\ q[i].post = p
        /\ \/ i = 1 /\ q[i].op = "removeGroup"
           \/ q[i].op = StripOf(k) /\ Holds(q[i].who, p)
           \/ q[i].op = "setGroups" /\ q[i].posts = Left(k, p, userGroups[q[i].who])
  BY DEF EndRt, Walk
<1>3. ASSUME NEW i \in 1..Len(r)
      PROVE  /\ r[i].post = p
             /\ \/ r[i].op = StripOf(k) /\ Holds(r[i].who, p)'
                \/ r[i].op = "setGroups" /\ r[i].posts = Left(k, p, userGroups'[r[i].who])
  <2>1. PICK j \in 2..Len(q) : j \in 1..Len(q) /\ j # 1 /\ r[i] = q[j]
    BY <1>9 DEF ShiftedItems
  <2>2. /\ q[j].post = p
        /\ \/ q[j].op = StripOf(k) /\ Holds(q[j].who, p)
           \/ q[j].op = "setGroups" /\ q[j].posts = Left(k, p, userGroups[q[j].who])
    BY <1>2, <2>1
  <2>3. userGroups'[q[j].who] = userGroups[q[j].who]
    BY <2>1
  <2> QED
    BY <2>1, <2>2, <2>3 DEF Holds
<1>4. Walk(u, p, k)'
  BY <1>3 DEF Walk
<1>5. Apart(rt[u])'
  <2>1. Apart(q)
    BY DEF EndRt
  <2>2. Apart(r)
    BY <2>1, ShiftedApart
  <2> QED
    BY <2>2
<1>6. ~Removing(r)
  BY <1>1, ShiftedWalk
<1>7. y = "asked" => /\ \A i \in 1..Len(r) : r[i].op = "removeGroup"
                     /\ Listed(p)' = Those(s)
  <2> SUFFICES ASSUME y = "asked" PROVE /\ \A i \in 1..Len(r) : r[i].op = "removeGroup"
                                        /\ Listed(p)' = Those(s)
    OBVIOUS
  <2>1. (\A j \in 1..Len(q) : q[j].op = "removeGroup") /\ Listed(p) = Those(s)
    BY DEF EndRt
  <2>2. ASSUME NEW i \in 1..Len(r) PROVE r[i].op = "removeGroup"
    <3>1. PICK j \in 2..Len(q) : j \in 1..Len(q) /\ r[i] = q[j]
      BY <1>9 DEF ShiftedItems
    <3> QED
      BY <2>1, <3>1
  <2> QED
    BY <2>1, <2>2
<1>8. ASSUME y # "asked", k = "delete", NEW v \in Listed(p)'
      PROVE  \E i \in 1..Len(r) : r[i].op # "removeGroup" /\ r[i].who = v
  <2>1. v \in Listed(p) /\ (q[1].op = "removeGroup" \/ v # q[1].who)
    BY <1>8
  <2>2. PICK j \in 1..Len(q) : q[j].op # "removeGroup" /\ q[j].who = v
    BY <1>8, <2>1 DEF EndRt
  <2>3. j # 1
    BY <2>1, <2>2
  <2>4. PICK i \in 1..Len(r) : r[i] = q[j]
    BY <1>9, <2>3 DEF ShiftedItems
  <2> QED
    BY <2>2, <2>4
<1> QED
  BY <1>4, <1>5, <1>6, <1>7, <1>8 DEF EndRt

LEMMA TailShifted ==
    ASSUME TypeOK, NEW u \in User, rt[u] # <<>>
    PROVE  Shifted(rt[u], Tail(rt[u]))
<1>1. PICK n \in Nat \ {0} :
        /\ n = Len(rt[u]) /\ Len(Tail(rt[u])) = n - 1
        /\ \A i \in 1..(n - 1) : Tail(rt[u])[i] = rt[u][i + 1]
  BY Rest
<1>2. Tail(rt[u]) \in Seq(RtOp)
  BY Served DEF TypeOK
<1> QED
  BY <1>1, <1>2 DEF Shifted

(* A list is written back, for a post that ends.                           *)
LEMMA ListWritten ==
    ASSUME TypeOK, NEW p \in Post, NEW w \in User, NEW k \in {"delete", "close"},
           userGroups' = [userGroups EXCEPT ![w] = Left(k, p, userGroups[w])]
    PROVE  /\ \A q \in Post \ {p} : \A v \in User : Holds(v, q)' = Holds(v, q)
           /\ \A v \in User \ {w} : userGroups'[v] = userGroups[v]
           /\ k = "delete" => Listed(p)' = Listed(p) \ {w}
           /\ k # "delete" => Listed(p)' = Listed(p)
<1>1. userGroups \in [User -> SUBSET Post]
  BY DEF TypeOK
<1>2. CASE k = "delete"
  <2>1. userGroups' = [userGroups EXCEPT ![w] = @ \ {p}]
    BY <1>2 DEF Left
  <2> QED
    BY <1>1, <1>2, <2>1, HoldsElsewhere, ListedMoves
<1>3. CASE k # "delete"
  <2>1. userGroups' = userGroups
    BY <1>1, <1>3 DEF Left
  <2> QED
    BY <1>3, <2>1, HoldsElsewhere, ListedMoves
<1> QED
  BY <1>2, <1>3

(* A member's list arrives: the head of the walk becomes its last item.    *)
Turned(q, r, item) ==
    /\ Len(q) \in Nat \ {0} /\ Len(r) = Len(q) /\ r[Len(q)] = item
    /\ \A i \in 1..(Len(q) - 1) : r[i] = q[i + 1]

TurnedItems(q, r, item) ==
    /\ \A i \in 1..Len(r) :
          \/ i = Len(q) /\ r[i] = item
          \/ \E j \in 2..Len(q) : j = i + 1 /\ j \in 1..Len(q) /\ j # 1 /\ r[i] = q[j]
    /\ \A j \in 1..Len(q) : j # 1 => \E i \in 1..Len(r) : r[i] = q[j]
    /\ Len(q) \in 1..Len(r) /\ r[Len(q)] = item /\ 1 \in 1..Len(q)
    /\ \A i \in 1..Len(r) : i = 1 => (r[1] = item \/ \E j \in 2..Len(q) : r[1] = q[j])

LEMMA TurnedAll == \A q, r, item : Turned(q, r, item) => TurnedItems(q, r, item)
<1> SUFFICES ASSUME NEW q, NEW r, NEW item, Turned(q, r, item)
             PROVE  TurnedItems(q, r, item)
  OBVIOUS
<1>1. PICK n \in Nat \ {0} : n = Len(q)
  BY DEF Turned
<1>2. Len(r) = n /\ r[n] = item /\ \A i \in 1..(n - 1) : r[i] = q[i + 1]
  BY <1>1 DEF Turned
<1>3. \A i \in 1..n : i = n \/ (i \in 1..(n - 1) /\ i + 1 \in 2..n /\ i + 1 \in 1..n /\ i + 1 # 1)
  OBVIOUS
<1>4. ASSUME NEW j \in 1..n, j # 1
      PROVE  \E i \in 1..n : r[i] = q[j]
  <2>1. j - 1 \in 1..(n - 1) /\ j - 1 \in 1..n /\ (j - 1) + 1 = j
    BY <1>4
  <2> QED
    BY <1>2, <2>1
<1>5. ASSUME NEW i \in 1..n
      PROVE  \/ i = n /\ r[i] = item
             \/ \E j \in 2..n : j = i + 1 /\ j \in 1..n /\ j # 1 /\ r[i] = q[j]
  <2>1. CASE i = n
    BY <1>2, <2>1
  <2>2. CASE i \in 1..(n - 1)
    BY <1>2, <1>3, <2>2
  <2> QED
    BY <1>3, <2>1, <2>2
<1>6. n \in 1..n /\ 1 \in 1..n
  OBVIOUS
<1>7. 1..Len(r) = 1..n /\ 1..Len(q) = 1..n /\ 2..Len(q) = 2..n
  BY <1>1, <1>2
<1>8. \A i \in 1..n : i = 1 => r[1] = item \/ \E j \in 2..n : r[1] = q[j]
  BY <1>5
<1> QED
  BY <1>1, <1>2, <1>4, <1>5, <1>6, <1>7, <1>8 DEF TurnedItems

LEMMA TurnedApart ==
    ASSUME NEW q, NEW r, NEW item, Turned(q, r, item), Apart(q),
           q[1].op # "removeGroup", item.who = q[1].who
    PROVE  Apart(r)
<1>0. /\ \A i \in 1..Len(r) :
            \/ i = Len(q) /\ r[i] = item
            \/ \E j \in 2..Len(q) : j = i + 1 /\ j \in 1..Len(q) /\ j # 1 /\ r[i] = q[j]
      /\ 1 \in 1..Len(q)
  BY TurnedAll DEF TurnedItems
<1>1. \A i, j \in 1..Len(q) :
        q[i].op # "removeGroup" /\ q[j].op # "removeGroup" /\ q[i].who = q[j].who => i = j
  BY DEF Apart
<1> SUFFICES ASSUME NEW i \in 1..Len(r), NEW j \in 1..Len(r),
                    r[i].op # "removeGroup", r[j].op # "removeGroup", r[i].who = r[j].who
             PROVE  i = j
  BY DEF Apart
<1>2. CASE i = Len(q) /\ r[i] = item /\ j = Len(q) /\ r[j] = item
  BY <1>2
<1>3. ASSUME r[i] = item,
             NEW b \in 2..Len(q), b = j + 1, b \in 1..Len(q), b # 1, r[j] = q[b]
      PROVE  FALSE
  <2>1. q[b].op # "removeGroup" /\ q[b].who = q[1].who
    BY <1>3
  <2> QED
    BY <1>0, <1>1, <1>3, <2>1
<1>4. ASSUME r[j] = item,
             NEW a \in 2..Len(q), a = i + 1, a \in 1..Len(q), a # 1, r[i] = q[a]
      PROVE  FALSE
  <2>1. q[a].op # "removeGroup" /\ q[a].who = q[1].who
    BY <1>4
  <2> QED
    BY <1>0, <1>1, <1>4, <2>1
<1>5. ASSUME NEW a \in 2..Len(q), a = i + 1, a \in 1..Len(q), r[i] = q[a],
             NEW b \in 2..Len(q), b = j + 1, b \in 1..Len(q), r[j] = q[b]
      PROVE  i = j
  <2>1. a = b
    BY <1>1, <1>5
  <2> QED
    BY <1>5, <2>1
<1> QED
  BY <1>0, <1>2, <1>3, <1>4, <1>5

LEMMA EndTurns ==
    ASSUME TypeOK, NEW u \in User, NEW p \in Post, NEW k \in {"delete", "close"},
           NEW y \in Stage, NEW s, EndRt(u, p, k, s, y), rt[u] # <<>>,
           NEW q, q = rt[u], NEW r, r = rt'[u], NEW item, Turned(q, r, item),
           q[1].op # "removeGroup", y # "asked",
           item.op = "setGroups", item.post = p, item.who = q[1].who,
           item.posts = Left(k, p, userGroups[q[1].who]),
           UNCHANGED <<group, userGroups>>
    PROVE  EndRt(u, p, k, s, y)'
<1>1. TurnedItems(q, r, item)
  BY TurnedAll
<1>2. \A i \in 2..Len(q) : q[i].op # "removeGroup"
  <2>1. Len(q) \in Nat \ {0}
    BY DEF Turned
  <2> QED
    BY <2>1, Walked
<1>3. \A i \in 1..Len(q) :
        /\ q[i].post = p
        /\ \/ i = 1 /\ q[i].op = "removeGroup"
           \/ q[i].op = StripOf(k) /\ Holds(q[i].who, p)
           \/ q[i].op = "setGroups" /\ q[i].posts = Left(k, p, userGroups[q[i].who])
  BY DEF EndRt, Walk
<1>4. ASSUME NEW i \in 1..Len(r)
      PROVE  /\ r[i].post = p
             /\ \/ r[i].op = StripOf(k) /\ Holds(r[i].who, p)'
                \/ r[i].op = "setGroups" /\ r[i].posts = Left(k, p, userGroups'[r[i].who])
  <2>1. CASE r[i] = item
    BY <2>1
  <2>2. ASSUME NEW j \in 2..Len(q), j \in 1..Len(q), j # 1, r[i] = q[j]
        PROVE  /\ r[i].post = p
               /\ \/ r[i].op = StripOf(k) /\ Holds(r[i].who, p)'
                  \/ r[i].op = "setGroups" /\ r[i].posts = Left(k, p, userGroups'[r[i].who])
    BY <1>2, <1>3, <2>2 DEF Holds
  <2>3. \/ r[i] = item
        \/ \E j \in 2..Len(q) : j \in 1..Len(q) /\ j # 1 /\ r[i] = q[j]
    BY <1>1 DEF TurnedItems
  <2>4. CASE r[i] # item
    <3>1. PICK j \in 2..Len(q) : j \in 1..Len(q) /\ j # 1 /\ r[i] = q[j]
      BY <2>3, <2>4
    <3> QED
      BY <2>2, <3>1
  <2> QED
    BY <2>1, <2>4
<1>5. Walk(u, p, k)'
  BY <1>4 DEF Walk
<1>6. Apart(rt[u])'
  <2>1. Apart(q)
    BY DEF EndRt
  <2>2. Apart(r)
    BY <2>1, TurnedApart
  <2> QED
    BY <2>2
<1>7. ~Removing(rt[u]) /\ ~Removing(r)
  <2>1. ~Removing(rt[u])
    BY DEF Removing
  <2>2. 1 \in 1..Len(r)
    BY <1>1 DEF Turned, TurnedItems
  <2>3. r[1].op # "removeGroup"
    BY <1>1, <1>2, <2>2 DEF TurnedItems
  <2> QED
    BY <2>1, <2>3 DEF Removing
<1>8. group'[p] = NoGroup /\ Listed(p)' = Listed(p)
  <2>1. group[p] = NoGroup
    BY <1>7 DEF EndRt
  <2> QED
    BY <2>1, ListedMoves
<1>9. ASSUME k = "delete", NEW v \in Listed(p)'
      PROVE  \E i \in 1..Len(r) : r[i].op # "removeGroup" /\ r[i].who = v
  <2>1. PICK j \in 1..Len(q) : q[j].op # "removeGroup" /\ q[j].who = v
    BY <1>8, <1>9 DEF EndRt
  <2>2. CASE j = 1
    BY <1>1, <2>1, <2>2 DEF TurnedItems
  <2>3. CASE j # 1
    <3>1. PICK i \in 1..Len(r) : r[i] = q[j]
      BY <1>1, <2>3 DEF TurnedItems
    <3> QED
      BY <2>1, <3>1
  <2> QED
    BY <2>2, <2>3
<1> QED
  BY <1>5, <1>6, <1>7, <1>8, <1>9 DEF EndRt

LEMMA EndServed ==
    ASSUME TypeOK, NEW u \in User, NEW p \in Post, NEW k \in {"delete", "close"},
           NEW y \in Stage, NEW s, EndRt(u, p, k, s, y), RealtimeStep(u)
    PROVE  EndRt(u, p, k, s, y)' /\ Onward(u, p) /\ Beside /\ Firestore
<1> DEFINE m == Head(rt[u])
<1>1. rt[u] # <<>>
  BY HasRequest
<1>2. PICK n \in Nat \ {0} :
        /\ n = Len(rt[u]) /\ Len(Tail(rt[u])) = n - 1
        /\ \A i \in 1..(n - 1) : Tail(rt[u])[i] = rt[u][i + 1]
        /\ \A i \in 1..n : rt[u][i] \in RtOp
        /\ \A a : /\ Len(Tail(rt[u]) \o <<a>>) = n /\ (Tail(rt[u]) \o <<a>>)[n] = a
                  /\ \A i \in 1..(n - 1) : (Tail(rt[u]) \o <<a>>)[i] = rt[u][i + 1]
  BY <1>1, Rest
<1>3. /\ m.post = p /\ m.who \in User /\ m = rt[u][1]
      /\ \/ m.op = "removeGroup" /\ group[p].name
         \/ /\ m.op = StripOf(k) /\ Holds(m.who, p) /\ group[p] = NoGroup /\ y # "asked"
         \/ /\ m.op = "setGroups" /\ m.posts = Left(k, p, userGroups[m.who])
            /\ group[p] = NoGroup /\ y # "asked"
      /\ StripOf(k) \in {"stripPost", "stripUid"}
      /\ \A i \in 2..n : rt[u][i].op # "removeGroup" /\ rt[u][i].who \in User
  BY <1>1, <1>2, Walked
<1>4. Shifted(rt[u], Tail(rt[u]))
  BY <1>1, TailShifted
<1>5. CASE m.op = "removeGroup"
  <2>1. m.op \in {"setGroup", "setCount", "push", "removeGroup"} /\ m.post = p
    BY <1>3, <1>5
  <2>2. /\ Onward(u, p) /\ Beside /\ Firestore /\ UNCHANGED userGroups
        /\ rt'[u] = Tail(rt[u]) /\ Listed(p)' = Listed(p) /\ group'[p] = NoGroup
    BY <1>1, <1>5, <2>1, OnGroup
  <2>3. Shifted(rt[u], rt'[u])
    BY <1>4, <2>2
  <2>4. \A i \in 2..Len(rt[u]) : userGroups'[rt[u][i].who] = userGroups[rt[u][i].who]
    BY <2>2
  <2>5. Listed(p)' = Listed(p) /\ rt[u][1].op = "removeGroup"
    BY <1>3, <1>5, <2>2
  <2>6. EndRt(u, p, k, s, y)'
    BY <1>1, <2>2, <2>3, <2>4, <2>5, EndMoves
  <2> QED
    BY <2>2, <2>6
<1>6. CASE m.op = "setGroups"
  <2>1. /\ m.posts = Left(k, p, userGroups[m.who]) /\ group[p] = NoGroup /\ y # "asked"
    BY <1>3, <1>6
  <2>2. /\ userGroups' = [userGroups EXCEPT ![m.who] = Left(k, p, userGroups[m.who])]
        /\ rt' = Then(u, <<>>) /\ UNCHANGED group /\ Beside /\ Firestore
    BY <1>6, <2>1, ServeLists
  <2>3. rt'[u] = Tail(rt[u]) /\ \A v \in User \ {u} : rt'[v] = rt[v]
    BY <1>1, <2>2, Concats
  <2>4. /\ \A q \in Post \ {p} : \A v \in User : Holds(v, q)' = Holds(v, q)
        /\ \A v \in User \ {m.who} : userGroups'[v] = userGroups[v]
        /\ k = "delete" => Listed(p)' = Listed(p) \ {m.who}
    BY <1>3, <2>2, ListWritten
  <2>5. Onward(u, p)
    BY <1>1, <1>3, <2>2, <2>3, <2>4, OnwardRt
  <2>6. \A i \in 2..n : rt[u][i].who # m.who
    <3>1. \A i, j \in 1..n : (/\ rt[u][i].op # "removeGroup" /\ rt[u][j].op # "removeGroup"
                              /\ rt[u][i].who = rt[u][j].who) => i = j
      BY <1>2 DEF EndRt, Apart
    <3>2. SUFFICES ASSUME NEW i \in 2..n, rt[u][i].who = m.who PROVE FALSE
      OBVIOUS
    <3>3. i \in 1..n /\ 1 \in 1..n /\ i # 1
      OBVIOUS
    <3> QED
      BY <1>3, <1>6, <3>1, <3>2, <3>3
  <2>7. \A i \in 2..Len(rt[u]) : userGroups'[rt[u][i].who] = userGroups[rt[u][i].who]
    BY <1>2, <1>3, <2>4, <2>6
  <2>8. Shifted(rt[u], rt'[u]) /\ group'[p] = NoGroup
    BY <1>4, <2>1, <2>2, <2>3
  <2>9. (Listed(p)' = Listed(p) \ {rt[u][1].who}) \/ k # "delete"
    BY <1>3, <2>4
  <2>10. EndRt(u, p, k, s, y)'
    BY <1>1, <2>1, <2>7, <2>8, <2>9, EndMoves
  <2> QED
    BY <2>2, <2>5, <2>10
<1>7. CASE m.op = StripOf(k)
  <2> DEFINE item == SetGroups(m.who, p, Left(k, p, userGroups[m.who]))
  <2>1. Holds(m.who, p) /\ group[p] = NoGroup /\ y # "asked" /\ m.op # "removeGroup"
    BY <1>3, <1>7
  <2>2. userGroups[m.who] # {} /\ m.op \in {"stripPost", "stripUid"}
    BY <1>3, <1>7, <2>1 DEF Holds
  <2>3. Stripped(m, userGroups[m.who]) = Left(k, p, userGroups[m.who])
    BY <1>3, <1>7 DEF Stripped, Left, StripOf
  <2>4. /\ rt' = Then(u, <<SetGroups(m.who, m.post, Stripped(m, userGroups[m.who]))>>)
        /\ UNCHANGED <<group, userGroups>> /\ Beside /\ Firestore
    BY <2>2, ServeStrip
  <2>5. rt' = Then(u, <<item>>)
    BY <1>3, <2>3, <2>4
  <2>6. /\ item.op = "setGroups" /\ item.post = p /\ item.who = m.who
        /\ item.posts = Left(k, p, userGroups[m.who])
    <3>1. Left(k, p, userGroups[m.who]) \in SUBSET Post
      BY <1>3 DEF Left, TypeOK
    <3> QED
      BY <1>3, <3>1, RtFields
  <2> HIDE DEF item
  <2>7. rt'[u] = Tail(rt[u]) \o <<item>> /\ \A v \in User \ {u} : rt'[v] = rt[v]
    BY <1>1, <2>5, Concats
  <2>8. Turned(rt[u], rt'[u], item)
    BY <1>2, <2>7 DEF Turned
  <2>9. \A q \in Post \ {p} : \A v \in User : Holds(v, q)' = Holds(v, q)
    BY <2>4, HoldsElsewhere
  <2>10. Onward(u, p)
    BY <1>1, <1>3, <2>4, <2>7, <2>9, OnwardRt
  <2>11. /\ rt[u][1].op # "removeGroup" /\ item.who = rt[u][1].who
         /\ item.posts = Left(k, p, userGroups[rt[u][1].who])
    BY <1>3, <2>1, <2>6
  <2>12. EndRt(u, p, k, s, y)'
    BY <1>1, <2>1, <2>4, <2>6, <2>8, <2>11, EndTurns
  <2> QED
    BY <2>4, <2>10, <2>12
<1> QED
  BY <1>3, <1>5, <1>6, <1>7
-----------------------------------------------------------------------------
(* What an operation asks for.                                             *)

LEMMA AskedFor ==
    ASSUME TypeOK, NEW u \in User, NEW p \in Post, asked[u] = NothingAsked
    PROVE  /\ \A k : Ask(u, {k}, p)[u] = Asked(p, "queued", "none", "asked", k)
           /\ \A k : Ask(u, {k}, p)[u] = Asked(p, "done", "none", "asked", k)
           /\ \A k, l : Ask(u, {l, k}, p)[u] = Asked(p, "asked", k, "asked", l)
           /\ \A kinds : \A v \in User \ {u} : Ask(u, kinds, p)[v] = asked[v]
           /\ \A x, y, k, l : x # "asked" /\ y # "asked"
                 => NothingAsked = Asked(p, x, k, y, l)
<1>1. \A r \in Read : \A k : r = <<k, p>> <=> (r[1] = k /\ r[2] = p)
  BY DEF Read
<1>2. \A r \in Read : asked[u][r] = 0 /\ asked[u][r] + 1 = 1
  BY DEF NothingAsked
<1>3. \A kinds : Ask(u, kinds, p)[u] =
          [r \in Read |-> IF r[1] \in kinds /\ r[2] = p THEN 1 ELSE 0]
  BY <1>2 DEF Ask, TypeOK
<1>4. \A k : /\ Ask(u, {k}, p)[u] = Asked(p, "queued", "none", "asked", k)
             /\ Ask(u, {k}, p)[u] = Asked(p, "done", "none", "asked", k)
  BY <1>1, <1>3 DEF Asked
<1>5. \A k, l : Ask(u, {l, k}, p)[u] = Asked(p, "asked", k, "asked", l)
  BY <1>1, <1>3 DEF Asked
<1>6. \A kinds : \A v \in User \ {u} : Ask(u, kinds, p)[v] = asked[v]
  BY DEF Ask, TypeOK
<1>7. \A x, y, k, l : x # "asked" /\ y # "asked" => NothingAsked = Asked(p, x, k, y, l)
  BY DEF Asked, NothingAsked
<1> QED
  BY <1>4, <1>5, <1>6, <1>7

LEMMA FirstQueued ==
    ASSUME TypeOK, NEW u \in User, fs[u] = <<>>, NEW w
    PROVE  /\ Queue(fs, u, <<w>>)[u] = <<w>>
           /\ \A v \in User \ {u} : Queue(fs, u, <<w>>)[v] = fs[v]
BY Joined DEF Queue, TypeOK

LEMMA Same == ASSUME UNCHANGED servers, UNCHANGED <<seats, removed>>
              PROVE  \A p \in Post : Elsewhere(p) /\ (Story(p) <=> Story(p)')
<1>1. \A p \in Post : Elsewhere(p)
  BY DEF servers, Elsewhere, Holds
<1>2. \A p \in Post : Story(p)' <=> Story(p)
  BY DEF servers, Story, Untouched, Running, Over, Gone, Tells, Room, Listed
<1> QED
  BY <1>1, <1>2
-----------------------------------------------------------------------------
(* The page learns whether the student is in the room.                     *)
LEMMA CheckServed ==
    ASSUME TypeOK, SerialInv, NEW u \in User, NEW p \in Post, Alone(u, p), InCheck(u, p),
           RealtimeStep(u)
    PROVE  SerialInv'
<1>1. rt[u] = <<Rt(u, "check", p)>> /\ fs[u] = <<>> /\ asked[u] = NothingAsked /\ Story(p)
  BY DEF InCheck, InRead, Story
<1>2. rt[u] # <<>> /\ Head(rt[u]) = Rt(u, "check", p) /\ Tail(rt[u]) = <<>>
  BY <1>1, HasRequest, Ends
<1>3. Head(rt[u]).op = "check" /\ Head(rt[u]).post = p
  BY <1>2, RtFields DEF RtKind
<1>4. GotCheck(u)
  BY <1>3, ServeReads
<1>5. /\ rt' = Then(u, <<>>) /\ UNCHANGED servers /\ UNCHANGED <<seats, removed>>
      /\ UNCHANGED <<chat, fs, asked, crashed>>
      /\ page' = IF page[u] # Nil /\ page[u].post = p /\ Holds(u, p)
                 THEN [page EXCEPT ![u].joinable = FALSE] ELSE page
  BY <1>3, <1>4 DEF GotCheck, history
<1>20. rt' = Then(u, <<>>)
  BY <1>5
<1>21. /\ Then(u, <<>>)[u] = Tail(rt[u]) \o <<>> /\ Tail(rt[u]) \o <<>> = Tail(rt[u])
       /\ \A v \in User \ {u} : Then(u, <<>>)[v] = rt[v]
  BY <1>2, Concats
<1>6. rt'[u] = <<>> /\ \A v \in User \ {u} : rt'[v] = rt[v]
  BY <1>2, <1>20, <1>21
<1>7. Quiet'
  BY <1>1, <1>5, <1>6 DEF Quiet, Idle, Alone
<1>8. AtRest'
  BY <1>1, <1>5, <1>7, Same DEF AtRest, Alone
<1> DEFINE g == [page[u] EXCEPT !.joinable = FALSE]
<1>15. page' = IF page[u] # Nil /\ page[u].post = p /\ Holds(u, p)
               THEN [page EXCEPT ![u] = g] ELSE page
  BY <1>5
<1>16. page[u] # Nil => page[u] \in Page
  BY DEF TypeOK
<1>17. page[u] # Nil => g \in Page
  BY <1>16, PageType
<1>18. page[u] # Nil => g.post = page[u].post /\ g.search = page[u].search
                       /\ g.cur = page[u].cur /\ g.max = page[u].max
  BY <1>16 DEF Page
<1>19. page[u] # Nil => g.joinable = FALSE
  BY <1>16 DEF Page
<1> HIDE DEF g
<1>9. \A v \in User \ {u} : page'[v] = page[v]
  BY <1>15 DEF TypeOK
<1>10. page'[u] = page[u] \/ (page[u] # Nil /\ page[u].post = p /\ page'[u] = g)
  BY <1>15 DEF TypeOK
<1>11. page[u] # Nil /\ page[u].post = p /\ Holds(u, p) => page'[u] = g
  BY <1>15 DEF TypeOK
<1>12. \A v \in User : page'[v] # Nil <=> page[v] # Nil
  BY <1>9, <1>10, <1>17, PageAssumption
<1>13. ASSUME NEW v \in User, page[v] # Nil PROVE FreshPage(v)'
  <2>1. FreshPage(v)
    BY <1>13 DEF SerialInv, Screens
  <2>2. CASE page'[v] = page[v] /\ ~(v = u /\ page[v].post = p /\ Holds(v, p))
    <3>1. rt[v] = <<Rt(v, "check", page[v].post)>> => (rt'[v] = rt[v] \/ ~Holds(v, page[v].post))
      <4>1. CASE v = u
        <5> DEFINE a == Rt(v, "check", page[v].post)
                   b == Rt(u, "check", p)
        <5>1. a.post = page[v].post /\ b.post = p
          BY DEF Rt
        <5> HIDE DEF a, b
        <5>2. <<a>> = <<b>> => a = b
          OBVIOUS
        <5>3. rt[v] = <<a>> => page[v].post = p
          BY <1>1, <4>1, <5>1, <5>2 DEF b
        <5> QED
          BY <2>2, <4>1, <5>3 DEF a
      <4> QED
        BY <1>6, <4>1
    <3> QED
      BY <1>5, <2>1, <2>2, <3>1 DEF FreshPage, Holds, servers
  <2>3. CASE v = u /\ page[v].post = p /\ Holds(v, p)
    <3>1. page'[v] = g /\ page[u] # Nil
      BY <1>11, <1>13, <2>3
    <3> QED
      BY <1>5, <1>18, <1>19, <2>1, <2>3, <3>1 DEF FreshPage, Holds, servers
  <2>4. CASE v # u
    BY <1>9, <2>2, <2>4
  <2>5. CASE v = u /\ ~(page[v].post = p /\ Holds(v, p))
    <3>1. page'[v] = page[v]
      BY <1>15, <2>5 DEF TypeOK
    <3> QED
      BY <2>2, <2>5, <3>1
  <2> QED
    BY <2>3, <2>4, <2>5
<1>14. Screens'
  BY <1>5, <1>12, <1>13 DEF SerialInv, Screens, Looks, Holds, servers
<1> QED
  BY <1>5, <1>8, <1>14 DEF SerialInv, NoCrash

(* Leaving: the count the room has decides whether it ends.                *)
LEMMA AskServed ==
    ASSUME TypeOK, SerialInv, NEW u \in User, NEW p \in Post, Alone(u, p), InAsk(u, p),
           Unseen(p), RealtimeStep(u)
    PROVE  SerialInv'
<1>0. PICK d, s : d = recruit[p] /\ s = members[p]
  OBVIOUS
<1> DEFINE w == SetRecruit(p, NoRecruit)
           a == Rt(u, "getUser", p)
           c == SetCount(u, p, Len(s) - 1)
           e == Rt(u, "removeGroup", p)
<1>1. /\ rt[u] = <<Rt(u, "getGroup", p)>> /\ fs[u] = <<>> /\ asked[u] = NothingAsked
      /\ Running(p) /\ Holds(u, p)
  BY DEF InAsk, InRead
<1>2. rt[u] # <<>> /\ Head(rt[u]) = Rt(u, "getGroup", p) /\ Tail(rt[u]) = <<>>
  BY <1>1, HasRequest, Ends
<1>3. Head(rt[u]).op = "getGroup" /\ Head(rt[u]).post = p
  BY <1>2, RtFields DEF RtKind
<1>4. GotGroup(u)
  BY <1>3, ServeReads
<1>5. /\ Tells(d, s, p) /\ s # Nil /\ p \notin removed /\ group[p].name /\ group[p].cur = Len(s)
      /\ Listed(p) = Those(s) /\ u \in Those(s)
  BY <1>0, <1>1, ListedMoves DEF Running, Room
<1>6. d \in Recruit /\ s \in Seq(User) /\ Len(s) \in Nat /\ Len(s) # 0
  BY <1>5, EmptySeq DEF Tells
<1>7. Len(s) # Nil
  BY <1>6, RecruitmentAssumption
<1>8. /\ UNCHANGED servers /\ UNCHANGED <<seats, removed>>
      /\ UNCHANGED <<page, chat, crashed>>
      /\ \/ /\ Len(s) = 1 /\ asked' = Ask(u, {"close"}, p) /\ fs' = Queue(fs, u, <<w>>)
            /\ rt' = Then(u, <<e>>)
         \/ /\ Len(s) # 1 /\ asked' = Ask(u, {"remove", "decrement"}, p) /\ fs' = fs
            /\ rt' = Then(u, <<a, c>>)
  BY <1>3, <1>4, <1>5, <1>7 DEF GotGroup, history, screens
<1>9. Elsewhere(p)
  BY <1>8, Same
<1>10. recruit'[p] = d /\ members'[p] = s /\ group'[p] = group[p] /\ Listed(p)' = Listed(p)
       /\ removed' = removed /\ seats' = seats
  BY <1>0, <1>8 DEF servers, Listed
<1>11. Tells(d, s, p)'
  BY <1>5, <1>10 DEF Tells
<1> HIDE DEF w, a, c, e
<1>12. ASSUME Len(s) = 1, asked' = Ask(u, {"close"}, p), fs' = Queue(fs, u, <<w>>),
              rt' = Then(u, <<e>>)
       PROVE  InEnd(u, p, "close")' /\ Mine(u)
  <2>1. fs'[u] = <<w>> /\ \A v \in User \ {u} : fs'[v] = fs[v]
    BY <1>1, <1>12, FirstQueued
  <2>2. /\ asked'[u] = Asked(p, "queued", "none", "asked", "close")
        /\ \A v \in User \ {u} : asked'[v] = asked[v]
    BY <1>1, <1>12, AskedFor
  <2>3. rt'[u] = <<>> \o <<e>> /\ \A v \in User \ {u} : rt'[v] = rt[v]
    BY <1>2, <1>12, Concats
  <2>4. rt'[u] = <<e>>
    BY <2>3, Joined
  <2>5. Queued(fs'[u], "queued", w, "asked", SetMembers(p, Nil))
    BY <2>1 DEF Queued
  <2>6. Half(u, p, "queued", EndDoc(p, d), "asked", EndList("close", s))'
    <3>1. /\ EndDoc(p, d).old = d /\ EndDoc(p, d).read = "none" /\ EndDoc(p, d).write = w
          /\ EndList("close", s).old = s /\ EndList("close", s).read = "close"
          /\ EndList("close", s).new = Nil
      BY DEF EndDoc, EndList, DocPlan, ListPlan, w
    <3> QED
      BY <1>10, <2>2, <2>5, <3>1 DEF Half
  <2>7. e.op = "removeGroup" /\ e.post = p
    BY RtFields DEF RtKind, e
  <2>8. Len(<<e>>) = 1 /\ <<e>>[1] = e /\ <<e>> # <<>>
    OBVIOUS
  <2>9. \A i \in 1..1 : i = 1
    OBVIOUS
  <2>10. Walk(u, p, "close")'
    BY <2>4, <2>7, <2>8, <2>9 DEF Walk
  <2>11. Apart(rt[u])' /\ Removing(rt'[u])
    BY <2>4, <2>7, <2>8, <2>9 DEF Apart, Removing
  <2>12. EndRt(u, p, "close", s, "asked")'
    BY <1>5, <1>10, <2>4, <2>7, <2>8, <2>9, <2>10, <2>11 DEF EndRt
  <2>13. (p \in removed)' = ("close" = "delete")
    BY <1>5, <1>10
  <2>14. Mine(u)
    BY <2>1, <2>2, <2>3 DEF Mine
  <2>15. "queued" \in {"queued", "done"} /\ "asked" \in Stage
    BY DEF Stage
  <2> QED
    BY <1>6, <1>11, <2>6, <2>12, <2>13, <2>14, <2>15 DEF InEnd
<1>13. ASSUME Len(s) # 1, asked' = Ask(u, {"remove", "decrement"}, p), fs' = fs,
              rt' = Then(u, <<a, c>>)
       PROVE  InExit(u, p)' /\ Mine(u)
  <2>1. /\ asked'[u] = Asked(p, "asked", "decrement", "asked", "remove")
        /\ \A v \in User \ {u} : asked'[v] = asked[v]
    BY <1>1, <1>13, AskedFor
  <2>2. rt'[u] = <<>> \o <<a, c>> /\ \A v \in User \ {u} : rt'[v] = rt[v]
    BY <1>2, <1>13, Concats
  <2>3. rt'[u] = <<a, c>>
    <3>1. <<a, c>> \in Seq({a, c})
      OBVIOUS
    <3> QED
      BY <2>2, <3>1, ConcatEmptySeq
  <2>4. Queued(fs'[u], "asked", ExitDoc(p, d).write, "asked", SetMembers(p, ExitList(u, s).new))
    BY <1>1, <1>13 DEF Queued
  <2>5. Half(u, p, "asked", ExitDoc(p, d), "asked", ExitList(u, s))'
    <3>1. /\ ExitDoc(p, d).old = d /\ ExitDoc(p, d).read = "decrement"
          /\ ExitList(u, s).old = s /\ ExitList(u, s).read = "remove"
      BY DEF ExitDoc, ExitList, DocPlan, ListPlan
    <3> QED
      BY <1>10, <2>1, <2>4, <3>1 DEF Half
  <2>6. Room(p, Len(s), Those(s))'
    BY <1>5, <1>10 DEF Room
  <2>7. ExitRt(u, p, s)'
    BY <2>3, <2>6 DEF ExitRt, a, c
  <2>8. Mine(u)
    BY <1>13, <2>1, <2>2 DEF Mine
  <2>9. Len(s) > 1 /\ "asked" \in Stage
    <3>1. PICK n \in Nat : n = Len(s) /\ n # 0 /\ n # 1
      BY <1>6, <1>13
    <3>2. n > 1
      BY <3>1
    <3> QED
      BY <3>1, <3>2 DEF Stage
  <2>10. /\ Tells(d, s, p)' /\ (p \notin removed)' /\ u \in Those(s) /\ Len(s) > 1
         /\ Half(u, p, "asked", ExitDoc(p, d), "asked", ExitList(u, s))' /\ ExitRt(u, p, s)'
    BY <1>5, <1>10, <1>11, <2>5, <2>7, <2>9
  <2>11. InExit(u, p)'
    BY <1>6, <2>9, <2>10 DEF InExit
  <2> QED
    BY <2>8, <2>11
<1>14. Chain(u, p)' /\ Mine(u)
  BY <1>8, <1>12, <1>13 DEF Chain
<1>15. Onward(u, p)
  BY <1>2, <1>3, <1>8, <1>9, <1>14 DEF Onward
<1> QED
  BY <1>14, <1>15, Moved DEF Alone

LEMMA RealtimeKept ==
    ASSUME TypeOK, SerialInv, NEW v \in User, RealtimeStep(v)
    PROVE  SerialInv'
<1>1. rt[v] # <<>>
  BY HasRequest
<1>2. PICK u \in User, p \in Post : Alone(u, p)
  BY <1>1 DEF SerialInv, AtRest, Quiet, Idle
<1>3. v = u
  BY <1>1, <1>2 DEF Alone, Idle
<1>4. RealtimeStep(u) /\ rt[u] # <<>>
  BY <1>1, <1>3
<1>5. ASSUME Chain(u, p)', Onward(u, p), Unseen(p)
      PROVE  SerialInv'
  BY <1>2, <1>5, Moved DEF Alone
<1>6. CASE InCheck(u, p)
  BY <1>2, <1>4, <1>6, CheckServed
<1>7. CASE InEdit(u, p)
  BY <1>4, <1>7 DEF InEdit
<1>8. CASE Unseen(p) /\ InCreate(u, p)
  <2>1. PICK m \in Nat \ {0}, x \in {"queued", "done"}, y \in {"queued", "done"} :
          /\ seats[p] = m /\ p \notin removed
          /\ Half(u, p, x, CreateDoc(u, p, m), y, CreateList(u)) /\ CreateRt(u, p)
    BY <1>8 DEF InCreate
  <2>2. CreateRt(u, p)' /\ Onward(u, p) /\ Beside /\ Firestore
    BY <1>4, <2>1, CreateServed
  <2>3. Half(u, p, x, CreateDoc(u, p, m), y, CreateList(u))'
    BY <2>1, <2>2 DEF Half, Firestore
  <2>4. InCreate(u, p)'
    BY <2>1, <2>2, <2>3 DEF InCreate, Beside
  <2> QED
    BY <1>5, <1>8, <2>2, <2>4 DEF Chain
<1>9. CASE Unseen(p) /\ InJoin(u, p)
  <2>1. PICK d \in Recruit, s \in Seq(User), x \in {"queued", "done"}, y \in Stage :
          /\ Tells(d, s, p) /\ p \notin removed /\ u \notin Those(s) /\ Len(s) < seats[p]
          /\ Half(u, p, x, JoinDoc(p, d), y, JoinList(u, s)) /\ JoinRt(u, p, s)
    BY <1>9 DEF InJoin
  <2>2. JoinRt(u, p, s)' /\ Onward(u, p) /\ Beside /\ Firestore
    BY <1>4, <2>1, JoinServed
  <2>3. Half(u, p, x, JoinDoc(p, d), y, JoinList(u, s))'
    BY <2>1, <2>2 DEF Half, Firestore
  <2>4. Tells(d, s, p)' /\ seats' = seats /\ removed' = removed
    BY <2>1, <2>2 DEF Tells, Beside
  <2>5. InJoin(u, p)'
    BY <2>1, <2>2, <2>3, <2>4 DEF InJoin
  <2> QED
    BY <1>5, <1>9, <2>2, <2>5 DEF Chain
<1>10. CASE Unseen(p) /\ InAsk(u, p)
  BY <1>2, <1>4, <1>10, AskServed
<1>11. CASE Unseen(p) /\ InExit(u, p)
  <2>1. PICK d \in Recruit, s \in Seq(User), x \in Stage, y \in Stage :
          /\ Tells(d, s, p) /\ p \notin removed /\ u \in Those(s) /\ Len(s) > 1
          /\ Half(u, p, x, ExitDoc(p, d), y, ExitList(u, s)) /\ ExitRt(u, p, s)
    BY <1>11 DEF InExit
  <2>2. ExitRt(u, p, s)' /\ Onward(u, p) /\ Beside /\ Firestore
    BY <1>4, <2>1, ExitServed
  <2>3. Half(u, p, x, ExitDoc(p, d), y, ExitList(u, s))'
    BY <2>1, <2>2 DEF Half, Firestore
  <2>4. Tells(d, s, p)' /\ removed' = removed
    BY <2>1, <2>2 DEF Tells, Beside
  <2>5. InExit(u, p)'
    BY <2>1, <2>2, <2>3, <2>4 DEF InExit
  <2> QED
    BY <1>5, <1>11, <2>2, <2>5 DEF Chain
<1>12. ASSUME NEW k \in {"delete", "close"}, Unseen(p), InEnd(u, p, k)
       PROVE  SerialInv'
  <2>1. PICK d \in Recruit, s \in Seq(User), x \in {"queued", "done"}, y \in Stage :
          /\ Tells(d, s, p) /\ (p \in removed) = (k = "delete")
          /\ Half(u, p, x, EndDoc(p, d), y, EndList(k, s)) /\ EndRt(u, p, k, s, y)
    BY <1>12 DEF InEnd
  <2>2. EndRt(u, p, k, s, y)' /\ Onward(u, p) /\ Beside /\ Firestore
    BY <1>4, <2>1, EndServed
  <2>3. Half(u, p, x, EndDoc(p, d), y, EndList(k, s))'
    BY <2>1, <2>2 DEF Half, Firestore
  <2>4. Tells(d, s, p)' /\ removed' = removed
    BY <2>1, <2>2 DEF Tells, Beside
  <2>5. InEnd(u, p, k)'
    BY <2>1, <2>2, <2>3, <2>4 DEF InEnd
  <2> QED
    BY <1>5, <1>12, <2>2, <2>5 DEF Chain
<1> QED
  BY <1>2, <1>6, <1>7, <1>8, <1>9, <1>10, <1>11, <1>12 DEF Alone, Acting
-----------------------------------------------------------------------------
(* Firestore commits a write of an operation.                              *)

LEMMA OnwardFs ==
    ASSUME NEW u \in User, NEW p \in Post,
           UNCHANGED <<group, userGroups, page, chat, seats, removed, crashed>>,
           \A v \in User \ {u} : rt'[v] = rt[v] /\ fs'[v] = fs[v] /\ asked'[v] = asked[v],
           \/ rt'[u] = rt[u]
           \/ rt[u] = <<>>
           \/ Head(rt[u]).post = p,
           \A q \in Post \ {p} : recruit'[q] = recruit[q] /\ members'[q] = members[q]
    PROVE  Onward(u, p)
BY DEF Onward, Elsewhere, Mine, Holds

LEMMA Committed ==
    ASSUME TypeOK, NEW u \in User, NEW p \in Post, NEW x \in Stage, NEW y \in Stage,
           NEW a, NEW b, Half(u, p, x, a, y, b), Changes(a.write, p, a.old, a.new),
           Commit(u)
    PROVE  /\ Onward(u, p) /\ UNCHANGED <<rt, seats, removed, group, userGroups, page, chat>>
           /\ \/ x = "queued" /\ Half(u, p, "done", a, y, b)'
              \/ y = "queued" /\ Half(u, p, x, a, "done", b)'
           /\ \/ recruit'[p] = recruit[p]
              \/ recruit[p] = a.old /\ recruit'[p] = a.new
<1>1. /\ UNCHANGED <<group, userGroups, page, chat, seats, removed, crashed, rt, asked>>
      /\ \A v \in User \ {u} : fs'[v] = fs[v]
  BY DEF Commit, TypeOK, screens, history
<1>2. \/ /\ x = "queued" /\ Half(u, p, "done", a, y, b)'
         /\ recruit' = [recruit EXCEPT ![p] = a.new] /\ UNCHANGED members
      \/ /\ y = "queued" /\ Half(u, p, x, a, "done", b)'
         /\ members' = [members EXCEPT ![p] = b.new] /\ UNCHANGED recruit
  BY HalfCommit
<1>3. \A q \in Post \ {p} : recruit'[q] = recruit[q] /\ members'[q] = members[q]
  BY <1>2 DEF TypeOK
<1>4. Onward(u, p)
  BY <1>1, <1>3, OnwardFs
<1>5. \/ recruit'[p] = recruit[p]
      \/ recruit[p] = a.old /\ recruit'[p] = a.new
  BY <1>2 DEF Half, TypeOK
<1> QED
  BY <1>1, <1>2, <1>4, <1>5

(* The writes of the operations do what their plans say.                   *)
LEMMA Plans ==
    ASSUME NEW p \in Post
    PROVE  /\ \A u \in User : \A m \in Int :
                 Changes(CreateDoc(u, p, m).write, p, CreateDoc(u, p, m).old,
                         CreateDoc(u, p, m).new)
           /\ \A d \in Recruit : d.cur \in Int =>
                 Changes(JoinDoc(p, d).write, p, JoinDoc(p, d).old, JoinDoc(p, d).new)
           /\ \A d \in Recruit : \A m \in Int :
                 Changes(EditDoc(p, d, m).write, p, EditDoc(p, d, m).old, EditDoc(p, d, m).new)
           /\ \A d \in Recruit : d.cur \in Int =>
                 Changes(ExitDoc(p, d).write, p, ExitDoc(p, d).old, ExitDoc(p, d).new)
           /\ \A d \in Recruit :
                 Changes(EndDoc(p, d).write, p, EndDoc(p, d).old, EndDoc(p, d).new)
<1>1. ASSUME NEW u \in User, NEW m \in Int
      PROVE  Changes(CreateDoc(u, p, m).write, p, CreateDoc(u, p, m).old, CreateDoc(u, p, m).new)
  BY DEF Changes, CreateDoc, DocPlan, SetRecruit
<1>2. ASSUME NEW d \in Recruit, d.cur \in Int
      PROVE  Changes(JoinDoc(p, d).write, p, JoinDoc(p, d).old, JoinDoc(p, d).new)
  <2> DEFINE f == [NoRecruit EXCEPT !.cur = d.cur + 1]
             e == Raised(d)
  <2>1. f.uid = Nil /\ f.cur = d.cur + 1 /\ f.max = Nil /\ f.cur # Nil
    BY <1>2, RecruitmentAssumption DEF NoRecruit
  <2>2. e = [uid |-> d.uid, cur |-> d.cur + 1, max |-> d.max]
    BY DEF Raised, Recruit
  <2> HIDE DEF e, f
  <2>3. Merged(d, f) = e
    BY <2>1, <2>2 DEF Merged
  <2>4. /\ JoinDoc(p, d).write = MergeRecruit(p, f) /\ JoinDoc(p, d).old = d
        /\ JoinDoc(p, d).new = e
    BY DEF JoinDoc, DocPlan, e, f
  <2>5. /\ MergeRecruit(p, f).doc = "recruit" /\ MergeRecruit(p, f).post = p
        /\ MergeRecruit(p, f).merge = TRUE /\ MergeRecruit(p, f).fields = f
    BY DEF MergeRecruit, SetRecruit
  <2> QED
    BY <2>3, <2>4, <2>5 DEF Changes
<1>3. ASSUME NEW d \in Recruit, NEW m \in Int
      PROVE  Changes(EditDoc(p, d, m).write, p, EditDoc(p, d, m).old, EditDoc(p, d, m).new)
  <2> DEFINE f == [uid |-> Nil, cur |-> d.cur, max |-> m]
             e == [d EXCEPT !.max = m]
  <2>1. f.uid = Nil /\ f.cur = d.cur /\ f.max = m /\ f.max # Nil
    BY RecruitmentAssumption
  <2>2. e = [uid |-> d.uid, cur |-> d.cur, max |-> m]
    BY DEF Recruit
  <2> HIDE DEF e, f
  <2>3. Merged(d, f) = e
    BY <2>1, <2>2 DEF Merged
  <2>4. /\ EditDoc(p, d, m).write = MergeRecruit(p, f) /\ EditDoc(p, d, m).old = d
        /\ EditDoc(p, d, m).new = e
    BY DEF EditDoc, DocPlan, e, f
  <2>5. /\ MergeRecruit(p, f).doc = "recruit" /\ MergeRecruit(p, f).post = p
        /\ MergeRecruit(p, f).merge = TRUE /\ MergeRecruit(p, f).fields = f
    BY DEF MergeRecruit, SetRecruit
  <2> QED
    BY <2>3, <2>4, <2>5 DEF Changes
<1>4. ASSUME NEW d \in Recruit
      PROVE  /\ Changes(ExitDoc(p, d).write, p, ExitDoc(p, d).old, ExitDoc(p, d).new)
             /\ Changes(EndDoc(p, d).write, p, EndDoc(p, d).old, EndDoc(p, d).new)
  BY DEF Changes, ExitDoc, EndDoc, DocPlan, SetRecruit
<1> QED
  BY <1>1, <1>2, <1>3, <1>4

(* The room and the chat lists do not change with Firestore.               *)
LEMMA RoomStays ==
    ASSUME NEW u \in User, NEW p \in Post, rt'[u] = rt[u], UNCHANGED <<group, userGroups>>
    PROVE  /\ \A n, w : Room(p, n, w)' <=> Room(p, n, w)
           /\ CreateRt(u, p) => CreateRt(u, p)'
           /\ \A s : JoinRt(u, p, s) => JoinRt(u, p, s)'
           /\ \A s : ExitRt(u, p, s) => ExitRt(u, p, s)'
           /\ \A k, s, y, z : EndRt(u, p, k, s, y) /\ (z = "asked" => y = "asked")
                 /\ (y = "asked" => z = "asked") => EndRt(u, p, k, s, z)'
<1>1. Listed(p)' = Listed(p) /\ \A v : Holds(v, p)' = Holds(v, p)
  BY DEF Listed, Holds
<1>2. \A n, w : Room(p, n, w)' <=> Room(p, n, w)
  BY <1>1 DEF Room
<1>3. Unlisting(u, p)' = Unlisting(u, p)
  BY DEF Unlisting, SetGroups, Rt
<1>4. CreateRt(u, p) => CreateRt(u, p)'
  BY <1>1 DEF CreateRt
<1>5. \A s : JoinRt(u, p, s) => JoinRt(u, p, s)'
  BY <1>2 DEF JoinRt
<1>6. \A s : ExitRt(u, p, s) => ExitRt(u, p, s)'
  BY <1>2, <1>3 DEF ExitRt
<1>7. ASSUME NEW k, NEW s, NEW y, NEW z, EndRt(u, p, k, s, y), z = "asked" <=> y = "asked"
      PROVE  EndRt(u, p, k, s, z)'
  <2>1. Walk(u, p, k)'
    BY <1>1, <1>7 DEF EndRt, Walk
  <2> QED
    BY <1>1, <1>7, <2>1 DEF EndRt
<1> QED
  BY <1>2, <1>4, <1>5, <1>6, <1>7

(* An edit is written: the page that made it is up to date.                *)
LEMMA EditCommitted ==
    ASSUME TypeOK, SerialInv, NEW u \in User, NEW p \in Post, Alone(u, p), InEdit(u, p),
           Commit(u)
    PROVE  SerialInv'
<1>1. PICK m \in Nat, d \in Recruit, s \in Seq(User), x \in {"queued", "done"} :
        /\ seats[p] = m /\ p \notin removed
        /\ d.max \in Int /\ Tells([d EXCEPT !.max = m], s, p)
        /\ Half(u, p, x, EditDoc(p, d, m), "done", ListPlan("none", s, s))
        /\ rt[u] = <<>> /\ Room(p, Len(s), Those(s))
  BY DEF InEdit
<1>2. Changes(EditDoc(p, d, m).write, p, EditDoc(p, d, m).old, EditDoc(p, d, m).new)
  BY <1>1, Plans
<1>3. /\ EditDoc(p, d, m).old = d /\ EditDoc(p, d, m).new = [d EXCEPT !.max = m]
  BY DEF EditDoc, DocPlan
<1>4. x \in Stage /\ "done" \in Stage /\ "done" # "queued"
  BY DEF Stage
<1>5. /\ Onward(u, p) /\ UNCHANGED <<rt, seats, removed, group, userGroups, page, chat>>
      /\ Half(u, p, "done", EditDoc(p, d, m), "done", ListPlan("none", s, s))'
      /\ \/ recruit'[p] = recruit[p]
         \/ recruit[p] = d /\ recruit'[p] = [d EXCEPT !.max = m]
  BY <1>1, <1>2, <1>3, <1>4, Committed
<1>6. recruit'[p].uid = recruit[p].uid /\ recruit'[p].cur = recruit[p].cur
  <2> DEFINE e == [d EXCEPT !.max = m]
  <2>1. e.uid = d.uid /\ e.cur = d.cur
    BY DEF Recruit
  <2> HIDE DEF e
  <2> QED
    BY <1>5, <2>1 DEF e
<1>7. InEdit(u, p)'
  <2>1. Tells([d EXCEPT !.max = m], s, p)'
    BY <1>1, <1>5 DEF Tells
  <2>2. Room(p, Len(s), Those(s))'
    BY <1>1, <1>5, RoomStays
  <2> QED
    BY <1>1, <1>5, <2>1, <2>2 DEF InEdit
<1>8. (\A v \in User \ {u} : Idle(v)') /\ (\A q \in Post \ {p} : Story(q)')
  BY <1>5, OthersStay DEF Onward, Alone
<1>9. Alone(u, p)'
  BY <1>7, <1>8 DEF Alone, Acting
<1>10. ASSUME NEW v \in User, page[v] # Nil PROVE FreshPage(v)'
  <2>1. FreshPage(v) /\ page[v].post \in Post
    BY <1>10 DEF SerialInv, Screens, TypeOK, Page
  <2>2. /\ recruit'[page[v].post].uid = recruit[page[v].post].uid
        /\ recruit'[page[v].post].cur = recruit[page[v].post].cur
    BY <1>5, <1>6, <2>1 DEF Onward, Elsewhere
  <2> QED
    BY <1>5, <2>1, <2>2 DEF FreshPage, Holds
<1>11. Screens'
  BY <1>5, <1>10 DEF SerialInv, Screens, Looks, Holds
<1> QED
  BY <1>5, <1>9, <1>11 DEF SerialInv, NoCrash, Onward

LEMMA CommitKept ==
    ASSUME TypeOK, SerialInv, NEW v \in User, Commit(v)
    PROVE  SerialInv'
<1>1. fs[v] # <<>>
  BY DEF Commit
<1>2. PICK u \in User, p \in Post : Alone(u, p)
  BY <1>1 DEF SerialInv, AtRest, Quiet, Idle
<1>3. v = u
  BY <1>1, <1>2 DEF Alone, Idle
<1>4. Commit(u) /\ fs[u] # <<>>
  BY <1>1, <1>3
<1>5. ASSUME Chain(u, p)', Onward(u, p), Unseen(p)
      PROVE  SerialInv'
  BY <1>2, <1>5, Moved DEF Alone
<1>6. CASE InCheck(u, p) \/ InAsk(u, p)
  BY <1>4, <1>6 DEF InCheck, InAsk, InRead
<1>7. CASE InEdit(u, p)
  BY <1>2, <1>4, <1>7, EditCommitted
<1>20. "queued" \in Stage /\ "done" \in Stage
  BY DEF Stage
<1>8. CASE Unseen(p) /\ InCreate(u, p)
  <2>1. PICK m \in Nat \ {0}, x \in {"queued", "done"}, y \in {"queued", "done"} :
          /\ seats[p] = m /\ p \notin removed
          /\ Half(u, p, x, CreateDoc(u, p, m), y, CreateList(u)) /\ CreateRt(u, p)
    BY <1>8 DEF InCreate
  <2>2. Changes(CreateDoc(u, p, m).write, p, CreateDoc(u, p, m).old, CreateDoc(u, p, m).new)
    BY Plans
  <2>3. x \in Stage /\ y \in Stage
    BY DEF Stage
  <2>4. /\ Onward(u, p) /\ UNCHANGED <<rt, seats, removed, group, userGroups, page, chat>>
        /\ \/ Half(u, p, "done", CreateDoc(u, p, m), y, CreateList(u))'
           \/ Half(u, p, x, CreateDoc(u, p, m), "done", CreateList(u))'
    BY <1>4, <2>1, <2>2, <2>3, Committed
  <2>5. CreateRt(u, p)'
    BY <2>1, <2>4, RoomStays
  <2>6. InCreate(u, p)'
    BY <2>1, <2>4, <2>5 DEF InCreate
  <2> QED
    BY <1>5, <1>8, <2>4, <2>6 DEF Chain
<1>9. CASE Unseen(p) /\ InJoin(u, p)
  <2>1. PICK d \in Recruit, s \in Seq(User), x \in {"queued", "done"}, y \in Stage :
          /\ Tells(d, s, p) /\ p \notin removed /\ u \notin Those(s) /\ Len(s) < seats[p]
          /\ Half(u, p, x, JoinDoc(p, d), y, JoinList(u, s)) /\ JoinRt(u, p, s)
    BY <1>9 DEF InJoin
  <2>2. Changes(JoinDoc(p, d).write, p, JoinDoc(p, d).old, JoinDoc(p, d).new)
    <3>1. d.cur \in Int
      BY <2>1, LenProperties DEF Tells
    <3> QED
      BY <3>1, Plans
  <2>3. x \in Stage
    BY DEF Stage
  <2>4. /\ Onward(u, p) /\ UNCHANGED <<rt, seats, removed, group, userGroups, page, chat>>
        /\ \/ Half(u, p, "done", JoinDoc(p, d), y, JoinList(u, s))'
           \/ Half(u, p, x, JoinDoc(p, d), "done", JoinList(u, s))'
    BY <1>4, <2>1, <2>2, <2>3, Committed
  <2>5. JoinRt(u, p, s)'
    BY <2>1, <2>4, RoomStays
  <2>6. Tells(d, s, p)' /\ (p \notin removed)' /\ u \notin Those(s) /\ (Len(s) < seats[p])'
    BY <2>1, <2>4 DEF Tells
  <2>7. InJoin(u, p)'
    BY <1>20, <2>4, <2>5, <2>6 DEF InJoin
  <2> QED
    BY <1>5, <1>9, <2>4, <2>7 DEF Chain
<1>11. CASE Unseen(p) /\ InExit(u, p)
  <2>1. PICK d \in Recruit, s \in Seq(User), x \in Stage, y \in Stage :
          /\ Tells(d, s, p) /\ p \notin removed /\ u \in Those(s) /\ Len(s) > 1
          /\ Half(u, p, x, ExitDoc(p, d), y, ExitList(u, s)) /\ ExitRt(u, p, s)
    BY <1>11 DEF InExit
  <2>2. Changes(ExitDoc(p, d).write, p, ExitDoc(p, d).old, ExitDoc(p, d).new)
    <3>1. d.cur \in Int
      BY <2>1, LenProperties DEF Tells
    <3> QED
      BY <3>1, Plans
  <2>4. /\ Onward(u, p) /\ UNCHANGED <<rt, seats, removed, group, userGroups, page, chat>>
        /\ \/ Half(u, p, "done", ExitDoc(p, d), y, ExitList(u, s))'
           \/ Half(u, p, x, ExitDoc(p, d), "done", ExitList(u, s))'
    BY <1>4, <2>1, <2>2, Committed
  <2>5. ExitRt(u, p, s)'
    BY <2>1, <2>4, RoomStays
  <2>6. Tells(d, s, p)' /\ (p \notin removed)' /\ u \in Those(s) /\ Len(s) > 1
    BY <2>1, <2>4 DEF Tells
  <2>7. InExit(u, p)'
    BY <1>20, <2>4, <2>5, <2>6 DEF InExit
  <2> QED
    BY <1>5, <1>11, <2>4, <2>7 DEF Chain
<1>12. ASSUME NEW k \in {"delete", "close"}, Unseen(p), InEnd(u, p, k)
       PROVE  SerialInv'
  <2>1. PICK d \in Recruit, s \in Seq(User), x \in {"queued", "done"}, y \in Stage :
          /\ Tells(d, s, p) /\ (p \in removed) = (k = "delete")
          /\ Half(u, p, x, EndDoc(p, d), y, EndList(k, s)) /\ EndRt(u, p, k, s, y)
    BY <1>12 DEF InEnd
  <2>2. Changes(EndDoc(p, d).write, p, EndDoc(p, d).old, EndDoc(p, d).new)
    BY Plans
  <2>3. x \in Stage
    BY DEF Stage
  <2>4. /\ Onward(u, p) /\ UNCHANGED <<rt, seats, removed, group, userGroups, page, chat>>
        /\ \/ Half(u, p, "done", EndDoc(p, d), y, EndList(k, s))'
           \/ y = "queued" /\ Half(u, p, x, EndDoc(p, d), "done", EndList(k, s))'
    BY <1>4, <2>1, <2>2, <2>3, Committed
  <2>5. EndRt(u, p, k, s, y)' /\ (y = "queued" => EndRt(u, p, k, s, "done")')
    BY <2>1, <2>4, RoomStays
  <2>6. Tells(d, s, p)' /\ (p \in removed)' = (k = "delete")
    BY <2>1, <2>4 DEF Tells
  <2>7. InEnd(u, p, k)'
    BY <1>20, <2>4, <2>5, <2>6 DEF InEnd
  <2> QED
    BY <1>5, <1>12, <2>4, <2>7 DEF Chain
<1> QED
  BY <1>2, <1>6, <1>7, <1>8, <1>9, <1>11, <1>12 DEF Alone, Acting
-----------------------------------------------------------------------------
(* Firestore answers a read of an operation.                               *)

LEMMA AnsweredOthers ==
    ASSUME TypeOK, NEW u \in User
    PROVE  /\ \A k, p : \A v \in User \ {u} : Answered(u, k, p)[v] = asked[v]
           /\ \A w : \A v \in User \ {u} : Queue(fs, u, w)[v] = fs[v]
           /\ \A w : \A v \in User \ {u} : Queue(rt, u, w)[v] = rt[v]
           /\ \A w : Queue(rt, u, w)[u] = rt[u] \o w
BY DEF Answered, Queue, TypeOK

LEMMA JoinAnswered ==
    ASSUME TypeOK, SerialInv, NEW u \in User, NEW p \in Post, Alone(u, p), Unseen(p),
           InJoin(u, p), NEW q \in Post, FirestoreAnswer(u, q)
    PROVE  SerialInv'
<1>1. PICK d \in Recruit, s \in Seq(User), x \in {"queued", "done"}, y \in Stage :
        /\ Tells(d, s, p) /\ p \notin removed /\ u \notin Those(s) /\ Len(s) < seats[p]
        /\ Half(u, p, x, JoinDoc(p, d), y, JoinList(u, s)) /\ JoinRt(u, p, s)
  BY DEF InJoin
<1>2. /\ JoinDoc(p, d).read = "none" /\ JoinList(u, s).read = "append"
      /\ JoinList(u, s).old = s /\ JoinList(u, s).new = Append(s, u)
      /\ x \in Stage /\ x # "asked"
  BY DEF JoinDoc, JoinList, DocPlan, ListPlan, Stage
<1>3. \A kind \in ReadKind : asked[u][<<kind, q>>] > 0 =>
          q = p /\ y = "asked" /\ kind = "append"
  <2> SUFFICES ASSUME NEW kind \in ReadKind, asked[u][<<kind, q>>] > 0
               PROVE  q = p /\ y = "asked" /\ kind = "append"
    OBVIOUS
  <2>1. Half(u, p, x, JoinDoc(p, d), y, JoinList(u, s)) /\ x \in Stage
    BY <1>1, <1>2
  <2>2. q = p /\ ((x = "asked" /\ kind = JoinDoc(p, d).read)
                  \/ (y = "asked" /\ kind = JoinList(u, s).read))
    BY <2>1, HalfAsks
  <2> QED
    BY <1>2, <2>2
<1>4. AnswerAppend(u, q) /\ q = p /\ y = "asked"
  BY <1>3 DEF FirestoreAnswer, AnswerAppend, AnswerRemove, AnswerDecrement, AnswerMembers,
              Answers, ReadKind
<1>5. members[p] = s /\ s # Nil
  BY <1>1, <1>2, <1>4, RecruitmentAssumption DEF Half
<1>6. /\ fs' = Queue(fs, u, <<SetMembers(p, Append(s, u))>>)
      /\ asked' = Answered(u, "append", p)
      /\ UNCHANGED <<recruit, members, group, userGroups, page, chat, rt, seats, removed, crashed>>
  BY <1>4, <1>5 DEF AnswerAppend, servers, screens, history
<1>7. Half(u, p, x, JoinDoc(p, d), "queued", JoinList(u, s))'
  <2>1. Half(u, p, x, JoinDoc(p, d), "asked", JoinList(u, s)) /\ "none" # "append"
    BY <1>1, <1>4
  <2> QED
    BY <1>2, <1>6, <2>1, HalfListAnswered
<1>8. Onward(u, p)
  <2>1. \A v \in User \ {u} : fs'[v] = fs[v] /\ asked'[v] = asked[v]
    BY <1>6, AnsweredOthers
  <2>2. UNCHANGED <<recruit, members, group, userGroups, page, chat, rt, seats, removed, crashed>>
    BY <1>6
  <2> QED
    BY <2>1, <2>2, OnwardFs
<1>9. JoinRt(u, p, s)'
  BY <1>1, <1>6, RoomStays
<1>10. Tells(d, s, p)' /\ (p \notin removed)' /\ u \notin Those(s) /\ (Len(s) < seats[p])'
  BY <1>1, <1>6 DEF Tells
<1>11. InJoin(u, p)'
  <2>1. "queued" \in Stage
    BY DEF Stage
  <2> QED
    BY <1>7, <1>9, <1>10, <2>1 DEF InJoin
<1> QED
  BY <1>8, <1>11, Moved DEF Alone, Chain

LEMMA ExitAnswered ==
    ASSUME TypeOK, SerialInv, NEW u \in User, NEW p \in Post, Alone(u, p), Unseen(p),
           InExit(u, p), NEW q \in Post, FirestoreAnswer(u, q)
    PROVE  SerialInv'
<1>1. PICK d \in Recruit, s \in Seq(User), x \in Stage, y \in Stage :
        /\ Tells(d, s, p) /\ p \notin removed /\ u \in Those(s) /\ Len(s) > 1
        /\ Half(u, p, x, ExitDoc(p, d), y, ExitList(u, s)) /\ ExitRt(u, p, s)
  BY DEF InExit
<1>2. /\ ExitDoc(p, d).read = "decrement" /\ ExitList(u, s).read = "remove"
      /\ ExitDoc(p, d).old = d /\ ExitDoc(p, d).write = SetRecruit(p, LoweredByOne(d))
      /\ ExitList(u, s).old = s /\ ExitList(u, s).new = WithoutFirst(s, u)
  BY DEF ExitDoc, ExitList, DocPlan, ListPlan
<1>3. \A kind \in ReadKind : asked[u][<<kind, q>>] > 0 =>
          q = p /\ ((x = "asked" /\ kind = "decrement") \/ (y = "asked" /\ kind = "remove"))
  BY <1>1, <1>2, HalfAsks
<1>4. q = p /\ ((x = "asked" /\ AnswerDecrement(u, q)) \/ (y = "asked" /\ AnswerRemove(u, q)))
  BY <1>3 DEF FirestoreAnswer, AnswerAppend, AnswerRemove, AnswerDecrement, AnswerMembers,
              Answers, ReadKind
<1>5. "queued" \in Stage
  BY DEF Stage
<1>6. ASSUME UNCHANGED <<recruit, members, group, userGroups, page, chat, rt, seats, removed, crashed>>,
             \A v \in User \ {u} : fs'[v] = fs[v] /\ asked'[v] = asked[v],
             \/ Half(u, p, "queued", ExitDoc(p, d), y, ExitList(u, s))'
             \/ Half(u, p, x, ExitDoc(p, d), "queued", ExitList(u, s))'
      PROVE  SerialInv'
  <2>1. Onward(u, p)
    BY <1>6, OnwardFs
  <2>2. ExitRt(u, p, s)'
    BY <1>1, <1>6, RoomStays
  <2>3. Tells(d, s, p)' /\ (p \notin removed)'
    BY <1>1, <1>6 DEF Tells
  <2>4. InExit(u, p)'
    BY <1>1, <1>5, <1>6, <2>2, <2>3 DEF InExit
  <2> QED
    BY <2>1, <2>4, Moved DEF Alone, Chain
<1>7. CASE x = "asked" /\ AnswerDecrement(u, p)
  <2>1. recruit[p] = d /\ d.cur # Nil
    BY <1>1, <1>2, <1>7, LenProperties, RecruitmentAssumption DEF Half, Tells
  <2>2. /\ fs' = Queue(fs, u, <<SetRecruit(p, LoweredByOne(d))>>)
        /\ asked' = Answered(u, "decrement", p)
        /\ UNCHANGED <<recruit, members, group, userGroups, page, chat, rt, seats, removed, crashed>>
    BY <1>7, <2>1 DEF AnswerDecrement, servers, screens, history
  <2>3. Half(u, p, "queued", ExitDoc(p, d), y, ExitList(u, s))'
    BY <1>1, <1>2, <1>7, <2>2, HalfDocAnswered
  <2> QED
    BY <1>6, <2>2, <2>3, AnsweredOthers
<1>8. CASE y = "asked" /\ AnswerRemove(u, p)
  <2>1. members[p] = s /\ s # Nil
    BY <1>1, <1>2, <1>8, RecruitmentAssumption DEF Half
  <2>2. /\ fs' = Queue(fs, u, <<SetMembers(p, WithoutFirst(s, u))>>)
        /\ asked' = Answered(u, "remove", p)
        /\ UNCHANGED <<recruit, members, group, userGroups, page, chat, rt, seats, removed, crashed>>
    BY <1>8, <2>1 DEF AnswerRemove, servers, screens, history
  <2>3. Half(u, p, x, ExitDoc(p, d), "queued", ExitList(u, s))'
    BY <1>1, <1>2, <1>8, <2>2, HalfListAnswered
  <2> QED
    BY <1>6, <2>2, <2>3, AnsweredOthers
<1> QED
  BY <1>4, <1>7, <1>8

(* The walk over the members begins.                                       *)
LEMMA WalkBegins ==
    ASSUME TypeOK, NEW u \in User, NEW p \in Post, NEW k \in {"delete", "close"},
           NEW s \in Seq(User), Once(s), EndRt(u, p, k, s, "asked"),
           rt'[u] = rt[u] \o [i \in 1..Len(s) |-> Rt(s[i], StripOf(k), p)],
           UNCHANGED <<group, userGroups>>
    PROVE  EndRt(u, p, k, s, "queued")'
<1>1. PICK q \in Seq(RtOp) : q = rt[u]
  BY DEF TypeOK
<1>2. PICK t : t = [i \in 1..Len(s) |-> Rt(s[i], StripOf(k), p)]
  OBVIOUS
<1>3. PICK n \in Nat, l \in Nat : n = Len(q) /\ l = Len(s)
  BY LenProperties
<1>4. StripOf(k) \in RtKind /\ StripOf(k) # "removeGroup"
  BY DEF StripOf, RtKind
<1>5. \A i \in 1..l : s[i] \in User
  BY <1>3, ElementOfSeq
<1>6. \A v \in User : /\ Rt(v, StripOf(k), p).op = StripOf(k)
                      /\ Rt(v, StripOf(k), p).post = p /\ Rt(v, StripOf(k), p).who = v
                      /\ Rt(v, StripOf(k), p) \in RtOp
  BY <1>4, RtFields, RtTypes
<1>7. t \in Seq(RtOp) /\ Len(t) = l /\ \A i \in 1..l : t[i] = Rt(s[i], StripOf(k), p)
  <2>1. t \in [1..l -> RtOp]
    BY <1>2, <1>3, <1>5, <1>6
  <2>2. t \in Seq(RtOp)
    BY <2>1, SeqDef
  <2>3. DOMAIN t = 1..l
    BY <2>1
  <2>4. Len(t) = l
    BY <2>2, <2>3, LenProperties
  <2>5. \A i \in 1..l : t[i] = Rt(s[i], StripOf(k), p)
    BY <1>2, <1>3
  <2> QED
    BY <2>2, <2>4, <2>5
<1>8. PICK r : r = q \o t
  OBVIOUS
<1>9. /\ Len(r) = n + l /\ \A i \in 1..n : r[i] = q[i] /\ i \in 1..(n + l)
      /\ \A i \in 1..l : r[n + i] = t[i] /\ n + i \in 1..(n + l)
      /\ \A i \in 1..(n + l) : i \in 1..n \/ \E j \in 1..l : i = n + j
  <2>1. /\ Len(q \o t) = Len(q) + Len(t)
        /\ \A i \in 1..(Len(q) + Len(t)) :
              (q \o t)[i] = IF i <= Len(q) THEN q[i] ELSE t[i - Len(q)]
    BY ZenonT(40), <1>1, <1>7, ConcatProperties
  <2>2. Len(r) = n + l /\ \A i \in 1..(n + l) : r[i] = IF i <= n THEN q[i] ELSE t[i - n]
    BY <1>3, <1>7, <1>8, <2>1
  <2>3. \A i \in 1..n : i \in 1..(n + l) /\ i <= n
    OBVIOUS
  <2>4. \A i \in 1..l : n + i \in 1..(n + l) /\ ~(n + i <= n) /\ (n + i) - n = i
    OBVIOUS
  <2>5. ASSUME NEW i \in 1..(n + l), i \notin 1..n
        PROVE  \E j \in 1..l : i = n + j
    <3>1. i - n \in 1..l /\ i = n + (i - n)
      BY <2>5
    <3> QED
      BY <3>1
  <2> QED
    BY <2>2, <2>3, <2>4, <2>5
<1>10. \A i \in 1..n : q[i].post = p /\ q[i].op = "removeGroup" /\ i = 1
  <2>1. \A i \in 1..n : q[i].op = "removeGroup"
    BY <1>1, <1>3 DEF EndRt
  <2>2. \A i \in 1..n : /\ q[i].post = p
                        /\ \/ i = 1
                           \/ q[i].op = StripOf(k)
                           \/ q[i].op = "setGroups"
    BY <1>1, <1>3 DEF EndRt, Walk
  <2>3. "setGroups" # "removeGroup"
    OBVIOUS
  <2>4. ASSUME NEW i \in 1..n PROVE i = 1
    BY <1>4, <2>1, <2>2, <2>3
  <2> QED
    BY <2>1, <2>2, <2>4
<1>11. \A i \in 1..l : /\ r[n + i].op = StripOf(k) /\ r[n + i].post = p
                       /\ r[n + i].who = s[i] /\ n + i \in 1..(n + l)
  <2> SUFFICES ASSUME NEW i \in 1..l
               PROVE  /\ r[n + i].op = StripOf(k) /\ r[n + i].post = p
                      /\ r[n + i].who = s[i] /\ n + i \in 1..(n + l)
    OBVIOUS
  <2>1. PICK v \in User : v = s[i]
    BY <1>5
  <2>2. r[n + i] = Rt(v, StripOf(k), p)
    BY <1>7, <1>9, <2>1
  <2>3. n + i \in 1..(n + l)
    BY <1>9
  <2> QED
    BY <1>6, <2>1, <2>2, <2>3
<1>12. Listed(p) = Those(s) /\ \A i \in 1..l : Holds(s[i], p)
  <2>1. Listed(p) = Those(s)
    BY DEF EndRt
  <2> QED
    BY <1>3, <1>5, <2>1 DEF Listed, Those, Holds
<1>13. \A i \in 1..(n + l) :
         /\ r[i].post = p
         /\ (i = 1 /\ r[i].op = "removeGroup") \/ (r[i].op = StripOf(k) /\ Holds(r[i].who, p))
  <2> SUFFICES ASSUME NEW i \in 1..(n + l)
               PROVE  /\ r[i].post = p
                      /\ \/ i = 1 /\ r[i].op = "removeGroup"
                         \/ r[i].op = StripOf(k) /\ Holds(r[i].who, p)
    OBVIOUS
  <2>1. CASE i \in 1..n
    BY <1>9, <1>10, <2>1
  <2>2. ASSUME NEW j \in 1..l, i = n + j
        PROVE  r[i].post = p /\ r[i].op = StripOf(k) /\ Holds(r[i].who, p)
    BY <1>11, <1>12, <2>2
  <2> QED
    BY <1>9, <2>1, <2>2
<1>14. rt'[u] = r /\ Len(r) = n + l
  BY <1>1, <1>2, <1>8, <1>9
<1>15. Walk(u, p, k)'
  BY <1>13, <1>14 DEF Walk, Holds
<1>16. Apart(r)
  <2>1. \A i, j \in 1..l : s[i] = s[j] => i = j
    BY <1>3 DEF Once
  <2>2. SUFFICES ASSUME NEW i \in 1..(n + l), NEW j \in 1..(n + l), r[i].op # "removeGroup",
                        r[j].op # "removeGroup", r[i].who = r[j].who
                 PROVE  i = j
    BY <1>14 DEF Apart
  <2>3. i \notin 1..n /\ j \notin 1..n
    BY <1>9, <1>10, <2>2
  <2>4. PICK a \in 1..l, b \in 1..l : i = n + a /\ j = n + b
    BY <1>9, <2>3
  <2>5. s[a] = s[b]
    BY <1>11, <2>2, <2>4
  <2> QED
    BY <2>1, <2>4, <2>5
<1>17. Removing(r) <=> Removing(q)
  <2>1. CASE n = 0
    <3>1. q = <<>>
      BY <1>1, <1>3, <2>1, EmptySeq
    <3>2. CASE l = 0
      <4>1. Len(r) = 0 /\ r \in Seq(RtOp)
        BY <1>1, <1>7, <1>8, <1>9, <2>1, <3>2, ConcatProperties
      <4>2. r = <<>>
        BY <4>1, EmptySeq
      <4> QED
        BY <3>1, <4>2
    <3>3. CASE l # 0
      <4>1. 1 \in 1..l /\ n + 1 = 1
        BY <2>1, <3>3
      <4>2. r[1].op = StripOf(k)
        BY <1>11, <4>1
      <4> QED
        BY <1>4, <3>1, <4>2 DEF Removing
    <3> QED
      BY <3>2, <3>3
  <2>2. CASE n # 0
    <3>1. 1 \in 1..n /\ q # <<>>
      BY <1>3, <2>2, EmptySeq
    <3>2. r[1] = q[1] /\ q[1].op = "removeGroup" /\ n + l # 0
      BY <1>9, <1>10, <2>2, <3>1
    <3>3. r # <<>>
      BY <1>14, <3>2, EmptySeq
    <3> QED
      BY <3>1, <3>2, <3>3 DEF Removing
  <2> QED
    BY <2>1, <2>2
<1>18. Listed(p)' = Listed(p)
  BY DEF Listed
<1>19. \A v \in Listed(p)' : \E i \in 1..(n + l) : r[i].op # "removeGroup" /\ r[i].who = v
  <2> SUFFICES ASSUME NEW v \in Listed(p)
               PROVE  \E i \in 1..(n + l) : r[i].op # "removeGroup" /\ r[i].who = v
    BY <1>18
  <2>1. PICK i \in 1..l : s[i] = v
    BY <1>3, <1>12 DEF Those
  <2> QED
    BY <1>4, <1>11, <2>1
<1>20. IF Removing(r) THEN group'[p].name ELSE group'[p] = NoGroup
  BY <1>1, <1>17 DEF EndRt
<1> QED
  BY <1>14, <1>15, <1>16, <1>19, <1>20 DEF EndRt

LEMMA EndAnswered ==
    ASSUME TypeOK, SerialInv, NEW u \in User, NEW p \in Post, Alone(u, p), Unseen(p),
           NEW k \in {"delete", "close"}, InEnd(u, p, k), NEW q \in Post,
           FirestoreAnswer(u, q)
    PROVE  SerialInv'
<1>1. PICK d \in Recruit, s \in Seq(User), x \in {"queued", "done"}, y \in Stage :
        /\ Tells(d, s, p) /\ (p \in removed) = (k = "delete")
        /\ Half(u, p, x, EndDoc(p, d), y, EndList(k, s)) /\ EndRt(u, p, k, s, y)
  BY DEF InEnd
<1>2. /\ EndDoc(p, d).read = "none" /\ EndList(k, s).read = k
      /\ EndList(k, s).old = s /\ EndList(k, s).new = Nil
      /\ x \in Stage /\ x # "asked"
  BY DEF EndDoc, EndList, DocPlan, ListPlan, Stage
<1>3. \A kind \in ReadKind : asked[u][<<kind, q>>] > 0 => q = p /\ y = "asked" /\ kind = k
  BY <1>1, <1>2, HalfAsks
<1>4. AnswerMembers(u, q, k, StripOf(k)) /\ q = p /\ y = "asked"
  BY <1>3 DEF FirestoreAnswer, AnswerAppend, AnswerRemove, AnswerDecrement, AnswerMembers,
              Answers, ReadKind, StripOf
<1>5. members[p] = s /\ s # Nil
  BY <1>1, <1>2, <1>4, RecruitmentAssumption DEF Half
<1>6. /\ fs' = Queue(fs, u, <<SetMembers(p, Nil)>>)
      /\ asked' = Answered(u, k, p)
      /\ rt' = Queue(rt, u, [i \in 1..Len(s) |-> Rt(s[i], StripOf(k), p)])
      /\ UNCHANGED <<recruit, members, group, userGroups, page, chat, seats, removed, crashed>>
  BY <1>4, <1>5 DEF AnswerMembers, servers, screens, history
<1>7. Half(u, p, x, EndDoc(p, d), "queued", EndList(k, s))'
  <2>1. Half(u, p, x, EndDoc(p, d), "asked", EndList(k, s)) /\ "none" # k
    BY <1>1, <1>4
  <2> QED
    BY <1>2, <1>6, <2>1, HalfListAnswered
<1>8. rt'[u] = rt[u] \o [i \in 1..Len(s) |-> Rt(s[i], StripOf(k), p)]
  BY <1>6, AnsweredOthers
<1>9. EndRt(u, p, k, s, "queued")'
  <2>1. Once(s) /\ EndRt(u, p, k, s, "asked")
    BY <1>1, <1>4 DEF Tells
  <2> QED
    BY <1>6, <1>8, <2>1, WalkBegins
<1>10. rt[u] = <<>> \/ Head(rt[u]).post = p
  <2> SUFFICES ASSUME rt[u] # <<>> PROVE Head(rt[u]).post = p
    OBVIOUS
  <2>1. PICK n \in Nat \ {0} : n = Len(rt[u])
    BY Rest
  <2> QED
    BY <1>1, <2>1, Walked
<1>11. Onward(u, p)
  <2>2. \A v \in User \ {u} : rt'[v] = rt[v]
    BY <1>6, AnsweredOthers
  <2>3. \A v \in User \ {u} : fs'[v] = fs[v] /\ asked'[v] = asked[v]
    BY <1>6, AnsweredOthers
  <2>1. \A v \in User \ {u} : rt'[v] = rt[v] /\ fs'[v] = fs[v] /\ asked'[v] = asked[v]
    BY <2>2, <2>3
  <2> QED
    BY <1>6, <1>10, <2>1, OnwardFs
<1>12. Tells(d, s, p)' /\ (p \in removed)' = (k = "delete")
  BY <1>1, <1>6 DEF Tells
<1>13. InEnd(u, p, k)'
  <2>1. "queued" \in Stage
    BY DEF Stage
  <2> QED
    BY <1>7, <1>9, <1>12, <2>1 DEF InEnd
<1> QED
  BY <1>11, <1>13, Moved DEF Alone, Chain

LEMMA AnswerKept ==
    ASSUME TypeOK, SerialInv, NEW v \in User, NEW q \in Post, FirestoreAnswer(v, q)
    PROVE  SerialInv'
<1>1. PICK kind \in ReadKind : asked[v][<<kind, q>>] > 0
  BY DEF FirestoreAnswer, AnswerAppend, AnswerRemove, AnswerDecrement, AnswerMembers,
         Answers, ReadKind
<1>2. ~(asked[v] = NothingAsked)
  BY <1>1 DEF NothingAsked, Read
<1>3. PICK u \in User, p \in Post : Alone(u, p)
  BY <1>2 DEF SerialInv, AtRest, Quiet, Idle
<1>4. v = u
  BY <1>2, <1>3 DEF Alone, Idle
<1>5. FirestoreAnswer(u, q) /\ asked[u] # NothingAsked /\ asked[u][<<kind, q>>] > 0
  BY <1>1, <1>2, <1>4
<1>6. CASE InCheck(u, p) \/ InAsk(u, p)
  BY <1>5, <1>6 DEF InCheck, InAsk, InRead
<1>7. CASE InEdit(u, p)
  <2>1. PICK m \in Nat, d \in Recruit, s \in Seq(User), x \in {"queued", "done"} :
          Half(u, p, x, EditDoc(p, d, m), "done", ListPlan("none", s, s))
    BY <1>7 DEF InEdit
  <2>2. x \in Stage /\ "done" \in Stage /\ x # "asked"
    BY DEF Stage
  <2> QED
    BY <1>5, <2>1, <2>2, HalfAsks
<1>8. CASE InCreate(u, p)
  <2>1. PICK m \in Nat \ {0}, x \in {"queued", "done"}, y \in {"queued", "done"} :
          Half(u, p, x, CreateDoc(u, p, m), y, CreateList(u))
    BY <1>8 DEF InCreate
  <2>2. x \in Stage /\ y \in Stage /\ x # "asked" /\ y # "asked"
    BY DEF Stage
  <2> QED
    BY <1>5, <2>1, <2>2, HalfAsks
<1>9. CASE Unseen(p) /\ InJoin(u, p)
  BY <1>3, <1>5, <1>9, JoinAnswered
<1>10. CASE Unseen(p) /\ InExit(u, p)
  BY <1>3, <1>5, <1>10, ExitAnswered
<1>11. ASSUME NEW k \in {"delete", "close"}, Unseen(p), InEnd(u, p, k)
       PROVE  SerialInv'
  BY <1>3, <1>5, <1>11, EndAnswered
<1> QED
  BY <1>3, <1>6, <1>7, <1>8, <1>9, <1>10, <1>11 DEF Alone, Acting
-----------------------------------------------------------------------------
(* Between operations every post is whole.                                 *)

LEMMA Enrolled ==
    ASSUME NEW p \in Post, NEW d, NEW s, Tells(d, s, p), NEW u \in User, u \notin Those(s)
    PROVE  /\ Tells(Raised(d), Append(s, u), p)
           /\ Len(Append(s, u)) = Len(s) + 1 /\ Those(Append(s, u)) = Those(s) \cup {u}
<1>1. /\ d \in Recruit /\ s \in Seq(User) /\ Once(s) /\ d.uid # Nil /\ d.max = seats[p]
      /\ seats[p] # 0 /\ d.cur = Len(s)
  BY DEF Tells
<1>2. PICK n \in Nat : n = Len(s)
  BY <1>1, LenProperties
<1>3. PICK t : t = Append(s, u)
  OBVIOUS
<1>4. t \in Seq(User) /\ t # <<>> /\ Len(t) = n + 1 /\ Once(t) /\ Those(t) = Those(s) \cup {u}
  BY <1>1, <1>2, <1>3, Joins
<1>5. PICK e : e = Raised(d)
  OBVIOUS
<1>6. e.uid = d.uid /\ e.cur = n + 1 /\ e.max = d.max /\ e \in Recruit
  BY <1>1, <1>2, <1>5 DEF Raised, Recruit
<1> QED
  BY <1>1, <1>2, <1>3, <1>4, <1>5, <1>6 DEF Tells

LEMMA Struck ==
    ASSUME NEW p \in Post, NEW d, NEW s, Tells(d, s, p), NEW u \in Those(s), Len(s) > 1
    PROVE  /\ Tells(LoweredByOne(d), WithoutFirst(s, u), p)
           /\ Len(WithoutFirst(s, u)) = Len(s) - 1
           /\ Those(WithoutFirst(s, u)) = Those(s) \ {u}
<1>1. /\ d \in Recruit /\ s \in Seq(User) /\ Once(s) /\ d.uid # Nil /\ d.max = seats[p]
      /\ seats[p] # 0 /\ d.cur = Len(s)
  BY DEF Tells
<1>2. PICK n \in Nat : n = Len(s)
  BY <1>1, LenProperties
<1>3. PICK t : t = WithoutFirst(s, u)
  OBVIOUS
<1>4. t \in Seq(User) /\ t # <<>> /\ Len(t) = n - 1 /\ Once(t) /\ Those(t) = Those(s) \ {u}
  BY <1>1, <1>2, <1>3, Leaves
<1>5. PICK e : e = LoweredByOne(d)
  OBVIOUS
<1>6. e.uid = d.uid /\ e.cur = n - 1 /\ e.max = d.max /\ e \in Recruit
  BY <1>1, <1>2, <1>5 DEF LoweredByOne, Recruit
<1> QED
  BY <1>1, <1>2, <1>3, <1>4, <1>5, <1>6 DEF Tells

LEMMA Founded ==
    ASSUME NEW u \in User, NEW p \in Post, NEW m \in Nat \ {0}, seats[p] = m
    PROVE  Tells(First(u, m), <<u>>, p) /\ Len(<<u>>) = 1 /\ Those(<<u>>) = {u}
<1>1. PICK s : s = <<u>>
  OBVIOUS
<1>2. s \in Seq(User) /\ Len(s) = 1 /\ s[1] = u /\ s # <<>>
  BY <1>1
<1>3. \A i \in 1..1 : i = 1
  OBVIOUS
<1>4. Once(s) /\ Those(s) = {u}
  BY <1>2, <1>3 DEF Once, Those
<1>5. First(u, m) \in Recruit /\ First(u, m).uid = u /\ First(u, m).cur = 1 /\ First(u, m).max = m
  BY DEF First, Recruit
<1>6. u # Nil
  BY RecruitmentAssumption
<1> QED
  BY <1>1, <1>2, <1>4, <1>5, <1>6 DEF Tells

LEMMA Runs ==
    ASSUME NEW p \in Post, NEW s, Tells(recruit[p], s, p), members[p] = s,
           Room(p, Len(s), Those(s)), p \notin removed
    PROVE  Running(p)
<1>1. s # Nil
  BY RecruitmentAssumption DEF Tells
<1> QED
  BY <1>1 DEF Running

LEMMA Rested ==
    ASSUME TypeOK, SerialInv, Quiet
    PROVE  AtRest
<1> SUFFICES ASSUME NEW u \in User, NEW p \in Post, Alone(u, p)
             PROVE  AtRest
  BY DEF SerialInv
<1>1. rt[u] = <<>> /\ Idle(u)
  BY DEF Quiet, Idle
<1> SUFFICES Story(p)
  BY DEF AtRest, Alone
<1>2. \A a : <<a>> # <<>> /\ \A b : <<a, b>> # <<>> /\ \A c : <<a, b, c>> # <<>>
  OBVIOUS
<1>3. CASE InCheck(u, p) \/ InAsk(u, p)
  BY <1>1, <1>2, <1>3 DEF InCheck, InAsk, InRead
<1>4. CASE InEdit(u, p)
  <2>1. PICK m \in Nat, d \in Recruit, s \in Seq(User), x \in {"queued", "done"} :
          /\ seats[p] = m /\ p \notin removed
          /\ d.max \in Int /\ Tells([d EXCEPT !.max = m], s, p)
          /\ Half(u, p, x, EditDoc(p, d, m), "done", ListPlan("none", s, s))
          /\ rt[u] = <<>> /\ Room(p, Len(s), Those(s))
    BY <1>4 DEF InEdit
  <2>2. x \in Stage /\ "done" \in Stage /\ x # "asked"
    BY DEF Stage
  <2>3. recruit[p] = EditDoc(p, d, m).new /\ members[p] = ListPlan("none", s, s).new
    BY <1>1, <2>1, <2>2, HalfIdle
  <2>4. recruit[p] = [d EXCEPT !.max = m] /\ members[p] = s
    BY <2>3 DEF EditDoc, ListPlan, DocPlan
  <2> QED
    BY <2>1, <2>4, Runs DEF Story
<1>5. CASE InCreate(u, p)
  <2>1. PICK m \in Nat \ {0}, x \in {"queued", "done"}, y \in {"queued", "done"} :
          /\ seats[p] = m /\ p \notin removed
          /\ Half(u, p, x, CreateDoc(u, p, m), y, CreateList(u)) /\ CreateRt(u, p)
    BY <1>5 DEF InCreate
  <2>2. x \in Stage /\ y \in Stage /\ x # "asked" /\ y # "asked"
    BY DEF Stage
  <2>3. recruit[p] = CreateDoc(u, p, m).new /\ members[p] = CreateList(u).new
    BY <1>1, <2>1, <2>2, HalfIdle
  <2>4. recruit[p] = First(u, m) /\ members[p] = <<u>>
    BY <2>3 DEF CreateDoc, CreateList, ListPlan, DocPlan
  <2>5. Listed(p) = {u} /\ group[p] = NewRoom
    BY <1>1, <1>2, <2>1 DEF CreateRt
  <2>6. Room(p, 1, {u})
    BY <2>5 DEF Room, NewRoom
  <2>7. Tells(First(u, m), <<u>>, p) /\ Len(<<u>>) = 1 /\ Those(<<u>>) = {u}
    BY <2>1, Founded
  <2> QED
    BY <2>1, <2>4, <2>6, <2>7, Runs DEF Story
<1>6. CASE InJoin(u, p)
  <2>1. PICK d \in Recruit, s \in Seq(User), x \in {"queued", "done"}, y \in Stage :
          /\ Tells(d, s, p) /\ p \notin removed /\ u \notin Those(s) /\ Len(s) < seats[p]
          /\ Half(u, p, x, JoinDoc(p, d), y, JoinList(u, s)) /\ JoinRt(u, p, s)
    BY <1>6 DEF InJoin
  <2>2. /\ x \in Stage /\ x # "asked" /\ JoinList(u, s).read = "append"
        /\ JoinList(u, s).new = Append(s, u) /\ JoinDoc(p, d).new = Raised(d)
    BY DEF Stage, JoinList, ListPlan, JoinDoc, DocPlan
  <2>3. "append" \in ReadKind
    BY DEF ReadKind
  <2>4. recruit[p] = Raised(d) /\ members[p] = Append(s, u)
    BY <1>1, <2>1, <2>2, <2>3, HalfIdle
  <2>5. Room(p, Len(s) + 1, Those(s) \cup {u})
    BY <1>1, <1>2, <2>1 DEF JoinRt
  <2>6. /\ Tells(Raised(d), Append(s, u), p)
        /\ Len(Append(s, u)) = Len(s) + 1 /\ Those(Append(s, u)) = Those(s) \cup {u}
    BY <2>1, Enrolled
  <2> QED
    BY <2>1, <2>4, <2>5, <2>6, Runs DEF Story
<1>7. CASE InExit(u, p)
  <2>1. PICK d \in Recruit, s \in Seq(User), x \in Stage, y \in Stage :
          /\ Tells(d, s, p) /\ p \notin removed /\ u \in Those(s) /\ Len(s) > 1
          /\ Half(u, p, x, ExitDoc(p, d), y, ExitList(u, s)) /\ ExitRt(u, p, s)
    BY <1>7 DEF InExit
  <2>2. /\ ExitList(u, s).read = "remove" /\ ExitDoc(p, d).read = "decrement"
        /\ ExitList(u, s).new = WithoutFirst(s, u) /\ ExitDoc(p, d).new = LoweredByOne(d)
    BY DEF ExitList, ListPlan, ExitDoc, DocPlan
  <2>3. "remove" \in ReadKind /\ "decrement" \in ReadKind
    BY DEF ReadKind
  <2>4. recruit[p] = LoweredByOne(d) /\ members[p] = WithoutFirst(s, u)
    BY <1>1, <2>1, <2>2, <2>3, HalfIdle
  <2>5. Room(p, Len(s) - 1, Those(s) \ {u})
    BY <1>1, <1>2, <2>1 DEF ExitRt
  <2>6. /\ Tells(LoweredByOne(d), WithoutFirst(s, u), p)
        /\ Len(WithoutFirst(s, u)) = Len(s) - 1
        /\ Those(WithoutFirst(s, u)) = Those(s) \ {u}
    BY <2>1, Struck
  <2> QED
    BY <2>1, <2>4, <2>5, <2>6, Runs DEF Story
<1>8. ASSUME NEW k \in {"delete", "close"}, InEnd(u, p, k)
      PROVE  Story(p)
  <2>1. PICK d \in Recruit, s \in Seq(User), x \in {"queued", "done"}, y \in Stage :
          /\ Tells(d, s, p) /\ (p \in removed) = (k = "delete")
          /\ Half(u, p, x, EndDoc(p, d), y, EndList(k, s)) /\ EndRt(u, p, k, s, y)
    BY <1>8 DEF InEnd
  <2>2. /\ x \in Stage /\ x # "asked" /\ EndList(k, s).read = k /\ k \in ReadKind
        /\ EndList(k, s).new = Nil /\ EndDoc(p, d).new = NoRecruit
    BY DEF Stage, EndList, ListPlan, EndDoc, DocPlan, ReadKind
  <2>3. recruit[p] = NoRecruit /\ members[p] = Nil
    BY <1>1, <2>1, <2>2, HalfIdle
  <2>4. Len(rt[u]) = 0
    BY <1>1
  <2>5. group[p] = NoGroup
    BY <1>1, <2>1 DEF EndRt, Removing
  <2>6. y # "asked"
    <3> SUFFICES ASSUME y = "asked" PROVE FALSE
      OBVIOUS
    <3>1. <<k, p>> \in Read
      BY <2>2 DEF Read
    <3>2. asked[u][<<k, p>>] = 1
      BY <2>1, <2>2, <3>1 DEF Half, Asked
    <3> QED
      BY <1>1, <3>1, <3>2 DEF Idle, NothingAsked
  <2>7. k = "delete" => Listed(p) = {}
    <3> SUFFICES ASSUME k = "delete", NEW v \in Listed(p) PROVE FALSE
      OBVIOUS
    <3>1. PICK i \in 1..Len(rt[u]) : rt[u][i].who = v
      BY <2>1, <2>6 DEF EndRt
    <3> QED
      BY <2>4, <3>1
  <2>8. seats[p] # 0
    BY <2>1 DEF Tells
  <2> QED
    BY <2>1, <2>3, <2>5, <2>7, <2>8 DEF Story, Over, Gone, Exists
<1> QED
  BY <1>3, <1>4, <1>5, <1>6, <1>7, <1>8 DEF Alone, Acting
-----------------------------------------------------------------------------
(* A tap begins an operation between two others.                           *)

LEMMA StartsAtRest ==
    ASSUME TypeOK, SerialInv, Serial, StartsOperation \/ MayBrowse
    PROVE  Quiet /\ AtRest
<1>1. Quiet
  BY DEF StartsOperation, MayBrowse, Serial
<1> QED
  BY <1>1, Rested

LEMMA ScreensShrink ==
    ASSUME NEW p \in Post, TypeOK, Screens, Elsewhere(p), Quiet, Unseen(p)',
           \A v \in User : page'[v] \in {page[v], Nil} /\ chat'[v] \in {chat[v], Nil}
    PROVE  Screens'
<1>1. \A v \in User : page'[v] = page[v] \/ page'[v] = Nil
  OBVIOUS
<1>2. \A v \in User : chat'[v] = chat[v] \/ chat'[v] = Nil
  OBVIOUS
<1>3. \A v \in User : Looks(v)' => Looks(v)
  BY <1>1, <1>2 DEF Looks
<1>4. ASSUME NEW v \in User, page'[v] # Nil
      PROVE  FreshPage(v)'
  <2>1. PICK g : g = page[v]
    OBVIOUS
  <2>2. page'[v] = g /\ g # Nil
    BY <1>1, <1>4, <2>1
  <2>3. g \in Page /\ g.post \in Post \ {p}
    BY <1>4, <2>1, <2>2 DEF TypeOK, Page, Unseen
  <2>4. PICK q \in Post \ {p} : q = g.post
    BY <2>3
  <2>5. /\ recruit'[q] = recruit[q] /\ seats'[q] = seats[q]
        /\ Holds(v, q)' = Holds(v, q)
    BY DEF Elsewhere
  <2>6. FreshPage(v)
    BY <2>1, <2>2 DEF Screens
  <2>7. <<Rt(v, "check", q)>> # <<>>
    OBVIOUS
  <2>8. rt[v] = <<>>
    BY DEF Quiet, Idle
  <2>9. /\ ~g.search /\ recruit[q].uid # Nil /\ recruit[q].cur = g.cur /\ g.max = seats[q]
        /\ g.joinable => ~Holds(v, q)
    BY <2>1, <2>4, <2>6, <2>7, <2>8 DEF FreshPage
  <2>10. g.joinable => ~Holds(v, q)'
    BY <2>5, <2>9
  <2> QED
    BY <2>2, <2>4, <2>5, <2>9, <2>10 DEF FreshPage, Holds
<1>5. ASSUME NEW v \in User, chat'[v] # Nil
      PROVE  Holds(v, chat[v])' /\ group'[chat'[v]].name
  <2>1. PICK q : q = chat[v]
    OBVIOUS
  <2>2. chat'[v] = q /\ q # Nil
    BY <1>2, <1>5, <2>1
  <2>3. q \in Post \ {p}
    BY <2>1, <2>2 DEF TypeOK, Unseen
  <2>4. Holds(v, q) /\ group[q].name
    BY <2>1, <2>2 DEF Screens
  <2>5. Holds(v, q)' = Holds(v, q) /\ group'[q] = group[q]
    BY <2>3 DEF Elsewhere
  <2> QED
    BY <2>2, <2>4, <2>5 DEF Holds
<1> QED
  BY <1>1, <1>2, <1>3, <1>4, <1>5 DEF Screens, Looks

LEMMA Begun ==
    ASSUME TypeOK, SerialInv, Quiet, AtRest, NEW u \in User, NEW p \in Post,
           UNCHANGED servers, UNCHANGED crashed, Mine(u),
           \A q \in Post \ {p} : seats'[q] = seats[q] /\ (q \in removed') = (q \in removed),
           \A v \in User : page'[v] \in {page[v], Nil} /\ chat'[v] \in {chat[v], Nil},
           Unseen(p)', Chain(u, p)'
    PROVE  SerialInv'
<1>1. Elsewhere(p)
  BY DEF Elsewhere, servers, Holds
<1>2. Screens'
  BY <1>1, ScreensShrink DEF SerialInv
<1>3. \A v \in User \ {u} : Idle(v)
  BY DEF Quiet
<1>4. \A q \in Post \ {p} : Story(q)
  BY DEF AtRest
<1>5. (\A v \in User \ {u} : Idle(v)') /\ (\A q \in Post \ {p} : Story(q)')
  BY <1>1, <1>3, <1>4, OthersStay
<1>6. Alone(u, p)'
  BY <1>5 DEF Alone, Acting, Chain
<1>7. NoCrash'
  BY DEF SerialInv, NoCrash
<1> QED
  BY <1>2, <1>6, <1>7 DEF SerialInv

(* The one screen that is open, closed.                                    *)
LEMMA LastScreen ==
    ASSUME TypeOK, Screens, NEW u \in User, NEW p \in Post
    PROVE  /\ page[u] # Nil /\ page' = [page EXCEPT ![u] = Nil] /\ UNCHANGED chat
                => /\ Unseen(p)'
                   /\ \A v \in User : page'[v] \in {page[v], Nil} /\ chat'[v] \in {chat[v], Nil}
           /\ chat[u] # Nil /\ chat' = [chat EXCEPT ![u] = Nil] /\ UNCHANGED page
                => /\ Unseen(p)'
                   /\ \A v \in User : page'[v] \in {page[v], Nil} /\ chat'[v] \in {chat[v], Nil}
<1>1. p # Nil
  BY RecruitmentAssumption
<1>2. \A v \in User \ {u} : Looks(u) => page[v] = Nil /\ chat[v] = Nil
  BY DEF Screens, Looks
<1>3. page[u] = Nil \/ chat[u] = Nil
  BY DEF Screens
<1>4. page \in [User -> Page \cup {Nil}] /\ chat \in [User -> Post \cup {Nil}]
  BY DEF TypeOK
<1>5. ASSUME page[u] # Nil, page' = [page EXCEPT ![u] = Nil], UNCHANGED chat
      PROVE  \A v \in User : page'[v] = Nil /\ chat'[v] = Nil
  BY <1>2, <1>3, <1>4, <1>5 DEF Looks
<1>6. ASSUME chat[u] # Nil, chat' = [chat EXCEPT ![u] = Nil], UNCHANGED page
      PROVE  \A v \in User : page'[v] = Nil /\ chat'[v] = Nil
  BY <1>2, <1>3, <1>4, <1>6 DEF Looks
<1>7. (\A v \in User : page'[v] = Nil /\ chat'[v] = Nil) => Unseen(p)'
  BY <1>1 DEF Unseen
<1> QED
  BY <1>5, <1>6, <1>7

(* The first items of a queue.                                             *)
LEMMA QueuedAlone ==
    ASSUME TypeOK, NEW u \in User, rt[u] = <<>>, fs[u] = <<>>, NEW a, NEW b
    PROVE  /\ Queue(rt, u, <<a>>)[u] = <<a>> /\ Queue(fs, u, <<a>>)[u] = <<a>>
           /\ Queue(fs, u, <<a, b>>)[u] = <<a, b>>
           /\ \A i : Queue(rt, u, i)[u] = <<>> \o i
           /\ \A i : \A v \in User \ {u} :
                 Queue(rt, u, i)[v] = rt[v] /\ Queue(fs, u, i)[v] = fs[v]
<1> DEFINE T == {a, b}
<1>1. <<a>> \in Seq(T) /\ <<a, b>> \in Seq(T)
  OBVIOUS
<1>2. <<>> \o <<a>> = <<a>> /\ <<>> \o <<a, b>> = <<a, b>>
  BY <1>1, ConcatEmptySeq
<1> QED
  BY <1>2 DEF Queue, TypeOK

LEMMA CreateKept ==
    ASSUME TypeOK, SerialInv, Serial, NEW u \in User, NEW p \in Post, NEW m \in 2..MaxSeats,
           Create(u, p, m)
    PROVE  SerialInv'
<1> DEFINE a == SetRecruit(p, First(u, m))
           b == SetMembers(p, <<u>>)
           c == Rt(u, "create", p)
<1>1. Quiet /\ AtRest
  BY StartsAtRest DEF Create
<1>2. rt[u] = <<>> /\ fs[u] = <<>> /\ asked[u] = NothingAsked
  BY <1>1 DEF Quiet, Idle
<1>3. /\ fs' = Queue(fs, u, <<a, b>>) /\ rt' = Queue(rt, u, <<c>>)
      /\ seats' = [seats EXCEPT ![p] = m] /\ seats[p] = 0
      /\ UNCHANGED servers /\ UNCHANGED <<page, chat, asked, removed, crashed>>
  BY DEF Create, screens, First
<1> HIDE DEF a, b, c
<1>4. fs'[u] = <<a, b>> /\ rt'[u] = <<c>> /\ Mine(u)
  BY ZenonT(40), <1>2, <1>3, QueuedAlone DEF Mine
<1>5. /\ seats'[p] = m /\ m \in Nat \ {0}
      /\ \A q \in Post \ {p} : seats'[q] = seats[q]
  BY <1>3, RecruitmentAssumption DEF TypeOK
<1>6. Untouched(p)
  BY <1>1, <1>3 DEF AtRest, Story, Running, Over, Tells
<1>7. recruit[p] = NoRecruit /\ members[p] = Nil /\ group[p] = NoGroup /\ Listed(p) = {}
      /\ p \notin removed
  BY <1>6 DEF Untouched, Gone, Exists
<1>8. \A v \in User : /\ chat[v] # Nil => chat[v] # p
                      /\ page[v] # Nil => page[v].post # p
  <2>1. ~group[p].name /\ recruit[p].uid = Nil
    BY <1>7 DEF NoGroup, NoRecruit
  <2> QED
    BY <2>1 DEF SerialInv, Screens, FreshPage
<1>9. Unseen(p)'
  BY <1>3, <1>8, RecruitmentAssumption DEF Unseen
<1>10. asked'[u] = Asked(p, "queued", "none", "queued", "none")
  BY <1>2, <1>3, AskedFor
<1>11. Queued(fs'[u], "queued", a, "queued", b)
  BY <1>4 DEF Queued
<1>12. /\ CreateDoc(u, p, m).old = NoRecruit /\ CreateDoc(u, p, m).read = "none"
       /\ CreateDoc(u, p, m).write = a
       /\ CreateList(u).old = Nil /\ CreateList(u).read = "none" /\ CreateList(u).new = <<u>>
  BY DEF CreateDoc, CreateList, DocPlan, ListPlan, a
<1>13. recruit'[p] = NoRecruit /\ members'[p] = Nil /\ group'[p] = NoGroup /\ Listed(p)' = {}
       /\ p \notin removed'
  BY <1>3, <1>7 DEF servers, Listed
<1>14. Half(u, p, "queued", CreateDoc(u, p, m), "queued", CreateList(u))'
  BY <1>10, <1>11, <1>12, <1>13 DEF Half, b
<1>15. CreateRt(u, p)'
  BY <1>4, <1>13 DEF CreateRt, c
<1>16. InCreate(u, p)'
  BY <1>5, <1>13, <1>14, <1>15 DEF InCreate
<1>17. \A v \in User : page'[v] \in {page[v], Nil} /\ chat'[v] \in {chat[v], Nil}
  BY <1>3
<1> QED
  BY <1>1, <1>3, <1>4, <1>5, <1>9, <1>16, <1>17, Begun DEF Chain

(* What the page on the screen says of its post.                           *)
LEMMA PageTells ==
    ASSUME TypeOK, SerialInv, Quiet, AtRest, NEW u \in User, page[u] # Nil
    PROVE  LET p == page[u].post IN
           /\ page[u] \in Page /\ p \in Post /\ FreshPage(u) /\ Running(p) /\ ~page[u].search
           /\ recruit[p].cur = page[u].cur /\ page[u].max = seats[p] /\ chat[u] = Nil
           /\ page[u].joinable => ~Holds(u, p)
<1>1. FreshPage(u) /\ chat[u] = Nil
  BY DEF SerialInv, Screens
<1>2. page[u] \in Page
  BY DEF TypeOK
<1>3. PICK p \in Post : p = page[u].post
  BY <1>2 DEF Page
<1>4. /\ recruit[p].uid # Nil /\ recruit[p].cur = page[u].cur /\ page[u].max = seats[p]
      /\ ~page[u].search /\ (page[u].joinable => ~Holds(u, p) \/ rt[u] = <<Rt(u, "check", p)>>)
  BY <1>1, <1>3 DEF FreshPage
<1>5. rt[u] = <<>> /\ <<Rt(u, "check", p)>> # <<>>
  BY DEF Quiet, Idle
<1>6. recruit[p] # NoRecruit
  BY <1>4 DEF NoRecruit
<1>7. Running(p)
  BY <1>6 DEF AtRest, Story, Untouched, Over, Gone, Exists
<1> QED
  BY <1>1, <1>2, <1>3, <1>4, <1>5, <1>7

LEMMA JoinKept ==
    ASSUME TypeOK, SerialInv, Serial, NEW u \in User, Join(u)
    PROVE  SerialInv'
<1>1. Quiet /\ AtRest /\ page[u] # Nil
  BY StartsAtRest DEF Join
<1>2. rt[u] = <<>> /\ fs[u] = <<>> /\ asked[u] = NothingAsked
  BY <1>1 DEF Quiet, Idle
<1>3. PICK g : g = page[u]
  OBVIOUS
<1>4. PICK p \in Post : p = g.post
  BY <1>1, <1>3, PageTells
<1>5. PICK d, s : d = recruit[p] /\ s = members[p]
  OBVIOUS
<1>6. /\ Running(p) /\ ~g.search /\ d.cur = g.cur /\ g.max = seats[p]
      /\ g \in Page /\ (g.joinable => ~Holds(u, p))
  BY <1>1, <1>3, <1>4, <1>5, PageTells
<1> DEFINE a == MergeRecruit(p, [NoRecruit EXCEPT !.cur = d.cur + 1])
           b == SetCount(u, p, d.cur + 1)
           c == Rt(u, "list", p)
           e == Rt(u, "getID", p)
<1>7. /\ g.joinable /\ HasRoom(g)
      /\ fs' = Queue(fs, u, <<a>>) /\ rt' = Queue(rt, u, <<b, c, e>>)
      /\ asked' = Ask(u, {"append"}, p) /\ page' = [page EXCEPT ![u] = Nil]
      /\ UNCHANGED servers /\ UNCHANGED <<chat, seats, removed, crashed>>
  BY <1>3, <1>4, <1>6 DEF Join
<1>8. /\ Tells(d, s, p) /\ s # Nil /\ p \notin removed /\ Room(p, Len(s), Those(s))
      /\ d.cur = Len(s) /\ d \in Recruit /\ s \in Seq(User)
  BY <1>5, <1>6 DEF Running, Tells
<1>9. b = SetCount(u, p, Len(s) + 1)
  BY <1>8
<1> HIDE DEF a, b, c, e
<1>10. fs'[u] = <<a>> /\ rt'[u] = <<b, c, e>> /\ \A v \in User \ {u} : fs'[v] = fs[v] /\ rt'[v] = rt[v]
  <2>1. Queue(fs, u, <<a>>)[u] = <<a>>
    BY <1>2, QueuedAlone
  <2>2. Queue(rt, u, <<b, c, e>>)[u] = <<b, c, e>>
    <3>1. Queue(rt, u, <<b, c, e>>)[u] = <<>> \o <<b, c, e>>
      BY <1>2, QueuedAlone
    <3>2. <<b, c, e>> \in Seq({b, c, e})
      OBVIOUS
    <3> QED
      BY <3>1, <3>2, ConcatEmptySeq
  <2>3. \A i : \A v \in User \ {u} : Queue(rt, u, i)[v] = rt[v] /\ Queue(fs, u, i)[v] = fs[v]
    BY <1>2, QueuedAlone
  <2> QED
    BY <1>7, <2>1, <2>2, <2>3
<1>11. /\ asked'[u] = Asked(p, "queued", "none", "asked", "append")
       /\ \A v \in User \ {u} : asked'[v] = asked[v]
  BY <1>2, <1>7, AskedFor
<1>12. Mine(u)
  BY <1>10, <1>11 DEF Mine
<1>13. /\ recruit'[p] = d /\ members'[p] = s /\ seats' = seats /\ removed' = removed
       /\ group'[p] = group[p] /\ Listed(p)' = Listed(p)
  BY <1>5, <1>7 DEF servers, Listed
<1>14. Tells(d, s, p)' /\ Room(p, Len(s), Those(s))'
  BY <1>8, <1>13 DEF Tells, Room
<1>15. /\ JoinDoc(p, d).old = d /\ JoinDoc(p, d).read = "none" /\ JoinDoc(p, d).write = a
       /\ JoinList(u, s).old = s /\ JoinList(u, s).read = "append"
  BY DEF JoinDoc, JoinList, DocPlan, ListPlan, a
<1>16. Queued(fs'[u], "queued", a, "asked", SetMembers(p, JoinList(u, s).new))
  BY <1>10 DEF Queued
<1>17. Half(u, p, "queued", JoinDoc(p, d), "asked", JoinList(u, s))'
  BY <1>11, <1>13, <1>15, <1>16 DEF Half
<1>18. JoinRt(u, p, s)'
  BY <1>9, <1>10, <1>14 DEF JoinRt, b, c, e
<1>19. u \notin Those(s)
  BY <1>6, <1>7, <1>8, ListedMoves DEF Room
<1>20. Len(s) < seats'[p]
  BY <1>6, <1>7, <1>8, <1>13 DEF HasRoom
<1>21. "queued" \in {"queued", "done"} /\ "asked" \in Stage
  BY DEF Stage
<1>22. InJoin(u, p)'
  BY <1>8, <1>13, <1>14, <1>17, <1>18, <1>19, <1>20, <1>21 DEF InJoin
<1>23. Unseen(p)' /\ \A v \in User : page'[v] \in {page[v], Nil} /\ chat'[v] \in {chat[v], Nil}
  BY <1>1, <1>7, LastScreen DEF SerialInv
<1> QED
  BY <1>1, <1>7, <1>12, <1>13, <1>22, <1>23, Begun DEF Chain

LEMMA DeleteKept ==
    ASSUME TypeOK, SerialInv, Serial, NEW u \in User, DeletePost(u)
    PROVE  SerialInv'
<1>1. Quiet /\ AtRest /\ page[u] # Nil
  BY StartsAtRest DEF DeletePost
<1>2. rt[u] = <<>> /\ fs[u] = <<>> /\ asked[u] = NothingAsked
  BY <1>1 DEF Quiet, Idle
<1>3. PICK p \in Post : p = page[u].post
  BY <1>1, PageTells
<1>4. PICK d, s : d = recruit[p] /\ s = members[p]
  OBVIOUS
<1>5. Running(p)
  BY <1>1, <1>3, PageTells
<1> DEFINE w == SetRecruit(p, NoRecruit)
           e == Rt(u, "removeGroup", p)
<1>6. /\ fs' = Queue(fs, u, <<w>>) /\ rt' = Queue(rt, u, <<e>>)
      /\ asked' = Ask(u, {"delete"}, p) /\ page' = [page EXCEPT ![u] = Nil]
      /\ removed' = removed \cup {p}
      /\ UNCHANGED servers /\ UNCHANGED <<chat, seats, crashed>>
  BY <1>3 DEF DeletePost
<1>7. e.op = "removeGroup" /\ e.post = p
  BY RtFields DEF RtKind
<1> HIDE DEF w, e
<1>8. /\ Tells(d, s, p) /\ d \in Recruit /\ s \in Seq(User)
      /\ group[p].name /\ Listed(p) = Those(s)
  BY <1>4, <1>5 DEF Running, Tells, Room
<1>9. /\ fs'[u] = <<w>> /\ rt'[u] = <<e>>
      /\ \A v \in User \ {u} : fs'[v] = fs[v] /\ rt'[v] = rt[v]
  BY <1>2, <1>6, QueuedAlone
<1>10. /\ asked'[u] = Asked(p, "queued", "none", "asked", "delete")
       /\ \A v \in User \ {u} : asked'[v] = asked[v]
  BY <1>2, <1>6, AskedFor
<1>11. Mine(u)
  BY <1>9, <1>10 DEF Mine
<1>12. /\ recruit'[p] = d /\ members'[p] = s /\ seats' = seats
       /\ group'[p] = group[p] /\ Listed(p)' = Listed(p)
  BY <1>4, <1>6 DEF servers, Listed
<1>13. Tells(d, s, p)'
  BY <1>8, <1>12 DEF Tells
<1>14. Queued(fs'[u], "queued", w, "asked", SetMembers(p, Nil))
  BY <1>9 DEF Queued
<1>15. Half(u, p, "queued", EndDoc(p, d), "asked", EndList("delete", s))'
  <2>1. /\ EndDoc(p, d).old = d /\ EndDoc(p, d).read = "none" /\ EndDoc(p, d).write = w
        /\ EndList("delete", s).old = s /\ EndList("delete", s).read = "delete"
        /\ EndList("delete", s).new = Nil
    BY DEF EndDoc, EndList, DocPlan, ListPlan, w
  <2> QED
    BY <1>10, <1>12, <1>14, <2>1 DEF Half
<1>16. Len(<<e>>) = 1 /\ <<e>>[1] = e /\ <<e>> # <<>> /\ \A i \in 1..1 : i = 1
  OBVIOUS
<1>17. Walk(u, p, "delete")'
  BY <1>7, <1>9, <1>16 DEF Walk
<1>18. Apart(rt[u])' /\ Removing(rt'[u])
  BY <1>7, <1>9, <1>16 DEF Apart, Removing
<1>19. EndRt(u, p, "delete", s, "asked")'
  BY <1>7, <1>8, <1>9, <1>12, <1>16, <1>17, <1>18 DEF EndRt
<1>20. (p \in removed)' = ("delete" = "delete")
  BY <1>6
<1>21. "queued" \in {"queued", "done"} /\ "asked" \in Stage
  BY DEF Stage
<1>22. InEnd(u, p, "delete")'
  BY <1>8, <1>13, <1>15, <1>19, <1>20, <1>21 DEF InEnd
<1>23. Unseen(p)' /\ \A v \in User : page'[v] \in {page[v], Nil} /\ chat'[v] \in {chat[v], Nil}
  BY <1>1, <1>6, LastScreen DEF SerialInv
<1>24. \A q \in Post \ {p} : seats'[q] = seats[q] /\ (q \in removed') = (q \in removed)
  BY <1>6, <1>12
<1> QED
  BY <1>1, <1>6, <1>11, <1>22, <1>23, <1>24, Begun DEF Chain

LEMMA LeaveKept ==
    ASSUME TypeOK, SerialInv, Serial, NEW u \in User, Leave(u)
    PROVE  SerialInv'
<1>1. Quiet /\ AtRest /\ chat[u] # Nil
  BY StartsAtRest DEF Leave
<1>2. rt[u] = <<>> /\ fs[u] = <<>> /\ asked[u] = NothingAsked
  BY <1>1 DEF Quiet, Idle
<1>3. PICK p \in Post : p = chat[u]
  BY <1>1 DEF TypeOK
<1>4. Holds(u, p) /\ group[p].name
  BY <1>1, <1>3 DEF SerialInv, Screens
<1>5. Running(p)
  <2>1. group[p] # NoGroup
    BY <1>4 DEF NoGroup
  <2> QED
    BY <1>1, <2>1 DEF AtRest, Story, Untouched, Over, Gone
<1> DEFINE e == Rt(u, "getGroup", p)
<1>6. /\ rt' = Queue(rt, u, <<e>>) /\ chat' = [chat EXCEPT ![u] = Nil]
      /\ UNCHANGED servers /\ UNCHANGED <<page, fs, asked, seats, removed, crashed>>
  BY <1>3 DEF Leave, Serial
<1> HIDE DEF e
<1>7. rt'[u] = <<e>> /\ \A v \in User \ {u} : rt'[v] = rt[v]
  BY <1>2, <1>6, QueuedAlone
<1>8. Mine(u)
  BY <1>6, <1>7 DEF Mine
<1>9. Running(p)' /\ Holds(u, p)'
  BY <1>4, <1>5, <1>6 DEF Running, Tells, Room, Listed, Holds, servers
<1>10. InAsk(u, p)'
  BY <1>2, <1>6, <1>7, <1>9 DEF InAsk, InRead, e
<1>11. Unseen(p)' /\ \A v \in User : page'[v] \in {page[v], Nil} /\ chat'[v] \in {chat[v], Nil}
  BY <1>1, <1>6, LastScreen DEF SerialInv
<1> QED
  BY <1>1, <1>6, <1>8, <1>10, <1>11, Begun DEF Chain

LEMMA EditKept ==
    ASSUME TypeOK, SerialInv, Serial, NEW u \in User, NEW m \in 2..MaxSeats, Edit(u, m)
    PROVE  SerialInv'
<1>1. Quiet /\ AtRest /\ page[u] # Nil
  BY StartsAtRest DEF Edit
<1>2. rt[u] = <<>> /\ fs[u] = <<>> /\ asked[u] = NothingAsked
  BY <1>1 DEF Quiet, Idle
<1>3. PICK g : g = page[u]
  OBVIOUS
<1>4. PICK p \in Post : p = g.post
  BY <1>1, <1>3, PageTells
<1>5. PICK d, s : d = recruit[p] /\ s = members[p]
  OBVIOUS
<1>6. /\ Running(p) /\ ~g.search /\ d.cur = g.cur /\ g.max = seats[p] /\ chat[u] = Nil
      /\ g \in Page /\ (g.joinable => ~Holds(u, p))
  BY <1>1, <1>3, <1>4, <1>5, PageTells
<1> DEFINE w == MergeRecruit(p, [uid |-> Nil, cur |-> d.cur, max |-> m])
<1>7. PICK h : h = [g EXCEPT !.max = m]
  OBVIOUS
<1>8. m \in Nat /\ m # 0 /\ m \in Int
  BY RecruitmentAssumption
<1>9. /\ h \in Page /\ h.post = p /\ h.search = g.search /\ h.cur = g.cur /\ h.max = m
      /\ h.joinable = g.joinable
  BY <1>4, <1>6, <1>7, <1>8 DEF Page
<1>10. h # Nil
  BY <1>9, PageAssumption
<1>11. /\ fs' = Queue(fs, u, <<w>>) /\ seats' = [seats EXCEPT ![p] = m]
       /\ UNCHANGED servers /\ UNCHANGED <<chat, rt, asked, removed, crashed>>
  BY <1>3, <1>4, <1>6 DEF Edit
<1>12. page' = [page EXCEPT ![u] = h]
  BY <1>3, <1>7 DEF Edit
<1> HIDE DEF w
<1>13. page'[u] = h /\ \A v \in User \ {u} : page'[v] = page[v]
  BY <1>12 DEF TypeOK
<1>14. seats'[p] = m /\ \A q \in Post \ {p} : seats'[q] = seats[q]
  BY <1>11 DEF TypeOK
<1>15. /\ Tells(d, s, p) /\ p \notin removed /\ Room(p, Len(s), Those(s))
       /\ d.cur = Len(s) /\ d \in Recruit /\ s \in Seq(User) /\ d.uid # Nil
  BY <1>5, <1>6 DEF Running, Tells
<1>16. fs'[u] = <<w>> /\ \A v \in User \ {u} : fs'[v] = fs[v]
  BY <1>2, <1>11, QueuedAlone
<1>17. /\ recruit'[p] = d /\ members'[p] = s /\ removed' = removed
       /\ group'[p] = group[p] /\ Listed(p)' = Listed(p)
  BY <1>5, <1>11 DEF servers, Listed
<1>18. Tells([d EXCEPT !.max = m], s, p)' /\ d.max \in Int
  <2>1. PICK e : e = [d EXCEPT !.max = m]
    OBVIOUS
  <2>2. e \in Recruit /\ e.uid = d.uid /\ e.cur = d.cur /\ e.max = m
    BY <1>8, <1>15, <2>1 DEF Recruit
  <2>3. d.max \in Nat
    BY <1>15 DEF Tells, TypeOK
  <2>4. s # <<>> /\ Once(s)
    BY <1>15 DEF Tells
  <2> QED
    BY <1>8, <1>14, <1>15, <2>1, <2>2, <2>3, <2>4 DEF Tells
<1>19. Queued(fs'[u], "queued", w, "done", SetMembers(p, s))
  BY <1>16 DEF Queued
<1>20. Half(u, p, "queued", EditDoc(p, d, m), "done", ListPlan("none", s, s))'
  <2>1. /\ EditDoc(p, d, m).old = d /\ EditDoc(p, d, m).read = "none"
        /\ EditDoc(p, d, m).write = w
        /\ ListPlan("none", s, s).new = s /\ ListPlan("none", s, s).read = "none"
    BY DEF EditDoc, DocPlan, ListPlan, w
  <2>2. asked'[u] = Asked(p, "queued", "none", "done", "none")
    BY <1>2, <1>11, AskedFor
  <2> QED
    BY <1>17, <1>19, <2>1, <2>2 DEF Half
<1>21. rt'[u] = <<>> /\ Room(p, Len(s), Those(s))'
  BY <1>2, <1>11, <1>15, <1>17 DEF Room
<1>22. InEdit(u, p)'
  BY <1>8, <1>14, <1>15, <1>17, <1>18, <1>20, <1>21 DEF InEdit
<1>23. FreshPage(u)'
  <2>1. Holds(u, p)' = Holds(u, p)
    BY <1>11 DEF servers, Holds
  <2>2. h.joinable => ~Holds(u, p)'
    BY <1>6, <1>9, <2>1
  <2> QED
    BY <1>6, <1>9, <1>13, <1>14, <1>15, <1>17, <2>2 DEF FreshPage, Holds
<1>24. \A v \in User \ {u} : page[v] = Nil /\ chat[v] = Nil
  BY <1>1 DEF SerialInv, Screens, Looks
<1>25. Screens'
  <2>1. \A v \in User : chat'[v] = Nil
    BY <1>6, <1>11, <1>24
  <2>2. \A v \in User \ {u} : page'[v] = Nil
    BY <1>13, <1>24
  <2> QED
    BY <1>23, <2>1, <2>2 DEF Screens, Looks
<1>26. Elsewhere(p)
  BY <1>11, <1>14 DEF Elsewhere, servers, Holds
<1>27. Mine(u)
  BY <1>11, <1>16 DEF Mine
<1>28. (\A v \in User \ {u} : Idle(v)') /\ (\A q \in Post \ {p} : Story(q)')
  BY <1>1, <1>26, <1>27, OthersStay DEF Quiet, AtRest
<1>29. Alone(u, p)'
  BY <1>22, <1>28 DEF Alone, Acting
<1>30. NoCrash'
  BY <1>11 DEF SerialInv, NoCrash
<1> QED
  BY <1>25, <1>29, <1>30 DEF SerialInv

LEMMA TapKept ==
    ASSUME TypeOK, SerialInv, Serial, NEW u \in User, Tap(u)
    PROVE  SerialInv'
<1>1. ASSUME NEW p \in Post PROVE ~SwipeDelete(u, p)
  BY DEF SwipeDelete, Serial
<1> QED
  BY <1>1, CreateKept, JoinKept, EditKept, DeleteKept, LeaveKept DEF Tap
-----------------------------------------------------------------------------
(* Looking around: screens open between operations and close at any time.  *)

LEMMA ActingStays ==
    ASSUME NEW u \in User, NEW p \in Post, Acting(u, p), UNCHANGED servers, UNCHANGED wires,
           UNCHANGED <<seats, removed>>, Unseen(p) => Unseen(p)'
    PROVE  Acting(u, p)'
<1>1. /\ Firestore /\ rt'[u] = rt[u] /\ UNCHANGED <<group, userGroups>>
      /\ seats' = seats /\ removed' = removed
  BY DEF servers, wires, Firestore
<1>2. \A d, s : Tells(d, s, p)' <=> Tells(d, s, p)
  BY <1>1 DEF Tells
<1>3. \A n, w : Room(p, n, w)' <=> Room(p, n, w)
  BY <1>1, RoomStays
<1>4. Running(p) => Running(p)'
  BY DEF servers, Running, Tells, Room, Listed
<1>5. Holds(u, p) => Holds(u, p)'
  BY DEF servers, Holds
<1>6. \A op : InRead(u, p, op) => InRead(u, p, op)'
  BY <1>4 DEF InRead, wires
<1>7. InCheck(u, p) => InCheck(u, p)'
  BY <1>6 DEF InCheck
<1>8. InAsk(u, p) => InAsk(u, p)'
  BY <1>5, <1>6 DEF InAsk
<1>9. ASSUME InCreate(u, p) PROVE InCreate(u, p)'
  <2>1. PICK m \in Nat \ {0}, x \in {"queued", "done"}, y \in {"queued", "done"} :
          /\ seats[p] = m /\ p \notin removed
          /\ Half(u, p, x, CreateDoc(u, p, m), y, CreateList(u)) /\ CreateRt(u, p)
    BY <1>9 DEF InCreate
  <2>2. Half(u, p, x, CreateDoc(u, p, m), y, CreateList(u))' /\ CreateRt(u, p)'
    BY <1>1, <2>1, HalfStays, RoomStays
  <2> QED
    BY <1>1, <2>1, <2>2 DEF InCreate
<1>10. ASSUME InJoin(u, p) PROVE InJoin(u, p)'
  <2>1. PICK d \in Recruit, s \in Seq(User), x \in {"queued", "done"}, y \in Stage :
          /\ Tells(d, s, p) /\ p \notin removed /\ u \notin Those(s) /\ Len(s) < seats[p]
          /\ Half(u, p, x, JoinDoc(p, d), y, JoinList(u, s)) /\ JoinRt(u, p, s)
    BY <1>10 DEF InJoin
  <2>2. Half(u, p, x, JoinDoc(p, d), y, JoinList(u, s))' /\ JoinRt(u, p, s)'
    BY <1>1, <2>1, HalfStays, RoomStays
  <2> QED
    BY <1>1, <1>2, <2>1, <2>2 DEF InJoin
<1>11. ASSUME InExit(u, p) PROVE InExit(u, p)'
  <2>1. PICK d \in Recruit, s \in Seq(User), x \in Stage, y \in Stage :
          /\ Tells(d, s, p) /\ p \notin removed /\ u \in Those(s) /\ Len(s) > 1
          /\ Half(u, p, x, ExitDoc(p, d), y, ExitList(u, s)) /\ ExitRt(u, p, s)
    BY <1>11 DEF InExit
  <2>2. Half(u, p, x, ExitDoc(p, d), y, ExitList(u, s))' /\ ExitRt(u, p, s)'
    BY <1>1, <2>1, HalfStays, RoomStays
  <2> QED
    BY <1>1, <1>2, <2>1, <2>2 DEF InExit
<1>12. ASSUME InEdit(u, p) PROVE InEdit(u, p)'
  <2>1. PICK m \in Nat, d \in Recruit, s \in Seq(User), x \in {"queued", "done"} :
          /\ seats[p] = m /\ p \notin removed
          /\ d.max \in Int /\ Tells([d EXCEPT !.max = m], s, p)
          /\ Half(u, p, x, EditDoc(p, d, m), "done", ListPlan("none", s, s))
          /\ rt[u] = <<>> /\ Room(p, Len(s), Those(s))
    BY <1>12 DEF InEdit
  <2>2. Half(u, p, x, EditDoc(p, d, m), "done", ListPlan("none", s, s))'
    BY <1>1, <2>1, HalfStays
  <2> QED
    BY <1>1, <1>2, <1>3, <2>1, <2>2 DEF InEdit
<1>13. ASSUME NEW k \in {"delete", "close"}, InEnd(u, p, k) PROVE InEnd(u, p, k)'
  <2>1. PICK d \in Recruit, s \in Seq(User), x \in {"queued", "done"}, y \in Stage :
          /\ Tells(d, s, p) /\ (p \in removed) = (k = "delete")
          /\ Half(u, p, x, EndDoc(p, d), y, EndList(k, s)) /\ EndRt(u, p, k, s, y)
    BY <1>13 DEF InEnd
  <2>2. Half(u, p, x, EndDoc(p, d), y, EndList(k, s))' /\ EndRt(u, p, k, s, y)'
    BY <1>1, <2>1, HalfStays, RoomStays
  <2> QED
    BY <1>1, <1>2, <2>1, <2>2 DEF InEnd
<1> QED
  BY <1>7, <1>8, <1>9, <1>10, <1>11, <1>12, <1>13 DEF Acting

LEMMA ShutKept ==
    ASSUME TypeOK, SerialInv, UNCHANGED servers, UNCHANGED wires,
           UNCHANGED <<seats, removed, crashed>>,
           \A v \in User : page'[v] \in {page[v], Nil} /\ chat'[v] \in {chat[v], Nil}
    PROVE  SerialInv'
<1>1. /\ \A v \in User : page'[v] = page[v] \/ page'[v] = Nil
      /\ \A v \in User : chat'[v] = chat[v] \/ chat'[v] = Nil
  OBVIOUS
<1>2. Screens'
  <2>1. ASSUME NEW v \in User, page'[v] # Nil PROVE FreshPage(v)'
    <3>1. page'[v] = page[v] /\ FreshPage(v)
      BY <1>1, <2>1 DEF SerialInv, Screens
    <3> QED
      BY <3>1 DEF FreshPage, servers, wires, Holds
  <2>2. ASSUME NEW v \in User, chat'[v] # Nil
        PROVE  Holds(v, chat[v])' /\ group'[chat'[v]].name
    <3>1. chat'[v] = chat[v] /\ Holds(v, chat[v]) /\ group[chat[v]].name
      BY <1>1, <2>2 DEF SerialInv, Screens
    <3> QED
      BY <3>1 DEF servers, Holds
  <2>3. \A v \in User : Looks(v)' => Looks(v)
    BY <1>1 DEF Looks
  <2> QED
    BY <1>1, <2>1, <2>2, <2>3 DEF SerialInv, Screens, Looks
<1>3. NoCrash'
  BY DEF SerialInv, NoCrash
<1>4. \A q \in Post : Story(q) => Story(q)'
  BY Same
<1>5. \A v \in User : Idle(v) => Idle(v)'
  BY DEF wires, Idle
<1>6. \A q \in Post : Unseen(q) => Unseen(q)'
  BY <1>1, RecruitmentAssumption DEF Unseen
<1>7. AtRest => AtRest'
  BY <1>4, <1>5 DEF AtRest, Quiet
<1>8. \A u \in User, q \in Post : Acting(u, q) => Acting(u, q)'
  BY <1>6, ActingStays
<1>9. \A u \in User, q \in Post : Alone(u, q) => Alone(u, q)'
  BY <1>4, <1>5, <1>8 DEF Alone
<1> QED
  BY <1>2, <1>3, <1>7, <1>9 DEF SerialInv

LEMMA OpenPageKept ==
    ASSUME TypeOK, SerialInv, Serial, NEW u \in User, NEW p \in Post, NEW viaSearch \in BOOLEAN,
           OpenPage(u, p, viaSearch)
    PROVE  SerialInv'
<1>1. Quiet /\ AtRest /\ \A v \in User : page[v] = Nil /\ chat[v] = Nil
  BY StartsAtRest DEF OpenPage, MayBrowse, Serial
<1>2. rt[u] = <<>> /\ fs[u] = <<>> /\ asked[u] = NothingAsked
  BY <1>1 DEF Quiet, Idle
<1>3. Complete(recruit[p]) /\ viaSearch = FALSE
  BY DEF OpenPage, Serial
<1>4. Running(p)
  <2>1. recruit[p] # NoRecruit
    BY <1>3 DEF Complete, NoRecruit
  <2> QED
    BY <1>1, <2>1 DEF AtRest, Story, Untouched, Over, Gone, Exists
<1>5. /\ recruit[p].uid \in User /\ recruit[p].cur \in Int /\ recruit[p].max \in Int
      /\ recruit[p].max = seats[p]
  BY <1>3, <1>4 DEF Complete, TypeOK, Recruit, Running, Tells
<1>6. PICK h : h = [post |-> p, writer |-> recruit[p].uid, cur |-> recruit[p].cur,
                    max |-> recruit[p].max, search |-> FALSE, joinable |-> TRUE]
  OBVIOUS
<1>7. h \in Page /\ h.post = p /\ ~h.search /\ h.cur = recruit[p].cur /\ h.max = recruit[p].max
  BY <1>5, <1>6 DEF Page
<1>8. h # Nil
  BY <1>7, PageAssumption
<1>9. page' = [page EXCEPT ![u] = h]
  BY <1>3, <1>6 DEF OpenPage
<1> DEFINE e == Rt(u, "check", p)
<1>10. /\ rt' = Queue(rt, u, <<e>>) /\ UNCHANGED servers
       /\ UNCHANGED <<chat, fs, asked, seats, removed, crashed>>
  BY DEF OpenPage, history
<1> HIDE DEF e
<1>11. page'[u] = h /\ \A v \in User \ {u} : page'[v] = Nil
  BY <1>1, <1>9 DEF TypeOK
<1>12. rt'[u] = <<e>> /\ \A v \in User \ {u} : rt'[v] = rt[v]
  BY <1>2, <1>10, QueuedAlone
<1>13. FreshPage(u)'
  <2>1. page'[u].post = p /\ recruit'[p] = recruit[p] /\ seats'[p] = seats[p]
    BY <1>7, <1>10, <1>11 DEF servers
  <2>2. rt'[u] = <<Rt(u, "check", p)>>
    BY <1>12 DEF e
  <2>3. recruit[p].uid # Nil
    BY <1>3 DEF Complete
  <2> QED
    BY <1>5, <1>7, <1>11, <2>1, <2>2, <2>3 DEF FreshPage
<1>14. Screens'
  BY <1>1, <1>10, <1>11, <1>13 DEF Screens, Looks
<1>15. Running(p)'
  BY <1>4, <1>10 DEF Running, Tells, Room, Listed, servers
<1>16. InCheck(u, p)'
  BY <1>2, <1>10, <1>12, <1>15 DEF InCheck, InRead, e
<1>17. Elsewhere(p) /\ Mine(u)
  BY <1>10, <1>12 DEF Elsewhere, Mine, servers, Holds
<1>18. (\A v \in User \ {u} : Idle(v)') /\ (\A q \in Post \ {p} : Story(q)')
  BY <1>1, <1>17, OthersStay DEF Quiet, AtRest
<1>19. Alone(u, p)'
  BY <1>16, <1>18 DEF Alone, Acting
<1>20. NoCrash'
  BY <1>10 DEF SerialInv, NoCrash
<1> QED
  BY <1>14, <1>19, <1>20 DEF SerialInv

LEMMA OpenChatKept ==
    ASSUME TypeOK, SerialInv, Serial, NEW u \in User, NEW p \in Post, OpenChat(u, p)
    PROVE  SerialInv'
<1>1. Quiet /\ AtRest /\ \A v \in User : page[v] = Nil /\ chat[v] = Nil
  BY StartsAtRest DEF OpenChat, MayBrowse, Serial
<1>2. /\ p \in userGroups[u] /\ group[p].name /\ chat' = [chat EXCEPT ![u] = p]
      /\ UNCHANGED servers /\ UNCHANGED wires /\ UNCHANGED <<page, seats, removed, crashed>>
  BY DEF OpenChat, history
<1>3. chat'[u] = p /\ \A v \in User \ {u} : chat'[v] = Nil
  BY <1>1, <1>2 DEF TypeOK
<1>4. Screens'
  BY <1>1, <1>2, <1>3 DEF Screens, Looks, Holds, servers
<1>5. Quiet'
  BY <1>1, <1>2 DEF Quiet, Idle, wires
<1>6. AtRest'
  BY <1>1, <1>2, <1>5, Same DEF AtRest
<1>7. NoCrash'
  BY <1>2 DEF SerialInv, NoCrash
<1> QED
  BY <1>4, <1>6, <1>7 DEF SerialInv

(* No document and no room is there in part, at any time.                  *)
Whole(p) == /\ recruit[p] = NoRecruit \/ Complete(recruit[p])
            /\ group[p] = NoGroup \/ group[p].name

LEMMA ToldWhole ==
    ASSUME TypeOK, NEW p \in Post, NEW d, NEW s, Tells(d, s, p)
    PROVE  Complete(d)
<1>1. d.uid # Nil /\ d.cur = Len(s) /\ d.max = seats[p] /\ s \in Seq(User)
  BY DEF Tells
<1>2. Len(s) \in Int /\ seats[p] \in Int
  BY <1>1 DEF TypeOK
<1> QED
  BY <1>1, <1>2, RecruitmentAssumption DEF Complete

LEMMA AllWhole ==
    ASSUME TypeOK, SerialInv, NEW p \in Post
    PROVE  Whole(p)
<1>1. Story(p) => Whole(p)
  BY ToldWhole DEF Story, Untouched, Running, Over, Gone, Exists, Room, Whole
<1>2. CASE AtRest
  BY <1>1, <1>2 DEF AtRest
<1>3. ASSUME NEW u \in User, Acting(u, p)
      PROVE  Whole(p)
  <2>1. CASE InCheck(u, p) \/ InAsk(u, p)
    BY <1>1, <2>1 DEF InCheck, InAsk, InRead, Story
  <2>2. CASE InEdit(u, p)
    <3>1. PICK m \in Nat, d \in Recruit, s \in Seq(User), x \in {"queued", "done"} :
            /\ d.max \in Int /\ Tells([d EXCEPT !.max = m], s, p)
            /\ Half(u, p, x, EditDoc(p, d, m), "done", ListPlan("none", s, s))
            /\ Room(p, Len(s), Those(s))
      BY <2>2 DEF InEdit
    <3>2. PICK e : e = [d EXCEPT !.max = m]
      OBVIOUS
    <3>3. Complete(e)
      BY <3>1, <3>2, ToldWhole
    <3>4. e.uid = d.uid /\ e.cur = d.cur
      BY <3>2 DEF Recruit
    <3>5. Complete(d)
      BY <3>1, <3>3, <3>4, RecruitmentAssumption DEF Complete
    <3>6. recruit[p] = d \/ recruit[p] = e
      BY <3>1, <3>2 DEF Half, EditDoc, DocPlan
    <3> QED
      BY <3>1, <3>3, <3>5, <3>6 DEF Whole, Room
  <2>3. CASE InCreate(u, p)
    <3>1. PICK m \in Nat \ {0}, x \in {"queued", "done"}, y \in {"queued", "done"} :
            /\ seats[p] = m
            /\ Half(u, p, x, CreateDoc(u, p, m), y, CreateList(u)) /\ CreateRt(u, p)
      BY <2>3 DEF InCreate
    <3>2. recruit[p] = NoRecruit \/ recruit[p] = First(u, m)
      BY <3>1 DEF Half, CreateDoc, DocPlan
    <3>3. Tells(First(u, m), <<u>>, p)
      BY <3>1, Founded
    <3>4. Complete(First(u, m))
      BY <3>3, ToldWhole
    <3> QED
      BY <3>1, <3>2, <3>4 DEF Whole, CreateRt, NewRoom
  <2>4. CASE InJoin(u, p)
    <3>1. PICK d \in Recruit, s \in Seq(User), x \in {"queued", "done"}, y \in Stage :
            /\ Tells(d, s, p) /\ u \notin Those(s)
            /\ Half(u, p, x, JoinDoc(p, d), y, JoinList(u, s)) /\ JoinRt(u, p, s)
      BY <2>4 DEF InJoin
    <3>2. recruit[p] = d \/ recruit[p] = Raised(d)
      BY <3>1 DEF Half, JoinDoc, DocPlan
    <3>3. Tells(Raised(d), Append(s, u), p)
      BY <3>1, Enrolled
    <3>4. Complete(d) /\ Complete(Raised(d))
      BY <3>1, <3>3, ToldWhole
    <3>5. group[p].name
      BY <3>1 DEF JoinRt, Room
    <3> QED
      BY <3>2, <3>4, <3>5 DEF Whole
  <2>5. CASE InExit(u, p)
    <3>1. PICK d \in Recruit, s \in Seq(User), x \in Stage, y \in Stage :
            /\ Tells(d, s, p) /\ u \in Those(s) /\ Len(s) > 1
            /\ Half(u, p, x, ExitDoc(p, d), y, ExitList(u, s)) /\ ExitRt(u, p, s)
      BY <2>5 DEF InExit
    <3>2. recruit[p] = d \/ recruit[p] = LoweredByOne(d)
      BY <3>1 DEF Half, ExitDoc, DocPlan
    <3>3. Tells(LoweredByOne(d), WithoutFirst(s, u), p)
      BY <3>1, Struck
    <3>4. Complete(d) /\ Complete(LoweredByOne(d))
      BY <3>1, <3>3, ToldWhole
    <3>5. group[p].name
      BY <3>1 DEF ExitRt, Room
    <3> QED
      BY <3>2, <3>4, <3>5 DEF Whole
  <2>6. ASSUME NEW k \in {"delete", "close"}, InEnd(u, p, k)
        PROVE  Whole(p)
    <3>1. PICK d \in Recruit, s \in Seq(User), x \in {"queued", "done"}, y \in Stage :
            /\ Tells(d, s, p)
            /\ Half(u, p, x, EndDoc(p, d), y, EndList(k, s)) /\ EndRt(u, p, k, s, y)
      BY <2>6 DEF InEnd
    <3>2. recruit[p] = d \/ recruit[p] = NoRecruit
      BY <3>1 DEF Half, EndDoc, DocPlan
    <3>3. Complete(d)
      BY <3>1, ToldWhole
    <3>4. group[p].name \/ group[p] = NoGroup
      BY <3>1 DEF EndRt
    <3> QED
      BY <3>2, <3>3, <3>4 DEF Whole
  <2> QED
    BY <1>3, <2>1, <2>2, <2>3, <2>4, <2>5, <2>6 DEF Acting
<1>4. ASSUME NEW u \in User, NEW q \in Post, Alone(u, q)
      PROVE  Whole(p)
  BY <1>1, <1>3, <1>4 DEF Alone
<1> QED
  BY <1>2, <1>4 DEF SerialInv

LEMMA BrowseKept ==
    ASSUME TypeOK, SerialInv, Serial, NEW u \in User, Browse(u)
    PROVE  SerialInv'
<1>1. CASE ClosePage(u) \/ PopChat(u)
  <2>1. /\ UNCHANGED servers /\ UNCHANGED wires /\ UNCHANGED <<seats, removed, crashed>>
        /\ \/ page' = [page EXCEPT ![u] = Nil] /\ chat' = chat
           \/ chat' = [chat EXCEPT ![u] = Nil] /\ page' = page
    BY <1>1 DEF ClosePage, PopChat, history
  <2>2. \A v \in User : page'[v] \in {page[v], Nil} /\ chat'[v] \in {chat[v], Nil}
    BY <2>1 DEF TypeOK
  <2> QED
    BY <2>1, <2>2, ShutKept
<1>2. \A p \in Post : Whole(p)
  BY AllWhole
<1>3. ~FetchPartialPost(u)
  BY <1>2 DEF FetchPartialPost, Whole, Exists
<1>4. ~ListPartialRoom(u)
  BY <1>2 DEF ListPartialRoom, Whole, TypeOK
<1> QED
  BY <1>1, <1>3, <1>4, OpenPageKept, OpenChatKept DEF Browse
-----------------------------------------------------------------------------
(* The invariant.                                                          *)

LEMMA SerialInit == Init => SerialInv
<1> SUFFICES ASSUME Init PROVE SerialInv
  OBVIOUS
<1>1. Quiet
  BY DEF Init, Quiet, Idle
<1>2. \A p \in Post : Untouched(p)
  BY DEF Init, Untouched, Gone, Exists, Listed
<1>3. Screens
  BY DEF Init, Screens, Looks
<1> QED
  BY <1>1, <1>2, <1>3 DEF SerialInv, AtRest, Story, NoCrash, Init

LEMMA SerialNext == TypeOK /\ SerialInv /\ Serial /\ [Next]_vars => SerialInv'
<1> SUFFICES ASSUME TypeOK, SerialInv, Serial, [Next]_vars PROVE SerialInv'
  OBVIOUS
<1>1. CASE UNCHANGED vars
  <2>1. \A v \in User : page'[v] \in {page[v], Nil} /\ chat'[v] \in {chat[v], Nil}
    BY <1>1 DEF vars, screens
  <2>2. UNCHANGED servers /\ UNCHANGED wires /\ UNCHANGED <<seats, removed, crashed>>
    BY <1>1 DEF vars, history
  <2> QED
    BY <2>1, <2>2, ShutKept
<1>2. ASSUME NEW u \in User, Tap(u) \/ Browse(u) \/ Network(u) \/ ReadFails(u) \/ Kill(u)
      PROVE  SerialInv'
  <2>1. ~ReadFails(u) /\ ~Kill(u)
    BY DEF ReadFails, Kill, Serial
  <2>2. CASE Network(u)
    BY <2>2, RealtimeKept, CommitKept, AnswerKept DEF Network
  <2> QED
    BY <1>2, <2>1, <2>2, TapKept, BrowseKept
<1> QED
  BY <1>1, <1>2 DEF Next

(* One operation after another, every state is one of those that SerialInv *)
(* describes: at most one student has an operation under way, each of its  *)
(* two chains is at a known place, and what a screen copied is still so.   *)
THEOREM SerialCorrect == Serial => (Spec => []SerialInv)
<1> SUFFICES ASSUME Serial PROVE Spec => []SerialInv
  OBVIOUS
<1>1. Init => SerialInv
  BY SerialInit
<1>2. TypeOK /\ SerialInv /\ [Next]_vars => SerialInv'
  BY SerialNext
<1> QED
  BY <1>1, <1>2, TypeCorrect, PTL DEF Spec

(* While operations do not overlap, no callback meets a nil or a field     *)
(* that is not there: the app never traps.                                 *)
THEOREM NoCrashSerial == Serial => (Spec => []NoCrash)
<1> SUFFICES ASSUME Serial PROVE Spec => []NoCrash
  OBVIOUS
<1>1. Spec => []SerialInv
  BY SerialCorrect
<1>2. SerialInv => NoCrash
  BY DEF SerialInv
<1> QED
  BY <1>1, <1>2, PTL

(* What SerialInv says of a state in which nothing is in flight.           *)
LEMMA StoriesAgree == TypeOK /\ SerialInv => DatabasesAgree
<1> SUFFICES ASSUME TypeOK, SerialInv, Quiet, NEW p \in Post
             PROVE  /\ Open(p) \/ Gone(p)
                    /\ Open(p) => /\ recruit[p].cur = Len(members[p])
                                  /\ group[p].cur = Len(members[p])
                                  /\ Members(p) = Listed(p)
                                  /\ Len(members[p]) = Cardinality(Listed(p))
                                  /\ recruit[p].max = seats[p]
                    /\ p \in removed => Gone(p) /\ Listed(p) = {}
  BY DEF DatabasesAgree, PostAndRoomTogether, CountersAgree, MembersHaveTheRoom,
         DeletedStaysDeleted, LastEditWins, TypeOK
<1>1. Story(p)
  BY Rested DEF AtRest
<1>2. CASE Untouched(p) \/ Over(p)
  BY <1>2 DEF Untouched, Over, Gone, Open
<1>3. CASE Running(p)
  <2>1. PICK s : s = members[p]
    OBVIOUS
  <2>2. /\ s # Nil /\ Tells(recruit[p], s, p) /\ p \notin removed
        /\ group[p].name /\ group[p].cur = Len(s) /\ Listed(p) = Those(s)
    BY <1>3, <2>1 DEF Running, Room
  <2>3. /\ s \in Seq(User) /\ Once(s) /\ recruit[p].cur = Len(s) /\ recruit[p].max = seats[p]
    BY <2>2 DEF Tells
  <2>4. Cardinality(Those(s)) = Len(s)
    BY <2>3, Counted
  <2>5. DOMAIN s = 1..Len(s)
    BY <2>3
  <2>6. Members(p) = Those(s)
    BY <2>1, <2>5 DEF Members, Those
  <2>7. Complete(recruit[p])
    BY <2>2, ToldWhole
  <2> QED
    BY <2>1, <2>2, <2>3, <2>4, <2>6, <2>7 DEF Open
<1> QED
  BY <1>1, <1>2, <1>3 DEF Story

(* Between two operations the databases, written by a chain of requests    *)
(* each, tell one story of every post: it has a room or is gone, both      *)
(* counters and both lists of members agree, edits and deletions are whole.*)
THEOREM DatabasesAgreeSerial == Serial => (Spec => []DatabasesAgree)
<1> SUFFICES ASSUME Serial PROVE Spec => []DatabasesAgree
  OBVIOUS
<1>1. Spec => []SerialInv
  BY SerialCorrect
<1> QED
  BY <1>1, StoriesAgree, TypeCorrect, PTL

(* One operation after another, a post never has more members than the     *)
(* largest capacity its author offered.                                    *)
THEOREM NoOverbookingSerial == Serial => (Spec => []NoOverbooking)
<1> SUFFICES ASSUME Serial PROVE Spec => []NoOverbooking
  OBVIOUS
<1>1. DatabasesAgree /\ CounterWithinCapacity => NoOverbooking
  <2> SUFFICES ASSUME DatabasesAgree, CounterWithinCapacity, Quiet, NEW p \in Post, Open(p)
               PROVE  Len(members[p]) <= mostSeats[p]
    BY DEF NoOverbooking
  <2>1. recruit[p].cur = Len(members[p]) /\ recruit[p].cur # Nil
    BY DEF DatabasesAgree, CountersAgree, Open, Complete
  <2> QED
    BY <2>1 DEF CounterWithinCapacity
<1> QED
  BY <1>1, DatabasesAgreeSerial, CountersBounded, PTL
-----------------------------------------------------------------------------
(***************************************************************************)
(* One operation after another implements Roster.  Only a tap that offers  *)
(* seats and the commit of a member list are steps of it; every other step *)
(* leaves the phase and the roster of every post alone.                    *)
(***************************************************************************)
Announces(w, p) == w.doc = "members" /\ w.post = p /\ w.users # Nil

LEMMA AnnouncedBy ==
    \A p : Announced(p) <=> \E u \in User : \E i \in DOMAIN fs[u] : Announces(fs[u][i], p)
BY DEF Announced, Announces

LEMMA AnnouncedNext ==
    \A p : Announced(p)' <=> \E u \in User : \E i \in DOMAIN fs'[u] : Announces(fs'[u][i], p)
BY DEF Announced, Announces

LEMMA AnnouncedMore ==
    ASSUME TypeOK, NEW u \in User, NEW w, fs' = Queue(fs, u, <<w>>)
    PROVE  \A q : Announced(q)' <=> (Announced(q) \/ Announces(w, q))
<1>1. PICK s \in Seq(FsWrite) : s = fs[u]
  BY DEF TypeOK
<1>2. PICK t : t = s \o <<w>>
  OBVIOUS
<1>3. fs'[u] = t /\ \A v \in User \ {u} : fs'[v] = fs[v]
  BY <1>1, <1>2 DEF Queue, TypeOK
<1>4. /\ DOMAIN s = 1..Len(s) /\ DOMAIN t = 1..(Len(s) + 1) /\ Len(s) \in Nat
      /\ t[Len(s) + 1] = w /\ \A i \in 1..Len(s) : t[i] = s[i]
  <2>1. PICK T : T = FsWrite \cup {w}
    OBVIOUS
  <2>2. s \in Seq(T) /\ <<w>> \in Seq(T) /\ Len(<<w>>) = 1 /\ <<w>>[1] = w
    BY <2>1, SeqMonotonic
  <2>3. t \in Seq(T) /\ Len(t) = Len(s) + 1
    BY <1>2, <2>2, ConcatProperties
  <2> QED
    BY <1>2, <2>2, <2>3, ConcatProperties
<1>5. \A q : (\E i \in DOMAIN t : Announces(t[i], q)) <=>
             ((\E i \in DOMAIN s : Announces(s[i], q)) \/ Announces(w, q))
  <2>1. 1..(Len(s) + 1) = (1..Len(s)) \cup {Len(s) + 1}
    BY <1>4
  <2> QED
    BY <1>4, <2>1
<1> QED
  BY <1>1, <1>3, <1>5, AnnouncedBy, AnnouncedNext

LEMMA AnnouncedLess ==
    ASSUME TypeOK, NEW u \in User, fs[u] # <<>>, fs' = [fs EXCEPT ![u] = Tail(@)],
           Head(fs[u]).doc # "members"
    PROVE  \A q : Announced(q)' <=> Announced(q)
<1>1. PICK s \in Seq(FsWrite) : s = fs[u]
  BY DEF TypeOK
<1>2. PICK t : t = Tail(s)
  OBVIOUS
<1>3. fs'[u] = t /\ \A v \in User \ {u} : fs'[v] = fs[v]
  BY <1>1, <1>2 DEF TypeOK
<1>4. PICK n \in Nat : n = Len(s) /\ n # 0
  BY <1>1, EmptySeq
<1>5. /\ DOMAIN s = 1..n /\ DOMAIN t = 1..(n - 1)
      /\ s[1].doc # "members" /\ \A i \in 1..(n - 1) : t[i] = s[i + 1]
  BY <1>1, <1>2, <1>4
<1>6. \A q : ~Announces(s[1], q)
  BY <1>5 DEF Announces
<1>7. \A q : (\E i \in DOMAIN t : Announces(t[i], q)) <=>
             (\E i \in DOMAIN s : Announces(s[i], q))
  <2>1. ASSUME NEW q, NEW i \in DOMAIN t, Announces(t[i], q)
        PROVE  \E j \in DOMAIN s : Announces(s[j], q)
    <3>1. i + 1 \in DOMAIN s /\ t[i] = s[i + 1]
      BY <1>4, <1>5, <2>1
    <3> QED
      BY <2>1, <3>1
  <2>2. ASSUME NEW q, NEW j \in DOMAIN s, Announces(s[j], q)
        PROVE  \E i \in DOMAIN t : Announces(t[i], q)
    <3>1. j # 1
      BY <1>6, <2>2
    <3>2. j - 1 \in DOMAIN t /\ t[j - 1] = s[(j - 1) + 1] /\ (j - 1) + 1 = j
      BY <1>4, <1>5, <2>2, <3>1
    <3> QED
      BY <2>2, <3>2
  <2> QED
    BY <2>1, <2>2
<1> QED
  BY <1>1, <1>3, <1>7, AnnouncedBy, AnnouncedNext

(* Nothing happens to the participants.                                    *)
LEMMA RosterStays ==
    ASSUME UNCHANGED <<members, seats>>,
           \A p \in Post : members[p] # Nil \/ (Announced(p)' <=> Announced(p))
    PROVE  UNCHANGED Participants!vars
<1>1. \A p \in Post : Phase(p)' = Phase(p)
  BY DEF Phase
<1>2. \A p \in Post : members'[p] = members[p] /\ Members(p)' = Members(p)
  BY DEF Members
<1> QED
  BY <1>1, <1>2 DEF Participants!vars

LEMMA QueuesRecruit ==
    ASSUME TypeOK, NEW u \in User, NEW w, w.doc = "recruit" \/ w.users = Nil,
           fs' = Queue(fs, u, <<w>>), UNCHANGED <<members, seats>>
    PROVE  UNCHANGED Participants!vars
<1>1. \A q : ~Announces(w, q)
  BY DEF Announces
<1> QED
  BY <1>1, AnnouncedMore, RosterStays

LEMMA QueuesNone ==
    ASSUME UNCHANGED <<fs, members, seats>>
    PROVE  UNCHANGED Participants!vars
<1>1. \A p \in Post : Announced(p)' <=> Announced(p)
  BY DEF Announced
<1> QED
  BY <1>1, RosterStays

LEMMA RestartRoster == \A u : Restart(u) => UNCHANGED <<fs, members, seats>>
BY DEF Restart, servers

LEMMA RealtimeRoster ==
    ASSUME TypeOK, NEW u \in User, RealtimeStep(u)
    PROVE  UNCHANGED Participants!vars
<1>1. CASE UNCHANGED <<fs, members, seats>>
  BY <1>1, QueuesNone
<1>2. ASSUME UNCHANGED servers, UNCHANGED seats, NEW p,
             fs' = Queue(fs, u, <<SetRecruit(p, NoRecruit)>>)
      PROVE  UNCHANGED Participants!vars
  <2>1. SetRecruit(p, NoRecruit).doc = "recruit"
    BY DEF SetRecruit
  <2> QED
    BY <1>2, <2>1, QueuesRecruit DEF servers
<1>3. CASE GotGroup(u)
  <2>1. PICK p : p = Head(rt[u]).post
    OBVIOUS
  <2>2. CASE fs' = Queue(fs, u, <<SetRecruit(p, NoRecruit)>>) /\ UNCHANGED servers /\ UNCHANGED seats
    BY <1>2, <2>2
  <2> QED
    BY <1>1, <1>3, <2>1, <2>2, RestartRoster DEF GotGroup, Crash, servers, history
<1>4. CASE List(u) \/ Unlist(u) \/ WriteGroup(u) \/ WriteGroups(u)
  BY <1>1, <1>4 DEF List, Unlist, WriteGroup, WriteGroups, history
<1>5. CASE GotID(u) \/ GotCheck(u) \/ GotUser(u) \/ GotGroups(u)
  BY <1>1, <1>5, RestartRoster DEF GotID, GotCheck, GotUser, GotGroups, Crash, servers, history
<1> QED
  BY <1>3, <1>4, <1>5 DEF RealtimeStep

LEMMA AnswerRoster ==
    ASSUME TypeOK, NEW u \in User, NEW p \in Post, FirestoreAnswer(u, p)
    PROVE  UNCHANGED Participants!vars
<1>1. CASE UNCHANGED <<fs, members, seats>>
  BY <1>1, QueuesNone
<1>2. CASE Crash(u)
  BY <1>1, <1>2, RestartRoster DEF Crash
<1>3. ASSUME UNCHANGED servers, UNCHANGED seats, members[p] # Nil, NEW s,
             fs' = Queue(fs, u, <<SetMembers(p, s)>>)
      PROVE  UNCHANGED Participants!vars
  <2>1. PICK w : w = SetMembers(p, s)
    OBVIOUS
  <2>2. w.post = p
    BY <2>1 DEF SetMembers
  <2>3. \A q \in Post : q # p => ~Announces(w, q)
    BY <2>2 DEF Announces
  <2>4. \A q \in Post : q # p => (Announced(q)' <=> Announced(q))
    BY <1>3, <2>1, <2>3, AnnouncedMore
  <2> QED
    BY <1>3, <2>4, RosterStays DEF servers
<1>4. CASE AnswerAppend(u, p)
  <2>1. PICK s : s = Append(members[p], u)
    OBVIOUS
  <2>2. \/ Crash(u)
        \/ /\ members[p] # Nil /\ fs' = Queue(fs, u, <<SetMembers(p, s)>>)
           /\ UNCHANGED servers /\ UNCHANGED seats
    BY <1>4, <2>1 DEF AnswerAppend, history
  <2> QED
    BY <1>2, <1>3, <2>2
<1>5. CASE AnswerRemove(u, p)
  <2>1. PICK s : s = WithoutFirst(members[p], u)
    OBVIOUS
  <2>2. \/ Crash(u)
        \/ /\ members[p] # Nil /\ fs' = Queue(fs, u, <<SetMembers(p, s)>>)
           /\ UNCHANGED servers /\ UNCHANGED seats
    BY <1>5, <2>1 DEF AnswerRemove, history
  <2> QED
    BY <1>2, <1>3, <2>2
<1>6. CASE AnswerDecrement(u, p)
  <2>1. PICK w : w = SetRecruit(p, LoweredByOne(recruit[p]))
    OBVIOUS
  <2>2. w.doc = "recruit"
    BY <2>1 DEF SetRecruit
  <2>3. \/ Crash(u)
        \/ fs' = Queue(fs, u, <<w>>) /\ UNCHANGED servers /\ UNCHANGED seats
    BY <1>6, <2>1 DEF AnswerDecrement, history
  <2> QED
    BY <1>2, <2>2, <2>3, QueuesRecruit DEF servers
<1>7. ASSUME NEW k, NEW strip, AnswerMembers(u, p, k, strip)
      PROVE  UNCHANGED Participants!vars
  <2>1. \/ Crash(u)
        \/ /\ members[p] # Nil /\ fs' = Queue(fs, u, <<SetMembers(p, Nil)>>)
           /\ UNCHANGED servers /\ UNCHANGED seats
    BY <1>7 DEF AnswerMembers, history
  <2> QED
    BY <1>2, <1>3, <2>1
<1> QED
  BY <1>4, <1>5, <1>6, <1>7 DEF FirestoreAnswer

LEMMA TapRoster ==
    ASSUME TypeOK, SerialInv, Serial, NEW u \in User, Tap(u)
    PROVE  [Participants!Next]_Participants!vars
<1>1. ASSUME NEW p \in Post, NEW m \in 2..MaxSeats, Create(u, p, m)
      PROVE  Participants!Next
  <2>1. Quiet
    BY <1>1, StartsAtRest DEF Create
  <2>2. rt[u] = <<>> /\ \A v \in User : fs[v] = <<>>
    BY <2>1 DEF Quiet, Idle
  <2> DEFINE a == SetRecruit(p, [uid |-> u, cur |-> 1, max |-> m])
             b == SetMembers(p, <<u>>)
  <2>3. /\ fs' = Queue(fs, u, <<a, b>>) /\ seats' = [seats EXCEPT ![p] = m]
        /\ seats[p] = 0 /\ UNCHANGED members
    BY <1>1 DEF Create, servers
  <2>4. /\ b.doc = "members" /\ b.post = p /\ b.users # Nil
        /\ a.doc = "recruit"
    <3>1. <<u>> # Nil
      <4>1. <<u>> \in Seq(User)
        OBVIOUS
      <4> QED
        BY <4>1, RecruitmentAssumption
    <3> QED
      BY <3>1 DEF SetRecruit, SetMembers
  <2>5. Announces(b, p) /\ (\A q : ~Announces(a, q)) /\ (\A q : q # p => ~Announces(b, q))
    BY <2>4 DEF Announces
  <2> HIDE DEF a, b
  <2>6. fs'[u] = <<a, b>> /\ \A v \in User \ {u} : fs'[v] = <<>>
    BY ZenonT(40), <2>2, <2>3, QueuedAlone
  <2>7. \A q : ~Announced(q)
    BY <2>2, AnnouncedBy
  <2>8. DOMAIN <<a, b>> = {1, 2} /\ <<a, b>>[1] = a /\ <<a, b>>[2] = b /\ DOMAIN <<>> = {}
    OBVIOUS
  <2>9. Announced(p)'
    BY <2>5, <2>6, <2>8, AnnouncedNext
  <2>10. \A q : q # p => ~Announced(q)'
    BY <2>5, <2>6, <2>8, AnnouncedNext
  <2>11. \A q \in Post : Phase(q)' = Phase(q)
    BY <2>3, <2>7, <2>9, <2>10 DEF Phase, TypeOK
  <2>12. Phase(p) # "closed"
    BY <2>3 DEF Phase
  <2>13. \A q \in Post : members'[q] = members[q] /\ Members(q)' = Members(q)
    BY <2>3 DEF Members
  <2>14. Participants!Offer(p, m)
    BY <2>3, <2>11, <2>12, <2>13 DEF Participants!Offer
  <2> QED
    BY <2>14 DEF Participants!Next
<1>2. CASE Join(u)
  <2>1. PICK p, n : p = page[u].post /\ n = page[u].cur + 1
    OBVIOUS
  <2>2. PICK w : w = MergeRecruit(p, [NoRecruit EXCEPT !.cur = n])
    OBVIOUS
  <2>3. w.doc = "recruit"
    BY <2>2 DEF MergeRecruit, SetRecruit
  <2>4. /\ UNCHANGED <<members, seats>>
        /\ fs' = fs \/ fs' = Queue(fs, u, <<w>>)
    BY <1>2, <2>1, <2>2 DEF Join, servers
  <2> QED
    BY <2>3, <2>4, QueuesNone, QueuesRecruit
<1>3. ASSUME NEW m \in 2..MaxSeats, Edit(u, m)
      PROVE  Participants!Next
  <2>1. Quiet /\ AtRest /\ page[u] # Nil
    BY <1>3, StartsAtRest DEF Edit
  <2>2. PICK p \in Post : p = page[u].post /\ Running(p)
    BY <2>1, PageTells
  <2>3. PICK w : w = MergeRecruit(p, [uid |-> Nil, cur |-> page[u].cur, max |-> m])
    OBVIOUS
  <2>4. w.doc = "recruit"
    BY <2>3 DEF MergeRecruit, SetRecruit
  <2>5. fs' = Queue(fs, u, <<w>>) /\ seats' = [seats EXCEPT ![p] = m] /\ UNCHANGED members
    BY <1>3, <2>2, <2>3 DEF Edit, servers
  <2>6. \A q : ~Announces(w, q)
    BY <2>4 DEF Announces
  <2>7. \A q : Announced(q)' <=> Announced(q)
    BY <2>5, <2>6, AnnouncedMore
  <2>8. members[p] # Nil
    BY <2>2 DEF Running
  <2>9. \A q \in Post : Phase(q)' = Phase(q)
    BY <2>5, <2>7, <2>8 DEF Phase, TypeOK
  <2>10. Phase(p) # "closed"
    BY <2>8 DEF Phase
  <2>11. \A q \in Post : members'[q] = members[q] /\ Members(q)' = Members(q)
    BY <2>5 DEF Members
  <2>12. Participants!Offer(p, m)
    BY <2>5, <2>9, <2>10, <2>11 DEF Participants!Offer
  <2> QED
    BY <2>12 DEF Participants!Next
<1>4. CASE DeletePost(u)
  <2>1. PICK w : w = SetRecruit(page[u].post, NoRecruit)
    OBVIOUS
  <2>2. w.doc = "recruit"
    BY <2>1 DEF SetRecruit
  <2>3. UNCHANGED <<members, seats>> /\ fs' = Queue(fs, u, <<w>>)
    BY <1>4, <2>1 DEF DeletePost, servers
  <2> QED
    BY <2>2, <2>3, QueuesRecruit
<1>5. CASE Leave(u) \/ \E p \in Post : SwipeDelete(u, p)
  <2>1. UNCHANGED <<fs, members, seats>>
    BY <1>5 DEF Leave, SwipeDelete, servers
  <2> QED
    BY <2>1, QueuesNone
<1> QED
  BY <1>1, <1>2, <1>3, <1>4, <1>5 DEF Tap

LEMMA BrowseRoster ==
    ASSUME NEW u \in User, Browse(u)
    PROVE  UNCHANGED Participants!vars
<1>1. UNCHANGED <<fs, members, seats>>
  <2>1. CASE FetchPartialPost(u) \/ ListPartialRoom(u)
    BY <2>1, RestartRoster DEF FetchPartialPost, ListPartialRoom, Crash
  <2>2. CASE \E p \in Post, s \in BOOLEAN : OpenPage(u, p, s)
    BY <2>2 DEF OpenPage, servers, history
  <2>3. CASE ClosePage(u) \/ PopChat(u) \/ \E p \in Post : OpenChat(u, p)
    BY <2>3 DEF ClosePage, PopChat, OpenChat, servers, wires, history
  <2> QED
    BY <2>1, <2>2, <2>3 DEF Browse
<1> QED
  BY <1>1, QueuesNone

(* A member list reaches its document: its write was the only one that     *)
(* announced a list, and the list was the one it replaces.                 *)
LEMMA ListCommitted ==
    ASSUME TypeOK, NEW u \in User, NEW p \in Post, NEW x \in Stage, NEW y \in Stage,
           NEW a, NEW b, Half(u, p, x, a, y, b), a.write.doc = "recruit",
           \A v \in User \ {u} : Idle(v),
           Commit(u), Head(fs[u]).doc = "members"
    PROVE  /\ y = "queued" /\ members[p] = b.old /\ members' = [members EXCEPT ![p] = b.new]
           /\ (\A q : ~Announced(q)') /\ (\A q \in Post \ {p} : ~Announced(q))
           /\ b.new # Nil => Announced(p)
           /\ UNCHANGED seats
<1>1. PICK w : w = SetMembers(p, b.new)
  OBVIOUS
<1>2. w.doc = "members" /\ w.post = p /\ w.users = b.new
  BY <1>1 DEF SetMembers
<1>3. PICK z : z = a.write
  OBVIOUS
<1>4. PICK s \in Seq(FsWrite) : s = fs[u]
  BY DEF TypeOK
<1>5. Queued(s, x, z, y, w) /\ s # <<>> /\ Head(s).doc = "members" /\ z.doc = "recruit"
  BY <1>1, <1>3, <1>4 DEF Half, Commit
<1>6. y = "queued" /\ Head(s) = w /\ Queued(Tail(s), x, z, "done", w)
  BY <1>5, QueuedHead
<1>7. Tail(s) = <<>> \/ Tail(s) = <<z>>
  BY <1>6 DEF Queued
<1>8. s[1] = w /\ 1 \in DOMAIN s
  <2>1. Len(s) \in Nat /\ Len(s) # 0 /\ DOMAIN s = 1..Len(s)
    BY <1>5, EmptySeq
  <2> QED
    BY <1>5, <1>6, <2>1
<1>9. \A i \in DOMAIN s : s[i] = w \/ s[i] = z
  <2>1. CASE s = <<z, w>> \/ s = <<w, z>>
    BY <2>1
  <2>2. CASE s = <<z>> \/ s = <<w>>
    BY <2>2
  <2> QED
    BY <1>5, <2>1, <2>2 DEF Queued
<1>10. /\ fs'[u] = Tail(s) /\ \A v \in User \ {u} : fs'[v] = fs[v] /\ fs[v] = <<>>
  BY <1>4 DEF Commit, TypeOK, Idle
<1>11. \A q : ~Announces(z, q) /\ (Announces(w, q) <=> q = p /\ b.new # Nil)
  BY <1>2, <1>5 DEF Announces
<1>12. /\ DOMAIN <<>> = {} /\ DOMAIN <<z>> = {1} /\ <<z>>[1] = z
  OBVIOUS
<1>13. \A q : ~Announced(q)'
  <2>1. PICK t : t = Tail(s)
    OBVIOUS
  <2>2. \A i \in DOMAIN t : t[i] = z
    BY <1>7, <1>12, <2>1
  <2>3. \A q : \A i \in DOMAIN t : ~Announces(t[i], q)
    BY <1>11, <2>2
  <2>4. \A v \in User : \A q : \A i \in DOMAIN fs'[v] : ~Announces(fs'[v][i], q)
    <3>1. ASSUME NEW v \in User \ {u}, NEW i \in DOMAIN fs'[v] PROVE FALSE
      BY <1>10, <1>12, <3>1
    <3> QED
      BY <1>10, <2>1, <2>3, <3>1
  <2> QED
    BY <2>4, AnnouncedNext
<1>14. \A q \in Post \ {p} : ~Announced(q)
  BY <1>4, <1>9, <1>10, <1>11, <1>12, AnnouncedBy
<1>15. b.new # Nil => Announced(p)
  BY <1>4, <1>8, <1>11, AnnouncedBy
<1>16. members' = [members EXCEPT ![p] = b.new] /\ UNCHANGED seats
  BY <1>2, <1>4, <1>6 DEF Commit, history
<1>17. members[p] = b.old
  BY <1>6 DEF Half
<1> QED
  BY <1>6, <1>13, <1>14, <1>15, <1>16, <1>17

(* How one post's member list changes, seen as a step of Roster.           *)
InList(t) == {t[i] : i \in DOMAIN t}

Published(p, t) ==
    /\ members' = [members EXCEPT ![p] = t] /\ UNCHANGED seats
    /\ (\A q : ~Announced(q)') /\ (\A q \in Post \ {p} : ~Announced(q))

LEMMA RosterMoves ==
    ASSUME TypeOK, NEW p \in Post, NEW t, Published(p, t)
    PROVE  /\ \A q \in Post : q # p => /\ Phase(q)' = Phase(q) /\ Members(q)' = Members(q)
                                       /\ members'[q] = members[q]
           /\ t # Nil => Phase(p)' = "open"
           /\ t = Nil /\ seats[p] # 0 => Phase(p)' = "closed"
           /\ members'[p] = t /\ Members(p)' = InList(t)
<1>1. members'[p] = t /\ \A q \in Post : q # p => members'[q] = members[q]
  BY DEF TypeOK, Published
<1>2. \A q \in Post : q # p => Phase(q)' = Phase(q) /\ Members(q)' = Members(q)
  BY <1>1 DEF Phase, Members, Published
<1>3. /\ t # Nil => Phase(p)' = "open"
      /\ t = Nil /\ seats[p] # 0 => Phase(p)' = "closed"
  BY <1>1 DEF Phase, Published
<1>4. Members(p)' = InList(t)
  BY <1>1 DEF Members, InList
<1> QED
  BY <1>1, <1>2, <1>3, <1>4

(* Roster counts with the same Cardinality.                                *)
LEMMA SameCardinality == \A S : Participants!Cardinality(S) = Cardinality(S)
BY DEF Participants!Cardinality, Cardinality

LEMMA CommitRoster ==
    ASSUME TypeOK, SerialInv, NEW v \in User, Commit(v)
    PROVE  [Participants!Next]_Participants!vars
<1>1. fs[v] # <<>>
  BY DEF Commit
<1>2. PICK u \in User, p \in Post : Alone(u, p)
  BY <1>1 DEF SerialInv, AtRest, Quiet, Idle
<1>3. v = u
  BY <1>1, <1>2 DEF Alone, Idle
<1>4. Commit(u) /\ fs[u] # <<>>
  BY <1>1, <1>3
<1>5. CASE Head(fs[u]).doc # "members"
  <2>1. UNCHANGED <<members, seats>> /\ fs' = [fs EXCEPT ![u] = Tail(@)]
    BY <1>4, <1>5 DEF Commit, history
  <2>2. \A q : Announced(q)' <=> Announced(q)
    BY <1>4, <1>5, <2>1, AnnouncedLess
  <2> QED
    BY <2>1, <2>2, RosterStays
<1>6. ASSUME Head(fs[u]).doc = "members"
      PROVE  Participants!Next
  <2>1. \A w \in User \ {u} : Idle(w)
    BY <1>2 DEF Alone
  <2>2. PICK ph, ro : /\ ph = [q \in Post |-> Phase(q)]
                      /\ ro = [q \in Post |-> IF members[q] = Nil THEN {} ELSE Members(q)]
    OBVIOUS
  <2>3. CASE InCheck(u, p) \/ InAsk(u, p)
    BY <1>4, <2>3 DEF InCheck, InAsk, InRead
  <2>4. "done" \in Stage /\ "queued" \in Stage
    BY DEF Stage
  <2>5. CASE InEdit(u, p)
    <3>1. PICK m \in Nat, d \in Recruit, s \in Seq(User), x \in {"queued", "done"} :
            Half(u, p, x, EditDoc(p, d, m), "done", ListPlan("none", s, s))
      BY <2>5 DEF InEdit
    <3>2. EditDoc(p, d, m).write.doc = "recruit"
      BY DEF EditDoc, DocPlan, MergeRecruit, SetRecruit
    <3>3. x \in Stage
      BY DEF Stage
    <3> QED
      BY <1>4, <1>6, <2>1, <2>4, <3>1, <3>2, <3>3, ListCommitted
  <2>6. CASE InCreate(u, p)
    <3>1. PICK m \in Nat \ {0}, x \in {"queued", "done"}, y \in {"queued", "done"} :
            /\ seats[p] = m /\ Half(u, p, x, CreateDoc(u, p, m), y, CreateList(u))
      BY <2>6 DEF InCreate
    <3>2. CreateDoc(u, p, m).write.doc = "recruit"
      BY DEF CreateDoc, DocPlan, SetRecruit
    <3>3. x \in Stage /\ y \in Stage
      BY DEF Stage
    <3>4. PICK b : b = CreateList(u)
      OBVIOUS
    <3>5. PICK t : t = <<u>>
      OBVIOUS
    <3>6. b.old = Nil /\ b.new = t
      BY <3>4, <3>5 DEF CreateList, ListPlan
    <3>7. t \in Seq(User) /\ DOMAIN t = {1} /\ t[1] = u
      BY <3>5
    <3>8. t # Nil /\ InList(t) = {u}
      BY <3>7, RecruitmentAssumption DEF InList
    <3>9. /\ members[p] = Nil /\ members' = [members EXCEPT ![p] = t] /\ UNCHANGED seats
          /\ (\A q : ~Announced(q)') /\ (\A q \in Post \ {p} : ~Announced(q)) /\ Announced(p)
      BY <1>4, <1>6, <2>1, <3>1, <3>2, <3>3, <3>4, <3>6, <3>8, ListCommitted
    <3>10. ph[p] = "new"
      BY <2>2, <3>9 DEF Phase
    <3>11. /\ [q \in Post |-> Phase(q)]' = [ph EXCEPT ![p] = "open"]
           /\ [q \in Post |-> IF members[q] = Nil THEN {} ELSE Members(q)]'
                  = [ro EXCEPT ![p] = {u}]
      <4>1. /\ \A q \in Post : q # p => /\ Phase(q)' = Phase(q) /\ Members(q)' = Members(q)
                                        /\ members'[q] = members[q]
            /\ Phase(p)' = "open" /\ members'[p] = t /\ Members(p)' = InList(t)
        <5>1. Published(p, t)
          BY <3>9 DEF Published
        <5> QED
          BY <3>8, <5>1, RosterMoves
      <4> QED
        BY <2>2, <3>8, <4>1
    <3>12. Participants!Start(u, p)
      BY <2>2, <3>1, <3>9, <3>10, <3>11 DEF Participants!Start
    <3> QED
      BY <3>12 DEF Participants!Next
  <2>7. CASE InJoin(u, p)
    <3>1. PICK d \in Recruit, s \in Seq(User), x \in {"queued", "done"}, y \in Stage :
            /\ Tells(d, s, p) /\ u \notin Those(s) /\ Len(s) < seats[p]
            /\ Half(u, p, x, JoinDoc(p, d), y, JoinList(u, s))
      BY <2>7 DEF InJoin
    <3>2. JoinDoc(p, d).write.doc = "recruit"
      BY DEF JoinDoc, DocPlan, MergeRecruit, SetRecruit
    <3>3. x \in Stage
      BY DEF Stage
    <3>4. PICK b, t : b = JoinList(u, s) /\ t = Append(s, u)
      OBVIOUS
    <3>5. b.old = s /\ b.new = t
      BY <3>4 DEF JoinList, ListPlan
    <3>6. Once(s)
      BY <3>1 DEF Tells
    <3>7. t \in Seq(User) /\ Those(t) = Those(s) \cup {u}
      BY <3>1, <3>4, <3>6, Joins
    <3>8. t # Nil /\ s # Nil /\ DOMAIN t = 1..Len(t) /\ DOMAIN s = 1..Len(s)
      BY <3>7, RecruitmentAssumption
    <3>9. /\ members[p] = s /\ members' = [members EXCEPT ![p] = t] /\ UNCHANGED seats
          /\ (\A q : ~Announced(q)') /\ (\A q \in Post \ {p} : ~Announced(q))
      BY <1>4, <1>6, <2>1, <3>1, <3>2, <3>3, <3>4, <3>5, ListCommitted
    <3>10. ph[p] = "open" /\ ro[p] = Those(s)
      BY <2>2, <3>8, <3>9 DEF Phase, Members, Those
    <3>11. Cardinality(Those(s)) = Len(s)
      BY <3>6, Counted
    <3>12. InList(t) = Those(s) \cup {u}
      BY <3>7, <3>8 DEF Those, InList
    <3>13. /\ [q \in Post |-> Phase(q)]' = [ph EXCEPT ![p] = "open"]
           /\ [q \in Post |-> IF members[q] = Nil THEN {} ELSE Members(q)]'
                  = [ro EXCEPT ![p] = Those(s) \cup {u}]
      <4>1. /\ \A q \in Post : q # p => /\ Phase(q)' = Phase(q) /\ Members(q)' = Members(q)
                                        /\ members'[q] = members[q]
            /\ Phase(p)' = "open" /\ members'[p] = t /\ Members(p)' = InList(t)
        <5>1. Published(p, t)
          BY <3>9 DEF Published
        <5>2. t # Nil
          BY <3>8
        <5> QED
          BY <5>1, <5>2, RosterMoves
      <4> QED
        BY <2>2, <3>8, <3>12, <4>1
    <3>14. [ph EXCEPT ![p] = "open"] = ph
      BY <2>2, <3>10
    <3>15. Participants!Enter(u, p)
      BY <2>2, <3>1, <3>9, <3>10, <3>11, <3>13, <3>14, SameCardinality DEF Participants!Enter
    <3> QED
      BY <3>15 DEF Participants!Next
  <2>8. CASE InExit(u, p)
    <3>1. PICK d \in Recruit, s \in Seq(User), x \in Stage, y \in Stage :
            /\ Tells(d, s, p) /\ u \in Those(s) /\ Len(s) > 1
            /\ Half(u, p, x, ExitDoc(p, d), y, ExitList(u, s))
      BY <2>8 DEF InExit
    <3>2. ExitDoc(p, d).write.doc = "recruit"
      BY DEF ExitDoc, DocPlan, SetRecruit
    <3>4. PICK b, t : b = ExitList(u, s) /\ t = WithoutFirst(s, u)
      OBVIOUS
    <3>5. b.old = s /\ b.new = t
      BY <3>4 DEF ExitList, ListPlan
    <3>6. Once(s)
      BY <3>1 DEF Tells
    <3>7. t \in Seq(User) /\ Those(t) = Those(s) \ {u}
      BY <3>1, <3>4, <3>6, Leaves
    <3>8. t # Nil /\ s # Nil /\ DOMAIN t = 1..Len(t) /\ DOMAIN s = 1..Len(s)
      BY <3>7, RecruitmentAssumption
    <3>9. /\ members[p] = s /\ members' = [members EXCEPT ![p] = t] /\ UNCHANGED seats
          /\ (\A q : ~Announced(q)') /\ (\A q \in Post \ {p} : ~Announced(q))
      BY <1>4, <1>6, <2>1, <3>1, <3>2, <3>4, <3>5, ListCommitted
    <3>10. ph[p] = "open" /\ ro[p] = Those(s)
      BY <2>2, <3>8, <3>9 DEF Phase, Members, Those
    <3>11. Those(s) # {u}
      <4> SUFFICES ASSUME Those(s) = {u} PROVE FALSE
        OBVIOUS
      <4>1. Cardinality(Those(s)) = Len(s)
        BY <3>6, Counted
      <4>2. Cardinality({u}) = 1
        BY FS_Singleton
      <4>3. Cardinality(Those(s)) = Cardinality({u})
        BY Zenon
      <4>4. PICK n \in Nat : n = Len(s) /\ n > 1
        BY <3>1, LenProperties
      <4>5. Len(s) = 1
        BY <4>1, <4>2, <4>3, Zenon
      <4> QED
        BY <4>4, <4>5
    <3>12. InList(t) = Those(s) \ {u}
      BY <3>7, <3>8 DEF Those, InList
    <3>13. /\ [q \in Post |-> Phase(q)]' = [ph EXCEPT ![p] = "open"]
           /\ [q \in Post |-> IF members[q] = Nil THEN {} ELSE Members(q)]'
                  = [ro EXCEPT ![p] = Those(s) \ {u}]
      <4>1. /\ \A q \in Post : q # p => /\ Phase(q)' = Phase(q) /\ Members(q)' = Members(q)
                                        /\ members'[q] = members[q]
            /\ Phase(p)' = "open" /\ members'[p] = t /\ Members(p)' = InList(t)
        <5>1. Published(p, t)
          BY <3>9 DEF Published
        <5>2. t # Nil
          BY <3>8
        <5> QED
          BY <5>1, <5>2, RosterMoves
      <4> QED
        BY <2>2, <3>8, <3>12, <4>1
    <3>14. [ph EXCEPT ![p] = "open"] = ph
      BY <2>2, <3>10
    <3>15. Participants!Exit(u, p)
      BY <2>2, <3>1, <3>9, <3>10, <3>11, <3>13, <3>14 DEF Participants!Exit
    <3> QED
      BY <3>15 DEF Participants!Next
  <2>9. ASSUME NEW k \in {"delete", "close"}, InEnd(u, p, k)
        PROVE  Participants!Next
    <3>1. PICK d \in Recruit, s \in Seq(User), x \in {"queued", "done"}, y \in Stage :
            Tells(d, s, p) /\ Half(u, p, x, EndDoc(p, d), y, EndList(k, s))
      BY <2>9 DEF InEnd
    <3>2. EndDoc(p, d).write.doc = "recruit"
      BY DEF EndDoc, DocPlan, SetRecruit
    <3>3. x \in Stage
      BY DEF Stage
    <3>4. PICK b : b = EndList(k, s)
      OBVIOUS
    <3>5. b.old = s /\ b.new = Nil
      BY <3>4 DEF EndList, ListPlan
    <3>6. s # Nil /\ seats[p] # 0
      BY <3>1, RecruitmentAssumption DEF Tells
    <3>7. /\ members[p] = s /\ members' = [members EXCEPT ![p] = Nil] /\ UNCHANGED seats
          /\ (\A q : ~Announced(q)') /\ (\A q \in Post \ {p} : ~Announced(q))
      BY <1>4, <1>6, <2>1, <3>1, <3>2, <3>3, <3>4, <3>5, ListCommitted
    <3>8. ph[p] = "open"
      BY <2>2, <3>6, <3>7 DEF Phase
    <3>9. /\ [q \in Post |-> Phase(q)]' = [ph EXCEPT ![p] = "closed"]
          /\ [q \in Post |-> IF members[q] = Nil THEN {} ELSE Members(q)]'
                 = [ro EXCEPT ![p] = {}]
      <4>1. /\ \A q \in Post : q # p => /\ Phase(q)' = Phase(q) /\ Members(q)' = Members(q)
                                        /\ members'[q] = members[q]
            /\ Phase(p)' = "closed" /\ members'[p] = Nil
        <5>1. Published(p, Nil)
          BY <3>7 DEF Published
        <5> QED
          BY <3>6, <3>7, <5>1, RosterMoves
      <4> QED
        BY <2>2, <4>1
    <3>10. Participants!Close(p)
      BY <2>2, <3>7, <3>8, <3>9 DEF Participants!Close
    <3> QED
      BY <3>10 DEF Participants!Next
  <2> QED
    BY <1>2, <2>3, <2>5, <2>6, <2>7, <2>8, <2>9 DEF Alone, Acting
<1> QED
  BY <1>5, <1>6

LEMMA RosterNext ==
    TypeOK /\ SerialInv /\ Serial /\ [Next]_vars => [Participants!Next]_Participants!vars
<1> SUFFICES ASSUME TypeOK, SerialInv, Serial, [Next]_vars
             PROVE  [Participants!Next]_Participants!vars
  OBVIOUS
<1>1. CASE UNCHANGED vars
  BY <1>1, QueuesNone DEF vars, servers, wires, history
<1>2. ASSUME NEW u \in User, Tap(u) \/ Browse(u) \/ Network(u) \/ ReadFails(u) \/ Kill(u)
      PROVE  [Participants!Next]_Participants!vars
  <2>1. ~ReadFails(u) /\ ~Kill(u)
    BY DEF ReadFails, Kill, Serial
  <2>2. CASE Network(u)
    BY <2>2, RealtimeRoster, CommitRoster, AnswerRoster DEF Network
  <2> QED
    BY <1>2, <2>1, <2>2, TapRoster, BrowseRoster
<1> QED
  BY <1>1, <1>2 DEF Next

LEMMA RosterInit == Init => Participants!Init
<1> SUFFICES ASSUME Init PROVE Participants!Init
  OBVIOUS
<1>1. \A p \in Post : members[p] = Nil /\ seats[p] = 0
  BY DEF Init
<1>2. \A p \in Post : Phase(p) = "new"
  BY <1>1 DEF Phase
<1> QED
  BY <1>1, <1>2 DEF Participants!Init, Init

(* While operations do not overlap, creating, joining, leaving, closing    *)
(* and deleting are atomic steps on one set of participants, although each *)
(* is a chain of writes to two databases and of callbacks.                 *)
THEOREM RosterImplemented == Serial => (Spec => ImplementsRoster)
<1> SUFFICES ASSUME Serial PROVE Spec => ImplementsRoster
  OBVIOUS
<1>1. Init => Participants!Init
  BY RosterInit
<1>2. TypeOK /\ SerialInv /\ [Next]_vars => [Participants!Next]_Participants!vars
  BY RosterNext
<1>3. Spec => []SerialInv
  BY SerialCorrect
<1> QED
  BY <1>1, <1>2, <1>3, TypeCorrect, PTL DEF Spec, ImplementsRoster, Participants!Spec
=============================================================================
