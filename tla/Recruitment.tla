---------------------------- MODULE Recruitment ----------------------------
(***************************************************************************)
(* How students come together around a post.  A post lives in Firestore    *)
(* (recruitTables, messageGroup), its chat room in the Realtime Database   *)
(* (group, user/<uid>/groups), and every operation of the app writes to    *)
(* both, with no transaction: creating, joining, editing and deleting a    *)
(* post, leaving its room, removing the room from the list by a swipe.     *)
(*                                                                         *)
(* An operation is one handler.  Its writes are queued in the app and      *)
(* reach a server in order per database; its reads are answered later, in  *)
(* callbacks that read again, or write back a whole value they read.       *)
(***************************************************************************)
EXTENDS Integers, Sequences, FiniteSets

CONSTANTS User,         (* students with an account                         *)
          Post,         (* document ids that Firestore may generate         *)
          Nil,          (* an absent document, field or screen              *)
          MaxSeats,     (* upper end of the head-count stepper              *)
          MaxTaps,      (* bound: operations started in a behaviour         *)
          MaxQueue,     (* bound: a page opens while fewer requests queue   *)
          Environment   (* what may happen besides one tap at a time        *)

(***************************************************************************)
(* The environments a run may switch on:                                   *)
(*   overlap  an operation may start while others are still in flight      *)
(*   stale    a page or a room on the screen may be acted on after it has  *)
(*            changed on the servers                                       *)
(*   search   a page may be opened from the search results                 *)
(*   swipe    a room may be removed from the chat list by a swipe          *)
(*   retap    "leave" may be tapped again in the 2 s before the room pops  *)
(*   offline  a read may end with an error                                 *)
(*   kill     the app may be killed while work is in flight                *)
(***************************************************************************)
Environments ==
    {"overlap", "stale", "search", "swipe", "retap", "offline", "kill"}

ASSUME RecruitmentAssumption ==
    /\ Nil \notin Int /\ Nil \notin User /\ Nil \notin Post
    /\ Nil \notin Seq(User)
    /\ MaxSeats \in Nat /\ MaxTaps \in Nat /\ MaxQueue \in Nat
    /\ Environment \subseteq Environments

VARIABLES
    recruit,     (* Firestore: recruitTables/<post>                         *)
    members,     (* Firestore: messageGroup/<post>.users                    *)
    group,       (* Realtime DB: group/<post>                               *)
    userGroups,  (* Realtime DB: keys of user/<uid>/groups                  *)
    page,        (* the post page on a student's screen, with its own copy  *)
    chat,        (* the chat room on a student's screen                     *)
    rt,          (* requests queued to the Realtime DB, first in first out  *)
    fs,          (* writes queued to Firestore, first in first out          *)
    asked,       (* Firestore getDocument calls not answered yet            *)
    joined,      (* history: students who created or joined the post        *)
    seats,       (* history: maximumNumber last submitted by the author     *)
    mostSeats,   (* history: largest maximumNumber ever submitted           *)
    removed,     (* history: posts whose author confirmed the deletion      *)
    crashed,     (* history: students whose app trapped on a nil or a cast  *)
    taps         (* operations started so far, at most MaxTaps              *)

servers == <<recruit, members, group, userGroups>>
screens == <<page, chat>>
wires   == <<rt, fs, asked>>
history == <<joined, seats, mostSeats, removed, crashed, taps>>
vars    == <<servers, screens, wires, history>>
-----------------------------------------------------------------------------
(* What the databases hold.  A field the code never tells apart (title,    *)
(* category, times, texts) is left out; an absent document has all fields  *)
(* Nil.                                                                    *)
Recruit   == [uid : User \cup {Nil}, cur : Int \cup {Nil}, max : Int \cup {Nil}]
Group     == [name : BOOLEAN, cur : Int \cup {Nil}, talk : BOOLEAN]
NoRecruit == [uid |-> Nil, cur |-> Nil, max |-> Nil]
NoGroup   == [name |-> FALSE, cur |-> Nil, talk |-> FALSE]

(* The page's copy of the post, whether it came from the search results,   *)
(* and whether its participate button is still enabled.                    *)
Page == [post : Post, writer : User, cur : Int, max : Int,
         search : BOOLEAN, joinable : BOOLEAN]

ASSUME PageAssumption == Nil \notin Page

(* A write queued to Firestore: the whole document, or a merge of the      *)
(* fields that are not Nil.  A deletion writes the absent document.        *)
FsWrite == [doc : {"recruit", "members"}, merge : BOOLEAN, post : Post,
            fields : Recruit, users : Seq(User) \cup {Nil}]

SetRecruit(p, d)   == [doc |-> "recruit", merge |-> FALSE, post |-> p,
                       fields |-> d, users |-> Nil]
MergeRecruit(p, d) == [SetRecruit(p, d) EXCEPT !.merge = TRUE]
SetMembers(p, us)  == [doc |-> "members", merge |-> FALSE, post |-> p,
                       fields |-> NoRecruit, users |-> us]

(* A request queued to the Realtime DB; who, num and posts are its         *)
(* argument where it has one.                                              *)
RtKind == {"create", "list", "unlist", "setGroup", "setCount", "removeGroup",
           "push", "getID", "getUser", "getGroup", "check",
           "stripPost", "stripUid", "setGroups"}
RtGet  == {"getID", "getUser", "getGroup", "check", "stripPost", "stripUid"}
RtOp   == [op : RtKind, post : Post, who : User, num : Int,
           posts : SUBSET Post]

Rt(u, op, p) == [op |-> op, post |-> p, who |-> u, num |-> 0, posts |-> {}]
SetCount(u, p, n)   == [Rt(u, "setCount", p) EXCEPT !.num = n]
SetGroupsKeeping(v, p, ps) ==
    [Rt(v, "setGroups", p) EXCEPT !.posts = ps \cup {p}]
SetGroups(v, p, ps) == [Rt(v, "setGroups", p) EXCEPT !.posts = ps]

(* The callbacks of getDocument: join appends to messageGroup, leave       *)
(* removes from it and decrements recruitTables, the last leave and the    *)
(* deletion walk through its users.                                        *)
ReadKind == {"append", "remove", "decrement", "close", "delete"}
Read     == ReadKind \X Post

TypeOK ==
    /\ recruit \in [Post -> Recruit]
    /\ members \in [Post -> Seq(User) \cup {Nil}]
    /\ group \in [Post -> Group]
    /\ userGroups \in [User -> SUBSET Post]
    /\ page \in [User -> Page \cup {Nil}]
    /\ chat \in [User -> Post \cup {Nil}]
    /\ rt \in [User -> Seq(RtOp)]
    /\ fs \in [User -> Seq(FsWrite)]
    /\ asked \in [User -> [Read -> Nat]]
    /\ joined \in [Post -> SUBSET User]
    /\ seats \in [Post -> Nat] /\ mostSeats \in [Post -> Nat]
    /\ removed \subseteq Post /\ crashed \subseteq User
    /\ taps \in 0..MaxTaps

NothingAsked == [r \in Read |-> 0]

Init ==
    /\ recruit = [p \in Post |-> NoRecruit]
    /\ members = [p \in Post |-> Nil]
    /\ group = [p \in Post |-> NoGroup]
    /\ userGroups = [u \in User |-> {}]
    /\ page = [u \in User |-> Nil] /\ chat = [u \in User |-> Nil]
    /\ rt = [u \in User |-> <<>>] /\ fs = [u \in User |-> <<>>]
    /\ asked = [u \in User |-> NothingAsked]
    /\ joined = [p \in Post |-> {}]
    /\ seats = [p \in Post |-> 0] /\ mostSeats = [p \in Post |-> 0]
    /\ removed = {} /\ crashed = {} /\ taps = 0
-----------------------------------------------------------------------------
Idle(u)  == rt[u] = <<>> /\ fs[u] = <<>> /\ asked[u] = NothingAsked
Quiet    == \A u \in User : Idle(u)

(* An operation takes one tap of the budget; unless operations may         *)
(* overlap, it waits until nothing is in flight.                           *)
StartsOperation ==
    /\ taps < MaxTaps /\ taps' = taps + 1
    /\ "overlap" \in Environment \/ Quiet

(* A document that is there, and one that has every field the feed casts.  *)
(* (Mutant: the casts are optional.)                                       *)
Exists(d)   == d # NoRecruit
CompleteUnchecked(d) == TRUE
Complete(d) == d.uid # Nil /\ d.cur # Nil /\ d.max # Nil

(* A screen is opened while nothing is in flight, unless operations may    *)
(* overlap, and while no other screen is, unless screens may grow stale.   *)
MayBrowse ==
    /\ "overlap" \in Environment \/ Quiet
    /\ "stale" \in Environment \/ \A u \in User : page[u] = Nil /\ chat[u] = Nil

(* An app reads a document with the writes it has queued to it, as if they *)
(* were committed: here the read waits until they are.                     *)
Settled(u, doc, p) ==
    \A i \in DOMAIN fs[u] : ~(fs[u][i].doc = doc /\ fs[u][i].post = p)

Larger(m, n) == IF m > n THEN m ELSE n

Queue(q, u, items) == [q EXCEPT ![u] = @ \o items]
Ask(u, kinds, p) ==
    [asked EXCEPT ![u] = [r \in Read |->
        IF r[1] \in kinds /\ r[2] = p THEN @[r] + 1 ELSE @[r]]]
Answered(u, kind, p) ==
    [asked EXCEPT ![u] = [r \in Read |->
        IF r = <<kind, p>> THEN @[r] - 1 ELSE @[r]]]

(* The process ends and is started again: the Realtime DB queue and the    *)
(* callbacks are gone, the queue of Firestore writes is on disk.           *)
Restart(u) ==
    /\ page' = [page EXCEPT ![u] = Nil] /\ chat' = [chat EXCEPT ![u] = Nil]
    /\ rt' = [rt EXCEPT ![u] = <<>>]
    /\ asked' = [asked EXCEPT ![u] = NothingAsked]
    /\ UNCHANGED <<servers, fs, joined, seats, mostSeats, removed, taps>>

Crash(u) == Restart(u) /\ crashed' = crashed \cup {u}
-----------------------------------------------------------------------------
(* The post form's create branch.  The room is written by the completion   *)
(* handler of "create", once the post is in the author's list.             *)
Create(u, p, m) ==
    /\ StartsOperation
    /\ page[u] = Nil /\ seats[p] = 0 /\ m \in 2..MaxSeats
    /\ fs' = Queue(fs, u, <<SetRecruit(p, [uid |-> u, cur |-> 1, max |-> m]),
                            SetMembers(p, <<u>>)>>)
    /\ rt' = Queue(rt, u, <<Rt(u, "create", p)>>)
    /\ joined' = [joined EXCEPT ![p] = @ \cup {u}]
    /\ seats' = [seats EXCEPT ![p] = m]
    /\ mostSeats' = [mostSeats EXCEPT ![p] = Larger(m, @)]
    /\ UNCHANGED <<servers, screens, asked, removed, crashed>>

(* Mutant: the page enters the room into the list as soon as it opens.     *)
OpenPageListing(u, p, viaSearch) ==
    /\ MayBrowse /\ page[u] = Nil /\ Complete(recruit[p])
    /\ Len(rt[u]) < MaxQueue
    /\ rt' = Queue(rt, u, <<Rt(u, "list", p)>>)
    /\ UNCHANGED <<servers, screens, fs, asked, history>>

(* A page copies the post from the feed or from the search results, and    *)
(* asks for the student's rooms to decide on its participate button.       *)
OpenPage(u, p, viaSearch) ==
    /\ MayBrowse /\ page[u] = Nil /\ Complete(recruit[p])
    /\ Settled(u, "recruit", p) /\ Len(rt[u]) < MaxQueue
    /\ viaSearch => "search" \in Environment
    /\ page' = [page EXCEPT ![u] =
                  [post |-> p, writer |-> recruit[p].uid, cur |-> recruit[p].cur,
                   max |-> recruit[p].max, search |-> viaSearch,
                   joinable |-> TRUE]]
    /\ rt' = Queue(rt, u, <<Rt(u, "check", p)>>)
    /\ UNCHANGED <<servers, chat, fs, asked, history>>

ClosePage(u) ==
    /\ page[u] # Nil /\ page' = [page EXCEPT ![u] = Nil]
    /\ UNCHANGED <<servers, chat, wires, history>>

(* A feed that receives a post without one of its fields traps on a cast.  *)
FetchPartialPost(u) ==
    /\ \E p \in Post : Exists(recruit[p]) /\ ~Complete(recruit[p])
    /\ page[u] = Nil
    /\ Crash(u)

(* The post is not full, by the page's copy.                               *)
HasRoomOffByOne(pg) == pg.cur <= pg.max
HasRoom(pg) == pg.cur < pg.max

(* Participate: the full check and both counters use the page's copy; the  *)
(* search screen's currentNumberChanged leaves Firestore alone.            *)
Join(u) ==
    LET pg == page[u]
        p  == pg.post
        n  == pg.cur + 1
    IN
    /\ StartsOperation
    /\ pg # Nil /\ pg.joinable /\ HasRoom(pg)
    /\ fs' = IF pg.search THEN fs
             ELSE Queue(fs, u, <<MergeRecruit(p, [NoRecruit EXCEPT !.cur = n])>>)
    /\ rt' = Queue(rt, u, <<SetCount(u, p, n), Rt(u, "list", p), Rt(u, "getID", p)>>)
    /\ asked' = Ask(u, {"append"}, p)
    /\ page' = [page EXCEPT ![u] = Nil]
    /\ joined' = [joined EXCEPT ![p] = @ \cup {u}]
    /\ UNCHANGED <<servers, chat, seats, mostSeats, removed, crashed>>

(* Mutant: the stepper's value stays in the form.                          *)
EditKeepingSeats(u, m) ==
    /\ StartsOperation
    /\ page[u] # Nil /\ page[u].writer = u /\ m \in 2..MaxSeats
    /\ fs' = Queue(fs, u, <<MergeRecruit(page[u].post,
                               [NoRecruit EXCEPT !.cur = page[u].cur])>>)
    /\ seats' = [seats EXCEPT ![page[u].post] = m]
    /\ mostSeats' = [mostSeats EXCEPT ![page[u].post] = Larger(m, @)]
    /\ UNCHANGED <<servers, screens, rt, asked, joined, removed, crashed>>

(* The author's edit merges the new capacity, and the count of the copy.   *)
Edit(u, m) ==
    LET pg == page[u]
        p  == pg.post
    IN
    /\ StartsOperation
    /\ pg # Nil /\ pg.writer = u /\ m \in 2..MaxSeats
    /\ fs' = Queue(fs, u, <<MergeRecruit(p, [uid |-> Nil, cur |-> pg.cur, max |-> m])>>)
    /\ page' = [page EXCEPT ![u].max = m]
    /\ seats' = [seats EXCEPT ![p] = m]
    /\ mostSeats' = [mostSeats EXCEPT ![p] = Larger(m, @)]
    /\ UNCHANGED <<servers, chat, rt, asked, joined, removed, crashed>>

(* Mutants: the deletion forgets the room, or the post itself.             *)
DeletePostKeepingRoom(u) ==
    LET p == page[u].post IN
    /\ StartsOperation /\ page[u] # Nil /\ page[u].writer = u
    /\ fs' = Queue(fs, u, <<SetRecruit(p, NoRecruit)>>)
    /\ asked' = Ask(u, {"delete"}, p)
    /\ page' = [page EXCEPT ![u] = Nil]
    /\ removed' = removed \cup {p}
    /\ UNCHANGED <<servers, chat, rt, joined, seats, mostSeats, crashed>>
DeletePostKeepingPost(u) ==
    LET p == page[u].post IN
    /\ StartsOperation /\ page[u] # Nil /\ page[u].writer = u
    /\ asked' = Ask(u, {"delete"}, p)
    /\ rt' = Queue(rt, u, <<Rt(u, "removeGroup", p)>>)
    /\ page' = [page EXCEPT ![u] = Nil]
    /\ removed' = removed \cup {p}
    /\ UNCHANGED <<servers, chat, fs, joined, seats, mostSeats, crashed>>

DeletePost(u) ==
    LET p == page[u].post IN
    /\ StartsOperation
    /\ page[u] # Nil /\ page[u].writer = u
    /\ fs' = Queue(fs, u, <<SetRecruit(p, NoRecruit)>>)
    /\ asked' = Ask(u, {"delete"}, p)
    /\ rt' = Queue(rt, u, <<Rt(u, "removeGroup", p)>>)
    /\ page' = [page EXCEPT ![u] = Nil]
    /\ removed' = removed \cup {p}
    /\ UNCHANGED <<servers, chat, joined, seats, mostSeats, crashed>>

OpenChat(u, p) ==
    /\ MayBrowse /\ chat[u] = Nil /\ p \in userGroups[u] /\ group[p].name
    /\ chat' = [chat EXCEPT ![u] = p]
    /\ UNCHANGED <<servers, page, wires, history>>

(* The room pops two seconds after "leave", or the student goes back.      *)
PopChat(u) ==
    /\ chat[u] # Nil /\ chat' = [chat EXCEPT ![u] = Nil]
    /\ UNCHANGED <<servers, page, wires, history>>

(* A chat list that observes a room node without its name traps.           *)
ListPartialRoom(u) ==
    /\ \E p \in userGroups[u] : group[p] # NoGroup /\ ~group[p].name
    /\ Crash(u)

Leave(u) ==
    /\ StartsOperation
    /\ chat[u] # Nil
    /\ rt' = Queue(rt, u, <<Rt(u, "getGroup", chat[u])>>)
    /\ chat' = IF "retap" \in Environment THEN chat ELSE [chat EXCEPT ![u] = Nil]
    /\ UNCHANGED <<servers, page, fs, asked, joined, seats, mostSeats, removed, crashed>>

SwipeDelete(u, p) ==
    /\ "swipe" \in Environment /\ StartsOperation
    /\ p \in userGroups[u] /\ group[p].name
    /\ rt' = Queue(rt, u, <<Rt(u, "unlist", p)>>)
    /\ UNCHANGED <<servers, screens, fs, asked, joined, seats, mostSeats, removed, crashed>>
-----------------------------------------------------------------------------
(* The Realtime DB serves the head of a student's queue; a read runs its   *)
(* callback, which may queue more.                                         *)
Serves(u, op)  == rt[u] # <<>> /\ Head(rt[u]).op = op
Then(u, items) == [rt EXCEPT ![u] = Tail(@) \o items]

List(u) ==
    LET p == Head(rt[u]).post IN
    /\ Serves(u, "list") \/ Serves(u, "create")
    /\ userGroups' = [userGroups EXCEPT ![u] = @ \cup {p}]
    /\ rt' = Then(u, IF Serves(u, "create") THEN <<Rt(u, "setGroup", p)>> ELSE <<>>)
    /\ UNCHANGED <<recruit, members, group, screens, fs, asked, history>>

Unlist(u) ==
    /\ Serves(u, "unlist")
    /\ userGroups' = [userGroups EXCEPT ![u] = @ \ {Head(rt[u]).post}]
    /\ rt' = Then(u, <<>>)
    /\ UNCHANGED <<recruit, members, group, screens, fs, asked, history>>

(* The writes to group/<post>: setValue replaces the node, updating a      *)
(* child of an absent node brings it back with that child alone.           *)
WriteGroup(u) ==
    LET m == Head(rt[u]) IN
    /\ \/ /\ Serves(u, "setGroup")
          /\ group' = [group EXCEPT ![m.post] = [name |-> TRUE, cur |-> 1, talk |-> FALSE]]
       \/ /\ Serves(u, "setCount")
          /\ group' = [group EXCEPT ![m.post].cur = m.num]
       \/ /\ Serves(u, "push")
          /\ group' = [group EXCEPT ![m.post].talk = TRUE]
       \/ /\ Serves(u, "removeGroup")
          /\ group' = [group EXCEPT ![m.post] = NoGroup]
    /\ rt' = Then(u, <<>>)
    /\ UNCHANGED <<recruit, members, userGroups, screens, fs, asked, history>>

(* Join: the student's name is known, announce the entrance.               *)
GotID(u) ==
    /\ Serves(u, "getID")
    /\ rt' = Then(u, <<Rt(u, "push", Head(rt[u]).post)>>)
    /\ UNCHANGED <<servers, screens, fs, asked, history>>

(* The key of the post is among the student's groups.                      *)
Holds(u, p) == p \in userGroups[u]

(* The page learns whether the student is in the room already.             *)
GotCheck(u) ==
    LET p == Head(rt[u]).post IN
    /\ Serves(u, "check")
    /\ page' = IF page[u] # Nil /\ page[u].post = p /\ Holds(u, p)
               THEN [page EXCEPT ![u].joinable = FALSE] ELSE page
    /\ rt' = Then(u, <<>>)
    /\ UNCHANGED <<servers, chat, fs, asked, history>>

(* Leave: a count of one closes the room, another count lowers it.         *)
GotGroup(u) ==
    LET p   == Head(rt[u]).post
        cur == group[p].cur
    IN
    /\ Serves(u, "getGroup")
    /\ \/ cur = Nil /\ Crash(u)
       \/ /\ cur = 1
          /\ asked' = Ask(u, {"close"}, p)
          /\ fs' = Queue(fs, u, <<SetRecruit(p, NoRecruit)>>)
          /\ rt' = Then(u, <<Rt(u, "removeGroup", p)>>)
          /\ UNCHANGED <<servers, screens, history>>
       \/ /\ cur \notin {Nil, 1}
          /\ asked' = Ask(u, {"remove", "decrement"}, p)
          /\ rt' = Then(u, <<Rt(u, "getUser", p), SetCount(u, p, cur - 1)>>)
          /\ UNCHANGED <<servers, screens, fs, history>>

(* Leave: announce it, write the list back without the room.               *)
GotUser(u) ==
    LET p == Head(rt[u]).post IN
    /\ Serves(u, "getUser")
    /\ \/ userGroups[u] = {} /\ Crash(u)
       \/ /\ userGroups[u] # {}
          /\ rt' = Then(u, <<Rt(u, "push", p), SetGroups(u, p, userGroups[u] \ {p})>>)
          /\ UNCHANGED <<servers, screens, fs, asked, history>>

(* Mutant: no list is stripped.                                            *)
StrippedNever(m, list) == list
Stripped(m, list) == IF m.op = "stripPost" THEN list \ {m.post} ELSE list

(* Deletion strips the post from a member's list.  The last leave strips   *)
(* the key currentUserUid instead, which no list of posts has.             *)
GotGroups(u) ==
    LET m    == Head(rt[u])
        list == userGroups[m.who]
    IN
    /\ Serves(u, "stripPost") \/ Serves(u, "stripUid")
    /\ \/ list = {} /\ Crash(u)
       \/ /\ list # {}
          /\ rt' = Then(u, <<SetGroups(m.who, m.post, Stripped(m, list))>>)
          /\ UNCHANGED <<servers, screens, fs, asked, history>>

WriteGroups(u) ==
    LET m == Head(rt[u]) IN
    /\ Serves(u, "setGroups")
    /\ userGroups' = [userGroups EXCEPT ![m.who] = m.posts]
    /\ rt' = Then(u, <<>>)
    /\ UNCHANGED <<recruit, members, group, screens, fs, asked, history>>

RealtimeStep(u) ==
    \/ List(u) \/ Unlist(u) \/ WriteGroup(u) \/ WriteGroups(u)
    \/ GotID(u) \/ GotCheck(u) \/ GotGroup(u) \/ GotUser(u) \/ GotGroups(u)
-----------------------------------------------------------------------------
Merged(old, new) ==
    [uid |-> IF new.uid = Nil THEN old.uid ELSE new.uid,
     cur |-> IF new.cur = Nil THEN old.cur ELSE new.cur,
     max |-> IF new.max = Nil THEN old.max ELSE new.max]

(* Firestore commits the oldest write of a student's app.                  *)
Commit(u) ==
    LET w == Head(fs[u]) IN
    /\ fs[u] # <<>>
    /\ fs' = [fs EXCEPT ![u] = Tail(@)]
    /\ \/ /\ w.doc = "recruit"
          /\ recruit' = [recruit EXCEPT ![w.post] =
                           IF w.merge THEN Merged(@, w.fields) ELSE w.fields]
          /\ UNCHANGED members
       \/ /\ w.doc = "members"
          /\ members' = [members EXCEPT ![w.post] = w.users]
          /\ UNCHANGED recruit
    /\ UNCHANGED <<group, userGroups, screens, rt, asked, history>>

Answers(u, kind, doc, p) == asked[u][<<kind, p>>] > 0 /\ Settled(u, doc, p)

(* Mutant: the array is a value in Swift; the copy is changed, the old one *)
(* is written back.                                                        *)
AnswerAppendCopy(u, p) ==
    /\ Answers(u, "append", "members", p) /\ members[p] # Nil
    /\ fs' = Queue(fs, u, <<SetMembers(p, members[p])>>)
    /\ asked' = Answered(u, "append", p)
    /\ UNCHANGED <<servers, screens, rt, history>>

AnswerAppend(u, p) ==
    /\ Answers(u, "append", "members", p)
    /\ \/ members[p] = Nil /\ Crash(u)
       \/ /\ members[p] # Nil
          /\ fs' = Queue(fs, u, <<SetMembers(p, Append(members[p], u))>>)
          /\ asked' = Answered(u, "append", p)
          /\ UNCHANGED <<servers, screens, rt, history>>

(* Mutant: the last one goes.                                              *)
WithoutLast(s, u) == SubSeq(s, 1, Len(s) - 1)

(* The list without the first occurrence of u, if it has one.              *)
WithoutFirst(s, u) ==
    IF \E i \in DOMAIN s : s[i] = u
    THEN LET k == CHOOSE i \in DOMAIN s : s[i] = u /\ \A j \in 1..(i - 1) : s[j] # u
         IN  [i \in 1..(Len(s) - 1) |-> IF i < k THEN s[i] ELSE s[i + 1]]
    ELSE s

AnswerRemove(u, p) ==
    /\ Answers(u, "remove", "members", p)
    /\ \/ members[p] = Nil /\ Crash(u)
       \/ /\ members[p] # Nil
          /\ fs' = Queue(fs, u, <<SetMembers(p, WithoutFirst(members[p], u))>>)
          /\ asked' = Answered(u, "remove", p)
          /\ UNCHANGED <<servers, screens, rt, history>>

(* The document a leave writes back.                                       *)
UncountedLeave(d) == d
LoweredByOne(d) == [d EXCEPT !.cur = @ - 1]

(* The whole document is written back with its count lowered by one.       *)
AnswerDecrement(u, p) ==
    /\ Answers(u, "decrement", "recruit", p)
    /\ \/ recruit[p].cur = Nil /\ Crash(u)
       \/ /\ recruit[p].cur # Nil
          /\ fs' = Queue(fs, u, <<SetRecruit(p, LoweredByOne(recruit[p]))>>)
          /\ asked' = Answered(u, "decrement", p)
          /\ UNCHANGED <<servers, screens, rt, history>>

(* Deletion and the last leave: read the list of every member, in the      *)
(* order of messageGroup, and delete the messageGroup document.            *)
AnswerMembers(u, p, kind, strip) ==
    /\ Answers(u, kind, "members", p)
    /\ \/ members[p] = Nil /\ Crash(u)
       \/ /\ members[p] # Nil
          /\ rt' = Queue(rt, u, [i \in 1..Len(members[p]) |-> Rt(members[p][i], strip, p)])
          /\ fs' = Queue(fs, u, <<SetMembers(p, Nil)>>)
          /\ asked' = Answered(u, kind, p)
          /\ UNCHANGED <<servers, screens, history>>

FirestoreAnswer(u, p) ==
    \/ AnswerAppend(u, p) \/ AnswerRemove(u, p) \/ AnswerDecrement(u, p)
    \/ AnswerMembers(u, p, "delete", "stripPost")
    \/ AnswerMembers(u, p, "close", "stripUid")
-----------------------------------------------------------------------------
(* A read ends with an error and its callback returns.                     *)
ReadFails(u) ==
    /\ "offline" \in Environment
    /\ \/ /\ rt[u] # <<>> /\ Head(rt[u]).op \in RtGet
          /\ rt' = Then(u, <<>>) /\ UNCHANGED asked
       \/ /\ \E r \in Read : asked[u][r] > 0 /\ asked' = Answered(u, r[1], r[2])
          /\ UNCHANGED rt
    /\ UNCHANGED <<servers, screens, fs, history>>

Kill(u) ==
    /\ "kill" \in Environment /\ ~Idle(u)
    /\ Restart(u) /\ UNCHANGED crashed

Tap(u) ==
    \/ \E p \in Post, m \in 2..MaxSeats : Create(u, p, m)
    \/ Join(u)
    \/ \E m \in 2..MaxSeats : Edit(u, m)
    \/ DeletePost(u)
    \/ Leave(u)
    \/ \E p \in Post : SwipeDelete(u, p)

Browse(u) ==
    \/ \E p \in Post, s \in BOOLEAN : OpenPage(u, p, s)
    \/ ClosePage(u)
    \/ \E p \in Post : OpenChat(u, p)
    \/ PopChat(u)
    \/ FetchPartialPost(u) \/ ListPartialRoom(u)

Network(u) == RealtimeStep(u) \/ Commit(u) \/ \E p \in Post : FirestoreAnswer(u, p)

Next == \E u \in User : Tap(u) \/ Browse(u) \/ Network(u) \/ ReadFails(u) \/ Kill(u)

Spec == Init /\ [][Next]_vars

(* The client libraries retry until the servers have answered.             *)
Fairness == \A u \in User :
    /\ WF_vars(RealtimeStep(u))
    /\ WF_vars(Commit(u))
    /\ WF_vars(\E p \in Post : FirestoreAnswer(u, p))

FairSpec == Spec /\ Fairness
-----------------------------------------------------------------------------
(* Safety that survives every environment.                                 *)

(* However stale the copies that joins, edits and leaves compute with, and *)
(* however they interleave, no counter a server holds ever exceeds the     *)
(* largest capacity the author has submitted for the post.                 *)
CounterWithinCapacity ==
    \A p \in Post : \A c \in {recruit[p].cur, group[p].cur} \ {Nil} : c <= mostSeats[p]

(* Lists are written back whole, by the app of another student too; yet    *)
(* nobody is ever listed in a room, or holds it in his chat list, who did  *)
(* not create or join its post.                                            *)
OnlyParticipantsListed ==
    \A p \in Post :
        /\ \A u \in User : p \in userGroups[u] => u \in joined[p]
        /\ members[p] # Nil =>
             \A i \in DOMAIN members[p] : members[p][i] \in joined[p]
-----------------------------------------------------------------------------
(* What one operation after another keeps, between operations.             *)

Listed(p)  == {u \in User : p \in userGroups[u]}
Members(p) == {members[p][i] : i \in DOMAIN members[p]}
Open(p)    == members[p] # Nil /\ Complete(recruit[p]) /\ group[p].name
Gone(p)    == members[p] = Nil /\ ~Exists(recruit[p]) /\ group[p] = NoGroup

(* The post, its member list and its room exist together or not at all.    *)
PostAndRoomTogether == Quiet => \A p \in Post : Open(p) \/ Gone(p)

(* Both counters say how many members an open room has.                    *)
CountersAgree == Quiet => \A p \in Post : Open(p) =>
    /\ recruit[p].cur = Len(members[p])
    /\ group[p].cur = Len(members[p])

(* The members of an open room are the students who have it in their chat  *)
(* list, each of them once.                                                *)
MembersHaveTheRoom == Quiet => \A p \in Post : Open(p) =>
    Members(p) = Listed(p) /\ Len(members[p]) = Cardinality(Listed(p))

(* A post whose author confirmed its deletion is gone from both databases  *)
(* and from every chat list.                                               *)
DeletedStaysDeleted == Quiet => \A p \in removed : Gone(p) /\ Listed(p) = {}

(* The capacity of an open post is the one its author submitted last.      *)
LastEditWins == Quiet => \A p \in Post : Open(p) => recruit[p].max = seats[p]

(* Between operations the two databases, written by a chain of requests    *)
(* each, tell one story of every post: it has a room or is gone, both      *)
(* counters equal the member list, the members are the students who have   *)
(* the room, each once, and an edit or a deletion is complete.             *)
DatabasesAgree ==
    PostAndRoomTogether /\ CountersAgree /\ MembersHaveTheRoom
    /\ DeletedStaysDeleted /\ LastEditWins

(* No more members than the capacity ever offered.                         *)
NoOverbooking == Quiet => \A p \in Post : Open(p) => Len(members[p]) <= mostSeats[p]

(* No callback meets a nil or a field that is not there.                   *)
NoCrash == crashed = {}

(* While operations do not overlap, they are what Roster says: atomic      *)
(* steps on one set of participants, although each of them is a chain of   *)
(* writes to two databases.                                                *)
Announced(p) == \E u \in User : \E i \in DOMAIN fs[u] :
    fs[u][i].doc = "members" /\ fs[u][i].post = p /\ fs[u][i].users # Nil
Phase(p) ==
    IF members[p] # Nil THEN "open"
    ELSE IF seats[p] = 0 \/ Announced(p) THEN "new" ELSE "closed"
Participants == INSTANCE Roster WITH
    phase  <- [p \in Post |-> Phase(p)],
    roster <- [p \in Post |-> IF members[p] = Nil THEN {} ELSE Members(p)]
ImplementsRoster == Participants!Spec

(* Leaving a room that keeps other members completes: the room disappears  *)
(* from the chat list.                                                     *)
Leaving(u, p) == \E i \in DOMAIN rt[u] :
    rt[u][i].op = "getGroup" /\ rt[u][i].post = p
LeaveUnlists == \A u \in User, p \in Post :
    (Leaving(u, p) /\ group[p].cur \notin {Nil, 1}) ~> p \notin userGroups[u]

(* A participation that is in flight ends with the student in the post's   *)
(* member list and the room in his chat list.                              *)
JoinEnrols == \A u \in User, p \in Post :
    asked[u][<<"append", p>>] > 0 ~>
        (members[p] # Nil /\ u \in Members(p) /\ p \in userGroups[u])

(* An operation that is under way reaches both databases: who joins is     *)
(* enrolled, who leaves is unlisted.                                       *)
EnrolmentFollows == LeaveUnlists /\ JoinEnrols
=============================================================================
