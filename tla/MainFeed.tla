------------------------------ MODULE MainFeed ------------------------------
(***************************************************************************)
(* The home screen of one student: the newest posts, page by page, or the  *)
(* posts of one category, without those of the authors he has blocked; and *)
(* the post page he opens from it.  The screen keeps two lists, mainPosts  *)
(* and filteredButtonMainPost, one cursor and a row count that UIKit       *)
(* remembers from the last reload; they are written by gestures and by the *)
(* answers to Firestore reads, which come back in any order.               *)
(***************************************************************************)
EXTENDS Integers, Sequences, FiniteSets

CONSTANTS Post,         (* document ids of recruitTables                    *)
          Author,       (* students who write posts                         *)
          Category,     (* the filter buttons other than "all"              *)
          AuthorOf,     (* the author of each post                          *)
          CategoryOf,   (* the category of each post                        *)
          Nil,          (* no filter, no filtered list, no open page        *)
          PageSize,     (* posts fetched at a time: 10 in the code          *)
          Regimes,      (* which gestures may come, and when: sets of which *)
                        (* a behaviour keeps to one                         *)
          MaxClock,     (* bound: posts published or renewed, by regime     *)
          MaxTaps,      (* bound: gestures in a behaviour, by regime        *)
          MaxReads      (* bound: a gesture waits while more are unanswered *)

(***************************************************************************)
(*   hurry   a gesture may come before the answers to the earlier ones     *)
(*   peek    a swipe back from the page may be begun and abandoned: UIKit  *)
(*           calls viewWillAppear of the feed, and the page stays          *)
(*   offline reads may fail                                                *)
(***************************************************************************)
ASSUME MainFeedAssumption ==
    /\ AuthorOf \in [Post -> Author] /\ CategoryOf \in [Post -> Category]
    /\ Nil \notin Category /\ Nil \notin Seq(Post)
    /\ Nil \notin [post : Post, index : Nat \ {0}, leaving : BOOLEAN]
    /\ PageSize \in Nat \ {0}
    /\ Regimes \subseteq SUBSET {"hurry", "peek", "offline"}
    /\ MaxClock \in [Regimes -> Nat] /\ MaxTaps \in [Regimes -> Nat] /\ MaxReads \in Nat

VARIABLES
    regime,     (* what may happen in this behaviour; never changes         *)
    stamp,      (* Firestore: timestamp of each post, 0 when there is none  *)
    clock,      (* the last timestamp given                                 *)
    blockList,  (* Firestore: users/<uid>.blockAbusiveUserList              *)
    mainPosts,  (* the posts of all categories, in the order shown          *)
    filtered,   (* filteredButtonMainPost: shown instead unless Nil         *)
    filter,     (* tappedFilterButtonTitle                                  *)
    lit,        (* the category button drawn as chosen; Nil is "all"        *)
    rows,       (* rows of the table as of its last reload                  *)
    hasNext,    (* mainPostsHasNextPage                                     *)
    moving,     (* the table decelerates, or bounces back after a pull      *)
    cursor,     (* lastDocumentSnapshot, by its timestamp; 0 before any     *)
    blocked,    (* abusiveUserList: the block list as last read             *)
    reads,      (* reads not answered yet                                   *)
    page,       (* the post page on top of the feed, and its row            *)
    loaded,     (* history: clock when mainPosts was last begun             *)
    blockedThen,(* history: blockList when the feed last appeared           *)
    counts,     (* history: posts joined, each with the post counted for it *)
    crashed,    (* history: an index out of range ended the app             *)
    taps        (* gestures so far                                          *)

server == <<stamp, clock, blockList>>
lists  == <<mainPosts, filtered, filter, cursor, loaded, blockedThen>>
table  == <<rows, hasNext, moving>>
vars   == <<regime, server, lists, table, lit, blocked, reads, page, counts, crashed, taps>>

(* Three reads: a page of posts (of a category, or older than a cursor),   *)
(* the block list for the feed, and the block list to append an author to. *)
ReadOp == [op : {"posts", "blockList", "block"}, category : Category \cup {Nil},
           after : Nat, author : Author \cup {Nil}]

Query(c, after) == [op |-> "posts", category |-> c, after |-> after, author |-> Nil]
ReadBlockList   == [op |-> "blockList", category |-> Nil, after |-> 0, author |-> Nil]
ReadToBlock(a)  == [op |-> "block", category |-> Nil, after |-> 0, author |-> a]

Page == [post : Post, index : Nat \ {0}, leaving : BOOLEAN]

(* Every variable has the type of the field or document it stands for.     *)
TypeOK ==
    /\ regime \in Regimes
    /\ stamp \in [Post -> Nat] /\ clock \in Nat /\ blockList \subseteq Author
    /\ mainPosts \in Seq(Post) /\ filtered \in Seq(Post) \cup {Nil}
    /\ filter \in Category \cup {Nil} /\ lit \in Category \cup {Nil}
    /\ filter = Nil => filtered = Nil
    /\ rows \in Nat /\ hasNext \in BOOLEAN /\ moving \in BOOLEAN /\ cursor \in Nat
    /\ blocked \subseteq Author /\ blockedThen \subseteq Author /\ reads \in Seq(ReadOp)
    /\ page \in Page \cup {Nil}
    /\ loaded \in Nat /\ counts \subseteq Post \X Post
    /\ crashed \in BOOLEAN /\ taps \in Nat

(* The app starts with its feed on the screen: viewWillAppear has asked    *)
(* for the block list.                                                     *)
Init ==
    /\ regime \in Regimes
    /\ stamp = [p \in Post |-> 0] /\ clock = 0 /\ blockList = {}
    /\ mainPosts = <<>> /\ filtered = Nil /\ filter = Nil /\ lit = Nil
    /\ rows = 0 /\ hasNext = FALSE /\ moving = FALSE /\ cursor = 0 /\ loaded = 0
    /\ blocked = {} /\ blockedThen = {} /\ reads = <<ReadBlockList>> /\ page = Nil
    /\ counts = {} /\ crashed = FALSE /\ taps = 0
-----------------------------------------------------------------------------
(* What a list of posts is made of.                                        *)
Newest(S) ==
    [i \in 1..Cardinality(S) |->
        CHOOSE p \in S : Cardinality({q \in S : stamp[q] > stamp[p]}) = i - 1]

(* Mutants: the query starts at its cursor; blocked authors stay.          *)
MatchingFromCursor(r) ==
    {p \in Post : /\ stamp[p] # 0
                  /\ r.category # Nil => CategoryOf[p] = r.category
                  /\ r.after # 0 => stamp[p] <= r.after}
WithoutNone(s, authors) == s

Matching(r) ==
    {p \in Post : /\ stamp[p] # 0
                  /\ r.category # Nil => CategoryOf[p] = r.category
                  /\ r.after # 0 => stamp[p] < r.after}

(* Mutant: limit(toLast:) for limit(to:).                                  *)
DocumentsToLast(r) ==
    LET s == Newest(Matching(r))
    IN  SubSeq(s, IF Len(s) < PageSize THEN 1 ELSE Len(s) - PageSize + 1, Len(s))

Documents(r) ==
    LET s == Newest(Matching(r))
    IN  SubSeq(s, 1, IF Len(s) < PageSize THEN Len(s) ELSE PageSize)

Without(s, authors) ==
    LET kept == {i \in DOMAIN s : AuthorOf[s[i]] \notin authors}
    IN  [n \in 1..Cardinality(kept) |->
            s[CHOOSE i \in kept : Cardinality({j \in kept : j < i}) = n - 1]]

Displayed(ms, fl) == IF fl = Nil THEN ms ELSE fl
Shown == Displayed(mainPosts, filtered)

(* fetchRecruitmentTableList: the query it makes, and the filtered list it *)
(* leaves.  The filter is consulted only when mainPosts is not empty.      *)
FetchReads(ms) ==
    IF ms = <<>> THEN <<Query(Nil, 0)>>
    ELSE IF filter # Nil THEN <<Query(filter, 0)>>
    ELSE IF cursor = 0 THEN <<>> ELSE <<Query(Nil, cursor)>>
FetchFiltered(ms) == IF ms # <<>> /\ filter # Nil THEN <<>> ELSE filtered

(* A gesture on the feed, or on the page; unless the student hurries, it   *)
(* comes when every read has been answered.                                *)
Gesture ==
    /\ ~crashed /\ taps < MaxTaps[regime] /\ taps' = taps + 1
    /\ IF "hurry" \in regime THEN Len(reads) < MaxReads ELSE reads = <<>>
OnFeed == Gesture /\ page = Nil
OnPage == Gesture /\ page # Nil /\ ~page.leaving

Trap == /\ crashed' = TRUE
        /\ UNCHANGED <<server, lists, table, lit, blocked, reads, page, counts>>

(* viewWillAppear, for a student who is logged in: both lists are emptied, *)
(* "all" is drawn as chosen, and the filter stays what it was.             *)
Appear ==
    /\ mainPosts' = <<>> /\ filtered' = Nil /\ lit' = Nil /\ rows' = 0
    /\ reads' = Append(reads, ReadBlockList) /\ blockedThen' = blockList
    /\ UNCHANGED <<filter, cursor, loaded, hasNext, moving, blocked>>
-----------------------------------------------------------------------------
(* A category button, and the button "all".                                *)
TapFilter(c) ==
    /\ OnFeed
    /\ lit' = c /\ filter' = c
    /\ reads' = Append(reads, IF mainPosts = <<>> THEN Query(Nil, 0) ELSE Query(c, 0))
    /\ filtered' = IF mainPosts = <<>> THEN filtered ELSE <<>>
    /\ UNCHANGED <<server, mainPosts, cursor, loaded, blockedThen, table, blocked,
                   page, counts, crashed>>

(* Mutant: "all" forgets the filtered list.                                *)
TapAllKeepingFiltered ==
    /\ OnFeed
    /\ lit' = Nil /\ filter' = Nil /\ mainPosts' = <<>>
    /\ reads' = Append(reads, Query(Nil, 0))
    /\ UNCHANGED <<server, filtered, cursor, loaded, blockedThen, table, blocked,
                   page, counts, crashed>>

TapAll ==
    /\ OnFeed
    /\ lit' = Nil /\ filter' = Nil /\ filtered' = Nil /\ mainPosts' = <<>>
    /\ reads' = Append(reads, Query(Nil, 0))
    /\ UNCHANGED <<server, cursor, loaded, blockedThen, table, blocked, page, counts,
                   crashed>>

MayHaveNext == hasNext \/ Len(mainPosts) >= PageSize

(* The table keeps its rows until the answer reloads it; but endRefreshing *)
(* lets it bounce back at once.                                            *)
PullToRefresh ==
    /\ OnFeed
    /\ hasNext' = MayHaveNext /\ moving' = TRUE
    /\ mainPosts' = IF filter = Nil THEN <<>> ELSE mainPosts
    /\ reads' = Append(reads, ReadBlockList)
    /\ UNCHANGED <<server, filtered, filter, cursor, loaded, blockedThen, rows, lit,
                   blocked, page, counts, crashed>>

(* Rows that come into sight are drawn from the list; at the bottom the    *)
(* loading section is reloaded, which UIKit refuses when the first section *)
(* no longer has the rows it remembers, and the next page is fetched.  The *)
(* finger has left the table, which goes on by itself.                     *)
Scroll(bottom) ==
    LET pages == bottom /\ MayHaveNext IN
    /\ OnFeed
    /\ \/ /\ rows > Len(Shown) \/ (pages /\ rows # Len(Shown))
          /\ Trap
       \/ /\ pages => rows = Len(Shown)
          /\ hasNext' = MayHaveNext /\ moving' = TRUE
          /\ reads' = IF pages THEN reads \o FetchReads(mainPosts) ELSE reads
          /\ filtered' = IF pages THEN FetchFiltered(mainPosts) ELSE filtered
          /\ UNCHANGED <<server, mainPosts, filter, cursor, loaded, blockedThen, rows,
                         lit, blocked, page, counts, crashed>>

(* A table in motion asks for the rows that come into sight, whatever has  *)
(* become of the list meanwhile; a row of the list is just drawn.          *)
DrawRow ==
    /\ moving /\ ~crashed
    /\ \E row \in 1..rows : row > Len(Shown)
    /\ Trap /\ UNCHANGED taps

ComeToRest ==
    /\ moving /\ ~crashed /\ moving' = FALSE
    /\ UNCHANGED <<server, lists, rows, hasNext, lit, blocked, reads, page, counts,
                   crashed, taps>>

(* A tapped row, which stops the table: the filtered list, if there is     *)
(* one, becomes mainPosts, and the page gets the post at that index.       *)
TapRow(i) ==
    /\ OnFeed /\ i \in 1..rows
    /\ IF i > Len(Shown) THEN Trap
       ELSE /\ mainPosts' = Shown
            /\ page' = [post |-> Shown[i], index |-> i, leaving |-> FALSE]
            /\ moving' = FALSE
            /\ UNCHANGED <<server, filtered, filter, cursor, loaded, blockedThen, rows,
                           hasNext, lit, blocked, reads, counts, crashed>>
-----------------------------------------------------------------------------
Return ==
    /\ OnPage
    /\ Appear /\ page' = Nil
    /\ UNCHANGED <<server, counts, crashed>>

Peek ==
    /\ "peek" \in regime /\ OnPage
    /\ Appear
    /\ UNCHANGED <<server, page, counts, crashed>>

(* Mutant: the count goes to the next row.                                 *)
JoinCountingNext ==
    /\ OnPage
    /\ page.index < Len(mainPosts)
    /\ counts' = counts \cup {<<page.post, mainPosts[page.index + 1]>>}
    /\ page' = Nil /\ Appear
    /\ UNCHANGED <<server, crashed>>

(* Participate: the delegate writes currentNumber to the document of       *)
(* mainPosts[selectedIndexPath], and the page unwinds to the feed.         *)
Join ==
    /\ OnPage
    /\ IF page.index > Len(mainPosts) THEN Trap
       ELSE /\ counts' = counts \cup {<<page.post, mainPosts[page.index]>>}
            /\ page' = Nil /\ Appear
            /\ UNCHANGED <<server, crashed>>

(* Block the author: the list is read, to be written with him appended;    *)
(* meanwhile an announcement is shown, which goes away by itself, answered *)
(* or not, and the page unwinds.                                           *)
Block ==
    /\ OnPage
    /\ reads' = Append(reads, ReadToBlock(AuthorOf[page.post]))
    /\ page' = [page EXCEPT !.leaving = TRUE]
    /\ UNCHANGED <<server, lists, table, lit, blocked, counts, crashed>>

Unwind ==
    /\ page # Nil /\ page.leaving /\ ~crashed
    /\ page' = Nil /\ Appear
    /\ UNCHANGED <<server, counts, crashed, taps>>
-----------------------------------------------------------------------------
(* Answers, in any order.                                                  *)
Pending(i, op) == ~crashed /\ i \in DOMAIN reads /\ reads[i].op = op
Rest(i) == [j \in 1..(Len(reads) - 1) |-> reads[IF j < i THEN j ELSE j + 1]]

AnswerBlockList(i) ==
    /\ Pending(i, "blockList")
    /\ blocked' = blockList
    /\ reads' = Rest(i) \o FetchReads(mainPosts)
    /\ filtered' = FetchFiltered(mainPosts)
    /\ UNCHANGED <<server, mainPosts, filter, cursor, loaded, blockedThen, table, lit,
                   page, counts, crashed, taps>>

AnswerBlock(i) ==
    /\ Pending(i, "block")
    /\ blockList' = blockList \cup {reads[i].author}
    /\ reads' = Rest(i)
    /\ UNCHANGED <<stamp, clock, lists, table, lit, blocked, page, counts,
                   crashed, taps>>

(* Mutant: an empty answer does not reload the table.                      *)
AnswerNoPostsUnloaded(i) ==
    /\ Pending(i, "posts") /\ Documents(reads[i]) = <<>>
    /\ hasNext' = FALSE
    /\ reads' = Rest(i)
    /\ UNCHANGED <<server, lists, rows, moving, lit, blocked, page, counts, crashed, taps>>

AnswerNoPosts(i) ==
    /\ Pending(i, "posts") /\ Documents(reads[i]) = <<>>
    /\ hasNext' = FALSE /\ rows' = Len(Shown)
    /\ reads' = Rest(i)
    /\ UNCHANGED <<server, lists, moving, lit, blocked, page, counts, crashed, taps>>

(* The posts go to the list that the filter, as it is now, selects.        *)
AnswerPosts(i) ==
    LET docs == Documents(reads[i]) IN
    /\ Pending(i, "posts") /\ docs # <<>>
    /\ IF filter # Nil
       THEN /\ filtered' = Without(docs, blocked)
            /\ UNCHANGED <<mainPosts, loaded>>
       ELSE /\ mainPosts' = Without(mainPosts \o docs, blocked)
            /\ loaded' = IF mainPosts = <<>> THEN clock ELSE loaded
            /\ UNCHANGED filtered
    /\ cursor' = stamp[docs[Len(docs)]]
    /\ rows' = Len(Displayed(mainPosts', filtered'))
    /\ reads' = Rest(i)
    /\ UNCHANGED <<server, filter, blockedThen, hasNext, moving, lit, blocked, page,
                   counts, crashed, taps>>

Answer(i) ==
    AnswerBlockList(i) \/ AnswerBlock(i) \/ AnswerNoPosts(i) \/ AnswerPosts(i)

(* Each of the three callbacks prints an error and does nothing else: no   *)
(* reload, no fetch after a block list, no block.                          *)
FailRead(i) ==
    /\ "offline" \in regime /\ ~crashed
    /\ reads' = Rest(i)
    /\ UNCHANGED <<server, lists, table, lit, blocked, page, counts, crashed, taps>>
-----------------------------------------------------------------------------
(* Meanwhile, elsewhere: a post is published, or edited, which gives it a  *)
(* new timestamp; or it is deleted.  The timestamp is the author's clock   *)
(* when he is done: the clocks agree, and no write is late.                *)
Publish(p) ==
    /\ clock < MaxClock[regime] /\ ~crashed
    /\ clock' = clock + 1 /\ stamp' = [stamp EXCEPT ![p] = clock + 1]
    /\ UNCHANGED <<blockList, lists, table, lit, blocked, reads, page, counts,
                   crashed, taps>>

Withdraw(p) ==
    /\ stamp[p] # 0 /\ ~crashed
    /\ stamp' = [stamp EXCEPT ![p] = 0]
    /\ UNCHANGED <<clock, blockList, lists, table, lit, blocked, reads, page,
                   counts, crashed, taps>>

Step ==
    \/ \E c \in Category : TapFilter(c)
    \/ TapAll \/ PullToRefresh
    \/ \E bottom \in BOOLEAN : Scroll(bottom)
    \/ \E i \in 1..rows : TapRow(i)
    \/ DrawRow \/ ComeToRest
    \/ Return \/ Peek \/ Join \/ Block \/ Unwind
    \/ \E i \in DOMAIN reads : Answer(i) \/ FailRead(i)
    \/ \E p \in Post : Publish(p) \/ Withdraw(p)

Next == Step /\ UNCHANGED regime

Spec == Init /\ [][Next]_vars

(* Firestore answers every read; the announcement of a block goes away.    *)
Fairness ==
    /\ WF_vars(UNCHANGED regime /\ \E i \in DOMAIN reads : Answer(i))
    /\ WF_vars(UNCHANGED regime /\ Unwind)
FairSpec == Spec /\ Fairness
-----------------------------------------------------------------------------
(* The student waits for his answers and finishes his swipes; most of what *)
(* follows also needs that no read fails.                                  *)
Patient == "hurry" \notin regime /\ "peek" \notin regime
Waits   == regime = {}

(* The feed is on the screen and every read has been answered.             *)
AtRest == reads = <<>> /\ page = Nil /\ ~crashed

Listed(s) == {s[i] : i \in DOMAIN s}

(* Lists change in nine handlers, the table only in reloadData.  For one   *)
(* who waits, no gesture meets a list that is shorter than the table: the  *)
(* one trap is that a list has been emptied to be read again, by a pull or *)
(* at the bottom of a category, and the table, still in motion, asks for a *)
(* row before the answer.                                                  *)
OneTrapOnly == Waits /\ crashed => moving /\ Shown = <<>> /\ reads # <<>>

(* Pages fetched one after another never show a post twice, though posts   *)
(* are published, renewed and withdrawn between them.                      *)
NoDuplicates == Waits =>
    \A i, j \in DOMAIN mainPosts : mainPosts[i] = mainPosts[j] => i = j

(* Nor do they skip one: between the moment the list was begun and its     *)
(* cursor, every post that was not renewed since is in the list, unless    *)
(* its author is blocked.                                                  *)
NoGaps ==
    Waits /\ AtRest /\ filter = Nil /\ mainPosts # <<>> =>
        \A p \in Post :
            /\ cursor <= stamp[p] /\ stamp[p] <= loaded
            /\ stamp[p] # 0 /\ AuthorOf[p] \notin blocked
            => p \in Listed(mainPosts)

(* Pages fetched one after another show every post they should, and once,  *)
(* though posts are published, renewed and withdrawn between them.         *)
PagesJoin == NoDuplicates /\ NoGaps

(* However long the answers take, no post is shown of an author whose block*)
(* was written before the feed last appeared: a block that is late for one *)
(* appearance, the page having unwound before it, is in force at the next. *)
NoBlockedShown ==
    Waits /\ AtRest => \A p \in Listed(Shown) : AuthorOf[p] \notin blockedThen

(* A participation is counted for the post of the page, not for another    *)
(* one that has come to its row, also when reads fail.                     *)
CountsItsPost == Patient => \A c \in counts : c[1] = c[2]

(* However fast the student taps, the table in the end has the rows of the *)
(* list it shows, unless a read failed: every handler that changes a list  *)
(* leads to a read whose answer reloads it.                                *)
TableCatchesUp ==
    ("offline" \notin regime /\ rows # Len(Shown)) ~> (rows = Len(Shown) \/ crashed)
=============================================================================
