--------------------------- MODULE MainFeedProofs ---------------------------
(***************************************************************************)
(* The feed, for any posts, authors, categories and page size.  Types and  *)
(* timestamps are invariant however the student hurries.  The rest holds   *)
(* while he waits for his answers: nothing writes to mainPosts while a     *)
(* page is open, so that currentNumberChanged may identify a post by its   *)
(* row, which is what Recruitment assumes of a page opened from the feed;  *)
(* and unless reads fail they form a chain, beside which only a block may  *)
(* be outstanding, and in which every list that changes is reloaded before *)
(* the next gesture.                                                       *)
(***************************************************************************)
EXTENDS MainFeed, TLAPS, FunctionTheorems, FiniteSetTheorems, SequenceTheorems

(* While a page is open its row holds its post, and the only read that may *)
(* be outstanding is the one that blocks its author, whose answer writes   *)
(* to the server alone.                                                    *)
PageIsRecord == page = [post |-> page.post, index |-> page.index,
                        leaving |-> page.leaving]
OnlyBlocking == reads = <<>> \/ \E a : reads = <<ReadToBlock(a)>>
PageFixed ==
    page # Nil => PageIsRecord /\ mainPosts[page.index] = page.post /\ OnlyBlocking

IInv == PageFixed /\ CountsItsPost

(* The answer to the read that blocks an author leaves nothing to wait for *)
(* and touches neither the lists nor the page; nor does an error.          *)
LEMMA BlockingAnswer ==
    ASSUME OnlyBlocking, NEW i \in DOMAIN reads, Answer(i) \/ FailRead(i)
    PROVE  reads' = <<>> /\ UNCHANGED <<mainPosts, page, counts>>
<1>1. PICK a : reads = <<ReadToBlock(a)>>
  BY DEF OnlyBlocking
<1>2. i = 1 /\ Len(reads) = 1 /\ reads[i] = ReadToBlock(a)
  BY <1>1
<1>3. reads[i].op = "block"
  BY <1>2 DEF ReadToBlock
<1>4. AnswerBlock(i) \/ FailRead(i)
  BY <1>3 DEF Answer, Pending, AnswerBlockList, AnswerNoPosts, AnswerPosts
<1>5. Rest(i) = <<>>
  BY <1>2 DEF Rest
<1> QED
  BY <1>4, <1>5 DEF AnswerBlock, FailRead, lists

LEMMA InitPageFixed == Init => IInv
  BY DEF Init, IInv, PageFixed, CountsItsPost

LEMMA NextPageFixed ==
    ASSUME Patient, IInv, [Next]_vars
    PROVE  IInv'
<1>env. "hurry" \notin regime /\ "peek" \notin regime
  BY DEF Patient
<1>set. Patient' = Patient
  BY DEF Next, vars, Patient
<1> USE <1>set
<1> USE DEF IInv
<1>1. ASSUME NEW c \in Category, TapFilter(c) PROVE IInv'
  BY <1>1 DEF TapFilter, OnFeed, PageFixed, CountsItsPost
<1>2. CASE TapAll
  BY <1>2 DEF TapAll, OnFeed, PageFixed, CountsItsPost
<1>3. CASE PullToRefresh
  BY <1>3 DEF PullToRefresh, OnFeed, PageFixed, CountsItsPost
<1>4. ASSUME NEW bottom \in BOOLEAN, Scroll(bottom) PROVE IInv'
  BY <1>4 DEF Scroll, Trap, OnFeed, PageFixed, CountsItsPost
<1>5. ASSUME NEW i \in 1..rows, TapRow(i) PROVE IInv'
  <2>1. reads = <<>> /\ page = Nil
    BY <1>5, <1>env DEF TapRow, OnFeed, Gesture
  <2>2. CASE i > Len(Shown)
    BY <1>5, <2>1, <2>2 DEF TapRow, Trap, PageFixed, CountsItsPost
  <2>3. CASE ~(i > Len(Shown))
    <3>1. /\ mainPosts' = Shown /\ reads' = reads /\ counts' = counts
          /\ page' = [post |-> Shown[i], index |-> i, leaving |-> FALSE]
      BY <1>5, <2>3 DEF TapRow
    <3>2. PageIsRecord'
      BY <3>1 DEF PageIsRecord
    <3>3. mainPosts'[page'.index] = page'.post
      BY <3>1
    <3> QED
      BY <2>1, <3>1, <3>2, <3>3 DEF PageFixed, OnlyBlocking, CountsItsPost
  <2> QED
    BY <2>2, <2>3
<1>6. CASE Return
  BY <1>6 DEF Return, PageFixed, CountsItsPost
<1>7. CASE Peek
  BY <1>7, <1>env DEF Peek
<1>8. CASE Join
  <2>1. page # Nil /\ mainPosts[page.index] = page.post
    BY <1>8 DEF Join, OnPage, PageFixed
  <2>2. CASE page.index > Len(mainPosts)
    BY <1>8, <2>2 DEF Join, Trap, PageFixed, CountsItsPost, lists,
       PageIsRecord, OnlyBlocking
  <2>3. CASE ~(page.index > Len(mainPosts))
    <3>1. page' = Nil /\ counts' = counts \cup {<<page.post, page.post>>}
      BY <1>8, <2>1, <2>3 DEF Join
    <3> QED
      BY <3>1 DEF PageFixed, CountsItsPost
  <2> QED
    BY <2>2, <2>3
<1>9. CASE Block
  <2>1. page # Nil /\ PageIsRecord /\ mainPosts[page.index] = page.post
    BY <1>9 DEF Block, OnPage, PageFixed
  <2>2. reads = <<>>
    BY <1>9, <1>env DEF Block, OnPage, Gesture
  <2>3. /\ reads' = <<ReadToBlock(AuthorOf[page.post])>>
        /\ page' = [post |-> page.post, index |-> page.index, leaving |-> TRUE]
        /\ mainPosts' = mainPosts /\ counts' = counts
    <3>1. /\ reads' = Append(reads, ReadToBlock(AuthorOf[page.post]))
          /\ page' = [page EXCEPT !.leaving = TRUE]
          /\ mainPosts' = mainPosts /\ counts' = counts
      BY <1>9 DEF Block, lists
    <3>2. reads' = <<ReadToBlock(AuthorOf[page.post])>>
      BY <2>2, <3>1
    <3>3. page' = [post |-> page.post, index |-> page.index, leaving |-> TRUE]
      BY <2>1, <3>1 DEF PageIsRecord
    <3> QED
      BY <3>1, <3>2, <3>3
  <2>4. OnlyBlocking'
    BY <2>3 DEF OnlyBlocking
  <2>5. PageIsRecord' /\ page'.index = page.index /\ page'.post = page.post
    BY <2>3 DEF PageIsRecord
  <2> QED
    BY <2>1, <2>3, <2>4, <2>5 DEF PageFixed, CountsItsPost
<1>10. CASE Unwind
  BY <1>10 DEF Unwind, PageFixed, CountsItsPost
<1>11. ASSUME NEW i \in DOMAIN reads, Answer(i) \/ FailRead(i) PROVE IInv'
  <2>1. counts' = counts /\ page' = page
    BY <1>11 DEF Answer, AnswerBlockList, AnswerBlock, AnswerNoPosts, AnswerPosts,
       FailRead
  <2>2. CASE page = Nil
    BY <2>1, <2>2 DEF PageFixed, CountsItsPost
  <2>3. CASE page # Nil
    <3>1. reads' = <<>> /\ mainPosts' = mainPosts
      BY <1>11, <2>3, BlockingAnswer DEF PageFixed
    <3> QED
      BY <2>1, <3>1 DEF PageFixed, CountsItsPost, OnlyBlocking, PageIsRecord
  <2> QED
    BY <2>2, <2>3
<1>12. ASSUME NEW p \in Post, Publish(p) \/ Withdraw(p) PROVE IInv'
  BY <1>12 DEF Publish, Withdraw, lists, PageFixed, CountsItsPost, OnlyBlocking,
     PageIsRecord
<1>14. CASE DrawRow \/ ComeToRest
  BY <1>14 DEF DrawRow, ComeToRest, Trap, lists, PageFixed, CountsItsPost, OnlyBlocking,
     PageIsRecord
<1>13. CASE UNCHANGED vars
  BY <1>13 DEF vars, lists, PageFixed, CountsItsPost, OnlyBlocking, PageIsRecord
<1> QED
  BY <1>1, <1>2, <1>3, <1>4, <1>5, <1>6, <1>7, <1>8, <1>9, <1>10, <1>11, <1>12,
     <1>13, <1>14 DEF Next, Step

(* A student who waits for his answers before he taps, and who finishes    *)
(* his swipes, joins the post he sees: for any posts, authors and blocks,  *)
(* whatever is published, edited or withdrawn meanwhile and whichever      *)
(* reads fail, the number that currentNumberChanged writes goes to the     *)
(* post of the page.                                                       *)
THEOREM JoinCountsItsPost == Spec => []CountsItsPost
<1> DEFINE Inv == Patient => IInv
<1>1. Init => Inv
  BY InitPageFixed
<1>2. Inv /\ [Next]_vars => Inv'
  <2>1. [Next]_vars => Patient' = Patient
    BY DEF Next, vars, Patient
  <2> QED
    BY <2>1, NextPageFixed
<1>3. Inv => CountsItsPost
  BY DEF IInv, CountsItsPost
<1> QED
  BY <1>1, <1>2, <1>3, PTL DEF Spec
-----------------------------------------------------------------------------
(* Ordering a finite set by distinct numbers gives every place to one      *)
(* member: as many places as members, and no two at the same.              *)
Lower(S, key, x) == {z \in S : key[z] < key[x]}

LEMMA Ranks ==
    ASSUME NEW S, IsFiniteSet(S), NEW key \in [S -> Int],
           \A x, y \in S : key[x] = key[y] => x = y
    PROVE  /\ Cardinality(S) \in Nat
           /\ \A x \in S : Cardinality(Lower(S, key, x)) \in 0..(Cardinality(S) - 1)
           /\ \A x, y \in S : key[x] < key[y] =>
                 Cardinality(Lower(S, key, x)) < Cardinality(Lower(S, key, y))
           /\ \A n \in 1..Cardinality(S) :
                 \E x \in S : Cardinality(Lower(S, key, x)) = n - 1
<1> DEFINE Before(x) == Lower(S, key, x)
           N == Cardinality(S)
           place == [x \in S |-> Cardinality(Before(x))]
<1>1. N \in Nat
  BY FS_CardinalityType
<1>2. ASSUME NEW x \in S
      PROVE  IsFiniteSet(Before(x)) /\ Cardinality(Before(x)) \in 0..(N - 1)
  <2>1. Before(x) \subseteq S /\ x \notin Before(x)
    BY DEF Lower
  <2>2. IsFiniteSet(Before(x)) /\ Cardinality(Before(x)) <= N /\ Cardinality(Before(x)) # N
    BY <2>1, FS_Subset
  <2>3. Cardinality(Before(x)) \in Nat
    BY <2>2, FS_CardinalityType
  <2> HIDE DEF Before, N
  <2> QED
    BY <1>1, <2>2, <2>3
<1>3. ASSUME NEW x \in S, NEW y \in S, key[x] < key[y]
      PROVE  Cardinality(Before(x)) < Cardinality(Before(y))
  <2>1. Before(x) \subseteq Before(y) /\ x \in Before(y) /\ x \notin Before(x)
    BY <1>3 DEF Lower
  <2>2. IsFiniteSet(Before(y)) /\ Cardinality(Before(y)) \in Nat /\ Cardinality(Before(x)) \in Nat
    BY <1>2, FS_CardinalityType
  <2>3. Cardinality(Before(x)) <= Cardinality(Before(y))
        /\ Cardinality(Before(x)) # Cardinality(Before(y))
    BY <2>1, <2>2, FS_Subset
  <2> HIDE DEF Before
  <2> QED
    BY <2>2, <2>3
<1>4. place \in Injection(S, 0..(N - 1))
  <2>1. place \in [S -> 0..(N - 1)]
    BY <1>2
  <2>2. ASSUME NEW x \in S, NEW y \in S, place[x] = place[y]
        PROVE  x = y
    <3>1. Cardinality(Before(x)) = Cardinality(Before(y))
      BY <2>2
    <3>2. Cardinality(Before(x)) \in Nat
      BY <1>2, FS_CardinalityType
    <3> HIDE DEF Before
    <3>3. ~(key[x] < key[y]) /\ ~(key[y] < key[x])
      BY <1>3, <3>1, <3>2
    <3> QED
      BY <3>3
  <2> HIDE DEF place, N
  <2> QED
    BY <2>1, <2>2, Zenon DEF Injection, IsInjective
<1>5. place \in Surjection(S, 0..(N - 1))
  <2>1. IsFiniteSet(0..(N - 1)) /\ Cardinality(0..(N - 1)) = N
    <3> HIDE DEF N
    <3>1. N - 1 \in Int /\ (IF 0 > N - 1 THEN 0 ELSE (N - 1) - 0 + 1) = N
      BY <1>1
    <3> QED
      BY <3>1, FS_Interval
  <2> HIDE DEF place
  <2> QED
    BY <1>4, <2>1, FS_Injection
<1>6. ASSUME NEW n \in 1..N
      PROVE  \E x \in S : Cardinality(Before(x)) = n - 1
  <2>1. n - 1 \in 0..(N - 1)
    BY <1>1
  <2>2. \E x \in S : place[x] = n - 1
    <3> HIDE DEF place, N
    <3> QED
      BY <1>5, <2>1 DEF Surjection
  <2> QED
    BY <2>2
<1> QED
  BY <1>1, <1>2, <1>3, <1>6
-----------------------------------------------------------------------------
(* Timestamps are given once each, and none is later than the clock; a     *)
(* read made to block somebody names an author; a block is not taken back. *)
GoodRead == {r \in ReadOp : r.op = "block" => r.author \in Author}
Stamps ==
    /\ \A p \in Post : stamp[p] <= clock
    /\ \A p, q \in Post : stamp[p] = stamp[q] /\ stamp[p] # 0 => p = q
    /\ cursor <= clock /\ loaded <= clock
    /\ reads \in Seq(GoodRead) /\ blockedThen \subseteq blockList

Typed ==
    /\ stamp \in [Post -> Nat] /\ clock \in Nat

Distinct(s) == \A i, j \in DOMAIN s : s[i] = s[j] => i = j
Holds(s, p) == \E i \in DOMAIN s : s[i] = p

(* A query's matches in Firestore's order: each once, newest first.        *)
LEMMA NewestOrder ==
    ASSUME Typed, Stamps, NEW S \in SUBSET Post, \A p \in S : stamp[p] # 0
    PROVE  /\ Cardinality(S) \in Nat
           /\ Newest(S) \in Seq(S) /\ Len(Newest(S)) = Cardinality(S)
           /\ \A i, j \in 1..Len(Newest(S)) :
                 i < j => stamp[Newest(S)[i]] > stamp[Newest(S)[j]]
           /\ \A p \in S : \E i \in 1..Len(Newest(S)) : Newest(S)[i] = p
<1> DEFINE After(p) == {q \in S : stamp[q] > stamp[p]}
           s == Newest(S)
           N == Cardinality(S)
<1>1. IsFiniteSet(S)
  <2> DEFINE f == [p \in S |-> stamp[p]]
  <2>1. f \in [S -> 1..clock] /\ \A p, q \in S : f[p] = f[q] => p = q
    BY DEF Typed, Stamps
  <2>2. f \in Injection(S, 1..clock)
    <3> HIDE DEF f
    <3> QED
      BY <2>1, Zenon DEF Injection, IsInjective
  <2>3. IsFiniteSet(1..clock)
    BY FS_Interval DEF Typed
  <2> HIDE DEF f
  <2> QED
    BY <2>2, <2>3, FS_Injection
<1>2. PICK key \in [S -> Int] :
           /\ \A p, q \in S : key[p] = key[q] => p = q
           /\ \A p, q \in S : key[q] < key[p] <=> stamp[q] > stamp[p]
  <2> DEFINE k == [p \in S |-> -stamp[p]]
  <2>1. /\ k \in [S -> Int]
        /\ \A p, q \in S : k[p] = k[q] => p = q
        /\ \A p, q \in S : k[q] < k[p] <=> stamp[q] > stamp[p]
    BY DEF Typed, Stamps
  <2> HIDE DEF k
  <2> QED
    BY <2>1
<1>3. \A p \in S : Lower(S, key, p) = After(p)
  BY <1>2 DEF Lower
<1>4. /\ N \in Nat
      /\ \A p \in S : Cardinality(Lower(S, key, p)) \in 0..(N - 1)
      /\ \A p, q \in S : key[p] < key[q] =>
            Cardinality(Lower(S, key, p)) < Cardinality(Lower(S, key, q))
      /\ \A n \in 1..N : \E p \in S : Cardinality(Lower(S, key, p)) = n - 1
  BY <1>1, <1>2, Ranks
<1>5. /\ \A p \in S : Cardinality(After(p)) \in 0..(N - 1)
      /\ \A p, q \in S : stamp[p] > stamp[q] => Cardinality(After(p)) < Cardinality(After(q))
      /\ \A n \in 1..N : \E p \in S : Cardinality(After(p)) = n - 1
  <2> HIDE DEF After, N
  <2> QED
    BY <1>2, <1>3, <1>4
<1>6. s = [i \in 1..N |-> CHOOSE p \in S : Cardinality(After(p)) = i - 1]
  BY DEF Newest
<1>7. \A i \in 1..N : s[i] \in S /\ Cardinality(After(s[i])) = i - 1
  <2> HIDE DEF After, N
  <2> SUFFICES ASSUME NEW i \in 1..N
               PROVE  s[i] \in S /\ Cardinality(After(s[i])) = i - 1
    OBVIOUS
  <2>1. \E p \in S : Cardinality(After(p)) = i - 1
    BY <1>5
  <2>2. s[i] = CHOOSE p \in S : Cardinality(After(p)) = i - 1
    BY <1>6
  <2> HIDE DEF s
  <2> QED
    BY <2>1, <2>2
<1>8. s \in Seq(S) /\ Len(s) = N
  <2>1. \A i \in 1..N : s[i] \in S
    BY <1>7
  <2>2. DOMAIN s = 1..N /\ s = [i \in 1..N |-> s[i]]
    BY <1>6
  <2> HIDE DEF s, N
  <2> QED
    BY SMTT(30), <1>4, <2>1, <2>2
<1>9. ASSUME NEW i \in 1..N, NEW j \in 1..N, i < j
      PROVE  stamp[s[i]] > stamp[s[j]]
  <2> HIDE DEF s, After, N
  <2>1. /\ s[i] \in S /\ Cardinality(After(s[i])) = i - 1
        /\ s[j] \in S /\ Cardinality(After(s[j])) = j - 1
    BY <1>7
  <2>2. s[i] # s[j]
    BY <1>9, <2>1, <1>4
  <2>3. stamp[s[i]] \in Nat /\ stamp[s[j]] \in Nat /\ stamp[s[i]] # stamp[s[j]]
    BY <2>1, <2>2 DEF Typed, Stamps
  <2>4. ~(stamp[s[j]] > stamp[s[i]])
    BY <1>4, <1>5, <1>9, <2>1
  <2> QED
    BY <2>3, <2>4
<1>10. ASSUME NEW p \in S
       PROVE  \E i \in 1..N : s[i] = p
  <2> HIDE DEF s, After, N
  <2>1. Cardinality(After(p)) \in 0..(N - 1)
    BY <1>5
  <2> DEFINE i == Cardinality(After(p)) + 1
  <2>2. i \in 1..N /\ Cardinality(After(p)) = i - 1
    BY <1>4, <2>1
  <2> HIDE DEF i
  <2>3. s[i] \in S /\ Cardinality(After(s[i])) = Cardinality(After(p))
    BY <1>7, <2>2
  <2>4. ~(stamp[s[i]] > stamp[p]) /\ ~(stamp[p] > stamp[s[i]])
    <3>1. Cardinality(After(p)) \in Nat
      BY <2>1
    <3> QED
      BY <1>5, <2>3, <3>1
  <2>5. s[i] = p
    BY <2>3, <2>4 DEF Typed, Stamps
  <2> QED
    BY <2>2, <2>5
<1> HIDE DEF s, N
<1> QED
  BY <1>4, <1>8, <1>9, <1>10 DEF s, N

(* One page of them: the newest PageSize, and nothing newer is left out.   *)
LEMMA DocumentsPage ==
    ASSUME Typed, Stamps, NEW r
    PROVE  /\ Documents(r) \in Seq(Post) /\ Documents(r) \in Seq(Matching(r))
           /\ Distinct(Documents(r))
           /\ \A p \in Matching(r) : Documents(r) # <<>>
           /\ Documents(r) # <<>> =>
                 /\ Documents(r)[Len(Documents(r))] \in Matching(r)
                 /\ \A i \in DOMAIN Documents(r) :
                       stamp[Documents(r)[i]] >= stamp[Documents(r)[Len(Documents(r))]]
                 /\ \A p \in Matching(r) :
                       stamp[p] >= stamp[Documents(r)[Len(Documents(r))]] => Holds(Documents(r), p)
<1> DEFINE S == Matching(r)
           s == Newest(S)
           k == IF Len(s) < PageSize THEN Len(s) ELSE PageSize
           docs == SubSeq(s, 1, k)
<1>1. S \in SUBSET Post /\ \A p \in S : stamp[p] # 0
  BY DEF Matching
<1>2. /\ s \in Seq(S)
      /\ \A i, j \in 1..Len(s) : i < j => stamp[s[i]] > stamp[s[j]]
      /\ \A p \in S : \E i \in 1..Len(s) : s[i] = p
  <2> HIDE DEF S
  <2> QED
    BY <1>1, NewestOrder
<1>3. Documents(r) = docs
  BY DEF Documents
<1> HIDE DEF S, s
<1>4. /\ Len(s) \in Nat /\ k \in 0..Len(s) /\ k \in Nat /\ k <= PageSize
      /\ Len(s) # 0 => k # 0
      /\ PageSize \in Nat
  BY <1>2, MainFeedAssumption
<1>5. k < Len(s) => k = PageSize
  BY <1>4
<1> HIDE DEF k
<1>6. docs \in Seq(S) /\ Len(docs) = k /\ \A i \in 1..k : docs[i] = s[i]
  BY <1>2, <1>4
<1> HIDE DEF docs
<1>7. /\ DOMAIN docs = 1..k /\ docs # <<>> <=> k # 0
      /\ \A i \in 1..k : i \in 1..Len(s)
  BY <1>4, <1>6
<1>8. docs \in Seq(Post)
  <2>1. Seq(S) \subseteq Seq(Post)
    BY <1>1, SeqMonotonic
  <2> QED
    BY <1>6, <2>1
<1>9. \A i \in 1..Len(s) : s[i] \in S /\ stamp[s[i]] \in Nat
  <2> SUFFICES ASSUME NEW i \in 1..Len(s) PROVE s[i] \in S /\ stamp[s[i]] \in Nat
    OBVIOUS
  <2>1. s[i] \in S
    BY <1>2, ElementOfSeq
  <2>2. s[i] \in Post
    BY <1>1, <2>1
  <2> QED
    BY <2>1, <2>2 DEF Typed
<1>10. Distinct(docs)
  <2> SUFFICES ASSUME NEW i \in 1..k, NEW j \in 1..k, s[i] = s[j] PROVE i = j
    BY <1>6, <1>7 DEF Distinct
  <2>1. i \in 1..Len(s) /\ j \in 1..Len(s)
    BY <1>7
  <2>2. stamp[s[i]] \in Nat /\ stamp[s[i]] = stamp[s[j]]
    BY <1>9, <2>1
  <2>3. ~(i < j)
    <3> SUFFICES ASSUME i < j PROVE FALSE
      OBVIOUS
    <3>1. stamp[s[i]] > stamp[s[j]]
      BY <1>2, <2>1
    <3> QED
      BY <2>2, <3>1
  <2>4. ~(j < i)
    <3> SUFFICES ASSUME j < i PROVE FALSE
      OBVIOUS
    <3>1. stamp[s[j]] > stamp[s[i]]
      BY <1>2, <2>1
    <3> QED
      BY <2>2, <3>1
  <2> QED
    BY <1>4, <2>3, <2>4
<1>11. \A p \in S : docs # <<>>
  <2> SUFFICES ASSUME NEW p \in S PROVE k # 0
    BY <1>7
  <2>1. Len(s) # 0
    BY <1>2, <1>4
  <2> QED
    BY <1>4, <2>1
<1>12. ASSUME docs # <<>>
       PROVE  /\ docs[k] \in S
              /\ \A i \in 1..k : stamp[docs[i]] >= stamp[docs[k]]
              /\ \A p \in S : stamp[p] >= stamp[docs[k]] => Holds(docs, p)
  <2>1. k \in 1..k /\ k \in 1..Len(s) /\ docs[k] = s[k]
    BY <1>4, <1>6, <1>7, <1>12
  <2>2. docs[k] \in S
    BY <1>9, <2>1
  <2>3. ASSUME NEW i \in 1..k
        PROVE  stamp[docs[i]] >= stamp[docs[k]]
    <3>1. docs[i] = s[i] /\ i \in 1..Len(s)
      BY <1>6, <1>7
    <3>2. CASE i = k
      BY <1>9, <2>1, <3>1, <3>2
    <3>3. CASE i < k
      <4>1. stamp[s[i]] > stamp[s[k]]
        BY <1>2, <2>1, <3>1, <3>3
      <4>2. stamp[s[i]] \in Nat /\ stamp[s[k]] \in Nat
        BY <1>9, <2>1, <3>1
      <4> QED
        BY <2>1, <3>1, <4>1, <4>2
    <3> QED
      BY <1>4, <3>2, <3>3
  <2>4. ASSUME NEW p \in S, stamp[p] >= stamp[docs[k]]
        PROVE  Holds(docs, p)
    <3>1. PICK i \in 1..Len(s) : s[i] = p
      BY <1>2
    <3>2. ~(k < i)
      <4> SUFFICES ASSUME k < i PROVE FALSE
        OBVIOUS
      <4>1. stamp[s[k]] > stamp[s[i]]
        BY <1>2, <2>1, <3>1
      <4>2. stamp[s[i]] \in Nat /\ stamp[s[k]] \in Nat
        BY <1>9, <2>1, <3>1
      <4>3. stamp[s[i]] >= stamp[s[k]]
        BY <2>1, <2>4, <3>1
      <4> QED
        BY <4>1, <4>2, <4>3
    <3>3. i \in 1..k
      BY <1>4, <3>2
    <3> QED
      BY <1>6, <1>7, <3>1, <3>3 DEF Holds
  <2> QED
    BY <2>2, <2>3, <2>4
<1> QED
  BY <1>3, <1>6, <1>7, <1>8, <1>10, <1>11, <1>12 DEF S
-----------------------------------------------------------------------------
(* What Without leaves: the posts of the others, each where it was listed  *)
(* once still once.                                                        *)
LEMMA WithoutSpec ==
    ASSUME NEW s \in Seq(Post), NEW authors
    PROVE  /\ Without(s, authors) \in Seq(Post)
           /\ \A n \in DOMAIN Without(s, authors) :
                 /\ AuthorOf[Without(s, authors)[n]] \notin authors
                 /\ Holds(s, Without(s, authors)[n])
           /\ \A i \in DOMAIN s :
                 AuthorOf[s[i]] \notin authors => Holds(Without(s, authors), s[i])
           /\ Distinct(s) => Distinct(Without(s, authors))
<1> DEFINE kept == {i \in DOMAIN s : AuthorOf[s[i]] \notin authors}
           Before(i) == {j \in kept : j < i}
           N == Cardinality(kept)
           at(n) == CHOOSE i \in kept : Cardinality(Before(i)) = n - 1
           w == Without(s, authors)
<1>1. kept \subseteq 1..Len(s) /\ Len(s) \in Nat /\ DOMAIN s = 1..Len(s)
  OBVIOUS
<1>2. IsFiniteSet(kept)
  <2>1. IsFiniteSet(1..Len(s))
    BY <1>1, FS_Interval
  <2> QED
    BY <1>1, <2>1, FS_Subset
<1>3. PICK key \in [kept -> Int] : \A i \in kept : key[i] = i
  <2> DEFINE k == [i \in kept |-> i]
  <2>1. k \in [kept -> Int] /\ \A i \in kept : k[i] = i
    BY <1>1
  <2> HIDE DEF k
  <2> QED
    BY <2>1
<1> HIDE DEF kept
<1>4. \A i \in kept : Lower(kept, key, i) = Before(i)
  BY <1>3 DEF Lower
<1>5. \A i, j \in kept : key[i] = key[j] => i = j
  BY <1>3
<1>6. /\ N \in Nat
      /\ \A i \in kept : Cardinality(Lower(kept, key, i)) \in 0..(N - 1)
      /\ \A n \in 1..N : \E i \in kept : Cardinality(Lower(kept, key, i)) = n - 1
  BY <1>2, <1>5, Ranks
<1> HIDE DEF Before, N
<1>7. /\ \A i \in kept : Cardinality(Before(i)) \in 0..(N - 1)
      /\ \A n \in 1..N : \E i \in kept : Cardinality(Before(i)) = n - 1
  BY <1>4, <1>6
<1>8. w = [n \in 1..N |-> s[at(n)]]
  BY DEF Without, kept, Before, N
<1>9. \A n \in 1..N : at(n) \in kept /\ Cardinality(Before(at(n))) = n - 1
  BY <1>7
<1> HIDE DEF at, w
<1>10. \A i \in kept : i \in DOMAIN s /\ s[i] \in Post /\ AuthorOf[s[i]] \notin authors
  BY <1>1 DEF kept
<1>11. w \in Seq(Post) /\ DOMAIN w = 1..N
  <2>1. \A n \in 1..N : s[at(n)] \in Post
    BY <1>9, <1>10
  <2> QED
    BY <1>6, <1>8, <2>1
<1>12. \A n \in 1..N : AuthorOf[w[n]] \notin authors /\ Holds(s, w[n])
  <2> SUFFICES ASSUME NEW n \in 1..N
               PROVE  AuthorOf[w[n]] \notin authors /\ Holds(s, w[n])
    OBVIOUS
  <2>1. w[n] = s[at(n)] /\ at(n) \in kept
    BY <1>8, <1>9
  <2> QED
    BY <1>10, <2>1 DEF Holds
<1>13. ASSUME NEW i \in DOMAIN s, AuthorOf[s[i]] \notin authors
       PROVE  Holds(w, s[i])
  <2>1. i \in kept
    BY <1>13 DEF kept
  <2> DEFINE n == Cardinality(Before(i)) + 1
  <2>2. n \in 1..N /\ Cardinality(Before(i)) = n - 1
    BY <1>6, <1>7, <2>1
  <2> HIDE DEF n
  <2>3. at(n) = i
    <3>1. at(n) \in kept /\ Cardinality(Before(at(n))) = Cardinality(Before(i))
      BY <1>9, <2>2
    <3>2. \A x, y \in kept : key[x] < key[y] =>
             Cardinality(Lower(kept, key, x)) < Cardinality(Lower(kept, key, y))
      BY <1>2, <1>5, Ranks
    <3>3. ~(key[at(n)] < key[i]) /\ ~(key[i] < key[at(n)])
      <4>1. Cardinality(Before(i)) \in Int
        BY <1>7, <2>1
      <4>2. /\ Cardinality(Lower(kept, key, at(n))) = Cardinality(Before(i))
            /\ Cardinality(Lower(kept, key, i)) = Cardinality(Before(i))
        BY <1>4, <2>1, <3>1
      <4> QED
        BY <2>1, <3>1, <3>2, <4>1, <4>2
    <3> QED
      BY <1>3, <2>1, <3>1, <3>3
  <2> QED
    BY <1>8, <1>11, <2>2, <2>3 DEF Holds
<1>14. ASSUME Distinct(s)
       PROVE  Distinct(w)
  <2> SUFFICES ASSUME NEW m \in 1..N, NEW n \in 1..N, w[m] = w[n]
               PROVE  m = n
    BY <1>11 DEF Distinct
  <2>1. s[at(m)] = s[at(n)] /\ at(m) \in DOMAIN s /\ at(n) \in DOMAIN s
    BY <1>8, <1>9, <1>10
  <2>2. at(m) = at(n)
    BY <1>14, <2>1 DEF Distinct
  <2>3. m - 1 = n - 1
    BY <1>9, <2>2
  <2> QED
    BY <1>6, <2>3
<1> QED
  BY <1>11, <1>12, <1>13, <1>14 DEF w

(* Two lists with no post in common, each without repetition, make one     *)
(* without repetition.                                                     *)
LEMMA DistinctJoin ==
    ASSUME NEW s \in Seq(Post), NEW t \in Seq(Post), Distinct(s), Distinct(t),
           \A i \in DOMAIN s, j \in DOMAIN t : s[i] # t[j]
    PROVE  /\ s \o t \in Seq(Post) /\ Distinct(s \o t)
           /\ \A p : Holds(s \o t, p) <=> Holds(s, p) \/ Holds(t, p)
<1> DEFINE m == Len(s)
           n == Len(t)
           u == s \o t
<1>1. m \in Nat /\ n \in Nat /\ DOMAIN s = 1..m /\ DOMAIN t = 1..n
  OBVIOUS
<1>2. /\ u \in Seq(Post) /\ DOMAIN u = 1..(m + n)
      /\ \A i \in 1..(m + n) : u[i] = IF i <= m THEN s[i] ELSE t[i - m]
  OBVIOUS
<1> HIDE DEF m, n, u
<1>3. \A i \in 1..(m + n) : \/ i \in 1..m /\ u[i] = s[i]
                            \/ i - m \in 1..n /\ u[i] = t[i - m]
  BY <1>1, <1>2
<1>4. Distinct(u)
  <2> SUFFICES ASSUME NEW i \in 1..(m + n), NEW j \in 1..(m + n), u[i] = u[j]
               PROVE  i = j
    BY <1>2 DEF Distinct
  <2>1. CASE i \in 1..m /\ u[i] = s[i] /\ j \in 1..m /\ u[j] = s[j]
    BY <1>1, <2>1 DEF Distinct
  <2>2. CASE i - m \in 1..n /\ u[i] = t[i - m] /\ j - m \in 1..n /\ u[j] = t[j - m]
    <3>1. i - m = j - m
      BY <1>1, <2>2 DEF Distinct
    <3> QED
      BY <1>1, <3>1
  <2> QED
    BY <1>1, <1>3, <2>1, <2>2
<1>5. ASSUME NEW p
      PROVE  Holds(u, p) <=> Holds(s, p) \/ Holds(t, p)
  <2>1. ASSUME Holds(u, p) PROVE Holds(s, p) \/ Holds(t, p)
    BY <1>1, <1>2, <1>3, <2>1 DEF Holds
  <2>2. ASSUME Holds(s, p) PROVE Holds(u, p)
    <3>1. PICK i \in 1..m : s[i] = p
      BY <1>1, <2>2 DEF Holds
    <3>2. i \in 1..(m + n) /\ u[i] = p
      BY <1>1, <1>2, <3>1
    <3> QED
      BY <1>2, <3>2 DEF Holds
  <2>3. ASSUME Holds(t, p) PROVE Holds(u, p)
    <3>1. PICK j \in 1..n : t[j] = p
      BY <1>1, <2>3 DEF Holds
    <3>2. j + m \in 1..(m + n) /\ u[j + m] = t[(j + m) - m] /\ (j + m) - m = j
      BY <1>1, <1>2
    <3> QED
      BY <1>2, <3>1, <3>2 DEF Holds
  <2> QED
    BY <2>1, <2>2, <2>3
<1> QED
  BY <1>2, <1>4, <1>5 DEF u
-----------------------------------------------------------------------------
LEMMA ReadTypes ==
    ASSUME TypeOK, Stamps
    PROVE  /\ ReadBlockList \in GoodRead /\ FetchReads(mainPosts) \in Seq(GoodRead)
           /\ \A c \in Category \cup {Nil}, n \in Nat : Query(c, n) \in GoodRead
           /\ \A a \in Author : ReadToBlock(a) \in GoodRead
           /\ \A i \in DOMAIN reads : Rest(i) \in Seq(GoodRead)
<1>1. ReadBlockList \in GoodRead /\ \A a \in Author : ReadToBlock(a) \in GoodRead
  BY DEF ReadBlockList, ReadToBlock, ReadOp, GoodRead
<1>2. \A c \in Category \cup {Nil}, n \in Nat : Query(c, n) \in GoodRead
  BY DEF Query, ReadOp, GoodRead
<1>3. FetchReads(mainPosts) \in Seq(GoodRead)
  <2>1. filter \in Category \cup {Nil} /\ cursor \in Nat
    BY DEF TypeOK
  <2>2. \A r \in GoodRead : <<r>> \in Seq(GoodRead)
    OBVIOUS
  <2>3. <<>> \in Seq(GoodRead)
    OBVIOUS
  <2>4. /\ <<Query(Nil, 0)>> \in Seq(GoodRead) /\ <<Query(filter, 0)>> \in Seq(GoodRead)
        /\ <<Query(Nil, cursor)>> \in Seq(GoodRead)
    BY <1>2, <2>1, <2>2
  <2> QED
    BY <2>3, <2>4 DEF FetchReads
<1>4. ASSUME NEW i \in DOMAIN reads
      PROVE  Rest(i) \in Seq(GoodRead)
  <2>1. reads \in Seq(GoodRead)
    BY DEF Stamps
  <2>2. Len(reads) - 1 \in Nat /\ \A j \in 1..(Len(reads) - 1) :
           reads[IF j < i THEN j ELSE j + 1] \in GoodRead
    BY <2>1
  <2> QED
    BY <2>2 DEF Rest
<1> QED
  BY <1>1, <1>2, <1>3, <1>4

LEMMA ShownType ==
    ASSUME TypeOK
    PROVE  Shown \in Seq(Post)
  BY DEF TypeOK, Shown, Displayed

LEMMA GoodReads == Seq(GoodRead) \subseteq Seq(ReadOp)
  BY SeqMonotonic DEF GoodRead

LEMMA InitStamps == Init => TypeOK /\ Stamps
<1> SUFFICES ASSUME Init PROVE TypeOK /\ Stamps
  OBVIOUS
<1>1. ReadBlockList \in GoodRead
  BY DEF ReadBlockList, ReadOp, GoodRead
<1>2. <<>> \in Seq(Post) /\ <<ReadBlockList>> \in Seq(GoodRead)
  BY <1>1
<1>3. hasNext \in BOOLEAN /\ moving \in BOOLEAN /\ crashed \in BOOLEAN
  BY DEF Init
<1>4. mainPosts \in Seq(Post) /\ reads \in Seq(GoodRead) /\ reads \in Seq(ReadOp)
  BY <1>2, GoodReads DEF Init
<1>5. /\ stamp \in [Post -> Nat] /\ clock \in Nat /\ rows \in Nat /\ cursor \in Nat
      /\ loaded \in Nat /\ taps \in Nat
  BY DEF Init
<1>6. /\ regime \in Regimes /\ blockList \subseteq Author /\ blocked \subseteq Author
      /\ blockedThen \subseteq Author /\ filtered \in Seq(Post) \cup {Nil} /\ filter \in Category \cup {Nil}
      /\ lit \in Category \cup {Nil} /\ (filter = Nil => filtered = Nil)
      /\ page \in Page \cup {Nil} /\ counts \subseteq Post \X Post
  BY DEF Init
<1>7. Stamps
  BY <1>4 DEF Init, Stamps
<1> QED
  BY <1>3, <1>4, <1>5, <1>6, <1>7 DEF TypeOK

(* The screen is redrawn: viewWillAppear.                                  *)
LEMMA AppearTypes ==
    ASSUME TypeOK, Stamps, Appear, page' \in Page \cup {Nil},
           UNCHANGED <<regime, server, crashed>>, taps' \in Nat, counts' \subseteq Post \X Post
    PROVE  TypeOK' /\ Stamps'
<1>1. /\ mainPosts' = <<>> /\ filtered' = Nil /\ lit' = Nil /\ rows' = 0
      /\ reads' = Append(reads, ReadBlockList) /\ blockedThen' = blockList
      /\ UNCHANGED <<filter, cursor, loaded, hasNext, moving, blocked>>
  BY DEF Appear
<1>2. mainPosts' \in Seq(Post)
  <2>1. <<>> \in Seq(Post)
    OBVIOUS
  <2> QED
    BY <1>1, <2>1
<1>3. reads' \in Seq(GoodRead)
  BY <1>1, ReadTypes DEF Stamps
<1> QED
  BY <1>1, <1>2, <1>3, GoodReads DEF TypeOK, Stamps, server

(* The app stops; nothing but the gesture count may change.                *)
LEMMA TrapTypes ==
    ASSUME TypeOK, Stamps, Trap, regime' = regime, taps' \in Nat
    PROVE  TypeOK' /\ Stamps'
  BY DEF TypeOK, Stamps, Trap, server, lists, table

LEMMA NextTypes ==
    ASSUME TypeOK, Stamps, [Next]_vars
    PROVE  TypeOK' /\ Stamps'
<1> USE GoodReads
<1>t. ASSUME Gesture PROVE taps' \in Nat
  BY <1>t DEF Gesture, TypeOK
<1>n. <<>> \in Seq(Post)
  OBVIOUS
<1>r. \A s \in Seq(GoodRead), r \in GoodRead : Append(s, r) \in Seq(GoodRead)
  OBVIOUS
<1>c. \A s, u \in Seq(GoodRead) : s \o u \in Seq(GoodRead)
  OBVIOUS
<1>f. FetchFiltered(mainPosts) \in Seq(Post) \cup {Nil}
      /\ (filter = Nil => FetchFiltered(mainPosts) = filtered)
  BY <1>n DEF TypeOK, FetchFiltered
<1>b. MayHaveNext \in BOOLEAN
  BY DEF MayHaveNext, TypeOK
<1>1. ASSUME Next, NEW c \in Category, TapFilter(c) PROVE TypeOK' /\ Stamps'
  <2>1. /\ lit' = c /\ filter' = c
        /\ reads' = Append(reads, IF mainPosts = <<>> THEN Query(Nil, 0) ELSE Query(c, 0))
        /\ filtered' = IF mainPosts = <<>> THEN filtered ELSE <<>>
        /\ UNCHANGED <<regime, stamp, clock, blockList, mainPosts, cursor, loaded,
                       blockedThen, rows, hasNext, moving, blocked, page, counts, crashed>>
    BY <1>1 DEF TapFilter, Next, server, table
  <2>2. taps' \in Nat
    BY <1>1, <1>t DEF TapFilter, OnFeed
  <2>3. reads' \in Seq(GoodRead)
    BY <2>1, <1>r, ReadTypes DEF Stamps
  <2>4. filtered' \in Seq(Post) \cup {Nil} /\ filter' # Nil
    BY <2>1, <1>n, MainFeedAssumption DEF TypeOK
  <2> QED
    BY <2>1, <2>2, <2>3, <2>4 DEF TypeOK, Stamps
<1>2. ASSUME Next, TapAll PROVE TypeOK' /\ Stamps'
  <2>1. /\ lit' = Nil /\ filter' = Nil /\ filtered' = Nil /\ mainPosts' = <<>>
        /\ reads' = Append(reads, Query(Nil, 0))
        /\ UNCHANGED <<regime, stamp, clock, blockList, cursor, loaded, blockedThen, rows,
                       hasNext, moving, blocked, page, counts, crashed>>
    BY <1>2 DEF TapAll, Next, server, table
  <2>2. taps' \in Nat /\ reads' \in Seq(GoodRead) /\ mainPosts' \in Seq(Post)
    BY <1>2, <1>t, <1>n, <1>r, <2>1, ReadTypes DEF TapAll, OnFeed, TypeOK, Stamps
  <2> QED
    BY <2>1, <2>2 DEF TypeOK, Stamps
<1>3. ASSUME Next, PullToRefresh PROVE TypeOK' /\ Stamps'
  <2>1. /\ hasNext' = MayHaveNext /\ moving' = TRUE
        /\ mainPosts' = IF filter = Nil THEN <<>> ELSE mainPosts
        /\ reads' = Append(reads, ReadBlockList)
        /\ UNCHANGED <<regime, stamp, clock, blockList, filtered, filter, cursor, loaded,
                       blockedThen, rows, lit, blocked, page, counts, crashed>>
    BY <1>3 DEF PullToRefresh, Next, server
  <2>2. taps' \in Nat /\ reads' \in Seq(GoodRead) /\ mainPosts' \in Seq(Post)
    BY <1>3, <1>t, <1>n, <1>r, <2>1, ReadTypes DEF PullToRefresh, OnFeed, TypeOK, Stamps
  <2> QED
    BY <1>b, <2>1, <2>2 DEF TypeOK, Stamps
<1>4. ASSUME Next, NEW bottom \in BOOLEAN, Scroll(bottom) PROVE TypeOK' /\ Stamps'
  <2>1. taps' \in Nat /\ regime' = regime
    BY <1>4, <1>t DEF Scroll, OnFeed, Next
  <2>2. CASE Trap
    BY <2>1, <2>2, TrapTypes
  <2>3. CASE ~Trap
    <3>1. /\ hasNext' = MayHaveNext /\ moving' = TRUE
          /\ reads' = IF bottom /\ MayHaveNext THEN reads \o FetchReads(mainPosts) ELSE reads
          /\ filtered' = IF bottom /\ MayHaveNext THEN FetchFiltered(mainPosts) ELSE filtered
          /\ UNCHANGED <<stamp, clock, blockList, mainPosts, filter, cursor, loaded,
                         blockedThen, rows, lit, blocked, page, counts, crashed>>
      BY <1>4, <2>3 DEF Scroll, server
    <3>2. reads' \in Seq(GoodRead) /\ filtered' \in Seq(Post) \cup {Nil}
      BY <1>c, <1>f, <3>1, ReadTypes DEF TypeOK, Stamps
    <3>3. filter' = Nil => filtered' = Nil
      BY <1>f, <3>1 DEF TypeOK
    <3> QED
      BY <1>b, <2>1, <3>1, <3>2, <3>3 DEF TypeOK, Stamps
  <2> QED
    BY <2>2, <2>3
<1>5. ASSUME Next, NEW i \in 1..rows, TapRow(i) PROVE TypeOK' /\ Stamps'
  <2>1. taps' \in Nat /\ regime' = regime
    BY <1>5, <1>t DEF TapRow, OnFeed, Next
  <2>2. CASE i > Len(Shown)
    BY <1>5, <2>1, <2>2, TrapTypes DEF TapRow
  <2>3. CASE ~(i > Len(Shown))
    <3>1. /\ mainPosts' = Shown
          /\ page' = [post |-> Shown[i], index |-> i, leaving |-> FALSE]
          /\ moving' = FALSE
          /\ UNCHANGED <<stamp, clock, blockList, filtered, filter, cursor, loaded,
                         blockedThen, rows, hasNext, lit, blocked, reads, counts, crashed>>
      BY <1>5, <2>3 DEF TapRow, server, table
    <3>2. Shown \in Seq(Post) /\ Shown[i] \in Post /\ i \in Nat \ {0}
      BY <2>3, ShownType DEF TypeOK
    <3>3. page' \in Page
      BY <3>1, <3>2 DEF Page
    <3> QED
      BY <2>1, <3>1, <3>2, <3>3 DEF TypeOK, Stamps
  <2> QED
    BY <2>2, <2>3
<1>6. ASSUME Next, Return PROVE TypeOK' /\ Stamps'
  BY <1>6, <1>t, AppearTypes DEF Return, OnPage, Next, TypeOK
<1>7. ASSUME Next, Peek PROVE TypeOK' /\ Stamps'
  BY <1>7, <1>t, AppearTypes DEF Peek, OnPage, Next, TypeOK
<1>8. ASSUME Next, Join PROVE TypeOK' /\ Stamps'
  <2>1. taps' \in Nat /\ regime' = regime /\ page # Nil
    BY <1>8, <1>t DEF Join, OnPage, Next
  <2>2. CASE page.index > Len(mainPosts)
    BY <1>8, <2>1, <2>2, TrapTypes DEF Join
  <2>3. CASE ~(page.index > Len(mainPosts))
    <3>1. page.post \in Post /\ mainPosts[page.index] \in Post
      BY <2>1, <2>3 DEF TypeOK, Page
    <3>2. /\ counts' = counts \cup {<<page.post, mainPosts[page.index]>>}
          /\ page' = Nil /\ Appear /\ UNCHANGED <<server, crashed>>
      BY <1>8, <2>3 DEF Join
    <3>3. counts' \subseteq Post \X Post
      BY <3>1, <3>2 DEF TypeOK
    <3> QED
      BY <2>1, <3>2, <3>3, AppearTypes
  <2> QED
    BY <2>2, <2>3
<1>9. ASSUME Next, Block PROVE TypeOK' /\ Stamps'
  <2>1. taps' \in Nat /\ regime' = regime /\ page # Nil
    BY <1>9, <1>t DEF Block, OnPage, Next
  <2>2. /\ reads' = Append(reads, ReadToBlock(AuthorOf[page.post]))
        /\ page' = [page EXCEPT !.leaving = TRUE]
        /\ UNCHANGED <<stamp, clock, blockList, mainPosts, filtered, filter, cursor, loaded,
                       blockedThen, rows, hasNext, moving, lit, blocked, counts, crashed>>
    BY <1>9 DEF Block, server, lists, table
  <2>3. page' \in Page /\ AuthorOf[page.post] \in Author
    BY <2>1, <2>2, MainFeedAssumption DEF TypeOK, Page
  <2>4. reads' \in Seq(GoodRead)
    BY <1>r, <2>2, <2>3, ReadTypes DEF Stamps
  <2> QED
    BY <2>1, <2>2, <2>3, <2>4 DEF TypeOK, Stamps
<1>10. ASSUME Next, Unwind PROVE TypeOK' /\ Stamps'
  BY <1>10, AppearTypes DEF Unwind, Next, TypeOK
<1>11. ASSUME Next, NEW i \in DOMAIN reads, AnswerBlockList(i) PROVE TypeOK' /\ Stamps'
  <2>1. /\ blocked' = blockList
        /\ reads' = Rest(i) \o FetchReads(mainPosts)
        /\ filtered' = FetchFiltered(mainPosts)
        /\ UNCHANGED <<regime, stamp, clock, blockList, mainPosts, filter, cursor, loaded,
                       blockedThen, rows, hasNext, moving, lit, page, counts, crashed, taps>>
    BY <1>11 DEF AnswerBlockList, Next, server, table
  <2>2. reads' \in Seq(GoodRead)
    BY <1>c, <2>1, ReadTypes
  <2> QED
    BY <1>f, <2>1, <2>2 DEF TypeOK, Stamps
<1>12. ASSUME Next, NEW i \in DOMAIN reads, AnswerBlock(i) PROVE TypeOK' /\ Stamps'
  <2>1. /\ blockList' = blockList \cup {reads[i].author}
        /\ reads' = Rest(i) /\ reads[i].op = "block"
        /\ UNCHANGED <<regime, stamp, clock, mainPosts, filtered, filter, cursor, loaded,
                       blockedThen, rows, hasNext, moving, lit, blocked, page, counts, crashed, taps>>
    BY <1>12 DEF AnswerBlock, Pending, Next, lists, table
  <2>2. reads' \in Seq(GoodRead)
    BY <2>1, ReadTypes
  <2>3. blockList' \subseteq Author
    BY <2>1 DEF TypeOK, Stamps, GoodRead
  <2> QED
    BY <2>1, <2>2, <2>3 DEF TypeOK, Stamps
<1>13. ASSUME Next, NEW i \in DOMAIN reads, AnswerNoPosts(i) PROVE TypeOK' /\ Stamps'
  <2>1. /\ hasNext' = FALSE /\ rows' = Len(Shown) /\ reads' = Rest(i)
        /\ UNCHANGED <<regime, stamp, clock, blockList, mainPosts, filtered, filter, cursor,
                       loaded, blockedThen, moving, lit, blocked, page, counts, crashed, taps>>
    BY <1>13 DEF AnswerNoPosts, Next, server, lists
  <2>2. reads' \in Seq(GoodRead)
    BY <2>1, ReadTypes
  <2>3. hasNext' \in BOOLEAN
    BY <2>1
  <2>4. rows' \in Nat
    BY <2>1, ShownType
  <2> QED
    BY <2>1, <2>2, <2>3, <2>4 DEF TypeOK, Stamps
<1>14. ASSUME Next, NEW i \in DOMAIN reads, AnswerPosts(i) PROVE TypeOK' /\ Stamps'
  <2> DEFINE docs == Documents(reads[i])
             last == docs[Len(docs)]
  <2>1. /\ docs # <<>> /\ cursor' = stamp[last] /\ reads' = Rest(i)
        /\ rows' = Len(Displayed(mainPosts', filtered'))
        /\ UNCHANGED <<regime, stamp, clock, blockList, filter, blockedThen, hasNext,
                       moving, lit, blocked, page, counts, crashed, taps>>
        /\ \/ /\ filter # Nil /\ filtered' = Without(docs, blocked)
              /\ UNCHANGED <<mainPosts, loaded>>
           \/ /\ filter = Nil /\ mainPosts' = Without(mainPosts \o docs, blocked)
              /\ loaded' = IF mainPosts = <<>> THEN clock ELSE loaded
              /\ UNCHANGED filtered
    BY <1>14 DEF AnswerPosts, Next, server
  <2>2. Typed
    BY DEF Typed, TypeOK
  <2>3. docs \in Seq(Post) /\ last \in Matching(reads[i])
    BY <2>1, <2>2, DocumentsPage
  <2> HIDE DEF docs, last
  <2>4. cursor' \in Nat /\ cursor' <= clock
    BY <2>1, <2>3 DEF Matching, TypeOK, Stamps
  <2>5. mainPosts \o docs \in Seq(Post)
    BY <2>3 DEF TypeOK
  <2>6. /\ Without(docs, blocked) \in Seq(Post)
        /\ Without(mainPosts \o docs, blocked) \in Seq(Post)
    BY <2>3, <2>5, WithoutSpec
  <2>7. mainPosts' \in Seq(Post) /\ filtered' \in Seq(Post) \cup {Nil}
        /\ (filter' = Nil => filtered' = Nil)
    BY <2>1, <2>6 DEF TypeOK
  <2>8. rows' \in Nat
    <3>1. Displayed(mainPosts', filtered') \in Seq(Post)
      BY <2>7 DEF Displayed
    <3> QED
      BY <2>1, <3>1
  <2>9. loaded' \in Nat /\ loaded' <= clock
    BY <2>1 DEF TypeOK, Stamps
  <2>10. reads' \in Seq(GoodRead)
    BY <2>1, ReadTypes
  <2> QED
    BY <2>1, <2>4, <2>7, <2>8, <2>9, <2>10 DEF TypeOK, Stamps
<1>15. ASSUME Next, NEW p \in Post, Publish(p) PROVE TypeOK' /\ Stamps'
  <2>1. /\ clock' = clock + 1 /\ stamp' = [stamp EXCEPT ![p] = clock + 1]
        /\ UNCHANGED <<regime, blockList, mainPosts, filtered, filter, cursor, loaded,
                       blockedThen, rows, hasNext, moving, lit, blocked, reads, page, counts, crashed, taps>>
    BY <1>15 DEF Publish, Next, lists, table
  <2>2. clock' \in Nat /\ stamp' \in [Post -> Nat]
    BY <2>1 DEF TypeOK
  <2>3. Stamps'
    BY <2>1 DEF TypeOK, Stamps
  <2> QED
    BY <2>1, <2>2, <2>3 DEF TypeOK
<1>16. ASSUME Next, NEW p \in Post, Withdraw(p) PROVE TypeOK' /\ Stamps'
  <2>1. /\ stamp' = [stamp EXCEPT ![p] = 0]
        /\ UNCHANGED <<regime, clock, blockList, mainPosts, filtered, filter, cursor, loaded,
                       blockedThen, rows, hasNext, moving, lit, blocked, reads, page, counts, crashed, taps>>
    BY <1>16 DEF Withdraw, Next, lists, table
  <2>2. stamp' \in [Post -> Nat]
    BY <2>1 DEF TypeOK
  <2>3. Stamps'
    BY <2>1 DEF TypeOK, Stamps
  <2> QED
    BY <2>1, <2>2, <2>3 DEF TypeOK
<1>18. ASSUME Next, DrawRow PROVE TypeOK' /\ Stamps'
  BY <1>18, TrapTypes DEF DrawRow, Next, TypeOK
<1>19. ASSUME Next, ComeToRest PROVE TypeOK' /\ Stamps'
  BY <1>19 DEF ComeToRest, Next, server, lists, TypeOK, Stamps
<1>20. ASSUME Next, NEW i \in DOMAIN reads, FailRead(i) PROVE TypeOK' /\ Stamps'
  <2>1. /\ reads' = Rest(i)
        /\ UNCHANGED <<regime, stamp, clock, blockList, mainPosts, filtered, filter, cursor,
                       loaded, blockedThen, rows, hasNext, moving, lit, blocked, page, counts,
                       crashed, taps>>
    BY <1>20 DEF FailRead, Next, server, lists, table
  <2>2. reads' \in Seq(GoodRead)
    BY <2>1, ReadTypes
  <2> QED
    BY <2>1, <2>2 DEF TypeOK, Stamps
<1>17. CASE UNCHANGED vars
  BY <1>17 DEF vars, server, lists, table, TypeOK, Stamps
<1> QED
  BY <1>1, <1>2, <1>3, <1>4, <1>5, <1>6, <1>7, <1>8, <1>9, <1>10, <1>11, <1>12,
     <1>13, <1>14, <1>15, <1>16, <1>17, <1>18, <1>19,
     <1>20 DEF Next, Step, Answer

(* Every variable of the feed keeps the type of what it stands for,        *)
(* however the gestures and the answers interleave.                        *)
THEOREM FeedTypes == Spec => []TypeOK
<1> DEFINE Inv == TypeOK /\ Stamps
<1>1. Inv /\ [Next]_vars => Inv'
  BY NextTypes
<1> QED
  BY InitStamps, <1>1, PTL DEF Spec
-----------------------------------------------------------------------------
(* What holds while the student waits for his answers and none fails.      *)
(* While the feed is on the screen at most two reads are outstanding: that *)
(* of a block, which the page did not wait for, and the next one of a      *)
(* chain that ends with a reload: the block list, which empties the list   *)
(* or comes for a filtered one, then a page of posts, which without a      *)
(* filter begins a list or goes on below its cursor.  As long as the chain *)
(* goes on, the table has the rows of its list or the list is empty.       *)
Clean(s, authors) == \A i \in DOMAIN s : AuthorOf[s[i]] \notin authors

Done(s)   == s = <<>> \/ \E a : s = <<ReadToBlock(a)>>
Due(s, r) == s = <<r>> \/ \E a : s = <<ReadToBlock(a), r>>

Expected(r) ==
    \/ r = ReadBlockList /\ (mainPosts = <<>> \/ filter # Nil)
    \/ /\ r.op = "posts"
       /\ filter = Nil =>
             /\ r = Query(Nil, IF mainPosts = <<>> THEN 0 ELSE cursor)
             /\ mainPosts # <<>> => cursor # 0

Level == rows = Len(Shown)

Rested == page = Nil =>
    \/ Done(reads) /\ Level
    \/ \E r : Due(reads, r) /\ Expected(r) /\ (Level \/ Shown = <<>>)

PageInside == page # Nil => page.index \in DOMAIN mainPosts /\ ~moving

(* No post is listed twice.                                                *)
Apart == Distinct(mainPosts) /\ (filtered # Nil => Distinct(filtered))

(* The list of all categories holds nothing older than its cursor, and all *)
(* that is not, of when it was begun.                                      *)
Reached ==
    page = Nil /\ filter = Nil =>
        /\ \A i \in DOMAIN mainPosts :
              stamp[mainPosts[i]] = 0 \/ stamp[mainPosts[i]] >= cursor
        /\ mainPosts # <<>> =>
              \A p \in Post :
                  /\ cursor <= stamp[p] /\ stamp[p] <= loaded
                  /\ stamp[p] # 0 /\ AuthorOf[p] \notin blocked
                  => Holds(mainPosts, p)

(* Unless the block list is being read again, the one last read has every  *)
(* author who was blocked when the feed appeared; and the lists hold none  *)
(* of these.                                                               *)
Unseen ==
    page = Nil =>
        /\ blockedThen \subseteq blocked \/ Due(reads, ReadBlockList)
        /\ Clean(mainPosts, blockedThen)
        /\ filtered # Nil => Clean(filtered, blockedThen)

Orderly == ~crashed /\ PageInside /\ Rested /\ Apart /\ Reached /\ Unseen

(* Where the one trap leaves the feed.                                     *)
Stopped == crashed /\ moving /\ Shown = <<>> /\ reads # <<>> /\ Apart

LEMMA Pairs == \A x, y : <<x>> \o <<y>> = <<x, y>> /\ Append(<<x>>, y) = <<x, y>>
<1>1. ASSUME NEW S, NEW x \in S, NEW y \in S
      PROVE  <<x>> \o <<y>> = <<x, y>> /\ Append(<<x>>, y) = <<x, y>>
  <2>1. /\ <<x>> \in Seq(S) /\ <<y>> \in Seq(S) /\ <<x, y>> \in Seq(S)
        /\ <<x>> \o <<y>> \in Seq(S) /\ Append(<<x>>, y) \in Seq(S)
    OBVIOUS
  <2>2. Len(<<x>> \o <<y>>) = 2 /\ Len(Append(<<x>>, y)) = 2
    BY <2>1
  <2>3. /\ (<<x>> \o <<y>>)[1] = x /\ (<<x>> \o <<y>>)[2] = y
        /\ Append(<<x>>, y)[1] = x /\ Append(<<x>>, y)[2] = y
    BY <2>1
  <2>4. Len(<<x, y>>) = 2 /\ \A i \in 1..2 : i = 1 \/ i = 2
    OBVIOUS
  <2>5. \A i \in 1..2 : (<<x>> \o <<y>>)[i] = <<x, y>>[i] /\ Append(<<x>>, y)[i] = <<x, y>>[i]
    BY <2>3, <2>4
  <2> QED
    BY <2>1, <2>2, <2>4, <2>5, SeqEqual
<1> SUFFICES ASSUME NEW x, NEW y PROVE <<x>> \o <<y>> = <<x, y>> /\ Append(<<x>>, y) = <<x, y>>
  OBVIOUS
<1>2. x \in {x, y} /\ y \in {x, y}
  OBVIOUS
<1> QED
  BY <1>1, <1>2

LEMMA DueLast ==
    ASSUME NEW s, NEW r, Due(s, r)
    PROVE  Len(s) \in 1..2 /\ s[Len(s)] = r /\ s # <<>>
<1>1. CASE s = <<r>>
  BY <1>1
<1>2. CASE \E a : s = <<ReadToBlock(a), r>>
  BY <1>2
<1> QED
  BY <1>1, <1>2 DEF Due

LEMMA OneDue ==
    ASSUME NEW s, NEW q, NEW r, Due(s, q), Due(s, r)
    PROVE  q = r
  BY DueLast

(* The block's answer leaves the rest of the chain; the answer to the      *)
(* chain's own read, what comes after it.                                  *)
LEMMA ChainAnswered ==
    ASSUME NEW r, r.op # "block", Due(reads, r), NEW i \in DOMAIN reads
    PROVE  /\ reads[i].op = "block" => Due(Rest(i), r)
           /\ reads[i].op # "block" => /\ reads[i] = r
                                       /\ Done(Rest(i))
                                       /\ \A q : Due(Rest(i) \o <<q>>, q)
<1>1. CASE reads = <<r>>
  <2>1. i = 1 /\ reads[i] = r /\ Rest(i) = <<>>
    BY <1>1 DEF Rest
  <2>2. ASSUME NEW q PROVE Due(Rest(i) \o <<q>>, q)
    <3>1. <<q>> \in Seq({q}) /\ <<>> \in Seq({q})
      OBVIOUS
    <3>2. <<>> \o <<q>> = <<q>>
      BY <3>1
    <3> QED
      BY <2>1, <3>2 DEF Due
  <2> QED
    BY <2>1, <2>2 DEF Done
<1>2. CASE \E a : reads = <<ReadToBlock(a), r>>
  <2>1. PICK a : reads = <<ReadToBlock(a), r>>
    BY <1>2
  <2>2. ReadToBlock(a).op = "block"
    BY DEF ReadToBlock
  <2>3. CASE i = 1
    <3>1. reads[i] = ReadToBlock(a) /\ Rest(i) = <<r>>
      BY <2>1, <2>3 DEF Rest
    <3> QED
      BY <2>2, <3>1 DEF Due
  <2>4. CASE i = 2
    <3>1. reads[i] = r /\ Rest(i) = <<ReadToBlock(a)>>
      BY <2>1, <2>4 DEF Rest
    <3>2. Done(Rest(i))
      BY <3>1 DEF Done
    <3>3. ASSUME NEW q PROVE Due(Rest(i) \o <<q>>, q)
      <4>1. Rest(i) \o <<q>> = <<ReadToBlock(a), q>>
        BY <3>1, Pairs
      <4> QED
        BY <4>1 DEF Due
    <3> QED
      BY <2>2, <3>1, <3>2, <3>3
  <2> QED
    BY <2>1, <2>3, <2>4
<1> QED
  BY <1>1, <1>2 DEF Due

LEMMA BlockAnswered ==
    ASSUME Done(reads), NEW i \in DOMAIN reads
    PROVE  reads[i].op = "block" /\ Rest(i) = <<>>
<1>1. PICK a : reads = <<ReadToBlock(a)>>
  BY DEF Done
<1> QED
  BY <1>1 DEF ReadToBlock, Rest

LEMMA Alone == Done(<<>>) /\ \A r : Due(<<r>>, r)
  BY DEF Done, Due

LEMMA NoPosts == /\ Distinct(<<>>) /\ DOMAIN <<>> = {} /\ \A S : Clean(<<>>, S)
                 /\ <<>> \in Seq(Post) /\ Len(<<>>) = 0
  BY DEF Distinct, Clean

LEMMA InitOrderly == Init => Orderly
<1> SUFFICES ASSUME Init PROVE Orderly
  OBVIOUS
<1>1. ~crashed /\ PageInside /\ Rested
  BY Alone DEF Init, PageInside, Rested, Expected, Level, Shown, Displayed
<1>2. Apart /\ Reached /\ Unseen
  BY NoPosts DEF Init, Apart, Reached, Unseen
<1> QED
  BY <1>1, <1>2 DEF Orderly

(* A gesture on the feed finds it at rest.                                 *)
LEMMA GestureAtRest ==
    ASSUME Waits, Orderly, OnFeed
    PROVE  /\ reads = <<>> /\ page = Nil /\ rows = Len(Shown) /\ blockedThen \subseteq blocked
           /\ ~("hurry" \in regime)
<1>1. reads = <<>> /\ page = Nil
  BY DEF Waits, OnFeed, Gesture
<1>2. \A r : ~Due(reads, r)
  BY <1>1, DueLast
<1> QED
  BY <1>1, <1>2 DEF Orderly, Rested, Level, Unseen, Waits

(* The feed begins anew, perhaps with a block to be answered.              *)
LEMMA AppearOrderly ==
    ASSUME OnlyBlocking, ~crashed, crashed' = crashed, Appear, page' = Nil
    PROVE  Orderly'
<1>1. /\ mainPosts' = <<>> /\ filtered' = Nil /\ rows' = 0
      /\ reads' = Append(reads, ReadBlockList)
  BY DEF Appear
<1>2. Due(reads', ReadBlockList)
  <2>1. CASE reads = <<>>
    BY <1>1, <2>1 DEF Due
  <2>2. CASE reads # <<>>
    <3>1. PICK a : reads = <<ReadToBlock(a)>>
      BY <2>2 DEF OnlyBlocking
    <3>2. reads' = <<ReadToBlock(a), ReadBlockList>>
      BY <1>1, <3>1, Pairs
    <3> QED
      BY <3>2 DEF Due
  <2> QED
    BY <2>1, <2>2
<1>3. Shown' = <<>>
  BY <1>1 DEF Shown, Displayed
<1>4. PageInside'
  BY DEF PageInside
<1>5. Rested'
  BY <1>1, <1>2, <1>3 DEF Rested, Expected
<1>6. Apart'
  BY <1>1, NoPosts DEF Apart
<1>7. Reached'
  BY <1>1, NoPosts DEF Reached
<1>8. Unseen'
  BY <1>1, <1>2, NoPosts DEF Unseen
<1> QED
  BY <1>4, <1>5, <1>6, <1>7, <1>8 DEF Orderly

LEMMA GesturesOrderly ==
    ASSUME TypeOK, Waits, Orderly, OnFeed,
           \/ \E c \in Category : TapFilter(c)
           \/ TapAll \/ PullToRefresh
           \/ \E bottom \in BOOLEAN : Scroll(bottom)
           \/ \E i \in 1..rows : TapRow(i)
    PROVE  Orderly'
<1>0. reads = <<>> /\ page = Nil /\ rows = Len(Shown) /\ blockedThen \subseteq blocked
      /\ ~crashed
  BY GestureAtRest DEF Orderly
<1>n. Nil \notin Category /\ Nil \notin Seq(Post) /\ filter \in Category \cup {Nil}
  BY MainFeedAssumption DEF TypeOK
<1>m. Apart /\ Reached /\ Unseen
  BY DEF Orderly
<1>1. ASSUME NEW c \in Category, TapFilter(c) PROVE Orderly'
  <2>1. /\ filter' = c /\ c # Nil
        /\ reads' = <<IF mainPosts = <<>> THEN Query(Nil, 0) ELSE Query(c, 0)>>
        /\ filtered' = IF mainPosts = <<>> THEN filtered ELSE <<>>
        /\ UNCHANGED <<stamp, blockedThen, mainPosts, rows, blocked, page, crashed>>
    BY <1>0, <1>n, <1>1 DEF TapFilter, server, table
  <2>0. Level' \/ Shown' = <<>>
    BY <1>0, <1>n, <2>1, NoPosts DEF Level, Shown, Displayed
  <2>2. Rested'
    BY <2>0, <2>1, Alone DEF Rested, Expected, Query
  <2>3. Apart' /\ Reached'
    BY <1>m, <1>0, <2>1, NoPosts DEF Apart, Reached
  <2>4. Unseen'
    BY <1>m, <1>0, <2>1, NoPosts DEF Unseen, Clean
  <2> QED
    BY <1>0, <2>1, <2>2, <2>3, <2>4 DEF Orderly, PageInside
<1>2. CASE TapAll
  <2>1. /\ filter' = Nil /\ filtered' = Nil /\ mainPosts' = <<>>
        /\ reads' = <<Query(Nil, 0)>>
        /\ UNCHANGED <<stamp, blockedThen, blocked, page, crashed>>
    BY <1>0, <1>2 DEF TapAll, server
  <2>0. Shown' = <<>>
    BY <2>1 DEF Shown, Displayed
  <2>2. Rested'
    BY <2>0, <2>1, Alone DEF Rested, Expected, Query
  <2>3. Apart' /\ Reached'
    BY <2>1, NoPosts DEF Apart, Reached
  <2>4. Unseen'
    BY <1>0, <2>1, NoPosts DEF Unseen, Clean
  <2> QED
    BY <1>0, <2>1, <2>2, <2>3, <2>4 DEF Orderly, PageInside
<1>3. CASE PullToRefresh
  <2>1. /\ mainPosts' = IF filter = Nil THEN <<>> ELSE mainPosts
        /\ reads' = <<ReadBlockList>>
        /\ UNCHANGED <<stamp, blockedThen, filter, filtered, rows, blocked, page, crashed>>
    BY <1>0, <1>3 DEF PullToRefresh, server
  <2>0. Level' \/ Shown' = <<>>
    <3>1. CASE filter = Nil
      BY <2>1, <3>1 DEF Shown, Displayed, TypeOK
    <3>2. CASE filter # Nil
      BY <1>0, <2>1, <3>2 DEF Level, Shown, Displayed
    <3> QED
      BY <3>1, <3>2
  <2>2. Rested'
    BY <2>0, <2>1, Alone DEF Rested, Expected
  <2>3. Apart' /\ Reached'
    BY <1>m, <1>0, <2>1, NoPosts DEF Apart, Reached
  <2>4. Unseen'
    BY <1>m, <1>0, <2>1, NoPosts DEF Unseen, Clean
  <2> QED
    BY <1>0, <2>1, <2>2, <2>3, <2>4 DEF Orderly, PageInside
<1>4. ASSUME NEW bottom \in BOOLEAN, Scroll(bottom) PROVE Orderly'
  <2>1. Len(Shown) \in Nat
    BY ShownType
  <2>2. ~(rows > Len(Shown)) /\ rows = Len(Shown)
    <3> HIDE DEF Shown
    <3> QED
      BY <1>0, <2>1
  <2>3. /\ reads' = IF bottom /\ MayHaveNext THEN reads \o FetchReads(mainPosts) ELSE reads
        /\ filtered' = IF bottom /\ MayHaveNext THEN FetchFiltered(mainPosts) ELSE filtered
        /\ UNCHANGED <<stamp, blockedThen, mainPosts, filter, cursor, loaded, rows,
                       blocked, page, crashed>>
    BY <1>4, <2>2 DEF Scroll, server
  <2>4. Apart' /\ Reached'
    BY <1>m, <1>0, <2>3, NoPosts DEF Apart, Reached, FetchFiltered
  <2>5. Unseen'
    BY <1>m, <1>0, <2>3, NoPosts DEF Unseen, Clean, FetchFiltered
  <2>6. Rested'
    <3>1. CASE bottom /\ MayHaveNext /\ FetchReads(mainPosts) # <<>>
      <4>1. reads' = FetchReads(mainPosts)
        BY <1>0, <2>3, <3>1 DEF FetchReads
      <4>2. \E r : FetchReads(mainPosts) = <<r>> /\ Expected(r)
        BY <3>1 DEF FetchReads, Expected, Query
      <4>3. PICK r : FetchReads(mainPosts) = <<r>> /\ Expected(r)
        BY <4>2
      <4>4. Expected(r)'
        BY <2>3, <4>3 DEF Expected, Query
      <4>5. Level' \/ Shown' = <<>>
        <5>1. CASE mainPosts # <<>> /\ filter # Nil
          <6>1. filtered' = <<>> /\ <<>> # Nil
            BY <1>n, <2>3, <3>1, <5>1, NoPosts DEF FetchFiltered
          <6> QED
            BY <6>1 DEF Shown, Displayed
        <5>2. CASE ~(mainPosts # <<>> /\ filter # Nil)
          <6>1. filtered' = filtered
            BY <2>3, <3>1, <5>2 DEF FetchFiltered
          <6> QED
            BY <1>0, <2>3, <6>1 DEF Level, Shown, Displayed
        <5> QED
          BY <5>1, <5>2
      <4> QED
        BY <4>1, <4>3, <4>4, <4>5, Alone DEF Rested
    <3>2. CASE ~(bottom /\ MayHaveNext /\ FetchReads(mainPosts) # <<>>)
      <4>1. reads' = <<>>
        BY <1>0, <2>3, <3>2
      <4>2. filtered' = filtered
        BY <2>3, <3>2 DEF FetchFiltered, FetchReads
      <4>3. Shown' = Shown
        BY <2>3, <4>2 DEF Shown, Displayed
      <4> QED
        BY <2>2, <2>3, <4>1, <4>3, Alone DEF Rested, Level
    <3> QED
      BY <3>1, <3>2
  <2> QED
    BY <1>0, <2>3, <2>4, <2>5, <2>6 DEF Orderly, PageInside
<1>5. ASSUME NEW i \in 1..rows, TapRow(i) PROVE Orderly'
  <2>1. Len(Shown) \in Nat /\ Shown \in Seq(Post)
    BY ShownType
  <2>2. ~(i > Len(Shown)) /\ i \in 1..Len(Shown)
    <3> HIDE DEF Shown
    <3> QED
      BY <1>0, <2>1
  <2>3. /\ mainPosts' = Shown /\ moving' = FALSE
        /\ page' = [post |-> Shown[i], index |-> i, leaving |-> FALSE]
        /\ UNCHANGED <<filtered, crashed>>
    BY <1>5, <2>2 DEF TapRow
  <2>4. page' # Nil
    <3>1. page' \in [post : Post, index : Nat \ {0}, leaving : BOOLEAN]
      BY <2>1, <2>2, <2>3
    <3> QED
      BY <3>1, MainFeedAssumption
  <2>5. PageInside'
    BY <2>1, <2>2, <2>3 DEF PageInside
  <2>6. Apart'
    BY <1>m, <2>3 DEF Apart, Shown, Displayed
  <2> QED
    BY <1>0, <2>3, <2>4, <2>5, <2>6 DEF Orderly, Rested, Reached, Unseen
<1> QED
  BY <1>1, <1>2, <1>3, <1>4, <1>5

(* From the page the student goes back to a feed that is begun anew; until *)
(* then the lists stay as they were.                                       *)
LEMMA PageGesturesOrderly ==
    ASSUME TypeOK, Waits, IInv, Orderly, Return \/ Peek \/ Join \/ Block \/ Unwind
    PROVE  Orderly'
<1>0. "hurry" \notin regime /\ "peek" \notin regime /\ ~crashed
  BY DEF Waits, Orderly
<1>a. reads = <<>> => OnlyBlocking
  BY DEF OnlyBlocking
<1>1. CASE Return
  BY <1>0, <1>1, <1>a, AppearOrderly DEF Return, OnPage, Gesture
<1>2. CASE Peek
  BY <1>0, <1>2 DEF Peek
<1>3. CASE Join
  <2>1. reads = <<>> /\ page # Nil
    BY <1>0, <1>3 DEF Join, OnPage, Gesture
  <2>2. ~(page.index > Len(mainPosts))
    <3>1. page.index \in DOMAIN mainPosts
      BY <2>1 DEF Orderly, PageInside
    <3> QED
      BY <3>1 DEF TypeOK
  <2> QED
    BY <1>0, <1>3, <1>a, <2>1, <2>2, AppearOrderly DEF Join
<1>4. CASE Block
  <2>1. /\ page # Nil /\ page \in Page
        /\ page' = [page EXCEPT !.leaving = TRUE]
        /\ UNCHANGED <<mainPosts, filtered, moving, crashed>>
    BY <1>4 DEF Block, OnPage, TypeOK, lists, table
  <2>2. page' \in [post : Post, index : Nat \ {0}, leaving : BOOLEAN] /\ page'.index = page.index
    BY <2>1 DEF Page
  <2>3. page' # Nil
    BY <2>2, MainFeedAssumption
  <2>4. PageInside'
    BY <2>1, <2>2 DEF Orderly, PageInside
  <2>5. Apart'
    BY <2>1 DEF Orderly, Apart
  <2> QED
    BY <1>0, <2>1, <2>3, <2>4, <2>5 DEF Orderly, Rested, Reached, Unseen
<1>5. CASE Unwind
  <2>1. OnlyBlocking /\ Appear /\ page' = Nil /\ crashed' = crashed
    BY <1>0, <1>5 DEF Unwind, IInv, PageFixed
  <2> QED
    BY <1>0, <2>1, AppearOrderly
<1> QED
  BY <1>1, <1>2, <1>3, <1>4, <1>5

(* An answer while a page is open is that of the block, and touches none   *)
(* of this; one while the feed is on the screen is of the expected read.   *)
LEMMA AnswersOrderly ==
    ASSUME TypeOK, Stamps, Waits, IInv, Orderly, NEW i \in DOMAIN reads, Answer(i)
    PROVE  Orderly'
<1>m. Apart /\ Reached /\ Unseen /\ Rested /\ ~crashed
  BY DEF Orderly
<1>l. blockedThen \subseteq blockList
  BY DEF Stamps
<1>1. CASE page # Nil
  <2>1. OnlyBlocking
    BY <1>1 DEF IInv, PageFixed
  <2>2. PICK a : reads = <<ReadToBlock(a)>>
    BY <2>1 DEF OnlyBlocking
  <2>3. reads[i].op = "block"
    BY <2>2 DEF ReadToBlock
  <2>4. AnswerBlock(i)
    BY <2>3 DEF Answer, Pending, AnswerBlockList, AnswerNoPosts, AnswerPosts
  <2>5. UNCHANGED <<mainPosts, filtered, moving, page, crashed>>
    BY <2>4 DEF AnswerBlock, lists, table
  <2> QED
    BY <1>1, <1>m, <2>5 DEF Orderly, PageInside, Rested, Apart, Reached, Unseen
<1>2. CASE page = Nil /\ AnswerBlock(i)
  <2>1. /\ reads[i].op = "block" /\ reads' = Rest(i)
        /\ UNCHANGED <<stamp, mainPosts, filtered, filter, cursor, loaded, blockedThen,
                       rows, blocked, page, crashed>>
    BY <1>2 DEF AnswerBlock, Pending, lists, table
  <2>2. Shown' = Shown
    BY <2>1 DEF Shown, Displayed
  <2>3. CASE Done(reads) /\ Level
    <3>1. reads' = <<>>
      BY <2>1, <2>3, BlockAnswered
    <3>2. Rested'
      BY <2>1, <2>2, <2>3, <3>1, Alone DEF Rested, Level
    <3>3. ~Due(reads, ReadBlockList)
      <4> SUFFICES ASSUME Due(reads, ReadBlockList) PROVE FALSE
        OBVIOUS
      <4>1. Len(reads) \in 1..2 /\ reads[Len(reads)] = ReadBlockList
        BY DueLast
      <4>2. reads[Len(reads)].op = "block"
        BY <2>3, <4>1, BlockAnswered
      <4> QED
        BY <4>1, <4>2 DEF ReadBlockList
    <3>4. Unseen'
      BY <1>2, <1>m, <2>1, <3>3 DEF Unseen, Clean
    <3> QED
      BY <1>2, <1>m, <2>1, <3>2, <3>4 DEF Orderly, PageInside, Apart, Reached
  <2>4. CASE \E r : Due(reads, r) /\ Expected(r) /\ (Level \/ Shown = <<>>)
    <3>1. PICK r : Due(reads, r) /\ Expected(r) /\ (Level \/ Shown = <<>>)
      BY <2>4
    <3>2. r.op # "block"
      BY <3>1 DEF Expected, ReadBlockList
    <3>3. Due(reads', r)
      BY <2>1, <3>1, <3>2, ChainAnswered
    <3>4. Expected(r)' /\ (Level' \/ Shown' = <<>>)
      BY <2>1, <2>2, <3>1 DEF Expected, Level, Query
    <3>5. Rested'
      BY <3>3, <3>4 DEF Rested
    <3>6. Unseen'
      <4>1. Due(reads, ReadBlockList) => r = ReadBlockList
        BY <3>1, DueLast
      <4> QED
        BY <1>2, <1>m, <2>1, <3>3, <4>1 DEF Unseen, Clean
    <3> QED
      BY <1>2, <1>m, <2>1, <3>5, <3>6 DEF Orderly, PageInside, Apart, Reached
  <2> QED
    BY <1>2, <1>m, <2>3, <2>4 DEF Rested
<1>3. CASE page = Nil /\ ~AnswerBlock(i)
  <2>0. reads[i].op # "block"
    BY <1>3 DEF Answer, Pending, AnswerBlockList, AnswerNoPosts, AnswerPosts
  <2>1. PICK r : Due(reads, r) /\ Expected(r) /\ (Level \/ Shown = <<>>)
    BY <1>3, <1>m, <2>0, BlockAnswered DEF Rested
  <2>2. /\ reads[i] = r /\ Done(Rest(i)) /\ \A x : Due(Rest(i) \o <<x>>, x)
    <3>1. r.op # "block"
      BY <2>1 DEF Expected, ReadBlockList
    <3> QED
      BY <2>0, <2>1, <3>1, ChainAnswered
  <2>3. CASE r.op = "blockList"
    <3>1. r = ReadBlockList /\ (mainPosts = <<>> \/ filter # Nil)
      BY <2>1, <2>3 DEF Expected
    <3>2. AnswerBlockList(i)
      BY <2>2, <2>3 DEF Answer, Pending, AnswerBlock, AnswerNoPosts, AnswerPosts
    <3>3. /\ blocked' = blockList /\ reads' = Rest(i) \o FetchReads(mainPosts)
          /\ filtered' = FetchFiltered(mainPosts)
          /\ UNCHANGED <<stamp, blockList, mainPosts, filter, cursor, loaded, blockedThen,
                         rows, page, crashed>>
      BY <3>2 DEF AnswerBlockList, server, table
    <3>4. Level' \/ Shown' = <<>>
      <4>1. Shown' = Shown \/ Shown' = <<>>
        BY <3>3, MainFeedAssumption, NoPosts DEF Shown, Displayed, FetchFiltered
      <4> QED
        BY <2>1, <3>3, <4>1 DEF Level
    <3>5. Rested'
      <4>1. \E q : FetchReads(mainPosts) = <<q>> /\ Expected(q)
        <5>1. CASE mainPosts = <<>>
          BY <5>1 DEF Expected, FetchReads, Query
        <5>2. CASE mainPosts # <<>>
          BY <3>1, <5>2 DEF Expected, FetchReads, Query
        <5> QED
          BY <5>1, <5>2
      <4>2. PICK q : FetchReads(mainPosts) = <<q>> /\ Expected(q)
        BY <4>1
      <4>3. Due(reads', q) /\ Expected(q)'
        BY <2>2, <3>3, <4>2 DEF Expected, Query
      <4> QED
        BY <3>4, <4>3 DEF Rested
    <3>6. Apart'
      BY <1>m, <3>3, NoPosts DEF Apart, FetchFiltered
    <3>7. Reached'
      BY <1>3, <3>1, <3>3, NoPosts DEF Reached
    <3>8. Unseen'
      BY <1>3, <1>m, <1>l, <3>3, NoPosts DEF Unseen, Clean, FetchFiltered
    <3> QED
      BY <1>3, <1>m, <3>3, <3>5, <3>6, <3>7, <3>8 DEF Orderly, PageInside
  <2>4. CASE r.op = "posts"
    <3>1. blockedThen \subseteq blocked
      <4>1. r # ReadBlockList
        BY <2>4 DEF ReadBlockList
      <4>2. ~Due(reads, ReadBlockList)
        BY <2>1, <4>1, DueLast
      <4> QED
        BY <1>3, <1>m, <4>2 DEF Unseen
    <3>2. CASE AnswerNoPosts(i)
      <4>1. /\ rows' = Len(Shown) /\ reads' = Rest(i)
            /\ UNCHANGED <<stamp, blockedThen, mainPosts, filtered, filter, cursor, loaded,
                           blocked, page, crashed>>
        BY <3>2 DEF AnswerNoPosts, server, lists
      <4>2. Rested'
        BY <2>2, <4>1 DEF Rested, Level, Shown, Displayed
      <4>3. Apart' /\ Reached'
        BY <1>m, <4>1 DEF Apart, Reached
      <4>4. Unseen'
        BY <1>m, <3>1, <4>1 DEF Unseen, Clean
      <4> QED
        BY <1>3, <1>m, <4>1, <4>2, <4>3, <4>4 DEF Orderly, PageInside
    <3>3. CASE AnswerPosts(i)
      <4> DEFINE docs == Documents(r)
                 last == docs[Len(docs)]
      <4>1. /\ docs # <<>> /\ cursor' = stamp[last] /\ reads' = Rest(i)
            /\ rows' = Len(Displayed(mainPosts', filtered'))
            /\ UNCHANGED <<stamp, blockedThen, filter, blocked, page, crashed>>
            /\ \/ /\ filter # Nil /\ filtered' = Without(docs, blocked)
                  /\ UNCHANGED <<mainPosts, loaded>>
               \/ /\ filter = Nil /\ mainPosts' = Without(mainPosts \o docs, blocked)
                  /\ loaded' = IF mainPosts = <<>> THEN clock ELSE loaded
                  /\ UNCHANGED filtered
        BY <2>2, <3>3 DEF AnswerPosts, server
      <4>2. /\ docs \in Seq(Post) /\ docs \in Seq(Matching(r)) /\ Distinct(docs)
            /\ last \in Matching(r)
            /\ \A n \in DOMAIN docs : stamp[docs[n]] >= stamp[last]
            /\ \A p \in Matching(r) : stamp[p] >= stamp[last] => Holds(docs, p)
        <5>1. Typed
          BY DEF Typed, TypeOK
        <5> QED
          BY <4>1, <5>1, DocumentsPage
      <4> HIDE DEF docs, last
      <4>3. Rested'
        BY <2>2, <4>1 DEF Rested, Level, Shown
      <4>4. CASE filter # Nil
        <5>1. /\ filtered' = Without(docs, blocked) /\ mainPosts' = mainPosts
          BY <4>1, <4>4
        <5>2. Clean(filtered', blockedThen) /\ Distinct(filtered')
          BY <3>1, <4>2, <5>1, WithoutSpec DEF Clean
        <5>3. Apart'
          BY <1>m, <5>1, <5>2 DEF Apart
        <5>4. Unseen'
          BY <1>3, <1>m, <3>1, <4>1, <5>1, <5>2 DEF Unseen, Clean
        <5> QED
          BY <1>3, <1>m, <4>1, <4>3, <4>4, <5>3, <5>4 DEF Orderly, PageInside, Reached
      <4>5. CASE filter = Nil
        <5> DEFINE all == mainPosts \o docs
        <5>1. /\ mainPosts' = Without(all, blocked) /\ filtered' = filtered
              /\ loaded' = IF mainPosts = <<>> THEN clock ELSE loaded
          BY <4>1, <4>5
        <5>2. /\ r = Query(Nil, IF mainPosts = <<>> THEN 0 ELSE cursor)
              /\ mainPosts # <<>> => cursor # 0
          BY <2>1, <2>4, <4>5 DEF Expected, ReadBlockList
        <5>3. /\ \A n \in DOMAIN mainPosts :
                    stamp[mainPosts[n]] = 0 \/ stamp[mainPosts[n]] >= cursor
              /\ mainPosts # <<>> =>
                    \A p \in Post :
                        /\ cursor <= stamp[p] /\ stamp[p] <= loaded
                        /\ stamp[p] # 0 /\ AuthorOf[p] \notin blocked
                        => Holds(mainPosts, p)
          BY <1>3, <1>m, <4>5 DEF Reached
        <5>4. /\ mainPosts \in Seq(Post) /\ cursor \in Nat /\ stamp \in [Post -> Nat]
              /\ clock \in Nat /\ \A p \in Post : stamp[p] <= clock
          BY DEF TypeOK, Stamps
        <5>5. \A p : p \in Matching(r) <=> /\ p \in Post /\ stamp[p] # 0
                                           /\ mainPosts # <<>> => stamp[p] < cursor
          BY <5>2 DEF Matching, Query
        <5>6. \A n \in DOMAIN docs : docs[n] \in Matching(r)
          BY <4>2
        <5>7. \A m \in DOMAIN mainPosts, n \in DOMAIN docs : mainPosts[m] # docs[n]
          <6> SUFFICES ASSUME NEW m \in DOMAIN mainPosts, NEW n \in DOMAIN docs,
                              mainPosts[m] = docs[n]
                       PROVE  FALSE
            OBVIOUS
          <6>1. mainPosts # <<>>
            OBVIOUS
          <6>2. docs[n] \in Post /\ stamp[docs[n]] # 0 /\ stamp[docs[n]] < cursor
            BY <5>5, <5>6, <6>1
          <6>3. stamp[docs[n]] = 0 \/ stamp[docs[n]] >= cursor
            BY <5>3
          <6> QED
            BY <5>4, <6>2, <6>3
        <5>8. /\ all \in Seq(Post) /\ Distinct(all)
              /\ \A p : Holds(all, p) <=> Holds(mainPosts, p) \/ Holds(docs, p)
          BY <1>m, <4>2, <5>4, <5>7, DistinctJoin DEF Apart
        <5> HIDE DEF all
        <5>9. /\ \A n \in DOMAIN mainPosts' :
                    /\ AuthorOf[mainPosts'[n]] \notin blocked
                    /\ Holds(all, mainPosts'[n])
              /\ \A n \in DOMAIN all : AuthorOf[all[n]] \notin blocked => Holds(mainPosts', all[n])
              /\ Distinct(mainPosts')
          BY <5>1, <5>8, WithoutSpec
        <5>10. Apart'
          BY <1>m, <5>1, <5>9 DEF Apart
        <5>11. Unseen'
          BY <1>3, <1>m, <3>1, <4>1, <5>1, <5>9 DEF Unseen, Clean
        <5>12. \A n \in DOMAIN mainPosts' :
                  stamp[mainPosts'[n]] = 0 \/ stamp[mainPosts'[n]] >= stamp[last]
          <6> SUFFICES ASSUME NEW n \in DOMAIN mainPosts'
                       PROVE  stamp[mainPosts'[n]] = 0 \/ stamp[mainPosts'[n]] >= stamp[last]
            OBVIOUS
          <6>1. Holds(mainPosts, mainPosts'[n]) \/ Holds(docs, mainPosts'[n])
            BY <5>8, <5>9
          <6>2. CASE Holds(docs, mainPosts'[n])
            BY <4>2, <6>2 DEF Holds
          <6>3. CASE Holds(mainPosts, mainPosts'[n])
            <7>1. PICK m \in DOMAIN mainPosts : mainPosts[m] = mainPosts'[n]
              BY <6>3 DEF Holds
            <7>2. mainPosts # <<>> /\ mainPosts'[n] \in Post
              BY <5>4, <7>1
            <7>3. stamp[last] \in Nat /\ stamp[last] < cursor
              BY <4>2, <5>4, <5>5, <7>2
            <7>4. stamp[mainPosts'[n]] = 0 \/ stamp[mainPosts'[n]] >= cursor
              BY <5>3, <7>1
            <7>5. stamp[mainPosts'[n]] \in Nat
              BY <5>4, <7>2
            <7> QED
              BY <5>4, <7>3, <7>4, <7>5
          <6> QED
            BY <6>1, <6>2, <6>3
        <5>13. ASSUME NEW p \in Post, stamp[last] <= stamp[p], stamp[p] <= loaded',
                      stamp[p] # 0, AuthorOf[p] \notin blocked
               PROVE  Holds(mainPosts', p)
          <6>0. stamp[p] \in Nat /\ stamp[last] \in Nat
            BY <4>2, <5>4, <5>5
          <6>1. CASE p \in Matching(r)
            <7>1. stamp[p] >= stamp[last]
              BY <5>13, <6>0
            <7>2. Holds(docs, p)
              BY <4>2, <6>1, <7>1
            <7>3. Holds(all, p)
              BY <5>8, <7>2
            <7> QED
              BY <5>9, <5>13, <7>3 DEF Holds
          <6>2. CASE p \notin Matching(r)
            <7>1. mainPosts # <<>> /\ cursor <= stamp[p] /\ stamp[p] <= loaded
              BY <5>1, <5>4, <5>5, <5>13, <6>0, <6>2
            <7>2. Holds(mainPosts, p)
              BY <5>3, <5>13, <7>1
            <7>3. Holds(all, p)
              BY <5>8, <7>2
            <7> QED
              BY <5>9, <5>13, <7>3 DEF Holds
          <6> QED
            BY <6>1, <6>2
        <5>14. Reached'
          BY <4>1, <5>12, <5>13 DEF Reached
        <5> QED
          BY <1>3, <1>m, <4>1, <4>3, <5>10, <5>11, <5>14 DEF Orderly, PageInside
      <4> QED
        BY <4>4, <4>5
    <3> QED
      BY <2>2, <2>4, <3>2, <3>3 DEF Answer, Pending, AnswerBlockList, AnswerBlock
  <2> QED
    BY <2>1, <2>3, <2>4 DEF Expected, ReadBlockList
<1> QED
  BY <1>1, <1>2, <1>3

(* Meanwhile: a post gets a timestamp later than every other and than the  *)
(* moment the list was begun, or loses its own.                            *)
LEMMA ElsewhereOrderly ==
    ASSUME TypeOK, Stamps, Orderly, NEW p \in Post, Publish(p) \/ Withdraw(p)
    PROVE  Orderly'
<1>1. UNCHANGED <<blockList, mainPosts, filtered, filter, cursor, loaded, blockedThen, rows,
                  moving, blocked, reads, page, crashed>>
  BY DEF Publish, Withdraw, lists, table
<1>2. \/ stamp' = [stamp EXCEPT ![p] = clock + 1]
      \/ stamp' = [stamp EXCEPT ![p] = 0]
  BY DEF Publish, Withdraw
<1>3. Rested'
  BY <1>1 DEF Orderly, Rested, Level, Expected, Shown, Displayed, Query
<1>4. PageInside' /\ Apart'
  BY <1>1 DEF Orderly, PageInside, Apart
<1>5. Unseen'
  BY <1>1 DEF Orderly, Unseen, Clean
<1>6. /\ stamp \in [Post -> Nat] /\ clock \in Nat /\ cursor \in Nat /\ loaded \in Nat
      /\ cursor <= clock /\ loaded <= clock /\ mainPosts \in Seq(Post)
  BY DEF TypeOK, Stamps
<1>7. \A q \in Post : /\ stamp'[q] = stamp[q] \/ stamp'[q] = 0 \/ stamp'[q] = clock + 1
  BY <1>2, <1>6
<1>8. Reached'
  <2> SUFFICES ASSUME page = Nil, filter = Nil
               PROVE  /\ \A i \in DOMAIN mainPosts :
                            stamp'[mainPosts[i]] = 0 \/ stamp'[mainPosts[i]] >= cursor
                      /\ mainPosts # <<>> =>
                            \A q \in Post :
                                /\ cursor <= stamp'[q] /\ stamp'[q] <= loaded
                                /\ stamp'[q] # 0 /\ AuthorOf[q] \notin blocked
                                => Holds(mainPosts, q)
    BY <1>1 DEF Reached
  <2>1. Reached
    BY DEF Orderly
  <2>2. ASSUME NEW i \in DOMAIN mainPosts
        PROVE  stamp'[mainPosts[i]] = 0 \/ stamp'[mainPosts[i]] >= cursor
    <3>1. stamp[mainPosts[i]] = 0 \/ stamp[mainPosts[i]] >= cursor
      BY <2>1 DEF Reached
    <3>2. mainPosts[i] \in Post
      BY <1>6
    <3> QED
      BY <1>6, <1>7, <3>1, <3>2
  <2>3. ASSUME mainPosts # <<>>, NEW q \in Post, cursor <= stamp'[q], stamp'[q] <= loaded,
               stamp'[q] # 0, AuthorOf[q] \notin blocked
        PROVE  Holds(mainPosts, q)
    <3>1. stamp'[q] = stamp[q]
      BY <1>6, <1>7, <2>3
    <3> QED
      BY <2>1, <2>3, <3>1 DEF Reached
  <2> QED
    BY <2>2, <2>3
<1> QED
  BY <1>1, <1>3, <1>4, <1>5, <1>8 DEF Orderly

(* The table, in motion, asks for a row by itself: of those beyond the     *)
(* list there are some only while an emptied one is read again.            *)
LEMMA MotionOrderly ==
    ASSUME TypeOK, Waits, Orderly
    PROVE  (DrawRow => Stopped') /\ (ComeToRest => Orderly')
<1>1. ASSUME DrawRow PROVE Stopped'
  <2>1. /\ moving /\ crashed' = TRUE
        /\ UNCHANGED <<mainPosts, filtered, rows, moving, reads, page>>
    BY <1>1 DEF DrawRow, Trap, lists, table
  <2>2. ~Level
    BY <1>1, ShownType DEF DrawRow, Level, TypeOK
  <2>3. page = Nil
    BY <2>1 DEF Orderly, PageInside
  <2>4. PICK r : Due(reads, r) /\ Shown = <<>>
    BY <2>2, <2>3 DEF Orderly, Rested
  <2>5. reads # <<>>
    BY <2>4, DueLast
  <2> QED
    BY <2>1, <2>4, <2>5 DEF Stopped, Shown, Displayed, Orderly, Apart
<1>2. ASSUME ComeToRest PROVE Orderly'
  BY <1>2 DEF ComeToRest, server, lists, Orderly, PageInside, Rested, Level, Expected,
     Query, Shown, Displayed, Apart, Reached, Unseen, Clean
<1> QED
  BY <1>1, <1>2

LEMMA NextOrderly ==
    ASSUME Waits, TypeOK, Stamps, IInv, Orderly \/ Stopped, [Next]_vars
    PROVE  Orderly' \/ Stopped'
<1>1. CASE UNCHANGED vars
  <2>1. Orderly => Orderly'
    BY <1>1 DEF vars, server, lists, table, Orderly, PageInside, Rested, Level, Expected,
       Query, Shown, Displayed, Apart, Reached, Unseen, Clean
  <2>2. Stopped => Stopped'
    BY <1>1 DEF vars, lists, table, Stopped, Shown, Displayed, Apart
  <2> QED
    BY <2>1, <2>2
<1>2. CASE Step
  <2>1. ~crashed
    BY <1>2 DEF Step, TapFilter, TapAll, PullToRefresh, Scroll, TapRow, DrawRow, ComeToRest,
       Return, Peek, Join, Block, OnFeed, OnPage, Gesture, Unwind, Answer, AnswerBlockList,
       AnswerBlock, AnswerNoPosts, AnswerPosts, Pending, FailRead, Publish, Withdraw
  <2>2. Orderly /\ \A i \in DOMAIN reads : ~FailRead(i)
    BY <2>1 DEF Stopped, FailRead, Waits
  <2> QED
    BY <1>2, <2>2, GesturesOrderly, PageGesturesOrderly, AnswersOrderly, ElsewhereOrderly,
       MotionOrderly DEF Step, TapFilter, TapAll, PullToRefresh, Scroll, TapRow
<1> QED
  BY <1>1, <1>2 DEF Next

FeedInv == TypeOK /\ Stamps /\ (Waits => IInv /\ (Orderly \/ Stopped))

LEMMA FeedInvariant == Spec => []FeedInv
<1>1. Init => FeedInv
  BY InitStamps, InitPageFixed, InitOrderly DEF FeedInv
<1>2. FeedInv /\ [Next]_vars => FeedInv'
  <2>1. [Next]_vars => Waits' = Waits
    BY DEF Next, vars, Waits
  <2>2. Waits => Patient
    BY DEF Waits, Patient
  <2> QED
    BY <2>1, <2>2, NextTypes, NextPageFixed, NextOrderly DEF FeedInv
<1> QED
  BY <1>1, <1>2, PTL DEF Spec

(* A student who waits for his answers never meets, with a gesture, a list *)
(* shorter than the row he taps, scrolls to or joins: nine handlers change *)
(* the lists, and whenever the reads they lead to have been answered the   *)
(* table has been reloaded.  What is left is the table in motion over a    *)
(* list that is being read again.                                          *)
THEOREM FeedTrapsOnlyRefreshing == Spec => []OneTrapOnly
<1>1. FeedInv => OneTrapOnly
  BY DEF FeedInv, Orderly, Stopped, OneTrapOnly
<1> QED
  BY FeedInvariant, <1>1, PTL

(* The pages he fetches one after another show every post they should, and *)
(* once, whatever is published, renewed or withdrawn between them: what is *)
(* renewed comes later than the list was begun, and what has gone stays    *)
(* listed above the cursor.                                                *)
THEOREM PagesAlwaysJoin == Spec => []PagesJoin
<1>1. FeedInv => NoDuplicates
  BY DEF FeedInv, Orderly, Stopped, Apart, Distinct, NoDuplicates
<1>2. FeedInv => NoGaps
  BY DEF FeedInv, Orderly, Stopped, Reached, Holds, NoGaps, AtRest, Listed
<1> QED
  BY FeedInvariant, <1>1, <1>2, PTL DEF PagesJoin

(* Whenever every answer is in, the feed shows nobody who was blocked when *)
(* it last appeared, though the page that blocks does not wait for its own *)
(* answer: the lists were emptied then, and are filled only after a block  *)
(* list that was read later.                                               *)
THEOREM BlockedNeverShown == Spec => []NoBlockedShown
<1>1. FeedInv => NoBlockedShown
  BY DEF FeedInv, Orderly, Stopped, Unseen, Clean, NoBlockedShown, AtRest, Listed, Shown,
     Displayed
<1> QED
  BY FeedInvariant, <1>1, PTL
=============================================================================
