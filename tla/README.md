# Dormitory of Delivery, in TLA+

Dormitory of Delivery is an iOS application (Swift, UIKit, Firebase) with which
students of one dormitory find others to share a delivery: a student publishes
a post with a number of seats, others participate, and they talk in a chat room
that belongs to the post. There is no server code: every client writes to two
Firebase databases directly, without transactions. Firebase's client libraries
are vendored under `DormitoryForDelivery/Pods`; of Firestore's, the way a write
takes from the call to the server is modelled too, from its C++ source.

This directory models the application's logic in TLA+, checks it with TLC on
small instances and proves what matters most with TLAPS for instances of any
size. Paths below are relative to
`DormitoryForDelivery/DormitoryForDelivery/`; controllers are abbreviated:

| short  | file under `View Controllers/` |
|--------|--------------------------------|
| MAIN   | `HomeScreenViewControllers/MainTableViewController.swift` |
| POST   | `HomeScreenViewControllers/PostViewController.swift` |
| FORM   | `HomeScreenViewControllers/RecruitmenTableViewController.swift` |
| SEARCH | `HomeScreenViewControllers/SearchViewController.swift` |
| LIST   | `ChattingScreenViewControllers/ChatGroupTableViewController.swift` |
| ROOM   | `ChattingScreenViewControllers/ChatRoomViewController.swift` |
| LOGIN, REG, CERT | `HomeScreenViewControllers/` `LogIn...`, `MemberRegistration...`, `EmailCertificationViewController.swift` |
| MORE   | `SettingScreenViewControllers/MoreDetailsTableViewController.swift` |

and of the library, under `DormitoryForDelivery/Pods/FirebaseFirestore/Firestore/core/src/`:
`stream.cc`, `write_stream.cc`, `grpc_stream.cc`, `remote_store.cc` (`remote/`),
`sync_engine.cc`, `firestore_client.cc` (`core/`), `local_store.cc`,
`leveldb_mutation_queue.cc` (`local/`), `firebase_credentials_provider_apple.mm` (`auth/`).

## 1. Inventory

### Where the state lives

| store | nodes | written by |
|-------|-------|------------|
| Firestore | `recruitTables/<post>`: author, capacity, head count, texts, timestamp | create, edit, delete, participate, leave |
| Firestore | `messageGroup/<post>.users`: the member list | create, participate, leave, delete |
| Firestore | `users/<uid>`: name, number, address, `blockAbusiveUserList` | registration, block |
| Firestore | `reportList`, `chatReportList` | report |
| Realtime Database | `group/<post>`: name, head count, messages, lastMessage | create, participate, leave, delete, send |
| Realtime Database | `user/<uid>`: `userID`, `groups` with the time of each entrance | registration, create, participate, leave, delete, swipe |
| a page (POST) | its own copy of the post, its row in the feed, the button, a report form | opened from feed or search |
| the feed (MAIN) | two lists, filter, cursor, block list; UIKit's row count | gestures and answers |
| a room (ROOM) | messages shown, entrance time, text field, a report form | observer, callbacks |
| the chat list (LIST) | rows, one observer per room and visit | observers, swipe |
| Firebase Auth | accounts, certified or not; on the phone, who is signed in | registration, certification, login, logout, withdrawal |
| the settings (MORE) | `currentUid`, set when the tab bar is loaded | launch |
| Firestore's library | on disk: the batches of each user; in memory: a worker queue, a pipeline of ten, one write stream, callbacks by batch number | every Firestore write |

A post is therefore represented five times (document, member list, room, chat
lists of its members, copies on pages), and one operation writes several of
them one after the other, in callbacks of callbacks.

### Components and how they interact

* **Recruitment** (FORM, POST, ROOM, LIST): create, edit, delete, participate,
  leave, swipe. Interleavings of several students, stale copies, partial
  failures, killed apps. Correct if both databases agree on who takes part,
  nobody is overbooked, deleted is deleted, and callbacks never meet a nil.
* **Main feed** (MAIN, block in POST): filter, scroll, refresh, open, join,
  block. One client; answers come in any order and gestures between them, reads
  may fail, and a table in motion draws rows by itself.
  Correct if no index is out of range, pages neither repeat nor skip posts,
  blocked authors are not shown, and a count goes to the post it is for.
* **Report** (POST, ROOM): a form filled by asynchronous reads and saved by a
  timer. Correct if a report is complete and says what was confirmed.
* **Chat room** (ROOM): send, observe, enter; requests may fail. Correct if what arrives is what was
  typed and each member sees all that was said since he entered.
* **Message layout** (ROOM 61-230): which of six cells a message gets, from its
  neighbours. Correct if a reader can tell of every message who wrote it and when.
* **Post form** (FORM, the table of categories): seven fields, a button that is
  a cached verdict on them, two seconds between "done" and the end. Correct if
  only complete posts are written, one for a press, with the time shown.
* **Account** (REG, CERT, LOGIN, MORE): registration over Auth and two databases,
  certification by mail, login, logout, withdrawal, restarts, for students who
  share a phone. Correct if an account has its profile, nobody is inside without
  a certified address, who withdraws is deleted and nobody else, and nothing
  unwrapped is missing.
* **Firestore's write path** (the library): a write is filed on disk under the
  user signed in, sent in a pipeline over one stream, and acknowledged by
  position. Tokens come in callbacks, streams break or are ended, networks and users change,
  the app is killed. Correct if writes arrive in order and in the name of their
  author, an answer is taken for the right write, callers hear the truth once,
  nothing gets stuck, and no internal assertion fails.
* **Chat list** (LIST), **search** (SEARCH), **terms and tutorial**, **settings
  pages**, **shell**: see sections 6 and 7.

The feed hands a copy of a post to the page; the page writes the head count
back through its delegate, the feed (or search, which ignores it). The page and
the room write chat lists and member lists that other students' apps read.
Participating writes the entrance time from which a room shows messages. Every
Firestore write of the other components goes through the write path, whose queue
of one student's writes in their order, kept over a kill, is what
`Recruitment!fs` and `Account!queue` assume.

## 2. Modules

| module | what it is |
|--------|------------|
| `Recruitment` | the two databases, screens with copies, request queues and callbacks, all operations on a post |
| `Roster` | what a post promises, in five atomic steps; implemented by `Recruitment` |
| `RecruitmentProofs` | types, the bound on the counters, the participants of a room; one operation after another: the databases agree, nobody is overbooked, no trap, and `Roster` is implemented |
| `MainFeed` | the home screen, its reads, and the page opened from a row |
| `MainFeedProofs` | types; for a student who waits: no trap but a row drawn during a refresh, pages that join, nobody whose block was written before the feed appeared, counts for the post of the page |
| `Report` | a screen's report form, reads and timer |
| `ReportProofs` | types; unhurried reports are complete; what is saved is what was confirmed |
| `ChatRoom` | the messages of one room |
| `ChatRoomProofs` | types; no message from after the entrance is withheld or repeated; texts arrive as they were sent |
| `Bubbles` | the cells of a conversation |
| `BubblesProofs` | rows that are there keep their cells; every message can be attributed and dated |
| `PostForm` | the form of a post |
| `PostFormProofs` | types, the button, only complete posts; one press, one post; the time that was shown |
| `Account` | accounts, profiles, and one phone with its screens |
| `AccountProofs` | types, certified inside, profiles kept, nothing missing |
| `WriteQueue` | what Firestore promises of writes: a queue per student |
| `WritePipeline` | the worker queue, the table, the pipeline and the stream that implement it |
| `WritePipelineProofs` | types, authorship, answers by position, no failed assertion but on a stream the service ends, callers told the truth; the safety part of `WriteQueue` |
| `MCRecruitment`, `MCMainFeed`, `MCReport`, `MCChatRoom`, `MCBubbles`, `MCPostForm`, `MCAccount`, `MCWritePipeline` | small instances for TLC |

Most properties of this code are true in some environments and false in others,
and saying which is much of what this project has to say. An environment is a
set of names of things that may happen besides the well-behaved case. In
`Recruitment` it is the constant `Environment`; in the smaller modules it is a
variable that `Init` chooses and no step changes (`regime`, `setting`, `markers`,
`lastDay`), so that one run covers several and each property says in which it
holds, as a premise (`Waits => ...`).

### Recruitment and the code

* **Databases** `recruit`, `members`, `group`, `userGroups`: the documents and
  nodes of the table above, reduced to the fields that operations tell apart
  (author, counts, capacity, name). Pushed messages are reduced to `talk`, since
  a message brings a removed room node back. A `setData` with
  `merge: true` keeps the fields it does not name; a plain `setData` replaces; `updateChildValues`
  on an absent node creates it with that child alone.
* **Requests.** `rt[u]` is the client's queue to the Realtime Database; it is
  served in order, and a `getData` is answered and its callback run in one step.
  `fs[u]` is the queue of Firestore writes, committed in order. `asked[u]`
  counts `getDocument` calls without an answer; they are answered in any order,
  once the client's own writes to that document are committed (`Settled`),
  which stands for Firestore's rule that a client reads its own pending writes.
* **Operations** are one action per handler (`Create`, `Edit`, `Join`,
  `DeletePost`, `Leave`, `SwipeDelete`), with all requests the handler issues in
  its order; callbacks are actions of their own (`GotGroup`, `GotUser`,
  `GotGroups`, `AnswerAppend`, ...), because that is where other students come
  between. A cast with `as!` of something absent is `Crash`.
* **Pages** hold the copy `cur`, `max` they were opened with (POST 51 and 60-63
  compute from it). `OpenPage` starts the read that disables the button.
* `Kill` ends the process: the Realtime Database queue and all callbacks are lost,
  the Firestore queue is persistent and survives. `ReadFails` is the
  `guard error == nil else { return }` of the callbacks.
* Left out: `users/<uid>/table` (FORM 200) is written and never read;
  `group/<post>/users/<uid>` set to nil by a swipe (LIST 93) never exists.
* `Join` writes the head count to the page's post. In the code it goes to the
  post in the page's *row* of the feed (MAIN 176); that both are the same is the
  subject of `MainFeed` and its theorem.

Environments: `overlap` (an operation may start while another is in flight),
`stale` (screens stay open while others act), `search` (pages opened from
search results), `swipe`, `retap` ("leave" again before the room pops),
`offline` (reads fail), `kill`.

### MainFeed and the code

`mainPosts`, `filtered`, `filter`, `cursor`, `blocked`, `hasNext` are the
properties of MAIN with those roles; `rows` is what UIKit remembers since the
last `reloadData`, and an access beyond the list is `Trap`. `moving` is a table
that no finger holds: it decelerates after a scroll, or bounces back after a
pull (`endRefreshing`, MAIN 228), and while it moves it asks for rows by itself
(`DrawRow`, MAIN 355), whether or not the student waits. `ComeToRest` ends that,
and is not fair: nothing says which comes first, a row, the rest or the answer. `FetchReads` and
`FetchFiltered` are `fetchRecruitmentTableList` (MAIN 107-127), `AnswerPosts`
and `AnswerNoPosts` its callback, `AnswerBlockList` that of
`readAbusiveUserListFromServer`. `Publish` and `Withdraw` are other students. An
edit gives its post a new timestamp, so it is a `Publish` as well. `Unwind`
needs no answer: the announcement of a block dismisses itself and the page
unwinds (POST 209-214) whatever reads are open; `blockedThen` is the server's
block list when the feed last appeared. `FailRead` is the error branch of each of
the three callbacks (MAIN 129, 277, POST 226), which print and return. Assumed: the
student is logged in and past the tutorial; a category
does not change; and timestamps are unique and grow in the order of the commits.
The code takes them from the author's phone when he taps "done" (FORM 180, 193),
so two phones that disagree, or a commit that is late, may put a post *behind*
a cursor that has passed it, and `NoGaps` says nothing of those; the hop through the main queue of `beginpaginMainTableView`
is part of `Scroll`; `searchMainPost` is never assigned anything but nil and is
left out. `PageSize` is 10 in the code and 2 in the runs.
Regimes: `hurry` (gestures before answers), `peek` (a swipe back begun and
abandoned, for which UIKit calls `viewWillAppear` of the feed), `offline` (reads
may fail).

### Report and the code

`form` is `reportInformation`, one per screen; a field whose text nothing
depends on is only present or absent. `Confirm` issues the reads and starts the
timer; `Save` is the `asyncAfter` of two seconds. `setting` says whether the
screen is the page of a writer's post (`OnPage`, the variant of POST) or a room
(that of ROOM), and what may happen there: on a page the post is known and its writer is read, in a
room the accused is chosen from a sheet that fills as answers arrive and the
post is read. `setting.may`: `slow` (the timer may overtake the reads), `again` (a
report is begun within the two seconds of another), `offline`.

### ChatRoom and the code

`Send` to `WriteLast` are `sendButtonTapped` and its callbacks; the text is taken
from `field` in `AnswerName` (ROOM 251) and again in `WriteMessage` (263-264).
`Type` is the delegate that enables the button; clearing the field from the
program does not disable it. `Hear` is the `childAdded` observer with
`compareTimestamp` and the scroll to the last row, `AnswerEntrance` the read
beside it. Each visit is a new controller: `OpenRoom` begins with an empty list, an
entrance time of 0 and a text field of its own (`field` has one for each visit),
`CloseRoom` leaves the old ones to their callbacks. The observers of visits that
are over are never removed; they fill lists nobody sees, and do not scroll (ROOM
326 returns out of the navigation), so they are not kept. The entrance time is a
place in the log. `FailRequest` is a request that ends in an error: the
`guard error == nil else { return }` of the name's `getData` (ROOM 246) and of the
message's completion (258-261), after which the message is not sent, the field keeps
its text and nothing tries again; `lastMessage` has no completion and is just not
written. `FailEntrance` is the same guard of the read beside the observer (ROOM
304): the entrance time stays 0. Assumed: the log is in the order of arrival, a crash loses
the queue, and a message that is refused was not shown to its sender first.
Regimes: `typing` (the student types and taps while a message of the screen is
under way), `together` (several students have messages under way), `errors`
(requests may fail). `Steady` is neither `typing` nor `errors`.

### Bubbles and the code

`messages` is the array of ROOM 22 with its empty last element, and row `i` is
`messages[i]`: `indexPath.row` is `i - 1` and `messagesCount - 2` the last row.
`Cell` is `cellForItemAt`, in the order of its guards: announcements, the only
row, rows with another below (`OwnCell`, `OthersCell`), the last row. Where the
code repeats one comparison for the first row, for the same and for another
sender above, the operators state it once. Kept is that the row below decides
about the time by its sender and the *minute of the day* (`fetchMeetingTime` has
no date), the extra case for "/Out/", and `removeFirst(6)`, which traps on a
text that is "/Out/" and nothing else (cell "trap"). `Insert` is
`compareTimestamp`. Assumed: messages arrive in the order of their times.
`markers` lets students type "/In/" and "/Out/" as text, for which the cells are
total but no layout is promised.

### PostForm and the code

One action per delegate method or `@IBAction` of FORM, and `UpdateDoneButtonUI`
conjoined wherever the handler calls it, with the fields as the handler leaves
them. `MayPost` is its guard. Its last condition never fails in a new form, whose
label holds the storyboard's "Detail", so a post may be written without a
choice of time; its time is then "now". When a post is edited the label is set
from the post's text, which is no date the picker takes: the picker stays at
now, and unless it is moved the post's meeting time becomes now. `Touch` says
when a handler can run: while the form is on the screen, also in the two seconds
after "done", since the loading view covers 30 by 30 points; `touched`
records that it did. Texts are present or absent, days are today and tomorrow
(FORM 74-80), and `lastDay` is the last day of a month, on which `Told` is false of
tomorrow. An edited post is written in the completion of the dismissal, where
no field can be reached any more: `DoneEditing` is one step. The nine categories
one can choose all have a number (FORM 341), so the `guard` of FORM 192 never
returns early. `touchesBegan`, the
return key and another field that takes the keyboard end the note (`EndNote`).

### Account and the code

`status`, `email` are the accounts at Auth, `docs` the `users` documents by their
e-mail field, `names` the students with a `user/<uid>/userID`, `queue` what the
libraries have not written yet. `current` is `Auth.auth().currentUser`, which
survives the end of the app, `seen` its `isEmailVerified` as last read. A tap
puts a record into `calls`; its completion handlers are the actions of the same
call, one for each hop: `AnswerQuery` (REG 60-: is there a document with this
address), `AnswerCreate`, `Created` (REG 101-, the two writes of whoever is
signed in by then), `AnswerDocument`, `AnswerReload`, `AnswerSignIn`, `SignedIn`,
`AnswerFetch`, `AnswerDelete`. A forced unwrap or cast of something absent is
`Trap`, after which nothing happens. `Launch` is a start of the app, in peace or
after a kill.

Assumed: the settings controller is instantiated with the tab bar, at launch, so
its constant `currentUid` is who was signed in then (`owner`); the student waits for
answers he can see, except in regime `retap`, in which he taps the same button
once more (without this the properties fail in ways the alerts on the screen
make unlikely); Firestore holds a document's write back until its user is signed
in, which is what `WritePipeline` shows of it. Passwords and the mail that
resets one are not distinguished. Other regimes: `kill`, `offline`.

### WritePipeline and the code

`rs` is `RemoteStore` with its write stream and the two wires; the operators
`Start`, `FillWritePipeline`, `Closed`, `Stop`, `RestartNetwork`, `Broken`,
`Refused` ... are its methods and compose as the calls do, so an action such as
`ReceiveResult` is the whole task, from the answer to the refilled pipeline.
`tasks` is the worker queue, and holds the three kinds of task that come from
other threads: writes of the app, changes of the sign-in, answers to `GetToken`.
Timers and stream events run as steps of their own, since nothing orders them
against those tasks. A `GetToken` call is known by the close count of the
stream at the time (`asks`), which is how `RequestCredentials` recognises a late
answer. `HARD_ASSERT` would end the app: a condition that fails is noted in
`rs.failed`, and nothing happens after it. Noted are those of `stream.cc` (93, 129, 160, 172, 201, 242),
`write_stream.cc` (66; 79 where the handshake's answer sends the pipeline),
`remote_store.cc` (437, 456) and `leveldb_mutation_queue.cc` (201). Left out are those
that repeat the condition the call is made under, or what the line before has
set: `stream.cc` 155, 165, `write_stream.cc` 65, 80, `remote_store.cc` 397, 413,
484, 505, and `write_stream.cc` 79 and `stream.cc` 316 where `CanAddToWritePipeline`
and `CanWrite` are asked first. A stream ends in three ways: the library stops it (`Stop`),
it breaks with an error (`LoseStream`, a refused token, a refusal), or the
service ends it without one (`EndStream`: an OK status passes through
`OnOperationFailed`, `grpc_stream.cc` 312-323, and `OnStreamFinish`, `stream.cc` 294-305, to
`Close`). The first and the last meet the same assertion in `OnWriteStreamClose`
(`Ended`), and are told apart in `rs.failed`.

The service is external: it reads a stream in order, greets, applies or refuses a
write and answers; it stops at a refusal, and what it has not read when a stream
is closed is lost. What it has applied is history (`applied`, `latest`). `Kill`
leaves the table and the sign-in, and may fall between the two halves of an
acknowledgement: the caller told, the batch still on disk. The app's writes set
absolute values, so that applying one again is harmless as long as no later one is
undone, which is what `WriteQueue` demands.

Left out: an answer that does not parse (`write_stream.cc` 143-147), upon which the client
closes the stream with `DataLoss`, a permanent error, and rejects a write that
the service may have applied: the service's answers are assumed to be well formed;
`last_stream_token_` decides nothing on the client; an error of the
handshake and one of the connection restart the stream alike (`Broken`); errors of
`ResourceExhausted` kind only lengthen the backoff; the app never disables the
network, waits for pending writes, terminates or runs transactions.

## 3. Runs

All passing runs explore their instance completely. Deadlock is not checked:
students may stop, and every run ends when its taps are used up.

| run | module | what it shows |
|-----|--------|---------------|
| `serial` | Recruitment | three students, a post, six operations, one after another, with fairness: between operations the databases tell one story of the post (`DatabasesAgree`: it has a room or is gone, both counters equal the member list, members are the students who have the room, each once, deletions are complete, the last edit wins), nobody is overbooked, no callback traps, the chains of writes implement `Roster`, a participation ends in the member list and a leave out of the chat list (`EnrolmentFollows`) |
| `faults` | Recruitment | two students, three operations that overlap, stale pages, swipes, second taps, failing reads, kills: counters stay within the largest capacity submitted, only participants are listed |
| `stale` | Recruitment | violated `NoOverbooking`: a page opened before the last seat was taken |
| `feed` | MainFeed | three posts, two authors, two categories, with fairness. A student who waits: the one trap is a row that the moving table draws of a list emptied for a refresh (`OneTrapOnly`), pages join without duplicates or gaps, nobody is shown whose block was written before the feed appeared, counts go to their posts, also where reads fail. Gestures before answers and abandoned swipes: the table ends with the rows of its list |
| `forms` | Report | on a page, in time: no field is empty; in a room, slow and failing reads, with fairness: what is saved is what was confirmed, and all of it is saved |
| `messages` | ChatRoom | one sender at a time, who may leave and come back with a message under way: the text survives, sent as typed and `lastMessage` the last message; all at once, with fairness: nothing after the entrance is withheld or repeated, each tap puts a message in the room; one at a time with requests that fail: still nothing is withheld or repeated |
| `layout` | Bubbles | three students, four messages, three times of two minutes: one name over every burst of another student's and one time under every minute of it (`Readable`), and rows that keep their cells |
| `posting` | PostForm | three seats, two presses, both modes, any day: posts are complete, one press one post unless a field is touched, the time is the one shown |
| `twice` | PostForm | violated `NeverTwoPosts`: a field touched after "done" enables the button again |
| `account` | Account | two students on one phone, ten taps: every account has its profile, nobody is inside without a certified address, and, in peace, nothing that is unwrapped is missing |
| `withdraw` | Account | violated `OnlyWithdrawnDeleted`: one logs out, another logs in and withdraws, and the first is deleted |
| `writes` | WritePipeline | two students, three writes, streams lost, networks changed, tokens refused, kills, sign-ins, a stream the service ends, with fairness: no `HARD_ASSERT` fails but the one on that end, writes go out in their author's name, answers match, callers are told once and the truth, the library implements `WriteQueue`, and every write of who stays signed in is settled |

### Bounds

`MaxTaps`, `MaxReads`, `MaxQueue`, `MaxClock`, `MaxReports`, `MaxSends` bound
the length of a behaviour and stand in guards only. They are chosen so that the
cases the properties speak of occur: in `serial` six operations make it possible
to create, fill, leave, rejoin, edit and delete. One post and three operations are enough for the faults,
because every counter and list belongs to one post and each of its writers
computes from one earlier read. Three posts with pages of two give a second page,
a blocked author on the first, and posts published between pages. In `feed` a
student makes three gestures, with a clock of three publications if he waits and of two
otherwise. A cell depends on its two neighbours and on whether it is first
or last, so four messages show every combination; three times of which two have
the same label show a day that passes. Two presses of "done" are one more than
should be possible. In `account`, ten taps allow to register, certify, log in,
look at the settings, log out and do half of it again as another student. Two
messages and three visits of a room (two where several send or requests fail) suffice for a screen that is left with a message under
way while the next one sends.
`kMaxPendingWrites` is 10 in the code and 2 in `writes`, so that the third write
has to wait; `Budgets` gives a behaviour any two faults of the same or of different
kinds (two with three writes, if one of them is a lost stream), which is enough for a
late token, an answer or a timer of a stream to meet the stream after the next. One
stream that the service ends comes with a lost one or with a sign-in.
For longer pipelines, more faults and more students there are the theorems. Each property
is also checked to fail for a small plausible change of the code (the
definitions marked as mutants), so that no bound is so small that the property
holds vacuously.

Symmetry (of the students) is used in `faults` only, whose properties are invariants.

### Fairness

Liveness is checked under weak fairness of what the libraries and the operating
system do, never of what a student does: the Firebase clients retry until a
request is answered (`RealtimeStep`, `Commit`, `FirestoreAnswer`, `Answer`,
`Serve`, the answers of `Report`), timers fire (`Save`), and an announcement that
dismisses itself goes (`Unwind`). Where a request may end in an error instead
(`offline`, `errors`), an error is not fair but possible at each request, and the properties that need an
answer say so by their premise: `TableCatchesUp` and `EverySendArrives` hold without
those regimes only, since nothing in the code tries again. No liveness is claimed with `kill` in
`Recruitment`. In `WritePipeline` the worker queue runs its tasks in order, a
`GetToken` call is answered, the service answers what it has read, answers on a
stream are received, and the backoff timer fires. Streams are lost and the
app is killed finitely often, by the bounds; the idle timer needs no fairness.

## 4. What the runs say of the code

In the well-behaved case, one operation at a time, the two databases agree and
the chain of writes behind each button is as good as atomic. With everything
allowed at once, two things remain: counters bounded by the capacity, and lists
that name participants only. In between the code disagrees with what its comments
and texts promise:

* `stale`: POST 50 says an alert appears once the capacity is reached; the check
  uses the copy on the page.
* `twice`: FORM 172 disables the button against a second press; any field touched
  before the form goes enables it again.
* `withdraw`: MORE 165 asks the student on the screen whether he wants to withdraw;
  168 deletes the user of the last launch.

The write path does what it promises but for one thing: `OnWriteStreamClose`
(`remote_store.cc` 454-457) takes every end of a write stream with an OK status for a stop by
the library, "due to Stop() or idle timeout", and asserts that no write waits; but the service may end it so
too. With the invariant `rs.failed = {}` in place of `NoAssertionFails`, TLC shows it in six
states: a write is filed, its token comes, the stream opens, and the service
ends it.

Others were seen while modelling; the models exhibit them in the environments named:

* a last leave keeps the room in the chat list (ROOM 502; any environment);
* a delete overtaken by a participation, an edit or a leave is undone
  (POST 157; `overlap`);
* participations from search are counted in one database only (SEARCH 13; `search`);
* a block may be read before it is written (POST 225; any environment): POST 206 says that all posts of
  the author will be blocked and 209 that they are, when the list is only being read;
  a feed that reads it first keeps his posts until it next appears (with `blockList` for
  `blockedThen` in `NoBlockedShown`, TLC shows it in ten states);
* a pull, or the bottom of a category, ends the app if the table draws one of its old rows before
  the answer (MAIN 226, 116, 355; any environment; `OneTrapOnly` says there is no other way);
* a failed read of the feed leaves table and list apart (MAIN 129, 277; `offline`), a
  failed request a message unsent and unannounced (ROOM 246, 258; `errors`);
* a count may go to another post after an abandoned swipe (MAIN 176; `peek`);
* a report is saved incomplete when answers are slow (POST 252; `slow`), or with
  the accused of the next one (ROOM 619; `again`);
* on the last day of a month the label does not follow the picker to tomorrow
  (FORM 250; `lastDay`);
* a message that is "/Out/" and nothing else ends every application that shows it
  (ROOM 102; `markers`);
* the text of a message is read from the field in callbacks (ROOM 251; `typing`);
* messages from before the entrance are shown, or trap, when the observer is
  faster than the read beside it (ROOM 303, 323);
* a category tapped while `mainPosts` is empty shows all posts under the button of
  the category (MAIN 111), as after every return from a page with one chosen;
* one post of a blocked author among the newest ten ends paging, because MAIN 236
  counts after removing them;
* a search of nothing, or of more than ten letters, is a query Firestore refuses
  (SEARCH 81; not modelled);
* an account registered by an app that was killed before its document was written
  can neither register again nor open the settings (REG 101; `kill`);
* a withdrawal on the first launch unwraps a nil (MORE 168), and the document of a
  withdrawn account keeps its address from ever registering again (REG 60).

## 5. Proofs

All proofs are checked to the last leaf. The assumptions are those named in
the modules (`RecruitmentAssumption`, `MainFeedAssumption`, `ReportAssumption`,
`ChatRoomAssumption`, `BubblesAssumption`, `PostFormAssumption`, `AccountAssumption`, `WritePipelineAssumption`, and `PageAssumption`, by which the
absent value `Nil` is not itself a page): sentinels differ from values, bounds are naturals, environments are sets of known names. Where a property holds in some
environments only, the premise is part of the property and so of the theorem. TLC evaluates them on the instances.

* `RecruitmentProofs!TypeCorrect`: `Spec => []TypeOK`, one lemma per group of
  actions over lemmas about queues, requests and sequences.
* `RecruitmentProofs!CountersBounded`, `ParticipantsOnly`: `CounterWithinCapacity`
  and `OnlyParticipantsListed` for any number of students, posts, taps and in
  **every** environment, including those no run can afford. Neither is inductive:
  a counter that is fine now is written later from a copy on a page, from a
  request in a queue or from a write that survived a kill. The inductive
  invariant `IInv` therefore says the same of everything that may ever reach a
  server: `StoredSafe` and `ListsSafe` (what is stored), `CopiesSafe` (pages),
  `RtSafe` (Realtime Database queues), `FsSafe` (Firestore queues), `AsksSafe`
  (a participant's append is outstanding only if he joined). The histories only
  grow (`Grows`), so what was safe stays safe (`SafeGrows`); each action then
  has to justify only what it adds. A participation adds `cur + 1` under the
  guard `cur < max`, and a page's `max` was submitted; leaving lowers a count.
* `RecruitmentProofs!SerialCorrect` and what follows from it, `NoCrashSerial` (`NoCrash`),
  `DatabasesAgreeSerial` (`DatabasesAgree`) and `NoOverbookingSerial` (`NoOverbooking`), are about
  operations that do not overlap: their premise `Serial` is `Environment = {}`, the
  setting of the run `serial`, for any students, posts and capacities. That they fail without it is what the
  findings show. None is inductive, because an operation is a dozen steps during
  which the two databases tell different stories. `SerialInv` says what is true at each:
  * either nothing is under way and every post is told whole (`AtRest`: `Quiet`,
    `Story`), or one student is `Alone` with one operation on one post and every
    other post is whole;
  * an operation is two chains of writes, one per database, that do not
    wait for each other. `Half` places Firestore's (the document and the member list are each
    asked for, queued, or written); `CreateRt`, `JoinRt` and `ExitRt` place the Realtime
    Database's, one disjunct per stage; `Walk` and `Apart` say that deletions in flight are
    of the post that is closed, each place once;
  * `Screens`: pages and forms show what the databases hold now, and a
    participant is shown as one. This is where a stale copy would enter.

  `RealtimeKept`, `CommitKept`, `AnswerKept` and `TapKept` show that a write, a commit, an answer
  and a tap move one chain to its next place and leave the other where it is; `Rested`, that
  two chains at their ends make the post whole again.
* `RecruitmentProofs!RosterImplemented`: under `Serial`, `Spec => ImplementsRoster`. Finishing the form is
  `Offer`; the commit of the member list is `Start`, `Enter`, `Exit` or `Close` (`CommitRoster`),
  whose guards, room for one more and the student in it or not, come from
  `SerialInv`; every other step is a stutter.
* `MainFeedProofs!JoinCountsItsPost`: `Spec => []CountsItsPost`, which speaks of
  a student who waits, with reads that fail or not. The invariant `PageFixed` says that while a page is
  open, its row of `mainPosts` is its post and no read is outstanding except the
  one that blocks its author, whose answer touches no list. This is what
  `Recruitment` relies on.
* `MainFeedProofs!FeedTypes` holds in every regime. `FeedTrapsOnlyRefreshing`, `PagesAlwaysJoin` and
  `BlockedNeverShown` (`OneTrapOnly`, `PagesJoin`, `NoBlockedShown`) share the invariant
  `Orderly`: while a student waits, the reads of the feed form a chain of which one at most is
  outstanding and whose last answer reloads (`Done`, `Due`), beside a block that may
  be answered at any time, since the page unwinds without it; so every gesture, which
  waits for all of them, finds the rows of its list, and before that the lists are empty
  or as long as the table. A trap can therefore only be `DrawRow` in between (`MotionOrderly`), and
  what is so when it happens stays so, because nothing happens after it. What is read of
  the block list contains what it held when the feed appeared, which is what makes `NoBlockedShown` hold
  although a block may come later. The list of all categories holds everything from its cursor up to when it
  was begun, and nothing older (`Reached`), no post twice (`Apart`), and no
  author of the block list last read (`Unseen`). The lemmas beneath are about
  the pages themselves: a rank by timestamp (`Ranks`, by induction over a finite set), the
  documents behind a cursor without a gap (`DocumentsPage`), and the removal of
  blocked authors, which keeps order and distinctness (`WithoutSpec`).
* `ReportProofs!UnhurriedReportsComplete`: `Spec => []CollectedBeforeSaving`, on
  a page and in a room of any size, for answers in time and one report at a time. While a
  save is due, every field has arrived or is being read (`Coming`), and a room
  offers reasons only after a member was chosen (`ChosenFirst`). `ReportTypes` is
  for every setting. `ReportsAsConfirmed` (`SavedAsConfirmed`) follows the one report
  under way: while its timer runs, the form is what was confirmed last, up to
  fields that have not come, and all reports before it are saved.
* `ChatRoomProofs!TypeCorrect`, `NoneWithheld`: `TypeOK` and `NothingWithheld` for
  any students, messages and visits, in every regime, with requests that fail. `Shows` relates what is on the
  screen to what was delivered, compared with and entered: the time compared with is
  never later than the entrance, so a message is left out only if it is earlier, and
  each delivery is later than all before. `Visited` keeps the read of the entrance to
  open rooms and every request to a visit, whose text field therefore exists.
* `ChatRoomProofs!TextAlwaysSurvives`: `TextSurvives`, where no request fails. The text of a message is not in its
  request but in a field that is read again at each stage, so the invariant
  speaks of what is on its way (`OnWay`): the requests of a student are ordered by
  visit and stage (`InOrder`), and the fields they will read, in that order, carry
  exactly the texts he sent that the room does not hold yet (`Carries`). The
  rank of an entry among its sender's is a cardinality, with lemmas of
  its own. `Lasts` adds that with one sender the last message is the room's or its
  writing is due.
* `BubblesProofs!LayoutStable`: `Spec => OldRowsStay` for conversations of any
  length. The proof inserts a message in front of the empty one and compares each
  row's cell before and after: a row that is not the last looks at itself and its
  two neighbours, which the insertion leaves where they are; the last keeps its
  name, which depends on the row above only. What makes it an
  invariant's business is that the empty message is last and has a sender of its
  own. `AlwaysReadable` (`Readable`) is about runs of messages of one sender and of one
  minute: every run has a least and a greatest row (`Least`, `Greatest`, by the least
  number principle), `WhereNamed` and `WhereTimed` say which rows carry name and time, and
  from these it follows that there is one in each run, and one only.
* `PostFormProofs!PostsAreComplete`, `OnePressOnePost`: `OnlyCompletePosts` and
  `OnePostUntouched` for any stepper and any number of presses. The first needs
  `ButtonTells`, which each of seven handlers must keep for a button that only
  some of them update; the second `PressedOnce`: while an untouched form with
  a post written is on the screen, its button is disabled and its dismissal due.
  `ButtonTruthful` states the former alone; `TimeIsShown` (`TimeAsShown`) is from
  `LabelFollows`: on other days than the last of a month, a picker that was moved is
  what the label says.
* `AccountProofs`: `AccountTypes`, `CertifiedInside`, `ProfilesKept`, `NothingMissing` are conjuncts of one
  invariant. What makes it inductive is what it says of the calls under way: each
  suits the screen, its button and its address (`CallsOK`), no two of them are of
  different buttons except a withdrawal (`Alike`), a completion finds the
  account of its own address signed in (`OwnSession`), an address has one
  account (`OneAccount`), and who has none of his profile yet is the one whose
  completion is due (`Profiles`). `Found` says, in peace, that what a callback will unwrap
  is there already when the call is made.

* `WritePipelineProofs!Types`, `OnlyOwn`, `AnswersInOrder`, `NoneFails`: `TypeOK`,
  `OnlyOwnWrites`, `AnswersMatch` and `NoAssertionFails` for any students, any
  length of the pipeline, any number of writes, lost and ended streams, kills and sign-ins.
  `NoAssertionFails` excuses one assertion, the one on a stream that the service ends (`Excused`), of
  which section 4 says how it fails; all others are proved. One
  inductive invariant, `IInv`, serves all four, because each needs the others:
  * `Fit`: the pipeline and an open stream are of the user of the sync engine, and
    the wires hold nothing (closed), the greeting (open), or exactly the pipeline,
    the answered writes first (`InStep`, complete);
  * `Backed`: the pipeline is found in the table, both in order of number, and
    `Filed`: each table holds its user's writes below `nextId`. So an answer finds its
    batch on disk, and a refill takes up where the pipeline ends (`BackedFetched`,
    `BackedWithout`);
  * `Tokens`: a `GetToken` call or answer of the present close count implies that
    the stream is starting, and there is one of them at most. It is kept by every
    method of the store through one relation of the store before and after (`Moves`,
    transitive by `MovesOn`);
  * `Timely`: a backoff timer runs only in backoff, an idle timer only on an open
    stream with an empty pipeline, and a stream that is starting has work;
  * `Queue`, `OwnTasks`: the tasks carry the sign-ins in their order, so a write is
    filed when the sync engine's user is the one who asked, and a token that is
    used is of that user.
  One lemma per method shows what it does to `Fit`, `Sound` and `Moves`; one lemma
  per action puts them together.
* `WritePipelineProofs!CallersTrue` (`CallersToldTrue`) needs a second invariant on top of the first,
  `Ledger`: the pipeline is the front of its user's table, so answers settle
  the oldest write (`Front`); an answer that says "done" is of a write the service applied
  (`Done`); each table is in the order of the calls and holds nothing that is
  settled (`InTurn`); the calls still in the worker queue are in order and fresh,
  that is neither filed, applied nor told (`Ascending`, `Coming`, `Fresh`). A kill keeps all of it, since it
  keeps the tables and drops every handler.
* `WritePipelineProofs!WriteQueueImplemented`: `Spec => ImplementsWriteQueue`, under the refinement mapping
  that takes a student's table for his queue (`Filings`). `FileWrite` is `File`, the service's
  `ServeWrite` is `Apply`, `ReceiveResult` and `ReceiveRefusal` are `Settle`; every other step,
  of tokens, timers, networks, sign-ins and kills, is a stutter. That `Settle` takes the
  oldest write, and `Apply` none that comes after one not settled, is where `Ledger`
  and `Fit` are used.

Only model-checked: liveness, and nothing else of what the passing runs check. Fairness and ENABLED are
out of the prover's reach, so `EnrolmentFollows`, `TableCatchesUp`,
`EveryReportSaved`, `EverySendArrives` and `EveryWriteSettles` stay with TLC. Induction over data is possible only
through the well-founded induction of the library's least elements and through
finite-set lemmas, which is how the lemmas on ranks and runs are proved.

## 6. Not modelled, and why

* Presentation (constraints, colours, keyboards, animations), and texts and times
  except where an operation decides by them.
* The rows of the chat list: nothing reads them but the list itself. The query of the
  search and its table of results. The toggles of the terms and the flag of the
  tutorial: local and sequential. The static settings pages; the left-over
  controllers that are not in the target; the web site and `SandBox`.
* Of Firestore: reads and listeners (the watch stream, views, target caches, garbage
  collection), transactions, LevelDB below its transactions, the
  gRPC transport and its completion queues. They carry what the application sees
  as answers, and are modelled as such where it calls them. The Realtime Database,
  Auth and the rest of `Pods` (gRPC, BoringSSL, LevelDB, Abseil, nanopb) are external:
  third-party code that this team only calls.

## 7. Plan

In order of importance:

1. The results of `Serial` with less than `Serial`: which operations may overlap without harm,
   beginning with students who share no post (a deletion rewrites its members' lists of
   rooms from a copy, so different posts are not enough).
2. The watch stream and its target changes, beside the write stream.
3. `ChatList` and `Search`.
