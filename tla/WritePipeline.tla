--------------------------- MODULE WritePipeline ----------------------------
(***************************************************************************)
(* How the Firestore library brings the writes of this app to the service. *)
(* A write is filed in a table on disk and sent through a pipeline of at   *)
(* most kMaxPendingWrites over one stream; answers carry no number and are *)
(* matched to writes by their order.  Everything the library does runs as  *)
(* tasks of one worker queue; the app, the sign-in, the network and the    *)
(* service run beside it.                                                  *)
(***************************************************************************)
EXTENDS Integers, Sequences, FiniteSets

CONSTANTS User,               (* accounts, and the state of being signed out *)
          kMaxPendingWrites,  (* writes sent and not answered                *)
          MaxWrites,          (* bound: writes the app asks for              *)
          Budgets             (* bounds, one of which a behaviour keeps to:  *)
                              (* writes asked for, streams lost or networks  *)
                              (* changed, kills of the app, sign-ins, and    *)
                              (* streams that the service ends without error *)

Budget == [writes : 0..MaxWrites, losses : Nat, kills : Nat, signIns : Nat,
           ends : Nat]

ASSUME WritePipelineAssumption ==
    /\ User # {}
    /\ kMaxPendingWrites \in Nat \ {0}
    /\ MaxWrites \in Nat /\ Budgets \subseteq Budget

VARIABLES
    account,   (* who is signed in; survives the end of the app             *)
    tasks,     (* worker_queue_: what it has still to run                   *)
    user,      (* SyncEngine: current_user_                                 *)
    table,     (* on disk: the batches of each user, in order of number     *)
    nextId,    (* next_batch_id_                                            *)
    handlers,  (* mutation_callbacks_: the writes whose callers wait        *)
    rs,        (* RemoteStore and its write stream, with the two wires      *)
    author,    (* history: who asked for the writes, in the order of asking *)
    applied,   (* service: writes that it has applied                       *)
    latest,    (* service: the write of a user that it applied last         *)
    outcome,   (* history: how the client settled a write                   *)
    told,      (* history: what the caller of a write was told              *)
    left       (* what is left of the bounds                                *)

vars == <<account, tasks, user, table, nextId, handlers, rs, author, applied,
          latest, outcome, told, left>>

Write   == 1..MaxWrites
Batch   == [id : Nat, write : Write]
Request == [kind : {"handshake"}, write : {0}] \cup [kind : {"write"}, write : Write]
Answer  == [kind : {"handshake"}, write : {0}]
           \cup [kind : {"ok", "refused"}, write : Write]
Task    == [kind : {"write"}, user : User, number : Write]
           \cup [kind : {"user"}, user : User, number : {0}]
           \cup [kind : {"token", "noToken"}, user : User, number : Nat]
Timer   == {"idle", "backoff"}

(* The HARD_ASSERTs; those that have failed are noted.  "Stopped while     *)
(* still needed" is told apart by who ended the stream, the library or the *)
(* service.  Those that repeat what the call is made under, or what the    *)
(* line before them has set, are left out: stream.cc 155 and 165,          *)
(* write_stream.cc 65 and 80, and remote_store.cc 397, 413, 484 and 505,   *)
(* also write_stream.cc 79 and stream.cc 316 under AddToWritePipeline.     *)
Assertion == {"already started", "closing a stream that is not started",
              "stopped while still needed", "ended while still needed",
              "backoff of a started stream", "should be starting",
              "handshake already completed", "writing requires an opened stream",
              "read from a stopped stream", "result for an empty pipeline",
              "no such batch", "backoff elapsed"}
Store   == [pipeline : Seq(Batch),
            state : {"Initial", "Starting", "Open", "Backoff", "Error"},
            handshake : {"pending", "complete"},
            closeCount : Nat,
            asks : SUBSET Nat,      (* GetToken calls, by their close count *)
            timers : SUBSET Timer,
            session : User,         (* whose token the open stream carries  *)
            up : Seq(Request), down : Seq(Answer),
            failed : SUBSET Assertion]

(* Every variable has the type of the field, row or message it stands for. *)
TypeOK ==
    /\ account \in User /\ user \in User /\ nextId \in Nat
    /\ tasks \in Seq(Task)
    /\ table \in [User -> Seq(Batch)]
    /\ handlers \in [User -> SUBSET Batch]
    /\ rs \in Store /\ Len(rs.pipeline) <= kMaxPendingWrites
    /\ author \in Seq(User) /\ applied \subseteq Write
    /\ latest \in [User -> Write \cup {0}]
    /\ outcome \in [Write -> {"none", "ok", "refused"}]
    /\ told \in [Write -> {"none", "ok", "refused"}]
    /\ left \in Budget
-----------------------------------------------------------------------------
(***************************************************************************)
(* The stream and the pipeline.  Each operator is a method: it takes the   *)
(* record of the remote store and gives the record after the call.         *)
(***************************************************************************)
IsStarted(c) == c.state \in {"Starting", "Backoff", "Open"}
CanWrite(c)  == c.state = "Open" /\ c.handshake = "complete"

HardAssert(c, condition, text) ==
    IF condition THEN c ELSE [c EXCEPT !.failed = @ \cup {text}]

(* Stream::Start: ask for a token, or wait first when the last one failed. *)
Start(c) ==
    IF c.state = "Error"
    THEN [c EXCEPT !.state = "Backoff", !.timers = @ \cup {"backoff"}]
    ELSE [HardAssert(c, c.state = "Initial", "already started")
              EXCEPT !.state = "Starting", !.asks = @ \cup {c.closeCount}]

StartIfNeeded(c) ==
    IF c.pipeline # <<>> /\ ~IsStarted(c) THEN Start(c) ELSE c

(* Mutant: whether the pipeline has room is not asked.                     *)
FetchedAll(pipeline, rows) ==
    LET last == IF pipeline = <<>> THEN -1 ELSE pipeline[Len(pipeline)].id
        from == Cardinality({k \in DOMAIN rows : rows[k].id <= last})
    IN SubSeq(rows, from + 1, Len(rows))

(* NextMutationBatchAfterBatchId, as often as the pipeline has room.       *)
Fetched(pipeline, rows) ==
    LET last == IF pipeline = <<>> THEN -1 ELSE pipeline[Len(pipeline)].id
        from == Cardinality({k \in DOMAIN rows : rows[k].id <= last})
        end  == from + kMaxPendingWrites - Len(pipeline)
    IN SubSeq(rows, from + 1, IF end < Len(rows) THEN end ELSE Len(rows))

WriteRequests(batches) ==
    [k \in 1..Len(batches) |-> [kind |-> "write", write |-> batches[k].write]]

(* FillWritePipeline: take what is on disk, send it when the stream is     *)
(* ready, let an open stream without work run idle, start one with work.   *)
FillWritePipeline(c, rows) ==
    LET more   == Fetched(c.pipeline, rows)
        filled == c.pipeline \o more
        sent   == CanWrite(c) /\ more # <<>>
        idle   == c.state = "Open" /\ filled = <<>>
    IN StartIfNeeded([c EXCEPT
           !.pipeline = filled,
           !.up = IF sent THEN @ \o WriteRequests(more) ELSE @,
           !.timers = IF sent THEN @ \ {"idle"}
                      ELSE IF idle THEN @ \cup {"idle"} ELSE @])

(* Mutant: answers of the closed stream may still arrive.                  *)
ClosedKeepingAnswers(c, state) ==
    [HardAssert(c, IsStarted(c), "closing a stream that is not started") EXCEPT
        !.timers = {}, !.closeCount = @ + 1, !.up = <<>>, !.state = state]

(* Stream::Close, up to the call of the listener.                          *)
Closed(c, state) ==
    [HardAssert(c, IsStarted(c), "closing a stream that is not started") EXCEPT
        !.timers = {}, !.closeCount = @ + 1, !.up = <<>>, !.down = <<>>,
        !.state = state]

(* OnWriteStreamClose without an error: no write may be waiting.           *)
Ended(c, enabled, text) ==
    [HardAssert(Closed(c, "Initial"), ~enabled \/ c.pipeline = <<>>, text) EXCEPT
        !.handshake = "pending"]

(* Stream::Stop: nothing to do unless started.                             *)
Stop(c, enabled) ==
    IF IsStarted(c) THEN Ended(c, enabled, "stopped while still needed") ELSE c

(* Stream::InhibitBackoff: the error condition is cleared.                 *)
InhibitBackoff(c) ==
    [HardAssert(c, ~IsStarted(c), "backoff of a started stream") EXCEPT
        !.state = "Initial"]

(* Mutant: the pipeline of the former user stays.                          *)
RestartNetworkKeeping(c, rows) ==
    FillWritePipeline(InhibitBackoff(Stop(c, FALSE)), rows)

(* RestartNetwork: DisableNetworkInternal, then EnableNetwork.             *)
RestartNetwork(c, rows) ==
    FillWritePipeline(
        InhibitBackoff([Stop(c, FALSE) EXCEPT !.pipeline = <<>>]), rows)

(* Mutant: the stream is not started again.                                *)
BrokenStopped(c) == [Closed(c, "Error") EXCEPT !.handshake = "pending"]

(* The stream ends with an error that a retry may cure.                    *)
Broken(c) == StartIfNeeded([Closed(c, "Error") EXCEPT !.handshake = "pending"])

(* The stream ends with a permanent error: the first write is given up.    *)
Refused(c, rows) ==
    LET s == Closed(c, "Error")
        f == FillWritePipeline(InhibitBackoff([s EXCEPT !.pipeline = Tail(@)]),
                               rows)
    IN StartIfNeeded([f EXCEPT !.handshake = "pending"])

(* OnStreamStart: the stream is open and the handshake is written.         *)
Opened(c, u) ==
    [HardAssert(c, c.handshake = "pending", "handshake already completed") EXCEPT
        !.state = "Open", !.session = u,
        !.up = <<[kind |-> "handshake", write |-> 0]>>]

FreshStore(u) ==
    [pipeline |-> <<>>, state |-> "Initial", handshake |-> "pending",
     closeCount |-> 0, asks |-> {}, timers |-> {}, session |-> u,
     up |-> <<>>, down |-> <<>>, failed |-> {}]
-----------------------------------------------------------------------------
Init ==
    /\ account \in User /\ user = account /\ tasks = <<>>
    /\ table = [u \in User |-> <<>>] /\ nextId = 1
    /\ handlers = [u \in User |-> {}] /\ rs = FreshStore(user)
    /\ author = <<>> /\ applied = {}
    /\ latest = [u \in User |-> 0]
    /\ outcome = [w \in Write |-> "none"] /\ told = outcome
    /\ left \in Budgets

service == <<applied, latest>>
local   == <<user, table, nextId, handlers>>
history == <<author, outcome, told>>

Spend(what) == left[what] > 0 /\ left' = [left EXCEPT ![what] = @ - 1]

(* The app asks for a write: a task for the worker queue.                  *)
AskWrite ==
    /\ Spend("writes")
    /\ author' = Append(author, account)
    /\ tasks' = Append(tasks, [kind |-> "write", user |-> account,
                               number |-> Len(author')])
    /\ UNCHANGED <<account, local, rs, service, outcome, told>>

(* The sign-in changes, or its token does: a task for the worker queue.    *)
SignIn(u) ==
    /\ Spend("signIns")
    /\ account' = u
    /\ tasks' = Append(tasks, [kind |-> "user", user |-> u, number |-> 0])
    /\ UNCHANGED <<local, rs, service, history>>

(* A GetToken call is answered with a token of whoever is signed in now;   *)
(* the answer is a task, and knows the close count of the call.            *)
GiveToken(n) ==
    /\ n \in rs.asks
    /\ \E kind \in {"token", "noToken"} :
        /\ IF kind = "noToken" THEN Spend("losses") ELSE UNCHANGED left
        /\ tasks' = Append(tasks, [kind |-> kind, user |-> account, number |-> n])
    /\ rs' = [rs EXCEPT !.asks = @ \ {n}]
    /\ UNCHANGED <<account, local, service, history>>
-----------------------------------------------------------------------------
(* The first task of the worker queue.                                     *)
Runs(kinds) == tasks # <<>> /\ tasks[1].kind \in kinds /\ tasks' = Tail(tasks)

(* Mutant: the highest number is used again.                               *)
NextIdOfLast(t) ==
    LET ids == UNION {{t[u][k].id : k \in DOMAIN t[u]} : u \in User}
    IN IF ids = {} THEN 1 ELSE CHOOSE i \in ids : \A j \in ids : j <= i

(* LoadNextBatchIdFromDb: one more than the highest number of any user.    *)
NextIdOf(t) ==
    LET ids == UNION {{t[u][k].id : k \in DOMAIN t[u]} : u \in User}
    IN IF ids = {} THEN 1 ELSE 1 + CHOOSE i \in ids : \A j \in ids : j <= i

Has(rows, id) == \E k \in DOMAIN rows : rows[k].id = id

(* AddMutationBatch: a row of the table, in place of one with its number.  *)
Put(rows, b) ==
    IF Has(rows, b.id)
    THEN [k \in DOMAIN rows |-> IF rows[k].id = b.id THEN b ELSE rows[k]]
    ELSE Append(rows, b)

(* RemoveMutationBatch: the row with this number, asserted to be there.    *)
Without(rows, id) ==
    IF ~Has(rows, id) THEN rows
    ELSE LET k == CHOOSE i \in DOMAIN rows : rows[i].id = id
         IN SubSeq(rows, 1, k - 1) \o SubSeq(rows, k + 1, Len(rows))

(* SyncEngine::WriteMutations: on disk, a handler, the pipeline.           *)
FileWrite ==
    /\ Runs({"write"})
    /\ LET b == [id |-> nextId, write |-> tasks[1].number] IN
        /\ table' = [table EXCEPT ![user] = Put(@, b)]
        /\ handlers' = [handlers EXCEPT ![user] =
               IF \E h \in @ : h.id = nextId THEN @ ELSE @ \cup {b}]
    /\ nextId' = nextId + 1
    /\ rs' = FillWritePipeline(rs, table'[user])
    /\ UNCHANGED <<account, user, service, history, left>>

(* SyncEngine::HandleCredentialChange: the queue of the other user.        *)
ChangeUser ==
    /\ Runs({"user"})
    /\ user' = tasks[1].user
    /\ nextId' = IF user' # user THEN NextIdOf(table) ELSE nextId
    /\ rs' = RestartNetwork(rs, table[user'])
    /\ UNCHANGED <<account, table, handlers, service, history, left>>

(* Mutant: the close count is not compared.                                *)
UseTokenOfAnyCall ==
    /\ Runs({"token", "noToken"})
    /\ LET t == tasks[1]
           s == HardAssert(rs, rs.state = "Starting", "should be starting")
       IN rs' = IF t.kind = "noToken" THEN Broken(s) ELSE Opened(s, t.user)
    /\ UNCHANGED <<account, local, service, history, left>>

(* The answer to a GetToken call of a start that was closed since is       *)
(* dropped; else the call is opened and the handshake sent.                *)
UseToken ==
    /\ Runs({"token", "noToken"})
    /\ LET t == tasks[1]
           s == HardAssert(rs, rs.state = "Starting", "should be starting")
       IN rs' = IF t.number # rs.closeCount THEN rs
                ELSE IF t.kind = "noToken" THEN Broken(s) ELSE Opened(s, t.user)
    /\ UNCHANGED <<account, local, service, history, left>>
-----------------------------------------------------------------------------
(* The service works off a stream in order and stops at a refusal.         *)
Serves(kind) ==
    /\ rs.up # <<>> /\ rs.up[1].kind = kind
    /\ ~ \E i \in DOMAIN rs.down : rs.down[i].kind = "refused"

Answers(kind) ==
    rs' = [rs EXCEPT !.up = Tail(@),
               !.down = Append(@, [kind |-> kind, write |-> rs.up[1].write])]

ServeHandshake ==
    /\ Serves("handshake") /\ Answers("handshake")
    /\ UNCHANGED <<account, tasks, local, service, history, left>>

ServeWrite ==
    /\ Serves("write") /\ Answers("ok")
    /\ applied' = applied \cup {rs.up[1].write}
    /\ latest' = [latest EXCEPT ![rs.session] = rs.up[1].write]
    /\ UNCHANGED <<account, tasks, local, history, left>>

RefuseWrite ==
    /\ Serves("write") /\ Answers("refused")
    /\ UNCHANGED <<account, tasks, local, service, history, left>>
-----------------------------------------------------------------------------
Receives(kind) == rs.down # <<>> /\ rs.down[1].kind = kind

(* OnStreamRead: the next answer is taken off the wire.                    *)
Received ==
    [HardAssert(rs, IsStarted(rs), "read from a stopped stream") EXCEPT
        !.down = Tail(@)]

(* Mutant: the handler is kept.                                            *)
NotifyKeeping(id, how) ==
    LET waiting == {h \in handlers[user] : h.id = id}
    IN /\ UNCHANGED handlers
       /\ told' = [w \in Write |->
              IF \E h \in waiting : h.write = w THEN how ELSE told[w]]

(* NotifyUser: the handler that waits for a batch of this number.          *)
Notify(id, how) ==
    LET waiting == {h \in handlers[user] : h.id = id}
    IN /\ handlers' = [handlers EXCEPT ![user] = @ \ waiting]
       /\ told' = [w \in Write |->
              IF \E h \in waiting : h.write = w THEN how ELSE told[w]]

(* The first write of the pipeline is settled and leaves the table.        *)
Settles(b, how) ==
    /\ Notify(b.id, how)
    /\ outcome' = [outcome EXCEPT ![b.write] = how]
    /\ table' = [table EXCEPT ![user] = Without(@, b.id)]

(* OnWriteStreamHandshakeComplete: all of the pipeline is sent.            *)
ReceiveHandshake ==
    /\ Receives("handshake")
    /\ rs' = [HardAssert(Received, rs.pipeline = <<>> \/ rs.state = "Open",
                         "writing requires an opened stream") EXCEPT
                  !.handshake = "complete",
                  !.timers = IF rs.pipeline = <<>> THEN @ ELSE @ \ {"idle"},
                  !.up = @ \o WriteRequests(rs.pipeline)]
    /\ UNCHANGED <<account, tasks, local, service, history, left>>

(* OnWriteStreamMutationResult: belongs to the first write of the pipeline.*)
ReceiveResult ==
    /\ Receives("ok")
    /\ IF rs.pipeline = <<>>
       THEN /\ rs' = HardAssert(Received, FALSE, "result for an empty pipeline")
            /\ UNCHANGED <<table, handlers, outcome, told>>
       ELSE /\ Settles(rs.pipeline[1], "ok")
            /\ rs' = FillWritePipeline(
                   HardAssert([Received EXCEPT !.pipeline = Tail(@)],
                              Has(table[user], rs.pipeline[1].id),
                              "no such batch"), table'[user])
    /\ UNCHANGED <<account, tasks, user, nextId, service, author, left>>

(* OnWriteStreamClose with a permanent error of the writes.                *)
ReceiveRefusal ==
    /\ Receives("refused")
    /\ IF rs.pipeline = <<>>
       THEN /\ rs' = Broken(rs)
            /\ UNCHANGED <<table, handlers, outcome, told>>
       ELSE /\ Settles(rs.pipeline[1], "refused")
            /\ rs' = HardAssert(Refused(rs, table'[user]),
                                Has(table[user], rs.pipeline[1].id),
                                "no such batch")
    /\ UNCHANGED <<account, tasks, user, nextId, service, author, left>>

(* BackoffAndRun: the delay after an error is over.                        *)
BackoffElapses ==
    /\ "backoff" \in rs.timers
    /\ rs' = Start([HardAssert(rs, rs.state = "Backoff", "backoff elapsed")
                        EXCEPT !.timers = @ \ {"backoff"}, !.state = "Initial"])
    /\ UNCHANGED <<account, tasks, local, service, history, left>>

(* A stream without work is stopped after a while.                         *)
IdleElapses ==
    /\ "idle" \in rs.timers
    /\ rs' = Stop([rs EXCEPT !.timers = @ \ {"idle"}], TRUE)
    /\ UNCHANGED <<account, tasks, local, service, history, left>>
-----------------------------------------------------------------------------
(* The stream breaks; what is on the wires is lost.                        *)
LoseStream ==
    /\ rs.state = "Open" /\ Spend("losses")
    /\ rs' = Broken(rs)
    /\ UNCHANGED <<account, tasks, local, service, history>>

(* The service ends the stream without an error: Close(OK), as if it had   *)
(* been stopped.                                                           *)
EndStream ==
    /\ rs.state = "Open" /\ Spend("ends")
    /\ rs' = Ended(rs, TRUE, "ended while still needed")
    /\ UNCHANGED <<account, tasks, local, service, history>>

(* The connectivity monitor reports another network.                       *)
ChangeNetwork ==
    /\ Spend("losses")
    /\ rs' = RestartNetwork(rs, table[user])
    /\ UNCHANGED <<account, tasks, local, service, history>>

(* The app is killed and started again: only the table and the sign-in are *)
(* left.  It may be killed in the middle of an acknowledgement, when the   *)
(* caller has been told and the batch is still on disk.                    *)
Kill ==
    /\ Spend("kills")
    /\ \/ UNCHANGED told
       \/ /\ Receives("ok") /\ rs.pipeline # <<>>
          /\ told' = [w \in Write |->
                 IF [id |-> rs.pipeline[1].id, write |-> w] \in handlers[user]
                 THEN "ok" ELSE told[w]]
    /\ user' = account /\ tasks' = <<>> /\ UNCHANGED <<account, table>>
    /\ nextId' = NextIdOf(table)
    /\ handlers' = [u \in User |-> {}]
    /\ rs' = FillWritePipeline(FreshStore(account), table[account])
    /\ UNCHANGED <<service, author, outcome>>

Next ==
    /\ rs.failed = {}
    /\ \/ AskWrite \/ (\E u \in User : SignIn(u)) \/ (\E n \in rs.asks : GiveToken(n))
       \/ FileWrite \/ ChangeUser \/ UseToken
       \/ ServeHandshake \/ ServeWrite \/ RefuseWrite
       \/ ReceiveHandshake \/ ReceiveResult \/ ReceiveRefusal
       \/ BackoffElapses \/ IdleElapses
       \/ LoseStream \/ EndStream \/ ChangeNetwork \/ Kill

Spec == Init /\ [][Next]_vars

(* The worker queue runs, the sign-in and the service answer, timers fire. *)
FairSpec ==
    /\ Spec
    /\ WF_vars(FileWrite \/ ChangeUser \/ UseToken)
    /\ WF_vars(\E n \in rs.asks : GiveToken(n))
    /\ WF_vars(ServeHandshake \/ ServeWrite \/ RefuseWrite)
    /\ WF_vars(ReceiveHandshake \/ ReceiveResult \/ ReceiveRefusal)
    /\ WF_vars(BackoffElapses)
-----------------------------------------------------------------------------
Pending(u) == {table[u][k].write : k \in DOMAIN table[u]}

(* The library promises, and its callers rely on, what HARD_ASSERT states  *)
(* in Stream, WriteStream, RemoteStore and the mutation queue: none fails  *)
(* by what the app, the sign-in, the network and the timers do.  By what   *)
(* the service does one can fail: OnWriteStreamClose says that a stream    *)
(* that ends without an error was stopped by the library, when no write    *)
(* waits, but the service may end it.                                      *)
NoAssertionFails == rs.failed \subseteq {"ended while still needed"}

(* A write is filed, sent and applied in the name of the student who asked *)
(* for it, whoever is signed in by then: the token of a stream is of the   *)
(* user whose writes it carries.                                           *)
OnlyOwnWrites ==
    /\ \A u \in User : \A w \in Pending(u) : author[w] = u
    /\ \A i \in DOMAIN rs.up :
          rs.up[i].kind = "write" => author[rs.up[i].write] = rs.session

(* The answers on the wire and the requests behind them are those of the   *)
(* pipeline, in its order: the match by position is right.                 *)
AnswersMatch ==
    CanWrite(rs) =>
        /\ Len(rs.pipeline) = Len(rs.down) + Len(rs.up)
        /\ \A i \in DOMAIN rs.down : rs.down[i].write = rs.pipeline[i].write
        /\ \A i \in DOMAIN rs.up :
               rs.up[i].write = rs.pipeline[Len(rs.down) + i].write

(* A caller is told once, and the truth: a handler waits for the batch it  *)
(* was filed with although numbers are used again after a restart, "done"  *)
(* is said of an applied write and "refused" of one that was given up.     *)
CallersToldTrue ==
    /\ \A u \in User : \A h \in handlers[u] :
           /\ \E k \in DOMAIN table[u] : table[u][k] = h
           /\ told[h.write] = "none"
    /\ \A w \in Write : /\ told[w] = "ok" => w \in applied
                        /\ told[w] = "refused" => outcome[w] = "refused"

(* The writes of a student reach the service in the order he made them,    *)
(* none skipped, none after it was settled, across lost streams, kills and *)
(* changes of the account: the abstract queue of WriteQueue.               *)
Promise == INSTANCE WriteQueue WITH pending <- [u \in User |-> Pending(u)]
ImplementsWriteQueue == Promise!Spec

(* A write of the student signed in is settled in the end, while he stays  *)
(* signed in and no assertion fails: no state of the stream is left with   *)
(* work and without a call, a timer or an answer to come.                  *)
EveryWriteSettles ==
    \A u \in User, w \in Write :
        (user = u /\ w \in Pending(u))
            ~> (user # u \/ w \notin Pending(u) \/ rs.failed # {})
=============================================================================
