------------------------- MODULE WritePipelineProofs -------------------------
(***************************************************************************)
(* For any users, pipeline length and number of writes, faults and kills:  *)
(* the types, that writes go out in the name of their authors, that        *)
(* answers are matched to the right writes, that no HARD_ASSERT fails but  *)
(* the one the service can make fail (the invariant IInv), that callers    *)
(* are told the truth, and that the write path implements the queue of     *)
(* writes of WriteQueue (the invariant Ledger, which rests on IInv).       *)
(***************************************************************************)
EXTENDS WritePipeline, TLAPS, FiniteSetTheorems, SequenceTheorems,
        WellFoundedInduction

(* A write of this user.                                                   *)
By(a, w, u) == w \in DOMAIN a /\ a[w] = u

OwnRows(a, rows, u) == \A k \in DOMAIN rows : By(a, rows[k].write, u)

Typed(c) == c \in Store /\ Len(c.pipeline) <= kMaxPendingWrites

(* The pipeline and an open stream belong to the user of the sync engine.  *)
Own(a, c, u) ==
    /\ c.state = "Open" => c.session = u
    /\ OwnRows(a, c.pipeline, u)
    /\ \A i \in DOMAIN c.up : c.up[i].kind = "write" => By(a, c.up[i].write, u)

Greeting == [kind |-> "handshake", write |-> 0]

(* What is on the wires: nothing while closed, the greeting, or the        *)
(* pipeline, the answered writes first.                                    *)
InStep(p, d, q) ==
    /\ Len(p) = Len(d) + Len(q)
    /\ \A i \in 1..Len(d) : d[i].kind # "handshake" /\ d[i].write = p[i].write
    /\ \A i \in 1..Len(q) : q[i].kind = "write" /\ q[i].write = p[Len(d) + i].write

Mirrors(c) == InStep(c.pipeline, c.down, c.up)

Wires(c) ==
    /\ c.state # "Open" => c.up = <<>> /\ c.down = <<>>
    /\ c.state = "Open" /\ c.handshake = "pending" =>
           \/ c.up = <<Greeting>> /\ c.down = <<>>
           \/ c.up = <<>> /\ c.down = <<Greeting>>
    /\ c.state = "Open" /\ c.handshake = "complete" => Mirrors(c)

Fit(a, c, u) == Typed(c) /\ Own(a, c, u) /\ Wires(c)

Same(c, d) ==
    /\ d.pipeline = c.pipeline /\ d.state = c.state /\ d.handshake = c.handshake
    /\ d.closeCount = c.closeCount /\ d.asks = c.asks /\ d.timers = c.timers
    /\ d.session = c.session /\ d.up = c.up /\ d.down = c.down
-----------------------------------------------------------------------------
(* A failed assertion is noted, and nothing else changes.                  *)
Noted(c, t) == [c EXCEPT !.failed = @ \cup {t}]

LEMMA HardAssertIs ==
    ASSUME NEW c, NEW p, NEW t
    PROVE  HardAssert(c, p, t) = c \/ HardAssert(c, p, t) = Noted(c, t)
  BY DEF HardAssert, Noted

LEMMA NotedKeeps ==
    ASSUME NEW c \in Store, NEW t \in Assertion, NEW d, d = c \/ d = Noted(c, t)
    PROVE  d \in Store /\ Same(c, d)
<1>1. Noted(c, t) \in Store /\ Same(c, Noted(c, t))
  BY DEF Store, Same, Noted
<1> QED
  BY <1>1 DEF Same

(* Starting a stream that is not started touches neither the pipeline nor  *)
(* the wires.                                                              *)
LEMMA StartFits ==
    ASSUME NEW a, NEW u, NEW c, Fit(a, c, u), ~IsStarted(c)
    PROVE  /\ Fit(a, Start(c), u) /\ Start(c).state # "Open"
           /\ Start(c).pipeline = c.pipeline /\ Start(c).handshake = c.handshake
<1> DEFINE d == HardAssert(c, c.state = "Initial", "already started")
<1>0. c \in Store
  BY DEF Fit, Typed
<1>1. d \in Store /\ Same(c, d)
  <2>1. d = c \/ d = Noted(c, "already started")
    BY DEF HardAssert, Noted
  <2>2. "already started" \in Assertion
    BY DEF Assertion
  <2> HIDE DEF d
  <2> QED
    BY <1>0, <2>1, <2>2, NotedKeeps
<1>2. c.state # "Open" /\ c.up = <<>> /\ c.down = <<>>
  BY DEF IsStarted, Fit, Wires
<1>3. CASE c.state = "Error"
  <2> DEFINE e == [c EXCEPT !.state = "Backoff", !.timers = @ \cup {"backoff"}]
  <2>1. Start(c) = e
    BY <1>3 DEF Start
  <2>2. /\ e.state = "Backoff" /\ e.pipeline = c.pipeline /\ e.up = c.up
        /\ e.down = c.down /\ e.handshake = c.handshake
    BY <1>0 DEF Store
  <2>3. e \in Store
    BY <1>0 DEF Store, Timer
  <2> HIDE DEF e
  <2> QED
    BY <1>2, <2>1, <2>2, <2>3 DEF Fit, Typed, Own, Wires
<1>4. CASE c.state # "Error"
  <2> DEFINE e == [d EXCEPT !.state = "Starting", !.asks = @ \cup {c.closeCount}]
  <2>1. Start(c) = e
    BY <1>4 DEF Start
  <2> HIDE DEF d
  <2>2. /\ e.state = "Starting" /\ e.pipeline = c.pipeline /\ e.up = c.up
        /\ e.down = c.down /\ e.handshake = c.handshake
    BY <1>1 DEF Store, Same
  <2>3. e \in Store
    BY <1>0, <1>1 DEF Store
  <2> HIDE DEF e
  <2> QED
    BY <1>2, <2>1, <2>2, <2>3 DEF Fit, Typed, Own, Wires
<1> QED
  BY <1>3, <1>4

LEMMA StartIfNeededFits ==
    ASSUME NEW a, NEW u, NEW c, Fit(a, c, u)
    PROVE  /\ Fit(a, StartIfNeeded(c), u)
           /\ c.state # "Open" => StartIfNeeded(c).state # "Open"
           /\ StartIfNeeded(c).handshake = c.handshake
  BY StartFits DEF StartIfNeeded
-----------------------------------------------------------------------------
(* What is fetched are rows of the table, no more than there is room for.  *)
LEMMA FetchedFits ==
    ASSUME NEW p \in Seq(Batch), Len(p) <= kMaxPendingWrites, NEW rows \in Seq(Batch)
    PROVE  /\ Fetched(p, rows) \in Seq(Batch)
           /\ Len(p) + Len(Fetched(p, rows)) <= kMaxPendingWrites
           /\ \A i \in DOMAIN Fetched(p, rows) :
                  \E k \in DOMAIN rows : Fetched(p, rows)[i] = rows[k]
<1> DEFINE last == IF p = <<>> THEN -1 ELSE p[Len(p)].id
           old  == {k \in DOMAIN rows : rows[k].id <= last}
           from == Cardinality(old)
           end  == from + kMaxPendingWrites - Len(p)
           stop == IF end < Len(rows) THEN end ELSE Len(rows)
<1>1. from \in Nat
  <2>1. IsFiniteSet(1..Len(rows)) /\ old \in SUBSET (1..Len(rows))
    BY FS_Interval
  <2> HIDE DEF old
  <2> QED
    BY <2>1, FS_Subset, FS_CardinalityType
<1>2. Fetched(p, rows) = SubSeq(rows, from + 1, stop)
  BY DEF Fetched
<1> HIDE DEF from
<1>3. kMaxPendingWrites \in Nat /\ Len(p) \in Nat
  BY WritePipelineAssumption
<1>4. stop \in Int /\ stop <= Len(rows) /\ stop - from <= kMaxPendingWrites - Len(p)
  BY <1>1, <1>3
<1> HIDE DEF stop
<1>5. \A i \in (from + 1)..stop : i \in DOMAIN rows /\ rows[i] \in Batch
  BY <1>1, <1>4
<1>6. /\ SubSeq(rows, from + 1, stop) \in Seq(Batch)
      /\ Len(SubSeq(rows, from + 1, stop)) =
             IF from + 1 <= stop THEN stop - (from + 1) + 1 ELSE 0
      /\ \A i \in 1..(stop - (from + 1) + 1) :
             SubSeq(rows, from + 1, stop)[i] = rows[from + 1 + i - 1]
  <2>1. from + 1 \in Int
    BY <1>1
  <2> QED
    BY <1>4, <1>5, <2>1, SubSeqProperties
<1> DEFINE f == SubSeq(rows, from + 1, stop)
<1>7. f \in Seq(Batch) /\ Len(p) + Len(f) <= kMaxPendingWrites
  BY <1>1, <1>3, <1>4, <1>6
<1>8. ASSUME NEW i \in DOMAIN f
      PROVE  \E k \in DOMAIN rows : f[i] = rows[k]
  <2>1. i \in 1..Len(f)
    BY <1>7
  <2>2. i \in Nat /\ i >= 1 /\ i <= stop - from
    BY <1>1, <1>4, <1>6, <2>1
  <2>3. f[i] = rows[from + i] /\ from + i \in DOMAIN rows
    BY <1>1, <1>4, <1>5, <1>6, <2>2
  <2> QED
    BY <2>3
<1> QED
  BY <1>2, <1>7, <1>8

(* The requests of a pipeline.                                             *)
LEMMA RequestsOf ==
    ASSUME NEW p \in Seq(Batch)
    PROVE  /\ WriteRequests(p) \in Seq(Request) /\ Len(WriteRequests(p)) = Len(p)
           /\ \A i \in 1..Len(p) : /\ WriteRequests(p)[i].kind = "write"
                                   /\ WriteRequests(p)[i].write = p[i].write
<1>1. \A i \in 1..Len(p) : [kind |-> "write", write |-> p[i].write] \in Request
  <2>1. \A i \in 1..Len(p) : p[i].write \in Write
    <3>1. \A i \in 1..Len(p) : p[i] \in Batch
      OBVIOUS
    <3> QED
      BY <3>1 DEF Batch
  <2>2. ASSUME NEW w \in Write
        PROVE  [kind |-> "write", write |-> w] \in Request
    <3>1. [kind |-> "write", write |-> w] \in [kind : {"write"}, write : Write]
      OBVIOUS
    <3> QED
      BY <3>1, Zenon DEF Request
  <2> QED
    BY <2>1, <2>2
<1>2. Len(p) \in Nat
  OBVIOUS
<1>3. WriteRequests(p) \in [1..Len(p) -> Request]
  BY <1>1 DEF WriteRequests
<1>4. WriteRequests(p) \in Seq(Request)
  BY <1>2, <1>3, IsASeq
<1>5. Len(WriteRequests(p)) = Len(p)
  BY <1>2, <1>3, <1>4
<1> QED
  BY <1>4, <1>5 DEF WriteRequests

LEMMA StoreFields ==
    ASSUME NEW c \in Store
    PROVE  /\ c.pipeline \in Seq(Batch)
           /\ c.state \in {"Initial", "Starting", "Open", "Backoff", "Error"}
           /\ c.handshake \in {"pending", "complete"} /\ c.closeCount \in Nat
           /\ c.asks \in SUBSET Nat /\ c.timers \in SUBSET Timer
           /\ c.session \in User /\ c.up \in Seq(Request) /\ c.down \in Seq(Answer)
  BY DEF Store

(* A sequence that is two sequences, one after the other.                  *)
Joins(s, t, r) ==
    /\ Len(r) = Len(s) + Len(t)
    /\ \A i \in 1..Len(s) : r[i] = s[i]
    /\ \A i \in 1..Len(t) : r[Len(s) + i] = t[i]
    /\ \A i \in 1..Len(r) :
           \/ i \in 1..Len(s) /\ r[i] = s[i]
           \/ \E j \in 1..Len(t) : i = Len(s) + j /\ r[i] = t[j]

LEMMA Joined ==
    ASSUME NEW S, NEW s \in Seq(S), NEW t \in Seq(S)
    PROVE  s \o t \in Seq(S) /\ Joins(s, t, s \o t)
<1> DEFINE r == s \o t
<1>1. Len(s) \in Nat /\ Len(t) \in Nat
  OBVIOUS
<1>2. /\ r \in Seq(S) /\ Len(r) = Len(s) + Len(t)
      /\ \A i \in 1..(Len(s) + Len(t)) :
             r[i] = IF i <= Len(s) THEN s[i] ELSE t[i - Len(s)]
  BY ConcatProperties
<1> HIDE DEF r
<1>3. \A i \in 1..Len(s) : r[i] = s[i]
  BY <1>1, <1>2
<1>4. ASSUME NEW i \in 1..Len(t)
      PROVE  r[Len(s) + i] = t[i]
  <2>1. Len(s) + i \in 1..(Len(s) + Len(t)) /\ ~(Len(s) + i <= Len(s))
    BY <1>1
  <2>2. (Len(s) + i) - Len(s) = i
    BY <1>1
  <2> QED
    BY <1>2, <2>1, <2>2
<1>5. ASSUME NEW i \in 1..Len(r), i \notin 1..Len(s)
      PROVE  \E j \in 1..Len(t) : i = Len(s) + j /\ r[i] = t[j]
  <2>1. i - Len(s) \in 1..Len(t) /\ i = Len(s) + (i - Len(s))
    BY <1>1, <1>2, <1>5
  <2> QED
    BY <1>4, <2>1
<1>6. r \in Seq(S) /\ Joins(s, t, r)
  BY <1>2, <1>3, <1>4, <1>5 DEF Joins
<1> QED
  BY <1>6 DEF r

(* What the pipeline is filled with is sent behind what has been sent.     *)
LEMMA FillsInStep ==
    ASSUME NEW p \in Seq(Batch), NEW d \in Seq(Answer), NEW q \in Seq(Request),
           NEW m \in Seq(Batch), NEW r \in Seq(Request), NEW f \in Seq(Batch),
           NEW l \in Seq(Request), InStep(p, d, q), Joins(p, m, f), Joins(q, r, l),
           Len(r) = Len(m),
           \A i \in 1..Len(m) : r[i].kind = "write" /\ r[i].write = m[i].write
    PROVE  InStep(f, d, l)
<1>1. /\ Len(p) \in Nat /\ Len(d) \in Nat /\ Len(q) \in Nat /\ Len(m) \in Nat
      /\ Len(p) = Len(d) + Len(q)
      /\ Len(f) = Len(p) + Len(m) /\ Len(l) = Len(q) + Len(m)
  BY DEF InStep, Joins
<1>2. Len(f) = Len(d) + Len(l)
  BY <1>1
<1>3. \A i \in 1..Len(d) : d[i].kind # "handshake" /\ d[i].write = f[i].write
  <2>1. \A i \in 1..Len(d) : i \in 1..Len(p)
    BY <1>1
  <2> QED
    BY <2>1 DEF InStep, Joins
<1>4. ASSUME NEW i \in 1..Len(l)
      PROVE  l[i].kind = "write" /\ l[i].write = f[Len(d) + i].write
  <2>1. CASE i \in 1..Len(q) /\ l[i] = q[i]
    <3>1. Len(d) + i \in 1..Len(p)
      BY <1>1, <2>1
    <3> QED
      BY <2>1, <3>1 DEF InStep, Joins
  <2>2. CASE \E j \in 1..Len(r) : i = Len(q) + j /\ l[i] = r[j]
    <3>1. PICK j \in 1..Len(r) : i = Len(q) + j /\ l[i] = r[j]
      BY <2>2
    <3>2. Len(d) + i = Len(p) + j
      BY <1>1, <3>1
    <3> QED
      BY <3>1, <3>2 DEF Joins
  <2> QED
    BY <2>1, <2>2 DEF Joins
<1> QED
  BY <1>2, <1>3, <1>4 DEF InStep

(* Filling the pipeline keeps it the user's, and the wires in step.        *)
LEMMA FillFits ==
    ASSUME NEW a, NEW u, NEW c, Fit(a, c, u),
           NEW rows \in Seq(Batch), OwnRows(a, rows, u)
    PROVE  /\ Fit(a, FillWritePipeline(c, rows), u)
           /\ c.state # "Open" => FillWritePipeline(c, rows).state # "Open"
           /\ FillWritePipeline(c, rows).handshake = c.handshake
<1> DEFINE more   == Fetched(c.pipeline, rows)
           filled == c.pipeline \o more
           reqs   == WriteRequests(more)
           sent   == CanWrite(c) /\ more # <<>>
           idle   == c.state = "Open" /\ filled = <<>>
           up     == IF sent THEN c.up \o reqs ELSE c.up
           timers == IF sent THEN c.timers \ {"idle"}
                     ELSE IF idle THEN c.timers \cup {"idle"} ELSE c.timers
           d      == [c EXCEPT !.pipeline = filled, !.up = up, !.timers = timers]
<1>1. c \in Store /\ Len(c.pipeline) <= kMaxPendingWrites /\ Own(a, c, u) /\ Wires(c)
  BY DEF Fit, Typed
<1>2. c.pipeline \in Seq(Batch) /\ c.up \in Seq(Request) /\ c.down \in Seq(Answer)
  BY <1>1, StoreFields
<1>3. /\ more \in Seq(Batch) /\ Len(c.pipeline) + Len(more) <= kMaxPendingWrites
      /\ \A i \in DOMAIN more : \E k \in DOMAIN rows : more[i] = rows[k]
  BY <1>1, <1>2, FetchedFits
<1>4. FillWritePipeline(c, rows) = StartIfNeeded(d)
  BY DEF FillWritePipeline
<1> HIDE DEF more
<1>5. /\ reqs \in Seq(Request) /\ Len(reqs) = Len(more)
      /\ \A i \in 1..Len(more) : reqs[i].kind = "write" /\ reqs[i].write = more[i].write
  BY <1>3, RequestsOf
<1>6. filled \in Seq(Batch) /\ Joins(c.pipeline, more, filled)
  BY <1>2, <1>3, Joined
<1> HIDE DEF reqs
<1> DEFINE all == c.up \o reqs
<1>7. all \in Seq(Request) /\ Joins(c.up, reqs, all)
  BY <1>2, <1>5, Joined
<1>8. up = IF sent THEN all ELSE c.up
  OBVIOUS
<1> HIDE DEF all, filled, idle
<1>9. timers \in SUBSET Timer
  BY <1>1, StoreFields DEF Timer
<1>10. up \in Seq(Request)
  BY <1>2, <1>7, <1>8
<1> HIDE DEF up, timers
<1>11. d \in Store
  BY <1>1, <1>6, <1>9, <1>10, Zenon DEF Store
<1>12. /\ d.pipeline = filled /\ d.up = up /\ d.down = c.down /\ d.state = c.state
       /\ d.handshake = c.handshake /\ d.session = c.session
  BY <1>1 DEF Store
<1> HIDE DEF d
<1>13. Typed(d)
  BY <1>3, <1>6, <1>11, <1>12 DEF Typed, Joins
<1>14. \A i \in DOMAIN more : By(a, more[i].write, u)
  BY <1>3 DEF OwnRows
<1>15. OwnRows(a, filled, u)
  <2>1. \A i \in DOMAIN c.pipeline : By(a, c.pipeline[i].write, u)
    BY <1>1 DEF Own, OwnRows
  <2>2. /\ DOMAIN filled = 1..Len(filled) /\ DOMAIN more = 1..Len(more)
        /\ DOMAIN c.pipeline = 1..Len(c.pipeline)
    BY <1>2, <1>3, <1>6
  <2>3. ASSUME NEW i \in 1..Len(filled)
        PROVE  By(a, filled[i].write, u)
    BY <1>6, <1>14, <2>1, <2>2, <2>3 DEF Joins
  <2> QED
    BY <2>2, <2>3 DEF OwnRows
<1>16. \A i \in DOMAIN up : up[i].kind = "write" => By(a, up[i].write, u)
  <2>1. \A i \in DOMAIN c.up : c.up[i].kind = "write" => By(a, c.up[i].write, u)
    BY <1>1 DEF Own
  <2>2. CASE ~sent
    BY <1>8, <2>1, <2>2
  <2>3. CASE sent
    <3>1. /\ DOMAIN all = 1..Len(all) /\ DOMAIN more = 1..Len(more)
          /\ DOMAIN c.up = 1..Len(c.up) /\ up = all
      BY <1>2, <1>3, <1>7, <1>8, <2>3
    <3>2. ASSUME NEW i \in 1..Len(all), all[i].kind = "write"
          PROVE  By(a, all[i].write, u)
      <4>1. CASE i \in 1..Len(c.up) /\ all[i] = c.up[i]
        BY <2>1, <3>1, <3>2, <4>1
      <4>2. CASE \E j \in 1..Len(reqs) : i = Len(c.up) + j /\ all[i] = reqs[j]
        BY <1>5, <1>14, <3>1, <4>2
      <4> QED
        BY <1>7, <4>1, <4>2 DEF Joins
    <3> QED
      BY <3>1, <3>2
  <2> QED
    BY <2>2, <2>3
<1>17. Own(a, d, u)
  BY <1>1, <1>12, <1>15, <1>16 DEF Own
<1>18. Wires(d)
  <2>1. CASE ~CanWrite(c)
    BY <1>1, <1>8, <1>12, <2>1 DEF Wires, CanWrite
  <2>2. CASE CanWrite(c)
    <3>1. Mirrors(c) /\ c.state = "Open" /\ c.handshake = "complete"
      BY <1>1, <2>2 DEF Wires, CanWrite
    <3>2. CASE more = <<>>
      <4>1. Len(more) = 0 /\ DOMAIN c.pipeline = 1..Len(c.pipeline)
        BY <1>2, <3>2
      <4>2. filled = c.pipeline
        BY <1>2, <1>6, <4>1 DEF Joins
      <4> QED
        BY <1>8, <1>12, <3>1, <3>2, <4>2 DEF Wires, Mirrors
    <3>3. CASE more # <<>>
      <4>1. up = all
        BY <1>8, <2>2, <3>3
      <4>2. InStep(filled, c.down, all)
        BY <1>2, <1>3, <1>5, <1>6, <1>7, <3>1, FillsInStep DEF Mirrors
      <4> QED
        BY <1>12, <3>1, <4>1, <4>2 DEF Wires, Mirrors
    <3> QED
      BY <3>2, <3>3
  <2> QED
    BY <2>1, <2>2
<1> QED
  BY <1>4, <1>12, <1>13, <1>17, <1>18, StartIfNeededFits DEF Fit
-----------------------------------------------------------------------------
(* A stream that is not open has not been greeted.                         *)
Quiet(c) == c.state # "Open" => c.handshake = "pending"

(* A stream that is not open, with nothing on the wires.                   *)
Halted(c) == c \in Store /\ c.state # "Open" /\ c.up = <<>> /\ c.down = <<>>

LEMMA HaltedFits ==
    ASSUME NEW a, NEW u, NEW c, Halted(c), Len(c.pipeline) <= kMaxPendingWrites,
           OwnRows(a, c.pipeline, u)
    PROVE  Fit(a, c, u)
<1>1. c.state # "Open" /\ c.up = <<>> /\ c.down = <<>> /\ c \in Store
  BY DEF Halted
<1> QED
  BY <1>1 DEF Fit, Typed, Own, Wires

LEMMA ClosedHalts ==
    ASSUME NEW c \in Store, NEW s \in {"Initial", "Error"}
    PROVE  /\ Halted(Closed(c, s)) /\ Closed(c, s).pipeline = c.pipeline
           /\ Closed(c, s).state = s
<1> DEFINE d == HardAssert(c, IsStarted(c), "closing a stream that is not started")
           e == [d EXCEPT !.timers = {}, !.closeCount = @ + 1, !.up = <<>>,
                    !.down = <<>>, !.state = s]
<1>1. d \in Store /\ Same(c, d)
  <2>1. d = c \/ d = Noted(c, "closing a stream that is not started")
    BY DEF HardAssert, Noted
  <2>2. "closing a stream that is not started" \in Assertion
    BY DEF Assertion
  <2> HIDE DEF d
  <2> QED
    BY <2>1, <2>2, NotedKeeps
<1>2. Closed(c, s) = e
  BY DEF Closed
<1> HIDE DEF d
<1>3. e \in Store
  <2>1. d.closeCount + 1 \in Nat /\ {} \in SUBSET Timer
    BY <1>1, StoreFields
  <2>2. <<>> \in Seq(Request) /\ <<>> \in Seq(Answer)
    OBVIOUS
  <2> QED
    BY <1>1, <2>1, <2>2 DEF Store
<1>4. /\ e.state = s /\ e.up = <<>> /\ e.down = <<>> /\ e.pipeline = d.pipeline
  BY <1>1 DEF Store
<1> HIDE DEF e
<1> QED
  BY <1>1, <1>2, <1>3, <1>4 DEF Halted, Same

LEMMA BrokenFits ==
    ASSUME NEW a, NEW u, NEW c, Typed(c), OwnRows(a, c.pipeline, u)
    PROVE  Fit(a, Broken(c), u) /\ Quiet(Broken(c)) /\ Broken(c).state # "Open"
<1> DEFINE d == Closed(c, "Error")
           e == [d EXCEPT !.handshake = "pending"]
<1>1. Halted(d) /\ d.pipeline = c.pipeline
  BY ClosedHalts DEF Typed
<1>2. Broken(c) = StartIfNeeded(e)
  BY DEF Broken
<1> HIDE DEF d
<1>3. /\ Halted(e) /\ e.pipeline = c.pipeline /\ e.handshake = "pending"
  <2>1. e \in Store
    BY <1>1 DEF Halted, Store
  <2>2. /\ e.state = d.state /\ e.up = d.up /\ e.down = d.down
        /\ e.pipeline = d.pipeline /\ e.handshake = "pending"
    BY <1>1 DEF Halted, Store
  <2> HIDE DEF e
  <2> QED
    BY <1>1, <2>1, <2>2 DEF Halted
<1> HIDE DEF e
<1>4. Fit(a, e, u)
  BY <1>3, HaltedFits DEF Typed
<1> QED
  BY <1>2, <1>3, <1>4, StartIfNeededFits DEF Quiet, Halted

LEMMA EndedHalts ==
    ASSUME NEW c \in Store, NEW b, NEW t \in Assertion
    PROVE  /\ Halted(Ended(c, b, t)) /\ Ended(c, b, t).pipeline = c.pipeline
           /\ Ended(c, b, t).handshake = "pending" /\ Ended(c, b, t).state = "Initial"
<1> DEFINE d == Closed(c, "Initial")
           e == HardAssert(d, ~b \/ c.pipeline = <<>>, t)
           f == [e EXCEPT !.handshake = "pending"]
<1>1. Halted(d) /\ d.pipeline = c.pipeline /\ d.state = "Initial"
  BY ClosedHalts
<1>2. Ended(c, b, t) = f
  BY DEF Ended
<1>3. e = d \/ e = Noted(d, t)
  BY HardAssertIs
<1> HIDE DEF d, e
<1>4. e \in Store /\ Same(d, e)
  BY <1>1, <1>3, NotedKeeps DEF Halted
<1>5. f \in Store
  BY <1>4 DEF Store
<1>6. /\ f.state = e.state /\ f.up = e.up /\ f.down = e.down
      /\ f.pipeline = e.pipeline /\ f.handshake = "pending"
  BY <1>4 DEF Store
<1> HIDE DEF f
<1> QED
  BY <1>1, <1>2, <1>4, <1>5, <1>6 DEF Halted, Same

LEMMA StopHalts ==
    ASSUME NEW c \in Store, Wires(c), Quiet(c), NEW b
    PROVE  /\ Halted(Stop(c, b)) /\ Stop(c, b).pipeline = c.pipeline
           /\ Stop(c, b).handshake = "pending" /\ ~IsStarted(Stop(c, b))
<1>1. CASE ~IsStarted(c)
  BY <1>1 DEF Stop, IsStarted, Halted, Wires, Quiet
<1>2. CASE IsStarted(c)
  <2> DEFINE d == Ended(c, b, "stopped while still needed")
  <2>1. "stopped while still needed" \in Assertion
    BY DEF Assertion
  <2>2. /\ Halted(d) /\ d.pipeline = c.pipeline /\ d.handshake = "pending"
        /\ d.state = "Initial"
    BY <2>1, EndedHalts
  <2>3. Stop(c, b) = d
    BY <1>2 DEF Stop
  <2> HIDE DEF d
  <2> QED
    BY <2>2, <2>3 DEF IsStarted
<1> QED
  BY <1>1, <1>2

LEMMA InhibitHalts ==
    ASSUME NEW c, Halted(c)
    PROVE  /\ Halted(InhibitBackoff(c)) /\ InhibitBackoff(c).pipeline = c.pipeline
           /\ InhibitBackoff(c).handshake = c.handshake
<1> DEFINE d == HardAssert(c, ~IsStarted(c), "backoff of a started stream")
           e == [d EXCEPT !.state = "Initial"]
<1>1. d = c \/ d = Noted(c, "backoff of a started stream")
  BY HardAssertIs
<1>2. "backoff of a started stream" \in Assertion
  BY DEF Assertion
<1>3. InhibitBackoff(c) = e
  BY DEF InhibitBackoff
<1> HIDE DEF d
<1>4. d \in Store /\ Same(c, d)
  BY <1>1, <1>2, NotedKeeps DEF Halted
<1>5. e \in Store
  BY <1>4 DEF Store
<1>6. /\ e.state = "Initial" /\ e.up = d.up /\ e.down = d.down
      /\ e.pipeline = d.pipeline /\ e.handshake = d.handshake
  BY <1>4 DEF Store
<1> HIDE DEF e
<1> QED
  BY <1>3, <1>4, <1>5, <1>6 DEF Halted, Same

(* Another pipeline for a stream that is not open.                         *)
LEMMA HaltedWith ==
    ASSUME NEW c, Halted(c), NEW p \in Seq(Batch)
    PROVE  LET d == [c EXCEPT !.pipeline = p]
           IN Halted(d) /\ d.pipeline = p /\ d.handshake = c.handshake
<1> DEFINE d == [c EXCEPT !.pipeline = p]
<1>1. d \in Store
  BY DEF Halted, Store
<1>2. /\ d.state = c.state /\ d.up = c.up /\ d.down = c.down
      /\ d.pipeline = p /\ d.handshake = c.handshake
  BY DEF Halted, Store
<1> HIDE DEF d
<1>3. Halted(d) /\ d.pipeline = p /\ d.handshake = c.handshake
  BY <1>1, <1>2 DEF Halted
<1> QED
  BY <1>3 DEF d

LEMMA RestartFits ==
    ASSUME NEW a, NEW u, NEW c \in Store, Wires(c), Quiet(c),
           NEW rows \in Seq(Batch), OwnRows(a, rows, u)
    PROVE  /\ Fit(a, RestartNetwork(c, rows), u) /\ Quiet(RestartNetwork(c, rows))
           /\ RestartNetwork(c, rows).state # "Open"
<1> DEFINE d == Stop(c, FALSE)
           e == [d EXCEPT !.pipeline = <<>>]
           f == InhibitBackoff(e)
<1>1. Halted(d) /\ d.handshake = "pending"
  BY StopHalts
<1>2. RestartNetwork(c, rows) = FillWritePipeline(f, rows)
  BY DEF RestartNetwork
<1> HIDE DEF d
<1>3. Halted(e) /\ e.pipeline = <<>> /\ e.handshake = "pending"
  <2>1. <<>> \in Seq(Batch)
    OBVIOUS
  <2> QED
    BY <1>1, <2>1, HaltedWith
<1> HIDE DEF e
<1>4. Halted(f) /\ f.pipeline = <<>> /\ f.handshake = "pending"
  BY <1>3, InhibitHalts
<1> HIDE DEF f
<1>5. Fit(a, f, u)
  <2>1. Len(f.pipeline) <= kMaxPendingWrites /\ OwnRows(a, f.pipeline, u)
    BY <1>4, WritePipelineAssumption DEF OwnRows
  <2> QED
    BY <1>4, <2>1, HaltedFits
<1> QED
  BY <1>2, <1>4, <1>5, FillFits DEF Quiet, Halted

LEMMA RefusedFits ==
    ASSUME NEW a, NEW u, NEW c, Typed(c), c.pipeline # <<>>,
           OwnRows(a, Tail(c.pipeline), u),
           NEW rows \in Seq(Batch), OwnRows(a, rows, u)
    PROVE  /\ Fit(a, Refused(c, rows), u) /\ Quiet(Refused(c, rows))
           /\ Refused(c, rows).state # "Open"
<1> DEFINE s == Closed(c, "Error")
           t == [s EXCEPT !.pipeline = Tail(@)]
           i == InhibitBackoff(t)
           f == FillWritePipeline(i, rows)
           g == [f EXCEPT !.handshake = "pending"]
<1>1. Halted(s) /\ s.pipeline = c.pipeline
  BY ClosedHalts DEF Typed
<1>2. Refused(c, rows) = StartIfNeeded(g)
  BY DEF Refused
<1> HIDE DEF s
<1>3. Tail(c.pipeline) \in Seq(Batch) /\ Len(Tail(c.pipeline)) <= kMaxPendingWrites
  <2>1. c.pipeline \in Seq(Batch) /\ Len(c.pipeline) <= kMaxPendingWrites
    BY StoreFields DEF Typed
  <2> QED
    BY <2>1, WritePipelineAssumption
<1>4. Halted(t) /\ t.pipeline = Tail(c.pipeline)
  BY ZenonT(40), <1>1, <1>3, HaltedWith
<1> HIDE DEF t
<1>5. Halted(i) /\ i.pipeline = Tail(c.pipeline)
  BY <1>4, InhibitHalts
<1> HIDE DEF i
<1>6. Fit(a, i, u)
  BY <1>3, <1>5, HaltedFits
<1>7. Fit(a, f, u) /\ f.state # "Open"
  BY <1>5, <1>6, FillFits DEF Halted
<1> HIDE DEF f
<1>8. Fit(a, g, u) /\ g.state # "Open" /\ g.handshake = "pending"
  <2>1. f \in Store /\ f.up = <<>> /\ f.down = <<>>
    BY <1>7 DEF Fit, Typed, Wires
  <2>2. g \in Store
    BY <2>1 DEF Store
  <2>3. /\ g.state = f.state /\ g.up = f.up /\ g.down = f.down
        /\ g.pipeline = f.pipeline /\ g.handshake = "pending"
    BY <2>1 DEF Store
  <2> HIDE DEF g
  <2>4. Halted(g) /\ Len(g.pipeline) <= kMaxPendingWrites /\ OwnRows(a, g.pipeline, u)
    BY <1>7, <2>1, <2>2, <2>3 DEF Halted, Fit, Typed, Own
  <2> QED
    BY <1>7, <2>3, <2>4, HaltedFits
<1> HIDE DEF g
<1> QED
  BY <1>2, <1>8, StartIfNeededFits DEF Quiet
-----------------------------------------------------------------------------
(* The table and the numbers of its batches.                               *)
LEMMA MaxExists ==
    ASSUME NEW S \in SUBSET Nat, S # {}, NEW n \in Nat, \A j \in S : j < n
    PROVE  \E i \in S : \A j \in S : j <= i
<1> DEFINE UB == {b \in Nat : \A j \in S : j <= b}
<1>1. UB \subseteq Nat /\ n \in UB
  OBVIOUS
<1> HIDE DEF UB
<1>2. \E x \in UB : \A y \in UB : ~ (<<y, x>> \in OpToRel(<, Nat))
  BY <1>1, NatLessThanWellFounded, WFMin
<1>3. PICK x \in UB : \A y \in UB : ~ (<<y, x>> \in OpToRel(<, Nat))
  BY <1>2
<1>4. \A y \in UB : ~ (y < x)
  BY <1>1, <1>3 DEF OpToRel
<1>5. x \in Nat /\ \A j \in S : j <= x
  BY <1>1 DEF UB
<1>6. x \in S
  <2>1. SUFFICES ASSUME x \notin S PROVE FALSE
    OBVIOUS
  <2>2. PICK j \in S : TRUE
    OBVIOUS
  <2>3. j \in Nat /\ j <= x /\ j # x
    BY <1>5, <2>1, <2>2
  <2>4. x - 1 \in Nat
    BY <1>5, <2>3
  <2>5. \A i \in S : i <= x - 1
    BY <1>5, <2>1
  <2>6. x - 1 \in UB
    BY <2>4, <2>5 DEF UB
  <2> QED
    BY <1>4, <1>5, <2>6
<1> QED
  BY <1>5, <1>6

Below(rows, n) == \A k \in DOMAIN rows : rows[k].id < n

LEMMA NextIdAbove ==
    ASSUME NEW t \in [User -> Seq(Batch)], NEW n \in Nat,
           \A u \in User : Below(t[u], n)
    PROVE  NextIdOf(t) \in Nat /\ \A u \in User : Below(t[u], NextIdOf(t))
<1> DEFINE ids == UNION {{t[u][k].id : k \in DOMAIN t[u]} : u \in User}
<1>1. \A u \in User : \A k \in DOMAIN t[u] : t[u][k] \in Batch
  OBVIOUS
<1>2. \A u \in User : \A k \in DOMAIN t[u] : t[u][k].id \in Nat
  BY <1>1 DEF Batch
<1>3. ids \in SUBSET Nat /\ \A j \in ids : j < n
  BY <1>2 DEF Below
<1>4. \A u \in User : \A k \in DOMAIN t[u] : t[u][k].id \in ids
  OBVIOUS
<1>5. NextIdOf(t) = IF ids = {} THEN 1
                    ELSE 1 + CHOOSE i \in ids : \A j \in ids : j <= i
  BY DEF NextIdOf
<1> HIDE DEF ids
<1>6. CASE ids = {}
  BY <1>4, <1>5, <1>6 DEF Below
<1>7. CASE ids # {}
  <2> DEFINE m == CHOOSE i \in ids : \A j \in ids : j <= i
  <2>1. m \in ids /\ \A j \in ids : j <= m
    BY <1>3, <1>7, MaxExists
  <2>2. NextIdOf(t) = 1 + m
    BY <1>5, <1>7
  <2> HIDE DEF m
  <2>3. m \in Nat /\ 1 + m \in Nat
    BY <1>3, <2>1
  <2>4. ASSUME NEW i \in ids
        PROVE  i < 1 + m
    BY <1>3, <2>1, <2>3
  <2> QED
    BY <1>4, <2>2, <2>3, <2>4 DEF Below
<1> QED
  BY <1>6, <1>7

LEMMA PutFits ==
    ASSUME NEW a, NEW u, NEW rows \in Seq(Batch), NEW b \in Batch, NEW n \in Nat,
           OwnRows(a, rows, u), By(a, b.write, u), Below(rows, n), b.id < n
    PROVE  Put(rows, b) \in Seq(Batch) /\ OwnRows(a, Put(rows, b), u)
           /\ Below(Put(rows, b), n)
<1>1. CASE Has(rows, b.id)
  <2> DEFINE r == [k \in DOMAIN rows |-> IF rows[k].id = b.id THEN b ELSE rows[k]]
  <2>1. Put(rows, b) = r
    BY <1>1 DEF Put
  <2>2. r \in Seq(Batch)
    <3>1. DOMAIN rows = 1..Len(rows) /\ Len(rows) \in Nat
          /\ \A k \in DOMAIN rows : rows[k] \in Batch
      OBVIOUS
    <3>2. r \in [1..Len(rows) -> Batch]
      BY <3>1
    <3> QED
      BY <3>1, <3>2, IsASeq
  <2> QED
    BY <2>1, <2>2 DEF OwnRows, Below
<1>2. CASE ~Has(rows, b.id)
  <2> DEFINE r == Append(rows, b)
  <2>1. Put(rows, b) = r
    BY <1>2 DEF Put
  <2>2. /\ r \in Seq(Batch) /\ DOMAIN r = 1..Len(rows) + 1
        /\ \A k \in 1..Len(rows) : r[k] = rows[k]
        /\ r[Len(rows) + 1] = b
        /\ DOMAIN rows = 1..Len(rows) /\ Len(rows) \in Nat
    BY AppendProperties
  <2> HIDE DEF r
  <2>3. \A k \in DOMAIN r : (k \in DOMAIN rows /\ r[k] = rows[k]) \/ r[k] = b
    BY <2>2
  <2> QED
    BY <2>1, <2>2, <2>3 DEF OwnRows, Below
<1> QED
  BY <1>1, <1>2

LEMMA WithoutFits ==
    ASSUME NEW rows \in Seq(Batch), NEW id
    PROVE  /\ Without(rows, id) \in Seq(Batch)
           /\ \A i \in DOMAIN Without(rows, id) :
                  \E k \in DOMAIN rows : Without(rows, id)[i] = rows[k]
<1>1. CASE ~Has(rows, id)
  BY <1>1 DEF Without
<1>2. CASE Has(rows, id)
  <2> DEFINE k == CHOOSE i \in DOMAIN rows : rows[i].id = id
             s == SubSeq(rows, 1, k - 1)
             t == SubSeq(rows, k + 1, Len(rows))
  <2>1. k \in 1..Len(rows) /\ Len(rows) \in Nat
    BY <1>2 DEF Has
  <2>2. Without(rows, id) = s \o t
    BY <1>2 DEF Without
  <2> HIDE DEF k
  <2>3. \A i \in 1..Len(rows) : rows[i] \in Batch
    OBVIOUS
  <2>4. /\ s \in Seq(Batch) /\ Len(s) = IF 1 <= k - 1 THEN k - 1 - 1 + 1 ELSE 0
        /\ \A i \in 1..(k - 1 - 1 + 1) : s[i] = rows[1 + i - 1]
    <3>1. 1 \in Int /\ k - 1 \in Int /\ \A i \in 1..(k - 1) : rows[i] \in Batch
      BY <2>1, <2>3
    <3> QED
      BY <3>1, SubSeqProperties
  <2>5. /\ t \in Seq(Batch)
        /\ Len(t) = IF k + 1 <= Len(rows) THEN Len(rows) - (k + 1) + 1 ELSE 0
        /\ \A i \in 1..(Len(rows) - (k + 1) + 1) : t[i] = rows[k + 1 + i - 1]
    <3>1. k + 1 \in Int /\ Len(rows) \in Int
          /\ \A i \in (k + 1)..Len(rows) : rows[i] \in Batch
      BY <2>1, <2>3
    <3> QED
      BY <3>1, SubSeqProperties
  <2> HIDE DEF s, t
  <2>6. s \o t \in Seq(Batch) /\ Joins(s, t, s \o t)
    BY <2>4, <2>5, Joined
  <2>7. \A i \in 1..Len(s) : i \in 1..Len(rows) /\ s[i] = rows[i]
    BY <2>1, <2>4
  <2>8. \A i \in 1..Len(t) : k + i \in 1..Len(rows) /\ t[i] = rows[k + i]
    BY <2>1, <2>5
  <2> DEFINE r == s \o t
  <2>9. r \in Seq(Batch) /\ DOMAIN r = 1..Len(r) /\ DOMAIN rows = 1..Len(rows)
    BY <2>6
  <2>10. \A i \in 1..Len(r) : \/ i \in 1..Len(s) /\ r[i] = s[i]
                              \/ \E j \in 1..Len(t) : r[i] = t[j]
    BY <2>6 DEF Joins
  <2> HIDE DEF r
  <2>11. \A i \in DOMAIN r : \E j \in DOMAIN rows : r[i] = rows[j]
    BY <2>7, <2>8, <2>9, <2>10
  <2> QED
    BY <2>2, <2>9, <2>11 DEF r
<1> QED
  BY <1>1, <1>2
-----------------------------------------------------------------------------
(* The timers of the stream, and when a stream has work.                   *)
Timely(c) ==
    /\ "backoff" \in c.timers => c.state = "Backoff"
    /\ "idle" \in c.timers => c.state = "Open" /\ c.pipeline = <<>>
    /\ IsStarted(c) /\ ~CanWrite(c) => c.pipeline # <<>>

(* The one assertion that the service can make fail, by ending a stream.   *)
Excused == {"ended while still needed"}

Sound(c) == c.failed \subseteq Excused /\ Timely(c)

(* What a call does to the close count and to the GetToken calls: none is  *)
(* made for a count for which one may be on its way.                       *)
Moves(c, d) ==
    /\ d.closeCount >= c.closeCount
    /\ \A n \in d.asks \ c.asks :
           /\ n <= d.closeCount /\ (n = d.closeCount => d.state = "Starting")
           /\ n > c.closeCount \/ (n = c.closeCount /\ c.state # "Starting")
    /\ c.state = "Starting" /\ d.closeCount = c.closeCount => d.state = "Starting"

LEMMA MovesOn ==
    ASSUME NEW c \in Store, NEW d \in Store, NEW e \in Store,
           Moves(c, d), Moves(d, e)
    PROVE  Moves(c, e)
<1>1. c.closeCount \in Nat /\ d.closeCount \in Nat /\ e.closeCount \in Nat
  BY StoreFields
<1>2. e.closeCount >= c.closeCount
  BY <1>1 DEF Moves
<1>3. c.state = "Starting" /\ e.closeCount = c.closeCount => e.state = "Starting"
  BY <1>1 DEF Moves
<1>4. ASSUME NEW n \in e.asks, n \notin c.asks
      PROVE  /\ n <= e.closeCount /\ (n = e.closeCount => e.state = "Starting")
             /\ n > c.closeCount \/ (n = c.closeCount /\ c.state # "Starting")
  <2>1. n \in Nat
    BY StoreFields
  <2>2. CASE n \in d.asks
    BY <1>1, <1>4, <2>1, <2>2 DEF Moves
  <2>3. CASE n \notin d.asks
    BY <1>1, <1>4, <2>1, <2>3 DEF Moves
  <2> QED
    BY <2>2, <2>3
<1> QED
  BY <1>2, <1>3, <1>4 DEF Moves

(* A change of other fields than these.                                    *)
LEMMA Unmoved ==
    ASSUME NEW c \in Store, NEW d, d.closeCount = c.closeCount, d.asks = c.asks,
           d.state = c.state
    PROVE  Moves(c, d)
  BY StoreFields DEF Moves

LEMMA StartSound ==
    ASSUME NEW c \in Store, Sound(c), ~IsStarted(c), c.pipeline # <<>>
    PROVE  Start(c) \in Store /\ Sound(Start(c)) /\ Moves(c, Start(c))
<1>1. c.failed \subseteq Excused /\ c.timers = {} /\ c.closeCount \in Nat
  <2>1. c.timers \in SUBSET {"idle", "backoff"}
    BY StoreFields DEF Timer
  <2> QED
    BY <2>1, StoreFields DEF Sound, Timely, IsStarted
<1>2. CASE c.state = "Error"
  <2> DEFINE e == [c EXCEPT !.state = "Backoff", !.timers = @ \cup {"backoff"}]
  <2>1. Start(c) = e
    BY <1>2 DEF Start
  <2>2. /\ e.state = "Backoff" /\ e.pipeline = c.pipeline /\ e.failed \subseteq Excused
        /\ e.timers = {"backoff"} /\ e.asks = c.asks /\ e.closeCount = c.closeCount
    BY <1>1 DEF Store
  <2>3. e \in Store
    BY DEF Store, Timer
  <2> HIDE DEF e
  <2> QED
    BY <1>1, <1>2, <2>1, <2>2, <2>3 DEF Sound, Timely, Moves
<1>3. CASE c.state = "Initial"
  <2> DEFINE e == [c EXCEPT !.state = "Starting", !.asks = @ \cup {c.closeCount}]
  <2>1. Start(c) = e
    BY <1>3 DEF Start, HardAssert
  <2>2. /\ e.state = "Starting" /\ e.pipeline = c.pipeline /\ e.failed \subseteq Excused
        /\ e.timers = {} /\ e.asks = c.asks \cup {c.closeCount}
        /\ e.closeCount = c.closeCount
    BY <1>1 DEF Store
  <2>3. e \in Store
    BY <1>1 DEF Store
  <2> HIDE DEF e
  <2> QED
    BY <1>1, <1>3, <2>1, <2>2, <2>3 DEF Sound, Timely, Moves
<1> QED
  BY <1>2, <1>3, StoreFields DEF IsStarted

LEMMA StartIfNeededSound ==
    ASSUME NEW c \in Store, Sound(c)
    PROVE  /\ StartIfNeeded(c) \in Store /\ Sound(StartIfNeeded(c))
           /\ Moves(c, StartIfNeeded(c))
<1>1. CASE c.pipeline # <<>> /\ ~IsStarted(c)
  BY <1>1, StartSound DEF StartIfNeeded
<1>2. CASE ~(c.pipeline # <<>> /\ ~IsStarted(c))
  BY <1>2, Unmoved DEF StartIfNeeded
<1> QED
  BY <1>1, <1>2

LEMMA StartIfNeededPipeline ==
    ASSUME NEW c \in Store
    PROVE  StartIfNeeded(c).pipeline = c.pipeline
<1>1. CASE StartIfNeeded(c) = c
  BY <1>1
<1>2. CASE StartIfNeeded(c) = Start(c)
  <2>1. CASE c.state = "Error"
    <3>1. Start(c) = [c EXCEPT !.state = "Backoff", !.timers = @ \cup {"backoff"}]
      BY <2>1 DEF Start
    <3> QED
      BY <1>2, <3>1 DEF Store
  <2>2. CASE c.state # "Error"
    <3> DEFINE d == HardAssert(c, c.state = "Initial", "already started")
    <3>1. Start(c) = [d EXCEPT !.state = "Starting", !.asks = @ \cup {c.closeCount}]
      BY <2>2 DEF Start
    <3>2. d = c \/ d = Noted(c, "already started")
      BY DEF HardAssert, Noted
    <3>3. "already started" \in Assertion
      BY DEF Assertion
    <3> HIDE DEF d
    <3>4. d \in Store /\ d.pipeline = c.pipeline
      BY <3>2, <3>3, NotedKeeps DEF Same
    <3> QED
      BY <1>2, <3>1, <3>4 DEF Store
  <2> QED
    BY <2>1, <2>2
<1> QED
  BY <1>1, <1>2 DEF StartIfNeeded

LEMMA FillSound ==
    ASSUME NEW c \in Store, Len(c.pipeline) <= kMaxPendingWrites, Sound(c),
           NEW rows \in Seq(Batch)
    PROVE  LET e == FillWritePipeline(c, rows)
           IN /\ e \in Store /\ Sound(e) /\ Moves(c, e)
              /\ e.pipeline = c.pipeline \o Fetched(c.pipeline, rows)
<1> DEFINE more   == Fetched(c.pipeline, rows)
           filled == c.pipeline \o more
           reqs   == WriteRequests(more)
           sent   == CanWrite(c) /\ more # <<>>
           idle   == c.state = "Open" /\ filled = <<>>
           up     == IF sent THEN c.up \o reqs ELSE c.up
           timers == IF sent THEN c.timers \ {"idle"}
                     ELSE IF idle THEN c.timers \cup {"idle"} ELSE c.timers
           d      == [c EXCEPT !.pipeline = filled, !.up = up, !.timers = timers]
<1>1. FillWritePipeline(c, rows) = StartIfNeeded(d)
  BY DEF FillWritePipeline
<1>2. /\ c.pipeline \in Seq(Batch) /\ c.up \in Seq(Request) /\ c.timers \in SUBSET Timer
  BY StoreFields
<1>3. more \in Seq(Batch)
  BY <1>2, FetchedFits
<1> HIDE DEF more
<1>4. /\ filled \in Seq(Batch)
      /\ filled = <<>> <=> c.pipeline = <<>> /\ more = <<>>
  BY <1>2, <1>3, ConcatProperties, ConcatEqualIffEmpty
<1>5. up \in Seq(Request)
  <2>1. reqs \in Seq(Request)
    BY <1>3, RequestsOf
  <2> HIDE DEF reqs
  <2>2. c.up \o reqs \in Seq(Request)
    BY <1>2, <2>1, ConcatProperties
  <2> QED
    BY <1>2, <2>2
<1>6. timers \in SUBSET Timer
  BY <1>2 DEF Timer
<1> HIDE DEF filled, up
<1>7. Sound(c) /\ c.failed \subseteq Excused /\ Timely(c)
  BY DEF Sound
<1>8. "backoff" \in timers => c.state = "Backoff"
  BY <1>7 DEF Timely
<1>9. "idle" \in timers => c.state = "Open" /\ filled = <<>>
  <2>1. CASE sent
    BY <2>1
  <2>2. CASE ~sent /\ idle
    BY <2>2
  <2>3. CASE ~sent /\ ~idle
    <3>1. timers = c.timers
      BY <2>3
    <3>2. ASSUME "idle" \in timers PROVE filled = <<>> /\ c.state = "Open"
      <4>1. c.state = "Open" /\ c.pipeline = <<>>
        BY <1>7, <3>1, <3>2 DEF Timely
      <4>2. CanWrite(c)
        BY <1>7, <4>1 DEF Timely, IsStarted
      <4> QED
        BY <1>4, <2>3, <4>1, <4>2
    <3> QED
      BY <3>2
  <2> QED
    BY <2>1, <2>2, <2>3
<1> HIDE DEF timers
<1>10. d \in Store
  BY <1>4, <1>5, <1>6, Zenon DEF Store
<1>11. /\ d.pipeline = filled /\ d.timers = timers /\ d.state = c.state
       /\ d.handshake = c.handshake /\ d.failed = c.failed
       /\ d.closeCount = c.closeCount /\ d.asks = c.asks
  BY DEF Store
<1> HIDE DEF d
<1>12. Sound(d)
  <2>1. IsStarted(d) /\ ~CanWrite(d) => d.pipeline # <<>>
    BY <1>4, <1>7, <1>11 DEF Timely, IsStarted, CanWrite
  <2> QED
    BY <1>7, <1>8, <1>9, <1>11, <2>1 DEF Sound, Timely
<1>13. Moves(c, d)
  BY <1>11, Unmoved
<1> DEFINE e == StartIfNeeded(d)
<1>14. e \in Store /\ Sound(e) /\ Moves(d, e) /\ e.pipeline = d.pipeline
  BY <1>10, <1>12, StartIfNeededSound, StartIfNeededPipeline
<1> HIDE DEF e
<1>15. Moves(c, e)
  BY <1>10, <1>13, <1>14, MovesOn
<1> QED
  BY <1>1, <1>11, <1>14, <1>15 DEF e, filled, more

LEMMA ClosedSound ==
    ASSUME NEW c \in Store, IsStarted(c), c.failed \subseteq Excused, NEW s \in {"Initial", "Error"}
    PROVE  LET d == Closed(c, s)
           IN /\ d \in Store /\ Sound(d) /\ Moves(c, d) /\ d.closeCount = c.closeCount + 1
              /\ d.state = s /\ d.pipeline = c.pipeline
<1> DEFINE d == [c EXCEPT !.timers = {}, !.closeCount = @ + 1, !.up = <<>>,
                    !.down = <<>>, !.state = s]
<1>1. Closed(c, s) = d
  BY DEF Closed, HardAssert
<1>2. Closed(c, s) \in Store
  BY ClosedHalts DEF Halted
<1>3. /\ d.timers = {} /\ d.closeCount = c.closeCount + 1 /\ d.state = s
      /\ d.failed \subseteq Excused /\ d.asks = c.asks /\ d.pipeline = c.pipeline
  BY DEF Store
<1>4. c.closeCount \in Nat
  BY StoreFields
<1> HIDE DEF d
<1>5. Sound(d)
  BY <1>3 DEF Sound, Timely, IsStarted
<1>6. Moves(c, d)
  BY <1>3, <1>4 DEF Moves
<1> QED
  BY <1>1, <1>2, <1>3, <1>5, <1>6

LEMMA HandshakeReset ==
    ASSUME NEW c \in Store, Sound(c), ~CanWrite(c) \/ c.pipeline # <<>>
    PROVE  LET d == [c EXCEPT !.handshake = "pending"]
           IN /\ d \in Store /\ Sound(d) /\ Moves(c, d)
              /\ d.pipeline = c.pipeline /\ d.state = c.state
<1> DEFINE d == [c EXCEPT !.handshake = "pending"]
<1>1. d \in Store
  BY DEF Store
<1>2. /\ d.pipeline = c.pipeline /\ d.timers = c.timers /\ d.state = c.state
      /\ d.failed = c.failed /\ d.closeCount = c.closeCount /\ d.asks = c.asks
  BY DEF Store
<1> HIDE DEF d
<1>3. Sound(d)
  BY <1>2 DEF Sound, Timely, IsStarted, CanWrite
<1>4. Moves(c, d)
  BY <1>2, Unmoved
<1> QED
  BY <1>1, <1>2, <1>3, <1>4 DEF d

LEMMA BrokenSound ==
    ASSUME NEW c \in Store, IsStarted(c), c.failed \subseteq Excused
    PROVE  LET e == Broken(c)
           IN e \in Store /\ Sound(e) /\ Moves(c, e) /\ e.pipeline = c.pipeline
<1> DEFINE d == Closed(c, "Error")
           f == [d EXCEPT !.handshake = "pending"]
           e == StartIfNeeded(f)
<1>1. Broken(c) = e
  BY DEF Broken
<1>2. /\ d \in Store /\ Sound(d) /\ Moves(c, d) /\ d.state = "Error"
      /\ d.pipeline = c.pipeline
  BY ClosedSound
<1> HIDE DEF d
<1>3. f \in Store /\ Sound(f) /\ Moves(d, f) /\ f.pipeline = d.pipeline
  BY <1>2, HandshakeReset DEF CanWrite
<1> HIDE DEF f
<1>4. e \in Store /\ Sound(e) /\ Moves(f, e) /\ e.pipeline = f.pipeline
  BY <1>3, StartIfNeededSound, StartIfNeededPipeline
<1> HIDE DEF e
<1>5. Moves(c, e)
  BY <1>2, <1>3, <1>4, MovesOn
<1> QED
  BY <1>1, <1>2, <1>3, <1>4, <1>5 DEF e

(* A stream that ends without an error while no write waits, or when the   *)
(* assertion may fail.                                                     *)
LEMMA EndedSound ==
    ASSUME NEW c \in Store, IsStarted(c), Sound(c), NEW b \in BOOLEAN,
           NEW t \in Assertion, (b => c.pipeline = <<>>) \/ t \in Excused
    PROVE  LET d == Ended(c, b, t)
           IN /\ d \in Store /\ Sound(d) /\ Moves(c, d) /\ d.state = "Initial"
              /\ d.pipeline = c.pipeline
<1> DEFINE d == Closed(c, "Initial")
           e == HardAssert(d, ~b \/ c.pipeline = <<>>, t)
           f == [e EXCEPT !.handshake = "pending"]
<1>1. Ended(c, b, t) = f
  BY DEF Ended
<1>2. /\ d \in Store /\ Sound(d) /\ Moves(c, d) /\ d.state = "Initial"
      /\ d.pipeline = c.pipeline
  BY ClosedSound DEF Sound
<1>3. e = d \/ (e = Noted(d, t) /\ t \in Excused)
  BY DEF HardAssert, Noted
<1> HIDE DEF d, e
<1>4. e \in Store /\ Same(d, e)
  BY <1>2, <1>3, NotedKeeps
<1>5. e.failed \subseteq Excused
  <2>1. Noted(d, t).failed = d.failed \cup {t}
    BY <1>2 DEF Noted, Store
  <2> QED
    BY <1>2, <1>3, <2>1 DEF Sound
<1>6. Sound(e) /\ Moves(d, e)
  BY <1>2, <1>4, <1>5, Unmoved DEF Sound, Timely, Same, IsStarted, CanWrite
<1>7. /\ f \in Store /\ Sound(f) /\ Moves(e, f) /\ f.pipeline = e.pipeline
      /\ f.state = e.state
  BY <1>2, <1>4, <1>6, HandshakeReset DEF CanWrite, Same
<1> HIDE DEF f
<1>8. Moves(d, f)
  BY <1>2, <1>4, <1>6, <1>7, MovesOn
<1>9. Moves(c, f)
  BY <1>2, <1>7, <1>8, MovesOn
<1> QED
  BY <1>1, <1>2, <1>4, <1>7, <1>9 DEF Same

LEMMA StopSound ==
    ASSUME NEW c \in Store, Sound(c), NEW b \in BOOLEAN, b => c.pipeline = <<>>
    PROVE  LET d == Stop(c, b)
           IN /\ d \in Store /\ Sound(d) /\ Moves(c, d) /\ ~IsStarted(d)
              /\ d.pipeline = c.pipeline
<1>1. CASE ~IsStarted(c)
  BY <1>1, Unmoved DEF Stop
<1>2. CASE IsStarted(c)
  <2> DEFINE d == Ended(c, b, "stopped while still needed")
  <2>1. "stopped while still needed" \in Assertion
    BY DEF Assertion
  <2>2. /\ d \in Store /\ Sound(d) /\ Moves(c, d) /\ d.state = "Initial"
        /\ d.pipeline = c.pipeline
    BY <1>2, <2>1, EndedSound
  <2>3. Stop(c, b) = d
    BY <1>2 DEF Stop
  <2> HIDE DEF d
  <2> QED
    BY <2>2, <2>3 DEF IsStarted
<1> QED
  BY <1>1, <1>2

LEMMA InhibitSound ==
    ASSUME NEW c \in Store, Sound(c), ~IsStarted(c)
    PROVE  LET d == InhibitBackoff(c)
           IN /\ d \in Store /\ Sound(d) /\ Moves(c, d) /\ ~IsStarted(d)
              /\ d.pipeline = c.pipeline
<1> DEFINE d == [c EXCEPT !.state = "Initial"]
<1>1. InhibitBackoff(c) = d
  BY DEF InhibitBackoff, HardAssert
<1>2. d \in Store
  BY DEF Store
<1>3. /\ d.pipeline = c.pipeline /\ d.timers = c.timers /\ d.state = "Initial"
      /\ d.failed = c.failed /\ d.closeCount = c.closeCount /\ d.asks = c.asks
  BY DEF Store
<1> HIDE DEF d
<1>4. Sound(d) /\ Moves(c, d)
  BY <1>3, StoreFields DEF Sound, Timely, IsStarted, Moves
<1> QED
  BY <1>1, <1>2, <1>3, <1>4 DEF IsStarted

LEMMA PipelineSet ==
    ASSUME NEW c \in Store, Sound(c), NEW p \in Seq(Batch),
           ~IsStarted(c) \/ (CanWrite(c) /\ "idle" \notin c.timers)
    PROVE  LET d == [c EXCEPT !.pipeline = p]
           IN /\ d \in Store /\ Sound(d) /\ Moves(c, d) /\ d.pipeline = p
              /\ d.state = c.state
<1> DEFINE d == [c EXCEPT !.pipeline = p]
<1>1. d \in Store
  BY DEF Store
<1>2. /\ d.pipeline = p /\ d.timers = c.timers /\ d.state = c.state
      /\ d.handshake = c.handshake /\ d.failed = c.failed
      /\ d.closeCount = c.closeCount /\ d.asks = c.asks
  BY DEF Store
<1> HIDE DEF d
<1>3. Sound(d)
  BY <1>2 DEF Sound, Timely, IsStarted, CanWrite
<1>4. Moves(c, d)
  BY <1>2, Unmoved
<1> QED
  BY <1>1, <1>2, <1>3, <1>4 DEF d

LEMMA RestartSound ==
    ASSUME NEW c \in Store, Sound(c), NEW rows \in Seq(Batch)
    PROVE  LET g == RestartNetwork(c, rows)
           IN g \in Store /\ Sound(g) /\ Moves(c, g) /\ g.pipeline = Fetched(<<>>, rows)
<1> DEFINE d == Stop(c, FALSE)
           e == [d EXCEPT !.pipeline = <<>>]
           f == InhibitBackoff(e)
           g == FillWritePipeline(f, rows)
<1>1. RestartNetwork(c, rows) = g
  BY DEF RestartNetwork
<1>2. d \in Store /\ Sound(d) /\ Moves(c, d) /\ ~IsStarted(d)
  BY StopSound
<1> HIDE DEF d
<1>3. /\ e \in Store /\ Sound(e) /\ Moves(d, e) /\ e.pipeline = <<>>
      /\ e.state = d.state
  <2>1. <<>> \in Seq(Batch)
    OBVIOUS
  <2> QED
    BY <1>2, <2>1, PipelineSet
<1> HIDE DEF e
<1>4. f \in Store /\ Sound(f) /\ Moves(e, f) /\ f.pipeline = <<>>
  BY <1>2, <1>3, InhibitSound DEF IsStarted
<1> HIDE DEF f
<1>5. /\ g \in Store /\ Sound(g) /\ Moves(f, g)
      /\ g.pipeline = <<>> \o Fetched(<<>>, rows)
  <2>1. Len(f.pipeline) <= kMaxPendingWrites
    BY <1>4, WritePipelineAssumption
  <2>2. /\ g \in Store /\ Sound(g) /\ Moves(f, g)
        /\ g.pipeline = f.pipeline \o Fetched(f.pipeline, rows)
    BY <1>4, <2>1, FillSound
  <2> QED
    BY <1>4, <2>2
<1>6. <<>> \o Fetched(<<>>, rows) = Fetched(<<>>, rows)
  <2>1. Fetched(<<>>, rows) \in Seq(Batch)
    <3>1. Len(<<>>) <= kMaxPendingWrites /\ <<>> \in Seq(Batch)
      BY WritePipelineAssumption
    <3> QED
      BY <3>1, FetchedFits
  <2> QED
    BY <2>1, ConcatEmptySeq
<1> HIDE DEF g
<1>7. Moves(c, f)
  BY <1>2, <1>3, <1>4, MovesOn
<1>8. Moves(c, g)
  BY <1>4, <1>5, <1>7, MovesOn
<1> QED
  BY <1>1, <1>5, <1>6, <1>8 DEF g

LEMMA RefusedSound ==
    ASSUME NEW c \in Store, Len(c.pipeline) <= kMaxPendingWrites, Sound(c),
           IsStarted(c), c.pipeline # <<>>, NEW rows \in Seq(Batch)
    PROVE  LET h == Refused(c, rows)
           IN /\ h \in Store /\ Sound(h) /\ Moves(c, h)
              /\ h.pipeline = Tail(c.pipeline) \o Fetched(Tail(c.pipeline), rows)
<1> DEFINE s == Closed(c, "Error")
           t == [s EXCEPT !.pipeline = Tail(@)]
           i == InhibitBackoff(t)
           f == FillWritePipeline(i, rows)
           g == [f EXCEPT !.handshake = "pending"]
           h == StartIfNeeded(g)
<1>1. Refused(c, rows) = h
  BY DEF Refused
<1>2. /\ s \in Store /\ Sound(s) /\ Moves(c, s) /\ s.state = "Error"
      /\ s.pipeline = c.pipeline
  BY ClosedSound DEF Sound
<1> HIDE DEF s
<1>3. Tail(c.pipeline) \in Seq(Batch) /\ Len(Tail(c.pipeline)) <= kMaxPendingWrites
  <2>1. c.pipeline \in Seq(Batch)
    BY StoreFields
  <2> QED
    BY <2>1, WritePipelineAssumption
<1>4. /\ t \in Store /\ Sound(t) /\ Moves(s, t) /\ t.pipeline = Tail(c.pipeline)
      /\ t.state = "Error"
  <2>1. Tail(s.pipeline) \in Seq(Batch) /\ ~IsStarted(s)
    BY <1>2, <1>3 DEF IsStarted
  <2>2. /\ t \in Store /\ Sound(t) /\ Moves(s, t) /\ t.pipeline = Tail(s.pipeline)
        /\ t.state = s.state
    BY <1>2, <2>1, PipelineSet
  <2> QED
    BY <1>2, <2>2
<1> HIDE DEF t
<1>5. /\ i \in Store /\ Sound(i) /\ Moves(t, i) /\ i.pipeline = Tail(c.pipeline)
      /\ ~IsStarted(i)
  BY <1>4, InhibitSound DEF IsStarted
<1> HIDE DEF i
<1>6. /\ f \in Store /\ Sound(f) /\ Moves(i, f)
      /\ f.pipeline = Tail(c.pipeline) \o Fetched(Tail(c.pipeline), rows)
  BY <1>3, <1>5, FillSound
<1>7. ~CanWrite(f)
  <2>1. CASE f.state = "Open"
    <3> DEFINE more == Fetched(i.pipeline, rows)
    <3> QED
      BY <1>5, <2>1 DEF FillWritePipeline, StartIfNeeded, Start, HardAssert, IsStarted, Store
  <2> QED
    BY <2>1 DEF CanWrite
<1> HIDE DEF f
<1>8. g \in Store /\ Sound(g) /\ Moves(f, g) /\ g.pipeline = f.pipeline
  BY <1>6, <1>7, HandshakeReset
<1> HIDE DEF g
<1>9. h \in Store /\ Sound(h) /\ Moves(g, h) /\ h.pipeline = g.pipeline
  BY <1>8, StartIfNeededSound, StartIfNeededPipeline
<1> HIDE DEF h
<1>10. Moves(c, i)
  BY <1>2, <1>4, <1>5, MovesOn
<1>11. Moves(c, g)
  BY <1>5, <1>6, <1>8, <1>10, MovesOn
<1>12. Moves(c, h)
  BY <1>8, <1>9, <1>11, MovesOn
<1> QED
  BY <1>1, <1>6, <1>8, <1>9, <1>12 DEF h
-----------------------------------------------------------------------------
(* The batches of the pipeline are in the table, both in the order of      *)
(* their numbers.                                                          *)
Ordered(rows) ==
    \A j, k \in 1..Len(rows) : j < k => rows[j].id < rows[k].id

Within(p, rows) == \A i \in 1..Len(p) : \E k \in 1..Len(rows) : p[i] = rows[k]

Backed(p, rows) == Ordered(rows) /\ Ordered(p) /\ Within(p, rows)

LEMMA Numbers ==
    ASSUME NEW rows \in Seq(Batch)
    PROVE  Len(rows) \in Nat /\ \A k \in 1..Len(rows) : rows[k].id \in Nat
<1>1. \A k \in 1..Len(rows) : rows[k] \in Batch
  OBVIOUS
<1> QED
  BY <1>1 DEF Batch

(* What is fetched has higher numbers than what the pipeline has.          *)
LEMMA FetchedAbove ==
    ASSUME NEW p \in Seq(Batch), Len(p) <= kMaxPendingWrites,
           NEW rows \in Seq(Batch), Ordered(rows)
    PROVE  /\ Ordered(Fetched(p, rows))
           /\ p # <<>> => \A i \in 1..Len(Fetched(p, rows)) :
                              p[Len(p)].id < Fetched(p, rows)[i].id
<1> DEFINE last == IF p = <<>> THEN -1 ELSE p[Len(p)].id
           old  == {k \in DOMAIN rows : rows[k].id <= last}
           from == Cardinality(old)
           end  == from + kMaxPendingWrites - Len(p)
           stop == IF end < Len(rows) THEN end ELSE Len(rows)
           f    == SubSeq(rows, from + 1, stop)
<1>1. Fetched(p, rows) = f
  BY DEF Fetched
<1>2. /\ Len(rows) \in Nat /\ DOMAIN rows = 1..Len(rows)
      /\ \A k \in 1..Len(rows) : rows[k].id \in Nat
  BY Numbers
<1>3. last \in Int /\ (p # <<>> => last = p[Len(p)].id)
  <2>1. p # <<>> => Len(p) \in 1..Len(p)
    OBVIOUS
  <2> QED
    BY <2>1, Numbers
<1>4. IsFiniteSet(old) /\ from \in Nat
  <2>1. IsFiniteSet(1..Len(rows)) /\ old \in SUBSET (1..Len(rows))
    BY <1>2, FS_Interval
  <2> HIDE DEF old
  <2> QED
    BY <2>1, FS_Subset, FS_CardinalityType
<1>5. \A k \in old : k \in 1..Len(rows) /\ rows[k].id <= last
  BY <1>2
<1>6. \A k \in 1..Len(rows) : rows[k].id <= last => k \in old
  BY <1>2
<1> HIDE DEF last, old
<1>7. ASSUME NEW k \in 1..Len(rows), k > from
      PROVE  last < rows[k].id
  <2>1. SUFFICES ASSUME rows[k].id <= last PROVE FALSE
    BY <1>2, <1>3
  <2>2. \A j \in 1..k : j \in old
    <3>1. ASSUME NEW j \in 1..k PROVE rows[j].id <= last
      <4>1. j \in 1..Len(rows) /\ (j = k \/ j < k)
        BY <1>2
      <4> QED
        BY <1>2, <1>3, <2>1, <4>1 DEF Ordered
    <3>2. \A j \in 1..k : j \in 1..Len(rows)
      BY <1>2
    <3> QED
      BY <1>6, <3>1, <3>2
  <2>3. Cardinality(1..k) <= from
    BY <1>4, <2>2, FS_Subset
  <2>4. Cardinality(1..k) = k
    BY <1>2, FS_Interval
  <2> QED
    BY <1>2, <1>4, <1>7, <2>3, <2>4
<1> HIDE DEF from
<1>8. kMaxPendingWrites \in Nat /\ Len(p) \in Nat
  BY WritePipelineAssumption
<1>9. stop \in Int /\ stop <= Len(rows)
  BY <1>2, <1>4, <1>8
<1> HIDE DEF stop
<1>10. \A i \in (from + 1)..stop : i \in 1..Len(rows) /\ rows[i] \in Batch
  BY <1>2, <1>4, <1>9
<1>11. /\ f \in Seq(Batch)
       /\ Len(f) = IF from + 1 <= stop THEN stop - (from + 1) + 1 ELSE 0
       /\ \A i \in 1..(stop - (from + 1) + 1) : f[i] = rows[from + 1 + i - 1]
  <2>1. from + 1 \in Int
    BY <1>4
  <2> QED
    BY <1>9, <1>10, <2>1, SubSeqProperties
<1> HIDE DEF f
<1>12. ASSUME NEW i \in 1..Len(f)
       PROVE  from + i \in 1..Len(rows) /\ from + i > from /\ f[i] = rows[from + i]
  BY <1>4, <1>9, <1>11, <1>2
<1>13. Ordered(f)
  <2>1. ASSUME NEW j \in 1..Len(f), NEW k \in 1..Len(f), j < k
        PROVE  f[j].id < f[k].id
    <3>1. from + j < from + k
      BY <1>4, <2>1
    <3> QED
      BY <1>12, <3>1 DEF Ordered
  <2> QED
    BY <2>1 DEF Ordered
<1>14. \A i \in 1..Len(f) : last < f[i].id
  BY <1>7, <1>12
<1> QED
  BY <1>1, <1>3, <1>13, <1>14

LEMMA BackedFetched ==
    ASSUME NEW p \in Seq(Batch), Len(p) <= kMaxPendingWrites,
           NEW rows \in Seq(Batch), Backed(p, rows)
    PROVE  Backed(p \o Fetched(p, rows), rows)
<1> DEFINE f == Fetched(p, rows)
           r == p \o f
<1>1. /\ f \in Seq(Batch)
      /\ \A i \in DOMAIN f : \E k \in DOMAIN rows : f[i] = rows[k]
  BY FetchedFits
<1>2. /\ Ordered(f)
      /\ p # <<>> => \A i \in 1..Len(f) : p[Len(p)].id < f[i].id
  BY FetchedAbove DEF Backed
<1> HIDE DEF f
<1>3. r \in Seq(Batch) /\ Joins(p, f, r)
  BY <1>1, Joined
<1> HIDE DEF r
<1>4. /\ Len(p) \in Nat /\ Len(f) \in Nat /\ Len(r) = Len(p) + Len(f)
      /\ DOMAIN f = 1..Len(f) /\ DOMAIN rows = 1..Len(rows)
  BY <1>1, <1>3 DEF Joins
<1>5. Within(r, rows)
  <2>1. \A i \in 1..Len(f) : \E k \in 1..Len(rows) : f[i] = rows[k]
    BY <1>1, <1>4
  <2>2. \A i \in 1..Len(p) : \E k \in 1..Len(rows) : p[i] = rows[k]
    BY DEF Within, Backed
  <2>3. ASSUME NEW i \in 1..Len(r)
        PROVE  \E k \in 1..Len(rows) : r[i] = rows[k]
    <3>1. \/ i \in 1..Len(p) /\ r[i] = p[i]
          \/ \E j \in 1..Len(f) : i = Len(p) + j /\ r[i] = f[j]
      BY <1>3 DEF Joins
    <3> QED
      BY <2>1, <2>2, <3>1
  <2> QED
    BY <2>3 DEF Within
<1>6. ASSUME NEW j \in 1..Len(r), NEW k \in 1..Len(r), j < k
      PROVE  r[j].id < r[k].id
  <2>1. CASE k \in 1..Len(p)
    <3>1. j \in 1..Len(p)
      BY <1>4, <1>6, <2>1
    <3> QED
      BY <1>3, <1>6, <2>1, <3>1 DEF Joins, Backed, Ordered
  <2>2. CASE k \notin 1..Len(p)
    <3>1. PICK n \in 1..Len(f) : k = Len(p) + n /\ r[k] = f[n]
      BY <1>3, <2>2 DEF Joins
    <3>2. CASE j \in 1..Len(p)
      <4>1. p # <<>> /\ Len(p) \in 1..Len(p) /\ (j = Len(p) \/ j < Len(p))
        BY <1>4, <3>2
      <4>2. p[Len(p)].id < f[n].id
        BY <1>2, <4>1
      <4>3. p[j].id = p[Len(p)].id \/ p[j].id < p[Len(p)].id
        BY <3>2, <4>1 DEF Backed, Ordered
      <4>4. p[j].id \in Nat /\ p[Len(p)].id \in Nat /\ f[n].id \in Nat
        BY <1>1, <3>2, <4>1, Numbers
      <4>5. r[j] = p[j]
        BY <1>3, <3>2 DEF Joins
      <4> QED
        BY <3>1, <4>2, <4>3, <4>4, <4>5
    <3>3. CASE j \notin 1..Len(p)
      <4>1. PICK m \in 1..Len(f) : j = Len(p) + m /\ r[j] = f[m]
        BY <1>3, <3>3 DEF Joins
      <4>2. m < n
        BY <1>4, <1>6, <3>1, <4>1
      <4> QED
        BY <1>2, <3>1, <4>1, <4>2 DEF Ordered
    <3> QED
      BY <3>2, <3>3
  <2> QED
    BY <2>1, <2>2
<1>7. Backed(r, rows)
  BY <1>5, <1>6 DEF Backed, Ordered
<1> QED
  BY <1>7 DEF r, f

(* The answered batch leaves the table and the pipeline.                   *)
LEMMA BackedWithout ==
    ASSUME NEW p \in Seq(Batch), p # <<>>, NEW rows \in Seq(Batch), Backed(p, rows)
    PROVE  /\ Has(rows, p[1].id)
           /\ Backed(Tail(p), Without(rows, p[1].id))
<1> DEFINE id == p[1].id
           k == CHOOSE i \in DOMAIN rows : rows[i].id = id
           s == SubSeq(rows, 1, k - 1)
           t == SubSeq(rows, k + 1, Len(rows))
           r == s \o t
           q == Tail(p)
<1>1. /\ Len(p) \in Nat /\ 1 \in 1..Len(p) /\ Len(rows) \in Nat
      /\ DOMAIN rows = 1..Len(rows)
      /\ \A i \in 1..Len(rows) : rows[i] \in Batch /\ rows[i].id \in Nat
      /\ \A i \in 1..Len(p) : p[i].id \in Nat
  BY Numbers
<1>2. Has(rows, id)
  <2>1. \E j \in 1..Len(rows) : p[1] = rows[j]
    BY <1>1 DEF Backed, Within
  <2> QED
    BY <1>1, <2>1 DEF Has
<1>3. Without(rows, id) = r
  BY <1>2 DEF Without
<1>4. k \in 1..Len(rows) /\ rows[k].id = id
  BY <1>1, <1>2 DEF Has
<1> HIDE DEF k
<1>5. /\ s \in Seq(Batch) /\ Len(s) = k - 1
      /\ \A i \in 1..(k - 1) : s[i] = rows[i]
  <2>1. 1 \in Int /\ k - 1 \in Int /\ \A i \in 1..(k - 1) : rows[i] \in Batch
    BY <1>1, <1>4
  <2>2. /\ s \in Seq(Batch) /\ Len(s) = IF 1 <= k - 1 THEN k - 1 - 1 + 1 ELSE 0
        /\ \A i \in 1..(k - 1 - 1 + 1) : s[i] = rows[1 + i - 1]
    BY <2>1, SubSeqProperties
  <2> HIDE DEF s
  <2> QED
    BY <1>1, <1>4, <2>2
<1>6. /\ t \in Seq(Batch) /\ Len(t) = Len(rows) - k
      /\ \A i \in 1..(Len(rows) - k) : t[i] = rows[k + i]
  <2>1. k + 1 \in Int /\ Len(rows) \in Int
        /\ \A i \in (k + 1)..Len(rows) : rows[i] \in Batch
    BY <1>1, <1>4
  <2>2. /\ t \in Seq(Batch)
        /\ Len(t) = IF k + 1 <= Len(rows) THEN Len(rows) - (k + 1) + 1 ELSE 0
        /\ \A i \in 1..(Len(rows) - (k + 1) + 1) : t[i] = rows[k + 1 + i - 1]
    BY <2>1, SubSeqProperties
  <2> HIDE DEF t
  <2> DEFINE n == Len(rows)
             m == Len(t)
  <2>3. n \in Nat /\ k \in 1..n /\ m = IF k + 1 <= n THEN n - (k + 1) + 1 ELSE 0
    BY <1>1, <1>4, <2>2
  <2>4. \A i \in 1..(n - (k + 1) + 1) : t[i] = rows[k + 1 + i - 1]
    BY <2>2
  <2> HIDE DEF n, m
  <2>5. m = n - k /\ \A i \in 1..(n - k) : t[i] = rows[k + i]
    <3>1. m = n - k
      BY <2>3
    <3>2. ASSUME NEW i \in 1..(n - k) PROVE t[i] = rows[k + i]
      <4>1. i \in 1..(n - (k + 1) + 1) /\ k + 1 + i - 1 = k + i
        BY <2>3
      <4> QED
        BY <2>4, <4>1
    <3> QED
      BY <3>1, <3>2
  <2> QED
    BY <2>2, <2>5 DEF n, m
<1> HIDE DEF s, t
<1>7. r \in Seq(Batch) /\ Joins(s, t, r)
  BY <1>5, <1>6, Joined
<1> HIDE DEF r
<1>8. Len(r) = Len(rows) - 1
  BY <1>1, <1>4, <1>5, <1>6, <1>7 DEF Joins
<1>9. \A i \in 1..(k - 1) : i \in 1..Len(r) /\ r[i] = rows[i]
  BY <1>1, <1>4, <1>5, <1>7, <1>8 DEF Joins
<1>10. ASSUME NEW i \in k..Len(r)
       PROVE  i + 1 \in 1..Len(rows) /\ r[i] = rows[i + 1]
  <2> DEFINE n == Len(rows)
             lr == Len(r)
             ls == Len(s)
             lt == Len(t)
  <2>0. /\ n \in Nat /\ k \in 1..n /\ lr = n - 1 /\ ls = k - 1 /\ lt = n - k
        /\ i \in k..lr
    BY <1>1, <1>4, <1>5, <1>6, <1>8, <1>10
  <2> HIDE DEF n, lr, ls, lt
  <2>n. i - (k - 1) \in 1..lt /\ i = ls + (i - (k - 1)) /\ lt \in Nat
    BY <2>0
  <2>1. i - (k - 1) \in 1..Len(t) /\ i = Len(s) + (i - (k - 1))
    BY <2>n DEF ls, lt
  <2>2. r[i] = t[i - (k - 1)]
    BY <1>7, <2>1 DEF Joins
  <2>3. k + (i - (k - 1)) = i + 1
    BY <1>1, <1>4, <1>8
  <2> QED
    BY <1>1, <1>4, <1>6, <1>8, <2>1, <2>2, <2>3
<1>11. Ordered(rows) /\ Ordered(p) /\ Within(p, rows)
  BY DEF Backed
<1>12. ASSUME NEW i \in 1..Len(r), NEW j \in 1..Len(r), i < j
       PROVE  r[i].id < r[j].id
  <2>1. CASE j \in 1..(k - 1)
    <3>1. i \in 1..(k - 1) /\ i \in 1..Len(rows) /\ j \in 1..Len(rows)
      BY <1>1, <1>4, <1>8, <1>12, <2>1
    <3> QED
      BY <1>9, <1>11, <1>12, <2>1, <3>1 DEF Ordered
  <2>2. CASE i \in 1..(k - 1) /\ j \notin 1..(k - 1)
    <3>1. j \in k..Len(r) /\ i < j + 1 /\ i \in 1..Len(rows)
      BY <1>1, <1>4, <1>8, <1>12, <2>2
    <3> QED
      BY <1>9, <1>10, <1>11, <2>2, <3>1 DEF Ordered
  <2>3. CASE i \notin 1..(k - 1) /\ j \notin 1..(k - 1)
    <3>1. i \in k..Len(r) /\ j \in k..Len(r) /\ i + 1 < j + 1
      BY <1>1, <1>4, <1>8, <1>12, <2>3
    <3> QED
      BY <1>10, <1>11, <3>1 DEF Ordered
  <2> QED
    BY <2>1, <2>2, <2>3
<1>13. /\ Len(q) = Len(p) - 1
       /\ \A i \in 1..Len(q) : i + 1 \in 1..Len(p) /\ q[i] = p[i + 1]
  <2>1. Len(q) = Len(p) - 1 /\ \A i \in 1..Len(q) : q[i] = p[i + 1]
    BY HeadTailProperties
  <2> HIDE DEF q
  <2> QED
    BY <1>1, <2>1
<1> HIDE DEF q
<1>14. ASSUME NEW i \in 1..Len(q), NEW j \in 1..Len(q), i < j
       PROVE  q[i].id < q[j].id
  <2>1. i + 1 < j + 1
    BY <1>1, <1>13, <1>14
  <2> QED
    BY <1>11, <1>13, <2>1 DEF Ordered
<1>15. ASSUME NEW i \in 1..Len(q)
       PROVE  \E j \in 1..Len(r) : q[i] = r[j]
  <2>1. PICK m \in 1..Len(rows) : p[i + 1] = rows[m]
    BY <1>11, <1>13 DEF Within
  <2>2. m # k
    <3>1. 1 < i + 1
      BY <1>1, <1>13
    <3>2. p[1].id < p[i + 1].id
      BY <1>1, <1>11, <1>13, <3>1 DEF Ordered
    <3> QED
      BY <1>1, <1>4, <1>13, <2>1, <3>2
  <2>3. CASE m \in 1..(k - 1)
    BY <1>9, <1>13, <2>1, <2>3
  <2>4. CASE m \notin 1..(k - 1)
    <3>1. m - 1 \in k..Len(r) /\ m - 1 \in 1..Len(r) /\ (m - 1) + 1 = m
      BY <1>1, <1>4, <1>8, <2>2, <2>4
    <3> QED
      BY <1>10, <1>13, <2>1, <3>1
  <2> QED
    BY <2>3, <2>4
<1>16. Backed(q, r)
  BY <1>12, <1>14, <1>15 DEF Backed, Ordered, Within
<1> QED
  BY <1>2, <1>3, <1>16 DEF q

(* A new batch comes last.                                                 *)
LEMMA BackedPut ==
    ASSUME NEW p \in Seq(Batch), NEW rows \in Seq(Batch), Backed(p, rows),
           NEW b \in Batch, Below(rows, b.id)
    PROVE  Backed(p, Put(rows, b))
<1> DEFINE r == Append(rows, b)
<1>1. /\ Len(rows) \in Nat /\ DOMAIN rows = 1..Len(rows)
      /\ \A k \in 1..Len(rows) : rows[k].id \in Nat
  BY Numbers
<1>2. b.id \in Nat
  BY DEF Batch
<1>3. \A k \in 1..Len(rows) : rows[k].id < b.id
  BY <1>1 DEF Below
<1>4. Put(rows, b) = r
  <2>1. ~Has(rows, b.id)
    BY <1>1, <1>2, <1>3 DEF Has
  <2> QED
    BY <2>1 DEF Put
<1>5. /\ r \in Seq(Batch) /\ Len(r) = Len(rows) + 1 /\ r[Len(rows) + 1] = b
      /\ \A k \in 1..Len(rows) : r[k] = rows[k]
  BY AppendProperties
<1> HIDE DEF r
<1>6. ASSUME NEW j \in 1..Len(r), NEW k \in 1..Len(r), j < k
      PROVE  r[j].id < r[k].id
  <2>1. j \in 1..Len(rows) /\ (k \in 1..Len(rows) \/ k = Len(rows) + 1)
    BY <1>1, <1>5, <1>6
  <2> QED
    BY <1>3, <1>5, <1>6, <2>1 DEF Backed, Ordered
<1>7. \A k \in 1..Len(rows) : k \in 1..Len(r)
  BY <1>1, <1>5
<1>8. Within(p, r)
  BY <1>5, <1>7 DEF Backed, Within
<1>9. Backed(p, r)
  BY <1>6, <1>8 DEF Backed, Ordered
<1> QED
  BY <1>4, <1>9
-----------------------------------------------------------------------------
(* The answers to GetToken calls.  A count has one call at most, and while *)
(* a call of the current count is out the stream is starting.              *)
TokenKinds == {"token", "noToken"}

Tokens(c, q) ==
    /\ \A n \in c.asks : n <= c.closeCount /\ (n = c.closeCount => c.state = "Starting")
    /\ \A k \in 1..Len(q) : q[k].kind \in TokenKinds =>
           /\ q[k].number \in Nat /\ q[k].number <= c.closeCount
           /\ q[k].number \notin c.asks
           /\ q[k].number = c.closeCount => c.state = "Starting"
    /\ \A j, k \in 1..Len(q) :
           j # k /\ q[j].kind \in TokenKinds /\ q[k].kind \in TokenKinds
           => q[j].number # q[k].number

LEMMA TokensMove ==
    ASSUME NEW c \in Store, NEW d \in Store, NEW q, Tokens(c, q), Moves(c, d)
    PROVE  Tokens(d, q)
<1>1. c.closeCount \in Nat /\ d.closeCount \in Nat /\ d.closeCount >= c.closeCount
  BY StoreFields DEF Moves
<1>2. ASSUME NEW n \in d.asks
      PROVE  n <= d.closeCount /\ (n = d.closeCount => d.state = "Starting")
  <2>1. n \in Nat
    BY StoreFields
  <2>2. CASE n \in c.asks
    <3>1. n <= c.closeCount /\ (n = c.closeCount => c.state = "Starting")
      BY <2>2 DEF Tokens
    <3>2. c.state = "Starting" /\ d.closeCount = c.closeCount => d.state = "Starting"
      BY DEF Moves
    <3> QED
      BY <1>1, <2>1, <3>1, <3>2
  <2>3. CASE n \notin c.asks
    BY <2>3 DEF Moves
  <2> QED
    BY <2>2, <2>3
<1>3. ASSUME NEW k \in 1..Len(q), q[k].kind \in TokenKinds
      PROVE  /\ q[k].number \in Nat /\ q[k].number <= d.closeCount
             /\ q[k].number \notin d.asks
             /\ q[k].number = d.closeCount => d.state = "Starting"
  <2> DEFINE n == q[k].number
  <2>1. /\ n \in Nat /\ n <= c.closeCount /\ n \notin c.asks
        /\ n = c.closeCount => c.state = "Starting"
    BY <1>3 DEF Tokens
  <2> HIDE DEF n
  <2>2. n \notin d.asks
    <3>1. ASSUME n \in d.asks PROVE FALSE
      <4>1. n > c.closeCount \/ (n = c.closeCount /\ c.state # "Starting")
        BY <2>1, <3>1 DEF Moves
      <4> QED
        BY <1>1, <2>1, <4>1
    <3> QED
      BY <3>1
  <2>3. n <= d.closeCount /\ (n = d.closeCount => d.state = "Starting")
    <3>1. c.state = "Starting" /\ d.closeCount = c.closeCount => d.state = "Starting"
      BY DEF Moves
    <3> QED
      BY <1>1, <2>1, <3>1
  <2> QED
    BY <2>1, <2>2, <2>3 DEF n
<1>4. \A j, k \in 1..Len(q) :
          j # k /\ q[j].kind \in TokenKinds /\ q[k].kind \in TokenKinds
          => q[j].number # q[k].number
  BY DEF Tokens
<1> QED
  BY <1>2, <1>3, <1>4 DEF Tokens

LEMMA TokensShrink ==
    ASSUME NEW c, NEW q \in Seq(Task), q # <<>>, Tokens(c, q)
    PROVE  /\ Tokens(c, Tail(q))
           /\ \A k \in 1..Len(Tail(q)) :
                  q[1].kind \in TokenKinds /\ Tail(q)[k].kind \in TokenKinds
                  => Tail(q)[k].number # q[1].number
<1> DEFINE r == Tail(q)
<1>1. /\ Len(q) \in Nat /\ 1 \in 1..Len(q) /\ Len(r) = Len(q) - 1
      /\ \A k \in 1..Len(r) : r[k] = q[k + 1]
  BY HeadTailProperties
<1> HIDE DEF r
<1>2. \A k \in 1..Len(r) : k + 1 \in 1..Len(q) /\ k + 1 # 1 /\ r[k] = q[k + 1]
  BY <1>1
<1>3. \A j, k \in 1..Len(r) : j # k => j + 1 # k + 1
  BY <1>1
<1>4. \A n \in c.asks : n <= c.closeCount /\ (n = c.closeCount => c.state = "Starting")
  BY DEF Tokens
<1>5. \A k \in 1..Len(r) : r[k].kind \in TokenKinds =>
           /\ r[k].number \in Nat /\ r[k].number <= c.closeCount
           /\ r[k].number \notin c.asks
           /\ r[k].number = c.closeCount => c.state = "Starting"
  BY <1>2 DEF Tokens
<1>6. \A j, k \in 1..Len(r) :
          j # k /\ r[j].kind \in TokenKinds /\ r[k].kind \in TokenKinds
          => r[j].number # r[k].number
  BY SMTT(30), <1>2, <1>3 DEF Tokens
<1>7. \A k \in 1..Len(r) : q[1].kind \in TokenKinds /\ r[k].kind \in TokenKinds
          => r[k].number # q[1].number
  BY <1>1, <1>2 DEF Tokens
<1>8. Tokens(c, r)
  BY <1>4, <1>5, <1>6 DEF Tokens
<1> QED
  BY <1>7, <1>8 DEF r

LEMMA TokensGrow ==
    ASSUME NEW c, NEW q \in Seq(Task), Tokens(c, q), NEW t \in Task,
           t.kind \notin TokenKinds
    PROVE  Tokens(c, Append(q, t))
<1> DEFINE r == Append(q, t)
<1>1. /\ Len(q) \in Nat /\ Len(r) = Len(q) + 1 /\ r[Len(q) + 1] = t
      /\ \A k \in 1..Len(q) : r[k] = q[k]
  BY AppendProperties
<1> HIDE DEF r
<1>2. \A k \in 1..Len(r) : r[k].kind \in TokenKinds => k \in 1..Len(q) /\ r[k] = q[k]
  BY <1>1
<1>3. Tokens(c, r)
  BY <1>2 DEF Tokens
<1> QED
  BY <1>3 DEF r

(* A call is answered: its number leaves the calls and joins the tasks.    *)
LEMMA TokensGiven ==
    ASSUME NEW c \in Store, NEW q \in Seq(Task), Tokens(c, q), NEW n \in c.asks,
           NEW t \in Task, t.kind \in TokenKinds, t.number = n,
           NEW d, d.asks = c.asks \ {n}, d.closeCount = c.closeCount, d.state = c.state
    PROVE  Tokens(d, Append(q, t))
<1> DEFINE r == Append(q, t)
<1>1. /\ Len(q) \in Nat /\ Len(r) = Len(q) + 1 /\ r[Len(q) + 1] = t
      /\ \A k \in 1..Len(q) : r[k] = q[k]
  BY AppendProperties
<1> HIDE DEF r
<1>2. \A k \in 1..Len(r) : \/ k \in 1..Len(q) /\ r[k] = q[k]
                           \/ k = Len(q) + 1 /\ r[k] = t
  BY <1>1
<1>3. n \in Nat
  BY StoreFields
<1>4. \A m \in d.asks : m <= d.closeCount /\ (m = d.closeCount => d.state = "Starting")
  BY DEF Tokens
<1>5. ASSUME NEW k \in 1..Len(r), r[k].kind \in TokenKinds
      PROVE  /\ r[k].number \in Nat /\ r[k].number <= d.closeCount
             /\ r[k].number \notin d.asks
             /\ r[k].number = d.closeCount => d.state = "Starting"
  <2>1. CASE k \in 1..Len(q) /\ r[k] = q[k]
    BY <1>5, <2>1 DEF Tokens
  <2>2. CASE r[k] = t
    BY <1>3, <2>2 DEF Tokens
  <2> QED
    BY <1>2, <2>1, <2>2
<1>6. \A k \in 1..Len(q) : q[k].kind \in TokenKinds => q[k].number # n
  BY DEF Tokens
<1>7. \A j, k \in 1..Len(q) :
          j # k /\ q[j].kind \in TokenKinds /\ q[k].kind \in TokenKinds
          => q[j].number # q[k].number
  BY DEF Tokens
<1>8. ASSUME NEW j \in 1..Len(r), NEW k \in 1..Len(r), j # k,
             r[j].kind \in TokenKinds, r[k].kind \in TokenKinds
      PROVE  r[j].number # r[k].number
  BY <1>2, <1>6, <1>7, <1>8
<1>9. Tokens(d, r)
  BY <1>4, <1>5, <1>8 DEF Tokens
<1> QED
  BY <1>9 DEF r
-----------------------------------------------------------------------------
(* The tasks of the worker queue: each is of the user whom the tasks before*)
(* it lead to, from the user of the sync engine to the account signed in.  *)
Queue(q, first, last) ==
    /\ \A k \in 1..Len(q) : q[k].kind # "user" =>
           q[k].user = IF k = 1 THEN first ELSE q[k - 1].user
    /\ last = IF q = <<>> THEN first ELSE q[Len(q)].user

OwnTasks(a, q) ==
    \A k \in 1..Len(q) : q[k].kind = "write" => By(a, q[k].number, q[k].user)

Known ==
    /\ handlers \in [User -> SUBSET Batch]
    /\ applied \subseteq Write /\ latest \in [User -> Write \cup {0}]
    /\ outcome \in [Write -> {"none", "ok", "refused"}]
    /\ told \in [Write -> {"none", "ok", "refused"}]
    /\ left \in Budget

Filed(a, t, n) ==
    \A u \in User : OwnRows(a, t[u], u) /\ Below(t[u], n) /\ Ordered(t[u])

Good(a, c, u, rows) ==
    Fit(a, c, u) /\ Quiet(c) /\ Sound(c) /\ Backed(c.pipeline, rows)

IInv ==
    /\ TypeOK
    /\ Len(author) + left.writes <= MaxWrites
    /\ Queue(tasks, user, account) /\ OwnTasks(author, tasks)
    /\ Filed(author, table, nextId)
    /\ Good(author, rs, user, table[user]) /\ Tokens(rs, tasks)

LEMMA QueueGrows ==
    ASSUME NEW q \in Seq(Task), NEW f, NEW l, Queue(q, f, l), NEW t \in Task,
           t.kind = "user" \/ t.user = l
    PROVE  Queue(Append(q, t), f, t.user)
<1> DEFINE r == Append(q, t)
<1>1. /\ r \in Seq(Task) /\ r # <<>> /\ Len(r) = Len(q) + 1 /\ Len(q) \in Nat
      /\ \A k \in 1..Len(q) : r[k] = q[k]
      /\ r[Len(q) + 1] = t
  BY AppendProperties
<1> HIDE DEF r
<1>2. ASSUME NEW k \in 1..Len(r), r[k].kind # "user"
      PROVE  r[k].user = IF k = 1 THEN f ELSE r[k - 1].user
  <2>1. CASE k \in 1..Len(q)
    <3>1. r[k] = q[k] /\ (k # 1 => r[k - 1] = q[k - 1])
      BY <1>1, <2>1
    <3> QED
      BY <1>2, <2>1, <3>1 DEF Queue
  <2>2. CASE k = Len(q) + 1
    <3>1. r[k] = t /\ t.user = l
      BY <1>1, <1>2, <2>2
    <3>2. CASE q = <<>>
      BY <2>2, <3>1, <3>2 DEF Queue
    <3>3. CASE q # <<>>
      <4>1. k # 1 /\ k - 1 = Len(q) /\ r[Len(q)] = q[Len(q)]
        BY <1>1, <2>2, <3>3
      <4> QED
        BY <3>1, <3>3, <4>1 DEF Queue
    <3> QED
      BY <3>2, <3>3
  <2> QED
    BY <1>1, <2>1, <2>2
<1>3. Queue(r, f, t.user)
  BY <1>1, <1>2 DEF Queue
<1> QED
  BY <1>3 DEF r

LEMMA QueueShrinks ==
    ASSUME NEW q \in Seq(Task), q # <<>>, NEW f, NEW l, Queue(q, f, l)
    PROVE  Queue(Tail(q), q[1].user, l)
<1> DEFINE r == Tail(q)
<1>1. /\ r \in Seq(Task) /\ Len(r) = Len(q) - 1 /\ Len(q) \in Nat
      /\ \A k \in 1..Len(r) : r[k] = q[k + 1]
  BY HeadTailProperties
<1> HIDE DEF r
<1>2. Len(q) >= 1 /\ (r = <<>> <=> Len(q) = 1)
  <2>1. Len(q) # 0
    BY EmptySeq
  <2>2. r = <<>> <=> Len(r) = 0
    BY <1>1, EmptySeq
  <2> QED
    BY <1>1, <2>1, <2>2
<1>3. ASSUME NEW k \in 1..Len(r), r[k].kind # "user"
      PROVE  r[k].user = IF k = 1 THEN q[1].user ELSE r[k - 1].user
  <2>1. k + 1 \in 1..Len(q) /\ k + 1 # 1 /\ (k + 1) - 1 = k
    BY <1>1
  <2>2. q[k + 1].user = q[k].user
    BY <1>1, <1>3, <2>1 DEF Queue
  <2>3. k # 1 => r[k - 1] = q[k]
    BY <1>1
  <2> QED
    BY <1>1, <2>2, <2>3
<1>4. l = IF r = <<>> THEN q[1].user ELSE r[Len(r)].user
  <2>1. l = q[Len(q)].user
    BY DEF Queue
  <2>2. r # <<>> => r[Len(r)] = q[Len(q)]
    BY <1>1, <1>2
  <2> QED
    BY <1>2, <2>1, <2>2
<1>5. Queue(r, q[1].user, l)
  BY <1>3, <1>4 DEF Queue
<1> QED
  BY <1>5 DEF r

LEMMA TasksGrow ==
    ASSUME NEW a, NEW q \in Seq(Task), OwnTasks(a, q), NEW t \in Task,
           t.kind = "write" => By(a, t.number, t.user)
    PROVE  OwnTasks(a, Append(q, t))
<1> DEFINE r == Append(q, t)
<1>1. /\ Len(r) = Len(q) + 1 /\ Len(q) \in Nat
      /\ \A k \in 1..Len(q) : r[k] = q[k]
      /\ r[Len(q) + 1] = t
  BY AppendProperties
<1> HIDE DEF r
<1>2. \A k \in 1..Len(r) : (k \in 1..Len(q) /\ r[k] = q[k]) \/ r[k] = t
  BY <1>1
<1>3. OwnTasks(a, r)
  BY <1>2 DEF OwnTasks
<1> QED
  BY <1>3 DEF r

LEMMA TasksShrink ==
    ASSUME NEW a, NEW q \in Seq(Task), q # <<>>, OwnTasks(a, q)
    PROVE  OwnTasks(a, Tail(q)) /\ Tail(q) \in Seq(Task) /\ q[1] \in Task
           /\ (q[1].kind = "write" => By(a, q[1].number, q[1].user))
<1> DEFINE r == Tail(q)
<1>1. /\ r \in Seq(Task) /\ Len(r) = Len(q) - 1 /\ Len(q) \in Nat
      /\ \A k \in 1..Len(r) : r[k] = q[k + 1]
  BY HeadTailProperties
<1>2. 1 \in 1..Len(q) /\ q[1] \in Task
  BY <1>1
<1> HIDE DEF r
<1>3. \A k \in 1..Len(r) : k + 1 \in 1..Len(q) /\ r[k] = q[k + 1]
  BY <1>1
<1>4. OwnTasks(a, r)
  BY <1>3 DEF OwnTasks
<1> QED
  BY <1>1, <1>2, <1>4 DEF r, OwnTasks

(* One more write, and those before it keep their authors.                 *)
LEMMA ByGrows ==
    ASSUME NEW a \in Seq(User), NEW x \in User
    PROVE  /\ Append(a, x) \in Seq(User) /\ Len(Append(a, x)) = Len(a) + 1
           /\ By(Append(a, x), Len(a) + 1, x)
           /\ \A w, u : By(a, w, u) => By(Append(a, x), w, u)
<1> DEFINE b == Append(a, x)
<1>1. /\ b \in Seq(User) /\ Len(b) = Len(a) + 1 /\ Len(a) \in Nat
      /\ \A k \in 1..Len(a) : b[k] = a[k]
      /\ b[Len(a) + 1] = x
  BY AppendProperties
<1>2. DOMAIN a = 1..Len(a) /\ DOMAIN b = 1..Len(b)
  BY <1>1
<1> HIDE DEF b
<1>3. Len(a) + 1 \in DOMAIN b /\ \A w \in DOMAIN a : w \in DOMAIN b /\ b[w] = a[w]
  BY <1>1, <1>2
<1>4. /\ b \in Seq(User) /\ Len(b) = Len(a) + 1 /\ By(b, Len(a) + 1, x)
      /\ \A w, u : By(a, w, u) => By(b, w, u)
  BY <1>1, <1>3 DEF By
<1> QED
  BY <1>4 DEF b

LEMMA AllGrow ==
    ASSUME NEW a, NEW b, \A w, u : By(a, w, u) => By(b, w, u)
    PROVE  /\ \A q : OwnTasks(a, q) => OwnTasks(b, q)
           /\ \A t, n : Filed(a, t, n) => Filed(b, t, n)
           /\ \A c, u : Fit(a, c, u) => Fit(b, c, u)
<1>1. \A q : OwnTasks(a, q) => OwnTasks(b, q)
  BY DEF OwnTasks
<1>2. \A rows, u : OwnRows(a, rows, u) => OwnRows(b, rows, u)
  BY DEF OwnRows
<1>3. \A c, u : Own(a, c, u) => Own(b, c, u)
  BY <1>2 DEF Own
<1> QED
  BY <1>1, <1>2, <1>3 DEF Filed, Fit
-----------------------------------------------------------------------------
(* The calls of the remote store, all together.                            *)
LEMMA FillOpen ==
    ASSUME NEW c \in Store, NEW rows, c.state = "Open"
    PROVE  /\ FillWritePipeline(c, rows).state = "Open"
           /\ FillWritePipeline(c, rows).down = c.down
<1> DEFINE more   == Fetched(c.pipeline, rows)
           filled == c.pipeline \o more
           sent   == CanWrite(c) /\ more # <<>>
           idle   == c.state = "Open" /\ filled = <<>>
           up     == IF sent THEN c.up \o WriteRequests(more) ELSE c.up
           timers == IF sent THEN c.timers \ {"idle"}
                     ELSE IF idle THEN c.timers \cup {"idle"} ELSE c.timers
           d      == [c EXCEPT !.pipeline = filled, !.up = up, !.timers = timers]
<1>1. FillWritePipeline(c, rows) = StartIfNeeded(d)
  BY DEF FillWritePipeline
<1> HIDE DEF filled, up, timers
<1>2. d.state = "Open" /\ d.down = c.down
  BY DEF Store
<1> HIDE DEF d
<1> QED
  BY <1>1, <1>2 DEF StartIfNeeded, IsStarted

LEMMA FillGood ==
    ASSUME NEW a, NEW u, NEW c, Fit(a, c, u), Quiet(c), Sound(c),
           NEW rows \in Seq(Batch), OwnRows(a, rows, u), Backed(c.pipeline, rows)
    PROVE  /\ Good(a, FillWritePipeline(c, rows), u, rows)
           /\ Moves(c, FillWritePipeline(c, rows))
<1> DEFINE e == FillWritePipeline(c, rows)
<1>1. c \in Store /\ Len(c.pipeline) <= kMaxPendingWrites /\ c.pipeline \in Seq(Batch)
  BY StoreFields DEF Fit, Typed
<1>2. /\ e \in Store /\ Sound(e) /\ Moves(c, e)
      /\ e.pipeline = c.pipeline \o Fetched(c.pipeline, rows)
  BY <1>1, FillSound
<1>3. Fit(a, e, u) /\ e.handshake = c.handshake
  BY FillFits
<1>4. c.state = "Open" => e.state = "Open"
  BY <1>1, FillOpen
<1>5. Backed(e.pipeline, rows)
  BY <1>1, <1>2, BackedFetched
<1> HIDE DEF e
<1>6. Good(a, e, u, rows) /\ Moves(c, e)
  BY <1>2, <1>3, <1>4, <1>5 DEF Good, Quiet
<1> QED
  BY <1>6 DEF e

LEMMA BrokenGood ==
    ASSUME NEW a, NEW u, NEW c, NEW rows, Good(a, c, u, rows), IsStarted(c)
    PROVE  Good(a, Broken(c), u, rows) /\ Moves(c, Broken(c))
<1>1. c \in Store /\ c.failed \subseteq Excused /\ Typed(c) /\ OwnRows(a, c.pipeline, u)
  BY DEF Good, Fit, Typed, Own, Sound
<1> QED
  BY <1>1, BrokenFits, BrokenSound DEF Good

LEMMA EndedGood ==
    ASSUME NEW a, NEW u, NEW c, NEW rows, Good(a, c, u, rows), IsStarted(c)
    PROVE  LET d == Ended(c, TRUE, "ended while still needed")
           IN  Good(a, d, u, rows) /\ Moves(c, d)
<1> DEFINE t == "ended while still needed"
           d == Ended(c, TRUE, t)
<1>1. /\ c \in Store /\ Sound(c) /\ OwnRows(a, c.pipeline, u)
      /\ Len(c.pipeline) <= kMaxPendingWrites /\ Backed(c.pipeline, rows)
  BY DEF Good, Fit, Typed, Own
<1>2. t \in Assertion /\ t \in Excused
  BY DEF Assertion, Excused
<1>3. Halted(d) /\ d.pipeline = c.pipeline /\ d.handshake = "pending"
  BY <1>1, <1>2, EndedHalts
<1>4. Sound(d) /\ Moves(c, d)
  BY <1>1, <1>2, EndedSound
<1> HIDE DEF d
<1>5. Fit(a, d, u)
  BY <1>1, <1>3, HaltedFits
<1>6. Good(a, d, u, rows) /\ Moves(c, d)
  BY <1>1, <1>3, <1>4, <1>5 DEF Good, Quiet
<1> QED
  BY <1>6 DEF d

LEMMA RestartGood ==
    ASSUME NEW a, NEW u, NEW c \in Store, Wires(c), Quiet(c), Sound(c),
           NEW rows \in Seq(Batch), OwnRows(a, rows, u), Ordered(rows)
    PROVE  /\ Good(a, RestartNetwork(c, rows), u, rows)
           /\ Moves(c, RestartNetwork(c, rows))
<1> DEFINE g == RestartNetwork(c, rows)
<1>1. Sound(g) /\ Moves(c, g) /\ g.pipeline = Fetched(<<>>, rows)
  BY RestartSound
<1>2. Fit(a, g, u) /\ Quiet(g)
  BY RestartFits
<1>3. Backed(Fetched(<<>>, rows), rows)
  <2>1. <<>> \in Seq(Batch) /\ Len(<<>>) <= kMaxPendingWrites
    BY WritePipelineAssumption
  <2>2. Backed(<<>>, rows)
    BY DEF Backed, Ordered, Within
  <2>3. Backed(<<>> \o Fetched(<<>>, rows), rows) /\ Fetched(<<>>, rows) \in Seq(Batch)
    BY <2>1, <2>2, BackedFetched, FetchedFits
  <2> QED
    BY <2>3, ConcatEmptySeq
<1> QED
  BY <1>1, <1>2, <1>3 DEF Good

LEMMA RefusedGood ==
    ASSUME NEW a, NEW u, NEW c, Fit(a, c, u), Sound(c), IsStarted(c),
           c.pipeline # <<>>, NEW rows \in Seq(Batch), OwnRows(a, rows, u),
           Backed(Tail(c.pipeline), rows)
    PROVE  Good(a, Refused(c, rows), u, rows) /\ Moves(c, Refused(c, rows))
<1> DEFINE h == Refused(c, rows)
           q == Tail(c.pipeline)
<1>1. /\ c \in Store /\ Typed(c) /\ Len(c.pipeline) <= kMaxPendingWrites
      /\ c.pipeline \in Seq(Batch)
  BY StoreFields DEF Fit, Typed
<1>2. q \in Seq(Batch) /\ Len(q) <= kMaxPendingWrites
      /\ \A i \in DOMAIN q : \E j \in DOMAIN c.pipeline : q[i] = c.pipeline[j]
  <2>1. /\ q \in Seq(Batch) /\ Len(q) = Len(c.pipeline) - 1
        /\ \A i \in 1..Len(q) : q[i] = c.pipeline[i + 1]
    BY <1>1, HeadTailProperties
  <2> DEFINE m == Len(q)
             n == Len(c.pipeline)
  <2>2. /\ DOMAIN q = 1..m /\ DOMAIN c.pipeline = 1..n /\ n \in Nat /\ m = n - 1
        /\ n <= kMaxPendingWrites
    BY <1>1, <2>1
  <2> HIDE DEF m, n
  <2>3. /\ \A i \in 1..m : i + 1 \in 1..n
        /\ m <= kMaxPendingWrites
    BY <2>2, WritePipelineAssumption
  <2> HIDE DEF q
  <2> QED
    BY <2>1, <2>2, <2>3 DEF m
<1>3. OwnRows(a, q, u)
  <2>1. OwnRows(a, c.pipeline, u)
    BY DEF Fit, Own
  <2> HIDE DEF q
  <2> QED
    BY <1>2, <2>1 DEF OwnRows
<1>4. Fit(a, h, u) /\ Quiet(h)
  BY <1>1, <1>3, RefusedFits
<1>5. Sound(h) /\ Moves(c, h) /\ h.pipeline = q \o Fetched(q, rows)
  BY <1>1, RefusedSound
<1>6. Backed(q \o Fetched(q, rows), rows)
  BY <1>2, BackedFetched
<1> QED
  BY <1>4, <1>5, <1>6 DEF Good
-----------------------------------------------------------------------------
THEOREM InitInv == Init => IInv
<1> SUFFICES ASSUME Init PROVE IInv
  OBVIOUS
<1>1. /\ account \in User /\ user = account /\ tasks = <<>> /\ nextId = 1
      /\ table = [u \in User |-> <<>>] /\ author = <<>> /\ rs = FreshStore(user)
      /\ left \in Budget
  BY WritePipelineAssumption DEF Init
<1>2. Known
  BY <1>1 DEF Init, Known
<1>3. rs \in Store /\ rs.state = "Initial" /\ rs.up = <<>> /\ rs.down = <<>>
      /\ rs.pipeline = <<>> /\ rs.handshake = "pending"
  BY <1>1 DEF FreshStore, Store
<1>4. Len(rs.pipeline) <= kMaxPendingWrites /\ OwnRows(author, rs.pipeline, user)
  BY <1>3, WritePipelineAssumption DEF OwnRows
<1>5. Good(author, rs, user, table[user]) /\ Tokens(rs, tasks)
  <2>1. Fit(author, rs, user) /\ Quiet(rs)
    BY <1>3, <1>4, HaltedFits DEF Halted, Quiet
  <2>2. Sound(rs)
    BY <1>1 DEF FreshStore, Sound, Timely, IsStarted
  <2>3. table[user] = <<>>
    BY <1>1
  <2>4. Backed(<<>>, <<>>)
    BY DEF Backed, Ordered, Within
  <2>5. Tokens(rs, tasks)
    BY <1>1 DEF FreshStore, Tokens
  <2> QED
    BY <1>3, <2>1, <2>2, <2>3, <2>4, <2>5 DEF Good
<1>6. table \in [User -> Seq(Batch)] /\ tasks \in Seq(Task) /\ author \in Seq(User)
  BY <1>1
<1>7. TypeOK
  BY <1>1, <1>2, <1>3, <1>4, <1>6 DEF TypeOK, Known
<1>8. Len(author) + left.writes <= MaxWrites
  BY <1>1, WritePipelineAssumption DEF Budget
<1>9. Queue(tasks, user, account) /\ OwnTasks(author, tasks)
  BY <1>1 DEF Queue, OwnTasks
<1>10. Filed(author, table, nextId)
  BY <1>1 DEF Filed, OwnRows, Below, Ordered
<1> QED
  BY <1>5, <1>7, <1>8, <1>9, <1>10 DEF IInv

LEMMA Spent ==
    ASSUME NEW what \in {"writes", "losses", "kills", "signIns", "ends"}, left \in Budget,
           Spend(what)
    PROVE  /\ left' \in Budget /\ left'.writes <= left.writes
           /\ what = "writes" => left.writes > 0 /\ left'.writes = left.writes - 1
<1>1. /\ left.writes \in 0..MaxWrites /\ left.losses \in Nat /\ left.kills \in Nat
      /\ left.signIns \in Nat /\ left.ends \in Nat /\ MaxWrites \in Nat
  BY WritePipelineAssumption DEF Budget
<1>2. CASE what = "writes"
  <2>1. left.writes > 0 /\ left' = [left EXCEPT !.writes = @ - 1]
    BY <1>2 DEF Spend
  <2> QED
    BY <1>1, <1>2, <2>1 DEF Budget
<1>3. CASE what = "losses"
  <2>1. left.losses > 0 /\ left' = [left EXCEPT !.losses = @ - 1]
    BY <1>3 DEF Spend
  <2> QED
    BY <1>1, <1>3, <2>1 DEF Budget
<1>4. CASE what = "kills"
  <2>1. left.kills > 0 /\ left' = [left EXCEPT !.kills = @ - 1]
    BY <1>4 DEF Spend
  <2> QED
    BY <1>1, <1>4, <2>1 DEF Budget
<1>5. CASE what = "signIns"
  <2>1. left.signIns > 0 /\ left' = [left EXCEPT !.signIns = @ - 1]
    BY <1>5 DEF Spend
  <2> QED
    BY <1>1, <1>5, <2>1 DEF Budget
<1>6. CASE what = "ends"
  <2>1. left.ends > 0 /\ left' = [left EXCEPT !.ends = @ - 1]
    BY <1>6 DEF Spend
  <2> QED
    BY <1>1, <1>6, <2>1 DEF Budget
<1> QED
  BY <1>2, <1>3, <1>4, <1>5, <1>6

(* A step in the remote store only.                                        *)
LEMMA RemoteStep ==
    ASSUME IInv, UNCHANGED <<account, tasks, user, table, nextId, author>>,
           Known', left'.writes <= left.writes,
           Good(author, rs', user, table[user]), Moves(rs, rs')
    PROVE  IInv'
<1>1. TypeOK'
  BY DEF TypeOK, IInv, Known, Good, Fit, Typed
<1>3. Tokens(rs', tasks)
  <2>1. rs \in Store /\ rs' \in Store
    BY DEF IInv, Good, Fit, Typed
  <2> QED
    BY <2>1, TokensMove DEF IInv
<1>2. Len(author') + left'.writes <= MaxWrites
  <2>1. left.writes \in Nat /\ left'.writes \in Nat /\ Len(author) \in Nat /\ MaxWrites \in Nat
    BY WritePipelineAssumption DEF Known, IInv, TypeOK, Budget
  <2>2. Len(author) + left.writes <= MaxWrites /\ author' = author
    BY DEF IInv
  <2> QED
    BY <2>1, <2>2
<1> QED
  BY <1>1, <1>2, <1>3 DEF IInv

LEMMA KnownStays ==
    ASSUME IInv, UNCHANGED <<handlers, applied, latest, outcome, told>>
    PROVE  /\ left' = left => Known' /\ left'.writes <= left.writes
           /\ left' \in Budget => Known'
<1>1. left.writes \in Nat
  BY DEF IInv, TypeOK, Budget
<1>2. Known
  BY DEF IInv, TypeOK, Known
<1> QED
  BY <1>1, <1>2 DEF Known
-----------------------------------------------------------------------------
(* The wires.                                                              *)
LEMMA ServesInStep ==
    ASSUME NEW p \in Seq(Batch), NEW d \in Seq(Answer), NEW q \in Seq(Request),
           InStep(p, d, q), q # <<>>, NEW t \in Answer, t.kind # "handshake",
           t.write = q[1].write
    PROVE  InStep(p, Append(d, t), Tail(q))
<1> DEFINE e == Append(d, t)
           r == Tail(q)
<1>1. /\ Len(e) = Len(d) + 1 /\ Len(d) \in Nat /\ e[Len(d) + 1] = t
      /\ \A k \in 1..Len(d) : e[k] = d[k]
  BY AppendProperties
<1>2. /\ Len(r) = Len(q) - 1 /\ Len(q) \in Nat /\ Len(r) \in Nat
      /\ \A k \in 1..Len(r) : r[k] = q[k + 1]
  BY HeadTailProperties
<1> HIDE DEF e, r
<1>3. Len(p) = Len(e) + Len(r)
  BY <1>1, <1>2 DEF InStep
<1>4. 1 \in 1..Len(q) /\ q[1].write = p[Len(d) + 1].write
  BY <1>2 DEF InStep
<1>5. ASSUME NEW i \in 1..Len(e)
      PROVE  e[i].kind # "handshake" /\ e[i].write = p[i].write
  <2>1. i \in 1..Len(d) \/ i = Len(d) + 1
    BY <1>1
  <2> QED
    BY <1>1, <1>4, <2>1 DEF InStep
<1>6. ASSUME NEW i \in 1..Len(r)
      PROVE  r[i].kind = "write" /\ r[i].write = p[Len(e) + i].write
  <2>1. i + 1 \in 1..Len(q) /\ Len(e) + i = Len(d) + (i + 1)
    BY <1>1, <1>2
  <2> QED
    BY <1>2, <2>1 DEF InStep
<1>7. InStep(p, e, r)
  BY <1>3, <1>5, <1>6 DEF InStep
<1> QED
  BY <1>7 DEF e, r

LEMMA ReceivesInStep ==
    ASSUME NEW p \in Seq(Batch), NEW d \in Seq(Answer), NEW q \in Seq(Request),
           InStep(p, d, q), d # <<>>
    PROVE  p # <<>> /\ InStep(Tail(p), Tail(d), q)
<1> DEFINE e == Tail(d)
           r == Tail(p)
<1>1. /\ Len(e) = Len(d) - 1 /\ Len(d) \in Nat /\ Len(e) \in Nat
      /\ \A k \in 1..Len(e) : e[k] = d[k + 1]
  BY HeadTailProperties
<1>2. p # <<>> /\ Len(p) \in Nat /\ Len(q) \in Nat /\ Len(p) = Len(d) + Len(q)
  BY <1>1 DEF InStep
<1>3. Len(r) = Len(p) - 1 /\ \A k \in 1..Len(r) : r[k] = p[k + 1]
  BY <1>2, HeadTailProperties
<1> HIDE DEF e, r
<1>4. Len(r) = Len(e) + Len(q)
  BY <1>1, <1>2, <1>3
<1>5. ASSUME NEW i \in 1..Len(e)
      PROVE  e[i].kind # "handshake" /\ e[i].write = r[i].write
  <2>1. i + 1 \in 1..Len(d) /\ i \in 1..Len(r)
    BY <1>1, <1>2, <1>3
  <2> QED
    BY <1>1, <1>3, <2>1 DEF InStep
<1>6. ASSUME NEW i \in 1..Len(q)
      PROVE  q[i].kind = "write" /\ q[i].write = r[Len(e) + i].write
  <2>1. Len(e) + i \in 1..Len(r) /\ (Len(e) + i) + 1 = Len(d) + i
    BY <1>1, <1>2, <1>3
  <2> QED
    BY <1>3, <2>1 DEF InStep
<1>7. InStep(r, e, q)
  BY <1>4, <1>5, <1>6 DEF InStep
<1> QED
  BY <1>2, <1>7 DEF e, r

(* An answer for the first request of a stream.                            *)
LEMMA AnsweredFits ==
    ASSUME NEW a, NEW u, NEW c, Fit(a, c, u), Quiet(c), c.up # <<>>, NEW k,
           \/ k = "handshake" /\ c.up[1].kind = "handshake"
           \/ k \in {"ok", "refused"} /\ c.up[1].kind = "write"
    PROVE  LET d == [c EXCEPT !.up = Tail(@),
                         !.down = Append(@, [kind |-> k, write |-> c.up[1].write])]
           IN Fit(a, d, u) /\ Quiet(d)
<1> DEFINE t == [kind |-> k, write |-> c.up[1].write]
           d == [c EXCEPT !.up = Tail(@), !.down = Append(@, t)]
<1>1. /\ c \in Store /\ Len(c.pipeline) <= kMaxPendingWrites
      /\ Own(a, c, u) /\ Wires(c)
  BY DEF Fit, Typed
<1>2. c.pipeline \in Seq(Batch) /\ c.up \in Seq(Request) /\ c.down \in Seq(Answer)
  BY <1>1, StoreFields
<1>3. c.state = "Open" /\ c.handshake \in {"pending", "complete"}
  BY <1>1, StoreFields DEF Wires
<1>4. c.up[1] \in Request /\ Tail(c.up) \in Seq(Request)
  BY <1>2
<1>5. t \in Answer
  <2>1. CASE k = "handshake" /\ c.up[1].kind = "handshake"
    <3>1. c.up[1].write = 0
      BY <1>4, <2>1 DEF Request
    <3> QED
      BY <2>1, <3>1 DEF Answer
  <2>2. CASE k \in {"ok", "refused"} /\ c.up[1].kind = "write"
    <3>1. c.up[1].write \in Write
      BY <1>4, <2>2 DEF Request
    <3>2. t \in [kind : {"ok", "refused"}, write : Write]
      BY <2>2, <3>1
    <3> QED
      BY <3>2, Zenon DEF Answer
  <2> QED
    BY <2>1, <2>2
<1>6. t.kind = k /\ t.write = c.up[1].write
  OBVIOUS
<1> HIDE DEF t
<1>7. Append(c.down, t) \in Seq(Answer)
  BY <1>2, <1>5, AppendProperties
<1>8. d \in Store
  BY <1>1, <1>4, <1>7 DEF Store
<1>9. /\ d.pipeline = c.pipeline /\ d.up = Tail(c.up) /\ d.down = Append(c.down, t)
      /\ d.state = c.state /\ d.handshake = c.handshake /\ d.session = c.session
  BY <1>1 DEF Store
<1> HIDE DEF d
<1>10. Own(a, d, u)
  <2>1. \A i \in DOMAIN Tail(c.up) : i + 1 \in DOMAIN c.up /\ Tail(c.up)[i] = c.up[i + 1]
    <3>1. /\ Len(Tail(c.up)) = Len(c.up) - 1 /\ Len(c.up) \in Nat
          /\ DOMAIN Tail(c.up) = 1..Len(Tail(c.up)) /\ DOMAIN c.up = 1..Len(c.up)
          /\ \A i \in 1..Len(Tail(c.up)) : Tail(c.up)[i] = c.up[i + 1]
      BY <1>2, <1>4, HeadTailProperties
    <3> DEFINE n == Len(c.up)
               m == Len(Tail(c.up))
    <3>2. n \in Nat /\ m = n - 1
      BY <3>1
    <3> HIDE DEF n, m
    <3>3. \A i \in 1..m : i + 1 \in 1..n
      BY <3>2
    <3> QED
      BY <3>1, <3>3 DEF n, m
  <2> QED
    BY <1>1, <1>9, <2>1 DEF Own
<1>11. Wires(d)
  <2>1. CASE c.handshake = "pending"
    <3>1. c.up = <<Greeting>> /\ c.down = <<>>
      BY <1>1, <1>3, <2>1 DEF Wires
    <3>2. c.up[1] = Greeting /\ k = "handshake"
      BY <3>1 DEF Greeting
    <3>3. t = Greeting
      BY <1>6, <3>2 DEF t, Greeting
    <3>4. Tail(c.up) = <<>> /\ Append(c.down, t) = <<Greeting>>
      BY <3>1, <3>3
    <3> QED
      BY <1>3, <1>9, <2>1, <3>4 DEF Wires
  <2>2. CASE c.handshake = "complete"
    <3>1. InStep(c.pipeline, c.down, c.up)
      BY <1>1, <1>3, <2>2 DEF Wires, Mirrors
    <3>2. c.up[1].kind = "write"
      <4>1. 1 \in 1..Len(c.up)
        BY <1>2
      <4> QED
        BY <3>1, <4>1 DEF InStep
    <3>3. t.kind # "handshake"
      BY <1>6, <3>2
    <3>4. InStep(c.pipeline, Append(c.down, t), Tail(c.up))
      BY <1>2, <1>5, <1>6, <3>1, <3>3, ServesInStep
    <3> QED
      BY <1>3, <1>9, <2>2, <3>4 DEF Wires, Mirrors
  <2> QED
    BY <1>3, <2>1, <2>2
<1>12. Fit(a, d, u) /\ Quiet(d)
  BY <1>1, <1>3, <1>8, <1>9, <1>10, <1>11 DEF Fit, Typed, Quiet
<1> QED
  BY <1>12 DEF d, t

LEMMA WiresOnly ==
    ASSUME NEW a, NEW u, NEW c \in Store, NEW d \in Store, NEW rows,
           Good(a, c, u, rows), Fit(a, d, u), d.pipeline = c.pipeline,
           d.timers = c.timers, d.state = c.state, d.handshake = c.handshake,
           d.failed = c.failed, d.closeCount = c.closeCount, d.asks = c.asks
    PROVE  Good(a, d, u, rows) /\ Moves(c, d)
<1>1. Sound(d) /\ Quiet(d)
  BY DEF Good, Sound, Timely, IsStarted, CanWrite, Quiet
<1>2. Moves(c, d)
  BY Unmoved
<1> QED
  BY <1>1, <1>2 DEF Good

LEMMA AnsweredGood ==
    ASSUME NEW a, NEW u, NEW c, NEW rows, Good(a, c, u, rows), c.up # <<>>, NEW k,
           \/ k = "handshake" /\ c.up[1].kind = "handshake"
           \/ k \in {"ok", "refused"} /\ c.up[1].kind = "write"
    PROVE  LET d == [c EXCEPT !.up = Tail(@),
                         !.down = Append(@, [kind |-> k, write |-> c.up[1].write])]
           IN Good(a, d, u, rows) /\ Moves(c, d)
<1> DEFINE t == [kind |-> k, write |-> c.up[1].write]
           d == [c EXCEPT !.up = Tail(@), !.down = Append(@, t)]
<1>1. c \in Store /\ Fit(a, c, u) /\ Quiet(c)
  BY DEF Good, Fit, Typed
<1>2. Fit(a, d, u)
  BY <1>1, AnsweredFits
<1>3. d \in Store
  BY <1>2 DEF Fit, Typed
<1>4. /\ d.pipeline = c.pipeline /\ d.timers = c.timers /\ d.state = c.state
      /\ d.handshake = c.handshake /\ d.failed = c.failed
      /\ d.closeCount = c.closeCount /\ d.asks = c.asks
  BY <1>1 DEF Store
<1> HIDE DEF d
<1>5. Good(a, d, u, rows) /\ Moves(c, d)
  BY <1>1, <1>2, <1>3, <1>4, WiresOnly
<1> QED
  BY <1>5 DEF d, t
-----------------------------------------------------------------------------
(* The steps of the service and of the remote store.                       *)
LEMMA ServiceInv ==
    ASSUME IInv, ServeHandshake \/ ServeWrite \/ RefuseWrite
    PROVE  IInv'
<1>1. UNCHANGED <<account, tasks, user, table, nextId, author>>
  BY DEF ServeHandshake, ServeWrite, RefuseWrite, local, history
<1>2. Good(author, rs, user, table[user])
  BY DEF IInv
<1>3. CASE ServeHandshake
  <2>1. Good(author, rs', user, table[user]) /\ Moves(rs, rs')
    BY <1>2, <1>3, AnsweredGood DEF ServeHandshake, Serves, Answers
  <2>2. Known' /\ left'.writes <= left.writes
    BY <1>3, KnownStays DEF ServeHandshake, local, service, history
  <2> QED
    BY <1>1, <2>1, <2>2, RemoteStep
<1>4. CASE RefuseWrite
  <2>1. Good(author, rs', user, table[user]) /\ Moves(rs, rs')
    BY <1>2, <1>4, AnsweredGood DEF RefuseWrite, Serves, Answers
  <2>2. Known' /\ left'.writes <= left.writes
    BY <1>4, KnownStays DEF RefuseWrite, local, service, history
  <2> QED
    BY <1>1, <2>1, <2>2, RemoteStep
<1>5. CASE ServeWrite
  <2>1. Good(author, rs', user, table[user]) /\ Moves(rs, rs')
    BY <1>2, <1>5, AnsweredGood DEF ServeWrite, Serves, Answers
  <2>2. rs.up[1].write \in Write
    <3>1. rs.up \in Seq(Request) /\ rs.up # <<>> /\ rs.up[1].kind = "write"
      BY <1>2, <1>5, StoreFields DEF ServeWrite, Serves, Good, Fit, Typed
    <3>2. rs.up[1] \in Request
      BY <3>1
    <3> QED
      BY <3>1, <3>2 DEF Request
  <2>3. Known
    BY DEF IInv, TypeOK, Known
  <2>4. /\ applied' = applied \cup {rs.up[1].write}
        /\ latest' = [latest EXCEPT ![rs.session] = rs.up[1].write]
        /\ UNCHANGED <<handlers, outcome, told, left>>
    BY <1>5 DEF ServeWrite, local, history
  <2>5. Known' /\ left'.writes <= left.writes
    <3>1. left.writes \in Nat
      BY <2>3 DEF Known, Budget
    <3>2. applied' \subseteq Write
      BY <2>2, <2>3, <2>4 DEF Known
    <3>3. latest' \in [User -> Write \cup {0}]
      BY <2>2, <2>3, <2>4 DEF Known
    <3> QED
      BY <2>3, <2>4, <3>1, <3>2, <3>3 DEF Known
  <2> QED
    BY <1>1, <2>1, <2>5, RemoteStep
<1> QED
  BY <1>3, <1>4, <1>5

LEMMA HandshakeInv ==
    ASSUME IInv, ReceiveHandshake
    PROVE  IInv'
<1> DEFINE reqs == WriteRequests(rs.pipeline)
           timers == IF rs.pipeline = <<>> THEN rs.timers ELSE rs.timers \ {"idle"}
           r == [rs EXCEPT !.down = Tail(@)]
           d == [r EXCEPT !.handshake = "complete", !.timers = timers,
                     !.up = rs.up \o reqs]
<1>1. Known' /\ left'.writes <= left.writes
  BY KnownStays DEF ReceiveHandshake, local, service, history
<1>2. UNCHANGED <<account, tasks, user, table, nextId, author>>
  BY DEF ReceiveHandshake, local, history
<1>3. /\ rs \in Store /\ Len(rs.pipeline) <= kMaxPendingWrites
      /\ Own(author, rs, user) /\ Wires(rs) /\ Quiet(rs)
  BY DEF IInv, Good, Fit, Typed
<1>4. /\ rs.pipeline \in Seq(Batch) /\ rs.down \in Seq(Answer) /\ rs.timers \in SUBSET Timer
      /\ rs.handshake \in {"pending", "complete"}
  BY <1>3, StoreFields
<1>5. rs.down # <<>> /\ rs.down[1].kind = "handshake"
  BY DEF ReceiveHandshake, Receives
<1>6. rs.state = "Open"
  BY <1>3, <1>5 DEF Wires
<1>7. rs.handshake = "pending"
  <2>1. ASSUME rs.handshake = "complete" PROVE FALSE
    <3>1. InStep(rs.pipeline, rs.down, rs.up)
      BY <1>3, <1>6, <2>1 DEF Wires, Mirrors
    <3>2. 1 \in 1..Len(rs.down)
      BY <1>4, <1>5
    <3> QED
      BY <1>5, <3>1, <3>2 DEF InStep
  <2> QED
    BY <1>4, <2>1
<1>8. rs.up = <<>> /\ rs.down = <<Greeting>>
  BY <1>3, <1>5, <1>6, <1>7 DEF Wires
<1>9. /\ reqs \in Seq(Request) /\ Len(reqs) = Len(rs.pipeline)
      /\ \A i \in 1..Len(rs.pipeline) : /\ reqs[i].kind = "write"
                                        /\ reqs[i].write = rs.pipeline[i].write
  BY <1>4, RequestsOf
<1>10. rs' = d
  <2>1. Received = r
    BY <1>6 DEF Received, HardAssert, IsStarted
  <2> HIDE DEF r
  <2>2. r.timers = rs.timers /\ r.up = rs.up
    BY <1>3 DEF r, Store
  <2> QED
    BY <1>6, <2>1, <2>2 DEF ReceiveHandshake, HardAssert
<1>11. Tail(rs.down) = <<>> /\ rs.up \o reqs = reqs
  <2>1. Tail(rs.down) = <<>>
    BY <1>8
  <2>2. rs.up \o reqs = reqs
    BY <1>8, <1>9, ConcatEmptySeq
  <2> QED
    BY <2>1, <2>2
<1>12. timers \in SUBSET Timer
  BY <1>4
<1> HIDE DEF reqs, timers
<1>13. r \in Store /\ d \in Store
  <2>1. rs.up \o reqs \in Seq(Request) /\ Tail(rs.down) \in Seq(Answer)
    <3>1. <<>> \in Seq(Answer)
      OBVIOUS
    <3> QED
      BY <1>9, <1>11, <3>1
  <2>2. r \in Store
    BY <1>3, <2>1 DEF Store
  <2> HIDE DEF r
  <2>3. d \in Store
    BY <1>12, <2>1, <2>2 DEF Store
  <2> QED
    BY <2>2, <2>3
<1>14. /\ d.pipeline = rs.pipeline /\ d.up = reqs /\ d.down = <<>> /\ d.state = "Open"
       /\ d.handshake = "complete" /\ d.session = rs.session
  BY <1>3, <1>6, <1>11 DEF Store
<1> HIDE DEF d
<1>15. InStep(rs.pipeline, <<>>, reqs)
  <2>1. Len(<<>>) = 0 /\ Len(rs.pipeline) \in Nat
    BY <1>4
  <2>2. /\ Len(rs.pipeline) = 0 + Len(reqs) /\ 1..0 = {}
        /\ \A i \in 1..Len(reqs) : 0 + i = i
    BY <1>9, <2>1
  <2> QED
    BY <1>9, <2>1, <2>2 DEF InStep
<1>16. \A i \in DOMAIN reqs : By(author, reqs[i].write, user)
  <2>1. DOMAIN reqs = 1..Len(rs.pipeline) /\ DOMAIN rs.pipeline = 1..Len(rs.pipeline)
    BY <1>4, <1>9
  <2> QED
    BY <1>3, <1>9, <2>1 DEF Own, OwnRows
<1>17. Own(author, d, user)
  BY <1>3, <1>6, <1>14, <1>16 DEF Own
<1>18. Fit(author, d, user) /\ Quiet(d)
  BY <1>3, <1>13, <1>14, <1>15, <1>17 DEF Fit, Typed, Wires, Mirrors, Quiet
<1>19. Sound(rs) /\ Backed(rs.pipeline, table[user])
  BY DEF IInv, Good
<1>20. /\ d.timers = timers /\ d.failed = rs.failed /\ d.closeCount = rs.closeCount
       /\ d.asks = rs.asks
  BY <1>3 DEF d, Store
<1>21. Sound(d) /\ Moves(rs, d)
  <2>1. "idle" \notin timers \/ rs.pipeline = <<>>
    BY <1>19 DEF timers, Sound, Timely
  <2>2. "backoff" \notin timers
    BY <1>6, <1>19 DEF timers, Sound, Timely
  <2>3. Sound(d)
    BY <1>6, <1>14, <1>19, <1>20, <2>1, <2>2 DEF Sound, Timely, IsStarted, CanWrite
  <2> QED
    BY <1>3, <1>6, <1>14, <1>20, <2>3, Unmoved
<1>22. Good(author, d, user, table[user])
  BY <1>14, <1>18, <1>19, <1>21 DEF Good
<1> QED
  BY <1>1, <1>2, <1>10, <1>21, <1>22, RemoteStep

LEMMA BackoffInv ==
    ASSUME IInv, BackoffElapses
    PROVE  IInv'
<1> DEFINE t == [rs EXCEPT !.timers = @ \ {"backoff"}, !.state = "Initial"]
<1>1. UNCHANGED <<account, tasks, user, table, nextId, author>>
  BY DEF BackoffElapses, local, history
<1>2. Known' /\ left'.writes <= left.writes
  BY KnownStays DEF BackoffElapses, local, service, history
<1>3. /\ rs \in Store /\ Fit(author, rs, user) /\ Quiet(rs) /\ Sound(rs)
      /\ Backed(rs.pipeline, table[user]) /\ Len(rs.pipeline) <= kMaxPendingWrites
  BY DEF IInv, Good, Fit, Typed
<1>4. rs.state = "Backoff" /\ rs.pipeline # <<>> /\ rs.failed \subseteq Excused
  BY <1>3 DEF BackoffElapses, Sound, Timely, IsStarted, CanWrite
<1>5. rs' = Start(t)
  BY <1>4 DEF BackoffElapses, HardAssert
<1>6. rs.timers \ {"backoff"} \in SUBSET Timer
  BY <1>3, StoreFields
<1>7. t \in Store
  BY <1>3, <1>6 DEF Store
<1>8. /\ t.pipeline = rs.pipeline /\ t.timers = rs.timers \ {"backoff"}
      /\ t.state = "Initial" /\ t.handshake = rs.handshake /\ t.failed = rs.failed
      /\ t.closeCount = rs.closeCount /\ t.asks = rs.asks /\ t.up = rs.up
      /\ t.down = rs.down
  BY <1>3 DEF Store
<1> HIDE DEF t
<1>9. Halted(t) /\ OwnRows(author, t.pipeline, user) /\ t.handshake = "pending"
  BY <1>3, <1>4, <1>7, <1>8 DEF Halted, Fit, Own, Wires, Quiet
<1>10. Fit(author, t, user) /\ ~IsStarted(t)
  BY <1>3, <1>8, <1>9, HaltedFits DEF IsStarted
<1>11. Sound(t)
  BY <1>3, <1>4, <1>8 DEF Sound, Timely, IsStarted
<1>12. Moves(rs, t)
  BY <1>3, <1>4, <1>8, StoreFields DEF Moves
<1> DEFINE e == Start(t)
<1>13. Fit(author, e, user) /\ e.handshake = t.handshake /\ e.pipeline = t.pipeline
  BY <1>10, StartFits
<1>14. e \in Store /\ Sound(e) /\ Moves(t, e)
  BY <1>4, <1>7, <1>8, <1>10, <1>11, StartSound
<1> HIDE DEF e
<1>15. Moves(rs, e)
  BY <1>3, <1>7, <1>12, <1>14, MovesOn
<1>16. Good(author, e, user, table[user])
  BY <1>3, <1>8, <1>9, <1>13, <1>14 DEF Good, Quiet
<1>17. rs' = e
  BY <1>5 DEF e
<1> QED
  BY <1>1, <1>2, <1>15, <1>16, <1>17, RemoteStep

LEMMA IdleInv ==
    ASSUME IInv, IdleElapses
    PROVE  IInv'
<1> DEFINE t == [rs EXCEPT !.timers = @ \ {"idle"}]
<1>1. UNCHANGED <<account, tasks, user, table, nextId, author>>
  BY DEF IdleElapses, local, history
<1>2. Known' /\ left'.writes <= left.writes
  BY KnownStays DEF IdleElapses, local, service, history
<1>3. /\ rs \in Store /\ Fit(author, rs, user) /\ Quiet(rs) /\ Sound(rs)
      /\ Backed(rs.pipeline, table[user]) /\ Len(rs.pipeline) <= kMaxPendingWrites
  BY DEF IInv, Good, Fit, Typed
<1>4. rs.state = "Open" /\ rs.pipeline = <<>> /\ rs.failed \subseteq Excused /\ CanWrite(rs)
  BY <1>3 DEF IdleElapses, Sound, Timely, IsStarted
<1>5. rs' = Stop(t, TRUE)
  BY DEF IdleElapses
<1>6. rs.timers \ {"idle"} \in SUBSET Timer
  BY <1>3, StoreFields
<1>7. t \in Store
  BY <1>3, <1>6 DEF Store
<1>8. /\ t.pipeline = rs.pipeline /\ t.timers = rs.timers \ {"idle"}
      /\ t.state = rs.state /\ t.handshake = rs.handshake /\ t.failed = rs.failed
      /\ t.closeCount = rs.closeCount /\ t.asks = rs.asks /\ t.up = rs.up
      /\ t.down = rs.down
  BY <1>3 DEF Store
<1> HIDE DEF t
<1>9. Wires(t) /\ Quiet(t)
  BY <1>3, <1>8 DEF Fit, Wires, Mirrors, Quiet
<1>10. Sound(t)
  BY <1>3, <1>4, <1>8 DEF Sound, Timely, CanWrite
<1>11. Moves(rs, t)
  BY <1>3, <1>8, Unmoved
<1> DEFINE e == Stop(t, TRUE)
<1>12. /\ e \in Store /\ Sound(e) /\ Moves(t, e) /\ ~IsStarted(e)
       /\ e.pipeline = t.pipeline
  BY <1>4, <1>7, <1>8, <1>10, StopSound
<1>13. Halted(e) /\ e.handshake = "pending"
  BY <1>7, <1>9, StopHalts
<1> HIDE DEF e
<1>14. Fit(author, e, user)
  BY <1>3, <1>8, <1>12, <1>13, HaltedFits DEF Fit, Own
<1>15. Moves(rs, e)
  BY <1>3, <1>7, <1>11, <1>12, MovesOn
<1>16. Good(author, e, user, table[user])
  BY <1>3, <1>8, <1>12, <1>13, <1>14 DEF Good, Quiet
<1>17. rs' = e
  BY <1>5 DEF e
<1> QED
  BY <1>1, <1>2, <1>15, <1>16, <1>17, RemoteStep

LEMMA LossInv ==
    ASSUME IInv, LoseStream \/ EndStream \/ ChangeNetwork
    PROVE  IInv'
<1>1. UNCHANGED <<account, tasks, user, table, nextId, author>>
  BY DEF LoseStream, EndStream, ChangeNetwork, local, history
<1>2. left' \in Budget /\ left'.writes <= left.writes
  <2>1. left \in Budget
    BY DEF IInv, TypeOK
  <2> QED
    BY <2>1, Spent DEF LoseStream, EndStream, ChangeNetwork
<1>3. Known'
  BY <1>2, KnownStays DEF LoseStream, EndStream, ChangeNetwork, local, service, history
<1>4. Good(author, rs, user, table[user])
  BY DEF IInv
<1>5. Good(author, rs', user, table[user]) /\ Moves(rs, rs')
  <2>1. CASE LoseStream
    BY <1>4, <2>1, BrokenGood DEF LoseStream, IsStarted
  <2>2. CASE ChangeNetwork
    <3>1. /\ table[user] \in Seq(Batch) /\ OwnRows(author, table[user], user)
          /\ Ordered(table[user])
      BY DEF IInv, TypeOK, Filed
    <3>2. rs \in Store /\ Wires(rs) /\ Quiet(rs) /\ Sound(rs)
      BY <1>4 DEF Good, Fit, Typed
    <3> QED
      BY <2>2, <3>1, <3>2, RestartGood DEF ChangeNetwork
  <2>3. CASE EndStream
    BY <1>4, <2>3, EndedGood DEF EndStream, IsStarted
  <2> QED
    BY <2>1, <2>2, <2>3
<1> QED
  BY <1>1, <1>2, <1>3, <1>5, RemoteStep
-----------------------------------------------------------------------------
(* The calls of the app, the sign-in and the tasks of the worker queue.    *)
LEMMA TaskTypes ==
    /\ \A u \in User, n \in Write : [kind |-> "write", user |-> u, number |-> n] \in Task
    /\ \A u \in User : [kind |-> "user", user |-> u, number |-> 0] \in Task
    /\ \A u \in User, n \in Nat, k \in TokenKinds :
           [kind |-> k, user |-> u, number |-> n] \in Task
<1>1. ASSUME NEW u \in User, NEW n \in Write
      PROVE  [kind |-> "write", user |-> u, number |-> n] \in Task
  <2>1. [kind |-> "write", user |-> u, number |-> n]
            \in [kind : {"write"}, user : User, number : Write]
    OBVIOUS
  <2> QED
    BY <2>1, Zenon DEF Task
<1>2. ASSUME NEW u \in User
      PROVE  [kind |-> "user", user |-> u, number |-> 0] \in Task
  <2>1. [kind |-> "user", user |-> u, number |-> 0]
            \in [kind : {"user"}, user : User, number : {0}]
    OBVIOUS
  <2> QED
    BY <2>1, Zenon DEF Task
<1>3. ASSUME NEW u \in User, NEW n \in Nat, NEW k \in TokenKinds
      PROVE  [kind |-> k, user |-> u, number |-> n] \in Task
  <2>1. [kind |-> k, user |-> u, number |-> n]
            \in [kind : {"token", "noToken"}, user : User, number : Nat]
    BY DEF TokenKinds
  <2> QED
    BY <2>1, Zenon DEF Task
<1> QED
  BY <1>1, <1>2, <1>3

LEMMA TaskFields ==
    ASSUME NEW t \in Task
    PROVE  /\ t.user \in User /\ t.kind \in {"write", "user", "token", "noToken"}
           /\ t.kind = "write" => t.number \in Write
           /\ t.kind \in TokenKinds => t.number \in Nat
  BY DEF Task, TokenKinds

LEMMA AskWriteInv ==
    ASSUME IInv, AskWrite
    PROVE  IInv'
<1>1. /\ author \in Seq(User) /\ account \in User /\ tasks \in Seq(Task)
      /\ left \in Budget /\ Len(author) + left.writes <= MaxWrites
      /\ Queue(tasks, user, account) /\ OwnTasks(author, tasks)
      /\ Filed(author, table, nextId) /\ Good(author, rs, user, table[user])
      /\ Tokens(rs, tasks)
  BY DEF IInv, TypeOK
<1>2. /\ author' = Append(author, account)
      /\ tasks' = Append(tasks, [kind |-> "write", user |-> account,
                                 number |-> Len(author')])
      /\ UNCHANGED <<account, user, table, nextId, handlers, rs, applied, latest,
                     outcome, told>>
  BY DEF AskWrite, local, service
<1>3. left' \in Budget /\ left.writes > 0 /\ left'.writes = left.writes - 1
  BY <1>1, Spent DEF AskWrite
<1>4. /\ author' \in Seq(User) /\ Len(author') = Len(author) + 1
      /\ By(author', Len(author'), account)
      /\ \A w, u : By(author, w, u) => By(author', w, u)
  BY <1>1, <1>2, ByGrows
<1>5. Len(author') \in Write /\ Len(author') + left'.writes <= MaxWrites
  <2>1. /\ Len(author) \in Nat /\ left.writes \in Nat /\ MaxWrites \in Nat
    BY <1>1, WritePipelineAssumption DEF Budget
  <2> DEFINE n == Len(author)
             m == Len(author')
             x == left.writes
             y == left'.writes
  <2>2. /\ n \in Nat /\ x \in Nat /\ MaxWrites \in Nat /\ m = n + 1 /\ y = x - 1
        /\ x > 0 /\ n + x <= MaxWrites
    BY <1>1, <1>3, <1>4, <2>1
  <2> HIDE DEF n, m, x, y
  <2>3. m \in 1..MaxWrites /\ m + y <= MaxWrites
    BY <2>2
  <2> QED
    BY <2>3 DEF n, m, x, y, Write
<1> DEFINE t == [kind |-> "write", user |-> account, number |-> Len(author')]
<1>6. /\ t \in Task /\ t.kind = "write" /\ t.user = account
      /\ t.number = Len(author') /\ t.kind \notin TokenKinds
  BY <1>1, <1>5, TaskTypes DEF TokenKinds
<1>7. tasks' = Append(tasks, t)
  BY <1>2
<1> HIDE DEF t
<1>8. tasks' \in Seq(Task) /\ Queue(tasks', user, account) /\ Tokens(rs, tasks')
  BY <1>1, <1>6, <1>7, QueueGrows, TokensGrow, AppendProperties
<1>9. OwnTasks(author', tasks')
  <2>1. OwnTasks(author', tasks)
    BY <1>1, <1>4, AllGrow
  <2> QED
    BY <1>1, <1>4, <1>6, <1>7, <2>1, TasksGrow
<1>10. Filed(author', table, nextId) /\ Good(author', rs, user, table[user])
  BY <1>1, <1>4, AllGrow DEF Good
<1>11. TypeOK'
  BY <1>2, <1>3, <1>4, <1>8 DEF IInv, TypeOK
<1> QED
  BY <1>2, <1>5, <1>8, <1>9, <1>10, <1>11 DEF IInv

LEMMA SignInInv ==
    ASSUME IInv, NEW u \in User, SignIn(u)
    PROVE  IInv'
<1>1. /\ tasks \in Seq(Task) /\ left \in Budget
      /\ Queue(tasks, user, account) /\ OwnTasks(author, tasks) /\ Tokens(rs, tasks)
  BY DEF IInv, TypeOK
<1> DEFINE t == [kind |-> "user", user |-> u, number |-> 0]
<1>2. /\ account' = u /\ tasks' = Append(tasks, t)
      /\ UNCHANGED <<user, table, nextId, handlers, rs, applied, latest,
                     author, outcome, told>>
  BY DEF SignIn, local, service, history
<1>3. left' \in Budget /\ left'.writes <= left.writes
  BY <1>1, Spent DEF SignIn
<1>4. t \in Task /\ t.kind = "user" /\ t.user = u /\ t.kind \notin TokenKinds
  BY TaskTypes DEF TokenKinds
<1> HIDE DEF t
<1>5. tasks' \in Seq(Task) /\ Queue(tasks', user, account') /\ Tokens(rs, tasks')
  BY <1>1, <1>2, <1>4, QueueGrows, TokensGrow, AppendProperties
<1>6. OwnTasks(author, tasks')
  BY <1>1, <1>2, <1>4, TasksGrow
<1>7. Len(author) + left'.writes <= MaxWrites
  <2>1. /\ left.writes \in Nat /\ left'.writes \in Nat /\ Len(author) \in Nat
        /\ MaxWrites \in Nat /\ Len(author) + left.writes <= MaxWrites
    BY <1>1, <1>3, WritePipelineAssumption DEF Budget, IInv, TypeOK
  <2> QED
    BY <1>3, <2>1
<1>8. TypeOK'
  BY <1>2, <1>3, <1>5 DEF IInv, TypeOK
<1> QED
  BY <1>2, <1>5, <1>6, <1>7, <1>8 DEF IInv

LEMMA GiveTokenInv ==
    ASSUME IInv, NEW n \in rs.asks, GiveToken(n)
    PROVE  IInv'
<1>1. /\ tasks \in Seq(Task) /\ left \in Budget /\ account \in User
      /\ Queue(tasks, user, account) /\ OwnTasks(author, tasks) /\ Tokens(rs, tasks)
      /\ Good(author, rs, user, table[user]) /\ rs \in Store /\ Fit(author, rs, user)
      /\ Len(rs.pipeline) <= kMaxPendingWrites
  BY DEF IInv, TypeOK, Good
<1>2. PICK k \in TokenKinds :
          /\ IF k = "noToken" THEN Spend("losses") ELSE UNCHANGED left
          /\ tasks' = Append(tasks, [kind |-> k, user |-> account, number |-> n])
  BY DEF GiveToken, TokenKinds
<1> DEFINE t == [kind |-> k, user |-> account, number |-> n]
           d == [rs EXCEPT !.asks = @ \ {n}]
<1>3. /\ rs' = d
      /\ UNCHANGED <<account, user, table, nextId, handlers, applied, latest,
                     author, outcome, told>>
  BY DEF GiveToken, local, service, history
<1>4. left' \in Budget /\ left'.writes <= left.writes
  <2>1. left.writes \in Nat
    BY <1>1 DEF Budget
  <2>2. CASE k = "noToken"
    BY <1>1, <1>2, <2>2, Spent
  <2>3. CASE k # "noToken"
    BY <1>1, <1>2, <2>1, <2>3
  <2> QED
    BY <2>2, <2>3
<1>5. n \in Nat
  BY <1>1, StoreFields
<1>6. /\ t \in Task /\ t.kind \in TokenKinds /\ t.kind # "write" /\ t.user = account
      /\ t.number = n
  BY <1>1, <1>5, TaskTypes DEF TokenKinds
<1>7. tasks' = Append(tasks, t)
  BY <1>2
<1>8. rs.asks \ {n} \in SUBSET Nat
  BY <1>1, StoreFields
<1>9. d \in Store
  BY <1>1, <1>8 DEF Store
<1>10. /\ d.pipeline = rs.pipeline /\ d.timers = rs.timers /\ d.state = rs.state
       /\ d.handshake = rs.handshake /\ d.failed = rs.failed /\ d.up = rs.up
       /\ d.down = rs.down /\ d.session = rs.session
       /\ d.closeCount = rs.closeCount /\ d.asks = rs.asks \ {n}
  BY <1>1 DEF Store
<1> HIDE DEF t, d
<1>11. Tokens(d, tasks')
  BY <1>1, <1>6, <1>7, <1>10, TokensGiven
<1>12. tasks' \in Seq(Task) /\ Queue(tasks', user, account)
  BY <1>1, <1>6, <1>7, QueueGrows, AppendProperties
<1>13. OwnTasks(author, tasks')
  BY <1>1, <1>6, <1>7, TasksGrow
<1>14. Fit(author, d, user)
  <2>1. Typed(d) /\ Own(author, d, user)
    BY <1>1, <1>9, <1>10 DEF Fit, Typed, Own
  <2>2. Wires(d)
    BY <1>1, <1>10 DEF Fit, Wires, Mirrors
  <2> QED
    BY <2>1, <2>2 DEF Fit
<1>15. Good(author, d, user, table[user])
  BY <1>1, <1>10, <1>14 DEF Good, Quiet, Sound, Timely, IsStarted, CanWrite
<1>16. Len(author) + left'.writes <= MaxWrites
  <2>1. /\ left.writes \in Nat /\ left'.writes \in Nat /\ Len(author) \in Nat
        /\ MaxWrites \in Nat /\ Len(author) + left.writes <= MaxWrites
    BY <1>1, <1>4, WritePipelineAssumption DEF Budget, IInv, TypeOK
  <2> QED
    BY <1>4, <2>1
<1>17. TypeOK'
  BY <1>1, <1>3, <1>4, <1>9, <1>10, <1>12 DEF IInv, TypeOK
<1> QED
  BY <1>3, <1>11, <1>12, <1>13, <1>15, <1>16, <1>17 DEF IInv

(* The first task is taken; if it is no change of user, it is of the user. *)
LEMMA TaskTaken ==
    ASSUME IInv, tasks # <<>>
    PROVE  /\ tasks[1] \in Task /\ Tail(tasks) \in Seq(Task)
           /\ Queue(Tail(tasks), tasks[1].user, account)
           /\ OwnTasks(author, Tail(tasks)) /\ Tokens(rs, Tail(tasks))
           /\ tasks[1].kind # "user" => tasks[1].user = user
           /\ tasks[1].kind = "write" => By(author, tasks[1].number, tasks[1].user)
<1>1. /\ tasks \in Seq(Task) /\ Queue(tasks, user, account)
      /\ OwnTasks(author, tasks) /\ Tokens(rs, tasks)
  BY DEF IInv, TypeOK
<1>2. 1 \in 1..Len(tasks)
  BY <1>1
<1>3. tasks[1].kind # "user" => tasks[1].user = user
  BY <1>1, <1>2 DEF Queue
<1> QED
  BY <1>1, <1>3, QueueShrinks, TasksShrink, TokensShrink

LEMMA FileWriteInv ==
    ASSUME IInv, FileWrite
    PROVE  IInv'
<1> DEFINE w == tasks[1].number
           b == [id |-> nextId, write |-> w]
           rows == table[user]
<1>1. /\ tasks # <<>> /\ tasks[1].kind = "write" /\ tasks' = Tail(tasks)
  BY DEF FileWrite, Runs
<1>2. /\ table' = [table EXCEPT ![user] = Put(@, b)]
      /\ handlers' = [handlers EXCEPT ![user] =
             IF \E h \in @ : h.id = nextId THEN @ ELSE @ \cup {b}]
      /\ nextId' = nextId + 1 /\ rs' = FillWritePipeline(rs, table'[user])
      /\ UNCHANGED <<account, user, applied, latest, author, outcome, told, left>>
  BY DEF FileWrite, service, history
<1>3. /\ user \in User /\ nextId \in Nat /\ table \in [User -> Seq(Batch)]
      /\ Filed(author, table, nextId) /\ Good(author, rs, user, rows)
      /\ handlers \in [User -> SUBSET Batch]
  BY DEF IInv, TypeOK
<1>4. w \in Write /\ tasks[1].user = user /\ By(author, w, user)
  BY <1>1, TaskTaken, TaskFields
<1>5. b \in Batch /\ b.id = nextId /\ b.write = w
  BY <1>3, <1>4 DEF Batch
<1> HIDE DEF b, w
<1>6. /\ rows \in Seq(Batch) /\ OwnRows(author, rows, user) /\ Below(rows, nextId)
      /\ Ordered(rows)
  BY <1>3 DEF Filed
<1> DEFINE new == Put(rows, b)
<1>7. nextId + 1 \in Nat /\ nextId < nextId + 1
  BY <1>3
<1>8. \A u \in User : Below(table[u], nextId + 1)
  <2>1. \A u \in User : \A k \in DOMAIN table[u] : table[u][k] \in Batch
    BY <1>3
  <2>2. \A u \in User : \A k \in DOMAIN table[u] :
            table[u][k].id \in Nat /\ table[u][k].id < nextId
    BY <1>3, <2>1 DEF Filed, Below, Batch
  <2> QED
    BY <1>3, <2>2 DEF Below
<1>9. /\ new \in Seq(Batch) /\ OwnRows(author, new, user) /\ Below(new, nextId + 1)
  BY <1>3, <1>4, <1>5, <1>6, <1>7, <1>8, PutFits
<1>10. /\ Fit(author, rs, user) /\ Quiet(rs) /\ Sound(rs) /\ rs \in Store
       /\ Backed(rs.pipeline, rows) /\ rs.pipeline \in Seq(Batch)
  BY <1>3, StoreFields DEF Good, Fit, Typed
<1>11. Backed(rs.pipeline, new)
  BY <1>5, <1>6, <1>10, BackedPut
<1>12. table'[user] = new /\ \A u \in User \ {user} : table'[u] = table[u]
  BY <1>2, <1>3
<1>13. table' \in [User -> Seq(Batch)]
  BY <1>2, <1>3, <1>9
<1> HIDE DEF new
<1>14. Good(author, rs', user, new) /\ Moves(rs, rs')
  BY <1>2, <1>9, <1>10, <1>11, <1>12, FillGood
<1>15. Filed(author, table', nextId + 1)
  <2>1. Ordered(new)
    BY <1>11 DEF Backed
  <2>2. \A u \in User \ {user} : OwnRows(author, table'[u], u)
                                 /\ Below(table'[u], nextId + 1) /\ Ordered(table'[u])
    BY <1>3, <1>8, <1>12 DEF Filed
  <2> QED
    BY <1>9, <1>12, <2>1, <2>2 DEF Filed
<1>16. /\ tasks' \in Seq(Task) /\ Queue(tasks', user, account)
       /\ OwnTasks(author, tasks') /\ Tokens(rs, tasks')
  BY <1>1, <1>4, TaskTaken
<1>17. rs' \in Store /\ Len(rs'.pipeline) <= kMaxPendingWrites
  BY <1>14 DEF Good, Fit, Typed
<1>18. Tokens(rs', tasks')
  BY <1>10, <1>14, <1>16, <1>17, TokensMove
<1>19. handlers' \in [User -> SUBSET Batch]
  BY <1>2, <1>3, <1>5
<1>20. TypeOK'
  BY <1>2, <1>7, <1>13, <1>16, <1>17, <1>19 DEF IInv, TypeOK
<1> QED
  BY <1>2, <1>12, <1>14, <1>15, <1>16, <1>18, <1>20 DEF IInv

LEMMA ChangeUserInv ==
    ASSUME IInv, ChangeUser
    PROVE  IInv'
<1>1. /\ tasks # <<>> /\ tasks[1].kind = "user" /\ tasks' = Tail(tasks)
      /\ user' = tasks[1].user
      /\ nextId' = IF user' # user THEN NextIdOf(table) ELSE nextId
      /\ rs' = RestartNetwork(rs, table[user'])
      /\ UNCHANGED <<account, table, handlers, applied, latest, author, outcome,
                     told, left>>
  BY DEF ChangeUser, Runs, service, history
<1>2. /\ nextId \in Nat /\ table \in [User -> Seq(Batch)]
      /\ Filed(author, table, nextId) /\ Good(author, rs, user, table[user])
  BY DEF IInv, TypeOK
<1>3. user' \in User
  BY <1>1, TaskTaken, TaskFields
<1>4. /\ table[user'] \in Seq(Batch) /\ OwnRows(author, table[user'], user')
      /\ Ordered(table[user'])
  BY <1>2, <1>3 DEF Filed
<1>5. rs \in Store /\ Wires(rs) /\ Quiet(rs) /\ Sound(rs)
  BY <1>2 DEF Good, Fit, Typed
<1>6. Good(author, rs', user', table[user']) /\ Moves(rs, rs')
  BY <1>1, <1>4, <1>5, RestartGood
<1>7. nextId' \in Nat /\ \A u \in User : Below(table[u], nextId')
  <2>1. \A u \in User : Below(table[u], nextId)
    BY <1>2 DEF Filed
  <2> QED
    BY <1>1, <1>2, <2>1, NextIdAbove
<1>8. Filed(author, table, nextId')
  BY <1>2, <1>7 DEF Filed
<1>9. /\ tasks' \in Seq(Task) /\ Queue(tasks', user', account)
      /\ OwnTasks(author, tasks') /\ Tokens(rs, tasks')
  BY <1>1, TaskTaken
<1>10. rs' \in Store /\ Len(rs'.pipeline) <= kMaxPendingWrites
  BY <1>6 DEF Good, Fit, Typed
<1>11. Tokens(rs', tasks')
  BY <1>5, <1>6, <1>9, <1>10, TokensMove
<1>12. TypeOK'
  BY <1>1, <1>3, <1>7, <1>9, <1>10 DEF IInv, TypeOK
<1> QED
  BY <1>1, <1>6, <1>8, <1>9, <1>11, <1>12 DEF IInv

LEMMA UseTokenInv ==
    ASSUME IInv, UseToken
    PROVE  IInv'
<1> DEFINE t == tasks[1]
<1>1. /\ tasks # <<>> /\ t.kind \in TokenKinds /\ tasks' = Tail(tasks)
      /\ UNCHANGED <<account, user, table, nextId, handlers, applied, latest, author,
                     outcome, told, left>>
  BY DEF UseToken, Runs, TokenKinds, local, service, history
<1>2. /\ Good(author, rs, user, table[user]) /\ rs \in Store /\ user \in User
      /\ Fit(author, rs, user) /\ Sound(rs) /\ Quiet(rs) /\ rs.failed \subseteq Excused
      /\ Len(rs.pipeline) <= kMaxPendingWrites
  BY DEF IInv, TypeOK, Good, Sound
<1>3. /\ t.user = user /\ t.number \in Nat
  BY <1>1, TaskTaken, TaskFields DEF TokenKinds
<1>4. /\ tasks' \in Seq(Task) /\ Queue(tasks', user, account)
      /\ OwnTasks(author, tasks') /\ Tokens(rs, tasks')
  BY <1>1, <1>3, TaskTaken
<1>5. /\ tasks \in Seq(Task) /\ Tokens(rs, tasks) /\ 1 \in 1..Len(tasks)
  <2>1. tasks \in Seq(Task) /\ Tokens(rs, tasks)
    BY DEF IInv, TypeOK
  <2> QED
    BY <1>1, <2>1
<1>6. Good(author, rs', user, table[user]) /\ Tokens(rs', tasks')
  <2>1. CASE t.number # rs.closeCount
    <3>1. rs' = rs
      BY <2>1 DEF UseToken
    <3> QED
      BY <1>2, <1>4, <3>1
  <2>2. CASE t.number = rs.closeCount
    <3>1. rs.state = "Starting" /\ t.number \notin rs.asks
      BY <1>1, <1>5, <2>2 DEF Tokens
    <3>2. CASE t.kind = "noToken"
      <4>1. rs' = Broken(rs)
        BY <2>2, <3>1, <3>2 DEF UseToken, HardAssert
      <4>2. Good(author, rs', user, table[user]) /\ Moves(rs, rs')
        BY <1>2, <3>1, <4>1, BrokenGood DEF IsStarted
      <4>3. rs' \in Store
        BY <4>2 DEF Good, Fit, Typed
      <4> QED
        BY <1>2, <1>4, <4>2, <4>3, TokensMove
    <3>3. CASE t.kind # "noToken"
      <4> DEFINE d == [rs EXCEPT !.state = "Open", !.session = t.user, !.up = <<Greeting>>]
      <4>1. rs' = d
        <5>1. rs.handshake = "pending"
          BY <1>2, <3>1 DEF Quiet
        <5> QED
          BY <2>2, <3>1, <3>3, <5>1 DEF UseToken, Opened, HardAssert, Greeting
      <4>2. <<Greeting>> \in Seq(Request)
        <5>1. Greeting \in [kind : {"handshake"}, write : {0}]
          BY DEF Greeting
        <5>2. Greeting \in Request
          BY <5>1, Zenon DEF Request
        <5> QED
          BY <5>2
      <4>3. d \in Store
        BY <1>2, <1>3, <4>2 DEF Store
      <4>4. /\ d.state = "Open" /\ d.session = user /\ d.up = <<Greeting>>
            /\ d.pipeline = rs.pipeline /\ d.timers = rs.timers /\ d.down = rs.down
            /\ d.handshake = rs.handshake /\ d.failed \subseteq Excused /\ d.asks = rs.asks
            /\ d.closeCount = rs.closeCount
        BY <1>2, <1>3 DEF Store
      <4> HIDE DEF d
      <4>5. /\ rs.down = <<>> /\ rs.handshake = "pending" /\ rs.pipeline # <<>>
            /\ "idle" \notin rs.timers /\ "backoff" \notin rs.timers
        BY <1>2, <3>1 DEF Fit, Wires, Quiet, Sound, Timely, IsStarted, CanWrite
      <4>6. Wires(d)
        BY <4>4, <4>5 DEF Wires
      <4>7. Own(author, d, user)
        <5>1. \A i \in DOMAIN d.up : d.up[i].kind # "write"
          BY <4>4 DEF Greeting
        <5> QED
          BY <1>2, <4>4, <5>1 DEF Fit, Own
      <4>8. Good(author, d, user, table[user])
        BY <1>2, <4>3, <4>4, <4>5, <4>6, <4>7
           DEF Good, Fit, Typed, Quiet, Sound, Timely
      <4>9. \A n \in rs.asks : n <= rs.closeCount /\ n # rs.closeCount
        BY <1>5, <2>2, <3>1 DEF Tokens
      <4>10. \A k \in 1..Len(tasks') : tasks'[k].kind \in TokenKinds =>
                 tasks'[k].number # rs.closeCount
        BY <1>1, <1>5, <2>2, TokensShrink
      <4>11. Tokens(d, tasks')
        BY <1>4, <4>4, <4>9, <4>10 DEF Tokens
      <4> QED
        BY <4>1, <4>8, <4>11
    <3> QED
      BY <3>2, <3>3
  <2> QED
    BY <2>1, <2>2
<1>7. TypeOK'
  BY <1>1, <1>4, <1>6 DEF IInv, TypeOK, Good, Fit, Typed
<1> QED
  BY <1>1, <1>4, <1>6, <1>7 DEF IInv
-----------------------------------------------------------------------------
(* A write that is settled leaves the table, and is there to leave it.     *)
LEMMA SettlesInv ==
    ASSUME IInv, rs.pipeline # <<>>, NEW how \in {"ok", "refused"},
           Settles(rs.pipeline[1], how)
    PROVE  /\ handlers' \in [User -> SUBSET Batch]
           /\ outcome' \in [Write -> {"none", "ok", "refused"}]
           /\ told' \in [Write -> {"none", "ok", "refused"}]
           /\ table' \in [User -> Seq(Batch)] /\ table'[user] \in Seq(Batch)
           /\ Has(table[user], rs.pipeline[1].id)
           /\ Backed(Tail(rs.pipeline), table'[user])
           /\ OwnRows(author, table'[user], user)
           /\ Filed(author, table', nextId)
<1> DEFINE b == rs.pipeline[1]
           rows == table[user]
           new == Without(rows, b.id)
<1>1. /\ user \in User /\ nextId \in Nat /\ table \in [User -> Seq(Batch)]
      /\ Filed(author, table, nextId) /\ Backed(rs.pipeline, rows)
      /\ handlers \in [User -> SUBSET Batch]
      /\ outcome \in [Write -> {"none", "ok", "refused"}]
      /\ told \in [Write -> {"none", "ok", "refused"}] /\ rs \in Store
  BY DEF IInv, TypeOK, Good
<1>2. rs.pipeline \in Seq(Batch) /\ rows \in Seq(Batch)
  BY <1>1, StoreFields
<1>3. b \in Batch
  BY <1>2
<1>4. /\ handlers' \in [User -> SUBSET Batch]
      /\ outcome' \in [Write -> {"none", "ok", "refused"}]
      /\ told' \in [Write -> {"none", "ok", "refused"}]
  BY <1>1, <1>3 DEF Settles, Notify
<1>5. Has(rows, b.id) /\ Backed(Tail(rs.pipeline), new)
  BY <1>1, <1>2, BackedWithout
<1>6. /\ new \in Seq(Batch)
      /\ \A i \in DOMAIN new : \E k \in DOMAIN rows : new[i] = rows[k]
  BY <1>2, WithoutFits
<1>7. table' = [table EXCEPT ![user] = new]
  BY DEF Settles
<1> HIDE DEF new
<1>8. table'[user] = new /\ \A u \in User \ {user} : table'[u] = table[u]
  BY <1>1, <1>7
<1>9. table' \in [User -> Seq(Batch)]
  BY <1>1, <1>6, <1>7
<1>10. OwnRows(author, new, user) /\ Below(new, nextId) /\ Ordered(new)
  <2>1. OwnRows(author, rows, user) /\ Below(rows, nextId)
    BY <1>1 DEF Filed
  <2> HIDE DEF rows
  <2>2. OwnRows(author, new, user)
    BY <1>6, <2>1 DEF OwnRows
  <2>3. Below(new, nextId)
    BY <1>6, <2>1 DEF Below
  <2> QED
    BY <1>5, <2>2, <2>3 DEF Backed
<1>11. Filed(author, table', nextId)
  BY <1>1, <1>8, <1>10 DEF Filed
<1> QED
  BY <1>4, <1>5, <1>6, <1>8, <1>9, <1>10, <1>11

(* A step that settles a write or not, with the store it leaves.           *)
LEMMA SettlingStep ==
    ASSUME IInv, UNCHANGED <<account, tasks, user, nextId, applied, latest, author,
                             left>>,
           handlers' \in [User -> SUBSET Batch],
           outcome' \in [Write -> {"none", "ok", "refused"}],
           told' \in [Write -> {"none", "ok", "refused"}],
           table' \in [User -> Seq(Batch)], Filed(author, table', nextId),
           Good(author, rs', user, table'[user]), Moves(rs, rs')
    PROVE  IInv'
<1>1. rs \in Store /\ rs' \in Store /\ Tokens(rs, tasks)
  BY DEF IInv, TypeOK, Good, Fit, Typed
<1>2. Tokens(rs', tasks)
  BY <1>1, TokensMove
<1>3. TypeOK'
  BY DEF IInv, TypeOK, Good, Fit, Typed
<1> QED
  BY <1>2, <1>3 DEF IInv

(* The store that is filled again after a result.                          *)
LEMMA ResultCall ==
    ASSUME IInv, ReceiveResult
    PROVE  /\ rs.pipeline # <<>> /\ Settles(rs.pipeline[1], "ok")
           /\ \E c \in Store :
                  /\ rs' = FillWritePipeline(c, table'[user])
                  /\ Fit(author, c, user) /\ Quiet(c) /\ Sound(c) /\ Moves(rs, c)
                  /\ c.pipeline = Tail(rs.pipeline) /\ c.down = Tail(rs.down)
                  /\ c.state = "Open"
<1> DEFINE p == rs.pipeline
           r == [rs EXCEPT !.down = Tail(@)]
           c == [r EXCEPT !.pipeline = Tail(@)]
<1>2. /\ rs \in Store /\ Len(p) <= kMaxPendingWrites /\ Typed(rs)
      /\ Own(author, rs, user) /\ Wires(rs) /\ Quiet(rs) /\ Sound(rs)
      /\ table \in [User -> Seq(Batch)] /\ Filed(author, table, nextId)
  BY DEF IInv, TypeOK, Good, Fit, Typed
<1>3. /\ p \in Seq(Batch) /\ rs.down \in Seq(Answer) /\ rs.up \in Seq(Request)
      /\ rs.handshake \in {"pending", "complete"}
  BY <1>2, StoreFields
<1>4. rs.down # <<>> /\ rs.down[1].kind = "ok"
  BY DEF ReceiveResult, Receives
<1>5. rs.state = "Open" /\ rs.handshake = "complete" /\ InStep(p, rs.down, rs.up)
  BY <1>2, <1>3, <1>4 DEF Wires, Mirrors, Greeting
<1>6. p # <<>> /\ InStep(Tail(p), Tail(rs.down), rs.up)
  BY <1>3, <1>4, <1>5, ReceivesInStep
<1>7. Settles(p[1], "ok")
  BY <1>6 DEF ReceiveResult
<1>8. /\ handlers' \in [User -> SUBSET Batch]
      /\ outcome' \in [Write -> {"none", "ok", "refused"}]
      /\ told' \in [Write -> {"none", "ok", "refused"}]
      /\ table' \in [User -> Seq(Batch)] /\ table'[user] \in Seq(Batch)
      /\ Has(table[user], p[1].id) /\ Backed(Tail(p), table'[user])
      /\ OwnRows(author, table'[user], user) /\ Filed(author, table', nextId)
  BY <1>6, <1>7, SettlesInv
<1>9. rs' = FillWritePipeline(c, table'[user])
  <2>1. Received = r
    BY <1>5 DEF Received, HardAssert, IsStarted
  <2>2. r.pipeline = rs.pipeline
    BY <1>2 DEF Store
  <2> QED
    BY <1>6, <1>8, <2>1, <2>2 DEF ReceiveResult, HardAssert
<1>10. /\ Tail(p) \in Seq(Batch) /\ Len(Tail(p)) <= kMaxPendingWrites
       /\ Tail(rs.down) \in Seq(Answer)
       /\ \A i \in DOMAIN Tail(p) : \E k \in DOMAIN p : Tail(p)[i] = p[k]
  <2>1. /\ Tail(p) \in Seq(Batch) /\ Len(Tail(p)) = Len(p) - 1
        /\ \A i \in 1..Len(Tail(p)) : Tail(p)[i] = p[i + 1]
    BY <1>3, <1>6, HeadTailProperties
  <2> DEFINE m == Len(Tail(p))
             n == Len(p)
             q == Tail(p)
  <2>2. /\ DOMAIN q = 1..m /\ DOMAIN p = 1..n /\ n \in Nat /\ m = n - 1
        /\ n <= kMaxPendingWrites
    BY <1>2, <1>3, <2>1
  <2>3. Tail(rs.down) \in Seq(Answer)
    BY <1>3, <1>4, HeadTailProperties
  <2> HIDE DEF m, n
  <2>4. (\A i \in 1..m : i + 1 \in 1..n) /\ m <= kMaxPendingWrites
    BY <2>2, WritePipelineAssumption
  <2>5. \A i \in 1..m : q[i] = p[i + 1]
    BY <2>1 DEF m
  <2> HIDE DEF q, p
  <2>6. \A i \in DOMAIN q : \E k \in DOMAIN p : q[i] = p[k]
    BY <2>2, <2>4, <2>5
  <2> QED
    BY <2>1, <2>3, <2>4, <2>6 DEF m, q
<1>11. r \in Store /\ r.pipeline = p
  BY <1>2, <1>10 DEF Store
<1>12. c \in Store
  <2> HIDE DEF r, p
  <2> QED
    BY <1>10, <1>11 DEF Store
<1>13. /\ c.pipeline = Tail(p) /\ c.down = Tail(rs.down) /\ c.up = rs.up
       /\ c.state = rs.state /\ c.handshake = rs.handshake /\ c.failed = rs.failed
       /\ c.session = rs.session /\ c.timers = rs.timers /\ c.asks = rs.asks
       /\ c.closeCount = rs.closeCount
  BY <1>2 DEF Store
<1> HIDE DEF c, r
<1>14. OwnRows(author, Tail(p), user)
  <2>1. OwnRows(author, p, user)
    BY <1>2 DEF Own
  <2> HIDE DEF p
  <2> QED
    BY <1>10, <2>1 DEF OwnRows
<1>15. Fit(author, c, user) /\ Quiet(c)
  BY <1>2, <1>5, <1>6, <1>10, <1>12, <1>13, <1>14
     DEF Fit, Typed, Own, Wires, Mirrors, Quiet
<1>16. Sound(c) /\ Moves(rs, c)
  <2>1. "idle" \notin rs.timers /\ "backoff" \notin rs.timers
    BY <1>2, <1>5, <1>6 DEF Sound, Timely
  <2>2. Sound(c)
    BY <1>2, <1>5, <1>13, <2>1 DEF Sound, Timely, CanWrite
  <2> QED
    BY <1>2, <1>13, <2>2, Unmoved
<1> QED
  BY <1>5, <1>6, <1>7, <1>9, <1>12, <1>13, <1>15, <1>16

LEMMA ResultInv ==
    ASSUME IInv, ReceiveResult
    PROVE  IInv'
<1>1. UNCHANGED <<account, tasks, user, nextId, applied, latest, author, left>>
  BY DEF ReceiveResult, service
<1>2. PICK c \in Store :
          /\ rs' = FillWritePipeline(c, table'[user])
          /\ Fit(author, c, user) /\ Quiet(c) /\ Sound(c) /\ Moves(rs, c)
          /\ c.pipeline = Tail(rs.pipeline)
  BY ResultCall
<1>3. /\ handlers' \in [User -> SUBSET Batch]
      /\ outcome' \in [Write -> {"none", "ok", "refused"}]
      /\ told' \in [Write -> {"none", "ok", "refused"}]
      /\ table' \in [User -> Seq(Batch)] /\ table'[user] \in Seq(Batch)
      /\ Backed(Tail(rs.pipeline), table'[user])
      /\ OwnRows(author, table'[user], user) /\ Filed(author, table', nextId)
  BY ResultCall, SettlesInv
<1>4. Good(author, rs', user, table'[user]) /\ Moves(c, rs')
  BY <1>2, <1>3, FillGood
<1>5. Moves(rs, rs')
  <2>1. rs \in Store /\ rs' \in Store
    BY <1>4 DEF IInv, TypeOK, Good, Fit, Typed
  <2> QED
    BY <1>2, <1>4, <2>1, MovesOn
<1> QED
  BY <1>1, <1>3, <1>4, <1>5, SettlingStep

LEMMA RefusalInv ==
    ASSUME IInv, ReceiveRefusal
    PROVE  IInv'
<1> DEFINE p == rs.pipeline
<1>1. UNCHANGED <<account, tasks, user, nextId, applied, latest, author, left>>
  BY DEF ReceiveRefusal, service
<1>2. /\ rs \in Store /\ Fit(author, rs, user) /\ Wires(rs) /\ Sound(rs)
  BY DEF IInv, TypeOK, Good, Fit
<1>3. /\ p \in Seq(Batch) /\ rs.down \in Seq(Answer) /\ rs.up \in Seq(Request)
      /\ rs.handshake \in {"pending", "complete"}
  BY <1>2, StoreFields
<1>4. rs.down # <<>> /\ rs.down[1].kind = "refused"
  BY DEF ReceiveRefusal, Receives
<1>5. rs.state = "Open" /\ InStep(p, rs.down, rs.up)
  BY <1>2, <1>3, <1>4 DEF Wires, Mirrors, Greeting
<1>6. p # <<>>
  BY <1>3, <1>4, <1>5, ReceivesInStep
<1>7. Settles(p[1], "refused")
  BY <1>6 DEF ReceiveRefusal
<1>8. /\ handlers' \in [User -> SUBSET Batch]
      /\ outcome' \in [Write -> {"none", "ok", "refused"}]
      /\ told' \in [Write -> {"none", "ok", "refused"}]
      /\ table' \in [User -> Seq(Batch)] /\ table'[user] \in Seq(Batch)
      /\ Has(table[user], p[1].id) /\ Backed(Tail(p), table'[user])
      /\ OwnRows(author, table'[user], user) /\ Filed(author, table', nextId)
  BY <1>6, <1>7, SettlesInv
<1>9. rs' = Refused(rs, table'[user])
  BY <1>6, <1>8 DEF ReceiveRefusal, HardAssert
<1>10. Good(author, rs', user, table'[user]) /\ Moves(rs, rs')
  BY <1>2, <1>5, <1>6, <1>8, <1>9, RefusedGood DEF IsStarted
<1> QED
  BY <1>1, <1>8, <1>10, SettlingStep

-----------------------------------------------------------------------------
(* The app is started again with what is on disk.                          *)
LEMMA FreshFits ==
    ASSUME NEW a, NEW u \in User
    PROVE  LET f == FreshStore(u)
           IN /\ f \in Store /\ Fit(a, f, u) /\ Quiet(f) /\ Sound(f)
              /\ f.pipeline = <<>> /\ Tokens(f, <<>>)
<1> DEFINE f == FreshStore(u)
<1>1. f \in Store
  BY DEF FreshStore, Store
<1>2. /\ f.pipeline = <<>> /\ f.state = "Initial" /\ f.handshake = "pending"
      /\ f.up = <<>> /\ f.down = <<>> /\ f.asks = {} /\ f.timers = {} /\ f.failed \subseteq Excused
  BY DEF FreshStore
<1> HIDE DEF f
<1>3. Tokens(f, <<>>)
  BY <1>2 DEF Tokens
<1>4. Sound(f) /\ Quiet(f)
  BY <1>2 DEF Sound, Timely, Quiet, IsStarted
<1>5. Len(f.pipeline) <= kMaxPendingWrites /\ OwnRows(a, f.pipeline, u)
  BY <1>2, WritePipelineAssumption DEF OwnRows
<1>6. Fit(a, f, u)
  BY <1>1, <1>2, <1>5, HaltedFits DEF Halted
<1>7. /\ f \in Store /\ Fit(a, f, u) /\ Quiet(f) /\ Sound(f)
      /\ f.pipeline = <<>> /\ Tokens(f, <<>>)
  BY <1>1, <1>2, <1>3, <1>4, <1>6
<1> QED
  BY <1>7 DEF f

LEMMA KillInv ==
    ASSUME IInv, Kill
    PROVE  IInv'
<1> DEFINE f == FreshStore(account)
           rows == table[account]
<1>1. /\ user' = account /\ tasks' = <<>> /\ nextId' = NextIdOf(table)
      /\ handlers' = [u \in User |-> {}]
      /\ rs' = FillWritePipeline(f, rows)
      /\ UNCHANGED <<account, table, applied, latest, author, outcome>>
  BY DEF Kill, service
<1>2. /\ account \in User /\ nextId \in Nat /\ table \in [User -> Seq(Batch)]
      /\ Filed(author, table, nextId) /\ left \in Budget /\ author \in Seq(User)
      /\ told \in [Write -> {"none", "ok", "refused"}]
  BY DEF IInv, TypeOK
<1>3. left' \in Budget /\ left'.writes <= left.writes
  BY <1>2, Spent DEF Kill
<1>4. told' \in [Write -> {"none", "ok", "refused"}]
  <2>1. \/ told' = told
        \/ told' = [w \in Write |->
               IF [id |-> rs.pipeline[1].id, write |-> w] \in handlers[user]
               THEN "ok" ELSE told[w]]
    BY DEF Kill
  <2> QED
    BY <1>2, <2>1
<1>5. nextId' \in Nat /\ Filed(author, table, nextId')
  <2>1. \A u \in User : Below(table[u], nextId)
    BY <1>2 DEF Filed
  <2>2. nextId' \in Nat /\ \A u \in User : Below(table[u], nextId')
    BY <1>1, <1>2, <2>1, NextIdAbove
  <2> QED
    BY <1>2, <2>2 DEF Filed
<1>6. rows \in Seq(Batch) /\ OwnRows(author, rows, account) /\ Ordered(rows)
  BY <1>2 DEF Filed
<1>7. /\ f \in Store /\ Fit(author, f, account) /\ Quiet(f) /\ Sound(f)
      /\ f.pipeline = <<>> /\ Tokens(f, <<>>)
  BY <1>2, FreshFits
<1>8. Backed(f.pipeline, rows)
  BY <1>6, <1>7 DEF Backed, Ordered, Within
<1> HIDE DEF f
<1>9. Good(author, rs', account, rows) /\ Moves(f, rs')
  BY <1>1, <1>6, <1>7, <1>8, FillGood
<1>10. rs' \in Store /\ Len(rs'.pipeline) <= kMaxPendingWrites
  BY <1>9 DEF Good, Fit, Typed
<1>11. Tokens(rs', tasks')
  BY <1>1, <1>7, <1>9, <1>10, TokensMove
<1>12. Queue(tasks', user', account') /\ OwnTasks(author', tasks')
  BY <1>1 DEF Queue, OwnTasks
<1>13. tasks' \in Seq(Task)
  BY <1>1
<1>14. handlers' \in [User -> SUBSET Batch]
  BY <1>1
<1>15. TypeOK'
  BY <1>1, <1>2, <1>3, <1>4, <1>5, <1>10, <1>13, <1>14 DEF IInv, TypeOK
<1>16. Len(author') + left'.writes <= MaxWrites
  <2>1. /\ left.writes \in Nat /\ left'.writes \in Nat /\ Len(author) \in Nat
        /\ MaxWrites \in Nat
    BY <1>2, <1>3, WritePipelineAssumption DEF Budget
  <2>2. Len(author) + left.writes <= MaxWrites /\ author' = author
    BY <1>1 DEF IInv
  <2> QED
    BY <1>3, <2>1, <2>2
<1> QED
  BY <1>1, <1>5, <1>9, <1>11, <1>12, <1>15, <1>16 DEF IInv
-----------------------------------------------------------------------------
LEMMA StutterInv ==
    ASSUME IInv, UNCHANGED vars
    PROVE  IInv'
<1>1. UNCHANGED <<account, tasks, user, table, nextId, author>> /\ rs' = rs
      /\ UNCHANGED <<handlers, applied, latest, outcome, told>> /\ left' = left
  BY DEF vars
<1>2. Known' /\ left'.writes <= left.writes
  BY <1>1, KnownStays
<1>3. Good(author, rs, user, table[user]) /\ rs \in Store
  BY DEF IInv, TypeOK
<1>4. Moves(rs, rs')
  BY <1>1, <1>3, Unmoved
<1> QED
  BY <1>1, <1>2, <1>3, <1>4, RemoteStep

(* The invariant is inductive: one step for each action.                   *)
THEOREM NextInv == IInv /\ [Next]_vars => IInv'
<1> SUFFICES ASSUME IInv, [Next]_vars PROVE IInv'
  OBVIOUS
<1>1. CASE AskWrite
  BY <1>1, AskWriteInv
<1>2. CASE \E u \in User : SignIn(u)
  BY <1>2, SignInInv
<1>3. CASE \E n \in rs.asks : GiveToken(n)
  BY <1>3, GiveTokenInv
<1>4. CASE FileWrite
  BY <1>4, FileWriteInv
<1>5. CASE ChangeUser
  BY <1>5, ChangeUserInv
<1>6. CASE UseToken
  BY <1>6, UseTokenInv
<1>7. CASE ServeHandshake \/ ServeWrite \/ RefuseWrite
  BY <1>7, ServiceInv
<1>8. CASE ReceiveHandshake
  BY <1>8, HandshakeInv
<1>9. CASE ReceiveResult
  BY <1>9, ResultInv
<1>10. CASE ReceiveRefusal
  BY <1>10, RefusalInv
<1>11. CASE BackoffElapses
  BY <1>11, BackoffInv
<1>12. CASE IdleElapses
  BY <1>12, IdleInv
<1>13. CASE LoseStream \/ EndStream \/ ChangeNetwork
  BY <1>13, LossInv
<1>14. CASE Kill
  BY <1>14, KillInv
<1>15. CASE UNCHANGED vars
  BY <1>15, StutterInv
<1> QED
  BY <1>1, <1>2, <1>3, <1>4, <1>5, <1>6, <1>7, <1>8, <1>9, <1>10, <1>11, <1>12,
     <1>13, <1>14, <1>15 DEF Next

(* What the invariant says of the filed writes and of those on the wire.   *)
LEMMA InvOwn == IInv => OnlyOwnWrites
<1> SUFFICES ASSUME IInv PROVE OnlyOwnWrites
  OBVIOUS
<1>1. Filed(author, table, nextId) /\ Own(author, rs, user) /\ Wires(rs) /\ rs \in Store
  BY DEF IInv, TypeOK, Good, Fit
<1>2. \A u \in User : \A w \in Pending(u) : author[w] = u
  BY <1>1 DEF Pending, Filed, OwnRows, By
<1>3. ASSUME NEW i \in DOMAIN rs.up, rs.up[i].kind = "write"
      PROVE  author[rs.up[i].write] = rs.session
  <2>1. rs.state = "Open"
    BY <1>1, <1>3 DEF Wires
  <2> QED
    BY <1>1, <1>3, <2>1 DEF Own, By
<1> QED
  BY <1>2, <1>3 DEF OnlyOwnWrites

LEMMA InvAnswers == IInv => AnswersMatch
<1> SUFFICES ASSUME IInv, CanWrite(rs)
             PROVE  /\ Len(rs.pipeline) = Len(rs.down) + Len(rs.up)
                    /\ \A i \in DOMAIN rs.down : rs.down[i].write = rs.pipeline[i].write
                    /\ \A i \in DOMAIN rs.up :
                           rs.up[i].write = rs.pipeline[Len(rs.down) + i].write
  BY DEF AnswersMatch
<1>1. Wires(rs) /\ rs \in Store
  BY DEF IInv, TypeOK, Good, Fit
<1>2. InStep(rs.pipeline, rs.down, rs.up)
  BY <1>1 DEF Wires, Mirrors, CanWrite
<1>3. DOMAIN rs.down = 1..Len(rs.down) /\ DOMAIN rs.up = 1..Len(rs.up)
  BY <1>1, StoreFields
<1> QED
  BY <1>2, <1>3 DEF InStep

LEMMA Invariant == Spec => []IInv
<1> QED
  BY InitInv, NextInv, PTL DEF Spec

(* Every variable of the write path keeps its type, and the pipeline never *)
(* holds more than kMaxPendingWrites: RemoteStore::CanAddToWritePipeline.  *)
THEOREM Types == Spec => []TypeOK
<1>1. IInv => TypeOK
  BY DEF IInv
<1> QED
  BY <1>1, Invariant, PTL

(* Whoever signs in or out meanwhile, a write is filed under the student   *)
(* who asked for it and goes out over a stream with his token:             *)
(* RemoteStore::HandleCredentialChange drops pipeline and stream together. *)
THEOREM OnlyOwn == Spec => []OnlyOwnWrites
<1> QED
  BY InvOwn, Invariant, PTL

(* Over a stream that takes writes, the n-th answer that arrives is for    *)
(* the n-th write of the pipeline: RemoteStore::OnWriteStreamMutationResult*)
(* may take the first write of the pipeline for the one that is answered.  *)
THEOREM AnswersInOrder == Spec => []AnswersMatch
<1> QED
  BY InvAnswers, Invariant, PTL

(* No HARD_ASSERT of the stream, the remote store and the mutation queue   *)
(* ends the app, but for the one of OnWriteStreamClose when the service    *)
(* ends a stream without an error: no stream is started twice or closed    *)
(* twice, none is stopped for idleness with work left, none is greeted     *)
(* twice, no token is taken by a later start, and every answer finds its   *)
(* stream and its batch on disk.                                           *)
THEOREM NoneFails == Spec => []NoAssertionFails
<1>1. IInv => NoAssertionFails
  BY DEF IInv, Good, Sound, Excused, NoAssertionFails
<1> QED
  BY <1>1, Invariant, PTL
-----------------------------------------------------------------------------
(***************************************************************************)
(* What is filed, applied and told: the second invariant.                  *)
(***************************************************************************)
(* The pipeline is the front of the table.                                 *)
Front(p, rows) == Len(p) <= Len(rows) /\ \A i \in 1..Len(p) : p[i] = rows[i]

(* What is fetched are the rows behind those of the pipeline.              *)
LEMMA FrontFetched ==
    ASSUME NEW p \in Seq(Batch), Len(p) <= kMaxPendingWrites,
           NEW rows \in Seq(Batch), Ordered(rows), Front(p, rows)
    PROVE  Front(p \o Fetched(p, rows), rows)
<1> DEFINE last == IF p = <<>> THEN -1 ELSE p[Len(p)].id
           old  == {k \in DOMAIN rows : rows[k].id <= last}
           from == Cardinality(old)
           end  == from + kMaxPendingWrites - Len(p)
           stop == IF end < Len(rows) THEN end ELSE Len(rows)
           f    == SubSeq(rows, from + 1, stop)
           r    == p \o f
<1>1. /\ Fetched(p, rows) = f /\ f \in Seq(Batch)
  BY FetchedFits DEF Fetched
<1>2. /\ Len(rows) \in Nat /\ DOMAIN rows = 1..Len(rows) /\ Len(p) \in Nat
      /\ \A k \in 1..Len(rows) : rows[k].id \in Nat /\ rows[k] \in Batch
  BY Numbers
<1>3. old = 1..Len(p)
  <2>1. CASE p = <<>>
    <3>1. \A k \in 1..Len(rows) : ~(rows[k].id <= -1)
      BY <1>2
    <3>2. last = -1 /\ 1..Len(p) = {}
      BY <2>1
    <3> HIDE DEF last
    <3> QED
      BY <1>2, <3>1, <3>2
  <2>2. CASE p # <<>>
    <3>1. Len(p) \in 1..Len(p) /\ Len(p) \in 1..Len(rows)
      BY <1>2, <2>2 DEF Front
    <3>2. last = rows[Len(p)].id
      BY <2>2, <3>1 DEF Front
    <3> HIDE DEF last
    <3>3. ASSUME NEW k \in 1..Len(rows)
          PROVE  rows[k].id <= last <=> k <= Len(p)
      <4>1. k < Len(p) => rows[k].id < rows[Len(p)].id
        BY <3>1 DEF Ordered
      <4>2. Len(p) < k => rows[Len(p)].id < rows[k].id
        BY <3>1 DEF Ordered
      <4>3. rows[k].id \in Nat /\ rows[Len(p)].id \in Nat /\ k \in Nat
        BY <1>2, <3>1
      <4> QED
        BY <1>2, <3>2, <4>1, <4>2, <4>3
    <3>4. Len(p) <= Len(rows)
      BY DEF Front
    <3> QED
      BY <1>2, <3>3, <3>4
  <2> QED
    BY <2>1, <2>2
<1> HIDE DEF old
<1>4. from = Len(p)
  <2> DEFINE n == Len(p)
  <2>1. n \in Nat
    BY <1>2
  <2> HIDE DEF n
  <2>2. Cardinality(1..n) = n
    BY <2>1, FS_Interval
  <2> QED
    BY <1>3, <2>2 DEF n
<1>5. Len(p) <= Len(rows) /\ kMaxPendingWrites \in Nat
  BY WritePipelineAssumption DEF Front
<1> HIDE DEF from
<1>6. stop \in Int /\ stop <= Len(rows) /\ stop >= Len(p)
  BY <1>2, <1>4, <1>5
<1> HIDE DEF stop
<1>7. /\ Len(f) = stop - Len(p)
      /\ \A i \in 1..Len(f) : f[i] = rows[Len(p) + i]
  <2>1. /\ from + 1 \in Int
        /\ \A i \in (from + 1)..stop : rows[i] \in Batch
    BY <1>2, <1>4, <1>6
  <2>2. /\ Len(f) = IF from + 1 <= stop THEN stop - (from + 1) + 1 ELSE 0
        /\ \A i \in 1..(stop - (from + 1) + 1) : f[i] = rows[from + 1 + i - 1]
    BY <1>6, <2>1, SubSeqProperties
  <2> HIDE DEF f
  <2> DEFINE n == Len(p)
             m == Len(f)
  <2>3. n \in Nat /\ from = n /\ stop \in Int /\ stop >= n
        /\ m = IF n + 1 <= stop THEN stop - (n + 1) + 1 ELSE 0
    BY <1>2, <1>4, <1>6, <2>2
  <2> HIDE DEF n, m
  <2>4. m = stop - n /\ stop - (n + 1) + 1 = m
    BY <2>3
  <2>5. ASSUME NEW i \in 1..m PROVE f[i] = rows[n + i]
    <3>1. i \in 1..(stop - (from + 1) + 1) /\ from + 1 + i - 1 = n + i
      BY <2>3, <2>4
    <3> QED
      BY <2>2, <3>1
  <2> QED
    BY <2>4, <2>5 DEF n, m
<1> HIDE DEF f
<1>8. r \in Seq(Batch) /\ Joins(p, f, r)
  BY <1>1, Joined
<1> HIDE DEF r
<1>9. Len(r) <= Len(rows)
  BY <1>2, <1>6, <1>7, <1>8 DEF Joins
<1>10. ASSUME NEW i \in 1..Len(r)
       PROVE  r[i] = rows[i]
  <2>1. CASE i \in 1..Len(p) /\ r[i] = p[i]
    BY <2>1 DEF Front
  <2>2. CASE \E j \in 1..Len(f) : i = Len(p) + j /\ r[i] = f[j]
    BY <1>7, <2>2
  <2> QED
    BY <1>8, <2>1, <2>2 DEF Joins
<1>11. Front(r, rows)
  BY <1>9, <1>10 DEF Front
<1> QED
  BY <1>1, <1>11 DEF r

(* The first batch of the pipeline is the first row; without it the rest   *)
(* move up.                                                                *)
LEMMA WithoutFirst ==
    ASSUME NEW p \in Seq(Batch), p # <<>>, NEW rows \in Seq(Batch), Ordered(rows),
           Front(p, rows)
    PROVE  LET r == Without(rows, p[1].id)
           IN  /\ 1 \in 1..Len(rows) /\ p[1] = rows[1] /\ Front(Tail(p), r)
               /\ r \in Seq(Batch) /\ Len(r) = Len(rows) - 1
               /\ \A i \in 1..Len(r) : r[i] = rows[i + 1] /\ i + 1 \in 1..Len(rows)
<1> DEFINE id == p[1].id
           k == CHOOSE i \in DOMAIN rows : rows[i].id = id
           s == SubSeq(rows, 1, k - 1)
           t == SubSeq(rows, k + 1, Len(rows))
           r == s \o t
           q == Tail(p)
<1>1. /\ Len(p) \in Nat /\ 1 \in 1..Len(p) /\ Len(rows) \in Nat
      /\ DOMAIN rows = 1..Len(rows)
      /\ \A i \in 1..Len(rows) : rows[i] \in Batch /\ rows[i].id \in Nat
  BY Numbers
<1>2. 1 \in 1..Len(rows) /\ p[1] = rows[1]
  BY <1>1 DEF Front
<1>3. k \in 1..Len(rows) /\ rows[k].id = rows[1].id
  BY <1>1, <1>2
<1>4. Has(rows, id)
  BY <1>1, <1>2 DEF Has
<1>5. Without(rows, id) = r
  BY <1>4 DEF Without
<1> HIDE DEF k
<1>6. k = 1
  <2>1. 1 < k => rows[1].id < rows[k].id
    BY <1>2, <1>3 DEF Ordered
  <2> QED
    BY <1>1, <1>2, <1>3, <2>1
<1>7. s \in Seq(Batch) /\ Len(s) = 0
  <2>1. /\ 1 \in Int /\ k - 1 \in Int /\ \A i \in 1..(k - 1) : rows[i] \in Batch
        /\ k - 1 = 0
    BY <1>6
  <2>2. s \in Seq(Batch) /\ Len(s) = IF 1 <= k - 1 THEN k - 1 - 1 + 1 ELSE 0
    BY <2>1, SubSeqProperties
  <2> HIDE DEF s
  <2> QED
    BY <2>1, <2>2
<1>8. /\ t \in Seq(Batch) /\ Len(t) = Len(rows) - 1
      /\ \A i \in 1..Len(t) : t[i] = rows[i + 1]
  <2> DEFINE n == Len(rows)
  <2>1. k + 1 \in Int /\ n \in Int /\ \A i \in (k + 1)..n : rows[i] \in Batch
    BY <1>1, <1>6
  <2>2. /\ t \in Seq(Batch)
        /\ Len(t) = IF k + 1 <= n THEN n - (k + 1) + 1 ELSE 0
        /\ \A i \in 1..(n - (k + 1) + 1) : t[i] = rows[k + 1 + i - 1]
    BY <2>1, SubSeqProperties
  <2>3. n \in Nat /\ n >= 1
    BY <1>1, <1>2
  <2> HIDE DEF t, n
  <2>4. Len(t) = n - 1 /\ n - (k + 1) + 1 = n - 1
    BY <1>6, <2>2, <2>3
  <2>5. \A i \in 1..(n - 1) : k + 1 + i - 1 = i + 1
    BY <1>6
  <2> QED
    BY <2>2, <2>4, <2>5 DEF n
<1> HIDE DEF s, t
<1>9. r \in Seq(Batch) /\ Joins(s, t, r)
  BY <1>7, <1>8, Joined
<1> HIDE DEF r
<1>10. Len(r) = Len(rows) - 1
  BY <1>1, <1>7, <1>8, <1>9 DEF Joins
<1>11. ASSUME NEW i \in 1..Len(r)
       PROVE  r[i] = rows[i + 1] /\ i + 1 \in 1..Len(rows)
  <2>1. i \in 1..Len(t) /\ Len(s) + i = i
    BY <1>1, <1>7, <1>8, <1>10
  <2>2. r[i] = t[i]
    BY <1>9, <2>1 DEF Joins
  <2> QED
    BY <1>1, <1>8, <1>10, <2>1, <2>2
<1>12. Front(q, r)
  <2>1. Len(q) = Len(p) - 1 /\ \A i \in 1..Len(q) : q[i] = p[i + 1]
    BY HeadTailProperties
  <2> HIDE DEF q
  <2>2. Len(p) <= Len(rows)
    BY DEF Front
  <2>3. ASSUME NEW i \in 1..Len(q) PROVE q[i] = r[i]
    <3>1. i + 1 \in 1..Len(p) /\ i \in 1..Len(r)
      BY <1>1, <1>10, <2>1, <2>2
    <3> QED
      BY <1>11, <2>1, <3>1 DEF Front
  <2> QED
    BY <1>1, <1>10, <2>1, <2>2, <2>3 DEF Front
<1> QED
  BY <1>2, <1>5, <1>9, <1>10, <1>11, <1>12 DEF q

(* A new batch is a new last row.                                          *)
LEMMA PutLast ==
    ASSUME NEW rows \in Seq(Batch), NEW b \in Batch, Below(rows, b.id)
    PROVE  LET r == Put(rows, b)
           IN  /\ r \in Seq(Batch) /\ Len(r) = Len(rows) + 1 /\ r[Len(rows) + 1] = b
               /\ \A k \in 1..Len(rows) : r[k] = rows[k]
<1>1. /\ Len(rows) \in Nat /\ DOMAIN rows = 1..Len(rows)
      /\ \A k \in 1..Len(rows) : rows[k].id \in Nat
  BY Numbers
<1>2. b.id \in Nat
  BY DEF Batch
<1>3. ~Has(rows, b.id)
  BY <1>1, <1>2 DEF Has, Below
<1>4. Put(rows, b) = Append(rows, b)
  BY <1>3 DEF Put
<1> QED
  BY <1>4, AppendProperties

LEMMA FrontPut ==
    ASSUME NEW p \in Seq(Batch), NEW rows \in Seq(Batch), NEW b \in Batch,
           Below(rows, b.id), Front(p, rows)
    PROVE  Front(p, Put(rows, b))
<1> DEFINE r == Put(rows, b)
<1>1. /\ Len(r) = Len(rows) + 1 /\ Len(rows) \in Nat /\ Len(p) \in Nat
      /\ \A k \in 1..Len(rows) : r[k] = rows[k]
  BY PutLast
<1> HIDE DEF r
<1>2. Len(p) <= Len(r) /\ \A i \in 1..Len(p) : i \in 1..Len(rows)
  BY <1>1 DEF Front
<1>3. Front(p, r)
  BY <1>1, <1>2 DEF Front
<1> QED
  BY <1>3 DEF r
-----------------------------------------------------------------------------
(* Every write that is answered as done has been applied.                  *)
Done(c, app) ==
    \A i \in 1..Len(c.down) : c.down[i].kind = "ok" => c.down[i].write \in app

(* The rows of a table are in the order of the calls, and none is settled. *)
InTurn(rows, out) ==
    /\ \A j, k \in 1..Len(rows) : j < k => rows[j].write < rows[k].write
    /\ \A k \in 1..Len(rows) : out[rows[k].write] = "none"

(* From this number on no write is filed, applied, settled or told.        *)
Fresh(n) ==
    \A w \in Write : w >= n =>
        /\ w \notin applied /\ outcome[w] = "none" /\ told[w] = "none"
        /\ \A u \in User : w \notin Pending(u)

(* The numbers of the writes to come: those of the tasks and the next one. *)
Coming(n) ==
    \/ n = Len(author) + 1
    \/ \E k \in 1..Len(tasks) : tasks[k].kind = "write" /\ tasks[k].number = n

Ascending(q) ==
    \A j, k \in 1..Len(q) :
        j < k /\ q[j].kind = "write" /\ q[k].kind = "write" => q[j].number < q[k].number

(* The second invariant, which rests on the first.                         *)
Ledger ==
    /\ Front(rs.pipeline, table[user]) /\ Done(rs, applied)
    /\ \A u \in User : InTurn(table[u], outcome)
    /\ Ascending(tasks) /\ \A n \in Nat : Coming(n) => Fresh(n)
    /\ CallersToldTrue

(* A stream that is not open has nothing answered.                         *)
LEMMA ShutDone ==
    ASSUME NEW c, Wires(c), c.state # "Open", NEW app
    PROVE  Done(c, app)
  BY DEF Wires, Done

LEMMA LessDone ==
    ASSUME NEW c, NEW d, NEW app, Done(c, app), c.down \in Seq(Answer), c.down # <<>>,
           d.down = Tail(c.down)
    PROVE  Done(d, app)
<1> DEFINE e == Tail(c.down)
           n == Len(c.down)
           m == Len(e)
<1>1. n \in Nat /\ m = n - 1 /\ \A i \in 1..m : e[i] = c.down[i + 1]
  BY HeadTailProperties
<1> HIDE DEF n, m
<1>2. \A i \in 1..m : i + 1 \in 1..n
  BY <1>1
<1>3. \A i \in 1..m : e[i].kind = "ok" => e[i].write \in app
  BY <1>1, <1>2 DEF Done, n
<1> HIDE DEF e
<1> QED
  BY <1>3 DEF m, Done, e

LEMMA MoreDone ==
    ASSUME NEW c, NEW d, NEW app, NEW new, Done(c, app), c.down \in Seq(Answer),
           NEW t \in Answer, d.down = Append(c.down, t), app \subseteq new,
           t.kind = "ok" => t.write \in new
    PROVE  Done(d, new)
<1>1. /\ Len(d.down) = Len(c.down) + 1 /\ Len(c.down) \in Nat
      /\ d.down[Len(c.down) + 1] = t
      /\ \A i \in 1..Len(c.down) : d.down[i] = c.down[i]
  BY AppendProperties
<1>2. \A i \in 1..Len(d.down) : i \in 1..Len(c.down) \/ d.down[i] = t
  BY <1>1
<1> QED
  BY <1>1, <1>2 DEF Done

LEMMA FillFront ==
    ASSUME NEW c \in Store, Len(c.pipeline) <= kMaxPendingWrites, Sound(c),
           NEW rows \in Seq(Batch), Ordered(rows), Front(c.pipeline, rows)
    PROVE  Front(FillWritePipeline(c, rows).pipeline, rows)
<1>1. c.pipeline \in Seq(Batch)
  BY StoreFields
<1> QED
  BY <1>1, FillSound, FrontFetched

LEMMA NoneFront ==
    ASSUME NEW rows \in Seq(Batch), Ordered(rows)
    PROVE  Front(<<>>, rows) /\ Front(Fetched(<<>>, rows), rows)
<1>1. <<>> \in Seq(Batch) /\ Len(<<>>) <= kMaxPendingWrites
  BY WritePipelineAssumption
<1>2. Front(<<>>, rows)
  <2>1. Len(rows) \in Nat /\ Len(<<>>) = 0
    OBVIOUS
  <2> QED
    BY <2>1 DEF Front
<1>3. Fetched(<<>>, rows) \in Seq(Batch)
  BY <1>1, FetchedFits
<1>4. Front(<<>> \o Fetched(<<>>, rows), rows)
  BY <1>1, <1>2, FrontFetched
<1> QED
  BY <1>2, <1>3, <1>4, ConcatEmptySeq

(* Filling answers nothing.                                                *)
LEMMA FillDone ==
    ASSUME NEW c \in Store, NEW rows, NEW app, Done(c, app),
           Wires(FillWritePipeline(c, rows)),
           c.state # "Open" => FillWritePipeline(c, rows).state # "Open"
    PROVE  Done(FillWritePipeline(c, rows), app)
<1>1. CASE c.state = "Open"
  BY <1>1, FillOpen DEF Done
<1>2. CASE c.state # "Open"
  BY <1>2, ShutDone
<1> QED
  BY <1>1, <1>2
-----------------------------------------------------------------------------
(* The steps that leave the pipeline as it is, and the answers in order.   *)
Calm == <<user, table, handlers, outcome, told>>

LEMMA ServiceCalm ==
    ASSUME IInv, Done(rs, applied), ServeHandshake \/ ServeWrite \/ RefuseWrite
    PROVE  rs'.pipeline = rs.pipeline /\ Done(rs', applied') /\ UNCHANGED Calm
<1>1. rs \in Store /\ rs.up \in Seq(Request) /\ rs.down \in Seq(Answer) /\ Wires(rs)
  BY StoreFields DEF IInv, TypeOK, Good, Fit
<1>2. PICK kind : /\ rs.up # <<>> /\ Answers(kind) /\ applied \subseteq applied'
                  /\ \/ kind = "handshake" /\ rs.up[1].kind = "handshake"
                     \/ kind \in {"ok", "refused"} /\ rs.up[1].kind = "write"
                  /\ kind = "ok" => rs.up[1].write \in applied'
  <2>1. CASE ServeHandshake
    BY <2>1 DEF ServeHandshake, Serves, service
  <2>2. CASE RefuseWrite
    BY <2>2 DEF RefuseWrite, Serves, service
  <2>3. CASE ServeWrite
    BY <2>3 DEF ServeWrite, Serves
  <2> QED
    BY <2>1, <2>2, <2>3
<1> DEFINE t == [kind |-> kind, write |-> rs.up[1].write]
<1>3. rs'.pipeline = rs.pipeline /\ rs'.down = Append(rs.down, t)
  BY <1>1, <1>2 DEF Answers, Store
<1>4. t \in Answer /\ (t.kind = "ok" => t.write \in applied')
  <2>1. rs.up[1] \in Request
    BY <1>1, <1>2
  <2>2. CASE kind = "handshake" /\ rs.up[1].kind = "handshake"
    <3>1. rs.up[1].write = 0
      BY <2>1, <2>2 DEF Request
    <3> QED
      BY <2>2, <3>1 DEF Answer
  <2>3. CASE kind \in {"ok", "refused"} /\ rs.up[1].kind = "write"
    <3>1. rs.up[1].write \in Write
      BY <2>1, <2>3 DEF Request
    <3>2. t \in [kind : {"ok", "refused"}, write : Write]
      BY <2>3, <3>1
    <3>3. t \in Answer
      BY <3>2, Zenon DEF Answer
    <3> QED
      BY <1>2, <3>3
  <2> QED
    BY <1>2, <2>2, <2>3
<1> HIDE DEF t
<1>5. Done(rs', applied')
  BY <1>1, <1>2, <1>3, <1>4, MoreDone
<1> QED
  BY <1>3, <1>5 DEF ServeHandshake, ServeWrite, RefuseWrite, local, history, Calm

LEMMA StoreCalm ==
    ASSUME IInv, Wires(rs'), Done(rs, applied),
           \/ ReceiveHandshake \/ BackoffElapses \/ IdleElapses \/ LoseStream \/ EndStream
    PROVE  rs'.pipeline = rs.pipeline /\ Done(rs', applied') /\ UNCHANGED Calm
<1>1. /\ rs \in Store /\ Fit(author, rs, user) /\ Wires(rs) /\ Quiet(rs) /\ Sound(rs)
      /\ Typed(rs) /\ OwnRows(author, rs.pipeline, user)
      /\ rs.down \in Seq(Answer)
  BY StoreFields DEF IInv, TypeOK, Good, Fit, Own
<1>2. UNCHANGED Calm /\ applied' = applied
  BY DEF ReceiveHandshake, BackoffElapses, IdleElapses, LoseStream, EndStream, local,
         history, service, Calm
<1>3. CASE ReceiveHandshake
  <2>1. rs.down # <<>> /\ rs'.pipeline = rs.pipeline /\ rs'.down = Tail(rs.down)
    <3> DEFINE r == [rs EXCEPT !.down = Tail(@)]
    <3>1. rs.down # <<>> /\ rs.state = "Open"
      BY <1>1, <1>3 DEF ReceiveHandshake, Receives, Wires
    <3>2. Received = r
      BY <3>1 DEF Received, HardAssert, IsStarted
    <3>3. r.pipeline = rs.pipeline /\ r.down = Tail(rs.down)
      BY <1>1 DEF Store
    <3>4. \E h, t, q : rs' = [r EXCEPT !.handshake = h, !.timers = t, !.up = q]
      BY <1>3, <3>1, <3>2 DEF ReceiveHandshake, HardAssert
    <3> HIDE DEF r
    <3> QED
      BY <3>1, <3>3, <3>4
  <2> QED
    BY <1>1, <1>2, <2>1, LessDone
<1>4. CASE BackoffElapses
  <2> DEFINE t == [rs EXCEPT !.timers = @ \ {"backoff"}, !.state = "Initial"]
  <2>1. rs.state = "Backoff"
    BY <1>1, <1>4 DEF BackoffElapses, Sound, Timely
  <2>2. rs' = Start(t)
    BY <1>4, <2>1 DEF BackoffElapses, HardAssert
  <2>3. rs.timers \ {"backoff"} \in SUBSET Timer
    BY <1>1, StoreFields
  <2>4. t \in Store
    BY <1>1, <2>3 DEF Store
  <2>5. /\ t.pipeline = rs.pipeline /\ t.state = "Initial" /\ t.up = rs.up
        /\ t.down = rs.down
    BY <1>1 DEF Store
  <2> HIDE DEF t
  <2>6. Halted(t) /\ OwnRows(author, t.pipeline, user)
    BY <1>1, <2>1, <2>4, <2>5 DEF Halted, Wires
  <2>7. Fit(author, t, user) /\ ~IsStarted(t)
    BY <1>1, <2>5, <2>6, HaltedFits DEF IsStarted, Typed
  <2>8. rs'.pipeline = rs.pipeline /\ rs'.state # "Open"
    BY <2>2, <2>5, <2>7, StartFits
  <2> QED
    BY <1>2, <2>8, ShutDone
<1>5. CASE IdleElapses
  <2> DEFINE t == [rs EXCEPT !.timers = @ \ {"idle"}]
  <2>1. rs.pipeline = <<>> /\ rs.state = "Open"
    BY <1>1, <1>5 DEF IdleElapses, Sound, Timely
  <2>2. rs' = Stop(t, TRUE)
    BY <1>5 DEF IdleElapses
  <2>3. rs.timers \ {"idle"} \in SUBSET Timer
    BY <1>1, StoreFields
  <2>4. t \in Store
    BY <1>1, <2>3 DEF Store
  <2>5. /\ t.pipeline = rs.pipeline /\ t.state = rs.state /\ t.up = rs.up
        /\ t.down = rs.down /\ t.handshake = rs.handshake
    BY <1>1 DEF Store
  <2> HIDE DEF t
  <2>6. Wires(t) /\ Quiet(t)
    BY <1>1, <2>5 DEF Wires, Mirrors, Quiet
  <2>7. rs'.pipeline = rs.pipeline /\ rs'.state # "Open"
    BY <2>2, <2>4, <2>5, <2>6, StopHalts DEF Halted
  <2> QED
    BY <1>2, <2>7, ShutDone
<1>6. CASE LoseStream
  <2>1. rs' = Broken(rs) /\ IsStarted(rs) /\ rs.failed \subseteq Excused
    BY <1>1, <1>6 DEF LoseStream, IsStarted, Sound
  <2>2. rs'.state # "Open" /\ rs'.pipeline = rs.pipeline
    BY <1>1, <2>1, BrokenFits, BrokenSound
  <2> QED
    BY <1>2, <2>2, ShutDone
<1>7. CASE EndStream
  <2> DEFINE t == "ended while still needed"
  <2>1. t \in Assertion
    BY DEF Assertion
  <2>2. rs' = Ended(rs, TRUE, t)
    BY <1>7 DEF EndStream
  <2>3. rs'.state # "Open" /\ rs'.pipeline = rs.pipeline
    BY <1>1, <2>1, <2>2, EndedHalts
  <2> QED
    BY <1>2, <2>3, ShutDone
<1> QED
  BY <1>3, <1>4, <1>5, <1>6, <1>7

LEMMA CallCalm ==
    ASSUME IInv, Wires(rs'), Done(rs, applied),
           \/ AskWrite \/ (\E u \in User : SignIn(u)) \/ (\E n \in rs.asks : GiveToken(n))
           \/ UseToken
    PROVE  rs'.pipeline = rs.pipeline /\ Done(rs', applied') /\ UNCHANGED Calm
<1>1. /\ rs \in Store /\ Fit(author, rs, user) /\ Sound(rs) /\ Typed(rs)
      /\ OwnRows(author, rs.pipeline, user) /\ Quiet(rs)
  BY DEF IInv, TypeOK, Good, Fit, Own
<1>2. UNCHANGED Calm /\ applied' = applied
  BY DEF AskWrite, SignIn, GiveToken, UseToken, local, history, service, Calm
<1>3. CASE AskWrite \/ (\E u \in User : SignIn(u))
  BY <1>2, <1>3 DEF AskWrite, SignIn
<1>4. CASE \E n \in rs.asks : GiveToken(n)
  <2>1. rs'.pipeline = rs.pipeline /\ rs'.down = rs.down
    BY <1>1, <1>4 DEF GiveToken, Store
  <2> QED
    BY <1>2, <2>1 DEF Done
<1>5. CASE UseToken
  <2> DEFINE t == tasks[1]
  <2>1. tasks # <<>> /\ t.kind \in TokenKinds /\ tasks \in Seq(Task) /\ Tokens(rs, tasks)
    BY <1>5 DEF UseToken, Runs, TokenKinds, IInv, TypeOK
  <2>2. 1 \in 1..Len(tasks)
    BY <2>1
  <2>3. CASE t.number # rs.closeCount
    <3>1. rs' = rs
      BY <1>5, <2>3 DEF UseToken
    <3> QED
      BY <1>2, <3>1
  <2>4. CASE t.number = rs.closeCount
    <3>1. rs.state = "Starting"
      BY <2>1, <2>2, <2>4 DEF Tokens
    <3>2. CASE t.kind = "noToken"
      <4>1. rs' = Broken(rs) /\ IsStarted(rs) /\ rs.failed \subseteq Excused
        BY <1>1, <1>5, <2>4, <3>1, <3>2 DEF UseToken, HardAssert, IsStarted, Sound
      <4>2. rs'.state # "Open" /\ rs'.pipeline = rs.pipeline
        BY <1>1, <4>1, BrokenFits, BrokenSound
      <4> QED
        BY <1>2, <4>2, ShutDone
    <3>3. CASE t.kind # "noToken"
      <4>1. rs'.pipeline = rs.pipeline /\ rs'.down = rs.down
        <5>1. rs.handshake = "pending"
          BY <1>1, <3>1 DEF Quiet
        <5>2. \E u, q : rs' = [rs EXCEPT !.state = "Open", !.session = u, !.up = q]
          BY <1>5, <2>4, <3>1, <3>3, <5>1 DEF UseToken, Opened, HardAssert
        <5> QED
          BY <1>1, <5>2 DEF Store
      <4> QED
        BY <1>2, <4>1 DEF Done
    <3> QED
      BY <3>2, <3>3
  <2> QED
    BY <2>3, <2>4
<1> QED
  BY <1>3, <1>4, <1>5

(* The steps that take the pipeline from the table anew.                   *)
LEMMA RestartCalm ==
    ASSUME IInv, Wires(rs'), user' \in User, ChangeNetwork \/ ChangeUser \/ Kill
    PROVE  /\ Front(rs'.pipeline, table[user']) /\ Done(rs', applied')
           /\ UNCHANGED <<table, applied, outcome>>
<1>1. /\ rs \in Store /\ Fit(author, rs, user) /\ Wires(rs) /\ Quiet(rs) /\ Sound(rs)
      /\ table \in [User -> Seq(Batch)] /\ Filed(author, table, nextId)
      /\ account \in User /\ user \in User
  BY DEF IInv, TypeOK, Good, Fit
<1>2. \A u \in User : /\ table[u] \in Seq(Batch) /\ Ordered(table[u])
                      /\ OwnRows(author, table[u], u)
  BY <1>1 DEF Filed
<1>3. CASE ChangeNetwork \/ ChangeUser
  <2>1. PICK u \in User : /\ u = user' /\ rs' = RestartNetwork(rs, table[u])
                          /\ UNCHANGED <<table, applied, outcome>>
    <3>1. CASE ChangeNetwork
      BY <1>1, <3>1 DEF ChangeNetwork, local, service, history
    <3>2. CASE ChangeUser
      BY <3>2 DEF ChangeUser, service, history
    <3> QED
      BY <1>3, <3>1, <3>2
  <2>2. rs'.state # "Open" /\ rs'.pipeline = Fetched(<<>>, table[u])
    <3>1. table[u] \in Seq(Batch) /\ OwnRows(author, table[u], u)
      BY <1>2
    <3>2. RestartNetwork(rs, table[u]).state # "Open"
      BY <1>1, <3>1, RestartFits
    <3>3. RestartNetwork(rs, table[u]).pipeline = Fetched(<<>>, table[u])
      BY <1>1, <3>1, RestartSound
    <3> QED
      BY <2>1, <3>2, <3>3
  <2> QED
    BY <1>2, <2>1, <2>2, ShutDone, NoneFront
<1>4. CASE Kill
  <2> DEFINE f == FreshStore(account)
  <2>1. /\ user' = account /\ rs' = FillWritePipeline(f, table[account])
        /\ UNCHANGED <<table, applied, outcome>>
    BY <1>4 DEF Kill, service
  <2>2. /\ f \in Store /\ Fit(author, f, account) /\ Sound(f) /\ f.pipeline = <<>>
    BY <1>1, FreshFits
  <2>3. f.state # "Open"
    BY DEF FreshStore
  <2> HIDE DEF f
  <2>4. rs'.state # "Open"
    BY <1>1, <1>2, <2>1, <2>2, <2>3, FillFits
  <2>5. Front(f.pipeline, table[account]) /\ Len(f.pipeline) <= kMaxPendingWrites
    BY <1>1, <1>2, <2>2, NoneFront, WritePipelineAssumption
  <2>6. Front(rs'.pipeline, table[account])
    BY <1>1, <1>2, <2>1, <2>2, <2>5, FillFront
  <2> QED
    BY <2>1, <2>4, <2>6, ShutDone
<1> QED
  BY <1>3, <1>4
-----------------------------------------------------------------------------
(* The writes to come.                                                     *)
LEMMA AscendingAppend ==
    ASSUME NEW q \in Seq(Task), Ascending(q), NEW t \in Task,
           t.kind = "write" =>
               \A k \in 1..Len(q) : q[k].kind = "write" => q[k].number < t.number
    PROVE  /\ Ascending(Append(q, t))
           /\ \A k \in 1..Len(Append(q, t)) :
                  \/ k \in 1..Len(q) /\ Append(q, t)[k] = q[k]
                  \/ Append(q, t)[k] = t
<1> DEFINE r == Append(q, t)
<1>1. /\ Len(r) = Len(q) + 1 /\ Len(q) \in Nat /\ r[Len(q) + 1] = t
      /\ \A k \in 1..Len(q) : r[k] = q[k]
  BY AppendProperties
<1> HIDE DEF r
<1>2. \A k \in 1..Len(r) : \/ k \in 1..Len(q) /\ r[k] = q[k]
                           \/ k = Len(q) + 1 /\ r[k] = t
  BY <1>1
<1>3. ASSUME NEW j \in 1..Len(r), NEW k \in 1..Len(r), j < k,
             r[j].kind = "write", r[k].kind = "write"
      PROVE  r[j].number < r[k].number
  <2>1. j \in 1..Len(q) /\ r[j] = q[j]
    BY <1>1, <1>2, <1>3
  <2> QED
    BY <1>2, <1>3, <2>1 DEF Ascending
<1>4. Ascending(r)
  BY <1>3 DEF Ascending
<1> QED
  BY <1>2, <1>4 DEF r

LEMMA AscendingTail ==
    ASSUME NEW q \in Seq(Task), q # <<>>, Ascending(q)
    PROVE  /\ Ascending(Tail(q))
           /\ \A k \in 1..Len(Tail(q)) :
                  /\ k + 1 \in 1..Len(q) /\ Tail(q)[k] = q[k + 1]
                  /\ q[1].kind = "write" /\ q[k + 1].kind = "write" =>
                         q[1].number < q[k + 1].number
<1> DEFINE r == Tail(q)
           n == Len(q)
           m == Len(r)
<1>1. /\ n \in Nat /\ m = n - 1 /\ \A k \in 1..m : r[k] = q[k + 1]
  BY HeadTailProperties
<1> HIDE DEF r, n, m
<1>2. \A k \in 1..m : k + 1 \in 1..n /\ 1 \in 1..n /\ 1 < k + 1
  BY <1>1
<1>3. \A j, k \in 1..m : j < k => j + 1 < k + 1
  BY <1>1
<1>4. Ascending(r)
  BY <1>1, <1>2, <1>3 DEF Ascending, n, m
<1>5. \A k \in 1..m : /\ k + 1 \in 1..n /\ r[k] = q[k + 1]
                      /\ q[1].kind = "write" /\ q[k + 1].kind = "write" =>
                             q[1].number < q[k + 1].number
  BY <1>1, <1>2 DEF Ascending, n
<1> QED
  BY <1>4, <1>5 DEF r, n, m

(* A task is taken: the write of it, if it is one, came before the others. *)
LEMMA ComingTaken ==
    ASSUME IInv, Ascending(tasks), tasks # <<>>, tasks' = Tail(tasks), author' = author
    PROVE  /\ Ascending(tasks')
           /\ \A n \in Nat : Coming(n)' =>
                  Coming(n) /\ (tasks[1].kind = "write" => tasks[1].number < n)
<1>1. /\ tasks \in Seq(Task) /\ OwnTasks(author, tasks) /\ author \in Seq(User)
      /\ 1 \in 1..Len(tasks)
  <2>1. tasks \in Seq(Task)
    BY DEF IInv, TypeOK
  <2> QED
    BY <2>1 DEF IInv, TypeOK
<1>2. /\ Ascending(Tail(tasks))
      /\ \A k \in 1..Len(Tail(tasks)) :
             /\ k + 1 \in 1..Len(tasks) /\ Tail(tasks)[k] = tasks[k + 1]
             /\ tasks[1].kind = "write" /\ tasks[k + 1].kind = "write" =>
                    tasks[1].number < tasks[k + 1].number
  BY <1>1, AscendingTail
<1>3. tasks[1].kind = "write" => tasks[1].number < Len(author) + 1
  <2>1. tasks[1].kind = "write" => tasks[1].number \in DOMAIN author
    BY <1>1 DEF OwnTasks, By
  <2>2. DOMAIN author = 1..Len(author) /\ Len(author) \in Nat
    BY <1>1
  <2> QED
    BY <2>1, <2>2
<1>4. ASSUME NEW n \in Nat, Coming(n)'
      PROVE  Coming(n) /\ (tasks[1].kind = "write" => tasks[1].number < n)
  <2>1. CASE n = Len(author) + 1
    BY <1>3, <2>1 DEF Coming
  <2>2. CASE \E k \in 1..Len(Tail(tasks)) :
                 Tail(tasks)[k].kind = "write" /\ Tail(tasks)[k].number = n
    BY <1>2, <2>2 DEF Coming
  <2> QED
    BY <1>4, <2>1, <2>2 DEF Coming
<1> QED
  BY <1>2, <1>4

(* What comes after a step came before it, or comes later.                 *)
LEMMA ComingStep ==
    ASSUME IInv, Ascending(tasks), [Next]_vars
    PROVE  /\ Ascending(tasks')
           /\ \A n \in Nat : Coming(n)' => \E m \in Nat : Coming(m) /\ m <= n
<1>1. /\ tasks \in Seq(Task) /\ OwnTasks(author, tasks) /\ author \in Seq(User)
      /\ account \in User /\ rs \in Store
  BY DEF IInv, TypeOK
<1>2. DOMAIN author = 1..Len(author) /\ Len(author) \in Nat
  BY <1>1
<1>3. CASE AskWrite
  <2> DEFINE l == Len(author)
  <2>1. /\ author' = Append(author, account)
        /\ tasks' = Append(tasks, [kind |-> "write", user |-> account,
                                   number |-> Len(author')])
    BY <1>3 DEF AskWrite
  <2>2. Len(author') = l + 1 /\ l \in Nat
    BY <1>1, <2>1, AppendProperties
  <2>3. Len(author') \in Write
    <3>1. IInv'
      BY <1>3, AskWriteInv
    <3>2. Len(author') + left'.writes <= MaxWrites /\ left'.writes \in Nat
      BY <3>1 DEF IInv, TypeOK, Budget
    <3> QED
      BY <2>2, <3>2, WritePipelineAssumption DEF Write
  <2> DEFINE t == [kind |-> "write", user |-> account, number |-> Len(author')]
  <2>4. t \in Task /\ t.kind = "write" /\ t.number = l + 1
    BY <1>1, <2>2, <2>3, TaskTypes
  <2>5. tasks' = Append(tasks, t)
    BY <2>1
  <2> HIDE DEF t
  <2>6. \A k \in 1..Len(tasks) : tasks[k].kind = "write" => tasks[k].number < l + 1
    <3>1. \A k \in 1..Len(tasks) : tasks[k].kind = "write" => tasks[k].number \in 1..l
      BY <1>1, <1>2 DEF OwnTasks, By
    <3> QED
      BY <2>2, <3>1
  <2>7. /\ Ascending(tasks')
        /\ \A k \in 1..Len(tasks') :
               (k \in 1..Len(tasks) /\ tasks'[k] = tasks[k]) \/ tasks'[k] = t
    BY <1>1, <2>4, <2>5, <2>6, AscendingAppend
  <2>8. ASSUME NEW n \in Nat, Coming(n)'
        PROVE  \E m \in Nat : Coming(m) /\ m <= n
    <3>1. CASE n = Len(author') + 1
      <4>1. l + 1 \in Nat /\ l + 1 <= n /\ Coming(l + 1)
        BY <2>2, <3>1 DEF Coming
      <4> QED
        BY <4>1
    <3>2. CASE \E k \in 1..Len(tasks') : tasks'[k].kind = "write" /\ tasks'[k].number = n
      <4>1. PICK k \in 1..Len(tasks') : tasks'[k].kind = "write" /\ tasks'[k].number = n
        BY <3>2
      <4>2. CASE k \in 1..Len(tasks) /\ tasks'[k] = tasks[k]
        <5>1. Coming(n) /\ n <= n
          BY <4>1, <4>2 DEF Coming
        <5> QED
          BY <5>1
      <4>3. CASE tasks'[k] = t
        BY <2>2, <2>4, <4>1, <4>3 DEF Coming
      <4> QED
        BY <2>7, <4>2, <4>3
    <3> QED
      BY <2>8, <3>1, <3>2 DEF Coming
  <2> QED
    BY <2>7, <2>8
<1>4. ASSUME NEW t \in Task, t.kind # "write", tasks' = Append(tasks, t), author' = author
      PROVE  /\ Ascending(tasks')
             /\ \A n \in Nat : Coming(n)' => \E m \in Nat : Coming(m) /\ m <= n
  <2>1. /\ Ascending(tasks')
        /\ \A k \in 1..Len(tasks') :
               (k \in 1..Len(tasks) /\ tasks'[k] = tasks[k]) \/ tasks'[k] = t
    BY <1>1, <1>4, AscendingAppend
  <2>2. \A n \in Nat : Coming(n)' => Coming(n) /\ n <= n
    BY <1>4, <2>1 DEF Coming
  <2> QED
    BY <2>1, <2>2
<1>5. CASE \E u \in User : SignIn(u)
  <2>1. PICK u \in User : SignIn(u)
    BY <1>5
  <2> DEFINE t == [kind |-> "user", user |-> u, number |-> 0]
  <2>2. t \in Task /\ t.kind # "write"
    BY TaskTypes
  <2>3. tasks' = Append(tasks, t) /\ author' = author
    BY <2>1 DEF SignIn, history
  <2> HIDE DEF t
  <2> QED
    BY <1>4, <2>2, <2>3
<1>6. CASE \E n \in rs.asks : GiveToken(n)
  <2>1. PICK n \in rs.asks : GiveToken(n)
    BY <1>6
  <2>2. PICK k \in TokenKinds :
            tasks' = Append(tasks, [kind |-> k, user |-> account, number |-> n])
    BY <2>1 DEF GiveToken, TokenKinds
  <2> DEFINE t == [kind |-> k, user |-> account, number |-> n]
  <2>3. n \in Nat
    BY <1>1, StoreFields
  <2>4. t \in Task /\ t.kind # "write"
    BY <1>1, <2>3, TaskTypes DEF TokenKinds
  <2>5. tasks' = Append(tasks, t) /\ author' = author
    BY <2>1, <2>2 DEF GiveToken, history
  <2> HIDE DEF t
  <2> QED
    BY <1>4, <2>4, <2>5
<1>7. CASE FileWrite \/ ChangeUser \/ UseToken
  <2>1. tasks # <<>> /\ tasks' = Tail(tasks) /\ author' = author
    BY <1>7 DEF FileWrite, ChangeUser, UseToken, Runs, history
  <2>2. \A n \in Nat : Coming(n)' => Coming(n) /\ n <= n
    BY <2>1, ComingTaken
  <2> QED
    BY <2>1, <2>2, ComingTaken
<1>8. CASE Kill
  <2>1. tasks' = <<>> /\ author' = author
    BY <1>8 DEF Kill
  <2>2. \A n \in Nat : Coming(n)' => Coming(n) /\ n <= n
    BY <2>1 DEF Coming
  <2> QED
    BY <2>1, <2>2 DEF Ascending
<1>9. CASE UNCHANGED <<tasks, author>>
  <2>1. \A n \in Nat : Coming(n)' => Coming(n) /\ n <= n
    BY <1>9 DEF Coming
  <2> QED
    BY <1>9, <2>1
<1>10. CASE \/ ServeHandshake \/ ServeWrite \/ RefuseWrite \/ ReceiveHandshake
            \/ ReceiveResult \/ ReceiveRefusal \/ BackoffElapses \/ IdleElapses
            \/ LoseStream \/ EndStream \/ ChangeNetwork
  BY <1>9, <1>10 DEF ServeHandshake, ServeWrite, RefuseWrite, ReceiveHandshake,
     ReceiveResult, ReceiveRefusal, BackoffElapses, IdleElapses, LoseStream, EndStream,
     ChangeNetwork, local, history
<1>11. CASE UNCHANGED vars
  BY <1>9, <1>11 DEF vars
<1> QED
  BY <1>3, <1>5, <1>6, <1>7, <1>8, <1>10, <1>11 DEF Next
-----------------------------------------------------------------------------
(* A step that touches one write, which comes before those still to come.  *)
LEMMA FreshStep ==
    ASSUME NEW x, \A n \in Nat : Coming(n) => Fresh(n),
           \A n \in Nat : Coming(n)' =>
               \E m \in Nat : Coming(m) /\ m <= n /\ ~(x \in Write /\ x >= n),
           \A w \in Write \ {x} :
               /\ w \in applied' => w \in applied
               /\ outcome'[w] = outcome[w] /\ told'[w] = told[w]
               /\ \A u \in User : w \in Pending(u)' => w \in Pending(u)
    PROVE  (\A n \in Nat : Coming(n) => Fresh(n))'
<1> SUFFICES ASSUME NEW n \in Nat, Coming(n)', NEW w \in Write, w >= n
             PROVE  /\ w \notin applied' /\ outcome'[w] = "none" /\ told'[w] = "none"
                    /\ \A u \in User : w \notin Pending(u)'
  BY DEF Fresh
<1>1. PICK m \in Nat : Coming(m) /\ m <= n /\ ~(x \in Write /\ x >= n)
  OBVIOUS
<1>2. w # x /\ w >= m
  <2>1. w \in Int
    BY WritePipelineAssumption DEF Write
  <2> QED
    BY <1>1, <2>1
<1>3. /\ w \notin applied /\ outcome[w] = "none" /\ told[w] = "none"
      /\ \A u \in User : w \notin Pending(u)
  BY <1>1, <1>2 DEF Fresh
<1> QED
  BY <1>2, <1>3

(* What is filed came before what is to come.                              *)
LEMMA FiledBefore ==
    ASSUME NEW n \in Nat, Fresh(n), NEW u \in User, NEW x \in Pending(u), x \in Write
    PROVE  ~(x >= n)
  BY DEF Fresh

LEMMA RowsPending ==
    ASSUME table \in [User -> Seq(Batch)], NEW u \in User
    PROVE  /\ \A k \in 1..Len(table[u]) :
                  /\ table[u][k].write \in Pending(u) /\ table[u][k].write \in Write
                  /\ table[u][k] \in Batch
           /\ \A w \in Pending(u) : /\ w \in Write
                                    /\ \E k \in 1..Len(table[u]) : w = table[u][k].write
<1>1. DOMAIN table[u] = 1..Len(table[u])
  OBVIOUS
<1>2. \A k \in 1..Len(table[u]) : table[u][k] \in Batch
  OBVIOUS
<1>3. \A k \in 1..Len(table[u]) : table[u][k].write \in Write
  BY <1>2 DEF Batch
<1> QED
  BY <1>1, <1>2, <1>3 DEF Pending

(* Where nothing is filed, settled or told the callers know what they knew.*)
LEMMA CallersStay ==
    ASSUME CallersToldTrue, UNCHANGED <<table, handlers, outcome, told>>,
           applied \subseteq applied'
    PROVE  CallersToldTrue'
  BY DEF CallersToldTrue

(* The answer that is first on the wire is for the first of the pipeline.  *)
LEMMA FirstAnswer ==
    ASSUME IInv, rs.down # <<>>, rs.down[1].kind # "handshake"
    PROVE  /\ rs.pipeline # <<>> /\ rs.state = "Open" /\ 1 \in 1..Len(rs.down)
           /\ rs.down[1].write = rs.pipeline[1].write
<1>1. rs \in Store /\ Wires(rs)
  BY DEF IInv, TypeOK, Good, Fit
<1>2. /\ rs.pipeline \in Seq(Batch) /\ rs.down \in Seq(Answer) /\ rs.up \in Seq(Request)
      /\ rs.handshake \in {"pending", "complete"}
  BY <1>1, StoreFields
<1>3. rs.state = "Open" /\ InStep(rs.pipeline, rs.down, rs.up)
  BY <1>1, <1>2 DEF Wires, Mirrors, Greeting
<1>4. rs.pipeline # <<>> /\ 1 \in 1..Len(rs.down)
  BY <1>2, <1>3, ReceivesInStep
<1> QED
  BY <1>3, <1>4 DEF InStep

(* The write that is served: those before it in the table are applied.     *)
LEMMA ServedIs ==
    ASSUME IInv, Front(rs.pipeline, table[user]), ServeWrite
    PROVE  /\ rs.session = user
           /\ \E k \in 1..Len(table[user]) :
                  /\ k = Len(rs.down) + 1 /\ rs.up[1].write = table[user][k].write
                  /\ \A i \in 1..Len(table[user]) : i < k =>
                         /\ i \in 1..Len(rs.down) /\ rs.down[i].kind = "ok"
                         /\ rs.down[i].write = table[user][i].write
<1>1. rs \in Store /\ Wires(rs) /\ Own(author, rs, user)
      /\ table \in [User -> Seq(Batch)] /\ user \in User
  BY DEF IInv, TypeOK, Good, Fit
<1>2. /\ rs.pipeline \in Seq(Batch) /\ rs.down \in Seq(Answer) /\ rs.up \in Seq(Request)
      /\ rs.handshake \in {"pending", "complete"} /\ table[user] \in Seq(Batch)
  BY <1>1, StoreFields
<1>3. /\ rs.up # <<>> /\ rs.up[1].kind = "write"
      /\ \A i \in DOMAIN rs.down : rs.down[i].kind # "refused"
  BY DEF ServeWrite, Serves
<1>4. rs.state = "Open" /\ InStep(rs.pipeline, rs.down, rs.up)
  BY <1>1, <1>2, <1>3 DEF Wires, Mirrors, Greeting
<1> DEFINE n == Len(rs.pipeline)
           d == Len(rs.down)
           q == Len(rs.up)
           r == Len(table[user])
<1>5. /\ n \in Nat /\ d \in Nat /\ q \in Nat /\ r \in Nat /\ n = d + q /\ n <= r
      /\ q # 0 /\ DOMAIN rs.down = 1..d
  <2>1. n \in Nat /\ d \in Nat /\ q \in Nat /\ r \in Nat /\ DOMAIN rs.down = 1..d
    BY <1>2
  <2>2. n = d + q
    BY <1>4 DEF InStep
  <2>3. n <= r
    BY DEF Front
  <2>4. q # 0
    BY <1>2, <1>3, EmptySeq
  <2> HIDE DEF n, d, q, r
  <2> QED
    BY <2>1, <2>2, <2>3, <2>4
<1>6. /\ \A i \in 1..d : rs.down[i].kind # "handshake"
                         /\ rs.down[i].write = rs.pipeline[i].write
      /\ \A i \in 1..q : rs.up[i].write = rs.pipeline[d + i].write
      /\ \A i \in 1..n : rs.pipeline[i] = table[user][i]
  BY <1>4 DEF InStep, Front
<1>7. \A i \in 1..d : rs.down[i].kind \in {"handshake", "ok", "refused"}
  <2>1. \A i \in 1..d : rs.down[i] \in Answer
    BY <1>2
  <2> QED
    BY <2>1 DEF Answer
<1> HIDE DEF n, d, q, r
<1>8. /\ 1 \in 1..q /\ d + 1 \in 1..n /\ d + 1 \in 1..r
      /\ \A i \in 1..r : i < d + 1 => i \in 1..d /\ i \in 1..n
  BY <1>5
<1>9. rs.up[1].write = table[user][d + 1].write
  BY <1>6, <1>8
<1>10. \A i \in 1..r : i < d + 1 => /\ i \in 1..d /\ rs.down[i].kind = "ok"
                                    /\ rs.down[i].write = table[user][i].write
  BY <1>3, <1>5, <1>6, <1>7, <1>8
<1>11. rs.session = user
  BY <1>1, <1>4 DEF Own
<1> QED
  BY <1>8, <1>9, <1>10, <1>11 DEF d, r

(* The handler that waits for the first write of the pipeline.             *)
LEMMA FirstHandler ==
    ASSUME IInv, Front(rs.pipeline, table[user]), CallersToldTrue, rs.pipeline # <<>>
    PROVE  /\ rs.pipeline[1] \in Batch /\ rs.pipeline[1] = table[user][1]
           /\ 1 \in 1..Len(table[user])
           /\ \A h \in handlers[user] : h.id = rs.pipeline[1].id => h = rs.pipeline[1]
<1>1. /\ rs \in Store /\ table \in [User -> Seq(Batch)] /\ user \in User
      /\ Ordered(table[user])
  BY DEF IInv, TypeOK, Filed
<1>2. /\ rs.pipeline \in Seq(Batch) /\ table[user] \in Seq(Batch)
      /\ DOMAIN table[user] = 1..Len(table[user]) /\ Len(table[user]) \in Nat
  BY <1>1, StoreFields
<1>3. 1 \in 1..Len(rs.pipeline) /\ rs.pipeline[1] \in Batch
  BY <1>2
<1>4. rs.pipeline[1] = table[user][1] /\ 1 \in 1..Len(table[user])
  BY <1>2, <1>3 DEF Front
<1>5. ASSUME NEW h \in handlers[user], h.id = rs.pipeline[1].id
      PROVE  h = rs.pipeline[1]
  <2>1. PICK k \in 1..Len(table[user]) : table[user][k] = h
    BY <1>1, <1>2 DEF CallersToldTrue
  <2>2. 1 < k => table[user][1].id < table[user][k].id
    BY <1>1, <1>4 DEF Ordered
  <2>3. table[user][1].id \in Nat
    BY <1>2, <1>4, Numbers
  <2>4. k = 1
    BY <1>4, <1>5, <2>1, <2>2, <2>3
  <2> QED
    BY <1>4, <2>1, <2>4
<1> QED
  BY <1>3, <1>4, <1>5
-----------------------------------------------------------------------------
(* A write is settled: the first of the table leaves it, and only what is  *)
(* known of that write changes.                                            *)
LEMMA SettledRows ==
    ASSUME IInv, Front(rs.pipeline, table[user]),
           \A u \in User : InTurn(table[u], outcome), CallersToldTrue,
           rs.pipeline # <<>>, NEW how \in {"ok", "refused"},
           Settles(rs.pipeline[1], how), NEW x, x = rs.pipeline[1].write
    PROVE  /\ x \in Write /\ x \in Pending(user) /\ outcome[x] = "none"
           /\ \A k \in 1..Len(table[user]) : x <= table[user][k].write
           /\ \A w \in Write \ {x} : outcome'[w] = outcome[w] /\ told'[w] = told[w]
           /\ outcome'[x] = how /\ told'[x] \in {told[x], how}
           /\ \A u \in User \ {user} : table'[u] = table[u]
           /\ Len(table'[user]) = Len(table[user]) - 1
           /\ \A i \in 1..Len(table'[user]) : /\ table'[user][i] = table[user][i + 1]
                                              /\ i + 1 \in 1..Len(table[user])
           /\ Front(Tail(rs.pipeline), table'[user])
           /\ \A u \in User : handlers'[u] \subseteq handlers[u]
           /\ \A h \in handlers'[user] : h # rs.pipeline[1]
<1> DEFINE b == rs.pipeline[1]
           rows == table[user]
           new == Without(rows, b.id)
<1>1. /\ user \in User /\ table \in [User -> Seq(Batch)] /\ Ordered(rows)
      /\ handlers \in [User -> SUBSET Batch] /\ rs.pipeline \in Seq(Batch)
      /\ outcome \in [Write -> {"none", "ok", "refused"}]
      /\ told \in [Write -> {"none", "ok", "refused"}]
  BY StoreFields DEF IInv, TypeOK, Filed
<1>2. /\ b \in Batch /\ b = rows[1] /\ 1 \in 1..Len(rows)
      /\ \A h \in handlers[user] : h.id = b.id => h = b
  BY FirstHandler
<1>3. rows \in Seq(Batch) /\ Len(rows) \in Nat
  BY <1>1
<1>4. /\ Front(Tail(rs.pipeline), new) /\ Len(new) = Len(rows) - 1
      /\ \A i \in 1..Len(new) : new[i] = rows[i + 1] /\ i + 1 \in 1..Len(rows)
  BY <1>1, <1>3, WithoutFirst
<1>5. table' = [table EXCEPT ![user] = new]
  BY DEF Settles
<1> HIDE DEF new
<1>6. table'[user] = new /\ \A u \in User \ {user} : table'[u] = table[u]
  BY <1>1, <1>5
<1>7. x \in Write /\ x \in Pending(user) /\ x = rows[1].write
  BY <1>1, <1>2, RowsPending
<1>8. outcome[x] = "none" /\ \A k \in 1..Len(rows) : x <= rows[k].write
  <2>1. outcome[x] = "none"
    BY <1>1, <1>2, <1>7 DEF InTurn
  <2>2. ASSUME NEW k \in 1..Len(rows)
        PROVE  x <= rows[k].write
    <3>1. rows[k].write \in Write
      BY <1>1, RowsPending
    <3>2. rows[k].write \in Int /\ x \in Int
      BY <1>7, <3>1, WritePipelineAssumption DEF Write
    <3>3. 1 < k => rows[1].write < rows[k].write
      BY <1>1, <1>2 DEF InTurn
    <3> QED
      BY <1>2, <1>7, <3>2, <3>3
  <2> QED
    BY <2>1, <2>2
<1>9. outcome'[x] = how /\ \A w \in Write \ {x} : outcome'[w] = outcome[w]
  <2>1. outcome' = [outcome EXCEPT ![x] = how]
    BY DEF Settles
  <2> QED
    BY <1>1, <1>7, <2>1
<1>10. /\ told'[x] \in {told[x], how}
       /\ \A w \in Write \ {x} : told'[w] = told[w]
  <2> DEFINE waiting == {h \in handlers[user] : h.id = b.id}
  <2>1. told' = [w \in Write |-> IF \E h \in waiting : h.write = w THEN how ELSE told[w]]
    BY DEF Settles, Notify
  <2>2. \A h \in waiting : h.write = x
    BY <1>2
  <2> HIDE DEF waiting
  <2> QED
    BY <1>7, <2>1, <2>2
<1>11. /\ \A u \in User : handlers'[u] \subseteq handlers[u]
       /\ \A h \in handlers'[user] : h # b
  <2> DEFINE waiting == {h \in handlers[user] : h.id = b.id}
  <2>1. handlers' = [handlers EXCEPT ![user] = @ \ waiting]
    BY DEF Settles, Notify
  <2>2. handlers'[user] = handlers[user] \ waiting
        /\ \A u \in User \ {user} : handlers'[u] = handlers[u]
    BY <1>1, <2>1
  <2> QED
    BY <2>2
<1> QED
  BY <1>4, <1>6, <1>7, <1>8, <1>9, <1>10, <1>11

(* What is left of the table is still in turn, and no other write moves.   *)
LEMMA SettledTurn ==
    ASSUME IInv, Front(rs.pipeline, table[user]),
           \A u \in User : InTurn(table[u], outcome), CallersToldTrue,
           rs.pipeline # <<>>, NEW how \in {"ok", "refused"},
           Settles(rs.pipeline[1], how), NEW x, x = rs.pipeline[1].write,
           table' \in [User -> Seq(Batch)]
    PROVE  /\ \A u \in User : InTurn(table'[u], outcome')
           /\ \A u \in User : \A w \in Pending(u)' : w # x /\ w \in Pending(u)
           /\ \A u \in User : \A w \in Pending(u) \ {x} : w \in Pending(u)'
           /\ \A u \in User \ {user} : \A k \in 1..Len(table[u]) : table[u][k].write # x
<1>1. /\ user \in User /\ table \in [User -> Seq(Batch)]
      /\ \A u \in User : OwnRows(author, table[u], u)
  BY DEF IInv, TypeOK, Filed
<1>2. /\ x \in Write /\ x \in Pending(user)
      /\ \A w \in Write \ {x} : outcome'[w] = outcome[w]
      /\ \A u \in User \ {user} : table'[u] = table[u]
      /\ Len(table'[user]) = Len(table[user]) - 1
      /\ \A i \in 1..Len(table'[user]) : /\ table'[user][i] = table[user][i + 1]
                                         /\ i + 1 \in 1..Len(table[user])
  BY SettledRows
<1>3. x = table[user][1].write /\ 1 \in 1..Len(table[user])
  BY FirstHandler
<1>4. \A u \in User : /\ DOMAIN table[u] = 1..Len(table[u]) /\ Len(table[u]) \in Nat
                      /\ DOMAIN table'[u] = 1..Len(table'[u]) /\ Len(table'[u]) \in Nat
  BY <1>1
<1>5. author[x] = user
  BY <1>1, <1>3, <1>4 DEF OwnRows, By
<1>6. ASSUME NEW u \in User \ {user}, NEW k \in 1..Len(table[u])
      PROVE  table[u][k].write # x
  <2>1. author[table[u][k].write] = u
    BY <1>1, <1>4 DEF OwnRows, By
  <2> QED
    BY <1>5, <2>1
<1>7. \A u \in User : \A k \in 1..Len(table[u]) : table[u][k].write \in Write
  BY <1>1, RowsPending
<1>8. \A i \in 1..Len(table'[user]) :
          /\ table[user][i + 1].write # x /\ i + 1 \in 1..Len(table[user])
          /\ table'[user][i] = table[user][i + 1]
  <2>1. ASSUME NEW i \in 1..Len(table'[user])
        PROVE  table[user][i + 1].write # x
    <3>1. 1 < i + 1 /\ i + 1 \in 1..Len(table[user])
      BY <1>2, <1>4
    <3>2. table[user][1].write < table[user][i + 1].write
      BY <1>1, <1>3, <3>1 DEF InTurn
    <3>3. x \in Int
      BY <1>2, WritePipelineAssumption DEF Write
    <3> QED
      BY <1>3, <3>2, <3>3
  <2> QED
    BY <1>2, <2>1
<1>9. InTurn(table'[user], outcome')
  <2>1. \A j, k \in 1..Len(table'[user]) : j < k => j + 1 < k + 1
    BY <1>4
  <2>2. \A j, k \in 1..Len(table'[user]) :
            j < k => table'[user][j].write < table'[user][k].write
    BY <1>1, <1>8, <2>1 DEF InTurn
  <2>3. \A k \in 1..Len(table'[user]) : outcome'[table'[user][k].write] = "none"
    <3>1. ASSUME NEW k \in 1..Len(table'[user])
          PROVE  outcome'[table'[user][k].write] = "none"
      <4>1. PICK w \in Write : w = table[user][k + 1].write /\ w # x
        BY <1>1, <1>7, <1>8
      <4>2. outcome[w] = "none"
        BY <1>1, <1>8, <4>1 DEF InTurn
      <4> QED
        BY <1>2, <1>8, <4>1, <4>2
    <3> QED
      BY <3>1
  <2> QED
    BY <2>2, <2>3 DEF InTurn
<1>10. \A u \in User \ {user} : InTurn(table'[u], outcome')
  <2>1. \A u \in User \ {user} : InTurn(table[u], outcome) /\ table'[u] = table[u]
    BY <1>2
  <2>2. \A u \in User \ {user} : \A k \in 1..Len(table[u]) :
            outcome'[table[u][k].write] = outcome[table[u][k].write]
    BY <1>2, <1>6, <1>7
  <2>3. SUFFICES ASSUME NEW u \in User \ {user} PROVE InTurn(table'[u], outcome')
    OBVIOUS
  <2>4. /\ \A j, k \in 1..Len(table[u]) : j < k => table[u][j].write < table[u][k].write
        /\ \A k \in 1..Len(table[u]) : outcome[table[u][k].write] = "none"
    BY <2>1 DEF InTurn
  <2>5. \A k \in 1..Len(table[u]) : outcome'[table[u][k].write] = "none"
    BY <2>2, <2>4
  <2>6. InTurn(table[u], outcome')
    BY <2>4, <2>5 DEF InTurn
  <2> QED
    BY <2>1, <2>6
<1>11. ASSUME NEW u \in User, NEW w \in Pending(u)'
       PROVE  w # x /\ w \in Pending(u)
  <2>1. PICK k \in 1..Len(table'[u]) : w = table'[u][k].write
    BY <1>4, <1>11 DEF Pending
  <2>2. CASE u = user
    BY <1>4, <1>8, <2>1, <2>2 DEF Pending
  <2>3. CASE u # user
    BY <1>2, <1>4, <1>6, <2>1, <2>3 DEF Pending
  <2> QED
    BY <2>2, <2>3
<1>12. ASSUME NEW u \in User, NEW w \in Pending(u), w # x
       PROVE  w \in Pending(u)'
  <2> SUFFICES ASSUME u = user PROVE w \in Pending(u)'
    BY <1>2 DEF Pending
  <2>1. PICK k \in 1..Len(table[user]) : w = table[user][k].write
    BY <1>1, <1>4, <1>12 DEF Pending
  <2>2. k - 1 \in 1..Len(table'[user]) /\ (k - 1) + 1 = k
    <3>1. k # 1 /\ k \in Nat /\ k <= Len(table[user])
      BY <1>3, <1>4, <1>12, <2>1
    <3> QED
      BY <1>2, <1>4, <3>1
  <2>3. w = table'[user][k - 1].write /\ k - 1 \in DOMAIN table'[user]
    BY <1>4, <1>8, <2>1, <2>2
  <2> QED
    BY <1>1, <2>3 DEF Pending
<1> QED
  BY <1>6, <1>9, <1>10, <1>11, <1>12

(* The caller of the settled write is told what became of it, and no other *)
(* caller is told anything.                                                *)
LEMMA SettledCallers ==
    ASSUME IInv, Front(rs.pipeline, table[user]),
           \A u \in User : InTurn(table[u], outcome), CallersToldTrue,
           rs.pipeline # <<>>, NEW how \in {"ok", "refused"},
           Settles(rs.pipeline[1], how), table' \in [User -> Seq(Batch)],
           how = "ok" => rs.pipeline[1].write \in applied, applied' = applied
    PROVE  CallersToldTrue'
<1> DEFINE b == rs.pipeline[1]
<1>1. PICK x \in Write : x = b.write
  BY SettledRows
<1>2. /\ user \in User /\ table \in [User -> Seq(Batch)]
      /\ handlers \in [User -> SUBSET Batch]
  BY DEF IInv, TypeOK
<1>3. /\ outcome[x] = "none"
      /\ \A w \in Write \ {x} : outcome'[w] = outcome[w] /\ told'[w] = told[w]
      /\ outcome'[x] = how /\ told'[x] \in {told[x], how}
      /\ \A u \in User \ {user} : table'[u] = table[u]
      /\ Len(table'[user]) = Len(table[user]) - 1
      /\ \A i \in 1..Len(table'[user]) : table'[user][i] = table[user][i + 1]
      /\ \A u \in User : handlers'[u] \subseteq handlers[u]
      /\ \A h \in handlers'[user] : h # b
  BY <1>1, SettledRows
<1>4. \A u \in User \ {user} : \A k \in 1..Len(table[u]) : table[u][k].write # x
  BY <1>1, SettledTurn
<1>5. b = table[user][1] /\ 1 \in 1..Len(table[user])
  BY FirstHandler
<1>6. \A u \in User : /\ DOMAIN table[u] = 1..Len(table[u]) /\ Len(table[u]) \in Nat
                      /\ DOMAIN table'[u] = 1..Len(table'[u]) /\ Len(table'[u]) \in Nat
  BY <1>2
<1>7. ASSUME NEW u \in User, NEW h \in handlers'[u]
      PROVE  /\ \E k \in DOMAIN table'[u] : table'[u][k] = h
             /\ told'[h.write] = "none"
  <2>1. h \in handlers[u]
    BY <1>3
  <2>2. PICK k \in 1..Len(table[u]) : table[u][k] = h
    <3>1. \E k \in DOMAIN table[u] : table[u][k] = h
      BY <2>1 DEF CallersToldTrue
    <3> QED
      BY <1>6, <3>1
  <2>3. told[h.write] = "none" /\ h.write \in Write
    BY <1>2, <2>1, <2>2, RowsPending DEF CallersToldTrue
  <2>4. CASE u # user
    BY <1>3, <1>4, <1>6, <2>2, <2>3, <2>4
  <2>5. CASE u = user
    <3>1. k # 1
      BY <1>3, <1>5, <2>2, <2>5
    <3>2. k - 1 \in 1..Len(table'[user]) /\ (k - 1) + 1 = k /\ 1 < k
      BY <1>3, <1>6, <2>5, <3>1
    <3>3. table'[user][k - 1] = h
      BY <1>3, <2>2, <2>5, <3>2
    <3>4. table[user][1].write < table[user][k].write
      BY <1>5, <2>5, <3>2 DEF InTurn
    <3>5. h.write # x
      <4>1. x \in Int
        BY WritePipelineAssumption DEF Write
      <4> QED
        BY <1>1, <1>5, <2>2, <2>5, <3>4, <4>1
    <3> QED
      BY <1>3, <1>6, <2>3, <2>5, <3>2, <3>3, <3>5
  <2> QED
    BY <2>4, <2>5
<1>8. ASSUME NEW w \in Write
      PROVE  /\ told'[w] = "ok" => w \in applied'
             /\ told'[w] = "refused" => outcome'[w] = "refused"
  <2>1. /\ told[w] = "ok" => w \in applied
        /\ told[w] = "refused" => outcome[w] = "refused"
    BY DEF CallersToldTrue
  <2>2. CASE w # x
    BY <1>3, <2>1, <2>2
  <2>3. CASE w = x
    BY <1>1, <1>3, <2>1, <2>3
  <2> QED
    BY <2>2, <2>3
<1> QED
  BY <1>7, <1>8 DEF CallersToldTrue
-----------------------------------------------------------------------------
(* The second invariant, action by action.                                 *)
LEMMA LedgerInit == Init => Ledger
<1> SUFFICES ASSUME Init PROVE Ledger
  OBVIOUS
<1>1. IInv /\ rs.state # "Open" /\ rs.pipeline = <<>>
  BY InitInv DEF Init, FreshStore
<1>2. /\ table \in [User -> Seq(Batch)] /\ user \in User /\ Wires(rs)
      /\ \A u \in User : table[u] = <<>>
  BY <1>1 DEF Init, IInv, TypeOK, Good, Fit
<1>3. Front(rs.pipeline, table[user])
  BY <1>1, <1>2 DEF Front
<1>4. Done(rs, applied)
  BY <1>1, <1>2, ShutDone
<1>5. \A u \in User : InTurn(table[u], outcome)
  BY <1>2 DEF InTurn
<1>6. Ascending(tasks)
  BY DEF Init, Ascending
<1>7. \A u \in User : Pending(u) = {}
  BY <1>2 DEF Pending
<1>8. \A n \in Nat : Fresh(n)
  BY <1>7 DEF Init, Fresh
<1>9. CallersToldTrue
  BY DEF Init, CallersToldTrue
<1> QED
  BY <1>3, <1>4, <1>5, <1>6, <1>8, <1>9 DEF Ledger

(* A step that files and settles nothing and tells nobody anything; what   *)
(* it applies is filed.                                                    *)
LEMMA LedgerStays ==
    ASSUME IInv, Ledger, [Next]_vars, Front(rs'.pipeline, table[user']), Done(rs', applied'),
           UNCHANGED <<table, outcome, told>>, handlers' = handlers,
           applied \subseteq applied',
           NEW x, \A w \in applied' \ applied : w = x,
           x \in Write => \E u \in User : x \in Pending(u)
    PROVE  Ledger'
<1>1. Ascending(tasks') /\ \A n \in Nat : Coming(n)' => \E m \in Nat : Coming(m) /\ m <= n
  BY ComingStep DEF Ledger
<1>2. \A u \in User : Pending(u)' = Pending(u)
  BY DEF Pending
<1>3. ASSUME NEW n \in Nat, Coming(n)'
      PROVE  \E m \in Nat : Coming(m) /\ m <= n /\ ~(x \in Write /\ x >= n)
  <2>1. PICK m \in Nat : Coming(m) /\ m <= n
    BY <1>1, <1>3
  <2>2. ~(x \in Write /\ x >= m)
    BY <2>1 DEF Ledger, Fresh
  <2>3. x \in Write => x \in Int
    BY WritePipelineAssumption DEF Write
  <2>4. ~(x \in Write /\ x >= n)
    BY <2>1, <2>2, <2>3
  <2> QED
    BY <2>1, <2>4
<1>4. (\A n \in Nat : Coming(n) => Fresh(n))'
  <2>1. \A n \in Nat : Coming(n) => Fresh(n)
    BY DEF Ledger
  <2>2. \A w \in Write \ {x} :
            /\ w \in applied' => w \in applied
            /\ outcome'[w] = outcome[w] /\ told'[w] = told[w]
            /\ \A u \in User : w \in Pending(u)' => w \in Pending(u)
    BY <1>2
  <2> QED
    BY <1>3, <2>1, <2>2, FreshStep
<1>5. CallersToldTrue'
  BY CallersStay DEF Ledger
<1>6. \A u \in User : InTurn(table'[u], outcome')
  BY DEF Ledger
<1> QED
  BY <1>1, <1>4, <1>5, <1>6 DEF Ledger

LEMMA LedgerCalm ==
    ASSUME IInv, Ledger, Next, Wires(rs'),
           \/ AskWrite \/ (\E u \in User : SignIn(u)) \/ (\E n \in rs.asks : GiveToken(n))
           \/ UseToken \/ ServeHandshake \/ RefuseWrite
           \/ ReceiveHandshake \/ BackoffElapses \/ IdleElapses \/ LoseStream \/ EndStream
    PROVE  Ledger'
<1>1. Done(rs, applied) /\ Front(rs.pipeline, table[user])
  BY DEF Ledger
<1>2. rs'.pipeline = rs.pipeline /\ Done(rs', applied') /\ UNCHANGED Calm
  BY <1>1, ServiceCalm, StoreCalm, CallCalm
<1>3. applied' = applied
  BY DEF AskWrite, SignIn, GiveToken, UseToken, ServeHandshake, RefuseWrite,
     ReceiveHandshake, BackoffElapses, IdleElapses, LoseStream, EndStream, service
<1>4. Front(rs'.pipeline, table[user'])
  BY <1>1, <1>2 DEF Calm
<1>5. 0 \notin Write
  BY DEF Write
<1> QED
  BY <1>2, <1>3, <1>4, <1>5, LedgerStays DEF Calm

LEMMA LedgerServe ==
    ASSUME IInv, Ledger, Next, ServeWrite
    PROVE  Ledger'
<1>1. Done(rs, applied) /\ Front(rs.pipeline, table[user])
  BY DEF Ledger
<1>2. rs'.pipeline = rs.pipeline /\ Done(rs', applied') /\ UNCHANGED Calm
  BY <1>1, ServiceCalm
<1>3. table \in [User -> Seq(Batch)] /\ user \in User
  BY DEF IInv, TypeOK
<1>4. PICK x \in Write : x = rs.up[1].write /\ x \in Pending(user)
  BY <1>1, <1>3, ServedIs, RowsPending
<1>5. applied' = applied \cup {x}
  BY <1>4 DEF ServeWrite
<1>6. Front(rs'.pipeline, table[user'])
  BY <1>1, <1>2 DEF Calm
<1> QED
  BY <1>2, <1>3, <1>4, <1>5, <1>6, LedgerStays DEF Calm

LEMMA LedgerRestart ==
    ASSUME IInv, Ledger, Next, Wires(rs'), user' \in User, ChangeNetwork \/ ChangeUser
    PROVE  Ledger'
<1>1. /\ Front(rs'.pipeline, table[user']) /\ Done(rs', applied')
      /\ UNCHANGED <<table, applied, outcome>>
  BY RestartCalm
<1>2. UNCHANGED <<handlers, told>>
  BY DEF ChangeNetwork, ChangeUser, local, history
<1>3. 0 \notin Write
  BY DEF Write
<1> QED
  BY <1>1, <1>2, <1>3, LedgerStays

LEMMA LedgerKill ==
    ASSUME IInv, Ledger, Next, Wires(rs'), user' \in User, Kill
    PROVE  Ledger'
<1>1. /\ Front(rs'.pipeline, table[user']) /\ Done(rs', applied')
      /\ UNCHANGED <<table, applied, outcome>>
  BY RestartCalm
<1>2. handlers' = [u \in User |-> {}]
  BY DEF Kill
<1>3. /\ user \in User /\ table \in [User -> Seq(Batch)]
      /\ told \in [Write -> {"none", "ok", "refused"}]
  BY DEF IInv, TypeOK
<1>4. PICK x \in Write \cup {0} :
          /\ x \in Write => x \in Pending(user) /\ x \in applied /\ told'[x] \in {told[x], "ok"}
          /\ \A w \in Write \ {x} : told'[w] = told[w]
  <2>1. CASE UNCHANGED told
    <3>1. 0 \notin Write
      BY DEF Write
    <3> QED
      BY <2>1, <3>1
  <2>2. CASE /\ Receives("ok") /\ rs.pipeline # <<>>
             /\ told' = [w \in Write |->
                    IF [id |-> rs.pipeline[1].id, write |-> w] \in handlers[user]
                    THEN "ok" ELSE told[w]]
    <3> DEFINE b == rs.pipeline[1]
    <3>1. rs.down # <<>> /\ rs.down[1].kind = "ok"
      BY <2>2 DEF Receives
    <3>2. rs.down[1].write = b.write /\ 1 \in 1..Len(rs.down)
      BY <3>1, FirstAnswer
    <3>3. b.write \in applied
      BY <3>1, <3>2 DEF Ledger, Done
    <3>4. /\ b \in Batch /\ b = table[user][1] /\ 1 \in 1..Len(table[user])
          /\ \A h \in handlers[user] : h.id = b.id => h = b
      BY <2>2, FirstHandler DEF Ledger
    <3>5. b.write \in Write /\ b.write \in Pending(user)
      BY <1>3, <3>4, RowsPending
    <3>6. ASSUME NEW w \in Write, w # b.write
          PROVE  told'[w] = told[w]
      <4>1. [id |-> b.id, write |-> w] # b
        BY <3>6
      <4>2. [id |-> b.id, write |-> w].id = b.id
        OBVIOUS
      <4>3. [id |-> b.id, write |-> w] \notin handlers[user]
        BY <3>4, <4>1, <4>2
      <4> QED
        BY <2>2, <4>3
    <3>7. told'[b.write] \in {told[b.write], "ok"}
      BY <2>2, <3>5
    <3> QED
      BY <3>3, <3>5, <3>6, <3>7
  <2> QED
    BY <2>1, <2>2 DEF Kill
<1>5. Ascending(tasks') /\ \A n \in Nat : Coming(n)' => \E m \in Nat : Coming(m) /\ m <= n
  BY ComingStep DEF Ledger
<1>6. ASSUME NEW n \in Nat, Coming(n)'
      PROVE  \E m \in Nat : Coming(m) /\ m <= n /\ ~(x \in Write /\ x >= n)
  <2>1. PICK m \in Nat : Coming(m) /\ m <= n
    BY <1>5, <1>6
  <2>2. ~(x \in Write /\ x >= m)
    BY <1>4, <2>1 DEF Ledger, Fresh
  <2>3. x \in Write => x \in Int
    BY WritePipelineAssumption DEF Write
  <2>4. ~(x \in Write /\ x >= n)
    BY <2>1, <2>2, <2>3
  <2> QED
    BY <2>1, <2>4
<1>7. (\A n \in Nat : Coming(n) => Fresh(n))'
  <2>1. \A n \in Nat : Coming(n) => Fresh(n)
    BY DEF Ledger
  <2>2. \A u \in User : Pending(u)' = Pending(u)
    BY <1>1 DEF Pending
  <2>3. \A w \in Write \ {x} :
            /\ w \in applied' => w \in applied
            /\ outcome'[w] = outcome[w] /\ told'[w] = told[w]
            /\ \A u \in User : w \in Pending(u)' => w \in Pending(u)
    BY <1>1, <1>4, <2>2
  <2> QED
    BY <1>6, <2>1, <2>3, FreshStep
<1>8. CallersToldTrue'
  <2>1. \A u \in User : handlers'[u] = {}
    BY <1>2
  <2>2. ASSUME NEW w \in Write
        PROVE  /\ told'[w] = "ok" => w \in applied'
               /\ told'[w] = "refused" => outcome'[w] = "refused"
    <3>1. /\ told[w] = "ok" => w \in applied
          /\ told[w] = "refused" => outcome[w] = "refused"
      BY DEF Ledger, CallersToldTrue
    <3> QED
      BY <1>1, <1>4, <3>1
  <2> QED
    BY <2>1, <2>2 DEF CallersToldTrue
<1>9. \A u \in User : InTurn(table'[u], outcome')
  BY <1>1 DEF Ledger
<1> QED
  BY <1>1, <1>5, <1>7, <1>8, <1>9 DEF Ledger

(* A write is settled: its own row goes, its own caller is told.           *)
LEMMA LedgerSettled ==
    ASSUME IInv, IInv', Ledger, Next, user' = user, applied' = applied,
           rs.pipeline # <<>>, NEW how \in {"ok", "refused"},
           Settles(rs.pipeline[1], how), how = "ok" => rs.pipeline[1].write \in applied,
           Front(rs'.pipeline, table'[user]), Done(rs', applied')
    PROVE  Ledger'
<1>1. /\ user \in User /\ table \in [User -> Seq(Batch)] /\ table' \in [User -> Seq(Batch)]
      /\ Front(rs.pipeline, table[user]) /\ CallersToldTrue
      /\ \A u \in User : InTurn(table[u], outcome)
  BY DEF IInv, TypeOK, Ledger
<1>2. PICK x \in Write :
          /\ x = rs.pipeline[1].write /\ x \in Pending(user)
          /\ \A w \in Write \ {x} : outcome'[w] = outcome[w] /\ told'[w] = told[w]
  BY <1>1, SettledRows
<1>3. /\ \A u \in User : InTurn(table'[u], outcome')
      /\ \A u \in User : \A w \in Pending(u)' : w # x /\ w \in Pending(u)
  BY <1>1, <1>2, SettledTurn
<1>4. CallersToldTrue'
  BY <1>1, SettledCallers
<1>5. Ascending(tasks') /\ \A n \in Nat : Coming(n)' => \E m \in Nat : Coming(m) /\ m <= n
  BY ComingStep DEF Ledger
<1>6. ASSUME NEW n \in Nat, Coming(n)'
      PROVE  \E m \in Nat : Coming(m) /\ m <= n /\ ~(x \in Write /\ x >= n)
  <2>1. PICK m \in Nat : Coming(m) /\ m <= n
    BY <1>5, <1>6
  <2>2. ~(x >= m)
    BY <1>1, <1>2, <2>1 DEF Ledger, Fresh
  <2>3. x \in Int
    BY WritePipelineAssumption DEF Write
  <2>4. ~(x \in Write /\ x >= n)
    BY <2>1, <2>2, <2>3
  <2> QED
    BY <2>1, <2>4
<1>7. (\A n \in Nat : Coming(n) => Fresh(n))'
  <2>1. \A n \in Nat : Coming(n) => Fresh(n)
    BY DEF Ledger
  <2>2. \A w \in Write \ {x} :
            /\ w \in applied' => w \in applied
            /\ outcome'[w] = outcome[w] /\ told'[w] = told[w]
            /\ \A u \in User : w \in Pending(u)' => w \in Pending(u)
    BY <1>2, <1>3
  <2> QED
    BY <1>6, <2>1, <2>2, FreshStep
<1> QED
  BY <1>3, <1>4, <1>5, <1>7 DEF Ledger

(* What is settled is the first write of the pipeline, and "done" is said  *)
(* only of a write that was answered so.                                   *)
LEMMA SettledIs ==
    ASSUME IInv, Done(rs, applied), ReceiveResult \/ ReceiveRefusal
    PROVE  /\ rs.pipeline # <<>> /\ user' = user /\ UNCHANGED <<applied, latest>>
           /\ \E how \in {"ok", "refused"} :
                  /\ Settles(rs.pipeline[1], how)
                  /\ how = "ok" => rs.pipeline[1].write \in applied
<1>1. user' = user /\ UNCHANGED <<applied, latest>>
  BY DEF ReceiveResult, ReceiveRefusal, service
<1>2. CASE ReceiveResult
  <2>1. rs.down # <<>> /\ rs.down[1].kind = "ok"
    BY <1>2 DEF ReceiveResult, Receives
  <2>2. /\ rs.pipeline # <<>> /\ 1 \in 1..Len(rs.down)
        /\ rs.down[1].write = rs.pipeline[1].write
    BY <2>1, FirstAnswer
  <2>3. rs.pipeline[1].write \in applied
    BY <2>1, <2>2 DEF Done
  <2>4. Settles(rs.pipeline[1], "ok")
    BY <1>2, <2>2 DEF ReceiveResult
  <2> QED
    BY <1>1, <2>2, <2>3, <2>4
<1>3. CASE ReceiveRefusal
  <2>1. rs.down # <<>> /\ rs.down[1].kind = "refused"
    BY <1>3 DEF ReceiveRefusal, Receives
  <2>2. rs.pipeline # <<>>
    BY <2>1, FirstAnswer
  <2>3. Settles(rs.pipeline[1], "refused")
    BY <1>3, <2>2 DEF ReceiveRefusal
  <2> QED
    BY <1>1, <2>2, <2>3
<1> QED
  BY <1>2, <1>3

LEMMA LedgerSettle ==
    ASSUME IInv, IInv', Ledger, Next, ReceiveResult \/ ReceiveRefusal
    PROVE  Ledger'
<1>1. /\ rs \in Store /\ Wires(rs') /\ Sound(rs) /\ Typed(rs) /\ Fit(author, rs, user)
      /\ table \in [User -> Seq(Batch)] /\ table' \in [User -> Seq(Batch)]
      /\ user \in User /\ Done(rs, applied) /\ Front(rs.pipeline, table[user])
      /\ Filed(author, table', nextId)
  <2>1. Filed(author', table', nextId') /\ author' = author /\ nextId' = nextId
    BY DEF IInv, ReceiveResult, ReceiveRefusal
  <2> QED
    BY <2>1 DEF IInv, TypeOK, Good, Fit, Ledger
<1>2. /\ rs.pipeline # <<>> /\ user' = user /\ UNCHANGED <<applied, latest>>
  BY <1>1, SettledIs
<1>3. PICK how \in {"ok", "refused"} :
          /\ Settles(rs.pipeline[1], how)
          /\ how = "ok" => rs.pipeline[1].write \in applied
  BY <1>1, SettledIs
<1> DEFINE new == table'[user]
<1>4. Front(Tail(rs.pipeline), new)
  BY <1>2, <1>3, SettledRows DEF Ledger
<1>5. new \in Seq(Batch) /\ Ordered(new) /\ OwnRows(author, new, user)
  BY <1>1 DEF Filed
<1>6. /\ Tail(rs.pipeline) \in Seq(Batch) /\ Len(Tail(rs.pipeline)) <= kMaxPendingWrites
      /\ rs.down \in Seq(Answer) /\ Len(rs.pipeline) <= kMaxPendingWrites
  <2>1. rs.pipeline \in Seq(Batch) /\ Len(rs.pipeline) <= kMaxPendingWrites
        /\ rs.down \in Seq(Answer)
    BY <1>1, StoreFields DEF Typed
  <2> QED
    BY <1>2, <2>1, WritePipelineAssumption
<1>7. Front(rs'.pipeline, new) /\ Done(rs', applied')
  <2>1. CASE ReceiveResult
    <3>1. PICK c \in Store :
              /\ rs' = FillWritePipeline(c, new) /\ Sound(c)
              /\ c.pipeline = Tail(rs.pipeline) /\ c.down = Tail(rs.down)
              /\ c.state = "Open"
      BY <2>1, ResultCall
    <3>2. Front(rs'.pipeline, new)
      BY <1>4, <1>5, <1>6, <3>1, FillFront
    <3>3. rs.down # <<>>
      BY <2>1 DEF ReceiveResult, Receives
    <3>4. Done(c, applied)
      BY <1>1, <1>6, <3>1, <3>3, LessDone
    <3>5. Done(rs', applied)
      BY <1>1, <3>1, <3>4, FillDone
    <3> QED
      BY <1>2, <3>2, <3>5
  <2>2. CASE ReceiveRefusal
    <3>1. Has(table[user], rs.pipeline[1].id)
      BY <1>2, <1>3, SettlesInv
    <3>2. rs' = Refused(rs, new)
      BY <1>2, <2>2, <3>1 DEF ReceiveRefusal, HardAssert
    <3>3. rs.state = "Open"
      <4>1. rs.down # <<>> /\ rs.down[1].kind = "refused"
        BY <2>2 DEF ReceiveRefusal, Receives
      <4> QED
        BY <4>1, FirstAnswer
    <3>4. rs'.pipeline = Tail(rs.pipeline) \o Fetched(Tail(rs.pipeline), new)
      BY <1>1, <1>2, <1>5, <1>6, <3>2, <3>3, RefusedSound DEF IsStarted
    <3>5. Front(rs'.pipeline, new)
      BY <1>4, <1>5, <1>6, <3>4, FrontFetched
    <3>6. OwnRows(author, Tail(rs.pipeline), user)
      <4>1. OwnRows(author, rs.pipeline, user) /\ rs.pipeline \in Seq(Batch)
        BY <1>1, StoreFields DEF Fit, Own
      <4>2. \A i \in 1..Len(Tail(rs.pipeline)) :
                Tail(rs.pipeline)[i] = new[i] /\ i \in 1..Len(new)
        <5>1. Len(new) \in Nat /\ Len(Tail(rs.pipeline)) \in Nat
          BY <1>5, <1>6
        <5> QED
          BY <1>4, <5>1 DEF Front
      <4>3. /\ DOMAIN Tail(rs.pipeline) = 1..Len(Tail(rs.pipeline))
            /\ DOMAIN new = 1..Len(new)
        BY <1>5, <1>6
      <4> QED
        BY <1>5, <4>2, <4>3 DEF OwnRows
    <3>7. rs'.state # "Open"
      BY <1>1, <1>2, <1>5, <3>2, <3>6, RefusedFits
    <3> QED
      BY <1>1, <3>5, <3>7, ShutDone
  <2> QED
    BY <2>1, <2>2
<1> QED
  BY <1>2, <1>3, <1>7, LedgerSettled

(* A write is filed: it comes behind all that are filed, and nothing is    *)
(* known of it.                                                            *)
LEMMA FiledIs ==
    ASSUME IInv, Ledger, FileWrite, NEW w, w = tasks[1].number
    PROVE  /\ w \in Write /\ Fresh(w)
           /\ \A k \in 1..Len(table[user]) : table[user][k].write < w
           /\ \A n \in Nat : Coming(n)' => Coming(n) /\ w < n
           /\ Len(table'[user]) = Len(table[user]) + 1
           /\ table'[user][Len(table[user]) + 1] = [id |-> nextId, write |-> w]
           /\ \A k \in 1..Len(table[user]) : table'[user][k] = table[user][k]
           /\ \A u \in User \ {user} : table'[u] = table[u]
           /\ Front(rs.pipeline, table'[user])
           /\ handlers' = [handlers EXCEPT ![user] =
                               @ \cup {[id |-> nextId, write |-> w]}]
<1> DEFINE b == [id |-> nextId, write |-> w]
           rows == table[user]
           new == Put(rows, b)
<1>1. /\ tasks # <<>> /\ tasks[1].kind = "write" /\ tasks' = Tail(tasks)
      /\ author' = author
  BY DEF FileWrite, Runs, history
<1>2. /\ table' = [table EXCEPT ![user] = new]
      /\ handlers' = [handlers EXCEPT ![user] =
             IF \E h \in @ : h.id = nextId THEN @ ELSE @ \cup {b}]
  BY DEF FileWrite
<1>3. /\ user \in User /\ nextId \in Nat /\ table \in [User -> Seq(Batch)]
      /\ Below(rows, nextId) /\ handlers \in [User -> SUBSET Batch]
      /\ tasks \in Seq(Task) /\ rs \in Store
  BY DEF IInv, TypeOK, Filed
<1>4. w \in Write /\ w \in Nat
  <2>1. w \in Write
    BY <1>1, TaskTaken, TaskFields
  <2> QED
    BY <2>1, WritePipelineAssumption DEF Write
<1>5. Coming(w) /\ Fresh(w)
  <2>1. 1 \in 1..Len(tasks)
    BY <1>1, <1>3
  <2> QED
    BY <1>1, <1>4, <2>1 DEF Ledger, Coming
<1>6. b \in Batch /\ b.id = nextId /\ rows \in Seq(Batch) /\ rs.pipeline \in Seq(Batch)
  BY <1>3, <1>4, StoreFields DEF Batch
<1> HIDE DEF b
<1>7. /\ new \in Seq(Batch) /\ Len(new) = Len(rows) + 1 /\ new[Len(rows) + 1] = b
      /\ \A k \in 1..Len(rows) : new[k] = rows[k]
  BY <1>3, <1>6, PutLast
<1>8. Front(rs.pipeline, new)
  BY <1>3, <1>6, FrontPut DEF Ledger
<1> HIDE DEF new
<1>9. table'[user] = new /\ \A u \in User \ {user} : table'[u] = table[u]
  BY <1>2, <1>3
<1>10. ~ \E h \in handlers[user] : h.id = nextId
  <2>1. ASSUME NEW h \in handlers[user], h.id = nextId
        PROVE  FALSE
    <3>1. PICK k \in DOMAIN rows : rows[k] = h
      BY <1>3 DEF Ledger, CallersToldTrue
    <3>2. rows[k].id < nextId
      BY <1>3 DEF Below
    <3> QED
      BY <1>3, <2>1, <3>1, <3>2
  <2> QED
    BY <2>1
<1>11. handlers' = [handlers EXCEPT ![user] = @ \cup {b}]
  BY <1>2, <1>10
<1>12. ASSUME NEW k \in 1..Len(rows)
       PROVE  rows[k].write < w
  <2>1. rows[k].write \in Pending(user) /\ rows[k].write \in Write
    BY <1>3, RowsPending
  <2>2. rows[k].write \in Int
    BY <2>1, WritePipelineAssumption DEF Write
  <2> QED
    BY <1>3, <1>4, <1>5, <2>1, <2>2 DEF Fresh
<1>13. \A n \in Nat : Coming(n)' => Coming(n) /\ w < n
  BY <1>1, ComingTaken DEF Ledger
<1> QED
  BY <1>4, <1>5, <1>7, <1>8, <1>9, <1>11, <1>12, <1>13 DEF b

LEMMA LedgerFile ==
    ASSUME IInv, IInv', Ledger, Next, FileWrite
    PROVE  Ledger'
<1>1. /\ user \in User /\ table \in [User -> Seq(Batch)] /\ table' \in [User -> Seq(Batch)]
      /\ handlers \in [User -> SUBSET Batch] /\ rs \in Store /\ Wires(rs')
      /\ Fit(author, rs, user) /\ Sound(rs) /\ Len(rs.pipeline) <= kMaxPendingWrites
      /\ Filed(author, table', nextId')
      /\ UNCHANGED <<user, applied, outcome, told, author>>
      /\ rs' = FillWritePipeline(rs, table'[user])
  <2>1. Filed(author', table', nextId') /\ author' = author
    BY DEF IInv, FileWrite, history
  <2> QED
    BY <2>1 DEF IInv, TypeOK, Good, Fit, FileWrite, service, history
<1>2. PICK w \in Write : w = tasks[1].number
  BY FiledIs
<1> DEFINE b == [id |-> nextId, write |-> w]
           new == table'[user]
           rows == table[user]
<1>3. /\ Fresh(w) /\ \A k \in 1..Len(rows) : rows[k].write < w
      /\ \A n \in Nat : Coming(n)' => Coming(n) /\ w < n
      /\ Len(new) = Len(rows) + 1 /\ new[Len(rows) + 1] = b
      /\ \A k \in 1..Len(rows) : new[k] = rows[k]
      /\ \A u \in User \ {user} : table'[u] = table[u]
      /\ Front(rs.pipeline, new)
      /\ handlers' = [handlers EXCEPT ![user] = @ \cup {b}]
  BY <1>2, FiledIs
<1>4. b.write = w /\ w \in Nat
  BY WritePipelineAssumption DEF Write
<1> HIDE DEF b
<1>5. new \in Seq(Batch) /\ Ordered(new) /\ OwnRows(author, new, user)
      /\ Len(rows) \in Nat
  BY <1>1 DEF Filed
<1>6. Front(rs'.pipeline, new)
  BY <1>1, <1>3, <1>5, FillFront
<1>7. Done(rs', applied')
  <2>1. rs.state # "Open" => FillWritePipeline(rs, new).state # "Open"
    BY <1>1, <1>5, FillFits
  <2> QED
    BY <1>1, <2>1, FillDone DEF Ledger
<1>8. InTurn(new, outcome)
  <2>1. \A k \in 1..Len(new) : k \in 1..Len(rows) \/ k = Len(rows) + 1
    BY <1>3, <1>5
  <2>2. InTurn(rows, outcome)
    BY <1>1 DEF Ledger
  <2>3. ASSUME NEW j \in 1..Len(new), NEW k \in 1..Len(new), j < k
        PROVE  new[j].write < new[k].write
    <3>1. j \in 1..Len(rows)
      BY <1>3, <1>5, <2>3
    <3> QED
      BY <1>3, <1>4, <2>1, <2>2, <2>3, <3>1 DEF InTurn
  <2>4. outcome[w] = "none"
    BY <1>3, <1>4 DEF Fresh
  <2>5. ASSUME NEW k \in 1..Len(new)
        PROVE  outcome[new[k].write] = "none"
    BY <1>3, <1>4, <2>1, <2>2, <2>4 DEF InTurn
  <2> HIDE DEF new
  <2> QED
    BY <2>3, <2>5 DEF InTurn
<1>9. \A u \in User : InTurn(table'[u], outcome')
  <2>1. \A u \in User \ {user} : InTurn(table'[u], outcome')
    BY <1>1, <1>3 DEF Ledger
  <2> QED
    BY <1>1, <1>8, <2>1
<1>10. Ascending(tasks')
  BY ComingStep DEF Ledger
<1>11. \A u \in User : \A v \in Pending(u)' : v = w \/ v \in Pending(u)
  <2>1. \A u \in User : DOMAIN table[u] = 1..Len(table[u])
                        /\ DOMAIN table'[u] = 1..Len(table'[u])
    BY <1>1
  <2>2. ASSUME NEW u \in User, NEW v \in Pending(u)'
        PROVE  v = w \/ v \in Pending(u)
    <3>1. PICK k \in 1..Len(table'[u]) : v = table'[u][k].write
      BY <2>1, <2>2 DEF Pending
    <3>2. CASE u = user
      <4>1. k \in 1..Len(rows) \/ k = Len(rows) + 1
        BY <1>3, <1>5, <3>2
      <4> QED
        BY <1>3, <1>4, <2>1, <3>1, <3>2, <4>1 DEF Pending
    <3>3. CASE u # user
      BY <1>3, <2>1, <3>1, <3>3 DEF Pending
    <3> QED
      BY <3>2, <3>3
  <2> QED
    BY <2>2
<1>12. (\A n \in Nat : Coming(n) => Fresh(n))'
  <2>1. ASSUME NEW n \in Nat, Coming(n)'
        PROVE  \E m \in Nat : Coming(m) /\ m <= n /\ ~(w \in Write /\ w >= n)
    <3>1. Coming(n) /\ n <= n /\ ~(w >= n)
      BY <1>3, <1>4, <2>1
    <3> QED
      BY <3>1
  <2>2. \A n \in Nat : Coming(n) => Fresh(n)
    BY DEF Ledger
  <2>3. \A v \in Write \ {w} :
            /\ v \in applied' => v \in applied
            /\ outcome'[v] = outcome[v] /\ told'[v] = told[v]
            /\ \A u \in User : v \in Pending(u)' => v \in Pending(u)
    BY <1>1, <1>11
  <2> QED
    BY <2>1, <2>2, <2>3, FreshStep
<1>13. CallersToldTrue'
  <2>1. /\ handlers'[user] = handlers[user] \cup {b}
        /\ \A u \in User \ {user} : handlers'[u] = handlers[u]
    BY <1>1, <1>3
  <2>2. told[w] = "none"
    BY <1>3, <1>4 DEF Fresh
  <2>3. \A u \in User : DOMAIN table[u] = 1..Len(table[u])
                        /\ DOMAIN table'[u] = 1..Len(table'[u])
    BY <1>1
  <2>4. ASSUME NEW u \in User, NEW h \in handlers'[u]
        PROVE  /\ \E k \in DOMAIN table'[u] : table'[u][k] = h
               /\ told'[h.write] = "none"
    <3>1. CASE u = user /\ h = b
      <4>1. Len(rows) + 1 \in DOMAIN new
        BY <1>1, <1>3, <1>5, <2>3
      <4> QED
        BY <1>1, <1>3, <1>4, <2>2, <3>1, <4>1
    <3>2. CASE h \in handlers[u]
      <4>1. PICK k \in DOMAIN table[u] : table[u][k] = h
        BY <3>2 DEF Ledger, CallersToldTrue
      <4>2. told[h.write] = "none"
        BY <3>2 DEF Ledger, CallersToldTrue
      <4>3. CASE u = user
        <5>1. k \in 1..Len(rows)
          BY <2>3, <4>1, <4>3
        <5>2. k \in 1..Len(new)
          BY <1>3, <1>5, <5>1
        <5>3. k \in DOMAIN table'[u] /\ table'[u][k] = h
          BY <1>3, <2>3, <4>1, <4>3, <5>1, <5>2
        <5> QED
          BY <1>1, <4>2, <5>3
      <4>4. CASE u # user
        BY <1>1, <1>3, <4>1, <4>2, <4>4
      <4> QED
        BY <4>3, <4>4
    <3> QED
      BY <2>1, <2>4, <3>1, <3>2
  <2>5. \A v \in Write : /\ told'[v] = "ok" => v \in applied'
                         /\ told'[v] = "refused" => outcome'[v] = "refused"
    BY <1>1 DEF Ledger, CallersToldTrue
  <2> QED
    BY <2>4, <2>5 DEF CallersToldTrue
<1> QED
  BY <1>1, <1>6, <1>7, <1>9, <1>10, <1>12, <1>13 DEF Ledger

(* The second invariant is inductive, given the first.                     *)
THEOREM NextLedger == IInv /\ Ledger /\ [Next]_vars => Ledger'
<1> SUFFICES ASSUME IInv, Ledger, [Next]_vars PROVE Ledger'
  OBVIOUS
<1>1. IInv' /\ Wires(rs') /\ user' \in User
  <2>1. IInv'
    BY NextInv
  <2> QED
    BY <2>1 DEF IInv, TypeOK, Good, Fit
<1>2. CASE UNCHANGED vars
  <2>1. /\ UNCHANGED <<user, table, handlers, rs, applied, outcome, told>>
    BY <1>2 DEF vars
  <2>2. 0 \notin Write
    BY DEF Write
  <2>3. Front(rs'.pipeline, table[user']) /\ Done(rs', applied')
    BY <2>1 DEF Ledger
  <2> QED
    BY <2>1, <2>2, <2>3, LedgerStays
<1>3. CASE Next
  <2>1. CASE \/ AskWrite \/ (\E u \in User : SignIn(u)) \/ (\E n \in rs.asks : GiveToken(n))
             \/ UseToken \/ ServeHandshake \/ RefuseWrite
             \/ ReceiveHandshake \/ BackoffElapses \/ IdleElapses \/ LoseStream \/ EndStream
    BY <1>1, <1>3, <2>1, LedgerCalm
  <2>2. CASE ServeWrite
    BY <1>3, <2>2, LedgerServe
  <2>3. CASE ChangeNetwork \/ ChangeUser
    BY <1>1, <1>3, <2>3, LedgerRestart
  <2>4. CASE Kill
    BY <1>1, <1>3, <2>4, LedgerKill
  <2>5. CASE ReceiveResult \/ ReceiveRefusal
    BY <1>1, <1>3, <2>5, LedgerSettle
  <2>6. CASE FileWrite
    BY <1>1, <1>3, <2>6, LedgerFile
  <2> QED
    BY <1>3, <2>1, <2>2, <2>3, <2>4, <2>5, <2>6 DEF Next
<1> QED
  BY <1>2, <1>3

LEMMA Accounts == Spec => [](IInv /\ Ledger)
<1>1. Init => IInv /\ Ledger
  BY InitInv, LedgerInit
<1>2. (IInv /\ Ledger) /\ [Next]_vars => (IInv /\ Ledger)'
  BY NextInv, NextLedger
<1> QED
  BY <1>1, <1>2, PTL DEF Spec

(* A caller is told the truth and once, although batch numbers are used    *)
(* again after a restart: SyncEngine::NotifyUser finds the handler of the  *)
(* very batch that was settled, "done" is said of an applied write only,   *)
(* and "refused" of one that was given up.                                 *)
THEOREM CallersTrue == Spec => []CallersToldTrue
<1>1. IInv /\ Ledger => CallersToldTrue
  BY DEF Ledger
<1> QED
  BY <1>1, Accounts, PTL
-----------------------------------------------------------------------------
(***************************************************************************)
(* The write path implements the abstract queue of writes.                 *)
(***************************************************************************)
Filings == [u \in User |-> Pending(u)]

LEMMA FileImplements ==
    ASSUME IInv, IInv', Ledger, FileWrite
    PROVE  \E u \in User, w \in Write : Promise!File(u, w)
<1>1. user \in User /\ table \in [User -> Seq(Batch)] /\ table' \in [User -> Seq(Batch)]
  BY DEF IInv, TypeOK
<1>2. PICK w \in Write : w = tasks[1].number
  BY FiledIs
<1> DEFINE b == [id |-> nextId, write |-> w]
           n == Len(table[user])
<1>3. /\ Fresh(w) /\ \A k \in 1..n : table[user][k].write < w
      /\ Len(table'[user]) = n + 1 /\ table'[user][n + 1] = b
      /\ \A k \in 1..n : table'[user][k] = table[user][k]
      /\ \A u \in User \ {user} : table'[u] = table[u]
  BY <1>2, FiledIs
<1>4. b.write = w /\ w \in Nat
  BY WritePipelineAssumption DEF Write
<1> HIDE DEF b
<1>5. /\ DOMAIN table[user] = 1..n /\ DOMAIN table'[user] = 1..(n + 1) /\ n \in Nat
  BY <1>1, <1>3
<1> HIDE DEF n
<1>6. 1..(n + 1) = 1..n \cup {n + 1}
  BY <1>5
<1>7. {table'[user][k].write : k \in DOMAIN table'[user]} = Pending(user) \cup {w}
  BY <1>3, <1>4, <1>5, <1>6 DEF Pending
<1>8. \A u \in User \ {user} :
          {table'[u][k].write : k \in DOMAIN table'[u]} = Pending(u)
  BY <1>3 DEF Pending
<1>9. Filings' = [Filings EXCEPT ![user] = @ \cup {w}]
  <2>1. Filings' = [u \in User |-> {table'[u][k].write : k \in DOMAIN table'[u]}]
    BY DEF Filings, Pending
  <2>2. Filings = [u \in User |-> Pending(u)]
    BY DEF Filings
  <2> QED
    BY <1>1, <1>7, <1>8, <2>1, <2>2
<1>10. \A v \in Filings[user] : v < w
  BY <1>1, <1>3, <1>5 DEF Filings, Pending
<1>11. outcome[w] = "none" /\ w \notin applied
  BY <1>3, <1>4 DEF Fresh
<1>12. UNCHANGED <<applied, latest, outcome>>
  BY DEF FileWrite, service, history
<1>13. Promise!File(user, w)
  BY <1>9, <1>10, <1>11, <1>12 DEF Promise!File, Filings
<1> QED
  BY <1>1, <1>13

LEMMA ServeImplements ==
    ASSUME IInv, Ledger, ServeWrite
    PROVE  \E u \in User, w \in Write : Promise!Apply(u, w)
<1>1. /\ user \in User /\ table \in [User -> Seq(Batch)]
      /\ Front(rs.pipeline, table[user]) /\ InTurn(table[user], outcome)
      /\ Done(rs, applied)
  BY DEF IInv, TypeOK, Ledger
<1>2. PICK k \in 1..Len(table[user]) :
          /\ rs.session = user /\ rs.up[1].write = table[user][k].write
          /\ \A i \in 1..Len(table[user]) : i < k =>
                 /\ i \in 1..Len(rs.down) /\ rs.down[i].kind = "ok"
                 /\ rs.down[i].write = table[user][i].write
  BY <1>1, ServedIs
<1>3. PICK w \in Write : w = table[user][k].write /\ w \in Pending(user)
  BY <1>1, RowsPending
<1>4. ASSUME NEW v \in Pending(user), v < w
      PROVE  v \in applied
  <2>1. PICK i \in 1..Len(table[user]) : v = table[user][i].write /\ v \in Write
    BY <1>1, RowsPending
  <2>2. i < k
    <3>1. v \in Int /\ w \in Int /\ i \in Int /\ k \in Int
      BY <2>1, WritePipelineAssumption DEF Write
    <3>2. k < i => w < v
      BY <1>1, <1>3, <2>1 DEF InTurn
    <3>3. k = i => v = w
      BY <1>3, <2>1
    <3> QED
      BY <1>4, <3>1, <3>2, <3>3
  <2> QED
    BY <1>1, <1>2, <2>1, <2>2 DEF Done
<1>5. /\ applied' = applied \cup {w} /\ latest' = [latest EXCEPT ![user] = w]
      /\ UNCHANGED <<table, outcome>>
  BY <1>2, <1>3 DEF ServeWrite, local, history
<1>6. Filings' = Filings
  BY <1>5 DEF Filings, Pending
<1>7. Filings[user] = Pending(user)
  BY <1>1 DEF Filings
<1>8. Promise!Apply(user, w)
  BY <1>3, <1>4, <1>5, <1>6, <1>7 DEF Promise!Apply, Filings
<1> QED
  BY <1>1, <1>8

LEMMA SettleImplements ==
    ASSUME IInv, IInv', Ledger, ReceiveResult \/ ReceiveRefusal
    PROVE  \E u \in User, w \in Write :
               \E how \in {"ok", "refused"} : Promise!Settle(u, w, how)
<1>1. /\ user \in User /\ table \in [User -> Seq(Batch)] /\ table' \in [User -> Seq(Batch)]
      /\ Front(rs.pipeline, table[user]) /\ \A u \in User : InTurn(table[u], outcome)
      /\ CallersToldTrue /\ Done(rs, applied)
      /\ outcome \in [Write -> {"none", "ok", "refused"}]
  BY DEF IInv, TypeOK, Ledger
<1>2. rs.pipeline # <<>> /\ user' = user /\ UNCHANGED <<applied, latest>>
  BY <1>1, SettledIs
<1>3. PICK how \in {"ok", "refused"} :
          /\ Settles(rs.pipeline[1], how)
          /\ how = "ok" => rs.pipeline[1].write \in applied
  BY <1>1, SettledIs
<1>4. PICK w \in Write :
          /\ w = rs.pipeline[1].write /\ w \in Pending(user)
          /\ \A k \in 1..Len(table[user]) : w <= table[user][k].write
          /\ \A u \in User \ {user} : table'[u] = table[u]
  BY <1>1, <1>2, <1>3, SettledRows
<1>5. /\ \A u \in User : \A v \in Pending(u)' : v # w /\ v \in Pending(u)
      /\ \A u \in User : \A v \in Pending(u) \ {w} : v \in Pending(u)'
  BY <1>1, <1>2, <1>3, <1>4, SettledTurn
<1>6. outcome' = [outcome EXCEPT ![w] = how]
  BY <1>3, <1>4 DEF Settles
<1>7. \A u \in User : Pending(u)' = Pending(u) \ {w}
  BY <1>5
<1>8. \A u \in User \ {user} : Pending(u)' = Pending(u)
  BY <1>4 DEF Pending
<1>9. Filings' = [Filings EXCEPT ![user] = @ \ {w}]
  <2>1. Filings' = [u \in User |-> Pending(u)'] /\ Filings = [u \in User |-> Pending(u)]
    BY DEF Filings
  <2>2. [u \in User |-> Pending(u)'] =
            [u \in User |-> IF u = user THEN Pending(u) \ {w} ELSE Pending(u)]
    BY <1>7, <1>8
  <2> QED
    BY <1>1, <2>1, <2>2
<1>10. \A v \in Pending(user) : w <= v
  BY <1>1, <1>4, RowsPending
<1>11. Filings[user] = Pending(user)
  BY <1>1 DEF Filings
<1>12. Promise!Settle(user, w, how)
  BY <1>2, <1>3, <1>4, <1>6, <1>9, <1>10, <1>11 DEF Promise!Settle, Filings
<1> QED
  BY <1>1, <1>12

LEMMA NextImplements ==
    ASSUME IInv, Ledger, [Next]_vars
    PROVE  [Promise!Next]_(Promise!vars)
<1>1. IInv'
  BY NextInv
<1>2. CASE FileWrite
  BY <1>1, <1>2, FileImplements DEF Promise!Next, Promise!Write, Write
<1>3. CASE ServeWrite
  BY <1>3, ServeImplements DEF Promise!Next, Promise!Write, Write
<1>4. CASE ReceiveResult \/ ReceiveRefusal
  BY <1>1, <1>4, SettleImplements DEF Promise!Next, Promise!Write, Write
<1>5. CASE UNCHANGED <<table, applied, latest, outcome>>
  <2>1. Filings' = Filings
    BY <1>5 DEF Filings, Pending
  <2> QED
    BY <1>5, <2>1 DEF Promise!vars, Filings
<1>6. CASE \/ AskWrite \/ (\E u \in User : SignIn(u)) \/ (\E n \in rs.asks : GiveToken(n))
           \/ ChangeUser \/ UseToken \/ ServeHandshake \/ RefuseWrite
           \/ ReceiveHandshake \/ BackoffElapses \/ IdleElapses
           \/ LoseStream \/ EndStream \/ ChangeNetwork \/ Kill
  BY <1>5, <1>6 DEF AskWrite, SignIn, GiveToken, ChangeUser, UseToken, ServeHandshake,
     RefuseWrite, ReceiveHandshake, BackoffElapses, IdleElapses, LoseStream, EndStream,
     ChangeNetwork, Kill, local, service, history
<1>7. CASE UNCHANGED vars
  BY <1>5, <1>7 DEF vars
<1> QED
  BY <1>2, <1>3, <1>4, <1>6, <1>7 DEF Next

(* Streams, pipelines, batch numbers, restarts and changes of the account  *)
(* are invisible in the end: the writes of a student reach the service in  *)
(* the order of the calls, none skipped and none after it was settled, and *)
(* a write is settled as done only after it has been applied.              *)
THEOREM WriteQueueImplemented == Spec => ImplementsWriteQueue
<1>1. Init => Promise!Init
  <2>1. Init => Filings = [u \in User |-> {}]
    BY DEF Init, Filings, Pending
  <2> QED
    BY <2>1 DEF Init, Promise!Init, Promise!Write, Write, Filings
<1>2. (IInv /\ Ledger) /\ [Next]_vars => [Promise!Next]_(Promise!vars)
  BY NextImplements
<1> QED
  BY <1>1, <1>2, Accounts, PTL DEF Spec, ImplementsWriteQueue, Promise!Spec
=============================================================================
