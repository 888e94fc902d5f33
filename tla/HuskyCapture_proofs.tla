-------------------------- MODULE HuskyCapture_proofs --------------------------
(***************************************************************************)
(* What holds of a streamed capture for every length, segment size and     *)
(* capacity, any number of captures, failing transfers and interrupts.     *)
(***************************************************************************)
EXTENDS HuskyCapture, TLAPS, FiniteSetTheorems

Bytes == (0 .. Streams) \X (0 .. Dlen)

Types ==
    /\ TypeOK
    /\ mpc \in {"idle", "arm", "fast", "start", "armed", "poll", "slept", "trigger",
                "stop", "slow", "join", "read"}
    /\ wpc \in {"submit", "poll", "stop", "resubmit", "ended"}
    /\ index \in Nat /\ arms \in 0 .. Streams /\ interrupts \in Nat
    /\ result \in [returned : BOOLEAN, timeout : BOOLEAN, data : Seq(Bytes)]

(* Where the user's thread is, and what that says of the calls so far. *)
Calls ==
    /\ gen <= arms
    /\ mpc \in {"arm", "fast", "start"} => gen < arms
    /\ mpc \notin {"idle", "arm", "fast", "start"} => gen >= 1
    /\ (fast /\ mpc # "start") \/ wpc # "ended" => gen >= 1
    /\ mpc = "start" => fast
    /\ mpc \in {"trigger", "stop"} => timeout
    /\ mpc \in {"slow", "join", "read"} /\ ~timeout => drx[gen] >= Dlen
    /\ mpc \in {"idle", "fast", "join", "read"} => ~fast
    /\ mpc = "read" => wpc = "ended" /\ done = <<>>
    /\ result.returned =>
         /\ mpc = "idle" /\ wpc = "ended" /\ done = <<>>
         /\ ~result.timeout => result.data = Stream(gen)

(* Only the thread of stream gen has transfers anywhere, and a thread that *)
(* has ended at most cancelled ones whose callback is still to come.       *)
Pending == {k \in DOMAIN done : done[k].status # "cancelled"}
Owners ==
    /\ \A k \in DOMAIN queue : queue[k] = gen
    /\ \A k \in DOMAIN done : done[k].own = gen
    /\ wpc = "ended" => queue = <<>> /\ Pending = {}
    /\ wpc = "submit" => index < NumTransfers /\ unsub <= index
    /\ wpc = "resubmit" => index >= 1
    /\ \A g \in 1 .. Streams : g > gen => drx[g] = 0

(* The finished transfers are in the order of the stream.                  *)
Sorted ==
    /\ drx[gen] <= pos
    /\ \A k \in Pending : drx[gen] <= done[k].from /\ done[k].from + done[k].n <= pos
    /\ \A j, k \in Pending : j < k => done[j].from + done[j].n <= done[k].from
    /\ \A j \in Pending : \A k \in DOMAIN done : j < k => k \in Pending

(* Nothing is missing between what is in the buffer, the finished          *)
(* transfers and the device ...                                            *)
EndOf(k) == IF k \in Pending THEN done[k].from + done[k].n ELSE drx[gen]
Exact ==
    /\ \A k \in Pending : done[k].from = EndOf(k - 1)
    /\ pos = EndOf(Len(done))

(* ... or something was cancelled, and drx lags behind for good.           *)
Lost == drx[gen] < pos /\ \A k \in Pending : drx[gen] < done[k].from

InPlace == \A k \in 1 .. drx[gen] : dbuf[k] = <<gen, k>>

Data ==
    gen >= 1 =>
        /\ Sorted
        /\ wpc # "ended" => (InPlace /\ Exact) \/ Lost
        /\ InPlace \/ drx[gen] < Dlen

(* Without interrupts nobody tells a thread to stop before its own         *)
(* capture() has timed out.                                                *)
Untold ==
    interrupts = 0 =>
        /\ ~fast /\ mpc # "join" => wpc = "ended"
        /\ mpc = "start" => wpc = "ended"
        /\ wpc # "ended" /\ (~timeout \/ mpc \in {"arm", "armed"})
             => ~stop /\ InPlace /\ Exact

IInv == Types /\ Calls /\ Owners /\ Data /\ Untold

-----------------------------------------------------------------------------
(* A capture takes at least one transfer. *)
LEMMA SomeTransfers == NumTransfers \in Nat \ {0}
<1> DEFINE a == Dlen + Segment - 1
           q == a \div Segment
<1>1. a \in Nat /\ Segment \in Nat \ {0} /\ a >= Segment
  BY DlenAssumption, SegmentAssumption
<1> HIDE DEF a
<1>2. q \in Int /\ a < Segment * (q + 1)
  BY <1>1
<1> HIDE DEF q
<1>3. q + 1 > 1
  <2>1. q + 1 \in Int /\ Segment < Segment * (q + 1)
    BY <1>1, <1>2
  <2>2. q + 1 <= 1 => Segment * (q + 1) <= Segment
    BY <1>1, <2>1
  <2> QED BY <1>1, <2>1, <2>2
<1> QED BY <1>2, <1>3 DEF NumTransfers, a, q

(* Cancelling leaves nothing but cancelled transfers, as many as there were. *)
LEMMA Cancelling ==
    ASSUME Types, Owners, gen >= 1, CancelAll
    PROVE  /\ queue' = <<>>
           /\ done' \in Seq(Events)
           /\ Len(done') = Len(queue) + Len(done)
           /\ \A k \in DOMAIN done' : done'[k] = Cancelled(gen)
<1>1. queue \in Seq(1 .. Streams) /\ done \in Seq(Events) /\ gen \in 1 .. Streams
  BY StreamsAssumption DEF Types, TypeOK
<1>2. DOMAIN queue = 1 .. Len(queue) /\ Len(queue) \in Nat
  BY <1>1
<1>3. Own = 1 .. Len(queue)
  BY <1>2 DEF Owners, Own
<1>4. Cardinality(Own) = Len(queue)
  <2>1. Cardinality(1 .. Len(queue)) = IF 1 > Len(queue) THEN 0 ELSE Len(queue) - 1 + 1
    BY <1>2, FS_Interval
  <2> QED BY <1>2, <1>3, <2>1
<1>5. queue' = <<>>
  <2> DEFINE kept == DOMAIN queue \ Own
             pick(k) == queue[CHOOSE j \in kept : Cardinality({i \in kept : i <= j}) = k]
  <2>1. Cardinality(kept) = 0
    BY <1>2, <1>3, FS_EmptySet
  <2>2. queue' = [k \in 1 .. Cardinality(kept) |-> pick(k)]
    BY DEF CancelAll, Others
  <2> HIDE DEF kept, pick
  <2>3. queue' = [k \in 1 .. 0 |-> pick(k)]
    BY <2>1, <2>2
  <2>4. queue' \in Seq({}) /\ Len(queue') = 0
    BY <2>3
  <2> QED BY <2>4
<1>6. Cancelled(gen) \in Events
  BY <1>1, DlenAssumption DEF Cancelled, Events
<1> DEFINE before == [k \in DOMAIN done |->
                        IF done[k].own = gen THEN Cancelled(gen) ELSE done[k]]
           after == [k \in 1 .. Len(queue) |-> Cancelled(gen)]
<1>7. before \in Seq(Events) /\ Len(before) = Len(done)
      /\ \A k \in 1 .. Len(done) : before[k] = Cancelled(gen)
  <2> HIDE DEF Events
  <2>1. DOMAIN done = 1 .. Len(done) /\ Len(done) \in Nat
    BY <1>1
  <2>2. before = [k \in 1 .. Len(done) |-> Cancelled(gen)]
    BY <2>1 DEF Owners
  <2> QED BY <1>6, <2>1, <2>2
<1>8. after \in Seq(Events) /\ Len(after) = Len(queue)
      /\ \A k \in 1 .. Len(queue) : after[k] = Cancelled(gen)
  BY <1>2, <1>6
<1>9. done' = before \o after
  BY <1>4 DEF CancelAll
<1> HIDE DEF before, after
<1>10. /\ done' \in Seq(Events)
       /\ Len(done') = Len(queue) + Len(done)
       /\ DOMAIN done' = 1 .. Len(queue) + Len(done)
  <2>1. Len(done) \in Nat BY <1>1
  <2> QED BY <1>2, <1>7, <1>8, <1>9, <2>1
<1>11. \A k \in DOMAIN done' : done'[k] = Cancelled(gen)
  <2>1. Len(done) \in Nat BY <1>1
  <2> QED BY <1>2, <1>7, <1>8, <1>9, <1>10, <2>1
<1> QED BY <1>5, <1>10, <1>11

-----------------------------------------------------------------------------
(* What the finished transfers are when there is one. *)
LEMMA DoneTypes ==
    ASSUME Types
    PROVE  /\ done \in Seq(Events) /\ Len(done) \in Nat /\ DOMAIN done = 1 .. Len(done)
           /\ \A k \in DOMAIN done :
                 /\ done[k].own \in 1 .. Streams
                 /\ done[k].from \in 0 .. Dlen /\ done[k].n \in 0 .. Dlen
           /\ pos \in 0 .. Dlen /\ Dlen \in Nat \ {0} /\ Streams \in Nat
           /\ drx \in [1 .. Streams -> 0 .. Dlen] /\ gen \in 0 .. Streams
<1>1. done \in Seq(Events) /\ drx \in [1 .. Streams -> 0 .. Dlen] /\ gen \in 0 .. Streams
      /\ pos \in 0 .. Dlen
  BY DEF Types, TypeOK
<1>2. Len(done) \in Nat /\ DOMAIN done = 1 .. Len(done) /\ \A k \in DOMAIN done : done[k] \in Events
  BY <1>1
<1> QED BY <1>1, <1>2, DlenAssumption, StreamsAssumption DEF Events

(* The callback of a transfer that was not cancelled stores its bytes, if  *)
(* it has any, behind those that are there.                                *)
LEMMA CallbackStores ==
    ASSUME Types, Owners, gen >= 1, Data, 1 \in Pending, Callback(done[1])
    PROVE  /\ drx' = [drx EXCEPT ![gen] = @ + done[1].n]
           /\ drx[gen] + done[1].n <= Dlen
           /\ dbuf' \in Seq(Bytes) /\ Len(dbuf') = Dlen
           /\ \A k \in 1 .. Dlen :
                 dbuf'[k] = IF k \in drx[gen] + 1 .. drx[gen] + done[1].n
                              THEN <<gen, done[1].from + k - drx[gen]>> ELSE dbuf[k]
           /\ queue' \in {queue, Append(queue, gen)}
<1> DEFINE e == done[1]
           at == drx[gen]
<1>1. 1 \in DOMAIN done /\ e.own = gen /\ e.status # "cancelled"
      /\ e.from \in 0 .. Dlen /\ e.n \in 0 .. Dlen /\ Dlen \in Nat \ {0}
      /\ gen \in 1 .. Streams /\ drx \in [1 .. Streams -> 0 .. Dlen] /\ at \in 0 .. Dlen
  BY DoneTypes DEF Pending, Owners
<1>2. at <= e.from /\ e.from + e.n <= Dlen
  BY <1>1, DoneTypes DEF Data, Sorted
<1>3. dbuf \in Seq(Bytes) /\ Len(dbuf) = Dlen
  BY DEF Types, TypeOK, Bytes
<1>4. \A k \in 1 .. Dlen : dbuf[k] \in Bytes
  BY <1>3
<1> HIDE DEF e, at
<1>5. CASE at >= Dlen
  <2>1. e.n = 0
    BY <1>1, <1>2, <1>5
  <2>2. drx' = [drx EXCEPT ![gen] = @ + e.n] /\ dbuf' = dbuf /\ queue' = queue
    BY <1>1, <1>5 DEF Callback, e, at
  <2> QED BY <1>1, <1>2, <1>3, <1>4, <2>1, <2>2 DEF e, at
<1>6. CASE at < Dlen /\ e.n = 0
  <2>1. drx' = drx /\ dbuf' = dbuf /\ queue' = Append(queue, gen)
    BY <1>1, <1>6 DEF Callback, e, at
  <2>2. drx' = [drx EXCEPT ![gen] = @ + e.n]
    BY <1>1, <1>6, <2>1
  <2>3. \A k \in 1 .. Dlen : k \notin at + 1 .. at + e.n
    BY <1>1, <1>6
  <2>4. at + e.n <= Dlen
    BY <1>1, <1>2
  <2> QED BY <1>3, <2>1, <2>2, <2>3, <2>4 DEF e, at
<1>7. CASE at < Dlen /\ e.n # 0
  <2>1. /\ drx' = [drx EXCEPT ![gen] = @ + e.n] /\ dbuf' = Store(e)
        /\ queue' \in {queue, Append(queue, gen)}
    BY <1>1, <1>7 DEF Callback, e, at
  <2>2. at + e.n \in Nat /\ at + e.n <= Dlen
    BY <1>1, <1>2
  <2>3. Max({Len(dbuf), at + e.n}) = Dlen
    BY <1>1, <1>3, <2>2 DEF Max
  <2>4. dbuf' = [k \in 1 .. Dlen |->
                   IF k \in at + 1 .. at + e.n THEN <<gen, e.from + k - at>> ELSE dbuf[k]]
    BY <1>1, <2>1, <2>3 DEF Store, at
  <2>5. \A k \in 1 .. Dlen : k \in at + 1 .. at + e.n => <<gen, e.from + k - at>> \in Bytes
    BY <1>1, <1>2 DEF Bytes
  <2>6. \A k \in 1 .. Dlen : dbuf'[k] \in Bytes
    BY <1>4, <2>4, <2>5
  <2>7. dbuf' \in Seq(Bytes) /\ Len(dbuf') = Dlen
    BY <1>1, <2>4, <2>6
  <2> QED BY <2>1, <2>2, <2>4, <2>7 DEF e, at
<1> QED BY <1>1, <1>5, <1>6, <1>7

(* The rest of the finished transfers, after the callback of the first.    *)
LEMMA TailDone ==
    ASSUME Types, done # <<>>, done' = Tail(done)
    PROVE  /\ 1 \in DOMAIN done
           /\ done' \in Seq(Events) /\ Len(done') = Len(done) - 1
           /\ DOMAIN done' = 1 .. Len(done) - 1
           /\ \A k \in DOMAIN done' : k + 1 \in DOMAIN done /\ done'[k] = done[k + 1]
           /\ \A k \in DOMAIN done' : k \in Pending' <=> k + 1 \in Pending
           /\ Pending' \subseteq DOMAIN done'
<1>1. done \in Seq(Events) /\ Len(done) \in Nat /\ DOMAIN done = 1 .. Len(done)
  BY DoneTypes
<1>2. /\ done' \in Seq(Events) /\ Len(done') = Len(done) - 1
      /\ DOMAIN done' = 1 .. Len(done) - 1
      /\ \A k \in DOMAIN done' : k + 1 \in DOMAIN done /\ done'[k] = done[k + 1]
  BY <1>1
<1>3. 1 \in DOMAIN done
  BY <1>1
<1> QED BY <1>2, <1>3 DEF Pending

(* A callback keeps what Data says, whether the transfer was cancelled ... *)
LEMMA CancelledCallbackData ==
    ASSUME Types, Owners, gen >= 1, Data, done # <<>>, done' = Tail(done), 1 \notin Pending,
           UNCHANGED <<gen, pos, drx, dbuf>>
    PROVE  Sorted' /\ (Exact => Exact') /\ (Lost => Lost') /\ (InPlace <=> InPlace')
<1>1. /\ done \in Seq(Events) /\ Len(done) \in Nat /\ DOMAIN done = 1 .. Len(done)
      /\ drx[gen] \in 0 .. Dlen /\ pos \in 0 .. Dlen
  BY DoneTypes
<1>2. Sorted'
  BY <1>1, TailDone DEF Data, Sorted
<1>3. Lost => Lost'
  BY <1>1, TailDone DEF Lost
<1>4. InPlace <=> InPlace'
  BY DEF InPlace
<1>5. ASSUME Exact PROVE Exact'
  <2>1. \A k \in 0 .. Len(done) - 1 : EndOf(k)' = EndOf(k + 1)
    <3> TAKE k \in 0 .. Len(done) - 1
    <3>1. CASE k = 0
      BY <1>1, <3>1, TailDone DEF EndOf, Pending
    <3>2. CASE k # 0
      BY <1>1, <3>2, TailDone DEF EndOf
    <3> QED BY <3>1, <3>2
  <2>2. \A k \in Pending' : done'[k].from = EndOf(k - 1)'
    <3> TAKE k \in Pending'
    <3>1. k \in 1 .. Len(done) - 1 /\ k + 1 \in Pending /\ done'[k] = done[k + 1]
      BY TailDone
    <3>2. done[k + 1].from = EndOf(k + 1 - 1)
      BY <3>1, <1>5 DEF Exact
    <3>3. k - 1 \in 0 .. Len(done) - 1 /\ k + 1 - 1 = k - 1 + 1
      BY <1>1, <3>1
    <3> QED BY <2>1, <3>1, <3>2, <3>3
  <2>3. pos' = EndOf(Len(done))'
    <3>1. /\ Len(done) - 1 \in 0 .. Len(done) - 1 /\ Len(done) - 1 + 1 = Len(done)
          /\ Len(done') = Len(done) - 1
      BY <1>1, TailDone
    <3>2. \A m \in 0 .. Len(done) - 1 : m + 1 = Len(done) => EndOf(m)' = pos
      BY <2>1, <1>5 DEF Exact
    <3>3. \A m \in 0 .. Len(done) - 1 : m = Len(done') => EndOf(m)' = EndOf(Len(done))'
      BY DEF EndOf
    <3> QED BY <3>1, <3>2, <3>3
  <2> QED BY <2>2, <2>3 DEF Exact
<1> QED BY <1>2, <1>3, <1>4, <1>5

(* ... or not.                                                             *)
LEMMA StoringCallbackData ==
    ASSUME Types, Owners, gen >= 1, Data, done # <<>>, done' = Tail(done), 1 \in Pending,
           Callback(done[1]), UNCHANGED <<gen, pos>>
    PROVE  /\ Sorted' /\ (Exact => Exact') /\ (Lost => Lost')
           /\ (Exact /\ InPlace => InPlace')
<1> DEFINE e == done[1]
           at == drx[gen]
<1>1. /\ done \in Seq(Events) /\ Len(done) \in Nat /\ DOMAIN done = 1 .. Len(done)
      /\ gen \in 1 .. Streams /\ drx \in [1 .. Streams -> 0 .. Dlen]
      /\ at \in 0 .. Dlen /\ pos \in 0 .. Dlen /\ Dlen \in Nat
      /\ \A k \in DOMAIN done : done[k].from \in 0 .. Dlen /\ done[k].n \in 0 .. Dlen
  BY DoneTypes
<1>2. drx[gen]' = at + e.n
  BY <1>1, CallbackStores
<1>3. Sorted
  BY DEF Data
<1>4. e.from \in 0 .. Dlen /\ e.n \in 0 .. Dlen /\ 1 \in DOMAIN done
  BY <1>1, TailDone
<1>5. \A k \in Pending' : /\ k \in 1 .. Len(done) - 1 /\ k + 1 \in Pending
                         /\ k + 1 \in DOMAIN done /\ done'[k] = done[k + 1]
                         /\ e.from + e.n <= done[k + 1].from
  <2> TAKE k \in Pending'
  <2>1. /\ k \in 1 .. Len(done) - 1 /\ k + 1 \in Pending
        /\ k + 1 \in DOMAIN done /\ done'[k] = done[k + 1]
    BY TailDone
  <2>2. 1 < k + 1
    BY <1>1, <2>1
  <2> QED BY <1>3, <2>1, <2>2 DEF Sorted
<1>6. at <= e.from /\ e.from + e.n <= pos
  BY <1>3 DEF Sorted
<1>7. Sorted'
  <2>1. drx[gen]' <= pos'
    BY <1>1, <1>2, <1>4, <1>6
  <2>2. \A k \in Pending' : drx[gen]' <= done'[k].from /\ done'[k].from + done'[k].n <= pos'
    BY <1>1, <1>2, <1>3, <1>4, <1>5, <1>6 DEF Sorted
  <2>3. \A j, k \in Pending' : j < k => done'[j].from + done'[j].n <= done'[k].from
    <3> TAKE j, k \in Pending'
    <3> HAVE j < k
    <3>1. j + 1 < k + 1 /\ j + 1 \in Pending /\ k + 1 \in Pending
      BY <1>1, <1>5
    <3>2. done[j + 1].from + done[j + 1].n <= done[k + 1].from
      BY <1>3, <3>1 DEF Sorted
    <3> QED BY <1>5, <3>2
  <2>4. \A j \in Pending' : \A k \in DOMAIN done' : j < k => k \in Pending'
    BY <1>1, <1>3, <1>5, TailDone DEF Sorted
  <2> QED BY <2>1, <2>2, <2>3, <2>4 DEF Sorted
<1>8. ASSUME Lost PROVE Lost'
  <2>1. at < e.from
    BY <1>8 DEF Lost
  <2>2. drx[gen]' < pos'
    BY <1>1, <1>2, <1>4, <1>6, <2>1
  <2>3. \A k \in Pending' : drx[gen]' < done'[k].from
    BY <1>1, <1>2, <1>4, <1>5, <2>1
  <2> QED BY <2>2, <2>3 DEF Lost
<1>9. ASSUME Exact PROVE e.from = at /\ Exact'
  <2>1. e.from = at
    <3>1. 0 \notin Pending
      BY <1>1 DEF Pending
    <3>2. e.from = EndOf(1 - 1)
      BY <1>9 DEF Exact
    <3> QED BY <3>1, <3>2 DEF EndOf
  <2>2. \A k \in 0 .. Len(done) - 1 : EndOf(k)' = EndOf(k + 1)
    <3> TAKE k \in 0 .. Len(done) - 1
    <3>1. CASE k = 0
      <4>1. k \notin Pending'
        BY <1>1, <3>1, <1>5
      <4>2. EndOf(k)' = at + e.n
        BY <1>2, <4>1 DEF EndOf
      <4>3. EndOf(k + 1) = e.from + e.n
        BY <3>1 DEF EndOf
      <4> QED BY <2>1, <4>2, <4>3
    <3>2. CASE k # 0
      <4>1. k \in DOMAIN done' /\ k + 1 \in DOMAIN done /\ 1 < k + 1
        BY <1>1, <3>2, TailDone
      <4>2. k + 1 \in Pending /\ k \in Pending' /\ done'[k] = done[k + 1]
        BY <1>3, <4>1, TailDone DEF Sorted
      <4> QED BY <4>2 DEF EndOf
    <3> QED BY <3>1, <3>2
  <2>3. \A k \in Pending' : done'[k].from = EndOf(k - 1)'
    <3> TAKE k \in Pending'
    <3>1. k \in 1 .. Len(done) - 1 /\ k + 1 \in Pending /\ done'[k] = done[k + 1]
      BY <1>5
    <3>2. done[k + 1].from = EndOf(k + 1 - 1)
      BY <3>1, <1>9 DEF Exact
    <3>3. k - 1 \in 0 .. Len(done) - 1 /\ k + 1 - 1 = k - 1 + 1
      BY <1>1, <3>1
    <3> QED BY <2>2, <3>1, <3>2, <3>3
  <2>4. pos' = EndOf(Len(done))'
    <3>1. /\ Len(done) - 1 \in 0 .. Len(done) - 1 /\ Len(done) - 1 + 1 = Len(done)
          /\ Len(done') = Len(done) - 1
      BY <1>1, TailDone
    <3>2. \A m \in 0 .. Len(done) - 1 : m + 1 = Len(done) => EndOf(m)' = pos
      BY <2>2, <1>9 DEF Exact
    <3>3. \A m \in 0 .. Len(done) - 1 : m = Len(done') => EndOf(m)' = EndOf(Len(done))'
      BY DEF EndOf
    <3> QED BY <3>1, <3>2, <3>3
  <2> QED BY <2>1, <2>3, <2>4 DEF Exact
<1>10. ASSUME Exact, InPlace PROVE InPlace'
  <2>1. e.from = at
    BY <1>9, <1>10
  <2> SUFFICES ASSUME NEW k \in 1 .. at + e.n PROVE dbuf'[k] = <<gen, k>>
    BY <1>2 DEF InPlace
  <2>2. at + e.n <= Dlen /\ k \in 1 .. Dlen
    BY <1>1, <1>4, CallbackStores
  <2>3. dbuf'[k] = IF k \in at + 1 .. at + e.n THEN <<gen, e.from + k - at>> ELSE dbuf[k]
    BY <2>2, CallbackStores
  <2>4. CASE k \in at + 1 .. at + e.n
    <3>1. e.from + k - at = k
      BY <1>1, <2>1
    <3> QED BY <2>3, <2>4, <3>1
  <2>5. CASE k \in 1 .. at
    <3>1. dbuf[k] = <<gen, k>>
      BY <1>10, <2>5 DEF InPlace
    <3>2. k \notin at + 1 .. at + e.n
      BY <1>1, <2>5
    <3> QED BY <2>3, <3>1, <3>2
  <2> QED BY <1>1, <1>4, <2>4, <2>5
<1> QED BY <1>7, <1>8, <1>9, <1>10

(* All that a callback does, on whichever thread it is called. *)
LEMMA CallbackStep ==
    ASSUME Types, Owners, Data, done # <<>>, Callback(Head(done)), done' = Tail(done),
           UNCHANGED <<gen, pos>>
    PROVE  /\ gen >= 1
           /\ queue' \in Seq(1 .. Streams) /\ done' \in Seq(Events)
           /\ Len(queue') + Len(done') <= Len(queue) + Len(done)
           /\ \A k \in DOMAIN queue' : queue'[k] = gen
           /\ \A k \in DOMAIN done' : done'[k].own = gen
           /\ drx' \in [1 .. Streams -> 0 .. Dlen] /\ drx'[gen] >= drx[gen]
           /\ \A g \in 1 .. Streams : g > gen => drx'[g] = drx[g]
           /\ dbuf' \in Seq(Bytes) /\ Len(dbuf') = Dlen
           /\ Pending = {} => queue' = queue /\ Pending' = {}
           /\ Sorted' /\ (Exact /\ InPlace => Exact' /\ InPlace') /\ (Lost => Lost')
           /\ Pending = {} => (InPlace => InPlace') /\ drx' = drx
<1> DEFINE e == done[1]
<1>1. /\ done \in Seq(Events) /\ Len(done) \in Nat /\ DOMAIN done = 1 .. Len(done)
      /\ gen \in 0 .. Streams /\ drx \in [1 .. Streams -> 0 .. Dlen]
      /\ 1 \in DOMAIN done /\ e.own \in 1 .. Streams /\ Head(done) = e /\ e.n \in 0 .. Dlen
      /\ Dlen \in Nat /\ Streams \in Nat
  BY DoneTypes, TailDone
<1>2. gen = e.own /\ gen \in 1 .. Streams /\ gen >= 1
  BY <1>1 DEF Owners
<1>3. queue \in Seq(1 .. Streams) /\ Len(queue) \in Nat /\ DOMAIN queue = 1 .. Len(queue)
  BY DEF Types, TypeOK
<1>4. dbuf \in Seq(Bytes) /\ Len(dbuf) = Dlen
  BY DEF Types, TypeOK, Bytes
<1>5. /\ done' \in Seq(Events) /\ Len(done') = Len(done) - 1
      /\ \A k \in DOMAIN done' : done'[k].own = gen
  BY TailDone DEF Owners
<1>6. Pending = {} => Pending' = {}
  BY TailDone
<1>7. ASSUME queue' \in {queue, Append(queue, gen)}
      PROVE  /\ queue' \in Seq(1 .. Streams) /\ Len(queue') <= Len(queue) + 1
             /\ Len(queue') \in Nat /\ \A k \in DOMAIN queue' : queue'[k] = gen
  <2>1. CASE queue' = queue
    BY <1>3, <2>1 DEF Owners
  <2>2. CASE queue' = Append(queue, gen)
    BY <1>2, <1>3, <2>2 DEF Owners
  <2> QED BY <1>7, <2>1, <2>2
<1>8. CASE 1 \notin Pending
  <2>1. e.status = "cancelled"
    BY <1>1, <1>8 DEF Pending
  <2>2. UNCHANGED <<queue, drx, dbuf>>
    BY <1>1, <2>1 DEF Callback
  <2>3. Sorted' /\ (Exact => Exact') /\ (Lost => Lost') /\ (InPlace <=> InPlace')
    BY <1>2, <1>8, <2>2, CancelledCallbackData
  <2>4. drx'[gen] >= drx[gen]
    BY <1>1, <1>2, <2>2
  <2> QED BY <1>1, <1>2, <1>3, <1>4, <1>5, <1>6, <1>7, <2>2, <2>3, <2>4
<1>9. CASE 1 \in Pending
  <2>1. Callback(done[1])
    BY <1>1
  <2>2. /\ drx' = [drx EXCEPT ![gen] = @ + e.n] /\ drx[gen] + e.n <= Dlen
        /\ dbuf' \in Seq(Bytes) /\ Len(dbuf') = Dlen
        /\ queue' \in {queue, Append(queue, gen)}
    BY <1>2, <1>9, <2>1, CallbackStores
  <2>3. /\ drx' \in [1 .. Streams -> 0 .. Dlen] /\ drx'[gen] >= drx[gen]
        /\ \A g \in 1 .. Streams : g > gen => drx'[g] = drx[g]
    BY <1>1, <1>2, <2>2
  <2>4. Sorted' /\ (Exact => Exact') /\ (Lost => Lost') /\ (Exact /\ InPlace => InPlace')
    BY <1>2, <1>9, <2>1, StoringCallbackData
  <2>5. Pending # {}
    BY <1>9
  <2>6. Len(queue') + Len(done') <= Len(queue) + Len(done)
    BY <1>1, <1>3, <1>5, <1>7, <2>2
  <2> QED BY <1>2, <1>5, <1>7, <2>2, <2>3, <2>4, <2>5, <2>6
<1> QED BY <1>8, <1>9

-----------------------------------------------------------------------------
(* Steps that leave the data alone. *)
LEMMA DataFrame ==
    ASSUME UNCHANGED <<gen, pos, done, drx, dbuf>>
    PROVE  /\ Pending' = Pending /\ (Sorted' <=> Sorted) /\ (Exact' <=> Exact)
           /\ (Lost' <=> Lost) /\ (InPlace' <=> InPlace)
<1>1. Pending' = Pending
  BY DEF Pending
<1> QED BY <1>1 DEF Sorted, Exact, EndOf, Lost, InPlace

(* A step that moves no transfer and no byte keeps both. *)
LEMMA QuietKept ==
    ASSUME Owners, Data, UNCHANGED <<gen, pos, queue, done, drx, dbuf, unsub>>,
           wpc' = "ended" <=> wpc = "ended",
           \/ UNCHANGED <<wpc, index>>
           \/ wpc' # "submit" /\ (wpc' = "resubmit" => index' >= 1)
    PROVE  Owners' /\ Data'
<1>1. Owners'
  BY DataFrame DEF Owners
<1>2. Data'
  BY DataFrame DEF Data
<1> QED BY <1>1, <1>2

(* A buffer that has been filled has the stream in it. *)
LEMMA WholeBuffer ==
    ASSUME Types, Data, gen >= 1, drx[gen] >= Dlen
    PROVE  dbuf = Stream(gen)
<1>1. Dlen \in Nat /\ gen \in 1 .. Streams /\ drx[gen] \in 0 .. Dlen
  BY DoneTypes
<1>2. dbuf \in Seq(Bytes) /\ Len(dbuf) = Dlen
  BY DEF Types, TypeOK, Bytes
<1>3. \A k \in 1 .. Dlen : dbuf[k] = <<gen, k>>
  BY <1>1 DEF Data, InPlace
<1>4. dbuf = [k \in 1 .. Dlen |-> dbuf[k]]
  BY <1>2
<1> QED BY <1>3, <1>4 DEF Stream

(* The user's thread outside of USB transfers, and the trigger.            *)
LEMMA UserStep ==
    ASSUME IInv,
           \/ Arm \/ ArmScope \/ ArmRaises \/ FastOn \/ Capture \/ PollDone \/ PollSleep
           \/ PollMore \/ TimesOut \/ TriggerNow \/ Stop \/ FastOff \/ Read
           \/ KeyboardInterrupt \/ Trigger \/ UNCHANGED vars
    PROVE  IInv'
<1>1. CASE Arm
  <2>1. UNCHANGED <<gen, pos, queue, done, drx, dbuf, unsub, wpc, index>>
    BY <1>1 DEF Arm, vars, streamVars, deviceVars, usbVars, threadVars
  <2>2. Types'
    <3>1. NoResult \in [returned : BOOLEAN, timeout : BOOLEAN, data : Seq(Bytes)]
      BY DEF NoResult
    <3>2. arms' \in 0 .. Streams
      BY <1>1, StreamsAssumption DEF IInv, Types, Arm
    <3> QED BY <1>1, <2>1, <3>1, <3>2 DEF IInv, Arm, Types, TypeOK, vars, streamVars, deviceVars
  <2>3. Calls'
    <3>1. ~result'.returned /\ arms' > arms /\ arms \in Nat /\ gen \in Nat
      BY <1>1, StreamsAssumption DEF IInv, Types, TypeOK, Arm, NoResult
    <3> QED BY <1>1, <2>1, <3>1 DEF IInv, Arm, Calls
  <2>4. Untold'
    BY <1>1, <2>1, DataFrame DEF IInv, Arm, Types, TypeOK, Untold, Calls, vars, streamVars, callVars
  <2>5. Owners' /\ Data'
    BY <2>1, QuietKept DEF IInv
  <2> QED BY <2>2, <2>3, <2>4, <2>5 DEF IInv
<1>2. CASE ArmScope
  <2>1. UNCHANGED <<gen, pos, queue, done, drx, dbuf, unsub, wpc, index>>
    BY <1>2 DEF ArmScope, vars, streamVars, deviceVars, usbVars, threadVars
  <2>2. Types'
    BY <1>2, <2>1 DEF IInv, ArmScope, Types, TypeOK, vars, streamVars, deviceVars, callVars
  <2>3. Calls'
    BY <1>2, <2>1 DEF IInv, ArmScope, Types, TypeOK, Calls, vars, callVars
  <2>4. Untold'
    BY <1>2, <2>1, DataFrame DEF IInv, ArmScope, Types, TypeOK, Untold, Calls, vars, streamVars, callVars
  <2>5. Owners' /\ Data'
    BY <2>1, QuietKept DEF IInv
  <2> QED BY <2>2, <2>3, <2>4, <2>5 DEF IInv
<1>3. CASE ArmRaises
  <2>1. UNCHANGED <<gen, pos, queue, done, drx, dbuf, unsub, wpc, index>>
    BY <1>3 DEF ArmRaises, vars, streamVars, deviceVars, usbVars, threadVars
  <2>2. Types'
    BY <1>3, <2>1 DEF IInv, ArmRaises, Types, TypeOK, vars, streamVars, deviceVars, callVars
  <2>3. Calls'
    BY <1>3, <2>1 DEF IInv, ArmRaises, Types, TypeOK, Calls, vars, callVars
  <2>4. Untold'
    BY <1>3, <2>1, DataFrame DEF IInv, ArmRaises, Types, TypeOK, Untold, Calls, vars, streamVars, callVars
  <2>5. Owners' /\ Data'
    BY <2>1, QuietKept DEF IInv
  <2> QED BY <2>2, <2>3, <2>4, <2>5 DEF IInv
<1>4. CASE FastOn
  <2>1. UNCHANGED <<gen, pos, queue, done, drx, dbuf, unsub, wpc, index>>
    BY <1>4 DEF FastOn, vars, streamVars, deviceVars, usbVars, threadVars
  <2>2. Types'
    BY <1>4, <2>1 DEF IInv, FastOn, Types, TypeOK, vars, streamVars, deviceVars, callVars
  <2>3. Calls'
    BY <1>4, <2>1 DEF IInv, FastOn, Types, TypeOK, Calls, vars, callVars
  <2>4. Untold'
    BY <1>4, <2>1, DataFrame DEF IInv, FastOn, Types, TypeOK, Untold, Calls, vars, streamVars, callVars
  <2>5. Owners' /\ Data'
    BY <2>1, QuietKept DEF IInv
  <2> QED BY <2>2, <2>3, <2>4, <2>5 DEF IInv
<1>5. CASE Capture
  <2>1. UNCHANGED <<gen, pos, queue, done, drx, dbuf, unsub, wpc, index>>
    BY <1>5 DEF Capture, vars, streamVars, deviceVars, usbVars, threadVars
  <2>2. Types'
    BY <1>5, <2>1 DEF IInv, Capture, Types, TypeOK, vars, streamVars, deviceVars, callVars
  <2>3. Calls'
    BY <1>5, <2>1 DEF IInv, Capture, Types, TypeOK, Calls, vars, callVars
  <2>4. Untold'
    BY <1>5, <2>1, DataFrame DEF IInv, Capture, Types, TypeOK, Untold, Calls, vars, streamVars, callVars
  <2>5. Owners' /\ Data'
    BY <2>1, QuietKept DEF IInv
  <2> QED BY <2>2, <2>3, <2>4, <2>5 DEF IInv
<1>6. CASE PollDone
  <2>1. UNCHANGED <<gen, pos, queue, done, drx, dbuf, unsub, wpc, index>>
    BY <1>6 DEF PollDone, vars, streamVars, deviceVars, usbVars, threadVars
  <2>2. Types'
    BY <1>6, <2>1 DEF IInv, PollDone, Types, TypeOK, vars, streamVars, deviceVars, callVars
  <2>3. Calls'
    BY <1>6, <2>1 DEF IInv, PollDone, isDone, Types, TypeOK, Calls, vars, callVars
  <2>4. Untold'
    BY <1>6, <2>1, DataFrame DEF IInv, PollDone, Types, TypeOK, Untold, Calls, vars, streamVars, callVars
  <2>5. Owners' /\ Data'
    BY <2>1, QuietKept DEF IInv
  <2> QED BY <2>2, <2>3, <2>4, <2>5 DEF IInv
<1>7. CASE PollSleep
  <2>1. UNCHANGED <<gen, pos, queue, done, drx, dbuf, unsub, wpc, index>>
    BY <1>7 DEF PollSleep, vars, streamVars, deviceVars, usbVars, threadVars
  <2>2. Types'
    BY <1>7, <2>1 DEF IInv, PollSleep, Types, TypeOK, vars, streamVars, deviceVars, callVars
  <2>3. Calls'
    BY <1>7, <2>1 DEF IInv, PollSleep, Types, TypeOK, Calls, vars, callVars
  <2>4. Untold'
    BY <1>7, <2>1, DataFrame DEF IInv, PollSleep, Types, TypeOK, Untold, Calls, vars, streamVars, callVars
  <2>5. Owners' /\ Data'
    BY <2>1, QuietKept DEF IInv
  <2> QED BY <2>2, <2>3, <2>4, <2>5 DEF IInv
<1>8. CASE PollMore
  <2>1. UNCHANGED <<gen, pos, queue, done, drx, dbuf, unsub, wpc, index>>
    BY <1>8 DEF PollMore, vars, streamVars, deviceVars, usbVars, threadVars
  <2>2. Types'
    BY <1>8, <2>1 DEF IInv, PollMore, Types, TypeOK, vars, streamVars, deviceVars, callVars
  <2>3. Calls'
    BY <1>8, <2>1 DEF IInv, PollMore, Types, TypeOK, Calls, vars, callVars
  <2>4. Untold'
    BY <1>8, <2>1, DataFrame DEF IInv, PollMore, Types, TypeOK, Untold, Calls, vars, streamVars, callVars
  <2>5. Owners' /\ Data'
    BY <2>1, QuietKept DEF IInv
  <2> QED BY <2>2, <2>3, <2>4, <2>5 DEF IInv
<1>9. CASE TimesOut
  <2>1. UNCHANGED <<gen, pos, queue, done, drx, dbuf, unsub, wpc, index>>
    BY <1>9 DEF TimesOut, vars, streamVars, deviceVars, usbVars, threadVars
  <2>2. Types'
    BY <1>9, <2>1 DEF IInv, TimesOut, Types, TypeOK, vars, streamVars, deviceVars, callVars
  <2>3. Calls'
    BY <1>9, <2>1 DEF IInv, TimesOut, Types, TypeOK, Calls, vars, callVars
  <2>4. Untold'
    BY <1>9, <2>1, DataFrame DEF IInv, TimesOut, Types, TypeOK, Untold, Calls, vars, streamVars, callVars
  <2>5. Owners' /\ Data'
    BY <2>1, QuietKept DEF IInv
  <2> QED BY <2>2, <2>3, <2>4, <2>5 DEF IInv
<1>10. CASE TriggerNow
  <2>1. UNCHANGED <<gen, pos, queue, done, drx, dbuf, unsub, wpc, index>>
    BY <1>10 DEF TriggerNow, vars, streamVars, deviceVars, usbVars, threadVars
  <2>2. Types'
    BY <1>10, <2>1 DEF IInv, TriggerNow, Types, TypeOK, vars, streamVars, deviceVars, callVars
  <2>3. Calls'
    BY <1>10, <2>1 DEF IInv, TriggerNow, Types, TypeOK, Calls, vars, callVars
  <2>4. Untold'
    BY <1>10, <2>1, DataFrame DEF IInv, TriggerNow, Types, TypeOK, Untold, Calls, vars, streamVars, callVars
  <2>5. Owners' /\ Data'
    BY <2>1, QuietKept DEF IInv
  <2> QED BY <2>2, <2>3, <2>4, <2>5 DEF IInv
<1>11. CASE Stop
  <2>1. UNCHANGED <<gen, pos, queue, done, drx, dbuf, unsub, wpc, index>>
    BY <1>11 DEF Stop, vars, streamVars, deviceVars, usbVars, threadVars
  <2>2. Types'
    BY <1>11, <2>1 DEF IInv, Stop, Types, TypeOK, vars, streamVars, deviceVars, callVars
  <2>3. Calls'
    BY <1>11, <2>1 DEF IInv, Stop, Types, TypeOK, Calls, vars, callVars
  <2>4. Untold'
    BY <1>11, <2>1, DataFrame DEF IInv, Stop, Types, TypeOK, Untold, Calls, vars, streamVars, callVars
  <2>5. Owners' /\ Data'
    BY <2>1, QuietKept DEF IInv
  <2> QED BY <2>2, <2>3, <2>4, <2>5 DEF IInv
<1>12. CASE FastOff
  <2>1. UNCHANGED <<gen, pos, queue, done, drx, dbuf, unsub, wpc, index>>
    BY <1>12 DEF FastOff, vars, streamVars, deviceVars, usbVars, threadVars
  <2>2. Types'
    BY <1>12, <2>1 DEF IInv, FastOff, Types, TypeOK, vars, streamVars, deviceVars, callVars
  <2>3. Calls'
    BY <1>12, <2>1 DEF IInv, FastOff, Types, TypeOK, Calls, vars, callVars
  <2>4. Untold'
    BY <1>12, <2>1, DataFrame DEF IInv, FastOff, Types, TypeOK, Untold, Calls, vars, streamVars, callVars
  <2>5. Owners' /\ Data'
    BY <2>1, QuietKept DEF IInv
  <2> QED BY <2>2, <2>3, <2>4, <2>5 DEF IInv
<1>13. CASE Read
  <2>1. UNCHANGED <<gen, pos, queue, done, drx, dbuf, unsub, wpc, index>>
    BY <1>13 DEF Read, vars, streamVars, deviceVars, usbVars, threadVars
  <2>2. Types'
    <3>1. dbuf \in Seq(Bytes) /\ timeout \in BOOLEAN
      BY DEF IInv, Types, TypeOK, Bytes
    <3> QED BY <1>13, <2>1, <3>1 DEF IInv, Read, Types, TypeOK, vars, streamVars, deviceVars
  <2>3. Calls'
    <3>1. result' = [returned |-> TRUE, timeout |-> timeout, data |-> dbuf]
          /\ mpc = "read" /\ mpc' = "idle" /\ UNCHANGED <<timeout, fast, arms>>
      BY <1>13 DEF Read
    <3>2. gen >= 1 /\ wpc = "ended" /\ done = <<>> /\ (~timeout => drx[gen] >= Dlen)
      BY <3>1 DEF IInv, Calls
    <3>3. ~timeout => dbuf = Stream(gen)
      BY <3>2, WholeBuffer DEF IInv
    <3> QED BY <2>1, <3>1, <3>2, <3>3 DEF IInv, Calls, Stream
  <2>4. Untold'
    BY <1>13, <2>1, DataFrame DEF IInv, Read, Types, TypeOK, Untold, Calls, vars, streamVars, callVars
  <2>5. Owners' /\ Data'
    BY <2>1, QuietKept DEF IInv
  <2> QED BY <2>2, <2>3, <2>4, <2>5 DEF IInv
<1>14. CASE KeyboardInterrupt
  <2>1. UNCHANGED <<gen, pos, queue, done, drx, dbuf, unsub, wpc, index>>
    BY <1>14 DEF KeyboardInterrupt, vars, streamVars, deviceVars, usbVars, threadVars
  <2>2. Types'
    BY <1>14, <2>1 DEF IInv, KeyboardInterrupt, Types, TypeOK, vars, streamVars, deviceVars, callVars
  <2>3. Calls'
    BY <1>14, <2>1 DEF IInv, KeyboardInterrupt, Types, TypeOK, Calls, vars, callVars
  <2>4. Untold'
    BY <1>14, <2>1, DataFrame DEF IInv, KeyboardInterrupt, Types, TypeOK, Untold, Calls, vars, streamVars, callVars
  <2>5. Owners' /\ Data'
    BY <2>1, QuietKept DEF IInv
  <2> QED BY <2>2, <2>3, <2>4, <2>5 DEF IInv
<1>15. CASE Trigger
  <2>1. UNCHANGED <<gen, pos, queue, done, drx, dbuf, unsub, wpc, index>>
    BY <1>15 DEF Trigger, vars, streamVars, deviceVars, usbVars, threadVars
  <2>2. Types'
    BY <1>15, <2>1 DEF IInv, Trigger, Types, TypeOK, vars, streamVars, deviceVars, callVars
  <2>3. Calls'
    BY <1>15, <2>1 DEF IInv, Trigger, Types, TypeOK, Calls, vars, callVars
  <2>4. Untold'
    BY <1>15, <2>1, DataFrame DEF IInv, Trigger, Types, TypeOK, Untold, Calls, vars, streamVars, callVars
  <2>5. Owners' /\ Data'
    BY <2>1, QuietKept DEF IInv
  <2> QED BY <2>2, <2>3, <2>4, <2>5 DEF IInv
<1>16. CASE UNCHANGED vars
  <2>1. UNCHANGED <<gen, pos, queue, done, drx, dbuf, unsub, wpc, index>>
    BY <1>16 DEF vars, streamVars, deviceVars, usbVars, threadVars
  <2>2. Types'
    BY <1>16, <2>1 DEF IInv, Types, TypeOK, vars, streamVars, deviceVars, callVars
  <2>3. Calls'
    BY <1>16, <2>1 DEF IInv, Types, TypeOK, Calls, vars, callVars
  <2>4. Untold'
    BY <1>16, <2>1, DataFrame DEF IInv, Types, TypeOK, Untold, Calls, vars, streamVars, callVars
  <2>5. Owners' /\ Data'
    BY <2>1, QuietKept DEF IInv
  <2> QED BY <2>2, <2>3, <2>4, <2>5 DEF IInv
<1> QED BY <1>1, <1>2, <1>3, <1>4, <1>5, <1>6, <1>7, <1>8, <1>9, <1>10, <1>11, <1>12, <1>13, <1>14, <1>15, <1>16

-----------------------------------------------------------------------------
(* The device, and the steps of the thread. *)

(* A transfer that is finished with the next n bytes.                      *)
LEMMA Finishing ==
    ASSUME IInv, queue # <<>>, NEW status \in {"completed", "error"}, NEW n \in 0 .. Dlen,
           pos + n <= Dlen, Finish(status, n), UNCHANGED <<gen, drx, dbuf>>
    PROVE  /\ wpc # "ended" /\ gen >= 1
           /\ queue' \in Seq(1 .. Streams) /\ done' \in Seq(Events) /\ pos' \in 0 .. Dlen
           /\ Len(queue') + Len(done') = Len(queue) + Len(done)
           /\ \A k \in DOMAIN queue' : queue'[k] = gen
           /\ \A k \in DOMAIN done' : done'[k].own = gen
           /\ Sorted' /\ (Exact => Exact') /\ (Lost => Lost') /\ (InPlace' <=> InPlace)
<1> DEFINE e == [own |-> Head(queue), status |-> status, from |-> pos, n |-> n]
<1>1. /\ done \in Seq(Events) /\ Len(done) \in Nat /\ DOMAIN done = 1 .. Len(done)
      /\ gen \in 0 .. Streams /\ pos \in 0 .. Dlen /\ Dlen \in Nat /\ Streams \in Nat
      /\ drx \in [1 .. Streams -> 0 .. Dlen]
  BY DoneTypes DEF IInv
<1>2. queue \in Seq(1 .. Streams) /\ Len(queue) \in Nat \ {0} /\ DOMAIN queue = 1 .. Len(queue)
  BY DEF IInv, Types, TypeOK
<1>3. Head(queue) = gen /\ gen \in 1 .. Streams /\ wpc # "ended"
  <2>1. 1 \in DOMAIN queue /\ queue[1] \in 1 .. Streams
    BY <1>2, StreamsAssumption
  <2>2. Head(queue) = queue[1]
    BY <1>2
  <2> QED BY <2>1, <2>2 DEF IInv, Owners
<1>4. e \in Events /\ e.own = gen
  BY <1>1, <1>3 DEF Events
<1>5. queue' = Tail(queue) /\ done' = Append(done, e) /\ pos' = pos + n
  BY DEF Finish
<1>6. Sorted /\ drx[gen] \in 0 .. Dlen
  BY <1>1, <1>3 DEF IInv, Data
<1> HIDE DEF e
<1>7. /\ queue' \in Seq(1 .. Streams) /\ Len(queue') = Len(queue) - 1
      /\ \A k \in DOMAIN queue' : queue'[k] = gen
  BY <1>2, <1>5 DEF IInv, Owners
<1>8. /\ done' \in Seq(Events) /\ Len(done') = Len(done) + 1
      /\ DOMAIN done' = 1 .. Len(done) + 1
      /\ \A k \in DOMAIN done' : (k \in DOMAIN done /\ done'[k] = done[k])
                               \/ (k = Len(done) + 1 /\ done'[k] = e)
      /\ \A k \in DOMAIN done : done'[k] = done[k]
  BY <1>1, <1>4, <1>5
<1>9. \A k \in DOMAIN done' : done'[k].own = gen
  BY <1>4, <1>8 DEF IInv, Owners
<1>10. /\ Pending' = Pending \cup {Len(done) + 1} /\ Pending \subseteq 1 .. Len(done)
       /\ Len(done) + 1 \notin Pending
       /\ e.from = pos /\ e.n = n /\ done'[Len(done) + 1] = e
       /\ \A k \in Pending : done'[k] = done[k]
  <2>1. e.status # "cancelled" /\ e.from = pos /\ e.n = n
    BY DEF e
  <2>2. \A k : k \in Pending' <=> k \in Pending \cup {Len(done) + 1}
    BY <1>1, <1>8, <2>1 DEF Pending
  <2>3. done'[Len(done) + 1] = e
    BY <1>1, <1>4, <1>5
  <2> QED BY <1>1, <1>8, <2>1, <2>2, <2>3 DEF Pending
<1>11. Sorted'
  <2>1. drx'[gen'] <= pos'
    BY <1>1, <1>5, <1>6 DEF Sorted
  <2>2. \A k \in Pending' : drx'[gen'] <= done'[k].from /\ done'[k].from + done'[k].n <= pos'
    <3> TAKE k \in Pending'
    <3>1. CASE k = Len(done) + 1
      BY <1>1, <1>5, <1>6, <1>10, <3>1 DEF Sorted
    <3>2. CASE k \in Pending
      <4>1. done[k].from \in 0 .. Dlen /\ done[k].n \in 0 .. Dlen /\ done'[k] = done[k]
        BY <1>10, <3>2, DoneTypes DEF IInv, Pending
      <4>2. drx[gen] <= done[k].from /\ done[k].from + done[k].n <= pos
        BY <1>6, <3>2 DEF Sorted
      <4>3. /\ drx'[gen'] = drx[gen] /\ pos' = pos + n /\ pos \in Nat /\ n \in Nat
            /\ done'[k].from = done[k].from /\ done'[k].n = done[k].n
        BY <1>1, <1>5, <4>1
      <4> QED BY ONLY <4>1, <4>2, <4>3
    <3> QED BY <1>10, <3>1, <3>2
  <2>3. \A j, k \in Pending' : j < k => done'[j].from + done'[j].n <= done'[k].from
    <3> TAKE j, k \in Pending'
    <3> HAVE j < k
    <3>1. j \in Pending
      <4>1. j \in Pending \cup {Len(done) + 1} /\ k \in Pending \cup {Len(done) + 1}
        BY <1>10
      <4>2. k <= Len(done) + 1 /\ k \in Nat
        BY <1>1, <1>10, <4>1
      <4> QED BY <1>1, <4>1, <4>2
    <3>2. CASE k = Len(done) + 1
      BY <1>6, <1>10, <3>1, <3>2 DEF Sorted
    <3>3. CASE k \in Pending
      BY <1>6, <1>10, <3>1, <3>3 DEF Sorted
    <3> QED BY <1>10, <3>2, <3>3
  <2>4. \A j \in Pending' : \A k \in DOMAIN done' : j < k => k \in Pending'
    BY <1>1, <1>6, <1>8, <1>10 DEF Sorted
  <2> QED BY <2>1, <2>2, <2>3, <2>4 DEF Sorted
<1>12. ASSUME Exact PROVE Exact'
  <2>1. \A k \in 0 .. Len(done) : EndOf(k)' = EndOf(k)
    BY <1>1, <1>10 DEF EndOf
  <2>2. \A k \in Pending' : done'[k].from = EndOf(k - 1)'
    <3> TAKE k \in Pending'
    <3>1. k - 1 \in 0 .. Len(done) /\ k \in 1 .. Len(done) + 1
      BY <1>1, <1>10
    <3>2. CASE k = Len(done) + 1
      <4>1. EndOf(k - 1) = pos
        BY <1>1, <1>12, <3>2 DEF Exact
      <4> QED BY <1>10, <2>1, <3>1, <3>2, <4>1
    <3>3. CASE k \in Pending
      BY <1>10, <1>12, <2>1, <3>1, <3>3 DEF Exact
    <3> QED BY <1>10, <3>2, <3>3
  <2>3. pos' = EndOf(Len(done))'
    BY <1>5, <1>8, <1>10 DEF EndOf
  <2> QED BY <2>2, <2>3 DEF Exact
<1>13. ASSUME Lost PROVE Lost'
  <2>1. drx[gen] < pos /\ pos <= pos'
    BY <1>1, <1>5, <1>13 DEF Lost
  <2>2. drx'[gen'] < pos'
    BY <1>1, <1>5, <1>6, <2>1
  <2>3. \A k \in Pending' : drx'[gen'] < done'[k].from
    BY <1>10, <1>13, <2>1 DEF Lost
  <2> QED BY <2>2, <2>3 DEF Lost
<1>14. InPlace' <=> InPlace
  BY DEF InPlace
<1>15. pos' \in 0 .. Dlen /\ Len(queue') + Len(done') = Len(queue) + Len(done)
  BY <1>1, <1>2, <1>5, <1>7, <1>8
<1> QED BY <1>3, <1>7, <1>8, <1>9, <1>11, <1>12, <1>13, <1>14, <1>15

(* What a running thread has, and what its steps have to keep for Data ... *)
LEMMA RunningData ==
    ASSUME IInv, wpc # "ended"
    PROVE  gen >= 1 /\ gen \in 1 .. Streams /\ Sorted /\ ((InPlace /\ Exact) \/ Lost)
<1>1. gen >= 1 /\ gen \in 0 .. Streams /\ Streams \in Nat
  BY DoneTypes DEF IInv, Calls
<1> QED BY <1>1 DEF IInv, Data

(* A stream that is sorted, and exact or lost, is what Data asks for. *)
LEMMA DataKept ==
    ASSUME pos' \in 0 .. Dlen, drx'[gen'] \in 0 .. Dlen, Sorted', (InPlace' /\ Exact') \/ Lost'
    PROVE  Data'
<1>1. Lost' => drx'[gen'] < Dlen
  BY DlenAssumption DEF Lost
<1> QED BY <1>1 DEF Data

(* ... and for the rest. *)
LEMMA ThreadKept ==
    ASSUME IInv, wpc # "ended", UNCHANGED <<gen, armed, callVars>>,
           Types', Owners', Data', drx'[gen] >= drx[gen], stop' = stop \/ stop' = FALSE,
           InPlace /\ Exact /\ ~stop => wpc' = "ended" \/ (InPlace' /\ Exact')
    PROVE  IInv'
<1>1. UNCHANGED <<gen, mpc, fast, timeout, result, arms, interrupts>>
  BY DEF callVars
<1>2. gen \in 1 .. Streams /\ drx[gen] \in 0 .. Dlen /\ drx'[gen] \in 0 .. Dlen
  <2>1. gen \in 1 .. Streams
    BY RunningData
  <2>2. drx \in [1 .. Streams -> 0 .. Dlen] /\ drx' \in [1 .. Streams -> 0 .. Dlen]
    BY DEF IInv, Types, TypeOK
  <2> QED BY <2>1, <2>2
<1>3. Calls'
  <2>1. mpc # "read" /\ ~result.returned
    BY DEF IInv, Calls
  <2>2. drx[gen] >= Dlen => drx'[gen] >= Dlen
    BY <1>2, DlenAssumption
  <2>3. gen >= 1
    BY RunningData
  <2> QED BY <1>1, <2>1, <2>2, <2>3 DEF IInv, Calls
<1>4. Untold'
  BY <1>1 DEF IInv, Untold, Types, TypeOK
<1> QED BY <1>3, <1>4 DEF IInv

(* The device fills the transfer at the head of the queue, or fails it. *)
LEMMA DeviceStep ==
    ASSUME IInv, Usb, UNCHANGED <<armed, callVars>>
    PROVE  IInv'
<1>1. /\ queue # <<>> /\ UNCHANGED <<gen, trig, threadVars, stop, dbuf>>
      /\ \E status \in {"completed", "error"}, n \in 0 .. Dlen :
            pos + n <= Dlen /\ Finish(status, n)
  <2>1. pos \in 0 .. Dlen /\ Dlen \in Nat \ {0} /\ Segment \in Nat \ {0}
    BY DlenAssumption, SegmentAssumption, DoneTypes DEF IInv
  <2>2. CASE Deliver
    <3> DEFINE n == Min({Segment, Dlen - pos})
    <3>1. n \in 0 .. Dlen /\ pos + n <= Dlen
      <4>1. Dlen - pos \in 0 .. Dlen
        BY <2>1, <2>2 DEF Deliver
      <4>2. n \in {Segment, Dlen - pos} /\ n <= Segment /\ n <= Dlen - pos
        BY <2>1, <4>1 DEF Min
      <4> QED BY <2>1, <4>1, <4>2
    <3> HIDE DEF n
    <3>2. Finish("completed", n)
      BY <2>2 DEF Deliver, n
    <3> QED BY <2>2, <3>1, <3>2 DEF Deliver
  <2>3. CASE Glitch
    <3>1. (Finish("error", 1) /\ pos + 1 < Dlen) \/ Finish("error", 0)
      BY <2>3 DEF Glitch
    <3> QED BY <2>1, <2>3, <3>1 DEF Glitch
  <2> QED BY <2>2, <2>3 DEF Usb
<1>2. PICK status \in {"completed", "error"}, n \in 0 .. Dlen :
        pos + n <= Dlen /\ Finish(status, n)
  BY <1>1
<1>3. UNCHANGED <<unsub, wpc, index, drx>>
  BY <1>1 DEF threadVars
<1>4. /\ wpc # "ended" /\ gen >= 1
      /\ queue' \in Seq(1 .. Streams) /\ done' \in Seq(Events) /\ pos' \in 0 .. Dlen
      /\ Len(queue') + Len(done') = Len(queue) + Len(done)
      /\ \A k \in DOMAIN queue' : queue'[k] = gen
      /\ \A k \in DOMAIN done' : done'[k].own = gen
      /\ Sorted' /\ (Exact => Exact') /\ (Lost => Lost') /\ (InPlace' <=> InPlace)
  BY <1>1, <1>2, <1>3, Finishing
<1>5. Types'
  BY <1>1, <1>3, <1>4 DEF IInv, Types, TypeOK, callVars
<1>6. Owners'
  BY <1>1, <1>3, <1>4 DEF IInv, Owners
<1>7. drx[gen] \in 0 .. Dlen
  BY <1>4, RunningData, DoneTypes DEF IInv
<1>8. Data'
  BY <1>1, <1>3, <1>4, <1>7, RunningData, DataKept
<1> QED BY <1>1, <1>3, <1>4, <1>5, <1>6, <1>7, <1>8, ThreadKept

(* A transfer more for the kernel. *)
LEMMA Appended ==
    ASSUME IInv, wpc # "ended", queue' = Append(queue, gen), UNCHANGED gen
    PROVE  /\ queue' \in Seq(1 .. Streams) /\ Len(queue') = Len(queue) + 1
           /\ \A k \in DOMAIN queue' : queue'[k] = gen
<1>1. queue \in Seq(1 .. Streams) /\ gen \in 1 .. Streams
  BY RunningData DEF IInv, Types, TypeOK
<1>2. Len(queue) \in Nat /\ DOMAIN queue = 1 .. Len(queue)
  BY <1>1
<1> QED BY <1>1, <1>2 DEF IInv, Owners

(* The thread's first loop: a transfer submitted, or kept for later. *)
LEMMA SubmitStep ==
    ASSUME IInv, Submit, UNCHANGED <<armed, callVars>>
    PROVE  IInv'
<1>1. /\ UNCHANGED <<gen, trig, pos, done, drx, stop, dbuf>>
      /\ wpc = "submit" /\ index' = index + 1
      /\ wpc' = IF index + 1 = NumTransfers THEN "poll" ELSE "submit"
      /\ \/ Fits /\ queue' = Append(queue, gen) /\ unsub' = unsub
         \/ queue' = queue /\ unsub' = unsub + 1
  BY DEF Submit, deviceVars
<1>2. /\ index \in Nat /\ index < NumTransfers /\ unsub <= index /\ NumTransfers \in Nat
      /\ unsub \in 0 .. NumTransfers
      /\ unsub' \in 0 .. NumTransfers /\ unsub' <= index' /\ index' \in Nat
      /\ wpc' = "submit" => index' < NumTransfers
  <2>1. /\ index \in Nat /\ index < NumTransfers /\ unsub <= index /\ NumTransfers \in Nat
        /\ unsub \in 0 .. NumTransfers
    BY <1>1, SomeTransfers DEF IInv, Types, TypeOK, Owners
  <2> QED BY <1>1, <2>1
<1>3. /\ queue' \in Seq(1 .. Streams) /\ Len(queue') + Len(done) <= Capacity
      /\ \A k \in DOMAIN queue' : queue'[k] = gen
  <2>1. queue \in Seq(1 .. Streams) /\ Len(queue) + Len(done) <= Capacity
        /\ \A k \in DOMAIN queue : queue[k] = gen
    BY DEF IInv, Types, TypeOK, Owners
  <2>2. Len(queue) \in Nat /\ Len(done) \in Nat
    BY <2>1, DoneTypes DEF IInv
  <2>3. ASSUME Fits, queue' = Append(queue, gen)
        PROVE  Len(queue') + Len(done) <= Capacity
    BY <1>1, <2>2, <2>3, Appended, CapacityAssumption DEF Fits
  <2> QED BY <1>1, <2>1, <2>3, Appended
<1>4. Types'
  BY <1>1, <1>2, <1>3 DEF IInv, Types, TypeOK, callVars
<1>5. Pending' = Pending /\ Sorted' = Sorted /\ (Exact' <=> Exact)
      /\ (Lost' <=> Lost) /\ (InPlace' <=> InPlace)
  BY <1>1, DataFrame DEF Sorted
<1>6. Owners'
  BY <1>1, <1>2, <1>3, <1>5 DEF IInv, Owners
<1>7. Data'
  BY <1>1, <1>5 DEF IInv, Data
<1>8. drx'[gen] >= drx[gen]
  BY <1>1, RunningData, DoneTypes DEF IInv
<1> QED BY <1>1, <1>4, <1>5, <1>6, <1>7, <1>8, ThreadKept

(* A transfer that was kept is submitted. *)
LEMMA ResubmitStep ==
    ASSUME IInv, Resubmit, UNCHANGED <<armed, callVars>>
    PROVE  IInv'
<1>1. /\ UNCHANGED <<gen, trig, pos, done, wpc, drx, stop, dbuf>>
      /\ wpc = "resubmit" /\ index <= unsub /\ index' = index + 1
      /\ Fits /\ queue' = Append(queue, gen) /\ unsub' = unsub - 1
  BY DEF Resubmit, deviceVars
<1>2. index' \in Nat /\ index' >= 1 /\ unsub' \in 0 .. NumTransfers
  <2>1. index \in Nat /\ index >= 1 /\ unsub \in 0 .. NumTransfers /\ NumTransfers \in Nat
    BY <1>1, SomeTransfers DEF IInv, Types, TypeOK, Owners
  <2> QED BY <1>1, <2>1
<1>3. /\ queue' \in Seq(1 .. Streams) /\ Len(queue') + Len(done) <= Capacity
      /\ \A k \in DOMAIN queue' : queue'[k] = gen
  <2>1. Len(queue) \in Nat /\ Len(done) \in Nat
    <3>1. queue \in Seq(1 .. Streams)
      BY DEF IInv, Types, TypeOK
    <3> QED BY <3>1, DoneTypes DEF IInv
  <2> QED BY <1>1, <2>1, Appended, CapacityAssumption DEF Fits
<1>4. Types'
  BY <1>1, <1>2, <1>3 DEF IInv, Types, TypeOK, callVars
<1>5. Pending' = Pending /\ (Sorted' <=> Sorted) /\ (Exact' <=> Exact)
      /\ (Lost' <=> Lost) /\ (InPlace' <=> InPlace)
  BY <1>1, DataFrame
<1>6. Owners'
  BY <1>1, <1>2, <1>3, <1>5 DEF IInv, Owners
<1>7. Data'
  BY <1>1, <1>5 DEF IInv, Data
<1>8. drx'[gen] >= drx[gen]
  BY <1>1, RunningData, DoneTypes DEF IInv
<1> QED BY <1>1, <1>4, <1>5, <1>6, <1>7, <1>8, ThreadKept

(* The steps of the thread that move no transfer. *)
LEMMA IdleStep ==
    ASSUME IInv, Interrupted \/ ResubmitLater \/ PollAgain, UNCHANGED <<armed, callVars>>
    PROVE  IInv'
<1>1. /\ UNCHANGED <<gen, trig, pos, queue, done, unsub, drx, stop, dbuf>>
      /\ wpc # "ended" /\ wpc' \in {"poll", "resubmit"}
      /\ index' \in {index, index + 1, 1}
      /\ wpc' = "resubmit" => index' = 1 \/ (wpc = "resubmit" /\ index' = index + 1)
  BY DEF Interrupted, ResubmitLater, PollAgain, deviceVars, usbVars
<1>2. index \in Nat /\ (wpc = "resubmit" => index >= 1)
  BY DEF IInv, Types, Owners
<1>3. Types'
  BY <1>1, <1>2 DEF IInv, Types, TypeOK, callVars
<1>4. Owners' /\ Data'
  <2>1. wpc' # "submit" /\ (wpc' = "resubmit" => index' >= 1)
    BY <1>1, <1>2
  <2> QED BY <1>1, <2>1, QuietKept DEF IInv
<1>5. (Exact' <=> Exact) /\ (InPlace' <=> InPlace)
  BY <1>1, DataFrame
<1>6. drx'[gen] >= drx[gen]
  BY <1>1, RunningData, DoneTypes DEF IInv
<1> QED BY <1>1, <1>3, <1>4, <1>5, <1>6, ThreadKept

(* The callback of the thread's handleEvents, if there is one to call. *)
LEMMA HandleEventsStep ==
    ASSUME IInv, HandleEvents, UNCHANGED <<armed, callVars>>
    PROVE  IInv'
<1>1. /\ UNCHANGED <<gen, trig, pos, unsub, index, stop>>
      /\ wpc = "poll" /\ wpc' = "stop"
  BY DEF HandleEvents, deviceVars
<1>2. /\ queue' \in Seq(1 .. Streams) /\ done' \in Seq(Events)
      /\ Len(queue') + Len(done') <= Capacity
      /\ \A k \in DOMAIN queue' : queue'[k] = gen
      /\ \A k \in DOMAIN done' : done'[k].own = gen
      /\ drx' \in [1 .. Streams -> 0 .. Dlen] /\ drx'[gen] >= drx[gen]
      /\ \A g \in 1 .. Streams : g > gen => drx'[g] = drx[g]
      /\ dbuf' \in Seq(Bytes) /\ Len(dbuf') = Dlen
      /\ Sorted' /\ (Exact /\ InPlace => Exact' /\ InPlace') /\ (Lost => Lost')
  <2>1. /\ queue \in Seq(1 .. Streams) /\ done \in Seq(Events)
        /\ Len(queue) + Len(done) <= Capacity
        /\ Len(queue) \in Nat /\ Len(done) \in Nat /\ Capacity \in Nat
        /\ \A k \in DOMAIN queue : queue[k] = gen
        /\ \A k \in DOMAIN done : done[k].own = gen
        /\ drx \in [1 .. Streams -> 0 .. Dlen] /\ drx[gen] \in 0 .. Dlen
        /\ dbuf \in Seq(Bytes) /\ Len(dbuf) = Dlen
    <3>1. queue \in Seq(1 .. Streams) /\ done \in Seq(Events)
          /\ Len(queue) + Len(done) <= Capacity
          /\ drx \in [1 .. Streams -> 0 .. Dlen]
          /\ dbuf \in Seq(Bytes) /\ Len(dbuf) = Dlen
      BY DEF IInv, Types, TypeOK, Bytes
    <3>2. gen \in 1 .. Streams
      BY <1>1, RunningData
    <3> QED BY <3>1, <3>2, CapacityAssumption DEF IInv, Owners
  <2>2. CASE done = <<>>
    <3>1. UNCHANGED <<queue, done, drx, dbuf>>
      BY <2>2 DEF HandleEvents
    <3>2. (Sorted' <=> Sorted) /\ (Exact' <=> Exact) /\ (Lost' <=> Lost) /\ (InPlace' <=> InPlace)
      BY <1>1, <3>1, DataFrame
    <3>3. Sorted
      BY <1>1, RunningData
    <3> QED BY <2>1, <3>1, <3>2, <3>3
  <2>3. CASE done # <<>>
    <3>1. Callback(Head(done)) /\ done' = Tail(done)
      BY <2>3 DEF HandleEvents
    <3>2. Len(queue') + Len(done') <= Len(queue) + Len(done)
          /\ Len(queue') \in Nat /\ Len(done') \in Nat
      BY <1>1, <2>3, <3>1, CallbackStep DEF IInv
    <3> QED BY <1>1, <2>1, <2>3, <3>1, <3>2, CallbackStep DEF IInv
  <2> QED BY <2>2, <2>3
<1>3. Types'
  BY <1>1, <1>2 DEF IInv, Types, TypeOK, callVars, Bytes
<1>4. Owners'
  BY <1>1, <1>2 DEF IInv, Owners
<1>5. Data'
  <2>1. gen \in 1 .. Streams /\ ((InPlace' /\ Exact') \/ Lost')
    BY <1>1, <1>2, RunningData
  <2>2. pos' \in 0 .. Dlen /\ drx'[gen'] \in 0 .. Dlen
    BY <1>1, <1>2, <2>1, DoneTypes DEF IInv
  <2> QED BY <1>2, <2>1, <2>2, DataKept
<1> QED BY <1>1, <1>2, <1>3, <1>4, <1>5, ThreadKept

(* A thread that cancels has either all the device has sent, or lags behind. *)
LEMMA CancelData ==
    ASSUME IInv, wpc # "ended", CancelAll, UNCHANGED <<gen, pos, drx, dbuf>>
    PROVE  /\ queue' = <<>> /\ done' \in Seq(Events) /\ Len(done') <= Capacity
           /\ \A k \in DOMAIN done' : done'[k].own = gen
           /\ Pending' = {} /\ Data'
<1>1. /\ gen >= 1 /\ gen \in 1 .. Streams /\ Sorted /\ ((InPlace /\ Exact) \/ Lost)
      /\ drx[gen] \in 0 .. Dlen /\ pos \in 0 .. Dlen /\ Dlen \in Nat
  BY RunningData, DoneTypes DEF IInv
<1>2. /\ queue' = <<>> /\ done' \in Seq(Events) /\ Len(done') = Len(queue) + Len(done)
      /\ \A k \in DOMAIN done' : done'[k] = Cancelled(gen)
  BY <1>1, Cancelling DEF IInv
<1>3. \A k \in DOMAIN done' : done'[k].own = gen
  BY <1>2 DEF Cancelled
<1>4. Pending' = {}
  BY <1>2 DEF Pending, Cancelled
<1>5. Sorted'
  BY <1>1, <1>4 DEF Sorted
<1>6. (InPlace' /\ Exact') \/ Lost'
  <2>1. CASE drx[gen] = pos
    <3>1. InPlace'
      BY <1>1, <2>1 DEF Lost, InPlace
    <3>2. Exact'
      BY <1>4, <2>1 DEF Exact, EndOf
    <3> QED BY <3>1, <3>2
  <2>2. CASE drx[gen] < pos
    BY <1>4, <2>2 DEF Lost
  <2> QED BY <1>1, <2>1, <2>2 DEF Sorted
<1>7. Data'
  BY <1>1, <1>5, <1>6, DataKept
<1>8. Len(done') <= Capacity
  BY <1>2 DEF IInv, Types, TypeOK
<1> QED BY <1>2, <1>3, <1>4, <1>7, <1>8

(* The thread looks at stop, and cancels what is submitted. *)
LEMMA CheckStopStep ==
    ASSUME IInv, CheckStop, UNCHANGED <<armed, callVars>>
    PROVE  IInv'
<1>1. /\ UNCHANGED <<gen, trig, pos, unsub, drx, dbuf>>
      /\ wpc = "stop" /\ wpc' = "resubmit" /\ index' = 1 /\ stop' = FALSE
  BY DEF CheckStop, deviceVars
<1>2. drx'[gen] >= drx[gen]
  BY <1>1, RunningData, DoneTypes DEF IInv
<1>3. CASE stop
  <2>1. /\ queue' = <<>> /\ done' \in Seq(Events) /\ Len(done') <= Capacity
        /\ \A k \in DOMAIN done' : done'[k].own = gen
        /\ Pending' = {} /\ Data'
    BY <1>1, <1>3, CancelData DEF CheckStop
  <2>2. Types'
    <3>1. Len(done') \in Nat /\ Len(queue') = 0 /\ queue' \in Seq(1 .. Streams)
      BY <2>1
    <3>2. Len(queue') + Len(done') <= Capacity /\ index' \in Nat
      BY <1>1, <2>1, <3>1
    <3> QED BY <1>1, <2>1, <3>1, <3>2 DEF IInv, Types, TypeOK, callVars
  <2>3. Owners'
    BY <1>1, <2>1 DEF IInv, Owners
  <2> QED BY <1>1, <1>2, <1>3, <2>1, <2>2, <2>3, ThreadKept
<1>4. CASE ~stop
  <2>1. UNCHANGED <<queue, done>>
    BY <1>4 DEF CheckStop, usbVars
  <2>2. Types'
    BY <1>1, <2>1 DEF IInv, Types, TypeOK, callVars
  <2>3. Owners' /\ Data'
    BY <1>1, <2>1, QuietKept DEF IInv
  <2>4. (Exact' <=> Exact) /\ (InPlace' <=> InPlace)
    BY <1>1, <2>1, DataFrame
  <2> QED BY <1>1, <1>2, <2>2, <2>3, <2>4, ThreadKept
<1> QED BY <1>3, <1>4

(* A transfer fails to be submitted: the thread cancels the others and ends. *)
LEMMA GiveUpStep ==
    ASSUME IInv, GiveUp, UNCHANGED <<armed, callVars>>
    PROVE  IInv'
<1>1. /\ UNCHANGED <<gen, trig, pos, unsub, index, drx, dbuf, stop>>
      /\ wpc = "resubmit" /\ wpc' = "ended" /\ CancelAll
  BY DEF GiveUp, deviceVars
<1>2. drx'[gen] >= drx[gen]
  BY <1>1, RunningData, DoneTypes DEF IInv
<1>3. /\ queue' = <<>> /\ done' \in Seq(Events) /\ Len(done') <= Capacity
      /\ \A k \in DOMAIN done' : done'[k].own = gen
      /\ Pending' = {} /\ Data'
  BY <1>1, CancelData
<1>4. Types'
  <2>1. Len(done') \in Nat /\ Len(queue') = 0 /\ queue' \in Seq(1 .. Streams)
    BY <1>3
  <2> QED BY <1>1, <1>3, <2>1 DEF IInv, Types, TypeOK, callVars
<1>5. Owners'
  BY <1>1, <1>3 DEF IInv, Owners
<1> QED BY <1>1, <1>2, <1>3, <1>4, <1>5, ThreadKept

(* The thread leaves its loop. *)
LEMMA EndStep ==
    ASSUME IInv, End, UNCHANGED <<armed, callVars>>
    PROVE  IInv'
<1>1. /\ UNCHANGED <<gen, trig, pos, queue, done, unsub, index, drx, dbuf, stop>>
      /\ wpc = "poll" /\ wpc' = "ended" /\ ~Submitted
  BY DEF End, deviceVars, usbVars
<1>2. drx'[gen] >= drx[gen]
  BY <1>1, RunningData, DoneTypes DEF IInv
<1>3. queue = <<>> /\ done = <<>>
  <2>1. queue \in Seq(1 .. Streams) /\ done \in Seq(Events)
    BY DEF IInv, Types, TypeOK
  <2>2. DOMAIN queue = {} /\ DOMAIN done = {}
    BY <1>1 DEF IInv, Owners, Submitted
  <2>3. Len(queue) = 0 /\ Len(done) = 0
    BY <2>1, <2>2
  <2> QED BY <2>1, <2>3
<1>4. Pending = {} /\ Pending' = {}
  BY <1>1, <1>3 DEF Pending
<1>5. Types'
  BY <1>1 DEF IInv, Types, TypeOK, callVars
<1>6. Owners'
  BY <1>1, <1>3, <1>4 DEF IInv, Owners
<1>7. Data'
  BY <1>1, DataFrame DEF IInv, Data
<1> QED BY <1>1, <1>2, <1>5, <1>6, <1>7, ThreadKept

-----------------------------------------------------------------------------
(* The USB transfers of the user's thread. *)
LEMMA ReapStep ==
    ASSUME IInv, Reap
    PROVE  IInv'
<1>1. /\ UNCHANGED <<gen, trig, pos, unsub, wpc, index, stop, armed>>
      /\ UNCHANGED <<mpc, fast, timeout, result, arms, interrupts>>
      /\ mpc \in UsbPoints /\ done # <<>> /\ Callback(Head(done)) /\ done' = Tail(done)
  BY DEF Reap, ReapElsewhere, deviceVars, callVars
<1>2. /\ gen >= 1
      /\ queue' \in Seq(1 .. Streams) /\ done' \in Seq(Events)
      /\ Len(queue') + Len(done') <= Len(queue) + Len(done)
      /\ \A k \in DOMAIN queue' : queue'[k] = gen
      /\ \A k \in DOMAIN done' : done'[k].own = gen
      /\ drx' \in [1 .. Streams -> 0 .. Dlen] /\ drx'[gen] >= drx[gen]
      /\ \A g \in 1 .. Streams : g > gen => drx'[g] = drx[g]
      /\ dbuf' \in Seq(Bytes) /\ Len(dbuf') = Dlen
      /\ Pending = {} => queue' = queue /\ Pending' = {}
      /\ Sorted' /\ (Exact /\ InPlace => Exact' /\ InPlace') /\ (Lost => Lost')
      /\ Pending = {} => (InPlace => InPlace') /\ drx' = drx
  BY <1>1, CallbackStep DEF IInv
<1>3. gen \in 1 .. Streams /\ drx[gen] \in 0 .. Dlen /\ drx'[gen] \in 0 .. Dlen
      /\ pos \in 0 .. Dlen /\ Dlen \in Nat /\ Streams \in Nat
  <2>1. gen \in 1 .. Streams /\ Streams \in Nat
    BY <1>2, DoneTypes DEF IInv
  <2> QED BY <1>2, <2>1, DoneTypes DEF IInv
<1>4. Types'
  <2>1. Len(queue') + Len(done') <= Capacity
    <3>1. /\ Len(queue) + Len(done) <= Capacity /\ Len(queue) \in Nat /\ Len(done) \in Nat
          /\ Len(queue') \in Nat /\ Len(done') \in Nat
      <4>1. queue \in Seq(1 .. Streams) /\ done \in Seq(Events)
            /\ Len(queue) + Len(done) <= Capacity
        BY DEF IInv, Types, TypeOK
      <4> QED BY <1>2, <4>1
    <3> QED BY <1>2, <3>1, CapacityAssumption
  <2> QED BY <1>1, <1>2, <2>1 DEF IInv, Types, TypeOK, Bytes
<1>5. mpc # "read" /\ ~result.returned
  BY <1>1 DEF IInv, Calls, UsbPoints
<1>6. Calls'
  BY <1>1, <1>2, <1>3, <1>5 DEF IInv, Calls
<1>7. Owners'
  BY <1>1, <1>2 DEF IInv, Owners
<1>8. Data'
  <2>1. CASE wpc = "ended"
    <3>1. Pending = {}
      BY <2>1 DEF IInv, Owners
    <3> QED BY <1>1, <1>2, <2>1, <3>1 DEF IInv, Data
  <2>2. CASE wpc # "ended"
    <3>1. (InPlace' /\ Exact') \/ Lost'
      BY <1>2, <2>2, RunningData
    <3> QED BY <1>1, <1>2, <1>3, <3>1, DataKept
  <2> QED BY <2>1, <2>2
<1>9. Untold'
  BY <1>1, <1>2 DEF IInv, Untold
<1> QED BY <1>4, <1>6, <1>7, <1>8, <1>9 DEF IInv

(* The thread of the next capture, when the last has ended.                *)
LEMMA StartStep ==
    ASSUME IInv, Start
    PROVE  IInv'
<1>1. /\ gen' = gen + 1 /\ pos' = 0 /\ unsub' = 0 /\ index' = 0
      /\ wpc' = "submit" /\ stop' = FALSE /\ mpc' = "armed"
      /\ UNCHANGED <<trig, queue, done, drx, dbuf, armed, fast, timeout, result, arms, interrupts>>
      /\ mpc = "start" /\ wpc = "ended" /\ done = <<>>
  BY DEF Start, NewThread, usbVars, Reaped
<1>2. /\ gen < arms /\ fast /\ ~result.returned /\ queue = <<>> /\ gen \in Nat
      /\ arms \in 0 .. Streams /\ Streams \in Nat
      /\ drx \in [1 .. Streams -> 0 .. Dlen]
      /\ \A g \in 1 .. Streams : g > gen => drx[g] = 0
  BY <1>1, DoneTypes DEF IInv, Calls, Owners, Types
<1>3. gen' \in 1 .. Streams /\ drx[gen'] = 0 /\ gen' <= arms
  BY <1>1, <1>2
<1>4. DOMAIN done' = {} /\ Pending' = {} /\ Len(done') = 0 /\ DOMAIN queue' = {}
  BY <1>1, <1>2 DEF Pending
<1>5. Types'
  <2>1. /\ gen' \in 0 .. Streams /\ pos' \in 0 .. Dlen /\ unsub' \in 0 .. NumTransfers
        /\ index' \in Nat /\ stop' \in BOOLEAN
    <3>1. NumTransfers \in Nat /\ Dlen \in Nat
      BY SomeTransfers, DlenAssumption
    <3>2. 0 \in 0 .. NumTransfers /\ 0 \in 0 .. Dlen
      BY <3>1
    <3>3. gen' \in 0 .. Streams
      BY <1>2, <1>3
    <3> QED BY <1>1, <3>2, <3>3
  <2> QED BY <1>1, <2>1 DEF IInv, Types, TypeOK
<1>6. Calls'
  BY <1>1, <1>2, <1>3 DEF Calls
<1>7. Owners'
  BY <1>1, <1>2, <1>3, <1>4, SomeTransfers DEF Owners
<1>8. Sorted' /\ InPlace' /\ Exact'
  BY <1>1, <1>3, <1>4 DEF Sorted, InPlace, Exact, EndOf
<1>9. Data'
  BY <1>8 DEF Data
<1>10. Untold'
  BY <1>1, <1>2, <1>8 DEF Untold
<1> QED BY <1>5, <1>6, <1>7, <1>9, <1>10 DEF IInv

(* What the device still sends after the thread has ended is read off.     *)
LEMMA JoinStep ==
    ASSUME IInv, Join
    PROVE  IInv'
<1>1. /\ UNCHANGED <<gen, trig, queue, done, unsub, wpc, index, drx, stop, dbuf>>
      /\ UNCHANGED <<fast, timeout, result, arms, interrupts>>
      /\ mpc = "join" /\ mpc' = "read" /\ armed' = FALSE
      /\ wpc = "ended" /\ done = <<>>
      /\ pos' \in IF trig THEN pos .. Max({pos, Dlen}) ELSE {pos}
  BY DEF Join, usbVars, threadVars, Reaped
<1>2. pos \in 0 .. Dlen /\ Dlen \in Nat /\ drx[gen] \in 0 .. Dlen /\ gen >= 1
  <2>1. gen >= 1
    BY <1>1 DEF IInv, Calls
  <2> QED BY <2>1, DoneTypes DEF IInv
<1>3. pos' \in 0 .. Dlen /\ pos <= pos'
  <2>1. Max({pos, Dlen}) = Dlen
    BY <1>2 DEF Max
  <2> QED BY <1>1, <1>2, <2>1
<1>4. Types'
  BY <1>1, <1>3 DEF IInv, Types, TypeOK
<1>5. Calls'
  BY <1>1 DEF IInv, Calls
<1>6. Pending' = {} /\ Pending = {}
  BY <1>1 DEF Pending
<1>7. Owners'
  BY <1>1, <1>6 DEF IInv, Owners
<1>8. Data'
  <2>1. drx'[gen'] <= pos'
    BY <1>1, <1>2, <1>3 DEF IInv, Data, Sorted
  <2>2. Sorted'
    BY <1>6, <2>1 DEF Sorted
  <2>3. InPlace' <=> InPlace
    BY <1>1 DEF InPlace
  <2> QED BY <1>1, <2>2, <2>3 DEF IInv, Data
<1>9. Untold'
  BY <1>1 DEF IInv, Untold
<1> QED BY <1>4, <1>5, <1>7, <1>8, <1>9 DEF IInv

-----------------------------------------------------------------------------
(* Nothing has been captured at first. *)
LEMMA Initially == Init => IInv
<1> SUFFICES ASSUME Init PROVE IInv
  OBVIOUS
<1>1. /\ gen = 0 /\ pos = 0 /\ queue = <<>> /\ done = <<>> /\ unsub = 0 /\ wpc = "ended"
      /\ index = 0 /\ drx = [g \in 1 .. Streams |-> 0] /\ stop = FALSE /\ trig = FALSE
      /\ dbuf = [k \in 1 .. Dlen |-> <<0, 0>>]
      /\ mpc = "idle" /\ armed = FALSE /\ fast = FALSE /\ timeout = FALSE
      /\ result = NoResult /\ arms = 0 /\ interrupts = 0
  BY DEF Init, StreamInit
<1>2. Dlen \in Nat \ {0} /\ Streams \in Nat /\ NumTransfers \in Nat \ {0}
  BY DlenAssumption, StreamsAssumption, SomeTransfers
<1>3. dbuf \in Seq(Bytes) /\ Len(dbuf) = Dlen
  <2>1. <<0, 0>> \in Bytes
    BY <1>2 DEF Bytes
  <2> QED BY <1>1, <1>2, <2>1
<1>4. result \in [returned : BOOLEAN, timeout : BOOLEAN, data : Seq(Bytes)] /\ ~result.returned
  BY <1>1 DEF NoResult
<1>5. queue \in Seq(1 .. Streams) /\ done \in Seq(Events) /\ Len(queue) = 0 /\ Len(done) = 0
      /\ DOMAIN queue = {} /\ DOMAIN done = {} /\ Pending = {}
  BY <1>1 DEF Pending
<1>6. drx \in [1 .. Streams -> 0 .. Dlen] /\ \A g \in 1 .. Streams : drx[g] = 0
  BY <1>1, <1>2
<1>7. Types
  <2>1. gen \in 0 .. Streams /\ pos \in 0 .. Dlen /\ unsub \in 0 .. NumTransfers
        /\ arms \in 0 .. Streams /\ index \in Nat /\ interrupts \in Nat
        /\ Len(queue) + Len(done) <= Capacity
    BY <1>1, <1>2, <1>5, CapacityAssumption
  <2> QED BY <1>1, <1>3, <1>4, <1>5, <1>6, <2>1 DEF Types, TypeOK, Bytes
<1>8. Calls /\ Owners /\ Data /\ Untold
  BY <1>1, <1>4, <1>5, <1>6 DEF Calls, Owners, Data, Untold
<1> QED BY <1>7, <1>8 DEF IInv

(* Every step of the user, the thread and the device keeps the invariant. *)
LEMMA Inductive == IInv /\ [Next]_vars => IInv'
<1> SUFFICES ASSUME IInv, [Next]_vars PROVE IInv'
  OBVIOUS
<1>1. CASE Arm \/ Capture \/ KeyboardInterrupt \/ Trigger \/ Done \/ UNCHANGED vars
  BY <1>1, UserStep DEF Done
<1>2. CASE Call
  BY <1>2, UserStep, StartStep, JoinStep, ReapStep DEF Call
<1>3. CASE Thread /\ UNCHANGED <<armed, callVars>>
  BY <1>3, SubmitStep, HandleEventsStep, IdleStep, CheckStopStep, ResubmitStep, GiveUpStep,
     EndStep DEF Thread
<1>4. CASE Usb /\ UNCHANGED <<armed, callVars>>
  BY <1>4, DeviceStep
<1> QED BY <1>1, <1>2, <1>3, <1>4 DEF Next

(* The strengthened invariant: every byte the device has sent is accounted  *)
(* for, in the buffer, in a callback to come, or as lost for good.          *)
THEOREM Invariance == Spec => []IInv
BY Initially, Inductive, PTL DEF Spec

(* No count of bytes or transfers leaves its range: the buffer never grows  *)
(* and the kernel is never handed more transfers than it takes, a failed    *)
(* one submitted again in its own callback included.                        *)
THEOREM StreamTypes == Spec => []TypeOK
<1>1. IInv => TypeOK
  BY DEF IInv, Types
<1> QED BY <1>1, Invariance, PTL

(* A capture() without a timeout has read the whole of its own stream,      *)
(* whichever transfers failed or were kept for later and whichever captures *)
(* before it were interrupted.                                              *)
THEOREM GoodCaptureIsWhole == Spec => []OkMeansWhole
<1>1. IInv => OkMeansWhole
  BY DEF IInv, Calls, OkMeansWhole
<1> QED BY <1>1, Invariance, PTL

(* What a thread nobody told to stop has counted is in the buffer in order. *)
THEOREM BytesInOrder == Spec => []InOrder
<1>1. IInv => InOrder
  <2> SUFFICES ASSUME IInv, wpc # "ended", ~timeout, interrupts = 0
               PROVE  InPlace
    BY DEF InOrder, InPlace
  <2> QED BY DEF IInv, Untold
<1> QED BY <1>1, Invariance, PTL

(* Nothing of a capture that has returned can reach the buffer of the next. *)
THEOREM NothingLeft == Spec => []NothingInFlight
<1>1. IInv => NothingInFlight
  BY DEF IInv, Calls, Owners, NothingInFlight
<1> QED BY <1>1, Invariance, PTL

(* The registers are readable for the arm() after a capture() that returned. *)
THEOREM ArmAfterCapture == Spec => ArmWorksAfterCapture
<1>1. IInv => (Arm /\ result.returned => ~fast)
  BY DEF IInv, Calls
<1>2. IInv /\ [Next]_vars => [Arm /\ result.returned => ~fast]_vars
  BY <1>1
<1> QED BY <1>2, Invariance, PTL DEF Spec, ArmWorksAfterCapture

-----------------------------------------------------------------------------
(* While the user's thread makes no USB call, only the thread itself calls  *)
(* callbacks, and as long as it keeps transfers for later others are under  *)
(* way: there was no room for these.  Once it has passed the first of its   *)
(* list in the second loop, that one is among them.                         *)
Waits == mpc \in {"arm", "armed", "poll", "slept"}
Kept ==
    interrupts = 0 /\ Waits /\ unsub > 0 =>
        (wpc \in {"submit", "poll"} \/ (wpc = "resubmit" /\ index > 1)
            => queue # <<>> \/ done # <<>>)

(* A kernel that has no room holds transfers. *)
LEMMA NoRoom ==
    ASSUME IInv, ~Fits
    PROVE  queue # <<>> \/ done # <<>>
<1>1. Capacity \in Nat \ {0}
  BY CapacityAssumption
<1>2. Len(<<>>) = 0
  OBVIOUS
<1> QED BY <1>1, <1>2 DEF Fits

(* While the thread runs and nothing was interrupted, a user's thread that  *)
(* makes USB calls has timed out or has all it waits for.                   *)
LEMMA CallsWhileRunning ==
    ASSUME IInv, interrupts = 0, wpc # "ended"
    PROVE  /\ Waits \/ timeout \/ isDone
           /\ Waits => fast /\ mpc # "idle"
<1>1. fast \/ mpc = "join"
  BY DEF IInv, Untold
<1>2. mpc \notin {"idle", "fast", "start", "read"}
  BY <1>1 DEF IInv, Untold, Calls
<1> QED BY <1>1, <1>2 DEF IInv, Types, Calls, Waits, isDone

(* Every step keeps what is kept. *)
LEMMA KeptStep ==
    ASSUME IInv, Kept, [Next]_vars
    PROVE  Kept'
<1> SUFFICES ASSUME interrupts' = 0, Waits', unsub' > 0,
                    wpc' \in {"submit", "poll"} \/ (wpc' = "resubmit" /\ index' > 1)
             PROVE  queue' # <<>> \/ done' # <<>>
  BY DEF Kept
<1>1. CASE Thread /\ UNCHANGED <<armed, callVars>>
  <2>1. interrupts = 0 /\ Waits
    BY <1>1 DEF callVars, Waits
  <2>2. CASE Submit
    <3>1. CASE Fits
      <4>1. queue' = Append(queue, gen)
        BY <2>2, <3>1 DEF Submit
      <4>2. queue \in Seq(1 .. Streams)
        BY DEF IInv, Types, TypeOK
      <4> QED BY <4>1, <4>2
    <3>2. CASE ~Fits
      BY <2>2, <3>2, NoRoom DEF Submit
    <3> QED BY <3>1, <3>2
  <2>3. CASE HandleEvents \/ Interrupted \/ CheckStop \/ GiveUp \/ End
    BY <2>3 DEF HandleEvents, Interrupted, CheckStop, GiveUp, End
  <2>4. CASE Resubmit
    <3>1. queue' = Append(queue, gen) /\ queue \in Seq(1 .. Streams)
      BY <2>4 DEF Resubmit, IInv, Types, TypeOK
    <3> QED BY <3>1
  <2>5. CASE ResubmitLater
    BY <2>5, NoRoom DEF ResubmitLater, usbVars
  <2>6. CASE PollAgain
    <3>1. UNCHANGED <<queue, done, unsub, index>> /\ wpc = "resubmit" /\ index > unsub
      BY <2>6 DEF PollAgain, usbVars
    <3>2. index \in Nat /\ unsub \in Nat
      BY SomeTransfers DEF IInv, Types, TypeOK
    <3>3. index > 1
      BY <3>1, <3>2
    <3> QED BY <2>1, <3>1, <3>3 DEF Kept
  <2> QED BY <1>1, <2>2, <2>3, <2>4, <2>5, <2>6 DEF Thread
<1>2. CASE Usb /\ UNCHANGED <<armed, callVars>>
  <2>1. PICK status \in {"completed", "error"}, n \in 0 .. Dlen : Finish(status, n)
    <3>1. CASE Deliver
      <4>1. pos \in 0 .. Dlen /\ Dlen \in Nat \ {0} /\ Segment \in Nat \ {0}
        BY DlenAssumption, SegmentAssumption, DoneTypes DEF IInv
      <4>2. pos < Dlen /\ Finish("completed", Min({Segment, Dlen - pos}))
        BY <3>1 DEF Deliver
      <4>3. Min({Segment, Dlen - pos}) \in 0 .. Dlen
        BY <4>1, <4>2 DEF Min
      <4> QED BY <4>2, <4>3
    <3>2. CASE Glitch
      <4>1. Finish("error", 1) \/ Finish("error", 0)
        BY <3>2 DEF Glitch
      <4> QED BY <4>1, DlenAssumption
    <3> QED BY <1>2, <3>1, <3>2 DEF Usb
  <2>2. done \in Seq(Events)
    BY DEF IInv, Types, TypeOK
  <2> QED BY <2>1, <2>2 DEF Finish
<1>3. CASE Reap
  <2>1. wpc # "ended" /\ interrupts = 0 /\ Waits
    BY <1>3 DEF Reap, ReapElsewhere, callVars, Waits
  <2> QED BY <1>3, <2>1, CallsWhileRunning DEF Reap, UsbPoints, Waits
<1>4. CASE Start
  BY <1>4 DEF Start, NewThread
<1>5. CASE KeyboardInterrupt
  BY <1>5 DEF KeyboardInterrupt, IInv, Types
<1>6. CASE Arm
  <2>1. UNCHANGED <<queue, done, wpc, unsub, index, interrupts>>
    BY <1>6 DEF Arm, streamVars, usbVars, threadVars
  <2>2. wpc # "ended" => Waits
    BY <1>6, <2>1, CallsWhileRunning DEF Arm, IInv, Calls, Untold, Waits
  <2> QED BY <2>1, <2>2 DEF Kept
<1>7. CASE ArmRaises \/ Capture \/ PollSleep \/ PollMore \/ Trigger \/ Done \/ UNCHANGED vars
  <2>1. UNCHANGED <<queue, done, wpc, unsub, index, interrupts>>
    BY <1>7 DEF ArmRaises, Capture, PollSleep, PollMore, Trigger, Done, vars, streamVars, usbVars,
       threadVars, callVars
  <2>2. Waits
    BY <1>7 DEF ArmRaises, Capture, PollSleep, PollMore, Trigger, Done, vars, callVars, Waits
  <2> QED BY <2>1, <2>2 DEF Kept
<1>8. CASE ArmScope \/ FastOn \/ PollDone \/ TimesOut \/ TriggerNow \/ Stop \/ FastOff \/ Join \/ Read
  BY <1>8 DEF ArmScope, FastOn, PollDone, TimesOut, TriggerNow, Stop, FastOff, Join, Read, Waits
<1> QED BY <1>1, <1>2, <1>3, <1>4, <1>5, <1>6, <1>7, <1>8 DEF Next, Call

(* As long as bytes are missing a thread nobody has told to stop does not   *)
(* leave its loop with a transfer it has kept for later still unsubmitted   *)
(* (naeusb.py:976-1010).                                                    *)
THEOREM NothingForgotten == Spec => NoneForgotten
<1>1. Init => Kept
  BY DEF Init, StreamInit, Kept
<1>2. IInv /\ Kept /\ [Next]_vars => Kept'
  BY KeptStep
<1>3. IInv /\ Kept => (End /\ ~timeout /\ interrupts = 0 /\ ~isDone => unsub = 0)
  <2> SUFFICES ASSUME IInv, Kept, End, ~timeout, interrupts = 0, ~isDone PROVE unsub = 0
    OBVIOUS
  <2>1. wpc = "poll" /\ ~Submitted
    BY DEF End
  <2>2. Waits
    BY <2>1, CallsWhileRunning
  <2>3. DOMAIN queue = {} /\ DOMAIN done = {}
    BY <2>1 DEF IInv, Owners, Submitted
  <2>4. queue = <<>> /\ done = <<>>
    <3>1. queue \in Seq(1 .. Streams) /\ done \in Seq(Events)
      BY DEF IInv, Types, TypeOK
    <3>2. Len(queue) = 0 /\ Len(done) = 0
      BY <2>3, <3>1
    <3> QED BY <3>1, <3>2
  <2>5. ~(unsub > 0)
    BY <2>1, <2>2, <2>4 DEF Kept
  <2>6. unsub \in 0 .. NumTransfers
    BY DEF IInv, Types, TypeOK
  <2> QED BY <2>5, <2>6, SomeTransfers
<1>4. IInv /\ Kept /\ [Next]_vars
        => [End /\ ~timeout /\ interrupts = 0 /\ ~isDone => unsub = 0]_vars
  BY <1>3
<1> QED BY <1>1, <1>2, <1>4, Invariance, PTL DEF Spec, NoneForgotten
=============================================================================
