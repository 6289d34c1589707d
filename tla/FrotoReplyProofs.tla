-------------------------- MODULE FrotoReplyProofs --------------------------
(***************************************************************************)
(* Proofs about module FrotoReply, for any number of waveforms, blocks and *)
(* retries, any limit on the registry and every combination of faults: its *)
(* type invariant; that the entry a request waits on is registered for as  *)
(* long as it is used; that a short request never succeeds without its     *)
(* reply; and what waveforms that reach the database look like.            *)
(***************************************************************************)
EXTENDS FrotoReply, LeastElement, SequenceTheorems, TLAPS

\* The places from the registration of a request to what its return leads to.
Busy == {"send", "lock", "armed", "wait", "pop", "after", "check", "arm"}

-----------------------------------------------------------------------------
(* The registry                                                            *)

\* The entry with a number that is registered.
LEMMA EntryFound ==
  ASSUME RegistryType, NEW s, Registered(s)
  PROVE  /\ At(s) \in 1..Len(reply_ack_queue)
         /\ reply_ack_queue[At(s)] \in Entry
         /\ reply_ack_queue[At(s)].seq = s
         /\ Msgs(s) = reply_ack_queue[At(s)].msgs
         /\ Msgs(s) \in Seq(Block)
<1>1. At(s) \in EntryAt(reply_ack_queue, s)
  BY DEF Registered, At
<1>2. At(s) \in 1..Len(reply_ack_queue) /\ reply_ack_queue[At(s)].seq = s
  BY <1>1 DEF EntryAt
<1>3. reply_ack_queue[At(s)] \in Entry
  BY <1>2 DEF RegistryType
<1> QED BY <1>2, <1>3 DEF Msgs, Entry

\* Changing what is queued at an entry changes nothing else.
LEMMA Requeued ==
  ASSUME RegistryType, NEW s, Registered(s), NEW m \in Seq(Block),
         NEW q, q = WithMsgs(s, m)
  PROVE  /\ q \in Seq(Entry) /\ Len(q) = Len(reply_ack_queue)
         /\ \A k \in 1..Len(q) : /\ q[k].seq = reply_ack_queue[k].seq
                                 /\ q[k].prim = reply_ack_queue[k].prim
         /\ q[At(s)].msgs = m
         /\ \A k \in 1..Len(q) : k # At(s) => q[k] = reply_ack_queue[k]
<1> DEFINE r == reply_ack_queue
           a == At(s)
<1>1. a \in 1..Len(r) /\ r[a] \in Entry /\ r \in Seq(Entry)
  BY EntryFound DEF RegistryType
<1>2. q = [r EXCEPT ![a] = [r[a] EXCEPT !.msgs = m]]
  BY DEF WithMsgs
<1> HIDE DEF r, a
<1>3. [r[a] EXCEPT !.msgs = m] \in Entry
  BY <1>1 DEF Entry
<1>4. q \in Seq(Entry) /\ Len(q) = Len(r)
  BY <1>1, <1>2, <1>3, ExceptSeq
<1>5. \A k \in 1..Len(q) : q[k] = IF k = a THEN [r[a] EXCEPT !.msgs = m] ELSE r[k]
  BY <1>1, <1>2, <1>4
<1>6. [r[a] EXCEPT !.msgs = m].seq = r[a].seq
      /\ [r[a] EXCEPT !.msgs = m].prim = r[a].prim
      /\ [r[a] EXCEPT !.msgs = m].msgs = m
  BY <1>1 DEF Entry
<1> QED BY <1>1, <1>4, <1>5, <1>6 DEF r, a

\* Removing a position moves the others up.
LEMMA Removed ==
  ASSUME NEW S, NEW q \in Seq(S), NEW k \in 1..Len(q),
         NEW r, r = RemovePosition(q, k)
  PROVE  /\ r \in Seq(S) /\ Len(r) = Len(q) - 1
         /\ \A j \in 1..Len(r) : r[j] = IF j < k THEN q[j] ELSE q[j + 1]
<1> DEFINE s == SubSeq(q, 1, k - 1)
           t == SubSeq(q, k + 1, Len(q))
<1>1. /\ s \in Seq(S) /\ Len(s) = k - 1
      /\ \A j \in 1..k - 1 : s[j] = q[j]
  BY SubSeqProperties
<1>2. /\ t \in Seq(S) /\ Len(t) = Len(q) - k
      /\ \A j \in 1..Len(q) - k : t[j] = q[k + j]
  BY SubSeqProperties
<1>3. r = s \o t
  BY DEF RemovePosition
<1> HIDE DEF s, t
<1>4. /\ r \in Seq(S) /\ Len(r) = Len(s) + Len(t)
      /\ \A j \in 1..Len(s) + Len(t) :
           r[j] = IF j <= Len(s) THEN s[j] ELSE t[j - Len(s)]
  <2>1. s \in Seq(S) /\ t \in Seq(S)
    BY <1>1, <1>2
  <2> QED BY <1>3, <2>1, ConcatProperties, Zenon
<1> QED BY <1>1, <1>2, <1>4

\* unregisterReplyAck leaves entries that were there, in their order.
LEMMA Unregistered ==
  ASSUME RegistryType, NEW s, NEW q, q = Unregister(s)
  PROVE  /\ q \in Seq(Entry)
         /\ \E f \in [1..Len(q) -> 1..Len(reply_ack_queue)] :
              /\ \A j \in 1..Len(q) : q[j] = reply_ack_queue[f[j]]
              /\ \A i, j \in 1..Len(q) : i # j => f[i] # f[j]
<1>1. CASE ~Registered(s)
  <2>1. q = reply_ack_queue
    BY <1>1 DEF Unregister
  <2> DEFINE f == [j \in 1..Len(q) |-> j]
  <2>2. f \in [1..Len(q) -> 1..Len(reply_ack_queue)]
    BY <2>1
  <2>3. /\ \A j \in 1..Len(q) : q[j] = reply_ack_queue[f[j]]
        /\ \A i, j \in 1..Len(q) : i # j => f[i] # f[j]
    BY <2>1
  <2> HIDE DEF f
  <2> QED BY <2>1, <2>2, <2>3 DEF RegistryType
<1>2. CASE Registered(s)
  <2> DEFINE a == At(s)
  <2>1. a \in 1..Len(reply_ack_queue) /\ reply_ack_queue \in Seq(Entry)
    BY <1>2, EntryFound DEF RegistryType
  <2>2. q = RemovePosition(reply_ack_queue, a)
    BY <1>2 DEF Unregister
  <2> HIDE DEF a
  <2>3. /\ q \in Seq(Entry) /\ Len(q) = Len(reply_ack_queue) - 1
        /\ \A j \in 1..Len(q) :
             q[j] = IF j < a THEN reply_ack_queue[j] ELSE reply_ack_queue[j + 1]
    BY <2>1, <2>2, Removed
  <2> DEFINE f == [j \in 1..Len(q) |-> IF j < a THEN j ELSE j + 1]
  <2>4. f \in [1..Len(q) -> 1..Len(reply_ack_queue)]
    BY <2>1, <2>3
  <2>5. /\ \A j \in 1..Len(q) : q[j] = reply_ack_queue[f[j]]
        /\ \A i, j \in 1..Len(q) : i # j => f[i] # f[j]
    BY <2>1, <2>3
  <2> HIDE DEF f
  <2> QED BY <2>3, <2>4, <2>5
<1> QED BY <1>1, <1>2

\* registerReplyAck adds an entry without messages at the end.
LEMMA Added ==
  ASSUME RegistryType, NEW s \in SeqNo, NEW p \in Prim,
         NEW q, q = Register(s, p)
  PROVE  /\ q \in Seq(Entry) /\ Len(q) = Len(reply_ack_queue) + 1
         /\ \A k \in 1..Len(reply_ack_queue) : q[k] = reply_ack_queue[k]
         /\ q[Len(q)] = [seq |-> s, prim |-> p, msgs |-> <<>>]
<1>1. [seq |-> s, prim |-> p, msgs |-> <<>>] \in Entry
  BY DEF Entry
<1> QED BY <1>1, AppendProperties DEF Register, RegistryType

\* The first entry that a message acknowledges.
LEMMA HitFound ==
  ASSUME NEW acks, NEW p, Hits(acks, p) # {}
  PROVE  FirstHit(acks, p) \in Hits(acks, p)
<1>1. Hits(acks, p) \in SUBSET Nat
  BY DEF Hits
<1> QED BY <1>1, LeastExists DEF FirstHit

-----------------------------------------------------------------------------
(* Numbers, places and types                                               *)

\* A session has used no more numbers than its items and attempts so far allow.
SeqBound ==
  seq <= FirstSeq + item * (Retry + 1) + attempt
           + (IF pc = "start" THEN 0 ELSE 1)

\* A wait that has not timed out has ended by the flag.
DoneWhenOk == pc \in {"pop", "after"} /\ rt => is_op_done

\* The second half is entered with the first block in the buffer.
HasBuffer ==
  /\ pc = "send" => call # "second"
  /\ pc \in {"check", "arm"} => call = "second"
  /\ call = "second" /\ pc \in Busy => readBuf # NoMsg

\* The receiving thread's record has its three fields.
RxForm == rx = [pc |-> rx.pc, acks |-> rx.acks, prim |-> rx.prim]

BaseInv == TypeOK /\ SeqBound /\ EntryKept /\ DoneWhenOk /\ HasBuffer /\ RxForm

\* The next item begins where the retries of this one end.
LEMMA NextItem ==
  ASSUME NEW i \in Nat, NEW a \in 0..Retry
  PROVE  /\ i * (Retry + 1) \in Nat
         /\ i * (Retry + 1) + a + 1 <= (i + 1) * (Retry + 1)
<1>1. Retry \in Nat
  BY LimitsAssumption
<1>2. (i + 1) * (Retry + 1) = i * (Retry + 1) + (Retry + 1)
  BY <1>1
<1> QED BY <1>1, <1>2

\* No item passes the end of the session's numbers.
LEMMA WithinSession ==
  ASSUME NEW i \in 0..Items, NEW a \in 0..Retry
  PROVE  FirstSeq + i * (Retry + 1) + a + 1 <= LastSeq
<1>1. Retry \in Nat /\ Items \in Nat /\ FirstSeq \in Nat
  BY LimitsAssumption, ItemsAssumption
<1>2. (i + 1) * (Retry + 1) <= (Items + 1) * (Retry + 1)
  <2>1. PICK d \in Nat : Items = i + d
    BY <1>1
  <2>2. (i + 1 + d) * (Retry + 1) = (i + 1) * (Retry + 1) + d * (Retry + 1)
    BY <1>1
  <2>3. d * (Retry + 1) >= 0
    BY <1>1
  <2>4. (i + 1) * (Retry + 1) \in Nat /\ d * (Retry + 1) \in Nat
    BY <1>1
  <2>5. Items + 1 = i + 1 + d
    BY <1>1, <2>1
  <2> QED BY <2>2, <2>3, <2>4, <2>5
<1>3. i * (Retry + 1) \in Nat /\ i * (Retry + 1) + a + 1 <= (i + 1) * (Retry + 1)
  BY NextItem
<1>4. (i + 1) * (Retry + 1) \in Nat /\ (Items + 1) * (Retry + 1) \in Nat
  BY <1>1
<1> QED BY <1>1, <1>2, <1>3, <1>4 DEF LastSeq

\* A retry, or the end after the last one.
LEMMA AgainCounts ==
  ASSUME CountType, Again, seq' \in Nat,
         seq' <= FirstSeq + item * (Retry + 1) + attempt + 1
  PROVE  /\ CountType' /\ SeqBound' /\ pc' \in {"start", "end"}
         /\ stored' = stored /\ item' = item
<1>1. Retry \in Nat /\ FirstSeq \in Nat /\ item \in Nat /\ attempt \in 0..Retry
  BY LimitsAssumption, ItemsAssumption DEF CountType
<1>2. item * (Retry + 1) \in Nat
  BY <1>1, NextItem
<1>3. item' = item /\ stored' = stored
  BY DEF Again
<1>4. CASE attempt < Retry
  BY <1>1, <1>2, <1>3, <1>4 DEF Again, CountType, SeqBound
<1>5. CASE ~(attempt < Retry)
  BY <1>1, <1>2, <1>3, <1>5 DEF Again, CountType, SeqBound
<1> QED BY <1>4, <1>5

\* The next item, or the end after the last one.
LEMMA AdvanceCounts ==
  ASSUME CountType, seq \in Nat, SeqBound, NEW db, Advance(db), seq' = seq
  PROVE  /\ CountType' /\ SeqBound' /\ pc' \in {"start", "end"}
         /\ stored' = db /\ item' >= item
<1>1. /\ Retry \in Nat /\ FirstSeq \in Nat /\ Items \in Nat
      /\ item \in 0..Items /\ attempt \in 0..Retry
  BY LimitsAssumption, ItemsAssumption DEF CountType
<1>2. /\ item * (Retry + 1) \in Nat
      /\ item * (Retry + 1) + attempt + 1 <= (item + 1) * (Retry + 1)
      /\ (item + 1) * (Retry + 1) \in Nat
  BY <1>1, NextItem
<1>3. CASE item < Items
  BY <1>1, <1>2, <1>3 DEF Advance, CountType, SeqBound
<1>4. CASE ~(item < Items)
  BY <1>1, <1>2, <1>4 DEF Advance, CountType, SeqBound
<1> QED BY <1>3, <1>4 DEF Advance

\* Outside of a request nothing is asked of the registry and the buffer.
LEMMA OutsideBusy ==
  ASSUME pc' \notin Busy
  PROVE  EntryKept' /\ DoneWhenOk' /\ HasBuffer'
BY DEF EntryKept, DoneWhenOk, HasBuffer, Busy

\* The numbers of a session are natural.
LEMMA SeqNat == ASSUME TypeOK PROVE seq \in Nat /\ seq \in Int
BY LimitsAssumption DEF TypeOK, CallType, SeqNo

\* A session starts with the first number and an empty registry.
LEMMA InitBase == Init => BaseInv
<1> SUFFICES ASSUME Init
             PROVE  BaseInv
  OBVIOUS
<1> USE DEF Init
<1>1. FirstSeq \in SeqNo /\ 0 * (Retry + 1) = 0 /\ FirstSeq \in Nat
  <2>0. 0 \in 0..Items /\ 0 \in 0..Retry
    BY LimitsAssumption, ItemsAssumption
  <2>1. FirstSeq + 0 * (Retry + 1) + 0 + 1 <= LastSeq
    BY <2>0, WithinSession, Zenon
  <2>2. 0 * (Retry + 1) = 0 /\ FirstSeq \in Nat
    BY LimitsAssumption
  <2>3. LastSeq \in Nat
    BY LimitsAssumption, ItemsAssumption DEF LastSeq
  <2> QED BY <2>1, <2>2, <2>3 DEF SeqNo
<1>2. RegistryType /\ LinkType /\ CondType /\ RxType /\ RxForm
  <2>1. RegistryType /\ LinkType
    BY EmptySeq DEF RegistryType, LinkType
  <2>2. CondType /\ RxType /\ RxForm
    BY DEF CondType, RxType, RxForm, Quiet
  <2> QED BY <2>1, <2>2
<1>3. CallType
  BY <1>1 DEF CallType
<1>4. CountType
  BY LimitsAssumption, ItemsAssumption DEF CountType
<1>5. DataType
  BY EmptySeq DEF DataType
<1>6. SeqBound
  BY <1>1 DEF SeqBound
<1>7. EntryKept /\ DoneWhenOk /\ HasBuffer
  BY DEF EntryKept, DoneWhenOk, HasBuffer, Busy
<1> QED BY <1>2, <1>3, <1>4, <1>5, <1>6, <1>7 DEF BaseInv, TypeOK

-----------------------------------------------------------------------------
(* The steps of the thread of the sensor                                   *)

\* Next item without a request.
LEMMA SkipKnownBase == BaseInv /\ SkipKnown => BaseInv'
<1> SUFFICES ASSUME BaseInv, SkipKnown
             PROVE  BaseInv'
  OBVIOUS
<1> USE DEF condvar, request
<1>1. CountType' /\ SeqBound' /\ pc' \in {"start", "end"} /\ stored' = stored
  BY AdvanceCounts, SeqNat DEF BaseInv, TypeOK, SkipKnown
<1>2. EntryKept' /\ DoneWhenOk' /\ HasBuffer'
  BY <1>1, OutsideBusy DEF Busy
<1>3. DataType'
  BY <1>1 DEF BaseInv, TypeOK, DataType, SkipKnown
<1>4. CallType'
  BY <1>1 DEF BaseInv, TypeOK, CallType, SkipKnown
<1> QED BY <1>1, <1>2, <1>3, <1>4
        DEF BaseInv, TypeOK, RegistryType, CondType, RxType, RxForm, LinkType, SkipKnown

\* The number of a new request is one of the session's.
LEMMA RequestNumber ==
  ASSUME BaseInv, Request
  PROVE  /\ seq' = seq + 1 /\ seq' \in SeqNo /\ seq' \in Nat
         /\ seq' <= FirstSeq + item * (Retry + 1) + attempt + 1
<1>1. /\ seq \in SeqNo /\ seq \in Nat /\ FirstSeq \in Nat
      /\ item \in 0..Items /\ attempt \in 0..Retry
  BY SeqNat, LimitsAssumption DEF BaseInv, TypeOK, CallType, CountType
<1>2. pc = "start" /\ seq' = seq + 1
  BY DEF Request
<1>3. item * (Retry + 1) \in Nat
  BY <1>1, NextItem, ItemsAssumption
<1>4. FirstSeq + item * (Retry + 1) + attempt + 1 <= LastSeq
  BY <1>1, WithinSession
<1>5. LastSeq \in Nat
  BY LimitsAssumption, ItemsAssumption DEF LastSeq
<1>6. seq <= FirstSeq + item * (Retry + 1) + attempt
  BY <1>1, <1>2, <1>3 DEF BaseInv, SeqBound
<1> QED BY <1>1, <1>2, <1>3, <1>4, <1>5, <1>6 DEF SeqNo

\* A request is registered, or the registry is full.
LEMMA RequestBase == BaseInv /\ Request => BaseInv'
<1> SUFFICES ASSUME BaseInv, Request
             PROVE  BaseInv'
  OBVIOUS
<1> USE DEF progress
<1>1. /\ seq' = seq + 1 /\ seq' \in SeqNo /\ seq' \in Nat
      /\ seq' <= FirstSeq + item * (Retry + 1) + attempt + 1
  BY RequestNumber
<1>2. CondType' /\ RxType' /\ RxForm' /\ LinkType'
  BY DEF BaseInv, TypeOK, CondType, RxType, RxForm, LinkType, Request, Reset
<1>3. call' \in {"short", "first"} /\ readBuf' = NoMsg /\ rt' = rt
      /\ skip_pkt_fg' = FALSE
      /\ UNCHANGED <<totalBlock, blkCnt, file>>
  BY DEF Request
<1>4. CASE Again /\ UNCHANGED reply_ack_queue
  <2>1. /\ CountType' /\ SeqBound' /\ pc' \in {"start", "end"}
        /\ stored' = stored
    BY <1>1, <1>4, AgainCounts DEF BaseInv, TypeOK
  <2>2. EntryKept' /\ DoneWhenOk' /\ HasBuffer'
    BY <2>1, OutsideBusy DEF Busy
  <2>3. DataType' /\ CallType' /\ RegistryType'
    BY <1>1, <1>3, <1>4, <2>1
       DEF BaseInv, TypeOK, DataType, CallType, RegistryType
  <2> QED BY <1>2, <2>1, <2>2, <2>3 DEF BaseInv, TypeOK
<1>5. CASE /\ reply_ack_queue' =
                Register(seq', IF item = 0 THEN "SIMPLE_UPLOAD"
                                           ELSE "SIMPLE_BULK_UPLOAD")
           /\ pc' = "send" /\ UNCHANGED progress
  <2>1. PICK p \in Prim : reply_ack_queue' = Register(seq', p)
    BY <1>5 DEF Prim
  <2>2. /\ reply_ack_queue' \in Seq(Entry)
        /\ Len(reply_ack_queue') \in 1..Len(reply_ack_queue')
        /\ reply_ack_queue'[Len(reply_ack_queue')].seq = seq'
    <3>1. RegistryType
      BY DEF BaseInv, TypeOK
    <3>2. /\ reply_ack_queue' \in Seq(Entry)
          /\ Len(reply_ack_queue') = Len(reply_ack_queue) + 1
          /\ reply_ack_queue'[Len(reply_ack_queue')]
               = [seq |-> seq', prim |-> p, msgs |-> <<>>]
      BY <1>1, <2>1, <3>1, Added
    <3> QED BY <3>1, <3>2 DEF RegistryType
  <2>3. EntryKept'
    BY <2>2 DEF EntryKept, Registered, EntryAt
  <2>4. DoneWhenOk' /\ HasBuffer'
    BY <1>3, <1>5 DEF DoneWhenOk, HasBuffer
  <2>5. SeqBound' /\ CountType'
    BY <1>1, <1>5 DEF BaseInv, TypeOK, SeqBound, CountType
  <2>6. DataType' /\ CallType' /\ RegistryType'
    BY <1>1, <1>3, <1>5, <2>2
       DEF BaseInv, TypeOK, DataType, CallType, RegistryType
  <2> QED BY <1>2, <2>3, <2>4, <2>5, <2>6 DEF BaseInv, TypeOK
<1> QED BY <1>4, <1>5 DEF Request

\* A message of the sensor.
LEMMA ReplyType ==
  ASSUME BaseInv, pc = "send",
         NEW n \in IF call = "short" THEN {1} ELSE Totals, NEW acks \in Acks
  PROVE  /\ Reply(n, acks) \in Seq(Message) /\ Len(Reply(n, acks)) = n
         /\ \A k \in 1..n :
              Reply(n, acks)[k] =
                [prim |-> IF call = "short" THEN "SIMPLE_UPLOAD"
                                            ELSE "SIMPLE_BULK_UPLOAD",
                 acks |-> acks, of |-> seq, blk |-> k - 1, total |-> n]
<1> DEFINE pm == IF call = "short" THEN "SIMPLE_UPLOAD" ELSE "SIMPLE_BULK_UPLOAD"
           e(k) == [prim |-> pm, acks |-> acks, of |-> seq, blk |-> k - 1,
                    total |-> n]
           r == Reply(n, acks)
<1>1. n \in Nat /\ n \in Totals \cup {1} /\ seq \in SeqNo /\ seq \in Int
  BY TotalsAssumption, SeqNat DEF BaseInv, TypeOK, CallType
<1>2. acks \in Seq(Int)
  <2>1. acks = <<seq>> \/ acks = <<seq - 1, seq>>
    BY DEF Acks
  <2>2. <<seq>> \in Seq(Int)
    BY <1>1
  <2>3. <<seq - 1, seq>> \in Seq(Int)
    BY <1>1
  <2> QED BY <2>1, <2>2, <2>3
<1>3. r = [k \in 1..n |-> e(k)]
  BY DEF Reply
<1>4. pm \in Prim
  BY DEF Prim
<1> HIDE DEF r, pm
<1>5. \A k \in 1..n : e(k) \in Message
  BY <1>1, <1>2, <1>4 DEF Message
<1>6. r \in Seq(Message) /\ Len(r) = n
  BY <1>1, <1>3, <1>5
<1>7. \A k \in 1..n : r[k] = e(k)
  BY <1>3
<1> QED BY <1>6, <1>7 DEF r, pm

\* The parts of BaseInv that a step within a request leaves alone.
LEMMA SameRequest ==
  ASSUME BaseInv, UNCHANGED <<seq, call, readBuf, item, attempt, ret, totalBlock,
                              blkCnt, skip_pkt_fg, file, stored>>,
         pc \in Busy, pc' \in Busy, pc' # "send", rt' \in BOOLEAN,
         pc' \in {"check", "arm"} => call = "second",
         \E k \in 1..Len(reply_ack_queue') : reply_ack_queue'[k].seq = seq
  PROVE  SeqBound' /\ EntryKept' /\ HasBuffer' /\ CallType' /\ CountType' /\ DataType'
<1>1. SeqBound' /\ CountType'
  BY DEF BaseInv, TypeOK, SeqBound, CountType, Busy
<1>2. EntryKept'
  BY DEF EntryKept, Registered, EntryAt
<1>3. HasBuffer'
  BY DEF BaseInv, HasBuffer, Busy
<1>4. CallType' /\ DataType'
  BY DEF BaseInv, TypeOK, CallType, DataType, Busy
<1> QED BY <1>1, <1>2, <1>3, <1>4

\* The entry of a request is where EntryKept says.
LEMMA Kept ==
  ASSUME BaseInv, pc \in Busy
  PROVE  /\ Registered(seq)
         /\ \E k \in 1..Len(reply_ack_queue) : reply_ack_queue[k].seq = seq
BY DEF BaseInv, EntryKept, Busy, Registered, EntryAt

\* The request goes out and the sensor answers.
LEMMA SendBase == BaseInv /\ Send => BaseInv'
<1> SUFFICES ASSUME BaseInv, Send
             PROVE  BaseInv'
  OBVIOUS
<1> USE DEF condvar, request, locals, progress
<1>1. PICK n \in IF call = "short" THEN {1} ELSE Totals, acks \in Acks :
        link' = link \o Reply(n, acks)
  BY DEF Send
<1>2. LinkType'
  <2>1. Reply(n, acks) \in Seq(Message) /\ link \in Seq(Message)
    BY <1>1, ReplyType DEF Send, BaseInv, TypeOK, LinkType
  <2>2. link \o Reply(n, acks) \in Seq(Message)
    BY <2>1, ConcatProperties, Zenon
  <2> QED BY <1>1, <2>2 DEF LinkType
<1>3. SeqBound' /\ EntryKept' /\ HasBuffer' /\ CallType' /\ CountType' /\ DataType'
  BY SameRequest, Kept DEF Send, Busy, BaseInv, TypeOK, CallType
<1> QED BY <1>2, <1>3
        DEF BaseInv, TypeOK, Send, RegistryType, CondType, RxType, RxForm, DoneWhenOk

\* It cannot be sent.
LEMMA SendFailsBase == BaseInv /\ SendFails => BaseInv'
<1> SUFFICES ASSUME BaseInv, SendFails
             PROVE  BaseInv'
  OBVIOUS
<1> USE DEF condvar, request, locals
<1>1. /\ CountType' /\ SeqBound' /\ pc' \in {"start", "end"}
      /\ stored' = stored
  BY AgainCounts, SeqNat DEF SendFails, BaseInv, TypeOK, SeqBound
<1>2. EntryKept' /\ DoneWhenOk' /\ HasBuffer'
  BY <1>1, OutsideBusy DEF Busy
<1>3. RegistryType'
  BY Unregistered DEF SendFails, BaseInv, TypeOK, RegistryType
<1> QED BY <1>1, <1>2, <1>3
        DEF BaseInv, TypeOK, SendFails, CallType, DataType, CondType, RxType, RxForm,
            LinkType

\* The steps of the wait.
LEMMA WaitBase ==
  ASSUME BaseInv, Lock \/ Wait \/ Wake \/ TimedOut \/ Arm
  PROVE  BaseInv'
<1> USE DEF condvar, request, locals, progress
<1>1. /\ UNCHANGED <<reply_ack_queue, rx, link, seq, call, readBuf, item, attempt,
                     ret, totalBlock, blkCnt, skip_pkt_fg, file, stored>>
      /\ pc \in Busy /\ pc' \in Busy \ {"send", "check", "arm"}
      /\ rt' \in BOOLEAN
  BY DEF Lock, Wait, Wake, TimedOut, Arm, Busy, BaseInv, TypeOK, CallType
<1>2. SeqBound' /\ EntryKept' /\ HasBuffer' /\ CallType' /\ CountType' /\ DataType'
  BY <1>1, SameRequest, Kept
<1>3. CondType' /\ DoneWhenOk'
  BY DEF Lock, Wait, Wake, TimedOut, Arm, BaseInv, TypeOK, CondType, DoneWhenOk
<1> QED BY <1>1, <1>2, <1>3 DEF BaseInv, TypeOK, RegistryType, RxType, RxForm, LinkType

\* Taking the first message of the request.
LEMMA TakenFirst ==
  ASSUME BaseInv, pc \in Busy, Len(Msgs(seq)) > 0,
         readBuf' = Head(Msgs(seq)),
         reply_ack_queue' = WithMsgs(seq, Tail(Msgs(seq)))
  PROVE  /\ readBuf' \in Block /\ RegistryType'
         /\ \E k \in 1..Len(reply_ack_queue') : reply_ack_queue'[k].seq = seq
<1>1. /\ RegistryType /\ Registered(seq) /\ Msgs(seq) \in Seq(Block)
      /\ At(seq) \in 1..Len(reply_ack_queue)
      /\ reply_ack_queue[At(seq)].seq = seq
  BY Kept, EntryFound DEF BaseInv, TypeOK
<1> DEFINE m == Tail(Msgs(seq))
           q == reply_ack_queue'
<1>2. Head(Msgs(seq)) \in Block /\ m \in Seq(Block)
  BY <1>1
<1>3. q = WithMsgs(seq, m)
  OBVIOUS
<1> HIDE DEF m, q
<1>4. /\ q \in Seq(Entry)
      /\ Len(q) = Len(reply_ack_queue)
      /\ \A k \in 1..Len(q) : q[k].seq = reply_ack_queue[k].seq
  BY <1>1, <1>2, <1>3, Requeued
<1> QED BY <1>1, <1>2, <1>4 DEF RegistryType, q

\* The buffer of a block is not the empty one.
LEMMA BlockNotEmpty == ASSUME NEW m \in Block PROVE m # NoMsg
BY LimitsAssumption DEF Block, NoMsg, SeqNo

\* The end of the wait.
LEMMA PopBase == BaseInv /\ Pop => BaseInv'
<1> SUFFICES ASSUME BaseInv, Pop
             PROVE  BaseInv'
  OBVIOUS
<1> USE DEF condvar, request, locals, progress
<1>1. /\ UNCHANGED <<is_op_done, seq, call, rt, item, attempt, ret, totalBlock,
                     blkCnt, skip_pkt_fg, file, stored, rx, link>>
      /\ pc = "pop" /\ pc' = "after" /\ mtx' = FALSE
  BY DEF Pop
<1>2. CASE UNCHANGED <<readBuf, reply_ack_queue>>
  <2>1. SeqBound' /\ EntryKept' /\ HasBuffer' /\ CallType' /\ CountType' /\ DataType'
    BY <1>1, <1>2, SameRequest, Kept DEF Busy, BaseInv, TypeOK, CallType
  <2> QED BY <1>1, <1>2, <2>1
          DEF BaseInv, TypeOK, RegistryType, CondType, RxType, RxForm, LinkType,
              DoneWhenOk
<1>3. CASE /\ Len(Msgs(seq)) > 0
           /\ readBuf' = Head(Msgs(seq))
           /\ reply_ack_queue' = WithMsgs(seq, Tail(Msgs(seq)))
  <2>1. /\ readBuf' \in Block /\ RegistryType'
        /\ \E k \in 1..Len(reply_ack_queue') : reply_ack_queue'[k].seq = seq
    BY <1>1, <1>3, TakenFirst DEF Busy
  <2>2. EntryKept'
    BY <1>1, <2>1 DEF EntryKept, Registered, EntryAt
  <2>3. HasBuffer' /\ DoneWhenOk'
    BY <1>1, <2>1, BlockNotEmpty DEF HasBuffer, BaseInv, DoneWhenOk
  <2>4. SeqBound' /\ CountType' /\ CallType' /\ DataType'
    BY <1>1, <2>1
       DEF BaseInv, TypeOK, SeqBound, CountType, CallType, DataType
  <2> QED BY <1>1, <2>1, <2>2, <2>3, <2>4
          DEF BaseInv, TypeOK, CondType, RxType, RxForm, LinkType
<1>4. Len(Msgs(seq)) \in Nat
  BY <1>1, Kept, EntryFound DEF Busy, BaseInv, TypeOK
<1> QED BY <1>2, <1>3, <1>4 DEF Pop

\* A short request is over.
LEMMA AfterShortBase == BaseInv /\ AfterShort => BaseInv'
<1> SUFFICES ASSUME BaseInv, AfterShort
             PROVE  BaseInv'
  OBVIOUS
<1> USE DEF condvar, request, locals
<1>1. RegistryType'
  BY Unregistered DEF AfterShort, BaseInv, TypeOK, RegistryType
<1>2. /\ CountType' /\ SeqBound' /\ pc' \in {"start", "end"}
      /\ stored' = stored
  BY AgainCounts, AdvanceCounts, SeqNat
     DEF AfterShort, BaseInv, TypeOK, SeqBound
<1>3. EntryKept' /\ DoneWhenOk' /\ HasBuffer'
  BY <1>2, OutsideBusy DEF Busy
<1> QED BY <1>1, <1>2, <1>3
        DEF BaseInv, TypeOK, AfterShort, CallType, DataType, CondType, RxType, RxForm,
            LinkType

\* The garbage clean at the end.
LEMMA EndBase == BaseInv /\ End => BaseInv'
<1> SUFFICES ASSUME BaseInv, End
             PROVE  BaseInv'
  OBVIOUS
<1> USE DEF condvar, request, locals, progress
<1>1. EntryKept' /\ DoneWhenOk' /\ HasBuffer'
  BY OutsideBusy DEF End, Busy
<1>2. RegistryType' /\ SeqBound'
  BY EmptySeq DEF End, RegistryType, BaseInv, SeqBound
<1> QED BY <1>1, <1>2
        DEF BaseInv, TypeOK, End, CallType, CountType, DataType, CondType, RxType, RxForm,
            LinkType

\* One turn of the loop over the blocks.
LEMMA TakeTyped ==
  ASSUME BaseInv, pc \in {"check", "after"}, NEW m \in Block, Take(m), seq' = seq
  PROVE  /\ CountType' /\ SeqBound' /\ pc' \in {"check", "start", "end"}
         /\ skip_pkt_fg' \in BOOLEAN /\ blkCnt' \in Nat
         /\ file' \in Seq(Block) /\ stored' \subseteq Seq(Block)
         /\ pc' = "check" => ~LastOne
<1> DEFINE good == Remained(m) /\ Expected(m) /\ ~skip_pkt_fg
           db == IF good THEN stored \cup {file'} ELSE stored
<1>1. /\ blkCnt \in Nat /\ skip_pkt_fg \in BOOLEAN /\ file \in Seq(Block)
      /\ stored \subseteq Seq(Block)
      /\ CountType /\ seq \in Nat /\ SeqBound
  BY SeqNat DEF BaseInv, TypeOK, DataType
<1>2. skip_pkt_fg' \in BOOLEAN
  BY DEF Take
<1>3. file' = IF good THEN Append(file, m) ELSE file
  BY DEF Take
<1>4. file' \in Seq(Block)
  BY <1>1, <1>3
<1>5. CASE ~LastOne
  <2>1. pc' = "check" /\ blkCnt' = blkCnt + 1 /\ UNCHANGED progress
    BY <1>5 DEF Take
  <2>2. CountType' /\ SeqBound'
    BY <1>1, <2>1 DEF CountType, SeqBound, progress
  <2> QED BY <1>1, <1>2, <1>4, <1>5, <2>1, <2>2 DEF progress
<1>6. CASE LastOne /\ skip_pkt_fg'
  <2>1. Again /\ blkCnt' = blkCnt
    BY <1>6 DEF Take
  <2>2. seq' <= FirstSeq + item * (Retry + 1) + attempt + 1
    BY <1>1 DEF SeqBound
  <2>3. /\ CountType' /\ SeqBound' /\ pc' \in {"start", "end"}
        /\ stored' = stored
    BY <1>1, <2>1, <2>2, AgainCounts
  <2> QED BY <1>1, <1>2, <1>4, <2>1, <2>3
<1>7. CASE LastOne /\ ~skip_pkt_fg'
  <2>1. Advance(db) /\ blkCnt' = blkCnt
    BY <1>7 DEF Take
  <2>2. db \subseteq Seq(Block)
    BY <1>1, <1>4
  <2> HIDE DEF db
  <2>3. /\ CountType' /\ SeqBound' /\ pc' \in {"start", "end"}
        /\ stored' = db
    BY <1>1, <2>1, AdvanceCounts
  <2> QED BY <1>1, <1>2, <1>4, <2>1, <2>2, <2>3
<1> QED BY <1>5, <1>6, <1>7

\* Block counts are natural.
LEMMA TotalNat == \A t \in Totals \cup {1} : t \in Nat
BY TotalsAssumption

\* The first half returns.
LEMMA AfterFirstBase == BaseInv /\ AfterFirst => BaseInv'
<1> SUFFICES ASSUME BaseInv, AfterFirst
             PROVE  BaseInv'
  OBVIOUS
<1> USE DEF condvar, progress
<1>1. /\ RegistryType'
      /\ is_op_done => reply_ack_queue' = reply_ack_queue
  BY Unregistered DEF AfterFirst, BaseInv, TypeOK, RegistryType
<1>2. UNCHANGED <<is_op_done, mtx, seq, rt, readBuf, skip_pkt_fg, rx, link>>
      /\ pc = "after"
  BY DEF AfterFirst
<1>3. /\ CountType /\ seq \in Nat /\ SeqBound
      /\ seq' <= FirstSeq + item * (Retry + 1) + attempt + 1
  BY <1>2, SeqNat DEF BaseInv, TypeOK, SeqBound
<1>4. /\ stored \subseteq Seq(Block) /\ file \in Seq(Block)
      /\ blkCnt \in Nat /\ totalBlock \in Nat /\ readBuf \in Block \cup {NoMsg}
      /\ skip_pkt_fg \in BOOLEAN
  BY DEF BaseInv, TypeOK, DataType
<1>5. CASE \/ ~rt /\ Again /\ UNCHANGED <<totalBlock, blkCnt, file, call>>
           \/ Advance(stored) /\ UNCHANGED <<totalBlock, blkCnt, file, call>>
  <2>1. /\ CountType' /\ SeqBound' /\ pc' \in {"start", "end"}
        /\ stored' = stored
    BY <1>2, <1>3, <1>5, AgainCounts, AdvanceCounts
  <2>2. EntryKept' /\ DoneWhenOk' /\ HasBuffer'
    BY <2>1, OutsideBusy DEF Busy
  <2> QED BY <1>1, <1>2, <1>5, <2>1, <2>2
          DEF BaseInv, TypeOK, CallType, DataType, CondType, RxType, RxForm, LinkType
<1>6. CASE /\ rt /\ FirstPacket(readBuf)
           /\ totalBlock' = readBuf.total
           /\ file' = <<readBuf>>
           /\ blkCnt' = 1
           /\ IF readBuf.total = 1
              THEN Advance(stored \cup {file'}) /\ UNCHANGED call
              ELSE pc' = "check" /\ call' = "second" /\ UNCHANGED progress
  <2>1. readBuf \in Block /\ totalBlock' \in Nat /\ file' \in Seq(Block)
    <3>1. readBuf \in Block
      BY <1>4, <1>6 DEF FirstPacket
    <3>2. readBuf.total \in Totals \cup {1}
      BY <3>1 DEF Block
    <3>3. readBuf.total \in Nat
      BY <3>2, TotalNat
    <3> QED BY <1>6, <3>1, <3>3
  <2>2. CASE readBuf.total = 1
    <3> DEFINE db == stored \cup {file'}
    <3>1. db \subseteq Seq(Block) /\ Advance(db) /\ call' = call
      BY <1>4, <1>6, <2>1, <2>2
    <3> HIDE DEF db
    <3>2. /\ CountType' /\ SeqBound' /\ pc' \in {"start", "end"}
          /\ stored' = db
      BY <1>2, <1>3, <3>1, AdvanceCounts
    <3>3. EntryKept' /\ DoneWhenOk' /\ HasBuffer'
      BY <3>2, OutsideBusy DEF Busy
    <3>4. DataType' /\ CallType'
      BY <1>2, <1>4, <1>6, <2>1, <3>1, <3>2 DEF DataType, CallType, BaseInv, TypeOK
    <3> QED BY <1>1, <1>2, <3>2, <3>3, <3>4
            DEF BaseInv, TypeOK, CondType, RxType, RxForm, LinkType
  <2>3. CASE readBuf.total # 1
    <3>1. pc' = "check" /\ call' = "second" /\ UNCHANGED progress
      BY <1>6, <2>3
    <3>2. is_op_done /\ reply_ack_queue' = reply_ack_queue
      BY <1>1, <1>2, <1>6 DEF BaseInv, DoneWhenOk
    <3>3. EntryKept'
      BY <1>2, <3>2, Kept DEF EntryKept, Registered, EntryAt, Busy
    <3>4. HasBuffer' /\ DoneWhenOk'
      BY <1>2, <2>1, <3>1, BlockNotEmpty DEF HasBuffer, DoneWhenOk
    <3>5. SeqBound' /\ CountType'
      BY <1>2, <3>1 DEF BaseInv, TypeOK, SeqBound, CountType
    <3>6. DataType' /\ CallType'
      BY <1>2, <1>4, <1>6, <2>1, <3>1 DEF DataType, CallType, BaseInv, TypeOK
    <3> QED BY <1>1, <1>2, <3>3, <3>4, <3>5, <3>6
            DEF BaseInv, TypeOK, CondType, RxType, RxForm, LinkType
  <2> QED BY <2>2, <2>3
<1> QED BY <1>5, <1>6 DEF AfterFirst

\* The second half looks at the queue.
LEMMA CheckBase == BaseInv /\ Check => BaseInv'
<1> SUFFICES ASSUME BaseInv, Check
             PROVE  BaseInv'
  OBVIOUS
<1> USE DEF condvar, request, progress
<1>1. /\ UNCHANGED <<is_op_done, mtx, call, seq, rt, totalBlock, rx, link>>
      /\ pc = "check" /\ call = "second" /\ pc \in Busy
  BY DEF Check, BaseInv, HasBuffer, Busy
<1>2. CASE /\ Len(Msgs(seq)) > 0
           /\ readBuf' = Head(Msgs(seq))
           /\ reply_ack_queue' = WithMsgs(seq, Tail(Msgs(seq)))
           /\ Take(readBuf')
  <2>1. /\ readBuf' \in Block /\ RegistryType'
        /\ \E k \in 1..Len(reply_ack_queue') : reply_ack_queue'[k].seq = seq
    BY <1>1, <1>2, TakenFirst
  <2> DEFINE m == readBuf'
  <2> HIDE DEF m
  <2>2. /\ CountType' /\ SeqBound' /\ pc' \in {"check", "start", "end"}
        /\ skip_pkt_fg' \in BOOLEAN /\ blkCnt' \in Nat
        /\ file' \in Seq(Block) /\ stored' \subseteq Seq(Block)
    <3>1. m \in Block /\ Take(m)
      BY <1>2, <2>1 DEF m
    <3> QED BY <1>1, <3>1, TakeTyped
  <2>3. EntryKept'
    BY <1>1, <2>1 DEF EntryKept, Registered, EntryAt
  <2>4. HasBuffer' /\ DoneWhenOk'
    BY <1>1, <2>1, <2>2, BlockNotEmpty DEF HasBuffer, DoneWhenOk
  <2>5. DataType' /\ CallType'
    BY <1>1, <2>1, <2>2 DEF DataType, CallType, BaseInv, TypeOK
  <2> QED BY <1>1, <2>1, <2>2, <2>3, <2>4, <2>5
          DEF BaseInv, TypeOK, CondType, RxType, RxForm, LinkType
<1>3. CASE /\ pc' = "arm"
           /\ UNCHANGED <<readBuf, reply_ack_queue, blkCnt, skip_pkt_fg,
                          file, progress>>
  <2>1. SeqBound' /\ EntryKept' /\ HasBuffer' /\ CallType' /\ CountType' /\ DataType'
    BY <1>1, <1>3, SameRequest, Kept DEF Busy, BaseInv, TypeOK, CallType
  <2> QED BY <1>1, <1>3, <2>1
          DEF BaseInv, TypeOK, RegistryType, CondType, RxType, RxForm, LinkType,
              DoneWhenOk
<1> QED BY <1>2, <1>3 DEF Check

\* The second half returns after a wait: it has let the entry go only where
\* the loop ends, since the wait that has not timed out has seen the flag.
LEMMA AfterSecondBase == BaseInv /\ AfterSecond => BaseInv'
<1> SUFFICES ASSUME BaseInv, AfterSecond
             PROVE  BaseInv'
  OBVIOUS
<1> USE DEF condvar, request
<1>1. /\ UNCHANGED <<is_op_done, mtx, call, seq, rt, readBuf, totalBlock, rx, link>>
      /\ pc = "after" /\ call = "second" /\ pc \in Busy
  BY DEF AfterSecond, Busy
<1>2. /\ RegistryType'
      /\ ~LetsGo => reply_ack_queue' = reply_ack_queue
  BY Unregistered DEF AfterSecond, BaseInv, TypeOK, RegistryType
<1>3. readBuf \in Block
  BY <1>1 DEF BaseInv, TypeOK, DataType, HasBuffer
<1>4. CASE rt /\ Take(readBuf)
  <2>1. /\ CountType' /\ SeqBound' /\ pc' \in {"check", "start", "end"}
        /\ skip_pkt_fg' \in BOOLEAN /\ blkCnt' \in Nat
        /\ file' \in Seq(Block) /\ stored' \subseteq Seq(Block)
        /\ pc' = "check" => ~LastOne
    BY <1>1, <1>3, <1>4, TakeTyped
  <2>2. EntryKept'
    <3>1. CASE pc' = "check"
      <4>1. reply_ack_queue' = reply_ack_queue
        BY <1>1, <1>2, <1>4, <2>1, <3>1 DEF BaseInv, DoneWhenOk, LetsGo
      <4> QED BY <1>1, <4>1, Kept DEF EntryKept, Registered, EntryAt
    <3>2. CASE pc' # "check"
      BY <2>1, <3>2 DEF EntryKept
    <3> QED BY <3>1, <3>2
  <2>3. HasBuffer' /\ DoneWhenOk'
    BY <1>1, <1>3, <2>1, BlockNotEmpty DEF HasBuffer, DoneWhenOk
  <2>4. DataType' /\ CallType'
    BY <1>1, <1>3, <2>1 DEF DataType, CallType, BaseInv, TypeOK
  <2> QED BY <1>1, <1>2, <2>1, <2>2, <2>3, <2>4
          DEF BaseInv, TypeOK, CondType, RxType, RxForm, LinkType
<1>5. CASE ~rt /\ Again /\ UNCHANGED <<blkCnt, skip_pkt_fg, file>>
  <2>1. /\ CountType' /\ SeqBound' /\ pc' \in {"start", "end"}
        /\ stored' = stored
    BY <1>1, <1>5, AgainCounts, SeqNat DEF BaseInv, TypeOK, SeqBound
  <2>2. EntryKept' /\ DoneWhenOk' /\ HasBuffer'
    BY <2>1, OutsideBusy DEF Busy
  <2> QED BY <1>1, <1>2, <1>5, <2>1, <2>2
          DEF BaseInv, TypeOK, CallType, DataType, CondType, RxType, RxForm, LinkType
<1> QED BY <1>4, <1>5 DEF AfterSecond

-----------------------------------------------------------------------------
(* The steps of the receiving thread                                       *)

\* What is queued of a message that was under way.
LEMMA Queued ==
  ASSUME BaseInv, link # <<>>, NEW ok \in BOOLEAN
  PROVE  /\ Head(link) \in Message /\ Tail(link) \in Seq(Message)
         /\ [of |-> Head(link).of, blk |-> Head(link).blk,
             total |-> Head(link).total, ok |-> ok] \in Block
<1>1. link \in Seq(Message)
  BY DEF BaseInv, TypeOK, LinkType
<1>2. Head(link) \in Message /\ Tail(link) \in Seq(Message)
  BY <1>1
<1> QED BY <1>2 DEF Message, Block

\* The entry that a message is queued at is registered.
LEMMA HitRegistered ==
  ASSUME NEW acks, NEW p, Hits(acks, p) # {},
         NEW s, s = reply_ack_queue[FirstHit(acks, p)].seq
  PROVE  Registered(s)
BY HitFound DEF Hits, Registered, EntryAt

\* A step of the receiver that keeps the numbers of the entries.
LEMMA ReceiverKeeps ==
  ASSUME BaseInv,
         UNCHANGED <<pc, call, seq, rt, readBuf, totalBlock, blkCnt, skip_pkt_fg,
                     file, item, attempt, stored, ret, mtx>>,
         is_op_done' \in BOOLEAN, is_op_done => is_op_done',
         RegistryType', RxType', RxForm', LinkType',
         Len(reply_ack_queue') = Len(reply_ack_queue),
         \A k \in 1..Len(reply_ack_queue) :
            reply_ack_queue'[k].seq = reply_ack_queue[k].seq
  PROVE  BaseInv'
<1>1. SeqBound' /\ CountType' /\ CallType' /\ DataType' /\ CondType'
  BY DEF BaseInv, TypeOK, SeqBound, CountType, CallType, DataType, CondType
<1>2. EntryKept'
  BY DEF BaseInv, EntryKept, Registered, EntryAt
<1>3. HasBuffer' /\ DoneWhenOk'
  BY DEF BaseInv, HasBuffer, DoneWhenOk
<1> QED BY <1>1, <1>2, <1>3 DEF BaseInv, TypeOK

\* A message arrives.
LEMMA ReceiveBase == BaseInv /\ Receive => BaseInv'
<1> SUFFICES ASSUME BaseInv, Receive
             PROVE  BaseInv'
  OBVIOUS
<1> USE DEF condvar, request, locals, progress
<1>1. PICK ok \in BOOLEAN :
        LET m == Head(link)
            block == [of |-> m.of, blk |-> m.blk, total |-> m.total, ok |-> ok]
        IN
        IF Hits(m.acks, m.prim) = {}
        THEN UNCHANGED <<reply_ack_queue, rx>>
        ELSE LET s == reply_ack_queue[FirstHit(m.acks, m.prim)].seq IN
             /\ reply_ack_queue' = WithMsgs(s, Append(Msgs(s), block))
             /\ rx' = [pc |-> "signal", prim |-> m.prim,
                       acks |-> RemoveAck(m.acks, AckIndex(m.acks, s))]
  BY DEF Receive
<1> DEFINE m == Head(link)
           block == [of |-> m.of, blk |-> m.blk, total |-> m.total, ok |-> ok]
           s == reply_ack_queue[FirstHit(m.acks, m.prim)].seq
           q == reply_ack_queue'
<1>2. /\ UNCHANGED <<pc, call, seq, rt, readBuf, totalBlock, blkCnt, skip_pkt_fg,
                     file, item, attempt, stored, ret, mtx, is_op_done>>
      /\ link # <<>> /\ link' = Tail(link)
  BY DEF Receive
<1>3. block \in Block /\ LinkType'
  BY <1>2, Queued DEF LinkType
<1>4. RegistryType /\ RxType /\ RxForm /\ is_op_done \in BOOLEAN
  BY DEF BaseInv, TypeOK, CondType
<1>5. CASE Hits(m.acks, m.prim) = {}
  <2>1. UNCHANGED <<reply_ack_queue, rx>>
    BY <1>1, <1>5
  <2>2. RegistryType' /\ RxType' /\ RxForm'
    BY <1>4, <2>1 DEF RegistryType, RxType, RxForm
  <2> QED BY <1>2, <1>3, <1>4, <2>1, <2>2, ReceiverKeeps
<1>6. CASE Hits(m.acks, m.prim) # {}
  <2>1. /\ q = WithMsgs(s, Append(Msgs(s), block))
        /\ rx' = [pc |-> "signal", prim |-> m.prim,
                  acks |-> RemoveAck(m.acks, AckIndex(m.acks, s))]
    BY <1>1, <1>6
  <2>2. RxType' /\ RxForm'
    BY <2>1 DEF RxType, RxForm
  <2>3. Registered(s)
    BY <1>6, HitRegistered
  <2> DEFINE n == Append(Msgs(s), block)
  <2> HIDE DEF s, q, block
  <2>4. n \in Seq(Block)
    BY <1>3, <1>4, <2>3, EntryFound
  <2>5. q = WithMsgs(s, n)
    BY <2>1
  <2> HIDE DEF n
  <2>6. /\ q \in Seq(Entry) /\ Len(q) = Len(reply_ack_queue)
        /\ \A k \in 1..Len(q) : q[k].seq = reply_ack_queue[k].seq
    BY <1>4, <2>3, <2>4, <2>5, Requeued
  <2>7. RegistryType'
    BY <2>6 DEF RegistryType, q
  <2> QED BY <1>2, <1>3, <1>4, <2>2, <2>6, <2>7, ReceiverKeeps DEF q
<1> QED BY <1>5, <1>6

\* The signal, the search for the next entry, and the loss of a message.
LEMMA SignalBase ==
  ASSUME BaseInv, Signal \/ FindNext \/ Lose
  PROVE  BaseInv'
<1> USE DEF condvar, request, locals, progress
<1>1. UNCHANGED <<pc, call, seq, rt, readBuf, totalBlock, blkCnt, skip_pkt_fg,
                  file, item, attempt, stored, ret, mtx, reply_ack_queue>>
  BY DEF Signal, FindNext, Lose
<1>2. RegistryType' /\ RxType /\ RxForm /\ is_op_done \in BOOLEAN
  BY <1>1 DEF BaseInv, TypeOK, CondType, RegistryType
<1>3. is_op_done' \in BOOLEAN /\ (is_op_done => is_op_done')
  BY <1>2 DEF Signal, FindNext, Lose
<1>4. RxType' /\ RxForm'
  <2>1. CASE Signal
    BY <1>2, <2>1 DEF Signal, RxType, RxForm
  <2>2. CASE FindNext
    <3> DEFINE a == RemoveAck(rx.acks,
                      AckIndex(rx.acks,
                        reply_ack_queue[FirstHit(rx.acks, rx.prim)].seq))
    <3>1. rx' = Quiet \/ rx' = [rx EXCEPT !.pc = "signal", !.acks = a]
      BY <2>2 DEF FindNext
    <3> HIDE DEF a
    <3>2. rx' = Quiet
          \/ rx' = [pc |-> "signal", acks |-> a, prim |-> rx.prim]
      BY <1>2, <3>1 DEF RxForm
    <3> QED BY <3>2 DEF RxType, RxForm, Quiet
  <2>3. CASE Lose
    BY <1>2, <2>3 DEF Lose, RxType, RxForm
  <2> QED BY <2>1, <2>2, <2>3
<1>5. LinkType'
  <2>1. CASE Lose
    BY <2>1, Queued DEF Lose, LinkType
  <2>2. CASE Signal \/ FindNext
    BY <2>2 DEF Signal, FindNext, BaseInv, TypeOK, LinkType
  <2> QED BY <2>1, <2>2
<1> QED BY <1>1, <1>2, <1>3, <1>4, <1>5, ReceiverKeeps

-----------------------------------------------------------------------------
(* Type correctness and the life of the entry                              *)

\* No step leaves the base invariant.
LEMMA NextBase == BaseInv /\ [Next]_vars => BaseInv'
<1> SUFFICES ASSUME BaseInv, [Next]_vars
             PROVE  BaseInv'
  OBVIOUS
<1>1. CASE UNCHANGED vars
  BY <1>1
     DEF vars, condvar, request, locals, progress, BaseInv, TypeOK, RegistryType,
         CondType, CallType, CountType, DataType, RxType, RxForm, LinkType,
         SeqBound, EntryKept, Registered, EntryAt, DoneWhenOk, HasBuffer
<1>2. CASE Receiver \/ Lose
  BY <1>2, ReceiveBase, SignalBase DEF Receiver
<1>3. CASE SensorThread
  BY <1>3, SkipKnownBase, RequestBase, SendBase, SendFailsBase, WaitBase, PopBase,
     AfterShortBase, AfterFirstBase, CheckBase, AfterSecondBase, EndBase
     DEF SensorThread, Waiting, Returning
<1> QED BY <1>1, <1>2, <1>3 DEF Next

\* The base invariant holds throughout a session.
LEMMA BaseAlways == Spec => []BaseInv
BY InitBase, NextBase, PTL DEF Spec

\* Every variable keeps its type in every session, whatever the numbers of
\* items, blocks and retries and whatever fails: in particular no request gets
\* a number beyond those that items and retries allow (collectData).
THEOREM TypeCorrect == Spec => []TypeOK
<1>1. BaseInv => TypeOK
  BY DEF BaseInv
<1> QED BY <1>1, BaseAlways, PTL

\* The entry that a request waits on, and that the second half gets as its
\* state, is never freed while the thread goes on using it
\* (app_froto_n_send_with_multiple_replies_second_half).
THEOREM EntryNotFreed == Spec => []EntryKept
<1>1. BaseInv => EntryKept
  BY DEF BaseInv
<1> QED BY <1>1, BaseAlways, PTL

-----------------------------------------------------------------------------
(* Which request a message answers                                         *)

\* A message under way answers a request that has been sent, and acknowledges
\* that one and perhaps the one before.
Sent ==
  \A k \in 1..Len(link) :
    /\ link[k].of <= seq
    /\ pc = "send" => link[k].of < seq
    /\ link[k].acks = <<link[k].of>> \/ link[k].acks = <<link[k].of - 1, link[k].of>>

\* What is queued at an entry answers its request or, since the sensor may
\* acknowledge two at once, the one after.
AnswersIn(q, s) ==
  \A k \in 1..Len(q) : \A j \in 1..Len(q[k].msgs) :
    /\ q[k].msgs[j].of \in {q[k].seq, q[k].seq + 1}
    /\ q[k].msgs[j].of <= s
Answers == AnswersIn(reply_ack_queue, seq)

\* What the thread has in its buffer answers its own request.
BufferOf == readBuf # NoMsg => readBuf.of = seq

AnswerInv == Sent /\ Answers /\ BufferOf

\* What the tail of the messages under way holds was under way.
LEMMA LinkShorter ==
  ASSUME LinkType, link # <<>>
  PROVE  /\ 1 \in 1..Len(link) /\ Head(link) = link[1]
         /\ Len(Tail(link)) = Len(link) - 1
         /\ \A k \in 1..Len(Tail(link)) :
              k + 1 \in 1..Len(link) /\ Tail(link)[k] = link[k + 1]
<1>1. link \in Seq(Message) /\ Len(link) \in Nat
  BY DEF LinkType
<1>2. /\ Head(link) = link[1] /\ Tail(link) \in Seq(Message)
      /\ Len(Tail(link)) = Len(link) - 1
      /\ \A k \in 1..Len(Tail(link)) : Tail(link)[k] = link[k + 1]
  BY <1>1, HeadTailProperties
<1>3. Len(link) # 0
  BY <1>1, EmptySeq
<1> QED BY <1>1, <1>2, <1>3

\* A message leaves the link.
LEMMA SentShorter ==
  ASSUME LinkType, Sent, link # <<>>, link' = Tail(link), seq' = seq, pc' = pc
  PROVE  Sent'
<1>1. \A k \in 1..Len(link') : k + 1 \in 1..Len(link) /\ link'[k] = link[k + 1]
  BY LinkShorter
<1> QED BY <1>1 DEF Sent

\* The sensor's answer goes onto the link.
LEMMA SentLonger == ASSUME BaseInv, Sent, Send PROVE Sent'
<1> USE DEF request
<1>1. PICK n \in IF call = "short" THEN {1} ELSE Totals, acks \in Acks :
        link' = link \o Reply(n, acks)
  BY DEF Send
<1> DEFINE r == Reply(n, acks)
<1>2. pc = "send" /\ pc' = "lock" /\ seq' = seq /\ seq \in Int
  BY SeqNat DEF Send, BaseInv
<1>3. /\ r \in Seq(Message) /\ Len(r) = n
      /\ \A k \in 1..n : r[k].of = seq /\ r[k].acks = acks
  <2>1. /\ r \in Seq(Message) /\ Len(r) = n
        /\ \A k \in 1..n :
             r[k] = [prim |-> IF call = "short" THEN "SIMPLE_UPLOAD"
                                                ELSE "SIMPLE_BULK_UPLOAD",
                     acks |-> acks, of |-> seq, blk |-> k - 1, total |-> n]
    BY <1>2, ReplyType, Zenon
  <2> HIDE DEF r
  <2> QED BY <2>1
<1>4. acks = <<seq>> \/ acks = <<seq - 1, seq>>
  BY DEF Acks
<1> HIDE DEF r
<1>5. link \in Seq(Message)
  BY DEF BaseInv, TypeOK, LinkType
<1>6. /\ Len(link') = Len(link) + Len(r)
      /\ \A k \in 1..Len(link) + Len(r) :
           link'[k] = IF k <= Len(link) THEN link[k] ELSE r[k - Len(link)]
  <2>1. link' = link \o r
    BY <1>1 DEF r
  <2>2. r \in Seq(Message)
    BY <1>3
  <2> QED BY <1>5, <2>1, <2>2, ConcatProperties, Zenon
<1>7. Len(link) \in Nat /\ Len(r) \in Nat
  BY <1>3, <1>5
<1> SUFFICES ASSUME NEW k \in 1..Len(link')
             PROVE  /\ link'[k].of <= seq
                    /\ \/ link'[k].acks = <<link'[k].of>>
                       \/ link'[k].acks = <<link'[k].of - 1, link'[k].of>>
  BY <1>2 DEF Sent
<1>8. CASE k <= Len(link)
  <2>1. k \in 1..Len(link) /\ link'[k] = link[k]
    BY <1>6, <1>7, <1>8
  <2> QED BY <2>1 DEF Sent
<1>9. CASE ~(k <= Len(link))
  <2>1. k - Len(link) \in 1..n /\ link'[k] = r[k - Len(link)]
    BY <1>3, <1>6, <1>7, <1>9
  <2>2. link'[k].of = seq /\ link'[k].acks = acks
    BY <1>3, <2>1
  <2> QED BY <1>2, <1>4, <2>2
<1> QED BY <1>8, <1>9

\* No step puts anything else onto the link.
LEMMA SentKept == BaseInv /\ Sent /\ [Next]_vars => Sent'
<1> SUFFICES ASSUME BaseInv, Sent, [Next]_vars
             PROVE  Sent'
  OBVIOUS
<1> USE DEF condvar, request, locals, progress
<1>0. LinkType /\ link \in Seq(Message) /\ Len(link) \in Nat
  BY DEF BaseInv, TypeOK, LinkType
<1>1. CASE Send
  BY <1>1, SentLonger
<1>2. CASE Receive \/ Lose
  BY <1>0, <1>2, SentShorter DEF Receive, Lose
<1>3. CASE Request
  <2>1. seq' = seq + 1 /\ link' = link /\ seq \in Nat
    BY <1>3, SeqNat DEF Request, BaseInv
  <2>2. \A k \in 1..Len(link) : link[k].of \in Nat
    <3>1. SeqNo \subseteq Nat
      BY LimitsAssumption DEF SeqNo
    <3>2. \A k \in 1..Len(link) : link[k] \in Message
      BY <1>0
    <3>3. \A k \in 1..Len(link) : link[k].of \in SeqNo
      BY <3>2 DEF Message
    <3> QED BY <3>1, <3>3
  <2> QED BY <2>1, <2>2 DEF Sent
<1>4. CASE link' = link /\ seq' = seq /\ (pc' = "send" => pc = "send")
  BY <1>4 DEF Sent
<1>5. CASE SkipKnown \/ SendFails \/ AfterShort \/ AfterFirst
  BY <1>4, <1>5
     DEF SkipKnown, SendFails, AfterShort, AfterFirst, Again, Advance
<1>6. CASE Check \/ AfterSecond
  BY <1>4, <1>6 DEF Check, AfterSecond, Take, Again, Advance
<1>7. CASE Waiting \/ Arm \/ End \/ Signal \/ FindNext \/ UNCHANGED vars
  BY <1>4, <1>7
     DEF Waiting, Lock, Wait, Wake, TimedOut, Pop, Arm, End, Signal, FindNext, vars
<1> QED BY <1>1, <1>2, <1>3, <1>5, <1>6, <1>7
        DEF Next, SensorThread, Returning, Receiver

\* A change to what is queued at one entry.
LEMMA AnswersRequeued ==
  ASSUME RegistryType, Answers, NEW s, Registered(s), NEW m \in Seq(Block),
         \A j \in 1..Len(m) : m[j].of \in {s, s + 1} /\ m[j].of <= seq,
         NEW q, q = WithMsgs(s, m)
  PROVE  AnswersIn(q, seq)
<1>1. /\ Len(q) = Len(reply_ack_queue)
      /\ \A k \in 1..Len(q) : q[k].seq = reply_ack_queue[k].seq
      /\ q[At(s)].msgs = m
      /\ \A k \in 1..Len(q) : k # At(s) => q[k] = reply_ack_queue[k]
  BY Requeued
<1>2. At(s) \in 1..Len(q) /\ q[At(s)].seq = s
  BY <1>1, EntryFound
<1> SUFFICES ASSUME NEW k \in 1..Len(q), NEW j \in 1..Len(q[k].msgs)
             PROVE  /\ q[k].msgs[j].of \in {q[k].seq, q[k].seq + 1}
                    /\ q[k].msgs[j].of <= seq
  BY DEF AnswersIn
<1>3. CASE k = At(s)
  BY <1>1, <1>2, <1>3
<1>4. CASE k # At(s)
  BY <1>1, <1>4 DEF Answers, AnswersIn
<1> QED BY <1>3, <1>4

\* What the second half and the wait take is an answer to the request.
LEMMA TakenAnswers ==
  ASSUME BaseInv, Answers, pc \in Busy, Len(Msgs(seq)) > 0,
         NEW q, q = WithMsgs(seq, Tail(Msgs(seq)))
  PROVE  Head(Msgs(seq)).of = seq /\ AnswersIn(q, seq)
<1> DEFINE ms == Msgs(seq)
           m == Tail(ms)
<1>1. /\ RegistryType /\ Registered(seq) /\ ms \in Seq(Block)
      /\ At(seq) \in 1..Len(reply_ack_queue)
      /\ reply_ack_queue[At(seq)].seq = seq
      /\ ms = reply_ack_queue[At(seq)].msgs /\ seq \in Int
  BY Kept, EntryFound, SeqNat DEF BaseInv, TypeOK
<1>2. q = WithMsgs(seq, m) /\ Len(ms) > 0 /\ Len(ms) \in Nat
  BY <1>1
<1> HIDE DEF ms
<1>3. \A j \in 1..Len(ms) : ms[j].of \in {seq, seq + 1} /\ ms[j].of <= seq
  BY <1>1 DEF Answers, AnswersIn
<1>4. /\ Head(ms) = ms[1] /\ m \in Seq(Block) /\ Len(m) = Len(ms) - 1
      /\ \A j \in 1..Len(m) : m[j] = ms[j + 1]
  BY <1>1, <1>2, EmptySeq, HeadTailProperties
<1>5. \A j \in 1..Len(m) : m[j].of \in {seq, seq + 1} /\ m[j].of <= seq
  BY <1>2, <1>3, <1>4
<1> HIDE DEF m
<1>6. AnswersIn(q, seq)
  BY <1>1, <1>2, <1>4, <1>5, AnswersRequeued
<1>7. ms[1].of = seq
  BY <1>1, <1>2, <1>3
<1> QED BY <1>4, <1>6, <1>7 DEF ms

\* A message is queued only at an entry that it answers.
LEMMA ReceivedAnswers ==
  ASSUME BaseInv, Sent, Answers, Receive
  PROVE  Answers'
<1> USE DEF request
<1>1. PICK ok \in BOOLEAN :
        LET m == Head(link)
            block == [of |-> m.of, blk |-> m.blk, total |-> m.total, ok |-> ok]
        IN
        IF Hits(m.acks, m.prim) = {}
        THEN UNCHANGED <<reply_ack_queue, rx>>
        ELSE LET s == reply_ack_queue[FirstHit(m.acks, m.prim)].seq IN
             /\ reply_ack_queue' = WithMsgs(s, Append(Msgs(s), block))
             /\ rx' = [pc |-> "signal", prim |-> m.prim,
                       acks |-> RemoveAck(m.acks, AckIndex(m.acks, s))]
  BY DEF Receive
<1> DEFINE m == Head(link)
           block == [of |-> m.of, blk |-> m.blk, total |-> m.total, ok |-> ok]
           s == reply_ack_queue[FirstHit(m.acks, m.prim)].seq
           q == reply_ack_queue'
           n == Append(Msgs(s), block)
<1>2. seq' = seq /\ link # <<>> /\ RegistryType /\ LinkType
  BY DEF Receive, BaseInv, TypeOK
<1>3. CASE Hits(m.acks, m.prim) = {}
  <2>1. UNCHANGED reply_ack_queue
    BY <1>1, <1>3
  <2> QED BY <1>2, <2>1 DEF Answers
<1>4. CASE Hits(m.acks, m.prim) # {}
  <2>1. q = WithMsgs(s, n)
    BY <1>1, <1>4
  <2>2. Registered(s)
    BY <1>4, HitRegistered
  <2>3. PICK i \in 1..Len(m.acks) : m.acks[i] = s
    BY <1>4, HitFound DEF Hits
  <2>4. /\ m.of <= seq /\ m.of \in Int
        /\ m.acks = <<m.of>> \/ m.acks = <<m.of - 1, m.of>>
    <3>1. m = link[1] /\ 1 \in 1..Len(link) /\ m \in Message
      BY <1>2, LinkShorter, Queued
    <3>2. m.of \in SeqNo
      BY <3>1 DEF Message
    <3> QED BY <3>1, <3>2, LimitsAssumption DEF Sent, SeqNo
  <2>5. m.of \in {s, s + 1} /\ block.of = m.of
    <3> HIDE DEF m, s
    <3>1. CASE m.acks = <<m.of>>
      BY <2>3, <2>4, <3>1
    <3>2. CASE m.acks = <<m.of - 1, m.of>>
      BY <2>3, <2>4, <3>2
    <3> QED BY <2>4, <3>1, <3>2
  <2>6. block \in Block
    BY <1>2, Queued
  <2>7. /\ Msgs(s) = reply_ack_queue[At(s)].msgs /\ Msgs(s) \in Seq(Block)
        /\ At(s) \in 1..Len(reply_ack_queue) /\ reply_ack_queue[At(s)].seq = s
    BY <1>2, <2>2, EntryFound
  <2> HIDE DEF s, q, block, m
  <2>8. \A j \in 1..Len(Msgs(s)) :
          Msgs(s)[j].of \in {s, s + 1} /\ Msgs(s)[j].of <= seq
    BY <2>7 DEF Answers, AnswersIn
  <2>9. /\ n \in Seq(Block)
        /\ \A j \in 1..Len(n) : n[j].of \in {s, s + 1} /\ n[j].of <= seq
    <3>1. /\ n \in Seq(Block) /\ Len(n) = Len(Msgs(s)) + 1
          /\ \A j \in 1..Len(n) : n[j] = IF j <= Len(Msgs(s)) THEN Msgs(s)[j]
                                                              ELSE block
      BY <2>6, <2>7
    <3>2. Len(Msgs(s)) \in Nat
      BY <2>7
    <3> HIDE DEF n
    <3> QED BY <2>4, <2>5, <2>8, <3>1, <3>2
  <2> HIDE DEF n
  <2>10. AnswersIn(q, seq)
    BY <1>2, <2>1, <2>2, <2>9, AnswersRequeued
  <2> QED BY <1>2, <2>10 DEF Answers, q
<1> QED BY <1>3, <1>4

\* The entries that are left keep what is queued there.
LEMMA AnswersUnregistered ==
  ASSUME RegistryType, Answers, NEW s, reply_ack_queue' = Unregister(s), seq' = seq
  PROVE  Answers'
<1> DEFINE q == reply_ack_queue'
<1>1. PICK f \in [1..Len(q) -> 1..Len(reply_ack_queue)] :
        \A j \in 1..Len(q) : q[j] = reply_ack_queue[f[j]]
  BY Unregistered
<1> QED BY <1>1 DEF Answers, AnswersIn

\* The messages that are queued answer their entries' requests.
LEMMA AnswersKept == BaseInv /\ Sent /\ Answers /\ [Next]_vars => Answers'
<1> SUFFICES ASSUME BaseInv, Sent, Answers, [Next]_vars
             PROVE  Answers'
  OBVIOUS
<1> USE DEF condvar, request, locals, progress
<1>0. RegistryType
  BY DEF BaseInv, TypeOK
<1>1. CASE Receive
  BY <1>1, ReceivedAnswers
<1>2. CASE Request
  <2>1. seq' = seq + 1 /\ seq' \in SeqNo /\ seq \in Int
    BY <1>2, RequestNumber, SeqNat DEF BaseInv
  <2>2. \/ reply_ack_queue' = reply_ack_queue
        \/ \E p \in Prim : reply_ack_queue' = Register(seq', p)
    BY <1>2 DEF Request, Prim
  <2>3. \A k \in 1..Len(reply_ack_queue) :
          \A j \in 1..Len(reply_ack_queue[k].msgs) :
            reply_ack_queue[k].msgs[j].of \in Int
    <3> SUFFICES ASSUME NEW k \in 1..Len(reply_ack_queue),
                        NEW j \in 1..Len(reply_ack_queue[k].msgs)
                 PROVE  reply_ack_queue[k].msgs[j].of \in Int
      OBVIOUS
    <3>1. reply_ack_queue[k] \in Entry
      BY <1>0 DEF RegistryType
    <3>2. reply_ack_queue[k].msgs \in Seq(Block)
      BY <3>1 DEF Entry
    <3>3. reply_ack_queue[k].msgs[j] \in Block
      BY <3>2
    <3>4. reply_ack_queue[k].msgs[j].of \in SeqNo
      BY <3>3 DEF Block
    <3> QED BY <3>4, LimitsAssumption DEF SeqNo
  <2>4. CASE reply_ack_queue' = reply_ack_queue
    BY <2>1, <2>3, <2>4 DEF Answers, AnswersIn
  <2>5. ASSUME NEW p \in Prim, reply_ack_queue' = Register(seq', p)
        PROVE  Answers'
    <3> DEFINE q == reply_ack_queue'
               z == seq'
    <3>1. q = Register(z, p) /\ z \in SeqNo
      BY <2>1, <2>5
    <3> HIDE DEF q, z
    <3>2. /\ Len(q) = Len(reply_ack_queue) + 1
          /\ \A k \in 1..Len(reply_ack_queue) : q[k] = reply_ack_queue[k]
          /\ q[Len(q)] = [seq |-> z, prim |-> p, msgs |-> <<>>]
      BY <1>0, <3>1, Added
    <3>3. q[Len(q)].msgs = <<>> /\ Len(reply_ack_queue) \in Nat
      BY <1>0, <3>2 DEF RegistryType
    <3>4. \A k \in 1..Len(q) : k = Len(q) \/ k \in 1..Len(reply_ack_queue)
      BY <3>2, <3>3
    <3>5. z = seq + 1
      BY <2>1 DEF z
    <3>6. AnswersIn(q, z)
      <4> SUFFICES ASSUME NEW k \in 1..Len(q), NEW j \in 1..Len(q[k].msgs)
                   PROVE  /\ q[k].msgs[j].of \in {q[k].seq, q[k].seq + 1}
                          /\ q[k].msgs[j].of <= z
        BY DEF AnswersIn
      <4>1. CASE k = Len(q)
        BY <3>3, <4>1
      <4>2. CASE k \in 1..Len(reply_ack_queue)
        BY <2>1, <2>3, <3>2, <3>5, <4>2 DEF Answers, AnswersIn
      <4> QED BY <3>4, <4>1, <4>2
    <3> QED BY <3>6 DEF Answers, q, z
  <2> QED BY <2>2, <2>4, <2>5
<1>3. CASE reply_ack_queue' = reply_ack_queue /\ seq' = seq
  BY <1>3 DEF Answers
<1>4. CASE reply_ack_queue' = Unregister(seq) /\ seq' = seq
  BY <1>0, <1>4, AnswersUnregistered
<1>5. CASE /\ pc \in Busy /\ Len(Msgs(seq)) > 0 /\ seq' = seq
           /\ reply_ack_queue' = WithMsgs(seq, Tail(Msgs(seq)))
  BY <1>5, TakenAnswers DEF Answers
<1>6. CASE SkipKnown \/ SendFails \/ AfterShort \/ AfterFirst \/ AfterSecond
  BY <1>3, <1>4, <1>6
     DEF SkipKnown, SendFails, AfterShort, AfterFirst, AfterSecond
<1>7. CASE Check
  BY <1>3, <1>5, <1>7 DEF Check, Busy
<1>8. CASE Pop
  <2>1. Len(Msgs(seq)) \in Nat /\ pc \in Busy /\ seq' = seq
    BY <1>0, <1>8, Kept, EntryFound DEF Busy, Pop
  <2> QED BY <1>3, <1>5, <1>8, <2>1 DEF Pop
<1>9. CASE End
  BY <1>9 DEF End, Answers, AnswersIn
<1>10. CASE Send \/ Lock \/ Wait \/ Wake \/ TimedOut \/ Arm \/ Signal \/ FindNext
            \/ Lose \/ UNCHANGED vars
  BY <1>3, <1>10
     DEF Send, Lock, Wait, Wake, TimedOut, Arm, Signal, FindNext, Lose, vars
<1> QED BY <1>1, <1>2, <1>6, <1>7, <1>8, <1>9, <1>10
        DEF Next, SensorThread, Waiting, Returning, Receiver

\* The buffer gets only answers to the request, and is empty for a new one.
LEMMA BufferKept == BaseInv /\ Answers /\ BufferOf /\ [Next]_vars => BufferOf'
<1> SUFFICES ASSUME BaseInv, Answers, BufferOf, [Next]_vars
             PROVE  BufferOf'
  OBVIOUS
<1> USE DEF condvar, request, locals, progress
<1>1. CASE Request
  BY <1>1 DEF Request, BufferOf
<1>2. CASE readBuf' = readBuf /\ seq' = seq
  BY <1>2 DEF BufferOf
<1>3. CASE /\ pc \in Busy /\ Len(Msgs(seq)) > 0 /\ seq' = seq
           /\ readBuf' = Head(Msgs(seq))
  BY <1>3, TakenAnswers DEF BufferOf
<1>4. CASE Check
  BY <1>2, <1>3, <1>4 DEF Check, Busy
<1>5. CASE Pop
  <2>1. Len(Msgs(seq)) \in Nat /\ pc \in Busy /\ seq' = seq
    BY <1>5, Kept, EntryFound DEF Busy, Pop, BaseInv, TypeOK
  <2> QED BY <1>2, <1>3, <1>5, <2>1 DEF Pop
<1>6. CASE SkipKnown \/ SendFails \/ AfterShort \/ AfterFirst \/ AfterSecond \/ End
  BY <1>2, <1>6
     DEF SkipKnown, SendFails, AfterShort, AfterFirst, AfterSecond, End
<1>7. CASE Send \/ Lock \/ Wait \/ Wake \/ TimedOut \/ Arm \/ Receive \/ Signal
           \/ FindNext \/ Lose \/ UNCHANGED vars
  BY <1>2, <1>7
     DEF Send, Lock, Wait, Wake, TimedOut, Arm, Receive, Signal, FindNext, Lose, vars
<1> QED BY <1>1, <1>4, <1>5, <1>6, <1>7
        DEF Next, SensorThread, Waiting, Returning, Receiver

\* Messages reach only the requests that they answer.
LEMMA AnswersAlways == Spec => [](BaseInv /\ AnswerInv)
<1>1. Init => AnswerInv
  BY DEF Init, AnswerInv, Sent, Answers, AnswersIn, BufferOf
<1>2. BaseInv /\ AnswerInv /\ [Next]_vars => AnswerInv'
  BY SentKept, AnswersKept, BufferKept DEF AnswerInv
<1> QED BY <1>1, <1>2, InitBase, NextBase, PTL DEF Spec

-----------------------------------------------------------------------------
(* Entries and their numbers                                               *)

\* No two entries have the same number and none has one that is still to come:
\* what l_queue_foreach_remove takes out for a number is at most one entry.
Numbered ==
  /\ \A k \in 1..Len(reply_ack_queue) : reply_ack_queue[k].seq <= seq
  /\ \A j, k \in 1..Len(reply_ack_queue) :
       reply_ack_queue[j].seq = reply_ack_queue[k].seq => j = k

\* Entries that come from entries at other positions.
LEMMA NumberedMoved ==
  ASSUME Numbered, seq' = seq,
         NEW f \in [1..Len(reply_ack_queue') -> 1..Len(reply_ack_queue)],
         \A j \in 1..Len(reply_ack_queue') :
            reply_ack_queue'[j].seq = reply_ack_queue[f[j]].seq,
         \A i, j \in 1..Len(reply_ack_queue') : i # j => f[i] # f[j]
  PROVE  Numbered'
<1> DEFINE q == reply_ack_queue'
<1>1. \A j \in 1..Len(q) : f[j] \in 1..Len(reply_ack_queue)
  OBVIOUS
<1>2. \A j \in 1..Len(q) : q[j].seq <= seq
  BY <1>1 DEF Numbered
<1>3. \A i, j \in 1..Len(q) : q[i].seq = q[j].seq => f[i] = f[j]
  BY <1>1 DEF Numbered
<1>4. \A i, j \in 1..Len(q) : q[i].seq = q[j].seq => i = j
  BY <1>3
<1> QED BY <1>2, <1>4 DEF Numbered

\* A change to the messages only.
LEMMA NumberedRequeued ==
  ASSUME Numbered, seq' = seq, RegistryType, NEW s, Registered(s),
         NEW m \in Seq(Block), reply_ack_queue' = WithMsgs(s, m)
  PROVE  Numbered'
<1> DEFINE q == reply_ack_queue'
<1>1. q = WithMsgs(s, m)
  OBVIOUS
<1> HIDE DEF q
<1>2. /\ Len(q) = Len(reply_ack_queue)
      /\ \A k \in 1..Len(q) : q[k].seq = reply_ack_queue[k].seq
  BY <1>1, Requeued
<1> QED BY <1>2 DEF Numbered, q

\* Numbers are used once.
LEMMA NumberedKept == BaseInv /\ Numbered /\ [Next]_vars => Numbered'
<1> SUFFICES ASSUME BaseInv, Numbered, [Next]_vars
             PROVE  Numbered'
  OBVIOUS
<1> USE DEF condvar, request, locals, progress
<1>0. RegistryType /\ seq \in Int
  BY SeqNat DEF BaseInv, TypeOK
<1>1. CASE reply_ack_queue' = reply_ack_queue /\ seq' = seq
  BY <1>1 DEF Numbered
<1>2. CASE reply_ack_queue' = Unregister(seq) /\ seq' = seq
  <2>1. PICK f \in [1..Len(reply_ack_queue') -> 1..Len(reply_ack_queue)] :
          /\ \A j \in 1..Len(reply_ack_queue') :
               reply_ack_queue'[j] = reply_ack_queue[f[j]]
          /\ \A i, j \in 1..Len(reply_ack_queue') : i # j => f[i] # f[j]
    BY <1>0, <1>2, Unregistered
  <2> QED BY <1>2, <2>1, NumberedMoved
<1>3. CASE /\ pc \in Busy /\ Len(Msgs(seq)) > 0 /\ seq' = seq
           /\ reply_ack_queue' = WithMsgs(seq, Tail(Msgs(seq)))
  <2> DEFINE m == Tail(Msgs(seq))
  <2>1. m \in Seq(Block) /\ Registered(seq) /\ reply_ack_queue' = WithMsgs(seq, m)
    BY <1>0, <1>3, Kept, EntryFound
  <2> HIDE DEF m
  <2> QED BY <1>0, <1>3, <2>1, NumberedRequeued
<1>4. CASE Request
  <2>1. seq' = seq + 1 /\ seq' \in SeqNo
    BY <1>4, RequestNumber
  <2>2. \A k \in 1..Len(reply_ack_queue) : reply_ack_queue[k].seq \in Int
    <3>1. \A k \in 1..Len(reply_ack_queue) : reply_ack_queue[k] \in Entry
      BY <1>0 DEF RegistryType
    <3>2. \A k \in 1..Len(reply_ack_queue) : reply_ack_queue[k].seq \in SeqNo
      BY <3>1 DEF Entry
    <3> QED BY <3>2, LimitsAssumption DEF SeqNo
  <2>3. CASE reply_ack_queue' = reply_ack_queue
    BY <1>0, <2>1, <2>2, <2>3 DEF Numbered
  <2>4. ASSUME NEW p \in Prim, reply_ack_queue' = Register(seq', p)
        PROVE  Numbered'
    <3> DEFINE q == reply_ack_queue'
               z == seq'
    <3>1. q = Register(z, p) /\ z \in SeqNo /\ z = seq + 1
      BY <2>1, <2>4
    <3> HIDE DEF q, z
    <3>2. /\ Len(q) = Len(reply_ack_queue) + 1
          /\ \A k \in 1..Len(reply_ack_queue) : q[k] = reply_ack_queue[k]
          /\ q[Len(q)] = [seq |-> z, prim |-> p, msgs |-> <<>>]
      BY <1>0, <3>1, Added
    <3>3. q[Len(q)].seq = z /\ Len(reply_ack_queue) \in Nat
      BY <1>0, <3>2 DEF RegistryType
    <3>4. \A k \in 1..Len(q) : k = Len(q) \/ k \in 1..Len(reply_ack_queue)
      BY <3>2, <3>3
    <3>5. \A k \in 1..Len(reply_ack_queue) : q[k].seq < z
      BY <1>0, <2>2, <3>1, <3>2 DEF Numbered
    <3>6. \A k \in 1..Len(q) : q[k].seq <= z
      BY <1>0, <2>2, <3>1, <3>2, <3>3, <3>4 DEF Numbered
    <3>7. \A j, k \in 1..Len(q) : q[j].seq = q[k].seq => j = k
      BY <1>0, <2>2, <3>1, <3>2, <3>3, <3>4, <3>5 DEF Numbered
    <3> QED BY <3>6, <3>7 DEF Numbered, q, z
  <2> QED BY <1>4, <2>3, <2>4 DEF Request, Prim
<1>5. CASE Receive
  <2>1. seq' = seq /\ link # <<>>
    BY <1>5 DEF Receive
  <2>2. \/ reply_ack_queue' = reply_ack_queue
        \/ \E ok \in BOOLEAN : \E s :
             LET m == Head(link)
                 block == [of |-> m.of, blk |-> m.blk, total |-> m.total, ok |-> ok]
             IN  Registered(s)
                 /\ reply_ack_queue' = WithMsgs(s, Append(Msgs(s), block))
    BY <1>5, HitRegistered DEF Receive
  <2>3. ASSUME NEW ok \in BOOLEAN, NEW s, Registered(s),
               reply_ack_queue' = WithMsgs(s, Append(Msgs(s),
                 [of |-> Head(link).of, blk |-> Head(link).blk,
                  total |-> Head(link).total, ok |-> ok]))
        PROVE  Numbered'
    <3> DEFINE block == [of |-> Head(link).of, blk |-> Head(link).blk,
                         total |-> Head(link).total, ok |-> ok]
               n == Append(Msgs(s), block)
    <3>1. block \in Block
      BY <2>1, Queued
    <3>2. reply_ack_queue' = WithMsgs(s, n)
      BY <2>3
    <3> HIDE DEF block
    <3>3. n \in Seq(Block)
      BY <1>0, <2>3, <3>1, EntryFound
    <3> HIDE DEF n
    <3> QED BY <1>0, <2>1, <2>3, <3>2, <3>3, NumberedRequeued
  <2> QED BY <1>1, <2>1, <2>2, <2>3
<1>6. CASE SkipKnown \/ SendFails \/ AfterShort \/ AfterFirst \/ AfterSecond
  BY <1>1, <1>2, <1>6
     DEF SkipKnown, SendFails, AfterShort, AfterFirst, AfterSecond
<1>7. CASE Check
  BY <1>1, <1>3, <1>7 DEF Check, Busy
<1>8. CASE Pop
  <2>1. Len(Msgs(seq)) \in Nat /\ pc \in Busy /\ seq' = seq
    BY <1>0, <1>8, Kept, EntryFound DEF Busy, Pop
  <2> QED BY <1>1, <1>3, <1>8, <2>1 DEF Pop
<1>9. CASE End
  BY <1>9, EmptySeq DEF End, Numbered
<1>10. CASE Send \/ Lock \/ Wait \/ Wake \/ TimedOut \/ Arm \/ Signal \/ FindNext
            \/ Lose \/ UNCHANGED vars
  BY <1>1, <1>10
     DEF Send, Lock, Wait, Wake, TimedOut, Arm, Signal, FindNext, Lose, vars
<1> QED BY <1>4, <1>5, <1>6, <1>7, <1>8, <1>9, <1>10
        DEF Next, SensorThread, Waiting, Returning, Receiver

\* The numbers of the entries are distinct in every session, so that letting a
\* number go takes out one entry at most and leaves those of other requests
\* (q_match_reply_ack and l_queue_foreach_remove in unregisterReplyAck).
THEOREM NumbersDistinct == Spec => []Numbered
<1>1. Init => Numbered
  BY EmptySeq DEF Init, Numbered
<1> QED BY <1>1, NumberedKept, BaseAlways, PTL DEF Spec

-----------------------------------------------------------------------------
(* What reaches the database                                               *)

\* WaveformOrdered of one waveform.
Ordered(w) ==
  /\ w[1].blk = 0 /\ w[Len(w)].blk = w[1].total - 1
  /\ \A k \in 1..Len(w) : w[k].of = w[1].of
  /\ \A k \in 1..Len(w) - 1 : w[k].blk < w[k + 1].blk

\* A file under way, in the turn of the loop for block n out of t: blocks of
\* the one request s, from block 0 on, all of them before block n.
UnderWay(w, n, t, s) ==
  /\ Len(w) >= 1 /\ n >= 1 /\ n < t
  /\ w[1].blk = 0 /\ w[1].total = t
  /\ \A k \in 1..Len(w) : w[k].of = s /\ w[k].blk < n
  /\ \A k \in 1..Len(w) - 1 : w[k].blk < w[k + 1].blk

FileInv == call = "second" /\ pc \in Busy => UnderWay(file, blkCnt, totalBlock, seq)

\* A turn that adds nothing to the file.
LEMMA FilePassed ==
  ASSUME NEW w \in Seq(Block), NEW n \in Nat, NEW t \in Nat, NEW s,
         UnderWay(w, n, t, s), n + 1 < t
  PROVE  UnderWay(w, n + 1, t, s)
<1>1. \A k \in 1..Len(w) : w[k].blk \in Nat
  <2>1. \A k \in 1..Len(w) : w[k] \in Block
    OBVIOUS
  <2> QED BY <2>1 DEF Block
<1> QED BY <1>1 DEF UnderWay

\* A turn that adds the expected block.
LEMMA FileExtended ==
  ASSUME NEW w \in Seq(Block), NEW n \in Nat, NEW t \in Nat, NEW s,
         UnderWay(w, n, t, s), NEW m \in Block, m.blk = n, m.of = s,
         NEW v, v = Append(w, m)
  PROVE  /\ n + 1 < t => UnderWay(v, n + 1, t, s)
         /\ n + 1 >= t => Ordered(v)
<1>1. /\ v \in Seq(Block) /\ Len(v) = Len(w) + 1 /\ Len(w) \in Nat
      /\ \A k \in 1..Len(w) : v[k] = w[k]
      /\ v[Len(w) + 1] = m
  BY AppendProperties
<1>2. Len(w) >= 1 /\ v[1] = w[1] /\ v[1].blk = 0 /\ v[1].total = t
  BY <1>1 DEF UnderWay
<1>3. \A k \in 1..Len(v) : k \in 1..Len(w) \/ k = Len(w) + 1
  BY <1>1
<1>4. \A k \in 1..Len(w) : w[k].blk \in Nat
  <2>1. \A k \in 1..Len(w) : w[k] \in Block
    OBVIOUS
  <2> QED BY <2>1 DEF Block
<1>5. \A k \in 1..Len(v) : v[k].of = s /\ v[k].blk < n + 1
  BY <1>1, <1>3, <1>4 DEF UnderWay
<1>6. \A k \in 1..Len(v) - 1 : v[k].blk < v[k + 1].blk
  <2> SUFFICES ASSUME NEW k \in 1..Len(v) - 1
               PROVE  v[k].blk < v[k + 1].blk
    OBVIOUS
  <2>1. k \in 1..Len(w) /\ v[k] = w[k]
    BY <1>1
  <2>2. CASE k = Len(w)
    BY <1>1, <2>1, <2>2 DEF UnderWay
  <2>3. CASE k # Len(w)
    <3>1. k \in 1..Len(w) - 1 /\ k + 1 \in 1..Len(w)
      BY <1>1, <2>1, <2>3
    <3> QED BY <1>1, <2>1, <3>1 DEF UnderWay
  <2> QED BY <2>2, <2>3
<1>7. ASSUME n + 1 < t PROVE UnderWay(v, n + 1, t, s)
  BY <1>1, <1>2, <1>5, <1>6, <1>7 DEF UnderWay
<1>8. ASSUME n + 1 >= t PROVE Ordered(v)
  <2>1. n = t - 1
    BY <1>8 DEF UnderWay
  <2>2. v[Len(v)].blk = n
    BY <1>1
  <2>3. 1 \in 1..Len(v)
    BY <1>1, <1>2
  <2> QED BY <1>2, <1>5, <1>6, <2>1, <2>2, <2>3 DEF Ordered
<1> QED BY <1>7, <1>8

\* One turn of the loop: the file stays in order, and only a file that ends
\* with the last block is stored.
LEMMA TakeOrdered ==
  ASSUME BaseInv, WaveformOrdered, UnderWay(file, blkCnt, totalBlock, seq),
         NEW m \in Block, m.of = seq, Take(m)
  PROVE  /\ WaveformOrdered'
         /\ pc' = "check" => UnderWay(file', blkCnt', totalBlock, seq)
<1> DEFINE good == Remained(m) /\ Expected(m) /\ ~skip_pkt_fg
           db == IF good THEN stored \cup {file'} ELSE stored
<1>1. file \in Seq(Block) /\ blkCnt \in Nat /\ totalBlock \in Nat
  BY DEF BaseInv, TypeOK, DataType
<1>2. file' = IF good THEN Append(file, m) ELSE file
  BY DEF Take
<1>3. LastOne <=> blkCnt + 1 >= totalBlock
  BY DEF LastOne
<1>4. CASE ~LastOne
  <2>1. pc' = "check" /\ blkCnt' = blkCnt + 1 /\ stored' = stored
    BY <1>4 DEF Take, progress
  <2>2. blkCnt + 1 < totalBlock
    BY <1>1, <1>3, <1>4
  <2>3. WaveformOrdered'
    BY <2>1 DEF WaveformOrdered
  <2>4. CASE good
    <3>1. m.blk = blkCnt /\ file' = Append(file, m)
      BY <1>2, <2>4 DEF Expected
    <3>2. UnderWay(file', blkCnt + 1, totalBlock, seq)
      BY <1>1, <2>2, <3>1, FileExtended
    <3> QED BY <2>1, <2>3, <3>2
  <2>5. CASE ~good
    <3>1. file' = file
      BY <1>2, <2>5
    <3>2. UnderWay(file, blkCnt + 1, totalBlock, seq)
      BY <1>1, <2>2, FilePassed
    <3> QED BY <2>1, <2>3, <3>1, <3>2
  <2> QED BY <2>4, <2>5
<1>5. CASE LastOne
  <2>1. (Again \/ Advance(db)) /\ pc' # "check"
    BY <1>5 DEF Take, Again, Advance
  <2>2. stored' \in {stored, db}
    BY <2>1 DEF Again, Advance
  <2>3. CASE stored' = stored
    BY <2>1, <2>3 DEF WaveformOrdered
  <2>4. CASE good /\ stored' = stored \cup {file'}
    <3>1. m.blk = blkCnt /\ file' = Append(file, m)
      BY <1>2, <2>4 DEF Expected
    <3>2. Ordered(file')
      BY <1>1, <1>3, <1>5, <3>1, FileExtended
    <3>3. WaveformOrdered'
      BY <2>4, <3>2 DEF WaveformOrdered, Ordered
    <3> QED BY <2>1, <3>3
  <2> QED BY <2>2, <2>3, <2>4
<1> QED BY <1>4, <1>5

\* A file begins with the first block, and may end with it.
LEMMA FirstOrdered ==
  ASSUME BaseInv, BufferOf, WaveformOrdered, AfterFirst
  PROVE  WaveformOrdered' /\ FileInv'
<1>1. seq' = seq /\ pc = "after" /\ call = "first"
  BY DEF AfterFirst
<1>2. CASE (Again \/ Advance(stored)) /\ UNCHANGED call
  BY <1>1, <1>2 DEF Again, Advance, WaveformOrdered, FileInv
<1>3. CASE /\ FirstPacket(readBuf)
           /\ totalBlock' = readBuf.total
           /\ file' = <<readBuf>>
           /\ blkCnt' = 1
           /\ IF readBuf.total = 1
              THEN Advance(stored \cup {file'}) /\ UNCHANGED call
              ELSE pc' = "check" /\ call' = "second" /\ UNCHANGED progress
  <2>1. /\ readBuf \in Block /\ readBuf.of = seq /\ readBuf.blk = 0
    BY <1>3 DEF FirstPacket, BaseInv, TypeOK, DataType, BufferOf
  <2>2. readBuf.total \in Nat /\ readBuf.total # 0
    <3>1. readBuf.total \in Totals \cup {1}
      BY <2>1 DEF Block
    <3>2. \A t \in Totals \cup {1} : t \in Nat /\ t # 0
      BY TotalsAssumption
    <3> QED BY <3>1, <3>2
  <2>3. Len(file') = 1 /\ file'[1] = readBuf
    BY <1>3
  <2>4. CASE readBuf.total = 1
    <3>1. stored' = stored \cup {file'} /\ call' = call
      BY <1>3, <2>4 DEF Advance
    <3>2. Ordered(file')
      BY <2>1, <2>3, <2>4 DEF Ordered
    <3>3. WaveformOrdered'
      BY <3>1, <3>2 DEF WaveformOrdered, Ordered
    <3> QED BY <1>1, <3>1, <3>3 DEF FileInv
  <2>5. CASE readBuf.total # 1
    <3>1. stored' = stored
      BY <1>3, <2>5 DEF progress
    <3>2. UnderWay(file', blkCnt', totalBlock', seq')
      BY <1>1, <1>3, <2>1, <2>2, <2>3, <2>5 DEF UnderWay
    <3> QED BY <3>1, <3>2 DEF WaveformOrdered, FileInv
  <2> QED BY <2>4, <2>5
<1> QED BY <1>2, <1>3 DEF AfterFirst

\* No step puts the file or the database out of order.
LEMMA OrderKept ==
  BaseInv /\ AnswerInv /\ FileInv /\ WaveformOrdered /\ [Next]_vars
    => FileInv' /\ WaveformOrdered'
<1> SUFFICES ASSUME BaseInv, AnswerInv, FileInv, WaveformOrdered, [Next]_vars
             PROVE  FileInv' /\ WaveformOrdered'
  OBVIOUS
<1> USE DEF condvar, request, locals, progress
<1>1. CASE AfterFirst
  BY <1>1, FirstOrdered DEF AnswerInv
<1>2. CASE stored' = stored /\ pc' \notin Busy
  BY <1>2 DEF FileInv, WaveformOrdered
<1>3. CASE /\ stored' = stored /\ pc \in Busy
           /\ UNCHANGED <<file, call, blkCnt, totalBlock, seq>>
  BY <1>3 DEF FileInv, WaveformOrdered
<1>4. CASE SkipKnown \/ SendFails \/ AfterShort \/ End
  BY <1>2, <1>4 DEF SkipKnown, SendFails, AfterShort, End, Again, Advance, Busy
<1>5. CASE Request
  <2>1. call' # "second" /\ stored' = stored
    BY <1>5 DEF Request, Again
  <2> QED BY <2>1 DEF FileInv, WaveformOrdered
<1>6. CASE Send \/ Waiting \/ Arm
  BY <1>3, <1>6 DEF Send, Waiting, Lock, Wait, Wake, TimedOut, Pop, Arm, Busy
<1>7. CASE Check
  <2>1. call = "second" /\ UNCHANGED <<call, seq, totalBlock>> /\ pc = "check"
        /\ pc \in Busy
    BY <1>7 DEF Check, BaseInv, HasBuffer, Busy
  <2>2. CASE /\ Len(Msgs(seq)) > 0
             /\ readBuf' = Head(Msgs(seq))
             /\ reply_ack_queue' = WithMsgs(seq, Tail(Msgs(seq)))
             /\ Take(readBuf')
    <3> DEFINE m == readBuf'
    <3>1. m \in Block
      BY <2>1, <2>2, TakenFirst
    <3>2. m.of = seq
      BY <2>1, <2>2, TakenAnswers DEF AnswerInv
    <3>3. Take(m)
      BY <2>2
    <3> HIDE DEF m
    <3>4. UnderWay(file, blkCnt, totalBlock, seq)
      BY <2>1 DEF FileInv
    <3>5. /\ WaveformOrdered'
          /\ pc' = "check" => UnderWay(file', blkCnt', totalBlock, seq)
      BY <3>1, <3>2, <3>3, <3>4, TakeOrdered
    <3>6. pc' \in {"check", "start", "end"}
      BY <3>3 DEF Take, Again, Advance
    <3> QED BY <2>1, <3>5, <3>6 DEF FileInv, Busy
  <2>3. CASE UNCHANGED <<blkCnt, file, stored>>
    BY <1>3, <2>1, <2>3
  <2> QED BY <1>7, <2>2, <2>3 DEF Check
<1>8. CASE AfterSecond
  <2>1. call = "second" /\ UNCHANGED <<call, seq, totalBlock, readBuf>> /\ pc \in Busy
    BY <1>8 DEF AfterSecond, Busy
  <2>2. CASE Take(readBuf)
    <3>1. readBuf \in Block /\ readBuf.of = seq
      BY <2>1 DEF BaseInv, TypeOK, DataType, HasBuffer, AnswerInv, BufferOf
    <3>2. UnderWay(file, blkCnt, totalBlock, seq)
      BY <2>1 DEF FileInv
    <3>3. /\ WaveformOrdered'
          /\ pc' = "check" => UnderWay(file', blkCnt', totalBlock, seq)
      BY <2>2, <3>1, <3>2, TakeOrdered
    <3>4. pc' \in {"check", "start", "end"}
      BY <2>2 DEF Take, Again, Advance
    <3> QED BY <2>1, <3>3, <3>4 DEF FileInv, Busy
  <2>3. CASE Again
    BY <1>2, <2>3 DEF Again, Busy
  <2> QED BY <1>8, <2>2, <2>3 DEF AfterSecond
<1>9. CASE Receiver \/ Lose \/ UNCHANGED vars
  <2>1. UNCHANGED <<pc, stored, file, call, blkCnt, totalBlock, seq>>
    BY <1>9 DEF Receiver, Receive, Signal, FindNext, Lose, vars
  <2> QED BY <2>1 DEF FileInv, WaveformOrdered
<1> QED BY <1>1, <1>4, <1>5, <1>6, <1>7, <1>8, <1>9
        DEF Next, SensorThread, Returning

\* What collectData hands to the database holds blocks of one request only,
\* starts with block 0, ends with the last block and never goes back, for any
\* number of blocks, retries and leftover entries and whatever gets lost.
THEOREM WaveformsInOrder == Spec => []WaveformOrdered
<1>1. Init => FileInv /\ WaveformOrdered
  BY DEF Init, FileInv, WaveformOrdered, Busy
<1>2. BaseInv /\ AnswerInv /\ FileInv /\ WaveformOrdered /\ [Next]_vars
        => (FileInv /\ WaveformOrdered)'
  BY OrderKept
<1> QED BY <1>1, <1>2, AnswersAlways, PTL DEF Spec

-----------------------------------------------------------------------------
(* A short request and its reply                                           *)

\* While the short data is asked for, the registry holds the entry of this
\* request and nothing else.
ShortPlace ==
  /\ item = 0 => call = "short"
  /\ call = "short" /\ pc \in Busy => item = 0
  /\ item = 0 /\ pc \notin Busy => reply_ack_queue = <<>>
  /\ item = 0 /\ pc \in Busy => Len(reply_ack_queue) = 1

\* What is left of the numbers that a message acknowledges is old.
ShortAcks ==
  item = 0 /\ rx.pc # "idle" =>
    \A k \in 1..Len(rx.acks) : rx.acks[k] \in Int /\ rx.acks[k] < seq

\* The request has one reply, which is either still under way or queued, and
\* neither the flag nor a signal comes before it.
ShortWait == {"send", "lock", "armed", "wait", "pop"}
ShortMsgs ==
  item = 0 /\ pc \in ShortWait =>
    LET n == Len(reply_ack_queue[1].msgs) IN
    /\ n <= 1
    /\ pc = "send" => n = 0
    /\ n = 1 => \A i \in 1..Len(link) : link[i].of # seq
    /\ \A i, j \in 1..Len(link) : link[i].of = seq /\ link[j].of = seq => i = j
    /\ is_op_done => n = 1
    /\ rx.pc = "signal" => n = 1

\* A wait that has not timed out has filled the buffer.
ShortFilled == item = 0 /\ pc = "after" /\ rt => readBuf # NoMsg

ShortInv == ShortPlace /\ ShortAcks /\ ShortMsgs /\ ShortFilled

\* collectData never comes back to the short data.
LEMMA ItemGrows ==
  ASSUME BaseInv, [Next]_vars, item' = 0
  PROVE  item = 0
<1> USE DEF condvar, request, locals, progress
<1>0. item \in Nat
  BY ItemsAssumption DEF BaseInv, TypeOK, CountType
<1>1. item' \in {item, item + 1}
  <2>1. CASE SkipKnown \/ SendFails \/ AfterShort \/ AfterFirst
    BY <2>1 DEF SkipKnown, SendFails, AfterShort, AfterFirst, Again, Advance
  <2>2. CASE Check \/ AfterSecond
    BY <2>2 DEF Check, AfterSecond, Take, Again, Advance
  <2>3. CASE Request \/ Send \/ End \/ Waiting \/ Arm
    BY <2>3
       DEF Request, Again, Send, End, Waiting, Lock, Wait, Wake, TimedOut, Pop, Arm
  <2>4. CASE Receiver \/ Lose \/ UNCHANGED vars
    BY <2>4 DEF Receiver, Receive, Signal, FindNext, Lose, vars
  <2> QED BY <2>1, <2>2, <2>3, <2>4 DEF Next, SensorThread, Returning
<1> QED BY <1>0, <1>1

\* The one entry of a short request.
LEMMA ShortEntry ==
  ASSUME BaseInv, ShortPlace, item = 0, pc \in Busy
  PROVE  /\ Len(reply_ack_queue) = 1 /\ reply_ack_queue[1].seq = seq
         /\ At(seq) = 1 /\ Registered(seq)
         /\ Msgs(seq) = reply_ack_queue[1].msgs /\ Msgs(seq) \in Seq(Block)
<1>1. Registered(seq) /\ Len(reply_ack_queue) = 1
  BY Kept DEF ShortPlace
<1>2. /\ At(seq) \in 1..Len(reply_ack_queue) /\ reply_ack_queue[At(seq)].seq = seq
      /\ Msgs(seq) = reply_ack_queue[At(seq)].msgs /\ Msgs(seq) \in Seq(Block)
  BY <1>1, EntryFound DEF BaseInv, TypeOK
<1> QED BY <1>1, <1>2

\* Once it is let go nothing is left.
LEMMA ShortUnregistered ==
  ASSUME BaseInv, ShortPlace, item = 0, pc \in Busy,
         NEW q, q = Unregister(seq)
  PROVE  q = <<>>
<1>1. /\ Len(reply_ack_queue) = 1 /\ At(seq) = 1 /\ Registered(seq)
      /\ reply_ack_queue \in Seq(Entry)
  BY ShortEntry DEF BaseInv, TypeOK, RegistryType
<1>2. q = RemovePosition(reply_ack_queue, 1)
  BY <1>1 DEF Unregister
<1>3. q \in Seq(Entry) /\ Len(q) = Len(reply_ack_queue) - 1
  <2>1. 1 \in 1..Len(reply_ack_queue)
    BY <1>1
  <2> QED BY <1>1, <1>2, <2>1, Removed
<1> QED BY <1>1, <1>3, EmptySeq

\* The only message that gets to the entry is the reply, and then it is the
\* last of the numbers that it acknowledges that is taken off.
LEMMA ShortHit ==
  ASSUME BaseInv, Sent, ShortPlace, item = 0, link # <<>>,
         NEW m, m = Head(link), Hits(m.acks, m.prim) # {},
         NEW s, s = reply_ack_queue[FirstHit(m.acks, m.prim)].seq
  PROVE  /\ pc \in Busy /\ pc # "send" /\ s = seq /\ m.of = seq
         /\ \A k \in 1..Len(RemoveAck(m.acks, AckIndex(m.acks, s))) :
              /\ RemoveAck(m.acks, AckIndex(m.acks, s))[k] \in Int
              /\ RemoveAck(m.acks, AckIndex(m.acks, s))[k] < seq
<1>1. PICK k \in 1..Len(reply_ack_queue) :
        /\ s = reply_ack_queue[k].seq
        /\ \E i \in 1..Len(m.acks) : m.acks[i] = s
  BY HitFound DEF Hits
<1>2. pc \in Busy
  BY <1>1, EmptySeq DEF ShortPlace
<1>3. s = seq /\ seq \in Int
  <2>1. /\ Len(reply_ack_queue) = 1 /\ reply_ack_queue[1].seq = seq
        /\ seq \in Int
    BY <1>2, ShortEntry, SeqNat DEF BaseInv
  <2>2. k = 1
    BY <2>1
  <2> QED BY <1>1, <2>1, <2>2
<1>4. /\ m.of <= seq /\ (pc = "send" => m.of < seq) /\ m.of \in Int
      /\ m.acks = <<m.of>> \/ m.acks = <<m.of - 1, m.of>>
  <2>1. m = link[1] /\ 1 \in 1..Len(link) /\ m \in Message
    BY LinkShorter, Queued DEF BaseInv, TypeOK
  <2>2. m.of \in SeqNo
    BY <2>1 DEF Message
  <2> QED BY <2>1, <2>2, LimitsAssumption DEF Sent, SeqNo
<1> DEFINE x == m.of
           acks == m.acks
<1>5. PICK i \in 1..Len(acks) : acks[i] = seq
  BY <1>1, <1>3
<1>6. x = seq /\ pc # "send"
  BY <1>3, <1>4, <1>5
<1>7. Len(acks) \in {1, 2} /\ acks[Len(acks)] = seq
      /\ (Len(acks) = 2 => acks[1] = seq - 1)
  <2> HIDE DEF acks, x
  <2>1. CASE acks = <<x>>
    BY <1>3, <1>6, <2>1
  <2>2. CASE acks = <<x - 1, x>>
    BY <1>3, <1>6, <2>2
  <2> QED BY <1>4, <2>1, <2>2 DEF acks, x
<1>8. AckIndex(acks, s) = Len(acks)
  <2>1. \A j \in 1..Len(acks) : acks[j] = seq => j = Len(acks)
    BY <1>3, <1>7
  <2>2. Len(acks) \in 1..Len(acks)
    BY <1>7
  <2> HIDE DEF acks
  <2>3. AckIndex(acks, seq) \in 1..Len(acks) /\ acks[AckIndex(acks, seq)] = seq
    <3>1. /\ acks[Len(acks)] = seq
          /\ \A j \in 1..Len(acks) : acks[j] = seq => Len(acks) <= j
      BY <1>7, <2>1
    <3> QED BY <2>2, <3>1 DEF AckIndex
  <2> QED BY <1>3, <2>1, <2>3
<1> HIDE DEF acks
<1> DEFINE r == RemoveAck(acks, Len(acks))
<1>9. Len(r) = Len(acks) - 1 /\ \A z \in 1..Len(acks) - 1 : r[z] = acks[z]
  BY <1>7 DEF RemoveAck
<1>10. \A z \in 1..Len(r) : r[z] \in Int /\ r[z] < seq
  <2> HIDE DEF r
  <2> QED BY <1>3, <1>7, <1>9
<1> QED BY <1>2, <1>3, <1>6, <1>8, <1>10 DEF acks

\* What a received message does while the short data is asked for.
LEMMA ShortReceive ==
  ASSUME BaseInv, Sent, ShortPlace, item = 0, Receive
  PROVE  /\ link # <<>> /\ link' = Tail(link)
         /\ \/ UNCHANGED <<reply_ack_queue, rx>>
            \/ /\ pc \in Busy /\ pc # "send" /\ Head(link).of = seq
               /\ Len(reply_ack_queue') = 1
               /\ Len(reply_ack_queue'[1].msgs)
                    = Len(reply_ack_queue[1].msgs) + 1
               /\ \A k \in 1..Len(rx'.acks) :
                    rx'.acks[k] \in Int /\ rx'.acks[k] < seq
<1>1. PICK ok \in BOOLEAN :
        LET m == Head(link)
            block == [of |-> m.of, blk |-> m.blk, total |-> m.total, ok |-> ok]
        IN
        IF Hits(m.acks, m.prim) = {}
        THEN UNCHANGED <<reply_ack_queue, rx>>
        ELSE LET s == reply_ack_queue[FirstHit(m.acks, m.prim)].seq IN
             /\ reply_ack_queue' = WithMsgs(s, Append(Msgs(s), block))
             /\ rx' = [pc |-> "signal", prim |-> m.prim,
                       acks |-> RemoveAck(m.acks, AckIndex(m.acks, s))]
  BY DEF Receive
<1> DEFINE m == Head(link)
           block == [of |-> m.of, blk |-> m.blk, total |-> m.total, ok |-> ok]
           s == reply_ack_queue[FirstHit(m.acks, m.prim)].seq
           q == reply_ack_queue'
           n == Append(Msgs(s), block)
<1>2. link # <<>> /\ link' = Tail(link)
  BY DEF Receive
<1>3. CASE Hits(m.acks, m.prim) = {}
  BY <1>1, <1>2, <1>3
<1>4. CASE Hits(m.acks, m.prim) # {}
  <2>1. /\ q = WithMsgs(s, n)
        /\ rx' = [pc |-> "signal", prim |-> m.prim,
                  acks |-> RemoveAck(m.acks, AckIndex(m.acks, s))]
    BY <1>1, <1>4
  <2>2. /\ pc \in Busy /\ pc # "send" /\ s = seq /\ m.of = seq
        /\ \A k \in 1..Len(RemoveAck(m.acks, AckIndex(m.acks, s))) :
             /\ RemoveAck(m.acks, AckIndex(m.acks, s))[k] \in Int
             /\ RemoveAck(m.acks, AckIndex(m.acks, s))[k] < seq
    BY <1>2, <1>4, ShortHit
  <2>3. block \in Block
    BY <1>2, Queued
  <2> DEFINE a == RemoveAck(m.acks, AckIndex(m.acks, s))
  <2> HIDE DEF s, q, block, m, a
  <2>4. /\ Len(reply_ack_queue) = 1 /\ At(s) = 1 /\ Registered(s)
        /\ Msgs(s) = reply_ack_queue[1].msgs /\ Msgs(s) \in Seq(Block)
        /\ RegistryType
    BY <2>2, ShortEntry DEF BaseInv, TypeOK
  <2>5. n \in Seq(Block) /\ Len(n) = Len(reply_ack_queue[1].msgs) + 1
    BY <2>3, <2>4
  <2> HIDE DEF n
  <2>6. Len(q) = Len(reply_ack_queue) /\ q[At(s)].msgs = n
    BY <2>1, <2>4, <2>5, Requeued
  <2>7. rx'.acks = a
    BY <2>1 DEF a
  <2> QED BY <1>2, <2>2, <2>4, <2>5, <2>6, <2>7 DEF q, m, a
<1> QED BY <1>3, <1>4

\* The registry of a short request.
LEMMA ShortPlaceKept == BaseInv /\ Sent /\ ShortPlace /\ [Next]_vars => ShortPlace'
<1> SUFFICES ASSUME BaseInv, Sent, ShortPlace, [Next]_vars
             PROVE  ShortPlace'
  OBVIOUS
<1> USE DEF condvar, request, locals, progress
<1>1. CASE /\ UNCHANGED <<item, call>> /\ (pc \in Busy <=> pc' \in Busy)
           /\ Len(reply_ack_queue') = Len(reply_ack_queue)
           /\ RegistryType'
  <2>1. Len(reply_ack_queue') = 0 => reply_ack_queue' = <<>>
    BY <1>1, EmptySeq DEF RegistryType
  <2>2. reply_ack_queue = <<>> => Len(reply_ack_queue) = 0
    BY EmptySeq
  <2> QED BY <1>1, <2>1, <2>2 DEF ShortPlace
<1>2. BaseInv'
  BY NextBase
<1>3. RegistryType /\ RegistryType'
  BY <1>2 DEF BaseInv, TypeOK
<1>4. CASE SkipKnown
  <2>1. pc = "start" /\ item > 0 /\ pc' \in {"start", "end"} /\ item \in Nat
        /\ item' \in {item, item + 1}
    BY <1>4, ItemsAssumption
       DEF SkipKnown, Advance, BaseInv, TypeOK, CountType
  <2> QED BY <2>1 DEF ShortPlace, Busy
<1>5. CASE Request
  <2>1. /\ item' = item /\ pc = "start"
        /\ call' = IF item = 0 THEN "short" ELSE "first"
    BY <1>5 DEF Request, Again
  <2>2. CASE pc' \in {"start", "end"} /\ UNCHANGED reply_ack_queue
    BY <2>1, <2>2 DEF ShortPlace, Busy
  <2>3. CASE /\ pc' = "send"
             /\ \E p \in Prim : reply_ack_queue' = Register(seq', p)
    <3>1. PICK p \in Prim : reply_ack_queue' = Register(seq', p)
      BY <2>3
    <3>2. Len(reply_ack_queue') = Len(reply_ack_queue) + 1
      BY <1>3, <1>5, <3>1, RequestNumber, Added
    <3>3. item = 0 => Len(reply_ack_queue) = 0
      BY <2>1, EmptySeq DEF ShortPlace, Busy
    <3> QED BY <2>1, <2>3, <3>2, <3>3 DEF ShortPlace, Busy
  <2>4. \/ pc' \in {"start", "end"} /\ UNCHANGED reply_ack_queue
        \/ /\ pc' = "send"
           /\ \E p \in Prim : reply_ack_queue' = Register(seq', p)
    BY <1>5 DEF Request, Again, Prim
  <2> QED BY <2>2, <2>3, <2>4
<1>6. CASE SendFails \/ AfterShort
  <2>1. /\ pc \in Busy /\ reply_ack_queue' = Unregister(seq)
        /\ pc' \in {"start", "end"} /\ call' = call
    BY <1>6 DEF SendFails, AfterShort, Again, Advance, Busy
  <2>2. item' = 0 => item = 0
    BY ItemGrows
  <2>3. item = 0 => reply_ack_queue' = <<>>
    BY <2>1, ShortUnregistered
  <2> QED BY <2>1, <2>2, <2>3 DEF ShortPlace, Busy
<1>7. CASE AfterFirst \/ Check \/ AfterSecond
  <2>1. call # "short" /\ call' # "short" /\ (item' = 0 => item = 0)
    BY <1>7, ItemGrows DEF AfterFirst, Check, AfterSecond, BaseInv, HasBuffer
  <2> QED BY <2>1 DEF ShortPlace
<1>8. CASE Pop
  <2>1. /\ UNCHANGED <<item, call>> /\ (pc \in Busy <=> pc' \in Busy) /\ pc \in Busy
    BY <1>8 DEF Pop, Busy
  <2>2. CASE UNCHANGED reply_ack_queue
    BY <1>1, <1>3, <2>1, <2>2
  <2>3. CASE /\ Len(Msgs(seq)) > 0
             /\ reply_ack_queue' = WithMsgs(seq, Tail(Msgs(seq)))
    <3> DEFINE n == Tail(Msgs(seq))
               q == reply_ack_queue'
    <3>1. n \in Seq(Block) /\ Registered(seq) /\ q = WithMsgs(seq, n)
      BY <1>3, <2>1, <2>3, Kept, EntryFound
    <3> HIDE DEF n, q
    <3>2. Len(q) = Len(reply_ack_queue)
      BY <1>3, <3>1, Requeued
    <3> QED BY <1>1, <1>3, <2>1, <3>2 DEF q
  <2>4. Len(Msgs(seq)) \in Nat
    BY <1>3, <2>1, Kept, EntryFound
  <2> QED BY <1>8, <2>2, <2>3, <2>4 DEF Pop
<1>9. CASE End
  BY <1>9 DEF End, ShortPlace, Busy
<1>10. CASE Receive
  <2>1. UNCHANGED <<item, call, pc>>
    BY <1>10 DEF Receive
  <2>2. CASE item = 0
    <3>1. \/ UNCHANGED reply_ack_queue
          \/ pc \in Busy /\ Len(reply_ack_queue') = 1
      BY <1>10, <2>2, ShortReceive
    <3> QED BY <2>1, <2>2, <3>1 DEF ShortPlace
  <2> QED BY <2>1, <2>2 DEF ShortPlace
<1>11. CASE Send \/ Lock \/ Wait \/ Wake \/ TimedOut \/ Arm \/ Signal \/ FindNext
            \/ Lose \/ UNCHANGED vars
  <2>1. UNCHANGED <<item, call, reply_ack_queue>> /\ (pc \in Busy <=> pc' \in Busy)
    BY <1>11
       DEF Send, Lock, Wait, Wake, TimedOut, Arm, Signal, FindNext, Lose, vars, Busy
  <2> QED BY <1>1, <1>3, <2>1
<1> QED BY <1>4, <1>5, <1>6, <1>7, <1>8, <1>9, <1>10, <1>11
        DEF Next, SensorThread, Waiting, Returning, Receiver

\* The other numbers of a message do not lead to the entry.
LEMMA ShortAcksKept ==
  BaseInv /\ Sent /\ ShortPlace /\ ShortAcks /\ [Next]_vars => ShortAcks'
<1> SUFFICES ASSUME BaseInv, Sent, ShortPlace, ShortAcks, [Next]_vars, item' = 0
             PROVE  rx'.pc # "idle" =>
                      \A k \in 1..Len(rx'.acks) :
                        rx'.acks[k] \in Int /\ rx'.acks[k] < seq'
  BY DEF ShortAcks
<1> USE DEF condvar, request, locals, progress
<1>1. item = 0 /\ seq \in Int
  BY ItemGrows, SeqNat DEF BaseInv
<1>2. CASE rx' = rx /\ seq' = seq
  BY <1>1, <1>2 DEF ShortAcks
<1>3. CASE Receive
  <2>1. seq' = seq
    BY <1>3 DEF Receive
  <2>2. rx' = rx \/ \A k \in 1..Len(rx'.acks) :
                    rx'.acks[k] \in Int /\ rx'.acks[k] < seq
    BY <1>1, <1>3, ShortReceive
  <2> QED BY <1>2, <2>1, <2>2
<1>4. CASE Signal
  <2>1. /\ rx.pc = "signal" /\ rx' = [rx EXCEPT !.pc = "next"] /\ seq' = seq
        /\ RxForm
    BY <1>4 DEF Signal, BaseInv
  <2>2. rx'.acks = rx.acks
    BY <2>1 DEF RxForm
  <2> QED BY <1>1, <2>1, <2>2 DEF ShortAcks
<1>5. CASE FindNext
  <2>1. Hits(rx.acks, rx.prim) = {}
    <3>1. \A k \in 1..Len(rx.acks) : rx.acks[k] \in Int /\ rx.acks[k] < seq
      BY <1>1, <1>5 DEF FindNext, ShortAcks
    <3>2. \A k \in 1..Len(reply_ack_queue) : reply_ack_queue[k].seq = seq
      <4>1. CASE pc \in Busy
        <5>1. Len(reply_ack_queue) = 1 /\ reply_ack_queue[1].seq = seq
          BY <1>1, <4>1, ShortEntry
        <5> QED BY <5>1
      <4>2. CASE pc \notin Busy
        BY <1>1, <4>2, EmptySeq DEF ShortPlace
      <4> QED BY <4>1, <4>2
    <3> QED BY <1>1, <3>1, <3>2 DEF Hits
  <2> QED BY <1>5, <2>1 DEF FindNext, Quiet
<1>6. CASE Request
  <2>1. rx' = rx /\ seq' = seq + 1
    BY <1>6 DEF Request
  <2>2. CASE rx.pc # "idle"
    <3>1. \A k \in 1..Len(rx.acks) : rx.acks[k] \in Int /\ rx.acks[k] < seq
      BY <1>1, <2>2 DEF ShortAcks
    <3> QED BY <1>1, <2>1, <3>1
  <2> QED BY <2>1, <2>2
<1>7. CASE SkipKnown \/ SendFails \/ AfterShort \/ AfterFirst \/ AfterSecond \/ Check
  BY <1>2, <1>7
     DEF SkipKnown, SendFails, AfterShort, AfterFirst, AfterSecond, Check
<1>8. CASE Send \/ End \/ Waiting \/ Arm \/ Lose \/ UNCHANGED vars
  BY <1>2, <1>8
     DEF Send, End, Waiting, Lock, Wait, Wake, TimedOut, Pop, Arm, Lose, vars
<1> QED BY <1>3, <1>4, <1>5, <1>6, <1>7, <1>8
        DEF Next, SensorThread, Returning, Receiver

\* The message queue of a short request while nothing is queued or taken.
LEMMA ShortMsgsSame ==
  ASSUME ShortMsgs, item = 0, pc \in ShortWait, pc' \in ShortWait,
         pc' = "send" => pc = "send",
         UNCHANGED <<reply_ack_queue, link, seq, rx, is_op_done>>
  PROVE  ShortMsgs'
BY DEF ShortMsgs

\* One reply, first under way and then queued, before the flag and the signal.
LEMMA ShortMsgsKept ==
  BaseInv /\ Sent /\ ShortPlace /\ ShortAcks /\ ShortMsgs /\ [Next]_vars
    => ShortMsgs'
<1> SUFFICES ASSUME BaseInv, Sent, ShortPlace, ShortAcks, ShortMsgs, [Next]_vars,
                    item' = 0, pc' \in ShortWait
             PROVE  ShortMsgs'
  BY DEF ShortMsgs
<1> USE DEF condvar, request, locals, progress
<1>1. /\ item = 0 /\ call = "short" /\ seq \in Int
      /\ RegistryType /\ LinkType /\ link \in Seq(Message) /\ Len(link) \in Nat
  BY ItemGrows, SeqNat DEF BaseInv, TypeOK, LinkType, ShortPlace
<1> DEFINE n == Len(reply_ack_queue[1].msgs)
<1>2. ASSUME pc \in Busy
      PROVE  n \in Nat
  BY <1>1, <1>2, ShortEntry
<1>3. CASE Request
  <2>1. /\ pc = "start" /\ pc' = "send" /\ seq' = seq + 1 /\ is_op_done' = FALSE
        /\ UNCHANGED <<rx, link>> /\ rx.pc # "signal"
        /\ \E p \in Prim : reply_ack_queue' = Register(seq', p)
    BY <1>3 DEF Request, Again, Reset, MutexFree, ShortWait, Prim
  <2>2. PICK p \in Prim : reply_ack_queue' = Register(seq', p)
    BY <2>1
  <2>3. reply_ack_queue'[1] = [seq |-> seq', prim |-> p, msgs |-> <<>>]
    <3> DEFINE q == reply_ack_queue'
               z == seq'
    <3>1. q = Register(z, p) /\ z \in SeqNo
      BY <1>3, <2>2, RequestNumber
    <3>2. Len(reply_ack_queue) = 0
      BY <1>1, <2>1, EmptySeq DEF ShortPlace, Busy
    <3> HIDE DEF q, z
    <3>3. /\ Len(q) = Len(reply_ack_queue) + 1
          /\ q[Len(q)] = [seq |-> z, prim |-> p, msgs |-> <<>>]
      BY <1>1, <3>1, Added
    <3> QED BY <3>2, <3>3 DEF q, z
  <2>4. Len(reply_ack_queue'[1].msgs) = 0
    BY <2>3, EmptySeq
  <2>5. \A i \in 1..Len(link) : link[i].of # seq + 1
    BY <1>1 DEF Sent
  <2> QED BY <2>1, <2>4, <2>5 DEF ShortMsgs
<1>4. CASE Send
  <2>1. PICK k \in IF call = "short" THEN {1} ELSE Totals, acks \in Acks :
          link' = link \o Reply(k, acks)
    BY <1>4 DEF Send
  <2>2. /\ pc = "send" /\ pc' = "lock" /\ k = 1
        /\ UNCHANGED <<reply_ack_queue, seq, rx, is_op_done>>
    BY <1>1, <1>4 DEF Send
  <2> DEFINE r == Reply(k, acks)
  <2>3. r \in Seq(Message) /\ Len(r) = 1
    BY <2>2, ReplyType
  <2> HIDE DEF r
  <2>4. link' = link \o r
    BY <2>1 DEF r
  <2>5. /\ Len(link') = Len(link) + Len(r)
        /\ \A i \in 1..Len(link) + Len(r) :
             link'[i] = IF i <= Len(link) THEN link[i] ELSE r[i - Len(link)]
    <3>1. r \in Seq(Message)
      BY <2>3
    <3> QED BY <1>1, <2>4, <3>1, ConcatProperties, Zenon
  <2>6. \A i \in 1..Len(link') : i = Len(link') \/ link'[i].of # seq
    <3>1. \A i \in 1..Len(link') :
            i = Len(link') \/ (i \in 1..Len(link) /\ link'[i] = link[i])
      BY <1>1, <2>3, <2>5
    <3>2. \A i \in 1..Len(link) : link[i].of < seq
      BY <2>2 DEF Sent
    <3> QED BY <1>1, <3>1, <3>2
  <2>7. n = 0 /\ is_op_done = FALSE /\ rx.pc # "signal"
    <3>1. is_op_done \in BOOLEAN
      BY DEF BaseInv, TypeOK, CondType
    <3>2. n = 0 /\ (is_op_done => n = 1) /\ (rx.pc = "signal" => n = 1)
      BY <1>1, <2>2 DEF ShortMsgs, ShortWait
    <3> HIDE DEF n
    <3> QED BY <3>1, <3>2
  <2>8. Len(reply_ack_queue'[1].msgs) = 0
    BY <2>2, <2>7
  <2> QED BY <2>2, <2>6, <2>7, <2>8 DEF ShortMsgs
<1>5. CASE Lock \/ Wait \/ Wake \/ TimedOut
  <2>1. /\ pc \in ShortWait /\ pc' # "send"
        /\ UNCHANGED <<reply_ack_queue, link, seq, rx, is_op_done>>
    BY <1>5 DEF Lock, Wait, Wake, TimedOut, ShortWait
  <2> QED BY <1>1, <2>1, ShortMsgsSame
<1>6. CASE Receive
  <2>1. UNCHANGED <<pc, seq, is_op_done>> /\ pc \in ShortWait /\ pc \in Busy
    BY <1>6 DEF Receive, ShortWait, Busy
  <2>2. link # <<>> /\ link' = Tail(link)
    BY <1>6 DEF Receive
  <2>3. /\ Head(link) = link[1] /\ 1 \in 1..Len(link)
        /\ \A k \in 1..Len(link') : k + 1 \in 1..Len(link) /\ link'[k] = link[k + 1]
    BY <1>1, <2>2, LinkShorter
  <2>4. CASE UNCHANGED <<reply_ack_queue, rx>>
    <3>1. \A i, j \in 1..Len(link') :
            link'[i].of = seq /\ link'[j].of = seq => i = j
      <4>1. \A i, j \in 1..Len(link) :
              link[i].of = seq /\ link[j].of = seq => i = j
        BY <1>1, <2>1 DEF ShortMsgs
      <4>2. \A i, j \in 1..Len(link') :
              link'[i].of = seq /\ link'[j].of = seq => i + 1 = j + 1
        BY <2>3, <4>1
      <4> QED BY <4>2
    <3>2. n = 1 => \A i \in 1..Len(link') : link'[i].of # seq
      BY <1>1, <2>1, <2>3 DEF ShortMsgs
    <3> QED BY <1>1, <2>1, <2>4, <3>1, <3>2 DEF ShortMsgs
  <2>5. CASE /\ pc # "send" /\ Head(link).of = seq
             /\ Len(reply_ack_queue'[1].msgs) = n + 1
    <3>1. n = 0
      <4>1. n <= 1 /\ (n = 1 => link[1].of # seq)
        BY <1>1, <2>1, <2>3 DEF ShortMsgs
      <4>2. n \in Nat /\ link[1].of = seq
        BY <1>2, <2>1, <2>3, <2>5
      <4> HIDE DEF n
      <4> QED BY <4>1, <4>2
    <3>2. Len(reply_ack_queue'[1].msgs) = 1
      BY <2>5, <3>1
    <3>3. \A i \in 1..Len(link') : link'[i].of # seq
      <4>1. \A i, j \in 1..Len(link) :
              link[i].of = seq /\ link[j].of = seq => i = j
        BY <1>1, <2>1 DEF ShortMsgs
      <4>2. \A i \in 1..Len(link') : i + 1 # 1
        OBVIOUS
      <4> QED BY <2>3, <2>5, <4>1, <4>2
    <3>4. seq' = seq /\ pc' # "send"
      BY <2>1, <2>5
    <3>5. Len(reply_ack_queue'[1].msgs) <= 1
      BY <3>2
    <3> QED BY <3>2, <3>3, <3>4, <3>5, Zenon DEF ShortMsgs
  <2> QED BY <1>1, <1>6, <2>4, <2>5, ShortReceive
<1>7. CASE Signal
  <2>1. /\ UNCHANGED <<pc, seq, reply_ack_queue, link>> /\ rx.pc = "signal"
        /\ rx' = [rx EXCEPT !.pc = "next"]
    BY <1>7 DEF Signal
  <2>2. rx'.pc = "next"
    BY <2>1 DEF BaseInv, RxForm
  <2>3. Len(reply_ack_queue'[1].msgs) = 1
    BY <1>1, <2>1 DEF ShortMsgs
  <2> QED BY <1>1, <2>1, <2>2, <2>3 DEF ShortMsgs, ShortWait
<1>8. CASE FindNext
  <2>1. UNCHANGED <<pc, seq, reply_ack_queue, link, is_op_done>> /\ pc \in Busy
    BY <1>8 DEF FindNext, ShortWait, Busy
  <2>2. rx'.pc = "idle"
    <3>1. Len(reply_ack_queue) = 1 /\ reply_ack_queue[1].seq = seq
      BY <1>1, <2>1, ShortEntry
    <3>2. \A k \in 1..Len(rx.acks) : rx.acks[k] \in Int /\ rx.acks[k] < seq
      BY <1>1, <1>8 DEF FindNext, ShortAcks
    <3>3. Hits(rx.acks, rx.prim) = {}
      BY <1>1, <3>1, <3>2 DEF Hits
    <3> QED BY <1>8, <3>3 DEF FindNext, Quiet
  <2> QED BY <1>1, <2>1, <2>2 DEF ShortMsgs
<1>9. CASE Lose
  <2>1. UNCHANGED <<pc, seq, reply_ack_queue, is_op_done, rx>>
        /\ link # <<>> /\ link' = Tail(link)
    BY <1>9 DEF Lose
  <2>2. \A k \in 1..Len(link') : k + 1 \in 1..Len(link) /\ link'[k] = link[k + 1]
    BY <1>1, <2>1, LinkShorter
  <2>3. \A i, j \in 1..Len(link') :
          link'[i].of = seq /\ link'[j].of = seq => i = j
    <3>1. \A i, j \in 1..Len(link) :
            link[i].of = seq /\ link[j].of = seq => i = j
      BY <1>1, <2>1 DEF ShortMsgs
    <3>2. \A i, j \in 1..Len(link') :
            link'[i].of = seq /\ link'[j].of = seq => i + 1 = j + 1
      BY <2>2, <3>1
    <3> QED BY <3>2
  <2>4. n = 1 => \A i \in 1..Len(link') : link'[i].of # seq
    BY <1>1, <2>1, <2>2 DEF ShortMsgs
  <2> QED BY <1>1, <2>1, <2>3, <2>4 DEF ShortMsgs
<1>10. CASE SkipKnown \/ SendFails \/ AfterShort \/ End \/ Pop
  BY <1>10 DEF SkipKnown, SendFails, AfterShort, End, Pop, Again, Advance, ShortWait
<1>11. CASE AfterFirst \/ Check \/ AfterSecond \/ Arm
  BY <1>1, <1>11 DEF AfterFirst, Check, AfterSecond, Arm, BaseInv, HasBuffer
<1>12. CASE UNCHANGED vars
  BY <1>1, <1>12, ShortMsgsSame DEF vars
<1> QED BY <1>3, <1>4, <1>5, <1>6, <1>7, <1>8, <1>9, <1>10, <1>11, <1>12
        DEF Next, SensorThread, Waiting, Returning, Receiver

\* The reply is in the buffer when the wait has not timed out.
LEMMA ShortFilledKept ==
  BaseInv /\ ShortPlace /\ ShortMsgs /\ ShortFilled /\ [Next]_vars => ShortFilled'
<1> SUFFICES ASSUME BaseInv, ShortPlace, ShortMsgs, ShortFilled, [Next]_vars,
                    item' = 0, pc' = "after", rt'
             PROVE  readBuf' # NoMsg
  BY DEF ShortFilled
<1> USE DEF condvar, request, locals, progress
<1>1. item = 0 /\ call = "short"
  BY ItemGrows DEF ShortPlace
<1>2. CASE Pop
  <2>1. pc = "pop" /\ rt /\ pc \in Busy
    BY <1>2 DEF Pop, Busy
  <2>2. is_op_done
    BY <2>1 DEF BaseInv, DoneWhenOk
  <2>3. /\ Msgs(seq) = reply_ack_queue[1].msgs /\ Msgs(seq) \in Seq(Block)
        /\ Len(Msgs(seq)) = 1
    BY <1>1, <2>1, <2>2, ShortEntry DEF ShortMsgs, ShortWait
  <2>4. readBuf' = Head(Msgs(seq))
    BY <1>1, <1>2, <2>2, <2>3 DEF Pop
  <2>5. readBuf' \in Block
    BY <2>3, <2>4
  <2> QED BY <2>5, BlockNotEmpty
<1>3. CASE UNCHANGED <<pc, rt, readBuf>>
  BY <1>1, <1>3 DEF ShortFilled
<1>4. CASE Receiver \/ Lose \/ UNCHANGED vars
  BY <1>3, <1>4 DEF Receiver, Receive, Signal, FindNext, Lose, vars
<1>5. CASE SkipKnown \/ Request \/ Send \/ SendFails \/ AfterShort \/ End
  BY <1>5 DEF SkipKnown, Request, Send, SendFails, AfterShort, End, Again, Advance
<1>6. CASE AfterFirst \/ Check \/ AfterSecond \/ Arm
  BY <1>1, <1>6 DEF AfterFirst, Check, AfterSecond, Arm, BaseInv, HasBuffer
<1>7. CASE Lock \/ Wait \/ Wake \/ TimedOut
  BY <1>7 DEF Lock, Wait, Wake, TimedOut
<1> QED BY <1>2, <1>4, <1>5, <1>6, <1>7 DEF Next, SensorThread, Waiting, Returning

\* app_froto_n_send_with_reply reports success only with the reply to the very
\* request in the buffer: neither the flag of an earlier attempt, nor a signal
\* without a message, nor a late reply makes an attempt succeed.
THEOREM SuccessHasReply == Spec => []ReplyMeansMessage
<1>1. Init => ShortInv
  BY EmptySeq
     DEF Init, Quiet, ShortInv, ShortPlace, ShortAcks, ShortMsgs, ShortFilled, Busy,
         ShortWait
<1>2. BaseInv /\ AnswerInv /\ ShortInv /\ [Next]_vars => ShortInv'
  <2> SUFFICES ASSUME BaseInv, AnswerInv, ShortInv, [Next]_vars
               PROVE  ShortInv'
    OBVIOUS
  <2>1. Sent /\ ShortPlace /\ ShortAcks /\ ShortMsgs /\ ShortFilled
    BY DEF AnswerInv, ShortInv
  <2>2. ShortPlace'
    BY <2>1, ShortPlaceKept
  <2>3. ShortAcks'
    BY <2>1, ShortAcksKept
  <2>4. ShortMsgs'
    BY <2>1, ShortMsgsKept
  <2>5. ShortFilled'
    BY <2>1, ShortFilledKept
  <2> QED BY <2>2, <2>3, <2>4, <2>5 DEF ShortInv
<1>3. BaseInv /\ AnswerInv /\ ShortInv => ReplyMeansMessage
  BY DEF ReplyMeansMessage, AnswerInv, BufferOf, ShortInv, ShortPlace, ShortFilled,
         Busy
<1> QED BY <1>1, <1>2, <1>3, AnswersAlways, PTL DEF Spec
=============================================================================
