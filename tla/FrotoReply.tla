----------------------------- MODULE FrotoReply -----------------------------
(***************************************************************************)
(* How the general process asks one sensor for its data: the registry of   *)
(* expected replies of app_froto_new.c and collectData of                  *)
(* sensor_interface_insight_predict.c, which uses it.                      *)
(*                                                                         *)
(*   - the thread of the sensor (pc) sends a request and waits for the     *)
(*     reply on a condition variable: app_froto_n_send_with_reply for      *)
(*     short data, the first and the second half of                        *)
(*     app_froto_n_send_with_multiple_replies for the blocks of a waveform;*)
(*   - the receiving thread (rx) runs app_froto_n_get_message_type, which  *)
(*     looks for the entry that a message acknowledges, queues the message *)
(*     there and signals the waiter.                                       *)
(*                                                                         *)
(* The registry is searched by sensor id first, so the entries of other    *)
(* sensors only count towards the limit on all of them ("full").  The      *)
(* sensor and the link to it are the environment.                          *)
(***************************************************************************)
EXTENDS Integers, Sequences, FiniteSets

CONSTANTS
    Items,       \* waveforms that a session collects, after the short data
    Totals,      \* block counts that the sensor may split a waveform into
    Retry,       \* short_data_retry and long_data_retry
    MaxEntries,  \* FROTO_MAX_SINGLE_CHANNEL_CONCURRENT_NUM_REPLY_ACK
    FirstSeq,    \* seq_no_counter when the session starts
    Faults       \* what can go wrong, see below

\* "lose": a message gets lost; "send": a request cannot be handed to the BLE
\* process; "full": other sensors use up the registry; "bad": the data of a
\* block fails its CRC; "aggregate": the sensor acknowledges the request before
\* in the same message.
ASSUME ItemsAssumption == Items \in Nat
ASSUME TotalsAssumption == Totals \subseteq Nat \ {0} /\ Totals # {}
ASSUME LimitsAssumption == Retry \in Nat /\ MaxEntries \in Nat /\ FirstSeq \in Nat
ASSUME FaultsAssumption ==
    Faults \subseteq {"lose", "send", "full", "bad", "aggregate"}

VARIABLES
    \* the registry, under reply_ack_queue_mtx
    reply_ack_queue,
    \* the condition variable of the request: is_op_done, and whether the
    \* thread of the sensor holds its mtx
    is_op_done, mtx,
    \* the thread of the sensor
    pc, call, item, attempt, seq, rt, readBuf, totalBlock, blkCnt, skip_pkt_fg,
    file,
    \* waveforms handed to the database, result of collectData
    stored, ret,
    \* the receiving thread
    rx,
    \* messages under way from the sensor
    link

condvar == <<is_op_done, mtx>>
request == <<call, seq, rt>>
locals == <<readBuf, totalBlock, blkCnt, skip_pkt_fg, file>>
progress == <<item, attempt, stored, ret>>
vars == <<reply_ack_queue, condvar, pc, request, locals, progress, rx, link>>

LastSeq == FirstSeq + (Items + 1) * (Retry + 1)
SeqNo == FirstSeq .. LastSeq

\* What is queued of a message: the request it answers, the number of its block
\* and of all blocks, and whether its data is usable.
Block == [of : SeqNo, blk : Nat, total : Totals \cup {1}, ok : BOOLEAN]
NoMsg == [of |-> -1]
Prim == {"SIMPLE_UPLOAD", "SIMPLE_BULK_UPLOAD"}

-----------------------------------------------------------------------------
(* The registry                                                            *)

\* The position of the entry with this number; numbers are never reused.
\* (The match functions also compare the condition variable or the sensor id,
\* which are the same for every entry of this session.)
EntryAt(q, s) == {k \in 1..Len(q) : q[k].seq = s}
Registered(s) == EntryAt(reply_ack_queue, s) # {}
At(s) == CHOOSE k \in EntryAt(reply_ack_queue, s) : TRUE
Msgs(s) == reply_ack_queue[At(s)].msgs

Register(s, p) ==
    Append(reply_ack_queue, [seq |-> s, prim |-> p, msgs |-> <<>>])

\* q_match_reply_ack and the free of what is queued: the entry with this number
\* goes, if there is one (numbers are distinct).
RemovePosition(q, k) == SubSeq(q, 1, k - 1) \o SubSeq(q, k + 1, Len(q))
Unregister(s) == IF Registered(s) THEN RemovePosition(reply_ack_queue, At(s))
                                  ELSE reply_ack_queue

WithMsgs(s, m) == [reply_ack_queue EXCEPT ![At(s)].msgs = m]

\* rx holds reply_ack_queue_mtx from the search to the signal.
MutexFree == rx.pc # "signal"

\* The matched number leaves replyAck by a memmove of one byte, not one
\* number, for each number that follows it.
Byte(v, k) == (v \div 256 ^ k) % 256
RemoveAck(acks, i) ==
    LET moved == Len(acks) - i
        old(j) == Byte(acks[i + j \div 4], j % 4)
        new(j) == IF j < moved THEN old(j + 4) ELSE old(j)
        word(j) == new(j) + 256 * new(j + 1) + 65536 * new(j + 2)
                          + 16777216 * new(j + 3)
    IN  [k \in 1 .. Len(acks) - 1 |->
            IF k < i THEN acks[k] ELSE word(4 * (k - i))]

\* q_match_reply_ack_except_cond_var without checkSeqNo, which no caller sets:
\* the first entry of this primitive that the message acknowledges.
Hits(acks, p) ==
    {k \in 1..Len(reply_ack_queue) :
        /\ reply_ack_queue[k].prim = p
        /\ \E i \in 1..Len(acks) : acks[i] = reply_ack_queue[k].seq}
FirstHit(acks, p) ==
    CHOOSE k \in Hits(acks, p) : \A j \in Hits(acks, p) : k <= j
AckIndex(acks, s) ==
    CHOOSE i \in 1..Len(acks) :
        acks[i] = s /\ \A j \in 1..Len(acks) : acks[j] = s => i <= j

-----------------------------------------------------------------------------
(* Init: a session starts with collectData                                 *)

Quiet == [pc |-> "idle", acks |-> <<>>, prim |-> "none"]

Init ==
    /\ reply_ack_queue = <<>>
    /\ is_op_done = FALSE /\ mtx = FALSE
    /\ pc = "start" /\ call = "short" /\ item = 0 /\ attempt = 0
    /\ seq = FirstSeq /\ rt = TRUE
    /\ readBuf = NoMsg /\ totalBlock = 0 /\ blkCnt = 0
    /\ skip_pkt_fg = FALSE /\ file = <<>>
    /\ stored = {} /\ ret = TRUE
    /\ rx = Quiet
    /\ link = <<>>

-----------------------------------------------------------------------------
(* collectData: what follows a request                                     *)

\* goto _SHORT_DATA_RETRY or _LONG_DATA_RETRY after sleep(2), or give up.
Again ==
    /\ IF attempt < Retry
       THEN pc' = "start" /\ attempt' = attempt + 1 /\ ret' = ret
       ELSE pc' = "end" /\ attempt' = attempt /\ ret' = FALSE
    /\ UNCHANGED <<item, stored>>

\* The next waveform, with what the one before left in the database.
\* (Mutant: one turn of the loop too many.)
AdvanceOnceMore(db) ==
    /\ stored' = db
    /\ IF item <= Items
       THEN pc' = "start" /\ item' = item + 1 /\ attempt' = 0
       ELSE pc' = "end" /\ UNCHANGED <<item, attempt>>
    /\ UNCHANGED ret
Advance(db) ==
    /\ stored' = db
    /\ IF item < Items
       THEN pc' = "start" /\ item' = item + 1 /\ attempt' = 0
       ELSE pc' = "end" /\ UNCHANGED <<item, attempt>>
    /\ UNCHANGED ret

\* is_dtitem_in_db: an earlier session has stored this waveform.
SkipKnown ==
    /\ pc = "start" /\ item > 0
    /\ skip_pkt_fg' = FALSE
    /\ Advance(stored)
    /\ UNCHANGED <<reply_ack_queue, condvar, request, readBuf, totalBlock,
                   blkCnt, file, rx, link>>

\* (Mutant: the flag of the request before is kept.)
ResetForgotten == is_op_done
Reset == FALSE

\* A new number, the condition variable set up, registerReplyAck.
Request ==
    LET short == item = 0 IN
    /\ pc = "start" /\ MutexFree
    /\ seq' = seq + 1
    /\ is_op_done' = Reset
    /\ call' = IF short THEN "short" ELSE "first"
    /\ readBuf' = NoMsg /\ skip_pkt_fg' = FALSE
    /\ \/ /\ Len(reply_ack_queue) >= MaxEntries \/ "full" \in Faults
          /\ Again
          /\ UNCHANGED reply_ack_queue
       \/ /\ Len(reply_ack_queue) < MaxEntries
          /\ reply_ack_queue' =
               Register(seq', IF short THEN "SIMPLE_UPLOAD"
                                       ELSE "SIMPLE_BULK_UPLOAD")
          /\ pc' = "send"
          /\ UNCHANGED progress
    /\ UNCHANGED <<mtx, rt, totalBlock, blkCnt, file, rx, link>>

\* The numbers that a reply acknowledges.
Acks == {<<seq>>} \cup (IF "aggregate" \in Faults
                        THEN {<<seq - 1, seq>>} ELSE {})

\* The sensor answers with one message, or with the blocks of a waveform.
Reply(n, acks) ==
    [k \in 1..n |->
        [prim |-> IF call = "short" THEN "SIMPLE_UPLOAD" ELSE "SIMPLE_BULK_UPLOAD",
         acks |-> acks, of |-> seq, blk |-> k - 1, total |-> n]]

Send ==
    /\ pc = "send"
    /\ \E n \in IF call = "short" THEN {1} ELSE Totals, acks \in Acks :
          link' = link \o Reply(n, acks)
    /\ pc' = "lock"
    /\ UNCHANGED <<reply_ack_queue, condvar, request, locals, progress, rx>>

SendFails ==
    /\ pc = "send" /\ "send" \in Faults /\ MutexFree
    /\ reply_ack_queue' = Unregister(seq)
    /\ Again
    /\ UNCHANGED <<condvar, request, locals, rx, link>>

-----------------------------------------------------------------------------
(* The wait that the three routines share                                  *)

\* pthread_mutex_lock and the test of the while loop.
Lock ==
    /\ pc = "lock"
    /\ mtx' = TRUE
    /\ rt' = TRUE
    /\ pc' = IF is_op_done THEN "pop" ELSE "armed"
    /\ UNCHANGED <<reply_ack_queue, is_op_done, call, seq, locals, progress,
                   rx, link>>

\* pthread_cond_timedwait lets the mutex go.
Wait ==
    /\ pc = "armed"
    /\ mtx' = FALSE
    /\ pc' = "wait"
    /\ UNCHANGED <<reply_ack_queue, is_op_done, request, locals, progress,
                   rx, link>>

Wake ==
    /\ pc = "wait" /\ is_op_done
    /\ mtx' = TRUE
    /\ pc' = "pop"
    /\ UNCHANGED <<reply_ack_queue, is_op_done, request, locals, progress,
                   rx, link>>

\* (Mutant: the wait ends by the signal only.)
TimedOutWhenDone ==
    /\ pc = "wait" /\ is_op_done
    /\ mtx' = TRUE
    /\ rt' = FALSE
    /\ pc' = "pop"
    /\ UNCHANGED <<reply_ack_queue, is_op_done, call, seq, locals, progress,
                   rx, link>>
\* ETIMEDOUT, which may come although the reply has just been signalled.
TimedOut ==
    /\ pc = "wait"
    /\ mtx' = TRUE
    /\ rt' = FALSE
    /\ pc' = "pop"
    /\ UNCHANGED <<reply_ack_queue, is_op_done, call, seq, locals, progress,
                   rx, link>>

\* Take the message, if there is one and the operation counts as done, and
\* unlock.  app_froto_n_send_with_reply wants exactly one.
Pop ==
    LET n == Len(Msgs(seq)) IN
    /\ pc = "pop"
    /\ IF is_op_done /\ (IF call = "short" THEN n = 1 ELSE n > 0)
       THEN /\ readBuf' = Head(Msgs(seq))
            /\ reply_ack_queue' = WithMsgs(seq, Tail(Msgs(seq)))
       ELSE UNCHANGED <<readBuf, reply_ack_queue>>
    /\ mtx' = FALSE
    /\ pc' = "after"
    /\ UNCHANGED <<is_op_done, request, totalBlock, blkCnt, skip_pkt_fg, file,
                   progress, rx, link>>

-----------------------------------------------------------------------------
(* After the wait                                                          *)

LastOne == blkCnt + 1 >= totalBlock

\* app_froto_n_send_with_reply always unregisters.
AfterShort ==
    /\ pc = "after" /\ call = "short" /\ MutexFree
    /\ reply_ack_queue' = Unregister(seq)
    /\ IF rt THEN Advance(stored) ELSE Again
    /\ UNCHANGED <<condvar, request, locals, rx, link>>

\* bulk_data_upload_first_pkt_processor finds nothing but in a whole block 0.
FirstPacket(m) == m # NoMsg /\ m.ok /\ m.blk = 0

\* The first half unregisters only if is_op_done is still false here, without
\* the lock.  A waveform without data or of one block stays registered.
AfterFirst ==
    /\ pc = "after" /\ call = "first"
    /\ \/ is_op_done /\ UNCHANGED reply_ack_queue
       \/ ~is_op_done /\ MutexFree /\ reply_ack_queue' = Unregister(seq)
    /\ \/ ~rt /\ Again /\ UNCHANGED <<totalBlock, blkCnt, file, call>>
       \/ /\ rt /\ ~FirstPacket(readBuf)
          /\ Advance(stored)
          /\ UNCHANGED <<totalBlock, blkCnt, file, call>>
       \/ /\ rt /\ FirstPacket(readBuf)
          /\ totalBlock' = readBuf.total
          /\ file' = <<readBuf>>
          /\ blkCnt' = 1
          /\ IF readBuf.total = 1
             THEN Advance(stored \cup {file'}) /\ UNCHANGED call
             ELSE pc' = "check" /\ call' = "second" /\ UNCHANGED progress
    /\ UNCHANGED <<condvar, seq, rt, readBuf, skip_pkt_fg, rx, link>>

\* bulk_data_upload_remained_pkt_processor makes bulkData.
Remained(m) == m.ok /\ m.blk # 0

\* The block is expected.  (Mutant: its number is not compared.)
AnyBlock(m) == TRUE
Expected(m) == m.blk = blkCnt

\* One turn of the loop over the blocks with the contents of readBuf, be they
\* new or those of the turn before.
Take(m) ==
    LET good == Remained(m) /\ Expected(m) /\ ~skip_pkt_fg
    IN  /\ skip_pkt_fg' = (skip_pkt_fg \/ (Remained(m) /\ ~Expected(m)))
        /\ file' = IF good THEN Append(file, m) ELSE file
        /\ IF ~LastOne
           THEN pc' = "check" /\ blkCnt' = blkCnt + 1 /\ UNCHANGED progress
           ELSE /\ UNCHANGED blkCnt
                /\ IF skip_pkt_fg' THEN Again
                   ELSE Advance(IF good THEN stored \cup {file'} ELSE stored)

\* The second half: a message that is there already is returned at once, the
\* last one too.
Check ==
    /\ pc = "check"
    /\ IF Len(Msgs(seq)) > 0
       THEN /\ readBuf' = Head(Msgs(seq))
            /\ reply_ack_queue' = WithMsgs(seq, Tail(Msgs(seq)))
            /\ Take(readBuf')
       ELSE /\ pc' = "arm"
            /\ UNCHANGED <<readBuf, reply_ack_queue, blkCnt, skip_pkt_fg,
                           file, progress>>
    /\ UNCHANGED <<condvar, request, totalBlock, rx, link>>

\* is_op_done is reset without the lock, after the queue has been looked at.
Arm ==
    /\ pc = "arm"
    /\ is_op_done' = FALSE
    /\ pc' = "lock"
    /\ UNCHANGED <<reply_ack_queue, mtx, request, locals, progress, rx, link>>

\* (Mutant: every return of the second half unregisters.)
LetsGoAlways == TRUE
LetsGo == LastOne \/ ~is_op_done

AfterSecond ==
    /\ pc = "after" /\ call = "second"
    /\ IF LetsGo THEN MutexFree /\ reply_ack_queue' = Unregister(seq)
                 ELSE UNCHANGED reply_ack_queue
    /\ IF rt THEN Take(readBuf)
             ELSE Again /\ UNCHANGED <<blkCnt, skip_pkt_fg, file>>
    /\ UNCHANGED <<condvar, request, readBuf, totalBlock, rx, link>>

\* unregisterSensorIntfInsightPredict: app_froto_gabage_clean.
End ==
    /\ pc = "end" /\ MutexFree
    /\ reply_ack_queue' = <<>>
    /\ pc' = "left"
    /\ UNCHANGED <<condvar, request, locals, progress, rx, link>>

-----------------------------------------------------------------------------
(* The receiving thread                                                    *)

\* Find the entry and queue the message there; without one it is dropped.
Receive ==
    /\ rx.pc = "idle" /\ link # <<>>
    /\ link' = Tail(link)
    /\ \E ok \in IF "bad" \in Faults THEN BOOLEAN ELSE {TRUE} :
         LET m == Head(link)
             block == [of |-> m.of, blk |-> m.blk, total |-> m.total, ok |-> ok]
         IN
         IF Hits(m.acks, m.prim) = {}
         THEN UNCHANGED <<reply_ack_queue, rx>>
         ELSE LET s == reply_ack_queue[FirstHit(m.acks, m.prim)].seq IN
              /\ reply_ack_queue' = WithMsgs(s, Append(Msgs(s), block))
              /\ rx' = [pc |-> "signal", prim |-> m.prim,
                        acks |-> RemoveAck(m.acks, AckIndex(m.acks, s))]
    /\ UNCHANGED <<condvar, pc, request, locals, progress>>

\* All entries point to the one condition variable.  If its mutex is taken the
\* signal is not sent.  Once collectData has returned, it is the memory of
\* whatever the thread calls next (not modelled).
Signal ==
    /\ rx.pc = "signal"
    /\ is_op_done' = (is_op_done \/ (~mtx /\ pc \notin {"end", "left"}))
    /\ rx' = [rx EXCEPT !.pc = "next"]
    /\ UNCHANGED <<reply_ack_queue, mtx, pc, request, locals, progress, link>>

\* The do-while: signal the others that the message acknowledges.
FindNext ==
    /\ rx.pc = "next"
    /\ IF Hits(rx.acks, rx.prim) = {}
       THEN rx' = Quiet
       ELSE LET s == reply_ack_queue[FirstHit(rx.acks, rx.prim)].seq IN
            rx' = [rx EXCEPT !.pc = "signal",
                             !.acks = RemoveAck(rx.acks, AckIndex(rx.acks, s))]
    /\ UNCHANGED <<reply_ack_queue, condvar, pc, request, locals, progress, link>>

Lose ==
    /\ "lose" \in Faults /\ link # <<>>
    /\ link' = Tail(link)
    /\ UNCHANGED <<reply_ack_queue, condvar, pc, request, locals, progress, rx>>

-----------------------------------------------------------------------------

Waiting == Lock \/ Wait \/ Wake \/ TimedOut \/ Pop
Returning == AfterShort \/ AfterFirst \/ Check \/ Arm \/ AfterSecond
SensorThread ==
    SkipKnown \/ Request \/ Send \/ SendFails \/ Waiting \/ Returning \/ End
Receiver == Receive \/ Signal \/ FindNext

Next == SensorThread \/ Receiver \/ Lose

Spec == Init /\ [][Next]_vars

\* Both threads are scheduled; a wait ends by its timeout at the latest.
Fairness == WF_vars(SensorThread) /\ WF_vars(Receiver)
FairSpec == Spec /\ Fairness

-----------------------------------------------------------------------------
(* Properties                                                              *)

Entry == [seq : SeqNo, prim : Prim, msgs : Seq(Block)]
Message == [prim : Prim, acks : Seq(Int), of : SeqNo, blk : Nat,
            total : Totals \cup {1}]

RegistryType == reply_ack_queue \in Seq(Entry)
CondType == is_op_done \in BOOLEAN /\ mtx \in BOOLEAN
CallType ==
    /\ pc \in {"start", "send", "lock", "armed", "wait", "pop", "after",
               "check", "arm", "end", "left"}
    /\ call \in {"short", "first", "second"}
    /\ seq \in SeqNo /\ rt \in BOOLEAN
CountType == item \in 0..Items /\ attempt \in 0..Retry /\ ret \in BOOLEAN
DataType == /\ readBuf \in Block \cup {NoMsg}
            /\ totalBlock \in Nat /\ blkCnt \in Nat /\ skip_pkt_fg \in BOOLEAN
            /\ file \in Seq(Block) /\ stored \subseteq Seq(Block)
RxType == rx.pc \in {"idle", "signal", "next"}
LinkType == link \in Seq(Message)

\* Every variable has its type; in particular a session stays within the numbers
\* that its items and retries allow.
TypeOK == /\ RegistryType /\ CondType /\ CallType /\ CountType /\ DataType
          /\ RxType /\ LinkType

\* What reaches the database comes from one request only and starts with block
\* 0, ends with the last one and never goes back: late blocks of an earlier
\* attempt, wake-ups without a message and entries left behind do not get into
\* a file (collectData, the checks of current_block and _skip_pkt_fg).
WaveformOrdered ==
    \A w \in stored :
        /\ w[1].blk = 0 /\ w[Len(w)].blk = w[1].total - 1
        /\ \A k \in 1..Len(w) : w[k].of = w[1].of
        /\ \A k \in 1..Len(w) - 1 : w[k].blk < w[k + 1].blk

\* A waveform is saved only if all its blocks have been received, as the comment
\* in collectData says.  A block whose data is not usable is passed over.
WaveformWhole == \A w \in stored : Len(w) = w[1].total

\* The entry that first_half hands out as state, and that the waiter reads its
\* messages from, is registered for as long as the thread goes on using it:
\* unregisterReplyAck frees it (app_froto_n_send_with_multiple_replies_*).
EntryKept ==
    pc \in {"send", "lock", "armed", "wait", "pop", "after", "check", "arm"}
        => Registered(seq)

\* app_froto_n_send_with_reply never reports a reply it does not have: neither
\* the flag of an earlier attempt nor a signal that overtakes its message makes
\* a short request succeed with an empty buffer.
ReplyMeansMessage ==
    (pc = "after" /\ call = "short" /\ rt) =>
        (readBuf # NoMsg /\ readBuf.of = seq)

\* Whatever gets lost, and although signals do, the session of a sensor comes to
\* its end: every wait times out and retries are counted (collectData).
SessionEnds == <>(pc = "left")
=============================================================================
