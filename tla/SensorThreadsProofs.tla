------------------------ MODULE SensorThreadsProofs ------------------------
(***************************************************************************)
(* Proofs about module SensorThreads, for any number of connection         *)
(* indices, sensors, threads and entries of thread_para: its type          *)
(* invariant, that entries of thread_para are neither lost nor shared,     *)
(* that a thread on record lives, and that every sensor on record has a    *)
(* thread that will give it back.                                          *)
(***************************************************************************)
EXTENDS SensorThreads, LeastElement, FiniteSetTheorems, TLAPS

-----------------------------------------------------------------------------
(* Lemmas about the helpers                                                *)

\* What the idle threads have in their records.
LEMMA IdleRecords ==
  /\ RxIdle \in [pc : {"idle", "got", "create"}, i : Idx, k : Para]
  /\ RxIdle.pc = "idle"
  /\ NotRunning \in [pc : {"none", "start", "check", "wait", "work", "leave",
                           "deinit"},
                     para : Para, idx : Idx, id : Id \cup {NoId}, cv : BOOLEAN]
  /\ NotRunning.pc = "none"
BY SizeAssumption DEF RxIdle, NotRunning, Idx, Para

\* The search for an entry of thread_para ends at a free one.
LEMMA FreeEntry ==
  ASSUME Free # {}
  PROVE  (CHOOSE n \in Free : \A o \in Free : n <= o) \in Free
<1>1. Free \in SUBSET Nat
  BY DEF Free, Para
<1> QED BY <1>1, LeastExists

\* Adding to a queue.
LEMMA AppendType ==
  ASSUME NEW S, NEW q \in Seq(S), NEW x \in S
  PROVE  Append(q, x) \in Seq(S)
OBVIOUS

\* Taking from a queue.
LEMMA TailType ==
  ASSUME NEW S, NEW q \in Seq(S), q # <<>>
  PROVE  Head(q) \in S /\ Tail(q) \in Seq(S)
OBVIOUS

\* The signal is given or consumed.
LEMMA CondVarDone ==
  ASSUME CtrType, NEW i \in Idx, NEW u \in BOOLEAN
  PROVE  [pt_gen_cond_var EXCEPT ![i].done = u] \in
           [Idx -> [magic : {"none", "INIT", "DEINIT"}, done : BOOLEAN]]
BY DEF CtrType

\* _DISCONNECT never sends a command without an address.
LEMMA CommandType ==
  ASSUME TypeOK, NEW i \in Idx
  PROVE  Command(i) \in Seq([i : Idx, id : Id])
<1>1. CASE connected_id[i] = NoId
  BY <1>1 DEF TypeOK, ToType, Command
<1>2. CASE connected_id[i] # NoId
  <2>1. [i |-> i, id |-> connected_id[i]] \in [i : Idx, id : Id]
    BY <1>2 DEF TypeOK, CtrType
  <2> QED BY <1>2, <2>1, AppendType DEF TypeOK, ToType, Command
<1> QED BY <1>1, <1>2

\* An event that the receiving thread takes.
LEMMA ReceivedType ==
  ASSUME TypeOK, NEW ev, Received(ev)
  PROVE  /\ FromType'
         /\ Head(from_ble).i \in Idx /\ Head(from_ble).id \in Id \cup {NoId}
<1>1. Head(from_ble) \in Msg /\ Tail(from_ble) \in Seq(Msg)
  BY TailType DEF TypeOK, FromType, Received
<1> QED BY <1>1 DEF Received, FromType, Msg

\* An event that the BLE process reports.
LEMMA ReportType ==
  ASSUME TypeOK, NEW i \in Idx, NEW id \in Id \cup {NoId},
         NEW ev \in {"CONNECTION", "DISCONNECTION", "SERVICES_RESOLVED"},
         Report(ev, i, id)
  PROVE  FromType'
<1>1. [ev |-> ev, i |-> i, id |-> id] \in Msg
  BY DEF Msg
<1> QED BY <1>1, AppendType DEF TypeOK, FromType, Report

-----------------------------------------------------------------------------
(* Types                                                                   *)

\* Nothing is connected and no thread runs.
LEMMA InitType == Init => TypeOK
<1> SUFFICES ASSUME Init
             PROVE  TypeOK
  OBVIOUS
<1> USE SizeAssumption DEF Init
<1>1. CtrType
  BY DEF CtrType
<1>2. ParaType
  BY DEF ParaType, Idx
<1>3. RxType /\ ThType
  BY IdleRecords DEF RxType, ThType
<1>4. FromType /\ ToType /\ BleType
  BY DEF FromType, ToType, BleType
<1> QED BY <1>1, <1>2, <1>3, <1>4 DEF TypeOK

\* The receiving thread.
LEMMA RxKeepsType == TypeOK /\ Rx => TypeOK'
<1> SUFFICES ASSUME TypeOK, Rx
             PROVE  TypeOK'
  OBVIOUS
<1> USE DEF ctr, ble
<1>1. CASE RxConnection
  <2> DEFINE m == Head(from_ble)
             k == CHOOSE n \in Free : \A o \in Free : n <= o
  <2>1. m.i \in Idx /\ m.id \in Id \cup {NoId} /\ FromType'
    BY <1>1, ReceivedType DEF RxConnection
  <2>2. k \in Para
    BY <1>1, FreeEntry DEF RxConnection, Free
  <2>3. CtrType'
    BY <1>1, <2>1 DEF RxConnection, TypeOK, CtrType
  <2>4. ParaType'
    BY <1>1, <2>1, <2>2 DEF RxConnection, TypeOK, ParaType
  <2>5. RxType'
    BY <1>1, <2>1, <2>2 DEF RxConnection, RxType
  <2> QED BY <1>1, <2>1, <2>3, <2>4, <2>5
          DEF RxConnection, TypeOK, ThType, ToType, BleType
<1>2. CASE RxSkip
  BY <1>2, ReceivedType
     DEF RxSkip, TypeOK, CtrType, ParaType, RxType, ThType, ToType, BleType
<1>3. CASE RxPrepare
  BY <1>3 DEF RxPrepare, TypeOK, CtrType, ParaType, RxType, ThType, FromType,
     ToType, BleType
<1>4. CASE RxCreate
  <2>1. PICK t \in Thread :
          /\ th' = [th EXCEPT ![t] = [NotRunning EXCEPT !.pc = "start",
                                                        !.para = rx.k]]
          /\ thread_sensor' = [thread_sensor EXCEPT ![rx.i] = t]
    BY <1>4 DEF RxCreate
  <2>2. CtrType'
    BY <1>4, <2>1 DEF RxCreate, TypeOK, CtrType, RxType
  <2>3. RxType'
    BY <1>4, IdleRecords DEF RxCreate, RxType
  <2>4. ThType'
    <3>1. [NotRunning EXCEPT !.pc = "start", !.para = rx.k] \in
            [pc : {"none", "start", "check", "wait", "work", "leave", "deinit"},
             para : Para, idx : Idx, id : Id \cup {NoId}, cv : BOOLEAN]
      BY IdleRecords DEF TypeOK, RxType
    <3> QED BY <2>1, <3>1 DEF TypeOK, ThType
  <2> QED BY <1>4, <2>2, <2>3, <2>4
          DEF RxCreate, TypeOK, ParaType, FromType, ToType, BleType
<1>5. CASE RxNoThread
  <2>1. ParaType'
    BY <1>5 DEF RxNoThread, TypeOK, ParaType, RxType
  <2> QED BY <1>5, <2>1, IdleRecords
          DEF RxNoThread, TypeOK, CtrType, RxType, ThType, FromType, ToType,
              BleType
<1>6. CASE RxDisconnection
  BY <1>6, ReceivedType
     DEF RxDisconnection, TypeOK, CtrType, ParaType, RxType, ThType, ToType,
         BleType
<1>7. CASE RxServices
  <2>1. CtrType'
    <3>1. Head(from_ble).i \in Idx
      BY <1>7, ReceivedType DEF RxServices
    <3>2. [pt_gen_cond_var EXCEPT ![Head(from_ble).i].done = TRUE] \in
            [Idx -> [magic : {"none", "INIT", "DEINIT"}, done : BOOLEAN]]
      BY <3>1, CondVarDone DEF TypeOK
    <3> QED BY <1>7, <3>2 DEF RxServices, TypeOK, CtrType
  <2> QED BY <1>7, <2>1, ReceivedType
          DEF RxServices, TypeOK, ParaType, RxType, ThType, ToType, BleType
<1> QED BY <1>1, <1>2, <1>3, <1>4, <1>5, <1>6, <1>7 DEF Rx

\* A sensor thread.
LEMMA ThreadKeepsType ==
  ASSUME TypeOK, NEW t \in Thread, TStep(t)
  PROVE  TypeOK'
<1> USE DEF ctr, ble
<1>1. CASE TFetch(t)
  <2>1. ThType'
    <3> DEFINE p == thread_para[th[t].para]
    <3>1. p.idx \in Idx /\ p.id \in Id \cup {NoId}
      BY DEF TypeOK, ThType, ParaType
    <3>2. th' = [th EXCEPT ![t].pc = "check", ![t].idx = p.idx, ![t].id = p.id]
      BY <1>1 DEF TFetch
    <3> HIDE DEF p
    <3>3. th[t] \in [pc : {"none", "start", "check", "wait", "work", "leave",
                           "deinit"},
                     para : Para, idx : Idx, id : Id \cup {NoId}, cv : BOOLEAN]
      BY DEF TypeOK, ThType
    <3>4. [[[th[t] EXCEPT !.pc = "check"] EXCEPT !.idx = p.idx] EXCEPT !.id = p.id]
            \in [pc : {"none", "start", "check", "wait", "work", "leave",
                       "deinit"},
                 para : Para, idx : Idx, id : Id \cup {NoId}, cv : BOOLEAN]
      BY <3>1, <3>3
    <3>5. th' = [th EXCEPT ![t] =
                   [[[th[t] EXCEPT !.pc = "check"] EXCEPT !.idx = p.idx]
                      EXCEPT !.id = p.id]]
      BY <3>2 DEF TypeOK, ThType
    <3> QED BY <3>4, <3>5 DEF TypeOK, ThType
  <2>2. ParaType'
    BY <1>1 DEF TFetch, TypeOK, ThType, ParaType
  <2> QED BY <1>1, <2>1, <2>2
          DEF TFetch, TypeOK, CtrType, RxType, FromType, ToType, BleType
<1>2. CASE TCheck(t)
  <2>1. ThType'
    BY <1>2 DEF TCheck, TypeOK, ThType
  <2> QED BY <1>2, <2>1
          DEF TCheck, TypeOK, CtrType, ParaType, RxType, FromType, ToType, BleType
<1>3. CASE TWake(t)
  <2>1. ThType'
    BY <1>3 DEF TWake, TypeOK, ThType
  <2>2. CtrType'
    <3>1. th[t].idx \in Idx
      BY DEF TypeOK, ThType
    <3> QED BY <1>3, <3>1, CondVarDone DEF TWake, TypeOK, CtrType
  <2> QED BY <1>3, <2>1, <2>2
          DEF TWake, TypeOK, ParaType, RxType, FromType, ToType, BleType
<1>4. CASE TTimeout(t) \/ TWork(t)
  <2>1. ThType'
    BY <1>4 DEF TTimeout, TWork, TypeOK, ThType
  <2> QED BY <1>4, <2>1
          DEF TTimeout, TWork, TypeOK, CtrType, ParaType, RxType, FromType,
              ToType, BleType
<1>5. CASE TDisconnect(t)
  <2>1. th[t].idx \in Idx
    BY DEF TypeOK, ThType
  <2>2. ToType' /\ BleType'
    BY <1>5, <2>1, CommandType DEF TDisconnect, Send, TypeOK, ToType, BleType
  <2>3. CtrType'
    BY <1>5, <2>1 DEF TDisconnect, TypeOK, CtrType
  <2>4. ThType'
    BY <1>5 DEF TDisconnect, TypeOK, ThType
  <2> QED BY <1>5, <2>2, <2>3, <2>4
          DEF TDisconnect, TypeOK, ParaType, RxType, FromType
<1>6. CASE TDeinit(t)
  <2>1. ThType'
    BY <1>6, IdleRecords DEF TDeinit, TypeOK, ThType
  <2>2. CtrType'
    BY <1>6 DEF TDeinit, TypeOK, ThType, CtrType
  <2> QED BY <1>6, <2>1, <2>2
          DEF TDeinit, TypeOK, ParaType, RxType, FromType, ToType, BleType
<1> QED BY <1>1, <1>2, <1>3, <1>4, <1>5, <1>6 DEF TStep

\* The BLE process.
LEMMA BleKeepsType == TypeOK /\ Ble => TypeOK'
<1> SUFFICES ASSUME TypeOK, Ble
             PROVE  TypeOK'
  OBVIOUS
<1> USE DEF ctr, ble
<1>1. ASSUME NEW i \in Idx, BleResolve(i) \/ BleLoss(i)
      PROVE  TypeOK'
  BY <1>1, ReportType
     DEF BleResolve, BleLoss, Emptied, TypeOK, CtrType, ParaType, RxType, ThType,
         ToType, BleType
<1>2. ASSUME NEW i \in Idx, NEW id \in Id, BleConnect(i, id)
      PROVE  TypeOK'
  BY <1>2, ReportType
     DEF BleConnect, TypeOK, CtrType, ParaType, RxType, ThType, ToType, BleType
<1>3. ASSUME NEW i \in Idx, NEW id \in Id, BleConnectUnseen(i, id)
      PROVE  TypeOK'
  BY <1>3
     DEF BleConnectUnseen, TypeOK, CtrType, ParaType, RxType, ThType, FromType,
         ToType, BleType
<1>4. CASE BleObey \/ BleObeyReported \/ BleIgnore
  <2>1. to_ble # <<>>
    BY <1>4 DEF BleObey, BleObeyReported, BleIgnore
  <2>2. Head(to_ble) \in [i : Idx, id : Id] /\ Tail(to_ble) \in Seq([i : Idx, id : Id])
    BY <2>1, TailType DEF TypeOK, ToType
  <2>3. ToType'
    BY <1>4, <2>2 DEF BleObey, BleObeyReported, BleIgnore, ToType
  <2>4. BleType'
    BY <1>4, <2>2
       DEF BleObey, BleObeyReported, BleIgnore, Emptied, TypeOK, BleType
  <2>5. FromType'
    BY <1>4, <2>2, ReportType
       DEF BleObey, BleObeyReported, BleIgnore, TypeOK, FromType
  <2> QED BY <1>4, <2>3, <2>4, <2>5
          DEF BleObey, BleObeyReported, BleIgnore, TypeOK, CtrType, ParaType,
              RxType, ThType
<1> QED BY <1>1, <1>2, <1>3, <1>4 DEF Ble

\* A step of any thread, or none.
LEMMA NextType == TypeOK /\ [Next]_vars => TypeOK'
<1>1. TypeOK /\ Next => TypeOK'
  BY RxKeepsType, ThreadKeepsType, BleKeepsType DEF Next
<1>2. TypeOK /\ UNCHANGED vars => TypeOK'
  BY DEF TypeOK, CtrType, ParaType, RxType, ThType, FromType, ToType, BleType,
         vars, ctr, ble
<1> QED BY <1>1, <1>2

\* Every index, entry and address stays in its range, whatever the sizes: no
\* thread works for an index that is not one, and no CMD_DISCONNECTION without
\* an address is ever queued.
THEOREM TypeCorrect == Spec => []TypeOK
  BY InitType, NextType, PTL DEF Spec

-----------------------------------------------------------------------------
(* The entries of thread_para                                              *)

\* The receiving thread has an entry in use for the index it is at.
RxHolds ==
  rx.pc # "idle" => thread_para[rx.k].used /\ thread_para[rx.k].idx = rx.i

\* So does a new sensor thread.
StartHolds ==
  \A t \in Thread : th[t].pc = "start" => thread_para[th[t].para].used

\* No two of them have the same.
NotShared ==
  /\ \A t \in Thread : th[t].pc = "start" /\ rx.pc # "idle" => th[t].para # rx.k
  /\ \A t, u \in Thread : th[t].pc = "start" /\ th[u].pc = "start"
                            /\ th[t].para = th[u].para => t = u

\* An entry in use is on its way to a thread.
NotLost ==
  \A k \in Para : thread_para[k].used =>
      \/ rx.pc # "idle" /\ rx.k = k
      \/ \E t \in Thread : th[t].pc = "start" /\ th[t].para = k

OwnInv == RxHolds /\ StartHolds /\ NotShared /\ NotLost

\* No entry is in use.
LEMMA InitOwn == Init => OwnInv
BY DEF Init, OwnInv, RxHolds, StartHolds, NotShared, NotLost, RxIdle, NotRunning

\* Steps that neither touch thread_para, nor the receiving thread's place in it,
\* nor a sensor thread that is new, leave ownership alone.
Elsewhere ==
  /\ UNCHANGED thread_para
  /\ rx'.k = rx.k /\ rx'.i = rx.i /\ (rx'.pc = "idle" <=> rx.pc = "idle")
  /\ \A t \in Thread : /\ th'[t].pc = "start" <=> th[t].pc = "start"
                       /\ th[t].pc = "start" => th'[t].para = th[t].para

\* They do.
LEMMA ElsewhereOwn == TypeOK /\ OwnInv /\ Elsewhere => OwnInv'
BY DEF Elsewhere, OwnInv, RxHolds, StartHolds, NotShared, NotLost, TypeOK,
       RxType, ThType

\* The steps of the receiving thread that are such.
LEMMA RxElsewhere ==
  ASSUME TypeOK,
         RxSkip \/ RxPrepare \/ RxDisconnection \/ RxServices
  PROVE  Elsewhere
BY DEF TypeOK, RxType, RxSkip, RxPrepare, RxDisconnection, RxServices, Elsewhere

\* Those of a sensor thread.
LEMMA ThreadElsewhere ==
  ASSUME TypeOK, NEW t \in Thread,
         TCheck(t) \/ TWake(t) \/ TTimeout(t) \/ TWork(t) \/ TDisconnect(t)
           \/ TDeinit(t)
  PROVE  Elsewhere
<1>1. UNCHANGED <<thread_para, rx>>
  BY DEF TCheck, TWake, TTimeout, TWork, TDisconnect, TDeinit
<1>2. th[t].pc # "start" /\ th'[t].pc # "start"
  BY IdleRecords DEF TypeOK, ThType, TCheck, TWake, TTimeout, TWork, TDisconnect, TDeinit
<1>3. \A u \in Thread \ {t} : th'[u] = th[u]
  BY DEF TypeOK, ThType, TCheck, TWake, TTimeout, TWork, TDisconnect, TDeinit
<1> QED BY <1>1, <1>2, <1>3 DEF Elsewhere

\* Those of the BLE process.
LEMMA BleElsewhere == Ble => Elsewhere
BY DEF Ble, BleResolve, BleLoss, BleConnect, BleConnectUnseen, BleObey,
       BleObeyReported, BleIgnore, Elsewhere

\* A connection takes an entry that nobody has.
LEMMA ConnectionOwn == TypeOK /\ OwnInv /\ RxConnection => OwnInv'
<1> SUFFICES ASSUME TypeOK, OwnInv, RxConnection
             PROVE  OwnInv'
  OBVIOUS
<1> DEFINE m == Head(from_ble)
           k == CHOOSE n \in Free : \A o \in Free : n <= o
<1>1. k \in Para /\ ~thread_para[k].used
  BY FreeEntry DEF RxConnection, Free
<1>2. /\ thread_para' = [thread_para EXCEPT
                           ![k] = [used |-> TRUE, idx |-> m.i, id |-> m.id]]
      /\ rx' = [pc |-> "got", i |-> m.i, k |-> k]
      /\ rx.pc = "idle" /\ th' = th
  BY DEF RxConnection, Received
<1> HIDE DEF m, k
<1>3. /\ \A n \in Para \ {k} : thread_para'[n] = thread_para[n]
      /\ thread_para'[k].used /\ thread_para'[k].idx = m.i
  BY <1>1, <1>2 DEF TypeOK, ParaType
<1>4. \A t \in Thread : th[t].para \in Para
  BY DEF TypeOK, ThType
<1>5. \A t \in Thread : th[t].pc = "start" => th[t].para # k
  BY <1>1 DEF OwnInv, StartHolds
<1>6. RxHolds'
  BY <1>2, <1>3 DEF RxHolds
<1>7. StartHolds' /\ NotShared'
  BY <1>2, <1>3, <1>4, <1>5 DEF OwnInv, StartHolds, NotShared
<1>8. NotLost'
  BY <1>2, <1>3 DEF OwnInv, NotLost
<1> QED BY <1>6, <1>7, <1>8 DEF OwnInv

\* pthread_create hands the entry over.
LEMMA CreateOwn == TypeOK /\ OwnInv /\ RxCreate => OwnInv'
<1> SUFFICES ASSUME TypeOK, OwnInv, RxCreate
             PROVE  OwnInv'
  OBVIOUS
<1>1. PICK t \in Thread :
        /\ th[t].pc = "none"
        /\ th' = [th EXCEPT ![t] = [NotRunning EXCEPT !.pc = "start",
                                                      !.para = rx.k]]
  BY DEF RxCreate
<1>2. th'[t].pc = "start" /\ th'[t].para = rx.k
  BY <1>1 DEF TypeOK, ThType, NotRunning
<1>3. \A u \in Thread \ {t} : th'[u] = th[u]
  BY <1>1 DEF TypeOK, ThType
<1>4. rx.pc # "idle" /\ rx'.pc = "idle" /\ thread_para' = thread_para
  BY IdleRecords DEF RxCreate
<1> QED BY <1>1, <1>2, <1>3, <1>4
        DEF OwnInv, RxHolds, StartHolds, NotShared, NotLost

\* With a thread on record the entry is given back.
LEMMA NoThreadOwn == TypeOK /\ OwnInv /\ RxNoThread => OwnInv'
<1> SUFFICES ASSUME TypeOK, OwnInv, RxNoThread
             PROVE  OwnInv'
  OBVIOUS
<1>1. /\ rx.pc # "idle" /\ rx'.pc = "idle" /\ th' = th
      /\ rx.k \in Para
  BY IdleRecords DEF RxNoThread, TypeOK, RxType
<1>2. /\ \A n \in Para \ {rx.k} : thread_para'[n] = thread_para[n]
      /\ ~thread_para'[rx.k].used
  BY <1>1 DEF RxNoThread, TypeOK, ParaType
<1>3. \A t \in Thread : th[t].para \in Para
  BY DEF TypeOK, ThType
<1> QED BY <1>1, <1>2, <1>3 DEF OwnInv, RxHolds, StartHolds, NotShared, NotLost

\* A new thread has read its parameters.
LEMMA FetchOwn ==
  ASSUME TypeOK, OwnInv, NEW t \in Thread, TFetch(t)
  PROVE  OwnInv'
<1> DEFINE e == th[t].para
<1>1. e \in Para /\ rx' = rx /\ th[t].pc = "start"
  BY DEF TFetch, TypeOK, ThType
<1>2. th'[t].pc = "check" /\ \A u \in Thread \ {t} : th'[u] = th[u]
  BY DEF TFetch, TypeOK, ThType
<1>3. /\ \A n \in Para \ {e} : thread_para'[n] = thread_para[n]
      /\ ~thread_para'[e].used
  BY <1>1 DEF TFetch, TypeOK, ParaType
<1>4. /\ \A u \in Thread : th[u].para \in Para
      /\ rx.k \in Para
  BY DEF TypeOK, ThType, RxType
<1> QED BY <1>1, <1>2, <1>3, <1>4
        DEF OwnInv, RxHolds, StartHolds, NotShared, NotLost

\* OwnInv is inductive relative to the types.
LEMMA OwnInvariant == Spec => [](TypeOK /\ OwnInv)
<1>1. TypeOK /\ OwnInv /\ Next => OwnInv'
  BY ElsewhereOwn, RxElsewhere, ThreadElsewhere, BleElsewhere, ConnectionOwn,
     CreateOwn, NoThreadOwn, FetchOwn DEF Next, Rx, TStep
<1>2. OwnInv /\ UNCHANGED vars => OwnInv'
  BY DEF OwnInv, RxHolds, StartHolds, NotShared, NotLost, vars
<1> QED BY <1>1, <1>2, InitType, InitOwn, NextType, PTL DEF Spec

\* Then each entry has as many owners as it should.
LEMMA OwnersCounted == TypeOK /\ OwnInv => ParaOwned
<1> SUFFICES ASSUME TypeOK, OwnInv, NEW k \in Para
             PROVE  Cardinality(Points(k)) = IF thread_para[k].used THEN 1 ELSE 0
  BY DEF ParaOwned
<1>1. CASE ~thread_para[k].used
  <2>1. Points(k) = {}
    BY <1>1 DEF OwnInv, RxHolds, StartHolds, Points
  <2> QED BY <1>1, <2>1, FS_EmptySet
<1>2. CASE thread_para[k].used
  <2>1. \E x : Points(k) = {x}
    <3>1. CASE rx.pc # "idle" /\ rx.k = k
      <4>1. Points(k) = {"rx"}
        BY <3>1 DEF OwnInv, NotShared, Points
      <4> QED BY <4>1
    <3>2. CASE ~(rx.pc # "idle" /\ rx.k = k)
      <4>1. PICK t \in Thread : th[t].pc = "start" /\ th[t].para = k
        BY <1>2, <3>2 DEF OwnInv, NotLost
      <4>2. Points(k) = {t}
        BY <3>2, <4>1 DEF OwnInv, NotShared, Points
      <4> QED BY <4>2
    <3> QED BY <3>1, <3>2
  <2> QED BY <1>2, <2>1, FS_Singleton
<1> QED BY <1>1, <1>2

\* Entries of thread_para are neither lost nor shared, however many there are,
\* and however connections, threads and their parameters overtake each other: an
\* entry in use is on its way to exactly one thread.
THEOREM EntriesOwned == Spec => []ParaOwned
  BY OwnInvariant, OwnersCounted, PTL

-----------------------------------------------------------------------------
(* Threads on record and sensors on record                                 *)

ServeInv == RecordedThreadLives /\ ConnectionServed

\* No index has a thread or a sensor.
LEMMA InitServe == Init => ServeInv
BY DEF Init, ServeInv, RecordedThreadLives, ConnectionServed

\* A thread that serves an index goes on doing so.
ServingKept == \A t \in Thread, i \in Idx : Serving(t, i) => Serving(t, i)'

\* Steps that put neither a thread nor a sensor on record, and after which
\* whoever served an index still does.
NothingRecorded ==
  /\ ServingKept
  /\ \A i \in Idx : thread_sensor'[i] \in {thread_sensor[i], NoThread}
  /\ \A i \in Idx : connected_id'[i] \in {connected_id[i], NoId}
  /\ rx'.i = rx.i /\ (rx'.pc = "idle" <=> rx.pc = "idle")

\* They keep the invariant.
LEMMA NothingRecordedServe == TypeOK /\ ServeInv /\ NothingRecorded => ServeInv'
<1> SUFFICES ASSUME TypeOK, ServeInv, NothingRecorded
             PROVE  ServeInv'
  OBVIOUS
<1>1. RecordedThreadLives'
  <2> SUFFICES ASSUME NEW i \in Idx, thread_sensor'[i] # NoThread
               PROVE  Serving(thread_sensor[i], i)'
    BY DEF RecordedThreadLives, NothingRecorded
  <2>1. thread_sensor[i] # NoThread /\ thread_sensor'[i] = thread_sensor[i]
    BY DEF NothingRecorded
  <2>2. thread_sensor[i] \in Thread /\ Serving(thread_sensor[i], i)
    BY <2>1 DEF TypeOK, CtrType, ServeInv, RecordedThreadLives
  <2> QED BY <2>1, <2>2 DEF NothingRecorded, ServingKept, Serving, IndexOf
<1>2. ConnectionServed'
  BY DEF ServeInv, ConnectionServed, NothingRecorded, ServingKept
<1> QED BY <1>1, <1>2 DEF ServeInv

\* The parameters of a thread that is about to read them are not overwritten.
LEMMA EntryKeepsServing ==
  ASSUME TypeOK, OwnInv, th' = th, NEW k \in Para,
         \A n \in Para \ {k} : thread_para'[n] = thread_para[n],
         thread_para'[k].idx = thread_para[k].idx \/ ~thread_para[k].used
  PROVE  ServingKept
<1>1. \A t \in Thread : th[t].para \in Para
  BY DEF TypeOK, ThType
<1> QED BY <1>1 DEF OwnInv, StartHolds, ServingKept, Serving, IndexOf

\* The receiving thread takes an event and neither creates a thread nor has a
\* new connection.
LEMMA RxServe ==
  ASSUME TypeOK, RxSkip \/ RxPrepare \/ RxDisconnection \/ RxServices
  PROVE  NothingRecorded
<1>1. th' = th /\ thread_para' = thread_para
  BY DEF RxSkip, RxPrepare, RxDisconnection, RxServices
<1>2. ServingKept
  BY <1>1 DEF ServingKept, Serving, IndexOf
<1>3. rx'.i = rx.i /\ (rx'.pc = "idle" <=> rx.pc = "idle")
  BY DEF TypeOK, RxType, RxSkip, RxPrepare, RxDisconnection, RxServices
<1>4. CASE RxDisconnection
  BY <1>2, <1>3, <1>4 DEF TypeOK, CtrType, RxDisconnection, NothingRecorded
<1>5. CASE RxSkip \/ RxPrepare \/ RxServices
  BY <1>2, <1>3, <1>5 DEF RxSkip, RxPrepare, RxServices, NothingRecorded, ctr
<1> QED BY <1>4, <1>5

\* The steps of the BLE process do not touch the general process.
LEMMA BleServe == Ble => NothingRecorded
<1> SUFFICES ASSUME Ble
             PROVE  NothingRecorded
  OBVIOUS
<1>1. UNCHANGED <<ctr, thread_para, rx, th>>
  BY DEF Ble, BleResolve, BleLoss, BleConnect, BleConnectUnseen, BleObey,
         BleObeyReported, BleIgnore
<1> QED BY <1>1 DEF NothingRecorded, ServingKept, Serving, IndexOf, ctr

\* A thread that works on, or ends after its clean-up.
LEMMA WorkServe ==
  ASSUME TypeOK, NEW t \in Thread,
         TFetch(t) \/ TCheck(t) \/ TWake(t) \/ TTimeout(t) \/ TWork(t)
           \/ TDeinit(t)
  PROVE  NothingRecorded
<1>1. rx' = rx /\ connected_id' = connected_id /\ thread_sensor' = thread_sensor
  BY DEF TFetch, TCheck, TWake, TTimeout, TWork, TDeinit, ctr
<1>2. \A u \in Thread \ {t} : th'[u] = th[u]
  BY DEF TypeOK, ThType, TFetch, TCheck, TWake, TTimeout, TWork, TDeinit
<1>3. \A k \in Para : thread_para'[k].idx = thread_para[k].idx
  BY DEF TypeOK, ParaType, ThType, TFetch, TCheck, TWake, TTimeout, TWork,
         TDeinit
<1>4. \A u \in Thread : th[u].para \in Para
  BY DEF TypeOK, ThType
<1>5. ASSUME NEW i \in Idx, Serving(t, i)
      PROVE  Serving(t, i)'
  <2>1. CASE TFetch(t)
    <3>1. th'[t].pc = "check" /\ th'[t].idx = thread_para[th[t].para].idx
      BY <2>1 DEF TypeOK, ThType, TFetch
    <3>2. thread_para[th[t].para].idx = i
      BY <1>5, <2>1 DEF TFetch, Serving, IndexOf
    <3> QED BY <3>1, <3>2 DEF Serving, IndexOf
  <2>2. CASE TCheck(t) \/ TWake(t) \/ TTimeout(t) \/ TWork(t)
    <3>1. /\ th'[t].pc \in {"wait", "work", "leave"} /\ th'[t].idx = th[t].idx
          /\ th[t].pc # "start"
      BY <2>2 DEF TypeOK, ThType, TCheck, TWake, TTimeout, TWork
    <3> QED BY <1>5, <3>1 DEF Serving, IndexOf
  <2>3. CASE TDeinit(t)
    BY <1>5, <2>3 DEF TDeinit, Serving
  <2> QED BY <2>1, <2>2, <2>3
<1>6. ServingKept
  BY <1>2, <1>3, <1>4, <1>5 DEF ServingKept, Serving, IndexOf
<1> QED BY <1>1, <1>6 DEF NothingRecorded

\* A connection is put on record; the receiving thread will find it a thread.
LEMMA ConnectionServe == TypeOK /\ OwnInv /\ ServeInv /\ RxConnection => ServeInv'
<1> SUFFICES ASSUME TypeOK, OwnInv, ServeInv, RxConnection
             PROVE  ServeInv'
  OBVIOUS
<1> DEFINE m == Head(from_ble)
           k == CHOOSE n \in Free : \A o \in Free : n <= o
<1>1. k \in Para /\ ~thread_para[k].used
  BY FreeEntry DEF RxConnection, Free
<1>2. /\ connected_id' = [connected_id EXCEPT ![m.i] = m.id]
      /\ thread_para' = [thread_para EXCEPT
                           ![k] = [used |-> TRUE, idx |-> m.i, id |-> m.id]]
      /\ rx' = [pc |-> "got", i |-> m.i, k |-> k]
      /\ rx.pc = "idle" /\ th' = th /\ thread_sensor' = thread_sensor
  BY DEF RxConnection, Received
<1> HIDE DEF m, k
<1>3. ServingKept
  BY <1>1, <1>2, EntryKeepsServing DEF TypeOK, ParaType
<1>4. RecordedThreadLives'
  <2> SUFFICES ASSUME NEW i \in Idx, thread_sensor[i] # NoThread
               PROVE  Serving(thread_sensor[i], i)'
    BY <1>2 DEF RecordedThreadLives
  <2>1. thread_sensor[i] \in Thread /\ Serving(thread_sensor[i], i)
    BY DEF TypeOK, CtrType, ServeInv, RecordedThreadLives
  <2> QED BY <1>2, <1>3, <2>1 DEF ServingKept, Serving, IndexOf
<1>5. ConnectionServed'
  BY <1>2, <1>3 DEF TypeOK, CtrType, ServeInv, ConnectionServed, ServingKept
<1> QED BY <1>4, <1>5 DEF ServeInv

\* The new thread serves the index that it is recorded for.
LEMMA CreateServe == TypeOK /\ OwnInv /\ ServeInv /\ RxCreate => ServeInv'
<1> SUFFICES ASSUME TypeOK, OwnInv, ServeInv, RxCreate
             PROVE  ServeInv'
  OBVIOUS
<1>1. PICK t \in Thread :
        /\ th[t].pc = "none"
        /\ th' = [th EXCEPT ![t] = [NotRunning EXCEPT !.pc = "start",
                                                      !.para = rx.k]]
        /\ thread_sensor' = [thread_sensor EXCEPT ![rx.i] = t]
  BY DEF RxCreate
<1>2. th'[t].pc = "start" /\ th'[t].para = rx.k
  BY <1>1 DEF TypeOK, ThType, NotRunning
<1>3. \A u \in Thread \ {t} : th'[u] = th[u]
  BY <1>1 DEF TypeOK, ThType
<1>4. /\ rx.pc # "idle" /\ rx'.pc = "idle" /\ rx.i \in Idx
      /\ thread_para' = thread_para /\ connected_id' = connected_id
  BY IdleRecords DEF RxCreate, TypeOK, RxType
<1>5. thread_para[rx.k].idx = rx.i
  BY <1>4 DEF OwnInv, RxHolds
<1>6. ASSUME NEW i \in Idx, i = rx.i
      PROVE  Serving(t, i)'
  <2>1. IndexOf(t)' = i
    BY <1>2, <1>4, <1>5, <1>6 DEF IndexOf
  <2> QED BY <1>2, <2>1 DEF Serving
<1>7. ServingKept
  BY <1>1, <1>3, <1>4 DEF ServingKept, Serving, IndexOf
<1>8. RecordedThreadLives'
  <2> SUFFICES ASSUME NEW i \in Idx, NEW u, u = thread_sensor'[i], u # NoThread
               PROVE  Serving(u, i)'
    BY DEF RecordedThreadLives, Serving, IndexOf
  <2>1. CASE i = rx.i
    BY <1>1, <1>6, <2>1 DEF TypeOK, CtrType
  <2>2. CASE i # rx.i
    <3>1. u = thread_sensor[i] /\ u \in Thread
      BY <1>1, <2>2 DEF TypeOK, CtrType
    <3> QED BY <1>7, <3>1 DEF ServeInv, RecordedThreadLives, ServingKept
  <2> QED BY <2>1, <2>2
<1>9. ConnectionServed'
  BY <1>4, <1>6, <1>7 DEF ServeInv, ConnectionServed, ServingKept
<1> QED BY <1>8, <1>9 DEF ServeInv

\* With a thread on record none is created: that one serves the index.
LEMMA NoThreadServe == TypeOK /\ OwnInv /\ ServeInv /\ RxNoThread => ServeInv'
<1> SUFFICES ASSUME TypeOK, OwnInv, ServeInv, RxNoThread
             PROVE  ServeInv'
  OBVIOUS
<1>1. /\ rx.k \in Para /\ rx.i \in Idx /\ thread_sensor[rx.i] # NoThread
      /\ rx.pc # "idle" /\ rx'.pc = "idle" /\ th' = th
      /\ connected_id' = connected_id /\ thread_sensor' = thread_sensor
  BY IdleRecords DEF RxNoThread, TypeOK, RxType, ctr
<1>2. \A n \in Para : thread_para'[n].idx = thread_para[n].idx
  BY <1>1 DEF RxNoThread, TypeOK, ParaType
<1>3. ServingKept
  BY <1>1, <1>2 DEF TypeOK, ThType, ServingKept, Serving, IndexOf
<1>4. RecordedThreadLives'
  <2> SUFFICES ASSUME NEW i \in Idx, NEW u, u = thread_sensor'[i], u # NoThread
               PROVE  Serving(u, i)'
    BY DEF RecordedThreadLives, Serving, IndexOf
  <2>1. u = thread_sensor[i] /\ u \in Thread
    BY <1>1 DEF TypeOK, CtrType
  <2> QED BY <1>3, <2>1 DEF ServeInv, RecordedThreadLives, ServingKept
<1>5. ConnectionServed'
  <2> SUFFICES ASSUME NEW i \in Idx, connected_id[i] # NoId
               PROVE  \E t \in Thread : Serving(t, i)'
    BY <1>1 DEF ConnectionServed
  <2>1. \E t \in Thread : Serving(t, i)
    <3>1. CASE i = rx.i
      BY <1>1, <3>1 DEF TypeOK, CtrType, ServeInv, RecordedThreadLives
    <3>2. CASE i # rx.i
      BY <3>2 DEF ServeInv, ConnectionServed
    <3> QED BY <3>1, <3>2
  <2> QED BY <1>3, <2>1 DEF ServingKept
<1> QED BY <1>4, <1>5 DEF ServeInv

\* A thread that leaves takes its sensor and whichever thread is recorded for
\* the index off the record.
LEMMA DisconnectServe ==
  ASSUME TypeOK, ServeInv, NEW t \in Thread, TDisconnect(t)
  PROVE  ServeInv'
<1>1. /\ th[t].idx \in Idx /\ th[t].pc = "leave" /\ rx' = rx
      /\ thread_para' = thread_para
      /\ connected_id' = [connected_id EXCEPT ![th[t].idx] = NoId]
      /\ thread_sensor' = [thread_sensor EXCEPT ![th[t].idx] = NoThread]
  BY DEF TDisconnect, TypeOK, ThType
<1>2. \A u \in Thread \ {t} : th'[u] = th[u]
  BY DEF TDisconnect, TypeOK, ThType
<1>3. ASSUME NEW u \in Thread, NEW i \in Idx, i # th[t].idx, Serving(u, i)
      PROVE  Serving(u, i)'
  <2>1. u # t
    BY <1>1, <1>3 DEF Serving, IndexOf
  <2> QED BY <1>1, <1>2, <1>3, <2>1 DEF Serving, IndexOf
<1>4. RecordedThreadLives'
  <2> SUFFICES ASSUME NEW i \in Idx, NEW u, u = thread_sensor'[i], u # NoThread
               PROVE  Serving(u, i)'
    BY DEF RecordedThreadLives, Serving, IndexOf
  <2>1. i # th[t].idx /\ u = thread_sensor[i] /\ u \in Thread
    BY <1>1 DEF TypeOK, CtrType
  <2> QED BY <1>3, <2>1 DEF ServeInv, RecordedThreadLives
<1>5. ConnectionServed'
  BY <1>1, <1>3 DEF TypeOK, CtrType, ServeInv, ConnectionServed
<1> QED BY <1>4, <1>5 DEF ServeInv

\* ServeInv is inductive relative to the types and the owners of thread_para.
LEMMA ServeInvariant == Spec => []ServeInv
<1>1. TypeOK /\ OwnInv /\ ServeInv /\ Next => ServeInv'
  BY NothingRecordedServe, RxServe, BleServe, WorkServe, ConnectionServe,
     CreateServe, NoThreadServe, DisconnectServe DEF Next, Rx, TStep
<1>2. ServeInv /\ UNCHANGED vars => ServeInv'
  BY DEF ServeInv, RecordedThreadLives, ConnectionServed, Serving, IndexOf, vars,
         ctr
<1> QED BY <1>1, <1>2, InitServe, OwnInvariant, PTL DEF Spec

\* The thread on record for an index is one that runs and works for that index,
\* for any number of indices and threads: no index is left without the chance of
\* a new thread because one that is gone is still recorded.
THEOREM RecordedThreadsLive == Spec => []RecordedThreadLives
<1>1. ServeInv => RecordedThreadLives
  BY DEF ServeInv
<1> QED BY <1>1, ServeInvariant, PTL

\* A sensor on record always has the receiving thread at its index or a thread
\* that will give it back, although up to the lock the flag and the address are
\* written without it.
THEOREM ConnectionsServed == Spec => []ConnectionServed
<1>1. ServeInv => ConnectionServed
  BY DEF ServeInv
<1> QED BY <1>1, ServeInvariant, PTL
=============================================================================
