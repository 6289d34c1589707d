--------------------------- MODULE SensorThreads ---------------------------
(***************************************************************************)
(* The sensor threads of the general process (app_pro_general_new.c):      *)
(* the thread that receives the events of the BLE process starts one       *)
(* thandler_sensor_instance for a connection, and the two share, for each  *)
(* connection index, connected_id, bt_connection_flg, thread_sensor and a  *)
(* condition variable.  The BLE process is the environment: the slots of   *)
(* module ConCtrl, with every event reported under its own index.          *)
(*                                                                         *)
(* fg_is_services_resolved is left out: no sensor thread reads it.  So are *)
(* the server role and running out of memory or threads.                   *)
(***************************************************************************)
EXTENDS Integers, Sequences, FiniteSets

CONSTANTS
    N,          \* CONFIG_BLE_CONNECTION_MAX_NUM
    Id,         \* addresses of sensors
    NoId,       \* six zero bytes
    Thread,     \* bound: sensor threads alive at once
    NoThread,   \* a thread_sensor of 0
    ParaNum,    \* entries of thread_para
    MaxMsg      \* bound: events on their way, commands in the message queue

ASSUME SizeAssumption ==
    N \in Nat \ {0} /\ ParaNum \in Nat \ {0} /\ MaxMsg \in Nat \ {0}
ASSUME NoneAssumption == NoId \notin Id /\ NoThread \notin Thread

Idx == 0 .. N - 1
Para == 1 .. ParaNum

VARIABLES
    \* struct pro_general_controller
    bt_connection_flg, connected_id, thread_sensor, pt_gen_cond_var,
    thread_para,   \* parameters on their way to a thread
    rx,            \* the receiving thread: pc, index, entry of thread_para
    th,            \* the sensor threads: pc and locals
    from_ble,      \* events on their way from a D-Bus callback to rx
    to_ble,        \* the message queue to the BLE process
    slot,          \* the sensor that the BLE process has at each index
    resolved,      \* indices whose services were reported
    \* history: indices whose present sensor a refused command was to disconnect
    unsent

ctr == <<bt_connection_flg, connected_id, thread_sensor, pt_gen_cond_var>>
ble == <<slot, resolved, unsent>>
vars == <<ctr, thread_para, rx, th, from_ble, to_ble, ble>>

RxIdle == [pc |-> "idle", i |-> 0, k |-> 1]
NotRunning == [pc |-> "none", para |-> 1, idx |-> 0, id |-> NoId, cv |-> FALSE]

Init ==
    /\ bt_connection_flg = [i \in Idx |-> FALSE]
    /\ connected_id = [i \in Idx |-> NoId]
    /\ thread_sensor = [i \in Idx |-> NoThread]
    /\ pt_gen_cond_var = [i \in Idx |-> [magic |-> "none", done |-> FALSE]]
    /\ thread_para = [k \in Para |-> [used |-> FALSE, idx |-> 0, id |-> NoId]]
    /\ rx = RxIdle
    /\ th = [t \in Thread |-> NotRunning]
    /\ from_ble = <<>> /\ to_ble = <<>>
    /\ slot = [i \in Idx |-> NoId]
    /\ resolved = {} /\ unsent = {}

-----------------------------------------------------------------------------
(* The receiving thread                                                    *)

Received(ev) == /\ rx.pc = "idle" /\ from_ble # <<>> /\ Head(from_ble).ev = ev
                /\ from_ble' = Tail(from_ble)

Free == {k \in Para : ~thread_para[k].used}

\* An entry of thread_para is taken, then btevent_handler runs
\* BT_EVENT_CONNECTION up to the lock: the flag and the address are set without
\* it.
RxConnection ==
    /\ Received("CONNECTION") /\ Free # {}
    /\ LET m == Head(from_ble)
           k == CHOOSE n \in Free : \A o \in Free : n <= o
       IN /\ bt_connection_flg' = [bt_connection_flg EXCEPT ![m.i] = TRUE]
          /\ connected_id' = [connected_id EXCEPT ![m.i] = m.id]
          /\ thread_para' = [thread_para EXCEPT
                               ![k] = [used |-> TRUE, idx |-> m.i, id |-> m.id]]
          /\ rx' = [pc |-> "got", i |-> m.i, k |-> k]
    /\ UNCHANGED <<thread_sensor, pt_gen_cond_var, th, to_ble, ble>>

\* "No more thread_para availble, skip!"
RxSkip ==
    /\ Received("CONNECTION") /\ Free = {}
    /\ UNCHANGED <<ctr, thread_para, rx, th, to_ble, ble>>

\* ... under mtx_for_bt_connection: the condition variable is set up if the
\* index has no thread, ...
RxPrepare ==
    /\ rx.pc = "got" /\ thread_sensor[rx.i] = NoThread
    /\ pt_gen_cond_var' = [pt_gen_cond_var EXCEPT
                             ![rx.i] = [magic |-> "INIT", done |-> FALSE]]
    /\ rx' = [rx EXCEPT !.pc = "create"]
    /\ UNCHANGED <<bt_connection_flg, connected_id, thread_sensor, thread_para,
                   th, from_ble, to_ble, ble>>

\* ... and pthread_create stores the new thread after the unlock.
RxCreate ==
    /\ rx.pc = "create"
    /\ \E t \in Thread :
          /\ th[t].pc = "none"
          /\ th' = [th EXCEPT ![t] = [NotRunning EXCEPT !.pc = "start",
                                                        !.para = rx.k]]
          /\ thread_sensor' = [thread_sensor EXCEPT ![rx.i] = t]
    /\ rx' = RxIdle
    /\ UNCHANGED <<bt_connection_flg, connected_id, pt_gen_cond_var,
                   thread_para, from_ble, to_ble, ble>>

\* (Mutant: the entry is not given back.)
RxKeepsPara ==
    /\ rx.pc = "got" /\ thread_sensor[rx.i] # NoThread
    /\ rx' = RxIdle
    /\ UNCHANGED <<ctr, thread_para, th, from_ble, to_ble, ble>>
RxNoThread ==
    /\ rx.pc = "got" /\ thread_sensor[rx.i] # NoThread
    /\ thread_para' = [thread_para EXCEPT ![rx.k].used = FALSE]
    /\ rx' = RxIdle
    /\ UNCHANGED <<ctr, th, from_ble, to_ble, ble>>

\* BT_EVENT_DISCONNECTION
RxDisconnection ==
    /\ Received("DISCONNECTION")
    /\ LET i == Head(from_ble).i IN
          /\ bt_connection_flg' = [bt_connection_flg EXCEPT ![i] = FALSE]
          /\ connected_id' = [connected_id EXCEPT ![i] = NoId]
          /\ thread_sensor' = [thread_sensor EXCEPT ![i] = NoThread]
    /\ UNCHANGED <<pt_gen_cond_var, thread_para, rx, th, to_ble, ble>>

\* BT_EVENT_SERVICES_RESOLVED: the signal, unless the condition variable is
\* not in use.
RxServices ==
    /\ Received("SERVICES_RESOLVED")
    /\ LET i == Head(from_ble).i IN
          pt_gen_cond_var' = IF pt_gen_cond_var[i].magic = "INIT"
                             THEN [pt_gen_cond_var EXCEPT ![i].done = TRUE]
                             ELSE pt_gen_cond_var
    /\ UNCHANGED <<bt_connection_flg, connected_id, thread_sensor, thread_para,
                   rx, th, to_ble, ble>>

Rx == \/ RxConnection \/ RxSkip \/ RxPrepare \/ RxCreate \/ RxNoThread
      \/ RxDisconnection \/ RxServices

-----------------------------------------------------------------------------
(* thandler_sensor_instance                                                *)

\* The parameters are copied and their entry is free again.
TFetch(t) ==
    /\ th[t].pc = "start"
    /\ LET p == thread_para[th[t].para] IN
          th' = [th EXCEPT ![t].pc = "check", ![t].idx = p.idx, ![t].id = p.id]
    /\ thread_para' = [thread_para EXCEPT ![th[t].para].used = FALSE]
    /\ UNCHANGED <<ctr, rx, from_ble, to_ble, ble>>

\* Another address by now: the thread leaves, without a condition variable to
\* destroy.
TCheck(t) ==
    /\ th[t].pc = "check"
    /\ th' = IF th[t].id = connected_id[th[t].idx]
             THEN [th EXCEPT ![t].pc = "wait", ![t].cv = TRUE]
             ELSE [th EXCEPT ![t].pc = "leave"]
    /\ UNCHANGED <<ctr, thread_para, rx, from_ble, to_ble, ble>>

TWake(t) ==
    /\ th[t].pc = "wait" /\ pt_gen_cond_var[th[t].idx].done
    /\ pt_gen_cond_var' = [pt_gen_cond_var EXCEPT ![th[t].idx].done = FALSE]
    /\ th' = [th EXCEPT ![t].pc = "work"]
    /\ UNCHANGED <<bt_connection_flg, connected_id, thread_sensor, thread_para,
                   rx, from_ble, to_ble, ble>>

\* The services are not resolved within 5 s.
TTimeout(t) ==
    /\ th[t].pc = "wait"
    /\ th' = [th EXCEPT ![t].pc = "leave"]
    /\ UNCHANGED <<ctr, thread_para, rx, from_ble, to_ble, ble>>

\* The work of the sensor interface ends, well or with an error.
TWork(t) ==
    /\ th[t].pc = "work"
    /\ th' = [th EXCEPT ![t].pc = "leave"]
    /\ UNCHANGED <<ctr, thread_para, rx, from_ble, to_ble, ble>>

\* _DISCONNECT, under mtx_for_bt_connection: CMD_DISCONNECTION with the address
\* that the index has now, unless a disconnection has cleared it.
\* (Mutants: it is sent all the same, or not at all.)
CommandAlways(i) == Append(to_ble, [i |-> i, id |-> connected_id[i]])
CommandNever(i) == to_ble
Command(i) ==
    IF connected_id[i] = NoId THEN to_ble
    ELSE Append(to_ble, [i |-> i, id |-> connected_id[i]])

\* msgsnd takes the command, or fails, which is only logged.
HasSensor(i) == connected_id[i] # NoId /\ slot[i] = connected_id[i]
Send(i) ==
    \/ Len(to_ble) < MaxMsg /\ to_ble' = Command(i) /\ unsent' = unsent
    \/ /\ to_ble' = to_ble
       /\ unsent' = IF HasSensor(i) THEN unsent \cup {i} ELSE unsent

\* (Mutants: the address or the thread stays on record.)
TKeepsId(t) ==
    /\ th[t].pc = "leave"
    /\ LET i == th[t].idx IN
          /\ bt_connection_flg' = [bt_connection_flg EXCEPT ![i] = FALSE]
          /\ Send(i)
          /\ thread_sensor' = [thread_sensor EXCEPT ![i] = NoThread]
    /\ th' = [th EXCEPT ![t].pc = "deinit"]
    /\ UNCHANGED <<connected_id, pt_gen_cond_var, thread_para, rx, from_ble,
                   slot, resolved>>
TKeepsThread(t) ==
    /\ th[t].pc = "leave"
    /\ LET i == th[t].idx IN
          /\ bt_connection_flg' = [bt_connection_flg EXCEPT ![i] = FALSE]
          /\ Send(i)
          /\ connected_id' = [connected_id EXCEPT ![i] = NoId]
    /\ th' = [th EXCEPT ![t].pc = "deinit"]
    /\ UNCHANGED <<thread_sensor, pt_gen_cond_var, thread_para, rx, from_ble,
                   slot, resolved>>
\* Whether the command went out or not, the index is free again for the general
\* process.
TDisconnect(t) ==
    /\ th[t].pc = "leave"
    /\ LET i == th[t].idx IN
          /\ bt_connection_flg' = [bt_connection_flg EXCEPT ![i] = FALSE]
          /\ Send(i)
          /\ connected_id' = [connected_id EXCEPT ![i] = NoId]
          /\ thread_sensor' = [thread_sensor EXCEPT ![i] = NoThread]
    /\ th' = [th EXCEPT ![t].pc = "deinit"]
    /\ UNCHANGED <<pt_gen_cond_var, thread_para, rx, from_ble, slot, resolved>>

TDeinit(t) ==
    /\ th[t].pc = "deinit"
    /\ pt_gen_cond_var' =
         IF th[t].cv THEN [pt_gen_cond_var EXCEPT
                             ![th[t].idx] = [magic |-> "DEINIT", done |-> FALSE]]
                     ELSE pt_gen_cond_var
    /\ th' = [th EXCEPT ![t] = NotRunning]
    /\ UNCHANGED <<bt_connection_flg, connected_id, thread_sensor, thread_para,
                   rx, from_ble, to_ble, ble>>

TStep(t) == \/ TFetch(t) \/ TCheck(t) \/ TWake(t) \/ TTimeout(t) \/ TWork(t)
            \/ TDisconnect(t) \/ TDeinit(t)

-----------------------------------------------------------------------------
(* The BLE process                                                         *)

Report(ev, i, id) == from_ble' = Append(from_ble, [ev |-> ev, i |-> i, id |-> id])

\* Bounds: the queue has room, and there will be a thread for the connection.
MayHappen == Len(from_ble) < MaxMsg
Room ==
    Cardinality({t \in Thread : th[t].pc # "none"})
    + Len(SelectSeq(from_ble, LAMBDA m : m.ev = "CONNECTION"))
    + (IF rx.pc = "idle" THEN 0 ELSE 1) < Cardinality(Thread)

BleConnect(i, id) ==
    /\ MayHappen /\ Room
    /\ slot[i] = NoId /\ \A j \in Idx : slot[j] # id
    /\ Report("CONNECTION", i, id)
    /\ slot' = [slot EXCEPT ![i] = id]
    /\ UNCHANGED <<ctr, thread_para, rx, th, to_ble, resolved, unsent>>

\* The event loop cannot lock the slots, and the connection is not reported.
BleConnectUnseen(i, id) ==
    /\ slot[i] = NoId /\ \A j \in Idx : slot[j] # id
    /\ slot' = [slot EXCEPT ![i] = id]
    /\ UNCHANGED <<ctr, thread_para, rx, th, from_ble, to_ble, resolved, unsent>>

BleResolve(i) ==
    /\ MayHappen
    /\ slot[i] # NoId /\ i \notin resolved
    /\ Report("SERVICES_RESOLVED", i, NoId)
    /\ resolved' = resolved \cup {i}
    /\ UNCHANGED <<ctr, thread_para, rx, th, to_ble, slot, unsent>>

Emptied(i) ==
    /\ slot' = [slot EXCEPT ![i] = NoId]
    /\ resolved' = resolved \ {i}
    /\ unsent' = unsent \ {i}

\* The link is lost, ...
BleLoss(i) ==
    /\ MayHappen
    /\ slot[i] # NoId
    /\ Report("DISCONNECTION", i, NoId)
    /\ Emptied(i)
    /\ UNCHANGED <<ctr, thread_para, rx, th, to_ble>>

\* ... or taken down by a command, if the index still has the sensor.  The reply
\* of Disconnect empties the slot before Connected = false looks for the proxy in
\* it, so there is no BT_EVENT_DISCONNECTION, ...
BleObey ==
    /\ to_ble # <<>> /\ slot[Head(to_ble).i] = Head(to_ble).id
    /\ Emptied(Head(to_ble).i)
    /\ to_ble' = Tail(to_ble)
    /\ UNCHANGED <<ctr, thread_para, rx, th, from_ble>>

\* ... unless the reply could not be accepted.
BleObeyReported ==
    /\ to_ble # <<>> /\ slot[Head(to_ble).i] = Head(to_ble).id
    /\ LET i == Head(to_ble).i IN
          /\ Report("DISCONNECTION", i, NoId)
          /\ Emptied(i)
    /\ to_ble' = Tail(to_ble)
    /\ UNCHANGED <<ctr, thread_para, rx, th>>

BleIgnore ==
    /\ to_ble # <<>> /\ slot[Head(to_ble).i] # Head(to_ble).id
    /\ to_ble' = Tail(to_ble)
    /\ UNCHANGED <<ctr, thread_para, rx, th, from_ble, ble>>

Ble == \/ \E i \in Idx : BleResolve(i) \/ BleLoss(i)
       \/ \E i \in Idx, id \in Id : BleConnect(i, id) \/ BleConnectUnseen(i, id)
       \/ BleObey \/ BleObeyReported \/ BleIgnore

Next == Rx \/ (\E t \in Thread : TStep(t)) \/ Ble

Spec == Init /\ [][Next]_vars

\* The threads run, and the BLE process takes its commands.
Fairness ==
    /\ WF_vars(Rx)
    /\ \A t \in Thread : WF_vars(TStep(t))
    /\ WF_vars(BleObey \/ BleObeyReported \/ BleIgnore)

FairSpec == Spec /\ Fairness

-----------------------------------------------------------------------------
(* Properties                                                              *)

Msg == [ev : {"CONNECTION", "DISCONNECTION", "SERVICES_RESOLVED"}, i : Idx,
        id : Id \cup {NoId}]

CtrType ==
    /\ bt_connection_flg \in [Idx -> BOOLEAN]
    /\ connected_id \in [Idx -> Id \cup {NoId}]
    /\ thread_sensor \in [Idx -> Thread \cup {NoThread}]
    /\ pt_gen_cond_var \in [Idx -> [magic : {"none", "INIT", "DEINIT"},
                                    done : BOOLEAN]]
ParaType ==
    thread_para \in [Para -> [used : BOOLEAN, idx : Idx, id : Id \cup {NoId}]]
RxType == rx \in [pc : {"idle", "got", "create"}, i : Idx, k : Para]
ThType == th \in [Thread -> [pc : {"none", "start", "check", "wait", "work",
                                   "leave", "deinit"},
                             para : Para, idx : Idx, id : Id \cup {NoId},
                             cv : BOOLEAN]]
FromType == from_ble \in Seq(Msg)
ToType == to_ble \in Seq([i : Idx, id : Id])
BleType == /\ slot \in [Idx -> Id \cup {NoId}]
           /\ resolved \subseteq Idx /\ unsent \subseteq Idx

\* Every variable has its type: in particular no command is sent without an
\* address.
TypeOK ==
    /\ CtrType /\ ParaType /\ RxType /\ ThType /\ FromType /\ ToType /\ BleType

\* The index that a thread works for.
IndexOf(t) == IF th[t].pc = "start" THEN thread_para[th[t].para].idx
                                    ELSE th[t].idx

\* A thread that has not yet cleaned up.
Serving(t, i) == /\ th[t].pc \in {"start", "check", "wait", "work", "leave"}
                 /\ IndexOf(t) = i

\* thread_para is never lost and never shared: an entry in use is on its way to
\* one thread, and an entry that the receiving thread or a new sensor thread
\* still points to is in use and is no one else's.  With its two entries gone
\* every later connection would be skipped.
Points(k) == (IF rx.pc # "idle" /\ rx.k = k THEN {"rx"} ELSE {})
             \cup {t \in Thread : th[t].pc = "start" /\ th[t].para = k}
ParaOwned ==
    \A k \in Para : Cardinality(Points(k)) = IF thread_para[k].used THEN 1 ELSE 0

\* A thread on record is alive and serves the index.  Otherwise the index would
\* get no thread again before BlueZ reports a disconnection.
RecordedThreadLives ==
    \A i \in Idx : thread_sensor[i] # NoThread => Serving(thread_sensor[i], i)

\* A sensor on record has a thread that will give it back.
ConnectionServed ==
    \A i \in Idx : connected_id[i] # NoId =>
        \/ rx.pc # "idle" /\ rx.i = i
        \/ \E t \in Thread : Serving(t, i)

\* The general process has on record the sensor that the BLE process has at the
\* index, and nothing to the contrary is on its way.
Told(i, id) ==
    /\ connected_id[i] = id /\ slot[i] = id
    /\ \A n \in DOMAIN from_ble :
          from_ble[n].i = i => from_ble[n].ev = "SERVICES_RESOLVED"

\* A sensor that the general process was told of does not keep its slot for
\* ever: whatever happens to its thread, the BLE process disconnects it, or
\* msgsnd has refused the one command that was to do so.  (After that refusal
\* only the sensor itself can end the connection: the record is cleared, and
\* no thread is left to try again.)
HandedBack ==
    \A i \in Idx, id \in Id : Told(i, id) ~> (slot[i] # id \/ i \in unsent)

\* "no further thread would be created untill original thread exists"
OneThreadPerIndex ==
    \A i \in Idx : \A t, u \in Thread : Serving(t, i) /\ Serving(u, i) => t = u

=============================================================================
