------------------------------ MODULE ConCtrl ------------------------------
(***************************************************************************)
(* The BLE connection controller of the gateway (bt_connection_new.c) and  *)
(* the threads of the BLE process that share it:                           *)
(*                                                                         *)
(*   - thandler_ble_periodicloop calls bt_con_n_connect_to_dev (pcC);      *)
(*   - thandler_ble_mainloop executes CMD_DISCONNECTION of the general     *)
(*     process with bt_con_n_disconnect_from_dev (pcD);                    *)
(*   - thandler_ble_bluezloop runs every D-Bus callback: the replies of    *)
(*     Connect and Disconnect, Connected, RSSI and proxy removal (cb);     *)
(*   - thandler_ble_handleeventloop tells the general process.             *)
(*                                                                         *)
(* A step is what a thread does between two points where another thread    *)
(* can get in: a lock that it releases, a wait, a sleep.  BlueZ and the    *)
(* general process are the environment; they are modelled from how this    *)
(* code uses them.                                                         *)
(***************************************************************************)
EXTENDS Integers, Sequences, FiniteSets

CONSTANTS
    N,           \* CONFIG_BLE_CONNECTION_MAX_NUM
    CountMod,    \* 2^32: the values that a uint32_t has
    CountLimit,  \* 4294967290: a rotating index above it starts anew
    Mac,         \* addresses of the sensors in range
    Proxy,       \* addresses an l_dbus_proxy of a Device1 can have
    MacOf,       \* property "Address" of a proxy
    WhiteList,   \* the white list when the process starts
    NoMac,       \* an all-zero address
    NoProxy,     \* the null pointer
    Faults,      \* what can go wrong with a D-Bus call or a link, see below
    MaxPending,  \* bound: Connect calls of one proxy without a reply
    MaxEvents    \* bound: events in pt_adv_scanning_event_queue

ASSUME NAssumption == N \in Nat \ {0}
ASSUME CountAssumption ==
    CountMod \in Nat /\ CountLimit \in Nat /\ CountLimit < CountMod
ASSUME MacOfAssumption == MacOf \in [Proxy -> Mac]
ASSUME WhiteListAssumption == WhiteList \in Seq(Mac)
ASSUME NullAssumption == NoProxy \notin Proxy /\ NoMac \notin Mac

\* "timeout": a Connect gets no reply for 60 s or a Disconnect for 30 s;
\* "error": BlueZ answers one with an error; "call": one cannot be sent, or the
\* Address of the device cannot be read; "loss": a link goes down that nobody
\* asked to.  The last two are about time.  "early": a connection pass, one in
\* 8 s, starts while a link is going down, from the reply to Disconnect to the
\* end of the callback of Connected = false, about 300 ms of which are a sleep
\* in that callback.  "slow": the bluez thread stops for the 600 ms that a
\* disconnection sleeps, between the two halves of the callback that woke it.
ASSUME FaultsAssumption ==
    Faults \subseteq {"timeout", "error", "call", "loss", "early", "slow"}
ASSUME BoundAssumption == MaxPending \in Nat /\ MaxEvents \in Nat

Slot == 0 .. N - 1
NoSlot == N

VARIABLES
    \* struct con_controller
    connected_proxy, con_mac_addr, pt_cond_var, is_con_in_process,
    con_proxy_idx, dev_queue, white_list,
    \* file-scope variables and app_management
    g_con_method_param, g_con_idx_coutnt, hld_connected_proxy, evq,
    \* the threads: program counters and locals
    pcC, tmp_idx, to_connect,
    pcD, dis_idx, dis_id, dis_proxy,
    cb,
    \* the general process: the sensor it was told of for each index
    connected_id,
    \* BlueZ
    link, pendC, pendD, asked

ctrl == <<connected_proxy, con_mac_addr, pt_cond_var, is_con_in_process,
          con_proxy_idx>>
queues == <<dev_queue, white_list, evq>>
glob == <<g_con_method_param, g_con_idx_coutnt, hld_connected_proxy>>
threadC == <<pcC, tmp_idx, to_connect>>
threadD == <<pcD, dis_idx, dis_id, dis_proxy>>
bluez == <<link, pendC, pendD, asked>>
vars == <<ctrl, queues, glob, threadC, threadD, cb, connected_id, bluez>>

MaybeProxy == Proxy \cup {NoProxy}
MaybeMac == Mac \cup {NoMac}
CondVar == [magic : {"INIT", "DEINIT"}, done : BOOLEAN, proxy : MaybeProxy]
Element == [proxy : MaybeProxy, in_use : BOOLEAN]
Event == {"CONNECTION", "DISCONNECTION"}

-----------------------------------------------------------------------------
(* Helpers                                                                 *)

\* The first index that the ascending loops over the slots stop at.
First(S) == CHOOSE i \in S : \A j \in S : i <= j

\* (Mutants: only the slot of the last event is looked at; its proxy is not
\* even compared.)
AttachedAtLast(p) == {i \in {con_proxy_idx} : connected_proxy[i] = p}
LastTouched(p) == {con_proxy_idx}
Attached(p) == {i \in Slot : connected_proxy[i] = p}
Awaiting(p) == {i \in Slot : pt_cond_var[i].proxy = p}
Held(p) == {i \in Slot : hld_connected_proxy[i] = p}

\* Element of dev_queue for an address that was not seen or has expired.
NoElement == [proxy |-> NoProxy, in_use |-> FALSE]

\* The memset of con_mac_addr that goes with every emptied slot.
\* (Mutant: it is forgotten.)
KeptMac(i) == con_mac_addr
ClearedMac(i) == [con_mac_addr EXCEPT ![i] = NoMac]

\* bt_con_n_set_inuse: the element with this proxy, if there is one.
SetInUse(q, p, inuse) ==
    [m \in Mac |-> IF q[m].proxy = p THEN [q[m] EXCEPT !.in_use = inuse]
                                     ELSE q[m]]

\* app_com_init_pthread_cond_var_ctr does nothing to an initialised one.
InitCondVar(cv) ==
    IF cv.magic = "INIT" THEN cv
    ELSE [magic |-> "INIT", done |-> FALSE, proxy |-> NoProxy]

\* app_com_deinit_pthread_cond_var_ctr keeps the proxy on purpose.
DeinitCondVar(cv) ==
    IF cv.magic = "DEINIT" THEN cv
    ELSE [cv EXCEPT !.magic = "DEINIT", !.done = FALSE]

\* bt_connection_refresh_white_list: the k-th element becomes the last.
\* (Mutant: the order is left alone.)
KeptInPlace(list, k) == list
MoveToEnd(list, k) ==
    SubSeq(list, 1, k - 1) \o SubSeq(list, k + 1, Len(list)) \o <<list[k]>>

\* The bluez thread between two callbacks.
Idle == [k |-> "idle", p |-> NoProxy, i |-> NoSlot, mac |-> NoMac]

Ask(p) == asked' = IF p = NoProxy THEN asked ELSE asked \cup {p}

-----------------------------------------------------------------------------
(* bt_con_n_init_con_controller, and nothing known to BlueZ yet            *)

Init ==
    /\ connected_proxy = [i \in Slot |-> NoProxy]
    /\ con_mac_addr = [i \in Slot |-> NoMac]
    /\ pt_cond_var =
         [i \in Slot |-> [magic |-> "INIT", done |-> FALSE, proxy |-> NoProxy]]
    /\ is_con_in_process = FALSE
    /\ con_proxy_idx = 0
    /\ dev_queue = [m \in Mac |-> NoElement]
    /\ white_list = WhiteList
    /\ g_con_method_param = [idx |-> 0, mac |-> NoMac]
    /\ g_con_idx_coutnt = 0
    /\ hld_connected_proxy = [i \in Slot |-> NoProxy]
    /\ evq = <<>>
    /\ pcC = "idle" /\ tmp_idx = NoSlot /\ to_connect = NoProxy
    /\ pcD = "idle" /\ dis_idx = NoSlot /\ dis_id = NoMac /\ dis_proxy = NoProxy
    /\ cb = Idle
    /\ connected_id = [i \in Slot |-> NoMac]
    /\ link = [p \in Proxy |-> "down"]
    /\ pendC = [p \in Proxy |-> 0]
    /\ pendD = {}
    /\ asked = {}

-----------------------------------------------------------------------------
(* bt_con_n_connect_to_dev, called every 8 s by thandler_ble_periodicloop  *)

\* The k-th slot that the search looks at, k = 0 .. N - 1: the index is a
\* uint32_t that is reduced where it is used.
Probe(k) == ((g_con_idx_coutnt + k) % CountMod) % N

\* The distance of the first free slot from the rotating start; N: none.
\* (Mutant: the first slot is taken as it is.)
AnySlot == 0
FreeAt ==
    LET free == {k \in Slot : connected_proxy[Probe(k)] = NoProxy}
    IN  IF free = {} THEN N ELSE First(free)

\* The index moves past every slot looked at, even when the pass is given up,
\* and starts anew only when a free slot takes it over the limit.
Rotated ==
    LET next == (g_con_idx_coutnt + FreeAt + 1) % CountMod
    IN  IF FreeAt = N THEN (g_con_idx_coutnt + N) % CountMod
        ELSE IF next > CountLimit THEN 0 ELSE next

\* No pass starts while a link is going down: a matter of time, not of a lock.
PassMayStart ==
    \/ "early" \in Faults
    \/ cb.k # "dropped" /\ \A p \in Proxy : link[p] # "dropping"

CBusy ==
    /\ pcC = "idle" /\ PassMayStart
    /\ is_con_in_process \/ FreeAt = N
    /\ g_con_idx_coutnt' = Rotated
    /\ UNCHANGED <<ctrl, queues, threadC, threadD, cb, connected_id, bluez,
                   g_con_method_param, hld_connected_proxy>>

\* (Mutant: free_flag is not looked at, and tmp_idx keeps its illegal value.)
CSelectWhenFull ==
    /\ pcC = "idle" /\ PassMayStart
    /\ ~is_con_in_process
    /\ g_con_idx_coutnt' = Rotated
    /\ tmp_idx' = IF FreeAt = N THEN N + 1 ELSE Probe(FreeAt)
    /\ is_con_in_process' = TRUE
    /\ pcC' = "find"
    /\ UNCHANGED <<queues, threadD, cb, connected_id, bluez, to_connect,
                   g_con_method_param, hld_connected_proxy, connected_proxy,
                   con_mac_addr, pt_cond_var, con_proxy_idx>>
CSelect ==
    /\ pcC = "idle" /\ PassMayStart
    /\ ~is_con_in_process /\ FreeAt < N
    /\ g_con_idx_coutnt' = Rotated
    /\ tmp_idx' = Probe(FreeAt)
    /\ is_con_in_process' = TRUE
    /\ pcC' = "find"
    /\ UNCHANGED <<queues, threadD, cb, connected_id, bluez, to_connect,
                   g_con_method_param, hld_connected_proxy, connected_proxy,
                   con_mac_addr, pt_cond_var, con_proxy_idx>>

\* An address or a proxy that some slot already holds is skipped.
\* (Mutant: there is no such check.)
NeverInSlot(m, p) == FALSE
InSomeSlot(m, p) ==
    \E j \in Slot : \/ connected_proxy[j] # NoProxy /\ con_mac_addr[j] = m
                    \/ connected_proxy[j] = p

Candidates(q) ==
    {k \in 1 .. Len(white_list) :
        LET m == white_list[k]
        IN  q[m].proxy # NoProxy /\ ~InSomeSlot(m, q[m].proxy)}

\* bt_con_n_dev_queue_periodic_refresh: elements older than the TTL go,
\* unless they are in use.  Time is not modelled: any of them may be that old.
Expirable == {m \in Mac : ~dev_queue[m].in_use}
Without(old) == [m \in Mac |-> IF m \in old THEN NoElement ELSE dev_queue[m]]

CFindNone ==
    /\ pcC = "find"
    /\ \E old \in SUBSET Expirable :
          /\ Candidates(Without(old)) = {}
          /\ dev_queue' = Without(old)
    /\ is_con_in_process' = FALSE
    /\ pcC' = "idle" /\ tmp_idx' = NoSlot
    /\ UNCHANGED <<glob, threadD, cb, connected_id, bluez, to_connect,
                   connected_proxy, con_mac_addr, pt_cond_var, con_proxy_idx,
                   white_list, evq>>

CFind ==
    /\ pcC = "find"
    /\ \E old \in SUBSET Expirable :
          /\ Candidates(Without(old)) # {}
          /\ dev_queue' = Without(old)
          /\ LET k == First(Candidates(Without(old))) IN
                /\ to_connect' = dev_queue[white_list[k]].proxy
                /\ white_list' = MoveToEnd(white_list, k)
    /\ pcC' = "init"
    /\ UNCHANGED <<ctrl, glob, threadD, cb, connected_id, bluez, tmp_idx, evq>>

\* The condition variable of the slot and the parameter that every Connect
\* reply reads; no lock is held from here to the wait.  Without the Address of
\* the device the pass leaves through EXIT.
CInit ==
    /\ pcC = "init"
    /\ pt_cond_var' = [pt_cond_var EXCEPT ![tmp_idx] = InitCondVar(@)]
    /\ \/ /\ g_con_method_param' = [idx |-> tmp_idx, mac |-> MacOf[to_connect]]
          /\ pcC' = "call"
       \/ /\ "call" \in Faults
          /\ g_con_method_param' = [idx |-> tmp_idx, mac |-> NoMac]
          /\ pcC' = "exit"
    /\ UNCHANGED <<queues, threadD, cb, connected_id, bluez, tmp_idx, to_connect,
                   connected_proxy, con_mac_addr, is_con_in_process,
                   con_proxy_idx, g_con_idx_coutnt, hld_connected_proxy>>

\* The condition variable is armed, then the method is called or the call
\* fails on the spot.
CCall ==
    /\ pcC = "call"
    /\ pt_cond_var' = [pt_cond_var EXCEPT ![tmp_idx].done = FALSE,
                                          ![tmp_idx].proxy = to_connect]
    /\ \/ /\ pendC[to_connect] < MaxPending
          /\ pendC' = [pendC EXCEPT ![to_connect] = @ + 1]
          /\ pcC' = "wait"
       \/ /\ "call" \in Faults
          /\ pcC' = "exit"
          /\ UNCHANGED pendC
    /\ UNCHANGED <<queues, glob, threadD, cb, connected_id, tmp_idx, to_connect,
                   connected_proxy, con_mac_addr, is_con_in_process,
                   con_proxy_idx, link, pendD, asked>>

CWake ==
    /\ pcC = "wait" /\ pt_cond_var[tmp_idx].done
    /\ pt_cond_var' = [pt_cond_var EXCEPT ![tmp_idx].done = FALSE]
    /\ pcC' = "woken"
    /\ UNCHANGED <<queues, glob, threadD, cb, connected_id, bluez, tmp_idx,
                   to_connect, connected_proxy, con_mac_addr,
                   is_con_in_process, con_proxy_idx>>

\* The flag goes down a second time: the success or error reply lowered it.
\* Without the proxy in the condition variable the attempt has failed.
CWoken ==
    /\ pcC = "woken"
    /\ is_con_in_process' = FALSE
    /\ IF pt_cond_var[tmp_idx].proxy # to_connect
       THEN pcC' = "deinit" /\ UNCHANGED <<tmp_idx, to_connect>>
       ELSE pcC' = "idle" /\ tmp_idx' = NoSlot /\ to_connect' = NoProxy
    /\ UNCHANGED <<queues, glob, threadD, cb, connected_id, bluez,
                   connected_proxy, con_mac_addr, pt_cond_var, con_proxy_idx>>

\* ETIMEDOUT, perhaps with a reply just in: the mutex of the condition
\* variable is held for a moment.
\* (Mutant: the wait has no time limit.)
NoTimeLimit == pcC = "wait" /\ FALSE /\ UNCHANGED vars
CTimeout ==
    /\ "timeout" \in Faults
    /\ pcC = "wait"
    /\ pcC' = "timeout"
    /\ UNCHANGED <<ctrl, queues, glob, threadD, cb, connected_id, bluez, tmp_idx,
                   to_connect>>

CGiveUp ==
    /\ pcC = "timeout"
    /\ pcC' = "exit"
    /\ UNCHANGED <<ctrl, queues, glob, threadD, cb, connected_id, bluez, tmp_idx,
                   to_connect>>

\* EXIT.  (Mutant: the flag stays up.)
CExitKeepsFlag ==
    /\ pcC = "exit"
    /\ pcC' = "deinit"
    /\ UNCHANGED <<ctrl, queues, glob, threadD, cb, connected_id, bluez, tmp_idx,
                   to_connect>>
CExit ==
    /\ pcC = "exit"
    /\ is_con_in_process' = FALSE
    /\ pcC' = "deinit"
    /\ UNCHANGED <<queues, glob, threadD, cb, connected_id, bluez, tmp_idx,
                   to_connect, connected_proxy, con_mac_addr, pt_cond_var,
                   con_proxy_idx>>

CDeinit ==
    /\ pcC = "deinit"
    /\ pt_cond_var' = [pt_cond_var EXCEPT ![tmp_idx] = DeinitCondVar(@)]
    /\ pcC' = "idle" /\ tmp_idx' = NoSlot /\ to_connect' = NoProxy
    /\ UNCHANGED <<queues, glob, threadD, cb, connected_id, bluez,
                   connected_proxy, con_mac_addr, is_con_in_process,
                   con_proxy_idx>>

ConnectToDev ==
    \/ CBusy \/ CSelect \/ CFindNone \/ CFind \/ CInit \/ CCall
    \/ CWake \/ CWoken \/ CTimeout \/ CGiveUp \/ CExit \/ CDeinit

-----------------------------------------------------------------------------
(* bt_con_n_disconnect_from_dev, called by thandler_ble_mainloop           *)

\* A sensor thread of the general process has finished with index i: it sends
\* CMD_DISCONNECTION with the address it has for the index, forgets it, and the
\* main loop takes the command.
DTake(i) ==
    /\ pcD = "idle"
    /\ connected_id[i] # NoMac
    /\ connected_id' = [connected_id EXCEPT ![i] = NoMac]
    /\ dis_idx' = i /\ dis_id' = connected_id[i] /\ dis_proxy' = NoProxy
    /\ pcD' = "want"
    /\ UNCHANGED <<ctrl, queues, glob, threadC, cb, bluez>>

\* _WAIT_FOR_CON_FLAG: polled every second.
DFlag ==
    /\ pcD = "want" /\ ~is_con_in_process
    /\ is_con_in_process' = TRUE
    /\ pcD' = "check"
    /\ UNCHANGED <<queues, glob, threadC, cb, connected_id, bluez, dis_idx,
                   dis_id, dis_proxy, connected_proxy, con_mac_addr,
                   pt_cond_var, con_proxy_idx>>

\* The slot holds the connection that the command is about.
IsTarget(p) == p # NoProxy /\ MacOf[p] = dis_id /\ link[p] # "down"

\* Nothing connected, another sensor or no longer connected: the flag goes
\* down and the function leaves through EXIT all the same.
DSkip ==
    /\ pcD = "check"
    /\ ~IsTarget(connected_proxy[dis_idx])
    /\ dis_proxy' = connected_proxy[dis_idx]
    /\ is_con_in_process' = FALSE
    /\ pcD' = "exit"
    /\ UNCHANGED <<queues, glob, threadC, cb, connected_id, bluez, dis_idx,
                   dis_id, connected_proxy, con_mac_addr, pt_cond_var,
                   con_proxy_idx>>

DCall ==
    /\ pcD = "check"
    /\ IsTarget(connected_proxy[dis_idx])
    /\ dis_proxy' = connected_proxy[dis_idx]
    /\ pt_cond_var' =
         [pt_cond_var EXCEPT ![dis_idx].done = FALSE,
                             ![dis_idx].proxy = connected_proxy[dis_idx]]
    /\ \/ /\ pendD' = pendD \cup
                        {[i |-> dis_idx, p |-> connected_proxy[dis_idx]]}
          /\ pcD' = "wait"
          /\ UNCHANGED is_con_in_process
       \/ /\ "call" \in Faults
          /\ is_con_in_process' = FALSE
          /\ pcD' = "exit"
          /\ UNCHANGED pendD
    /\ UNCHANGED <<queues, glob, threadC, cb, connected_id, dis_idx, dis_id,
                   connected_proxy, con_mac_addr, con_proxy_idx, link,
                   pendC, asked>>

DWake ==
    /\ pcD = "wait" /\ pt_cond_var[dis_idx].done
    /\ pt_cond_var' = [pt_cond_var EXCEPT ![dis_idx].done = FALSE]
    /\ pcD' = "woken"
    /\ UNCHANGED <<queues, glob, threadC, cb, connected_id, bluez, dis_idx,
                   dis_id, dis_proxy, connected_proxy, con_mac_addr,
                   is_con_in_process, con_proxy_idx>>

DTimeout ==
    /\ "timeout" \in Faults
    /\ pcD = "wait"
    /\ pcD' = "timeout"
    /\ UNCHANGED <<ctrl, queues, glob, threadC, cb, connected_id, bluez, dis_idx,
                   dis_id, dis_proxy>>

\* The slot is cleared by force if it still holds the same proxy.
DForce ==
    /\ pcD = "timeout"
    /\ dev_queue' = SetInUse(dev_queue, dis_proxy, FALSE)
    /\ IF connected_proxy[dis_idx] = dis_proxy
       THEN /\ connected_proxy' = [connected_proxy EXCEPT ![dis_idx] = NoProxy]
            /\ con_mac_addr' = ClearedMac(dis_idx)
       ELSE UNCHANGED <<connected_proxy, con_mac_addr>>
    /\ pt_cond_var' = [pt_cond_var EXCEPT ![dis_idx].done = FALSE]
    /\ pcD' = "woken"
    /\ UNCHANGED <<glob, threadC, cb, connected_id, bluez, dis_idx, dis_id,
                   dis_proxy, is_con_in_process, con_proxy_idx, white_list,
                   evq>>

DWoken ==
    /\ pcD = "woken"
    /\ is_con_in_process' = FALSE
    /\ pcD' = "exit"
    /\ UNCHANGED <<queues, glob, threadC, cb, connected_id, bluez, dis_idx,
                   dis_id, dis_proxy, connected_proxy, con_mac_addr,
                   pt_cond_var, con_proxy_idx>>

\* EXIT: after 300 ms, RemoveDevice; 300 ms later the condition variable is
\* destroyed, when the callback that woke the thread is long over.
DRemove ==
    /\ pcD = "exit"
    /\ Ask(dis_proxy)
    /\ pcD' = "deinit"
    /\ UNCHANGED <<ctrl, queues, glob, threadC, cb, connected_id, dis_idx,
                   dis_id, dis_proxy, link, pendC, pendD>>

DDeinit ==
    /\ pcD = "deinit"
    /\ cb.k # "disconnected" \/ "slow" \in Faults
    /\ pt_cond_var' = [pt_cond_var EXCEPT ![dis_idx] = DeinitCondVar(@)]
    /\ pcD' = "idle"
    /\ dis_idx' = NoSlot /\ dis_id' = NoMac /\ dis_proxy' = NoProxy
    /\ UNCHANGED <<queues, glob, threadC, cb, connected_id, bluez,
                   connected_proxy, con_mac_addr, is_con_in_process,
                   con_proxy_idx>>

DisconnectFromDev ==
    \/ \E i \in Slot : DTake(i)
    \/ DFlag \/ DSkip \/ DCall \/ DWake \/ DTimeout \/ DForce
    \/ DWoken \/ DRemove \/ DDeinit

-----------------------------------------------------------------------------
(* The D-Bus callbacks: one at a time in thandler_ble_bluezloop, each      *)
(* together with the move of BlueZ that it reports                         *)

\* The thread that waits on the condition variable of slot i has woken up
\* from a timeout and holds its mutex: trylock fails.
MutexHeld(i) == \/ pcC = "timeout" /\ tmp_idx = i
                \/ pcD = "timeout" /\ dis_idx = i

\* A reply for proxy p may act on slot i: the condition variable is alive, not
\* locked, and not armed for another proxy.
Accepted(i, p) ==
    /\ pt_cond_var[i].magic = "INIT"
    /\ ~MutexHeld(i)
    /\ pt_cond_var[i].proxy \in {NoProxy, p}

\* BlueZ answers a Connect: with success while the device is connected, with
\* an error while it is not or while another attempt is in progress.
ConnectAnswer(p) ==
    {ok \in BOOLEAN : IF ok THEN link[p] = "up"
                            ELSE /\ "error" \in Faults
                                 /\ link[p] # "up" \/ pendC[p] > 1}

\* msg_reply_for_bt_connect up to the signal.  The slot and the address come
\* from the one global parameter.
ConnectReply(p) ==
    /\ cb = Idle /\ pendC[p] > 0
    /\ pendC' = [pendC EXCEPT ![p] = @ - 1]
    /\ LET i == g_con_method_param.idx IN
          \/ /\ Accepted(i, p)
             /\ pt_cond_var' = [pt_cond_var EXCEPT ![i].done = TRUE]
             /\ \E ok \in ConnectAnswer(p) :
                   cb' = [k |-> IF ok THEN "connected" ELSE "failed", p |-> p,
                          i |-> i, mac |-> g_con_method_param.mac]
             /\ UNCHANGED asked
          \/ /\ ~Accepted(i, p)
             /\ ConnectAnswer(p) # {}
             /\ IF pt_cond_var[i].magic # "INIT"
                THEN Ask(pt_cond_var[i].proxy)
                ELSE UNCHANGED asked
             /\ UNCHANGED <<cb, pt_cond_var>>
    /\ UNCHANGED <<queues, glob, threadC, threadD, connected_id, connected_proxy,
                   con_mac_addr, is_con_in_process, con_proxy_idx, link,
                   pendD>>

\* The error part: the slot is given up if it holds the proxy; the device is
\* removed in any case.
ConnectFailed ==
    /\ cb.k = "failed"
    /\ IF connected_proxy[cb.i] = cb.p
       THEN /\ connected_proxy' = [connected_proxy EXCEPT ![cb.i] = NoProxy]
            /\ con_mac_addr' = ClearedMac(cb.i)
            /\ pt_cond_var' = [pt_cond_var EXCEPT ![cb.i].proxy = NoProxy]
       ELSE UNCHANGED <<connected_proxy, con_mac_addr, pt_cond_var>>
    /\ is_con_in_process' = FALSE
    /\ dev_queue' = SetInUse(dev_queue, cb.p, FALSE)
    /\ Ask(cb.p)
    /\ cb' = Idle
    /\ UNCHANGED <<glob, threadC, threadD, connected_id, con_proxy_idx,
                   white_list, evq, link, pendC, pendD>>

\* The success part: the slot takes the proxy unless it holds another one,
\* and an address that an idle slot still has is cleared.
ConnectSucceeded ==
    /\ cb.k = "connected"
    /\ LET match == connected_proxy[cb.i] \in {NoProxy, cb.p}
           stale == {i \in Slot \ {cb.i} :
                        /\ con_mac_addr[i] = cb.mac
                        /\ connected_proxy[i] = NoProxy
                        /\ pt_cond_var[i].proxy = NoProxy}
       IN /\ IF match
             THEN /\ con_mac_addr' = [i \in Slot |->
                        IF i = cb.i THEN cb.mac
                        ELSE IF i \in stale THEN NoMac ELSE con_mac_addr[i]]
                  /\ connected_proxy' = [connected_proxy EXCEPT ![cb.i] = cb.p]
             ELSE UNCHANGED <<con_mac_addr, connected_proxy>>
          /\ pt_cond_var' = IF connected_proxy[cb.i] = NoProxy
                            THEN [pt_cond_var EXCEPT ![cb.i].proxy = cb.p]
                            ELSE pt_cond_var
          /\ dev_queue' = SetInUse(dev_queue, cb.p, match)
    /\ is_con_in_process' = FALSE
    /\ cb' = Idle
    /\ UNCHANGED <<glob, threadC, threadD, connected_id, con_proxy_idx,
                   white_list, evq, bluez>>

\* BlueZ answers a Disconnect with success once the link goes down, and before
\* it says so with Connected = false; with an error if there is no link.
DisconnectAnswer(p) ==
    {ok \in BOOLEAN : IF ok THEN /\ link[p] # "down"
                                 /\ pendC[p] = 0 \/ "error" \in Faults
                            ELSE link[p] = "down" \/ "error" \in Faults}

\* msg_reply_for_bt_disconnect up to the signal, on the condition variable of
\* the slot that was asked for.
DisconnectReply(d) ==
    /\ cb = Idle /\ d \in pendD
    /\ pendD' = pendD \ {d}
    /\ \E ok \in DisconnectAnswer(d.p) :
          /\ link' = IF ok THEN [link EXCEPT ![d.p] = "dropping"] ELSE link
          /\ IF Accepted(d.i, d.p)
             THEN /\ pt_cond_var' = [pt_cond_var EXCEPT ![d.i].done = TRUE]
                  /\ cb' = IF ok THEN [Idle EXCEPT !.k = "disconnected",
                                                   !.p = d.p]
                                 ELSE Idle
             ELSE UNCHANGED <<pt_cond_var, cb>>
    /\ UNCHANGED <<queues, glob, threadC, threadD, connected_id, connected_proxy,
                   con_mac_addr, is_con_in_process, con_proxy_idx, pendC,
                   asked>>

\* The success part: the slot that holds the proxy, or else the one armed for
\* it, is cleared.
DisconnectSucceeded ==
    /\ cb.k = "disconnected"
    /\ LET S == IF Attached(cb.p) # {} THEN Attached(cb.p) ELSE Awaiting(cb.p)
       IN IF S = {}
          THEN UNCHANGED <<connected_proxy, con_mac_addr, pt_cond_var,
                           dev_queue>>
          ELSE /\ connected_proxy' =
                    [connected_proxy EXCEPT ![First(S)] = NoProxy]
               /\ con_mac_addr' = ClearedMac(First(S))
               /\ pt_cond_var' =
                    [pt_cond_var EXCEPT ![First(S)].proxy = NoProxy]
               /\ dev_queue' = SetInUse(dev_queue, cb.p, FALSE)
    /\ cb' = Idle
    /\ UNCHANGED <<glob, threadC, threadD, connected_id, is_con_in_process,
                   con_proxy_idx, white_list, evq, bluez>>

\* Connected = true: the first slot armed for the proxy takes it.  The event
\* carries no index; "of" records the slot it was raised for.
ConnectedTrue(p) ==
    /\ cb = Idle
    /\ link[p] = "down" /\ pendC[p] > 0
    /\ link' = [link EXCEPT ![p] = "up"]
    /\ IF Awaiting(p) = {}
       THEN UNCHANGED <<connected_proxy, con_proxy_idx, hld_connected_proxy,
                        dev_queue, evq>>
       ELSE LET i == First(Awaiting(p)) IN
            /\ Len(evq) < MaxEvents
            /\ connected_proxy' = [connected_proxy EXCEPT ![i] = p]
            /\ con_proxy_idx' = i
            /\ hld_connected_proxy' = [hld_connected_proxy EXCEPT ![i] = p]
            /\ dev_queue' = SetInUse(dev_queue, p, TRUE)
            /\ evq' = Append(evq, "CONNECTION")
    /\ UNCHANGED <<threadC, threadD, cb, connected_id, con_mac_addr, pt_cond_var,
                   is_con_in_process, white_list, g_con_method_param,
                   g_con_idx_coutnt, pendC, pendD, asked>>

\* Connected = false, under mtx_for_connected_proxy: the slot is cleared and
\* the device removed.  BlueZ executes the calls in order, so nothing asked
\* before is left for a later link.
ConnectedFalse(p) ==
    /\ cb = Idle
    /\ \/ link[p] = "dropping"
       \/ /\ link[p] = "up" /\ \A d \in pendD : d.p # p
          /\ p \in asked \/ "loss" \in Faults
          /\ pendC[p] = 0 \/ "error" \in Faults
    /\ Len(evq) < MaxEvents
    /\ link' = [link EXCEPT ![p] = "down"]
    /\ asked' = asked \ {p}
    /\ IF Attached(p) = {}
       THEN /\ cb' = [Idle EXCEPT !.k = "dropped", !.p = p]
            /\ UNCHANGED <<connected_proxy, con_mac_addr, con_proxy_idx>>
       ELSE LET i == First(Attached(p)) IN
            /\ connected_proxy' = [connected_proxy EXCEPT ![i] = NoProxy]
            /\ con_mac_addr' = ClearedMac(i)
            /\ con_proxy_idx' = i
            /\ cb' = [Idle EXCEPT !.k = "dropped", !.p = p, !.i = i]
    /\ UNCHANGED <<queues, glob, threadC, threadD, connected_id, pt_cond_var,
                   is_con_in_process, pendC, pendD>>

\* ... and then app_management: the condition variable of the slot noted there
\* forgets its proxy.  The event is raised only if both tables had the proxy.
Dropped ==
    /\ cb.k = "dropped"
    /\ IF Held(cb.p) = {}
       THEN UNCHANGED <<hld_connected_proxy, pt_cond_var>>
       ELSE LET j == First(Held(cb.p)) IN
            /\ hld_connected_proxy' =
                 [hld_connected_proxy EXCEPT ![j] = NoProxy]
            /\ pt_cond_var' = [pt_cond_var EXCEPT ![j].proxy = NoProxy]
    /\ IF Held(cb.p) # {} /\ cb.i # NoSlot
       THEN /\ dev_queue' = SetInUse(dev_queue, cb.p, FALSE)
            /\ evq' = Append(evq, "DISCONNECTION")
       ELSE UNCHANGED <<dev_queue, evq>>
    /\ cb' = Idle
    /\ UNCHANGED <<threadC, threadD, connected_id, connected_proxy, con_mac_addr,
                   is_con_in_process, con_proxy_idx, white_list,
                   g_con_method_param, g_con_idx_coutnt, bluez>>

\* BlueZ knows nothing of the proxy but what it advertises.
Quiet(p) == link[p] = "down" /\ pendC[p] = 0 /\ \A d \in pendD : d.p # p

\* RSSI of a device: bt_con_n_append_dev_proxy enters it in the queue, or
\* renews the element of its address.  BlueZ has one object per address.
Rssi(p) ==
    /\ cb = Idle
    /\ link[p] = "down"
    /\ \A q \in Proxy \ {p} : MacOf[q] = MacOf[p] => Quiet(q)
    /\ dev_queue' = [dev_queue EXCEPT
                       ![MacOf[p]] = [proxy |-> p, in_use |-> FALSE]]
    /\ UNCHANGED <<ctrl, glob, threadC, threadD, cb, connected_id, white_list,
                   evq, bluez>>

\* proxy_removed: BlueZ drops a device that is not connected, asked to or not.
Removed(p) ==
    /\ cb = Idle
    /\ Quiet(p)
    /\ p \in asked \/ dev_queue[MacOf[p]].proxy = p
    /\ asked' = asked \ {p}
    /\ dev_queue' = [m \in Mac |-> IF dev_queue[m].proxy = p THEN NoElement
                                   ELSE dev_queue[m]]
    /\ UNCHANGED <<ctrl, glob, threadC, threadD, cb, connected_id, white_list,
                   evq, link, pendC, pendD>>

DBusCallback ==
    \/ \E p \in Proxy : \/ ConnectReply(p) \/ ConnectedTrue(p)
                        \/ ConnectedFalse(p) \/ Rssi(p) \/ Removed(p)
    \/ \E d \in pendD : DisconnectReply(d)
    \/ ConnectFailed \/ ConnectSucceeded \/ DisconnectSucceeded \/ Dropped

-----------------------------------------------------------------------------
(* thandler_ble_handleeventloop                                            *)

\* The index is read from the controller when the event is handled, for a
\* connection half a second later at least.  notifyProcessGeneralBlock does not
\* report a connection whose slot is empty by then.  The general process notes
\* what it is told.
Told(ev, i) ==
    IF ev = "DISCONNECTION" THEN NoMac
    ELSE IF connected_proxy[i] = NoProxy THEN connected_id[i]
    ELSE MacOf[connected_proxy[i]]

HandleEvent ==
    /\ evq # <<>>
    /\ connected_id' = [connected_id EXCEPT
                          ![con_proxy_idx] = Told(Head(evq), con_proxy_idx)]
    /\ evq' = Tail(evq)
    /\ UNCHANGED <<ctrl, glob, threadC, threadD, cb, bluez, dev_queue,
                   white_list>>

\* Three attempts to lock the slots fail within milliseconds, for example while
\* Connected = false holds them for 300 ms: the connection is not reported.
SkipEvent ==
    /\ evq # <<>> /\ Head(evq) = "CONNECTION"
    /\ evq' = Tail(evq)
    /\ UNCHANGED <<ctrl, glob, threadC, threadD, cb, connected_id, bluez,
                   dev_queue, white_list>>

Next ==
    \/ DBusCallback
    \/ ConnectToDev
    \/ DisconnectFromDev
    \/ HandleEvent
    \/ SkipEvent

Spec == Init /\ [][Next]_vars

\* The threads run, the timeouts of the two waits fire, and the poll for the
\* flag, once a second, does not miss the 8 s between connection passes for
\* ever.  Nothing is asked of BlueZ.
CStep == \/ CFindNone \/ CFind \/ CInit \/ CCall \/ CWake \/ CWoken \/ CGiveUp
         \/ CExit \/ CDeinit
DStep == \/ DSkip \/ DCall \/ DWake \/ DForce \/ DWoken \/ DRemove \/ DDeinit
CbStep == ConnectFailed \/ ConnectSucceeded \/ DisconnectSucceeded \/ Dropped

Fairness ==
    /\ WF_vars(CStep) /\ WF_vars(CTimeout)
    /\ WF_vars(DStep) /\ WF_vars(DTimeout)
    /\ SF_vars(DFlag)
    /\ WF_vars(CbStep)

FairSpec == Spec /\ Fairness

-----------------------------------------------------------------------------
(* Properties                                                              *)

CPc == {"idle", "find", "init", "call", "wait", "woken", "timeout", "exit",
        "deinit"}
DPc == {"idle", "want", "check", "wait", "woken", "timeout", "exit", "deinit"}

SlotsType == /\ connected_proxy \in [Slot -> MaybeProxy]
             /\ con_mac_addr \in [Slot -> MaybeMac]
CondVarsType == pt_cond_var \in [Slot -> CondVar]
FlagType == is_con_in_process \in BOOLEAN /\ con_proxy_idx \in Slot
QueueType == dev_queue \in [Mac -> Element]
ListType == white_list \in Seq(Mac)
EventsType == evq \in Seq(Event)
GlobType == /\ g_con_method_param \in [idx : Slot, mac : MaybeMac]
            /\ g_con_idx_coutnt \in 0 .. CountMod - 1
            /\ hld_connected_proxy \in [Slot -> MaybeProxy]
CType == /\ pcC \in CPc
         /\ IF pcC = "idle" THEN tmp_idx = NoSlot ELSE tmp_idx \in Slot
         /\ IF pcC \in {"idle", "find"} THEN to_connect = NoProxy
                                        ELSE to_connect \in Proxy
DType == /\ pcD \in DPc
         /\ IF pcD = "idle" THEN dis_idx = NoSlot ELSE dis_idx \in Slot
         /\ dis_id \in MaybeMac
         /\ IF pcD \in {"wait", "timeout", "woken"} THEN dis_proxy \in Proxy
                                                    ELSE dis_proxy \in MaybeProxy
CbType == /\ cb \in [k : {"idle", "connected", "failed", "disconnected",
                          "dropped"},
                     p : MaybeProxy, i : Slot \cup {NoSlot}, mac : MaybeMac]
          /\ cb.k # "idle" => cb.p \in Proxy
          /\ cb.k \in {"connected", "failed"} => cb.i \in Slot
KnownType == connected_id \in [Slot -> MaybeMac]
BluezType == /\ link \in [Proxy -> {"down", "up", "dropping"}]
             /\ pendC \in [Proxy -> Nat]
             /\ pendD \subseteq [i : Slot, p : Proxy]
             /\ asked \subseteq Proxy

\* Every variable has its type; the threads' locals are set while they run, and
\* no index leaves the slots.
TypeOK ==
    /\ SlotsType /\ CondVarsType /\ FlagType /\ QueueType /\ ListType
    /\ EventsType /\ GlobType /\ CType /\ DType /\ CbType /\ KnownType
    /\ BluezType

\* From the moment a thread raises is_con_in_process to the one it lowers it.
CHasFlag == pcC \in {"find", "init", "call", "wait", "woken", "timeout", "exit"}
DHasFlag == pcD \in {"check", "wait", "woken", "timeout"}

\* is_con_in_process is never left up by a thread that went away: then every
\* later connection pass would be given up, and CMD_DISCONNECTION would poll
\* for ever with the main loop.
FlagOwned == is_con_in_process => CHasFlag \/ DHasFlag

\* A connection pass that is yet to call Connect.
CTrying == pcC \in {"find", "init", "call"}

\* "make sure only 1 con/dis-con is ongoing at the same time"
OneOpOngoing == ~(CTrying /\ DHasFlag)

(* The next five are about slots and links while calls are answered, no pass *)
(* starts while a link is going down and no callback stops half way for      *)
(* 600 ms (Faults has neither "early" nor "slow"); they fail otherwise.      *)

\* No device is in two slots.
SlotsDistinct ==
    \A i, j \in Slot :
        connected_proxy[i] # NoProxy /\ connected_proxy[i] = connected_proxy[j]
            => i = j

\* The address that guards against connecting a sensor twice is that of the
\* device in the slot.
MacMatchesSlot ==
    \A i \in Slot : con_mac_addr[i] # NoMac =>
        /\ connected_proxy[i] # NoProxy
        /\ con_mac_addr[i] = MacOf[connected_proxy[i]]

\* No phantom connection: a slot holds a device only while BlueZ has a link to
\* it (or its Connected = false is being handled).
SlotIsLinked ==
    \A i \in Slot : connected_proxy[i] # NoProxy => link[connected_proxy[i]] # "down"

\* No orphan link: a device that is connected and whose Connect was answered
\* is in a slot, or on its way out.  With "early" it fails: the pass arms the
\* slot that Connected = false has just emptied, the second half of that callback
\* disarms it, and the new link finds no slot.
LinkIsTracked ==
    \A p \in Proxy : link[p] = "up" /\ pendC[p] = 0 =>
        \/ \E i \in Slot : connected_proxy[i] = p
        \/ cb.p = p
        \/ p \in asked

\* Whatever order callbacks, replies, passes and commands write connected_proxy
\* in, it is a table of slots as SlotTable promises it: a device takes one empty
\* slot, and a slot changes hands only through empty.
Table == INSTANCE SlotTable WITH slots <- connected_proxy
ImplementsSlotTable == Table!Spec

\* A disconnection removes no device but that of the sensor it is meant for:
\* with another sensor in the slot it is to be skipped silently.
OthersLeftAlone ==
    [][pcD = "exit" /\ pcD' = "deinit" =>
          \A p \in asked' \ asked : MacOf[p] = dis_id]_vars

\* CMD_DISCONNECTION is always executed to the end: the main loop does not poll
\* for the flag or wait for a reply for ever, whatever BlueZ does.
CommandServed == (pcD # "idle") ~> (pcD = "idle")

\* A connection pass always comes to its end.
PassEnds == (pcC # "idle") ~> (pcC = "idle")

\* bt_connection_refresh_white_list lets every sensor have its turn: one that
\* a search could have chosen again and again is chosen again and again.
Choosable(m) == /\ dev_queue'[m].proxy # NoProxy
                /\ ~InSomeSlot(m, dev_queue'[m].proxy)
NoStarvation ==
    \A m \in Mac :
        []<><<CFind /\ Choosable(m)>>_vars
            => []<>(to_connect # NoProxy /\ MacOf[to_connect] = m)

=============================================================================
