----------------------------- MODULE RoleSwitch -----------------------------
(***************************************************************************)
(* How the gateway takes turns between collecting from sensors (client     *)
(* role) and serving the mobile app (server role), and how the BLE process *)
(* restarts D-Bus underneath.  Two processes keep a role each and talk over*)
(* two message queues:                                                     *)
(*                                                                         *)
(*   - the general process: thandler_io_state, woken every second, reacts  *)
(*     to the key and to the clock; thandler_ipcmsgrecvloop takes events;  *)
(*   - the BLE process: the main loop (cmd) executes the commands; the     *)
(*     event loop reports the phone and watches for silence; the bluez loop*)
(*     ends when D-Bus goes; the main thread (main) restarts it all.       *)
(*                                                                         *)
(* Sensors, scanning and power are left to ConCtrl; BT_DBUS_IS_READY and   *)
(* BT_DBUS_IS_NOT_READY carry no role and are left out.  BlueZ, D-Bus and  *)
(* the phone are the environment.                                          *)
(***************************************************************************)
EXTENDS Integers, Sequences

CONSTANTS
    MaxBroadcast,  \* MAX_BT_BROADCAST, in turns of thandler_io_state
    QuietLimit,    \* silent turns of the event loop before a restart (20)
    EmptyLimit,    \* restarts without an adapter before a reboot (2)
    MissLimit,     \* failed adapter checks before a reboot (3)
    MaxKeys,       \* bound: presses of the key
    MaxDrops,      \* bound: losses of D-Bus
    MaxInputs,     \* bound: key presses and losses of D-Bus together
    MaxPhones,     \* bound: connections of the phone
    MaxQueue,      \* bound: messages to the general process
    Faults         \* what can go wrong, see below

\* "send": msgsnd fails; "timeout": BlueZ does not answer RegisterAdvertisement
\* or UnregisterAdvertisement in time; "error": it answers with an error;
\* "recovery": the privileged recovery fails; "stuck": the bluez loop does not
\* end within a minute.
ASSUME LimitsAssumption ==
    /\ {MaxBroadcast, QuietLimit, EmptyLimit, MaxQueue} \subseteq Nat \ {0}
    /\ {MissLimit, MaxKeys, MaxDrops, MaxInputs, MaxPhones} \subseteq Nat
ASSUME FaultsAssumption ==
    Faults \subseteq {"send", "timeout", "error", "recovery", "stuck"}

VARIABLES
    \* general process: thandler_io_state, then g_pro_general_ctr
    key_pressed_fg, countdown_s, state,
    g_role, g_sw, g_con,
    \* message queues
    to_ble, from_ble,
    \* BLE process: bt_role and bt_sw_in_progress of g_app_management, the
    \* main loop, the adapter proxy, the event queue and its silent turns
    bt_role, sw, cmd, adapter, events, cnt,
    \* the main thread with _empty_service_cnt and _timeoutCnt, its request
    \* flag, and the bluez loop
    main, empty, misses, restart_dbus_required, bluez,
    \* "up" until the process exits or the gateway reboots
    power,
    \* BlueZ: advertisement registered, phone connected
    adv, phone,
    \* key presses, losses of D-Bus and connections of the phone so far; whether
    \* the latest restart and a switch have overlapped
    keys, drops, phones, overlap

io == <<key_pressed_fg, countdown_s, state>>
general == <<g_role, g_sw, g_con>>
queues == <<to_ble, from_ble>>
role == <<bt_role, sw>>
loop == <<events, cnt>>
thread == <<main, empty, misses>>
radio == <<adv, phone>>
history == <<keys, drops, phones, overlap>>
vars == <<io, general, queues, role, cmd, adapter, loop, thread,
          restart_dbus_required, bluez, power, radio, history>>

Role == {"CLIENT", "SERVER"}
Restarting == main # "loop"
Up == power = "up"

-----------------------------------------------------------------------------
(* General process: thandler_io_state                                      *)

\* Mutant: the countdown is set but never counts.
LeftFrozen == IF key_pressed_fg THEN MaxBroadcast ELSE countdown_s

\* countdown_s and state of this turn, once the key has been looked at.
Left == IF key_pressed_fg THEN MaxBroadcast
        ELSE IF countdown_s > 0 THEN countdown_s - 1 ELSE 0
Turn == IF key_pressed_fg THEN 1 ELSE state

\* msgsnd, then bt_sw_in_progress = true; a failure is tried again next turn.
Command(c) ==
    \/ to_ble' = Append(to_ble, c) /\ g_sw' = TRUE
    \/ "send" \in Faults /\ UNCHANGED <<to_ble, g_sw>>

\* Give up the server role: state 99.
GoHome == state' = 99 /\ countdown_s' = 0 /\ g_sw' = FALSE /\ UNCHANGED to_ble

Stay(s) == state' = s /\ countdown_s' = Left

\* case 1: the key has been pressed.
ToServer ==
    /\ Turn = 1
    /\ \/ Left = 0 /\ GoHome
       \/ Left > 0 /\ g_role = "SERVER" /\ Stay(2) /\ UNCHANGED <<to_ble, g_sw>>
       \/ Left > 0 /\ g_role = "CLIENT" /\ Stay(1)
          /\ IF g_sw THEN UNCHANGED <<to_ble, g_sw>> ELSE Command("SW_TO_SERVER")

\* case 2: server role, nobody connected.
WaitForPhone ==
    /\ Turn = 2
    /\ \/ ~g_con /\ Left = 0 /\ GoHome
       \/ (g_con \/ Left > 0) /\ Stay(IF g_con THEN 3 ELSE 2)
          /\ UNCHANGED <<to_ble, g_sw>>

\* case 3: server role, connected.
ServePhone ==
    /\ Turn = 3
    /\ \/ ~g_con /\ GoHome
       \/ g_con /\ Stay(3) /\ UNCHANGED <<to_ble, g_sw>>

\* case 99 and default.
ToClient ==
    /\ Turn \notin 1..3
    /\ state' = Turn /\ countdown_s' = 0
    /\ \/ g_role = "CLIENT" /\ g_sw' = FALSE /\ UNCHANGED to_ble
       \/ g_role = "SERVER" /\ g_sw /\ UNCHANGED <<to_ble, g_sw>>
       \/ g_role = "SERVER" /\ ~g_sw /\ Command("SW_TO_CLIENT")

IoTurn ==
    /\ Up /\ key_pressed_fg' = FALSE
    /\ ToServer \/ WaitForPhone \/ ServePhone \/ ToClient
    /\ UNCHANGED <<g_role, g_con, from_ble, role, cmd, adapter, loop, thread,
                   restart_dbus_required, bluez, power, radio, history>>

\* The thread that takes events holds mtx_for_bt_sw: the turn is skipped.
IoLocked ==
    /\ Up /\ key_pressed_fg' = FALSE
    /\ state' = Turn /\ countdown_s' = IF Turn \in 1..3 THEN Left ELSE 0
    /\ UNCHANGED <<general, queues, role, cmd, adapter, loop, thread,
                   restart_dbus_required, bluez, power, radio, history>>

\* thandler_io_state_assist
PressKey ==
    /\ Up /\ keys < MaxKeys /\ keys + drops < MaxInputs
    /\ keys' = keys + 1 /\ key_pressed_fg' = TRUE
    /\ UNCHANGED <<countdown_s, state, general, queues, role, cmd, adapter,
                   loop, thread, restart_dbus_required, bluez, power, radio,
                   drops, phones, overlap>>

-----------------------------------------------------------------------------
(* General process: thandler_ipcmsgrecvloop                                *)

\* A connection or disconnection only concerns the phone in the server role;
\* in the client role it is a sensor's (SensorThreads).
Receive ==
    /\ Up /\ from_ble # <<>>
    /\ from_ble' = Tail(from_ble)
    /\ LET e == Head(from_ble)
           switch == e \in {"SW_TO_SERVER", "SW_TO_CLIENT"} IN
        /\ g_sw' = (g_sw /\ ~switch)
        /\ g_role' = CASE e = "SW_TO_SERVER" -> "SERVER"
                       [] e = "SW_TO_CLIENT" -> "CLIENT"
                       [] OTHER -> g_role
        /\ g_con' = CASE e = "SW_TO_CLIENT" -> FALSE
                      [] e = "CONNECTION" /\ g_role = "SERVER" -> TRUE
                      [] e = "DISCONNECTION" /\ g_role = "SERVER" -> FALSE
                      [] OTHER -> g_con
    /\ UNCHANGED <<io, to_ble, role, cmd, adapter, loop, thread,
                   restart_dbus_required, bluez, power, radio, history>>

-----------------------------------------------------------------------------
(* BLE process: the main loop                                              *)

\* notifyProcessGeneralBlock waits while the queue is full.
Notify(e) == Len(from_ble) < MaxQueue /\ from_ble' = Append(from_ble, e)

\* While D-Bus restarts, "Msg drop" is logged and the command is executed.
Take(c) ==
    /\ Up /\ cmd = "recv" /\ to_ble # <<>> /\ Head(to_ble) = c
    /\ to_ble' = Tail(to_ble)

Begin(at) == sw' = TRUE /\ cmd' = at /\ overlap' = (overlap \/ Restarting)
Ignore == UNCHANGED <<sw, cmd, overlap>>

TakeToServer ==
    /\ Take("SW_TO_SERVER")
    /\ IF ~adapter \/ bt_role = "SERVER" \/ sw THEN Ignore ELSE Begin("register")
    /\ UNCHANGED <<io, general, from_ble, bt_role, adapter, loop, thread,
                   restart_dbus_required, bluez, power, radio, keys, drops, phones>>

\* Sensors are disconnected, the adapter is powered off and on, then
\* RegisterAdvertisement: no proxy or no answer in time is a failure, an answer
\* counts as success whether it is an error or not.  BlueZ may do what it was
\* asked to although its answer is late.
Answered == adapter /\ bluez = "up"
Registered ==
    /\ cmd' = "role" /\ UNCHANGED sw
    /\ adv' \in {TRUE} \cup (IF "error" \in Faults THEN {adv} ELSE {})
\* Mutant: a failed registration leaves bt_sw_in_progress up.
NotRegisteredFlagUp ==
    /\ cmd' = "recv" /\ UNCHANGED sw
    /\ adv' \in {adv, adv \/ Answered}
NotRegistered ==
    /\ cmd' = "recv" /\ sw' = FALSE
    /\ adv' \in {adv, adv \/ Answered}
Register ==
    /\ Up /\ cmd = "register"
    /\ \/ Answered /\ Registered
       \/ (~Answered \/ "timeout" \in Faults) /\ NotRegistered
    /\ phone' = FALSE
    /\ UNCHANGED <<io, general, queues, bt_role, adapter, loop, thread,
                   restart_dbus_required, bluez, power, history>>

BecomeServer ==
    /\ Up /\ cmd = "role"
    /\ bt_role' = "SERVER" /\ sw' = FALSE /\ cmd' = "tell"
    /\ UNCHANGED <<io, general, queues, adapter, loop, thread,
                   restart_dbus_required, bluez, power, radio, history>>

TellServer ==
    /\ Up /\ cmd = "tell" /\ Notify("SW_TO_SERVER") /\ cmd' = "recv"
    /\ UNCHANGED <<io, general, to_ble, role, adapter, loop, thread,
                   restart_dbus_required, bluez, power, radio, history>>

TakeToClient ==
    /\ Take("SW_TO_CLIENT")
    /\ IF bt_role = "CLIENT" \/ sw THEN Ignore ELSE Begin("unregister")
    /\ UNCHANGED <<io, general, from_ble, bt_role, adapter, loop, thread,
                   restart_dbus_required, bluez, power, radio, keys, drops, phones>>

\* A failure lowers the flag but the switch goes on.
Unregister ==
    /\ Up /\ cmd = "unregister" /\ cmd' = "home"
    /\ \/ Answered /\ UNCHANGED sw
          /\ adv' \in {FALSE} \cup (IF "error" \in Faults THEN {adv} ELSE {})
       \/ (~Answered \/ "timeout" \in Faults) /\ sw' = FALSE
          /\ adv' \in {adv, adv /\ ~Answered}
    /\ UNCHANGED <<io, general, queues, bt_role, adapter, loop, thread,
                   restart_dbus_required, bluez, power, phone, history>>

\* Without an adapter the process exits.
TellClient ==
    /\ Up /\ cmd = "home"
    /\ \/ ~adapter /\ power' = "exit" /\ sw' = FALSE /\ UNCHANGED <<cmd, from_ble>>
       \/ adapter /\ Notify("SW_TO_CLIENT") /\ cmd' = "settle"
          /\ UNCHANGED <<power, sw>>
    /\ UNCHANGED <<io, general, to_ble, bt_role, adapter, loop, thread,
                   restart_dbus_required, bluez, radio, history>>

BecomeClient ==
    /\ Up /\ cmd = "settle"
    /\ bt_role' = "CLIENT" /\ sw' = FALSE /\ cmd' = "recv"
    /\ UNCHANGED <<io, general, queues, adapter, loop, thread,
                   restart_dbus_required, bluez, power, radio, history>>

-----------------------------------------------------------------------------
(* BLE process: the phone and the event loop                               *)

\* bt_con_n_proxy_property_changed queues the event in the server role; in the
\* client role an unknown device is passed over.  One event at a time.
PhoneChanges ==
    /\ Up /\ bluez = "up" /\ events = <<>>
    /\ phone \/ (adv /\ phones < MaxPhones)
    /\ phone' = ~phone /\ phones' = IF phone THEN phones ELSE phones + 1
    /\ events' = IF bt_role = "CLIENT" THEN events
                 ELSE <<IF phone THEN "DISCONNECTION" ELSE "CONNECTION">>
    /\ UNCHANGED <<io, general, queues, role, cmd, adapter, cnt, thread,
                   restart_dbus_required, bluez, power, adv, keys, drops,
                   overlap>>

\* thandler_ble_handleeventloop takes nothing while a restart is due.
Report ==
    /\ Up /\ events # <<>> /\ ~restart_dbus_required
    /\ events' = <<>>
    /\ IF bt_role = "SERVER" THEN Notify(Head(events)) ELSE UNCHANGED from_ble
    /\ UNCHANGED <<io, general, to_ble, role, cmd, adapter, cnt, thread,
                   restart_dbus_required, bluez, power, radio, history>>

\* Mutant: the silent turns go on counting after the restart was asked for.
SilenceCounts ==
    /\ Up /\ events = <<>> /\ ~restart_dbus_required
    /\ restart_dbus_required' = (bt_role = "SERVER" /\ cnt + 1 >= QuietLimit)
    /\ cnt' = IF bt_role = "SERVER" THEN cnt + 1 ELSE 0
    /\ UNCHANGED <<io, general, queues, role, cmd, adapter, events, thread,
                   bluez, power, radio, history>>

\* Mutant: silence is put down to sleeping sensors in either role.
SilenceIgnored ==
    /\ Up /\ events = <<>> /\ ~restart_dbus_required
    /\ cnt' = 0 /\ UNCHANGED restart_dbus_required
    /\ UNCHANGED <<io, general, queues, role, cmd, adapter, events, thread,
                   bluez, power, radio, history>>

\* 30 s without an event.
Silence ==
    /\ Up /\ events = <<>> /\ ~restart_dbus_required
    /\ LET due == bt_role = "SERVER" /\ cnt + 1 >= QuietLimit IN
        /\ restart_dbus_required' = due
        /\ cnt' = IF bt_role = "SERVER" /\ ~due THEN cnt + 1 ELSE 0
    /\ UNCHANGED <<io, general, queues, role, cmd, adapter, events, thread,
                   bluez, power, radio, history>>

-----------------------------------------------------------------------------
(* BLE process: the bluez loop                                             *)

\* The way out of l_main_run asks for a restart, releases D-Bus, asks again and
\* clears _g_flag.  BlueZ forgets the advertisement; the proxies are freed
\* without proxy_removed, so hld_proxy_adapter1 stays.
Quit ==
    /\ bluez' = "ending" /\ adv' = FALSE /\ phone' = FALSE

DropDBus ==
    /\ Up /\ bluez = "up"
    /\ drops < MaxDrops /\ keys + drops < MaxInputs
    /\ drops' = drops + 1 /\ restart_dbus_required' = TRUE /\ Quit
    /\ UNCHANGED <<io, general, queues, role, cmd, adapter, loop, thread,
                   power, keys, phones, overlap>>

LoopEnds ==
    /\ Up /\ bluez = "ending"
    /\ bluez' = "down" /\ restart_dbus_required' = TRUE
    /\ UNCHANGED <<io, general, queues, role, cmd, adapter, loop, thread,
                   power, radio, history>>

\* proxy_added: the adapter and the advertising manager.
ProxyAdded ==
    /\ Up /\ bluez = "up" /\ ~adapter /\ adapter' = TRUE
    /\ UNCHANGED <<io, general, queues, role, cmd, loop, thread,
                   restart_dbus_required, bluez, power, radio, history>>

-----------------------------------------------------------------------------
(* BLE process: the main thread                                            *)

\* Every 5 s, when no restart is due.
CheckAdapter ==
    /\ Up /\ main = "loop" /\ ~restart_dbus_required
    /\ IF misses > MissLimit THEN power' = "reboot" ELSE UNCHANGED power
    /\ misses' = IF adapter THEN 0
                 ELSE IF misses > MissLimit THEN misses ELSE misses + 1
    /\ UNCHANGED <<io, general, queues, role, cmd, adapter, loop, main, empty,
                   restart_dbus_required, bluez, radio, history>>

\* RESTART_DBUS, up to SIGTERM for the bluez loop.
StartRestart ==
    /\ Up
    /\ main = "again" \/ (main = "loop" /\ restart_dbus_required)
    /\ main' = "kill"
    /\ overlap' = (cmd # "recv")
    /\ IF bluez = "up" THEN Quit ELSE UNCHANGED <<bluez, radio>>
    /\ UNCHANGED <<io, general, queues, role, cmd, adapter, loop, empty,
                   misses, restart_dbus_required, power, keys, drops, phones>>

\* SIGKILL after a minute takes the process down.
LoopStuck ==
    /\ Up /\ main = "kill" /\ bluez = "ending" /\ "stuck" \in Faults
    /\ power' = "exit"
    /\ UNCHANGED <<io, general, queues, role, cmd, adapter, loop, thread,
                   restart_dbus_required, bluez, radio, history>>

\* The privileged recovery, sys_init_app_management, and a new bluez loop.
Rebuild ==
    /\ Up /\ main = "kill" /\ bluez = "down"
    /\ \/ /\ main' = "wait" /\ UNCHANGED power
          /\ bt_role' = "CLIENT" /\ sw' = FALSE /\ adapter' = FALSE
          /\ events' = <<>> /\ bluez' = "up"
       \/ /\ "recovery" \in Faults /\ power' = "exit"
          /\ UNCHANGED <<main, role, adapter, events, bluez>>
    /\ UNCHANGED <<io, general, queues, cmd, cnt, empty, misses,
                   restart_dbus_required, radio, history>>

\* After 10 s.  The disconnection that is reported with an invalid index gets
\* no further than notifyProcessGeneralBlock in the client role.
Waited ==
    /\ Up /\ main = "wait"
    /\ \/ /\ ~adapter /\ empty' = empty + 1 /\ UNCHANGED from_ble
          /\ IF empty + 1 >= EmptyLimit
             THEN power' = "reboot" /\ UNCHANGED main
             ELSE main' = "again" /\ UNCHANGED power
       \/ /\ adapter /\ main' = "clear" /\ UNCHANGED <<empty, power>>
          /\ IF bt_role = "SERVER" THEN Notify("DISCONNECTION")
             ELSE UNCHANGED from_ble
    /\ UNCHANGED <<io, general, to_ble, role, cmd, adapter, loop, misses,
                   restart_dbus_required, bluez, radio, history>>

ClearRequest ==
    /\ Up /\ main = "clear" /\ main' = "sync"
    /\ restart_dbus_required' = FALSE
    /\ UNCHANGED <<io, general, queues, role, cmd, adapter, loop, empty,
                   misses, bluez, power, radio, history>>

\* Mutant: the general process is not told.
SyncForgotten ==
    /\ Up /\ main = "sync" /\ main' = "loop" /\ empty' = 0
    /\ UNCHANGED <<io, general, queues, role, cmd, adapter, loop, misses,
                   restart_dbus_required, bluez, power, radio, history>>

\* Tell the general process the role that the restart has set; the scope of
\* _empty_service_cnt ends.
SyncRole ==
    /\ Up /\ main = "sync" /\ main' = "loop" /\ Notify("SW_TO_CLIENT")
    /\ empty' = 0
    /\ UNCHANGED <<io, general, to_ble, role, cmd, adapter, loop, misses,
                   restart_dbus_required, bluez, power, radio, history>>

-----------------------------------------------------------------------------
Init ==
    /\ key_pressed_fg = FALSE /\ countdown_s = 0 /\ state = 0
    /\ g_role = "CLIENT" /\ g_sw = FALSE /\ g_con = FALSE
    /\ to_ble = <<>> /\ from_ble = <<>>
    /\ bt_role = "CLIENT" /\ sw = FALSE /\ cmd = "recv"
    /\ adapter = FALSE /\ events = <<>> /\ cnt = 0
    /\ main = "loop" /\ empty = 0 /\ misses = 0
    /\ restart_dbus_required = FALSE /\ bluez = "up" /\ power = "up"
    /\ adv = FALSE /\ phone = FALSE
    /\ keys = 0 /\ drops = 0 /\ phones = 0 /\ overlap = FALSE

MainLoop == TakeToServer \/ Register \/ BecomeServer \/ TellServer
            \/ TakeToClient \/ Unregister \/ TellClient \/ BecomeClient
Restart == StartRestart \/ LoopStuck \/ Rebuild \/ Waited \/ ClearRequest
           \/ SyncRole
Next == \/ IoTurn \/ IoLocked \/ PressKey \/ Receive
        \/ MainLoop
        \/ PhoneChanges \/ Report \/ Silence
        \/ DropDBus \/ LoopEnds \/ ProxyAdded
        \/ CheckAdapter \/ Restart

Spec == Init /\ [][Next]_vars

\* Every thread keeps running, and the app ends an idle connection; nobody has
\* to press the key and D-Bus need not fail.  A failing msgsnd succeeds in the
\* end, and mtx_for_bt_sw, held for two assignments, is free in the end.
Fairness ==
    /\ WF_vars(IoTurn) /\ SF_vars(IoTurn /\ to_ble' # to_ble)
    /\ WF_vars(Receive) /\ WF_vars(MainLoop)
    /\ WF_vars(Report) /\ WF_vars(Silence) /\ WF_vars(phone /\ PhoneChanges)
    /\ WF_vars(LoopEnds) /\ WF_vars(ProxyAdded)
    /\ WF_vars(CheckAdapter) /\ WF_vars(Restart)
FairSpec == Spec /\ Fairness

-----------------------------------------------------------------------------
(* Properties                                                              *)

Commands == {"SW_TO_SERVER", "SW_TO_CLIENT"}
Events == Commands \cup {"CONNECTION", "DISCONNECTION"}

IoType ==
    /\ key_pressed_fg \in BOOLEAN /\ countdown_s \in 0..MaxBroadcast
    /\ state \in {0, 1, 2, 3, 99}
GeneralType == g_role \in Role /\ g_sw \in BOOLEAN /\ g_con \in BOOLEAN
QueueType ==
    /\ to_ble \in Seq(Commands) /\ from_ble \in Seq(Events)
    /\ Len(from_ble) <= MaxQueue
BleType ==
    /\ bt_role \in Role /\ sw \in BOOLEAN
    /\ cmd \in {"recv", "register", "role", "tell", "unregister", "home",
                "settle"}
    /\ adapter \in BOOLEAN /\ cnt \in 0..QuietLimit - 1
    /\ events \in {<<>>, <<"CONNECTION">>, <<"DISCONNECTION">>}
ThreadType ==
    /\ main \in {"loop", "kill", "wait", "again", "clear", "sync"}
    /\ empty \in 0..EmptyLimit /\ misses \in 0..MissLimit + 1
    /\ restart_dbus_required \in BOOLEAN /\ bluez \in {"up", "ending", "down"}
    /\ power \in {"up", "exit", "reboot"}
    /\ Up => empty < EmptyLimit
EnvType ==
    /\ adv \in BOOLEAN /\ phone \in BOOLEAN
    /\ keys \in 0..MaxKeys /\ drops \in 0..MaxDrops
    /\ phones \in 0..MaxPhones /\ overlap \in BOOLEAN

\* Counters stay within the code's limits: in particular a gateway that is up
\* has seen fewer restarts without an adapter than it takes to reboot.
TypeOK == IoType /\ GeneralType /\ QueueType /\ BleType /\ ThreadType /\ EnvType

\* Nothing on its way between the processes, no switch and no restart.
Settled == /\ to_ble = <<>> /\ from_ble = <<>>
           /\ cmd = "recv" /\ ~Restarting

\* Whatever order key presses, timeouts, the phone, failed registrations and
\* D-Bus restarts come in, the two processes agree on the role whenever nothing
\* is on its way, unless the latest restart of D-Bus and a switch overlapped: the
\* restart resets the role under the main loop's hands, tells the general process
\* so at the end, and the main loop may tell it the contrary before or after
\* that.  The next restart puts it right.
RolesAgree == Up /\ Settled /\ ~overlap => g_role = bt_role

\* bt_sw_in_progress of the BLE process is only up while the main loop executes
\* a switch: left up by a failure or by a restart, every later switch would be
\* refused as ongoing.
FlagMeansSwitch == Up /\ sw => cmd \in {"register", "role", "unregister", "home", "settle"}

\* The BLE process never stays in the server role, where no sensor is collected
\* from: even if the general process believes in the client role and never asks
\* for it, the silence of the event loop ends it.
BleComesHome == []<>(~Up \/ bt_role = "CLIENT")

\* The general process never stays in the server role or with a switch under
\* way either: the paths through the states of thandler_io_state, with failed
\* sends, refused and failed switches, phones that come and go and restarts,
\* lead back, with one exception.  When a switch to the server role overlaps a
\* restart of D-Bus, its SW_TO_SERVER can reach the general process after the
\* SW_TO_CLIENT of the restart: then every CMD_SW_TO_CLIENT is ignored, as the
\* BLE process is in the client role, and the general process stays a server
\* until the next restart.
LeftServer == overlap /\ g_role = "SERVER" /\ bt_role = "CLIENT"
GeneralComesHome ==
    \/ []<>(~Up \/ (g_role = "CLIENT" /\ ~g_sw /\ countdown_s = 0))
    \/ <>[]LeftServer

\* When the bluez loop has ended it is started again, unless the process exits
\* or the gateway reboots: "Real D-Bus disconnection is handled by
\* disconnect_callback()" (app_pro_ble_new.c).  The main thread clears
\* restart_dbus_required 10 s after it started the new loop, and with it the
\* request of a loop that has ended again by then.
BluezBack == [](bluez = "down" => <>(~Up \/ bluez = "up"))

=============================================================================
