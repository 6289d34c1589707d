# A TLA+ model of the sensor gateway

This directory holds TLA+ specifications of the multi-connection BLE core of
the gateway, of the role switch above it and of the collection of data through
it, the TLC configurations that check them on small instances, and proofs that TLAPS checks for every value of the constants. Everything is
translated from the C code under `src/`; `PROJECT.json` says, for each
definition, which lines it stands for.

The build that is modelled is the one the Makefiles produce: `SKF_GW_NEW = 1`,
`SKF_GW_CONFIG_MULTI_CONNECTION = 1`. File names without a directory are in
`src/skf_gw/source/src/ble/` (`bt_connection_new.c`, `app_pro_ble_new.c`) or
`src/skf_gw/source/src/general/` (`app_pro_general_new.c`,
`froto/app_froto_new.c`, `sensorInterface/sensor_interface_insight_predict.c`).

## 1. The system

The gateway collects measurements from battery-powered BLE sensors and passes
them on over MQTT and Modbus. It is a set of processes that talk through System
V message queues and shared memory:

| process | own code | state | hard behaviour |
|---|---|---|---|
| BLE (parent of `skf_gw`) | `ble/*_new.c`, `bt_common.c`, `bt_agent.c` | the connection controller, queues of devices and of characteristics, the role | five threads and D-Bus callbacks share one controller; replies that come late, never or twice |
| general (child of `skf_gw`) | `general/*` | one session per connection index, the Froto protocol, the database cache, timers | a thread per sensor, started and stopped by events that may be stale |
| btmon | `monitor/` (vendored), `app_hci_evt_mgmt_new.c` | HCI events | a pipe between processes |
| sql_op, mqtt_op | `skf_gw_mqtt/` | database, broker connection | request and answer over queues, reconnects |
| Modbus slave | `modbus_rtu/modbus_slave/` | register map in shared memory | concurrent readers and writers |
| radio | `nrf52840_nic/hci_uart` | – | vendor firmware |

### Components

**BLE connection controller** (`bt_connection_new.c`, `struct con_controller`).
For each of `CONFIG_BLE_CONNECTION_MAX_NUM` slots: the Device1 proxy connected,
its address, a condition variable with the proxy it is armed for; a flag
`is_con_in_process`; `con_proxy_idx`, the slot of the last event; the queue of
devices seen and the white list. Operations: a connection pass every 8 s, a
disconnection on command, and the D-Bus callbacks (replies to Connect and
Disconnect, property changes, proxies added and removed). Correct when: at most
one operation is going on; slots, addresses and BlueZ's links agree; no path
leaves the flag up; every sensor of the white list gets its turn.

**BLE process threads** (`app_pro_ble_new.c`). Main loop (commands of the
general process), periodic loop (passes), bluez loop (callbacks), event loop
(reports to the general process), plus the role switch between client and
server and the D-Bus restart. Correct when: events carry the right index,
commands end, a restart leaves nothing half done.

**Role switch** (`thandler_io_state` of the general process; the main loop, the
event loop and the main thread of the BLE process; `bt_advertising.c`). Each
process has its own `bt_role` and `bt_sw_in_progress`. A press of the key sends
CMD_SW_TO_SERVER; the end of a countdown or of the phone's connection sends
CMD_SW_TO_CLIENT; a loss of D-Bus or 600 s of silence in the server role restarts
D-Bus and with it the role. Correct when: the two roles agree once nothing is
under way, no flag is left up, and the gateway comes back to its sensors.

**Froto replies and data collection** (`app_froto_new.c`, `collectData`). A
registry of expected replies, each with a queue of messages and a condition
variable; a sensor thread registers, sends, waits and unregisters, the receiving
thread finds the entry a message acknowledges. Correct when: a reply is neither
made up nor mixed with that of an earlier attempt, an entry in use is not freed,
blocks are put together in order, and the session ends.

**Proxy recovery detector** (`bt_connection_new.c:74-235`, periodic loop).
Counts RSSI updates of white-listed sensors; a pass that finds no proxy although
sensors were active makes the process exit so that systemd starts it anew.
Correct when: it does not exit for a sleeping sensor, on old evidence, or at the
cost of a sensor that was connected when it decided.

**Sensor threads** (`app_pro_general_new.c`). For each index a flag, the address
of the sensor, a thread and a condition variable; two entries of `thread_para`
to hand parameters to new threads. Correct when: entries are not lost, a thread
on record is alive, a sensor whose connection was reported is disconnected again.

**GATT client/server, agent**: characteristics, acquired write/notify
descriptors, pairing. **The rest of Froto**: framing, encoding, firmware update.
**Mobile server interface**: users and configuration over the phone. **Waiting
queue, timers, scheduler, IPC helpers**: blocking queues with timeouts.
**Database, I/O**: messages to sql_op, LEDs. **MQTT, SQL, Modbus**: see above.
**DWT/Huffman**: compression of waveforms, purely functional. These are not
modelled; section 8 says why, and what would come next.

Not built, and so not modelled: `app_pro_ble.c`, `app_pro_general.c`,
`bt_connection.c`, `app_froto.c`, `util_froto.c` (the single-connection
predecessors). Vendored: BlueZ, ELL, libmodbus, nanopb, cJSON, Paho, SQLite.

### How they interact

```
 sensors ~~ BlueZ ── D-Bus ──> bluez loop ──event queue──> event loop
              ^                    |                          | msgsnd
              | Connect,           v                          v
              | Disconnect,   con_controller            receiving thread
              | RemoveDevice    ^        ^                    | pthread_create
        periodic loop ──────────┘        |                    v
        main loop ───────────────────────┘<── msgsnd ── sensor threads
            ^                                           (Froto replies)
            └── msgsnd ── thandler_io_state <── key, countdown, phone
        main thread: restarts D-Bus, the bluez loop and the role
```

## 2. The modules

| module | stands for |
|---|---|
| `ConCtrl` | the connection controller and the threads of the BLE process that share it |
| `SlotTable` | what the controller promises: a table of slots, taken when empty and given back; `ConCtrl` implements it |
| `ProxyRecovery` | the recovery detector with its times |
| `SensorThreads` | the receiving thread and the sensor threads of the general process |
| `FrotoReply` | one session of `collectData` over the registry of expected replies |
| `RoleSwitch` | the role switch between the two processes and the D-Bus restart |
| `MCConCtrl`, `MCProxyRecovery`, `MCSensorThreads`, `MCFrotoReply`, `MCRoleSwitch` | what TLC instantiates |
| `ConCtrlProofs`, `ConCtrlSlotProofs` | theorems about `ConCtrl`: types and the flag under every fault; slots, links and the refinement of `SlotTable` |
| `RoleSwitchProofs`, `ProxyRecoveryProofs`, `SensorThreadsProofs`, `FrotoReplyProofs` | theorems about the module of that name |
| `LeastElement` | a lemma for several of them: a nonempty set of natural numbers has a least element |

### ConCtrl

The variables have the names of the C fields (`connected_proxy`,
`con_mac_addr`, `pt_cond_var`, `is_con_in_process`, `con_proxy_idx`,
`g_con_method_param`, `g_con_idx_coutnt`, ...). `dev_queue` maps each address to
its element, because the code keeps one element per address. `pcC` and `pcD` are
the places in `bt_con_n_connect_to_dev` and `bt_con_n_disconnect_from_dev`; `cb`
is the callback that the bluez loop is in. A step goes from one point where
another thread can get in to the next: a mutex that is released, a wait, a
sleep. So a pass is

`idle -> find -> init -> call -> wait -> woken -> idle`, with
`wait -> timeout -> exit -> deinit` for ETIMEDOUT and `call -> exit` when the
call cannot be sent,

and a disconnection is
`idle -> want -> check -> wait -> woken -> exit -> deinit -> idle`.

A callback that takes locks twice is two steps (`ConnectReply` then
`ConnectFailed` or `ConnectSucceeded`; `DisconnectReply` then
`DisconnectSucceeded`; `ConnectedFalse` then `Dropped`). A reply that finds the
mutex of the condition variable taken gives up, as the trylock does
(`MutexHeld`).

BlueZ is the environment, from how the code uses it: `link` is what it knows of
a device, `pendC` and `pendD` are calls without an answer, `asked` are devices
whose removal was asked for. It is assumed that Disconnect is answered before
`Connected = false` is signalled, that `Connected = true` comes before the
success of a Connect, that a Connect of a connected device succeeds at once, that
a second attempt beside a first one is an error, and that calls are executed in
order. The constant `Faults` says what may go wrong in a run: `timeout` (no
answer in 60 s or 30 s), `error`, `call` (the call cannot be sent, or the address
of the device cannot be read), `loss` (a link goes down by itself), and two that
are a matter of time rather than of locks. `early`: a pass starts while a link is
going down, from the reply to Disconnect to the end of the callback of
`Connected = false`; about 300 ms of that are the sleep of
`bt_common_rm_devices` inside the callback, and passes are 8 s apart, so it will
happen. `slow`: the bluez thread stops between the two halves of the Disconnect
reply for the 600 ms that the disconnection, which the first half has woken,
sleeps before it destroys the condition variable. Otherwise every thread may step
at any time: between the halves of any callback, and passes also while a
disconnection cleans up (300 ms before and 300 ms in `bt_common_rm_devices`).

The rotating index `g_con_idx_coutnt` is the `uint32_t` of the code: it runs
freely, is reduced to a slot where it is used (`Probe`), wraps around at
`CountMod` and is reset above `CountLimit`.

The general process is `connected_id`: what it was told for an index, and
`DTake`: a sensor thread gives a connection back.

`Table == INSTANCE SlotTable WITH slots <- connected_proxy` is the refinement
mapping: the detailed table, written by two threads and five callbacks, changes
only as the abstract one may. An entry of the event queue is the kind of the
event alone, as in the code.

### ProxyRecovery

Time goes by in seconds. Time stamps are ages, cut off where no comparison tells
them apart, which loses nothing; the RSSI counter, which the code stops at 255,
stops at `RssiMin` for the same reason. A pass that selects a sensor is an
attempt that takes any time. `connected` and `pending` belong to the bluez
thread: a sensor whose Connect BlueZ works on may be connected at any time
(`Connected`), also when its attempt has timed out, and between the decision to
exit and the exit. `bt_con_n_connect_num_fetch` has no `return` on its
success path, so its result is either value (`NoConnection`, whose parameter
stands both for a failed trylock and for that undefined value).
`silence`, `heard` and `kept` (the connections there were when the last pass
ended) belong to the properties only.

### SensorThreads

`rx` is the receiving thread, `th` the sensor threads; `from_ble` are events on
their way, `to_ble` is the message queue of commands. `BT_EVENT_CONNECTION` is
three steps, as in the code: the address is written without the lock
(`RxConnection`), the condition variable is set up under it (`RxPrepare`), and
`pthread_create` stores the thread after the unlock (`RxCreate`). The BLE
process is the abstract slot table `slot`, with events reported under their own
index. A disconnection on command is usually not reported at all, because the
reply has emptied the slot when `Connected = false` looks for the proxy
(`BleObey`), and a connection may go unreported (`BleConnectUnseen`). `Send` is the
`msgsnd` of CMD_DISCONNECTION, which may fail: that is logged, and the record is
cleared all the same. `unsent` is a history variable, the indices whose present
sensor such a command was to disconnect. The session with the sensor is one step,
`TWork`.

### FrotoReply

`reply_ack_queue` holds, for the entries of one sensor, the number of the
request, the primitive and the queue of messages. Entries of other sensors are
never matched and only count towards the limit on all entries (fault `full`).
The thread of the sensor (`pc`) runs `collectData`: the short data, then `Items`
waveforms, with up to `Retry` retries each. The three routines that wait share
`Lock`, `Wait`, `Wake`, `TimedOut` and `Pop`; what they do before and after
differs (`call`): the first half unregisters only if `is_op_done` is down, the
second half looks into the queue first, resets `is_op_done` without the lock
(`Arm`) and unregisters only on its last block or a timeout. `TimedOut` is
enabled whenever the thread waits, also when the reply has just been signalled.
The receiving thread queues the message (`Receive`), signals under a trylock
(`Signal`) and looks for further entries (`FindNext`), one step each;
`reply_ack_queue_mtx` is held from `Receive` to `Signal` (`MutexFree`).
`RemoveAck` is the `memmove` with its length in bytes. A block that the parsers
refuse has `ok = FALSE`. The messages under way are the environment.

### RoleSwitch

The general process is `thandler_io_state` (`IoTurn`: one turn per second, with
`key_pressed_fg`, `countdown_s` and `state`; `IoLocked`: a turn whose trylock
fails), the key (`PressKey`) and the receiving thread (`Receive`). The BLE
process is the main loop, which takes a switch through the places of `cmd`
(`recv -> register -> role -> tell -> recv` and
`recv -> unregister -> home -> settle -> recv`), the event loop (`Report`,
`Silence`), the bluez loop (`bluez`) and the main thread
(`loop -> kill -> wait -> clear -> sync -> loop`, `wait -> again` when no adapter
shows up). A step ends where the code sleeps, waits, sends or lets go of
`mtx_for_bt_sw`. BlueZ is `adv` (it has our advertisement) and `phone`; a
registration may succeed, fail before or after BlueZ has acted on it, or be
answered with an error, which the code takes for success. The process exits or
the gateway reboots as in the code (`power`). `overlap` is a history variable: a
switch was under way while D-Bus was restarted, at the latest restart. A restart
that meets no switch lowers it again.

## 3. What is checked

Runs that pass (deadlock is checked in all but `FrotoReply_collect`, where the
session ends, and `RoleSwitch_home`, where the process may exit):

| run | instance | properties |
|---|---|---|
| `ConCtrl_slots` | 2 sensors, 2 slots, links get lost; 4.7 million states | `TypeOK`, `SlotsDistinct`, `MacMatchesSlot`, `SlotIsLinked`, `LinkIsTracked`, `ImplementsSlotTable` |
| `ConCtrl_faults` | 1 sensor, 1 slot, every fault (`early` and `slow` too); fairness | `FlagOwned`, `CommandServed`, `PassEnds` |
| `ConCtrl_turns` | 2 sensors, 1 slot | `NoStarvation` |
| `ProxyRecovery_restart` | 2 sensors, the code's times (5, 8, 30 s, 3 updates); 0.8 million states | `TypeOK`, `SleepingIgnored`, `EvidenceIsNew`, `CutsOnlyNew` |
| `SensorThreads_lives` | 2 sensors, 1 index, 2 threads, 1 entry, sends that fail; fairness; 0.5 million states | `TypeOK`, `ParaOwned`, `RecordedThreadLives`, `ConnectionServed`, `HandedBack` |
| `FrotoReply_collect` | short data and a waveform of 1 or 3 blocks, 1 retry, 2 entries, every fault; fairness; 0.5 million states | `TypeOK`, `WaveformOrdered`, `EntryKept`, `ReplyMeansMessage`, `SessionEnds` |
| `RoleSwitch_home` | 2 inputs (key presses, at most one loss of D-Bus), 1 phone, every fault; fairness; 0.7 million states | `TypeOK`, `RolesAgree`, `FlagMeansSwitch`, `BleComesHome`, `GeneralComesHome` |

Why the bounds are enough for the questions asked. Two slots and two sensors
are the least that let a slot change hands, one sensor be taken for another and
the rotation of slots matter; a third repeats a pair. `MaxPending = 1` holds by
itself while calls do not time out, because the next pass starts after the
answer; with timeouts it says that BlueZ does not let two Connects of one device
wait. `MaxEvents` holds callbacks back while the event loop has not caught up;
the code's queue is far longer, and two events are enough for an index to be
overwritten. The invariants of `ConCtrl_slots` are proved for every value of
them (section 5). The range of the rotating index is scaled down: `CountMod = 2`
with `CountLimit = 1` in `ConCtrl_slots` (both slots come first, the index wraps
and is reset; `CountMod = 3` gives the same verdicts just within five minutes), 1
with a single slot, where it makes no difference, and 4 with 2 in the others. One index in
`SensorThreads` loses nothing but the sharing of `thread_para`, because indices share nothing else; two threads on it allow the
thread of a lost connection and that of the next one at the same time, and with
one entry of `thread_para` (the code has two) running out of entries
happens. `MaxMsg` and `Room` hold the BLE process back; a command waits for room in
the queue or is refused, as `msgsnd` does. In `FrotoReply` three
blocks are a first, a last and one between, and one retry is enough for late
blocks of the attempt before. Both waveform requests may be registered at once
(`MaxEntries = 2`, 10 in the code); a full registry is the fault `full`. In
`RoleSwitch`
the limits of the code (60 turns of the countdown, 20 silent turns, 2 restarts
without an adapter, 3 missed checks) are scaled down to 2, 2, 2 and 0; each
counter still runs, and runs out, in any order with the others. Two inputs are
what it takes for a press to meet a restart or another press; the phone comes
and goes once. `MaxQueue` makes the BLE process wait for the receiving thread,
as a full queue does.

Fairness. `CommandServed` and `PassEnds` assume that the threads take their
steps and that the two timeouts fire (weak fairness), and that the main loop,
which polls the flag each second, sees it down at some time among passes that
are 8 s apart (strong fairness of `DFlag`). Nothing is asked of BlueZ: it may
never answer. `HandedBack` assumes that the receiving thread and every sensor
thread run (the session ends, as its own timeouts provide) and that the BLE
process takes its commands. `SessionEnds` assumes that the two threads run and that
a timed wait ends; the sensor may never answer. `BleComesHome` and `GeneralComesHome` assume that every
thread runs, that the app ends an idle connection (a comment in the event loop
gives it 10 s), that the bluez loop, once told to, ends or the process is killed,
and that a new bluez loop finds the adapter in the end; strong fairness of the
turn that sends says that `msgsnd` does not fail for ever and that
`mtx_for_bt_sw`, held for two assignments, is not taken at every single turn.
Nobody has to press the key. `NoStarvation` needs no fairness: it says that a
sensor that a search could have chosen again and again is chosen again and
again.

What the passing runs do not cover.

- Timeouts *and* two sensors: the late `Connected = true` of an abandoned attempt
  can enter a slot that another device has by then. So the slot properties and
  `ImplementsSlotTable` are stated for calls that do not time out. Two sensors
  with every fault are beyond five minutes of TLC (`FlagOwned` and `TypeOK` are
  proved for that case).
- Errors: after a Connect error a slot stays armed for its proxy
  (`bt_connection_new.c:1308`), so that `SlotsDistinct`, too, is stated without
  errors.
- A pass that starts while a link is going down (`early`). TLC shows what happens
  then: the first half of `Connected = false` empties the slot, the pass takes it
  and arms it for another sensor, the second half clears `pt_cond_var[i].proxy`
  (2715), the `Connected = true` of that sensor finds no slot armed for it, the
  disconnection destroys the condition variable, and the reply to Connect leaves
  at 1230-1241: the sensor is linked and in no slot. `LinkIsTracked`,
  `SlotIsLinked`, `SlotsDistinct` and `MacMatchesSlot` all fail. They hold for a
  pass that starts anywhere else in the clean-up of a disconnection.
- A bluez thread that stops half way through the Disconnect reply for 600 ms
  (`slow`): `SlotsDistinct` fails.
- Restarts of D-Bus that overlap a switch. `RolesAgree` sets them aside: "Msg drop
  due to restarting dbus" is only logged, and a press of the key in the 10 s wait
  of a restart leaves the BLE process in the server role and the general process
  in the client role. `BleComesHome` shows that the silence of the event loop ends
  that; without that watchdog (its mutant) it would not end. The opposite case
  does not end: `bt_role` is set (1077), the restart resets it and tells the
  general process, and only then does BT_EVENT_SW_TO_SERVER (1081) go out. Now the
  general process is a server and the BLE process a client, which ignores each
  CMD_SW_TO_CLIENT (909-913) until D-Bus is restarted again. `GeneralComesHome`
  names this one exception (`LeftServer`): TLC finds the behaviour when it is taken
  out, and no other way to stay away.
- A sensor whose CMD_DISCONNECTION `msgsnd` has refused keeps its slot in the BLE
  process until its link is lost; nobody sends the command again. `HandedBack`
  excuses exactly that one. Connections that never come on record (`RxSkip`,
  `BleConnectUnseen`) are not promised anything by the code.
- A sensor that BlueZ connects after the deciding pass has counted the
  connections is cut by the exit of the process; `CutsOnlyNew` is about the others.

## 4. Where the code disagrees with its own comments or documents

Each of these runs checks one property that a comment or a document states, and
TLC finds a behaviour of the code that violates it.

| run | property | what happens |
|---|---|---|
| `ConCtrl_oneop` | `OneOpOngoing` | the pass lowers `is_con_in_process` a second time after its wait (the reply had done so) and takes the flag from a disconnection that raised it in between; the next pass runs beside it |
| `ConCtrl_others` | `OthersLeftAlone` | a command for a sensor whose slot another one has by now is skipped, but the exit path removes the device found in the slot |
| `SensorThreads_one` | `OneThreadPerIndex` | `BT_EVENT_DISCONNECTION` forgets the thread that the comment above it wants kept, and a reconnection starts a second one |
| `FrotoReply_whole` | `WaveformWhole` | a block whose CRC fails is logged and passed over; the file reaches the database one block short |
| `RoleSwitch_bluez` | `BluezBack` | D-Bus is lost again within 10 s of a restart; the main thread clears the request of the new loss with its own, and the bluez loop stays down |

`ConCtrl_slots` shows that `SlotsDistinct` does hold without the faults it leaves
out: the guard `InSomeSlot` of the pass is what keeps it.

## 5. What is proved

`ConCtrlProofs`, for any number of slots, sensors and proxies, any faults and
any bounds:

- `TypeCorrect`: `Spec => []TypeOK`. Besides types, `TypeOK` says that no index
  leaves the slot table, that the locals of a thread are set exactly while it is
  at places that use them, and that a callback in progress has a proxy and, for
  a Connect reply, a slot.
- `FlagNeverLeftUp`: `Spec => []FlagOwned`. `is_con_in_process` is up only while
  a pass or a command is at a place from which it will lower the flag. This is
  what keeps the main loop, which polls the flag without a limit, from being
  stuck.

Assumptions: `N` is a positive natural number; `MacOf` maps proxies to
addresses; the white list is a sequence of addresses; the null values are not
proxies or addresses; `CountLimit` is below `CountMod`; the bounds are natural
numbers.

Argument. `TypeOK` is inductive. It is a conjunction of parts, each about a group
of variables; there is one lemma per action (or per part that an action touches),
and the parts that an action leaves alone are handled once for all. The facts
about arithmetic that it needs (a remainder is a slot, the least element of a
nonempty set of slots is in it, `MoveToEnd` of a sequence over a set is one) are
lemmas at the head of the module. `FlagOwned` is inductive together with
`TypeOK`, which is needed for the places the program counters can be at: whoever
raises the flag is then in `CHasFlag` or `DHasFlag`, and leaves that region only
by a step that lowers it. It holds although the flag may be lowered too early
(section 4): lowering it twice is harmless for this property, and fatal for
`OneOpOngoing`.

`RoleSwitchProofs`, for every value of the code's limits, any number of key
presses, phones and losses of D-Bus, and any combination of faults:

- `TypeCorrect`: `Spec => []TypeOK`. Besides types, no queue grows past
  `MaxQueue`, the silent turns never reach `QuietLimit`, and a gateway that is up
  has restarted without an adapter fewer than `EmptyLimit` times.
- `NoSwitchLeftOpen`: `Spec => []FlagMeansSwitch`. `bt_sw_in_progress` is up only
  while the main loop is inside a switch, so that no later switch is refused as
  ongoing when none is.
- `ProcessesAgree`: `Spec => []RolesAgree`. Unless the latest restart of D-Bus and a
  switch overlapped, the two processes have the same role whenever no message is on
  its way. A restart that meets no switch so repairs what an earlier one left.

Assumptions: the limits are natural numbers, those of the queues, of the silent
turns and of the restarts positive; the faults are among the five named ones.

Argument. `TypeOK` is inductive as the conjunction of six parts, each about the
variables of one thread or of the queues; a lemma per part shows that every
action keeps it. The bound on the restarts needs `Up => empty < EmptyLimit`: the
turn that reaches the limit reboots the gateway and so ends `Up`. `FlagMeansSwitch`
is inductive by itself: the cases of the main loop raise the flag as they enter a
switch and lower it on each way out, a restart resets it, and no other thread
writes it.

`RolesAgree` says nothing while a message is under way, so it is not inductive.
Its invariant is `RoleInv`, for a gateway that is up and whose latest restart did
not overlap a switch: a restart finds the main loop at rest and keeps the
client role once it has reset it, and outside a restart the events queued for the
general process *lead* it from its role to the one the BLE process has announced
(`Leads`: that of the last switch in the queue or, without one, its present role).

`ConCtrlSlotProofs`, for any number of slots, sensors and proxies and any bounds,
as long as `Faults \subseteq {"loss"}`:

- `OneSlotPerDevice` (`SlotsDistinct`), `AddressOfSlot` (`MacMatchesSlot`),
  `NoPhantom` (`SlotIsLinked`), `NoOrphan` (`LinkIsTracked`);
- `SlotTableImplemented`: `Spec => ImplementsSlotTable`, the refinement.

The hypothesis is the one of the run and is needed: after an error or a timeout,
with a pass that starts while a link is going down (`early`) and with a bluez
thread that stops for 600 ms (`slow`) the properties fail (section 3). Links may be
lost and commands to disconnect may come at any time, every thread may step between
the halves of a callback, and a pass may start while a disconnection cleans up.

Argument. `SlotInv` has 17 parts. The central ones tie together the three tables
that the code keeps per slot (`connected_proxy`, `pt_cond_var`,
`hld_connected_proxy`) and the links that BlueZ has: a device in a slot is in all
three tables and is linked, what a table remembers beyond that is a callback
between its two halves or a Connect without a reply, and no two slots hold the
same device in `hld_connected_proxy`, the table that forgets a device last. What
makes this hard is that `OneOpOngoing` is false: a disconnection and a pass can work on
the same slot at once. Two cases have to be told apart: `Stolen`, where the
disconnection was woken by the reply that the pass waits for, and `Stranded`,
where the pass waits on a condition variable that the disconnection has destroyed
and nothing but its timeout would end the wait. In the second one the facts about
Disconnect replies are lost, and the others turn out not to need them. So the
double use of the flag costs a pass, but never the agreement of slots and links.
The refinement then needs only the types and these facts: each action changes one
slot, takes an empty one for a device that is in no other, or empties one.

`ProxyRecoveryProofs`, for any times, any number of updates that the detector asks
for, any sensors and slots:

- `TypeCorrect` (`TypeOK`);
- the action properties `SleepingSensorsIgnored` (`SleepingIgnored`),
  `EvidenceNotReused` (`EvidenceIsNew`) and `OldConnectionsKept` (`CutsOnlyNew`).

Assumptions: the times, the number of updates and of slots are positive.
Argument. The step that exits only tests `required`; what the properties are
about happened before. `ExitInv` carries it: the stamp, where there is one, is the
silence of the sensors; no more is counted than was heard since a sensor was
selected; and `required` is up only from the pass that raised it to its test, with
none of the connections left that the pass counted, the silence inside the window
and all updates new (`RaisedForCause`). What the bluez thread connects in between
is not among them.

`SensorThreadsProofs`, for any number of indices, addresses, threads, entries and
messages:

- `TypeCorrect` (`TypeOK`);
- `EntriesOwned` (`ParaOwned`): `OwnInv` says what the receiving thread holds
  while it creates a thread and what a new thread holds until it has copied its
  parameters, that no two of them hold the same entry and that every used entry is
  held. The count of owners that `ParaOwned` states follows from it.
- `RecordedThreadsLive` (`RecordedThreadLives`) and `ConnectionsServed`
  (`ConnectionServed`), which are inductive together, relative to `OwnInv`: that
  the thread which is put on record works for the index it is recorded for depends
  on its entry not having been given to another one in between.

Assumptions: sizes are positive, the null values are not addresses or threads.

`FrotoReplyProofs`, for any number of waveforms, blocks and retries, any limit on
the registry and every combination of faults:

- `TypeCorrect` (`TypeOK`) and `EntryNotFreed` (`EntryKept`), inductive together
  with how far the numbers have come and what the buffer holds (`BaseInv`);
- `NumbersDistinct`: no two entries of the registry have the same number.
  `l_queue_foreach_remove` in `unregisterReplyAck` would take out all entries that
  match; with this theorem it takes out one, which is how `Unregister` models it;
- `WaveformsInOrder` (`WaveformOrdered`): `AnswerInv` says which request the
  messages under way, in the entries and in the buffer answer (an entry may also
  get the reply to the next request, when the sensor acknowledges two at once);
  `FileInv` says that the file begun is the start of an ordered waveform of the
  present request, with blocks below the counter;
- `SuccessHasReply` (`ReplyMeansMessage`): `ShortInv` says that while the short
  data is asked for the registry has one entry, the request has at most one reply,
  under way or queued, and neither the flag nor a signal is ahead of it.

Assumptions: the counts are natural numbers, a waveform has at least one block, and
the faults are among the five named ones.

Together: every invariant, every action property and the refinement of the passing
runs is stated by a theorem. `SlotInv` and `RoleInv` were checked with TLC on the
instances of the runs first. Model-checked only: liveness
(`CommandServed`, `PassEnds`, `NoStarvation`, `HandedBack`, `SessionEnds`,
`BleComesHome`, `GeneralComesHome`), which is out of the prover's reach. The
properties of section 4 are refuted, so that there is nothing to prove.

## 6. What the models leave out

In `ConCtrl`: a Disconnect with a null id when the role is switched; the D-Bus
restart and the server role (`RoleSwitch`); the flags and queues of services and
characteristics; `con_status_bit` and `g_fail_con_count`, which only reach the
log; setting of the wall clock (any unused element may expire at any search,
which covers it); an address whose prefix is not SKF's (it takes the same way out
as one that cannot be read, fault `call`); a failing `app_com_init_pthread_cond_var_ctr`; the `exit(EXIT_FAILURE)`
of `app_com_deinit_pthread_cond_var_ctr` when the mutex stays busy for 20 s.
Mutexes are not variables: what is done under one is one step. `ConnectedTrue` is
one step although the code has three locked regions in it, with nothing but log
output between them. The RemoveDevice that `Connected = false`
asks for, on a device whose link is gone, ends with the device out of `asked`.

In `ProxyRecovery`: what a pass does after it has selected a sensor, and a late
connection that displaces another one when every slot is taken (`ConCtrl`).

In `SensorThreads`: the server role, running out of memory or threads (also a
failing `pthread_create`, 4817-4821), the bytewise write of an address,
`fg_is_services_resolved`, which no sensor thread reads, and full message queues.

In `FrotoReply`: framing and encoding of messages, `checkSeqNo` (no caller sets
it), the message type (all are NORMAL_MESSAGE), a second thread of the same
sensor, the condition variable after `collectData` has returned (memory of
whatever runs next), `exchangeGenInfo`, `updateConfig` and `fuota`, which use the
same routines. The sensor is assumed to answer a short request at most once: the
branch for several queued messages (1239-1243), which reports success with an empty
buffer, is not met. A waveform has at least one block (`total_block = 0` is left
out).

In `RoleSwitch`: sensors and scanning (`ConCtrl`), the white list, LEDs and
transmit power, BT_DBUS_IS_READY and BT_DBUS_IS_NOT_READY, which carry no role,
other traffic on the queues. The phone raises one event at a time.

## 7. Hazards

`PROJECT.json` lists, at its line, what a test of this code would hardly reach,
with the properties that would notice it. The ones without a property have a
note: what they need is outside the models (a second thread of one sensor, a
condition variable that is gone), or needs both message
queues full at once.

## 8. Plan

Done: `ConCtrl` with `SlotTable`, `ProxyRecovery`, `SensorThreads`, `FrotoReply`,
`RoleSwitch`; theorems for every safety property of their runs.

Theorems that come next: for `ConCtrl`, what is left of the agreement of slots and
links under errors and failing calls (a slot that stays armed for its proxy), and
when a pass starts while a link is going down; for `RoleSwitch`, what a restart that overlaps a switch can
leave behind; for `SensorThreads`, that a second thread of an index is one that no
record names.

Not modelled, and why:

- GATT: the characteristic queue and acquired descriptors follow the order of
  D-Bus signals; worth a module of its own, after the proofs;
- a composition of `ConCtrl`, `SensorThreads` and `RoleSwitch` over queues at
  their limits: the product is beyond TLC; each is checked against what the
  others promise (`SlotTable`, the events of `SensorThreads`);
- the waiting queue, timers and scheduler, the messages to sql_op and mqtt_op,
  HCI events of btmon: blocking queues and request/answer over System V queues,
  without protocols of their own;
- framing and encoding (nanopb), the Modbus register map, JSON, DWT and Huffman:
  sequential conversions of data, better tested than model-checked;
- BlueZ, ELL, libmodbus, nanopb, cJSON, Paho, SQLite and the radio firmware are
  third-party.
