------------------------- MODULE RoleSwitchProofs --------------------------
(***************************************************************************)
(* Proofs about module RoleSwitch, for every value of the code's limits,   *)
(* any number of key presses, phones and losses of D-Bus and every         *)
(* combination of faults: its type invariant, that bt_sw_in_progress of    *)
(* the BLE process is never left up, and that the two processes agree on   *)
(* the role whenever nothing is on its way between them.                   *)
(***************************************************************************)
EXTENDS RoleSwitch, TLAPS

-----------------------------------------------------------------------------
(* Lemmas about the limits and the queues                                  *)

\* The limits one by one.
LEMMA Limits ==
  /\ MaxBroadcast \in Nat /\ MaxBroadcast > 0 /\ QuietLimit \in Nat
  /\ QuietLimit > 0 /\ EmptyLimit \in Nat /\ EmptyLimit > 0
  /\ MaxQueue \in Nat /\ MaxQueue > 0 /\ MissLimit \in Nat
  /\ MaxKeys \in Nat /\ MaxDrops \in Nat /\ MaxPhones \in Nat
<1>1. /\ MaxBroadcast \in Nat \ {0} /\ QuietLimit \in Nat \ {0}
      /\ EmptyLimit \in Nat \ {0} /\ MaxQueue \in Nat \ {0}
  BY LimitsAssumption
<1>2. /\ MissLimit \in Nat /\ MaxKeys \in Nat /\ MaxDrops \in Nat
      /\ MaxPhones \in Nat
  BY LimitsAssumption
<1> QED BY <1>1, <1>2

\* Adding to a queue keeps its type.
LEMMA AppendType ==
  ASSUME NEW S, NEW q \in Seq(S), NEW e \in S
  PROVE  Append(q, e) \in Seq(S) /\ Len(Append(q, e)) = Len(q) + 1
  OBVIOUS

\* So does taking from it.
LEMMA TailType ==
  ASSUME NEW S, NEW q \in Seq(S), q # <<>>
  PROVE  /\ Tail(q) \in Seq(S) /\ Len(Tail(q)) <= Len(q)
         /\ Len(q) \in Nat /\ Len(Tail(q)) \in Nat
  OBVIOUS

\* notifyProcessGeneralBlock never lets the queue grow past its limit.
LEMMA NotifyType ==
  ASSUME QueueType, NEW e \in Events, Notify(e)
  PROVE  from_ble' \in Seq(Events) /\ Len(from_ble') <= MaxQueue
<1>1. /\ from_ble \in Seq(Events) /\ Len(from_ble) < MaxQueue
      /\ from_ble' = Append(from_ble, e)
  BY DEF QueueType, Notify
<1>2. Len(from_ble) \in Nat /\ MaxQueue \in Nat
  BY <1>1, Limits
<1> QED BY <1>1, <1>2, AppendType

\* The receiving thread and the main loop take from their queue.
LEMMA ReceiveQueue ==
  ASSUME QueueType, from_ble # <<>>, from_ble' = Tail(from_ble)
  PROVE  from_ble' \in Seq(Events) /\ Len(from_ble') <= MaxQueue
<1>1. /\ Tail(from_ble) \in Seq(Events) /\ Len(Tail(from_ble)) <= Len(from_ble)
      /\ Len(from_ble) \in Nat /\ Len(Tail(from_ble)) \in Nat
  BY TailType DEF QueueType
<1> QED BY <1>1, Limits DEF QueueType

-----------------------------------------------------------------------------
(* Init                                                                    *)

\* Both processes start in the client role, with nothing counted or queued.
LEMMA InitType == Init => TypeOK
<1> SUFFICES ASSUME Init PROVE TypeOK
  OBVIOUS
<1>1. /\ key_pressed_fg \in BOOLEAN /\ g_sw \in BOOLEAN /\ g_con \in BOOLEAN
      /\ sw \in BOOLEAN /\ adapter \in BOOLEAN
      /\ restart_dbus_required \in BOOLEAN /\ adv \in BOOLEAN
      /\ phone \in BOOLEAN /\ overlap \in BOOLEAN
  BY Zenon DEF Init
<1>2. /\ countdown_s \in 0..MaxBroadcast /\ state \in {0, 1, 2, 3, 99}
      /\ cnt \in 0..QuietLimit - 1 /\ empty \in 0..EmptyLimit
      /\ empty < EmptyLimit /\ misses \in 0..MissLimit + 1
      /\ keys \in 0..MaxKeys /\ drops \in 0..MaxDrops
      /\ phones \in 0..MaxPhones
  BY Limits DEF Init
<1>3. QueueType
  BY Limits DEF Init, QueueType
<1>4. /\ g_role \in Role /\ bt_role \in Role /\ cmd = "recv" /\ events = <<>>
      /\ main = "loop" /\ bluez = "up" /\ power = "up"
  BY Zenon DEF Init, Role
<1>5. IoType /\ GeneralType /\ BleType /\ ThreadType /\ EnvType
  BY <1>1, <1>2, <1>4, Zenon DEF IoType, GeneralType, BleType, ThreadType,
     EnvType
<1> QED BY <1>3, <1>5 DEF TypeOK

-----------------------------------------------------------------------------
(* Next, one part of TypeOK at a time                                      *)

\* thandler_io_state keeps countdown_s within MAX_BT_BROADCAST and state within
\* the cases of its switch.
LEMMA IoTypeKept ==
  ASSUME TypeOK, Next
  PROVE  IoType'
<1>1. CASE IoTurn
  <2>1. key_pressed_fg' \in BOOLEAN
    BY <1>1, Zenon DEF IoTurn
  <2>2. countdown_s' \in 0..MaxBroadcast /\ state' \in {0, 1, 2, 3, 99}
    BY <1>1, Limits DEF TypeOK, IoType, IoTurn, ToServer, WaitForPhone,
       ServePhone, ToClient, GoHome, Stay, Command, Left, Turn
  <2> QED BY <2>1, <2>2, Zenon DEF IoType
<1>2. CASE IoLocked
  <2>1. key_pressed_fg' \in BOOLEAN
    BY <1>2, Zenon DEF IoLocked
  <2>2. countdown_s' \in 0..MaxBroadcast /\ state' \in {0, 1, 2, 3, 99}
    BY <1>2, Limits DEF TypeOK, IoType, IoLocked, Left, Turn
  <2> QED BY <2>1, <2>2, Zenon DEF IoType
<1>3. CASE PressKey
  BY <1>3 DEF TypeOK, IoType, PressKey, io
<1>4. CASE Receive \/ TakeToServer \/ Register \/ BecomeServer \/ TellServer
         \/ TakeToClient \/ Unregister \/ TellClient \/ BecomeClient \/
         PhoneChanges \/ Report \/ Silence \/ DropDBus \/ LoopEnds \/
         ProxyAdded \/ CheckAdapter \/ StartRestart \/ LoopStuck \/ Rebuild \/
         Waited \/ ClearRequest \/ SyncRole
  BY <1>4 DEF TypeOK, IoType, Receive, TakeToServer, Register, BecomeServer,
     TellServer, TakeToClient, Unregister, TellClient, BecomeClient,
     PhoneChanges, Report, Silence, DropDBus, LoopEnds, ProxyAdded,
     CheckAdapter, StartRestart, LoopStuck, Rebuild, Waited, ClearRequest,
     SyncRole, io
<1> QED BY <1>1, <1>2, <1>3, <1>4 DEF Next, MainLoop, Restart

\* Role and flags of the general process.
LEMMA GeneralTypeKept ==
  ASSUME TypeOK, Next
  PROVE  GeneralType'
<1>1. CASE IoTurn
  BY <1>1 DEF TypeOK, GeneralType, Role, IoTurn, ToServer, WaitForPhone,
     ServePhone, ToClient, GoHome, Stay, Command, Left, Turn, general
<1>2. CASE Receive
  BY <1>2 DEF TypeOK, GeneralType, Role, Receive, general
<1>3. CASE IoLocked \/ PressKey \/ TakeToServer \/ Register \/ BecomeServer \/
         TellServer \/ TakeToClient \/ Unregister \/ TellClient \/
         BecomeClient \/ PhoneChanges \/ Report \/ Silence \/ DropDBus \/
         LoopEnds \/ ProxyAdded \/ CheckAdapter \/ StartRestart \/ LoopStuck
         \/ Rebuild \/ Waited \/ ClearRequest \/ SyncRole
  BY <1>3 DEF TypeOK, GeneralType, IoLocked, PressKey, TakeToServer, Register,
     BecomeServer, TellServer, TakeToClient, Unregister, TellClient,
     BecomeClient, PhoneChanges, Report, Silence, DropDBus, LoopEnds,
     ProxyAdded, CheckAdapter, StartRestart, LoopStuck, Rebuild, Waited,
     ClearRequest, SyncRole, general
<1> QED BY <1>1, <1>2, <1>3 DEF Next, MainLoop, Restart

\* The state that the main loop and the event loop share; the count of silent
\* turns never reaches its limit.
LEMMA BleTypeKept ==
  ASSUME TypeOK, Next
  PROVE  BleType'
<1>1. CASE TakeToServer
  BY <1>1 DEF TypeOK, BleType, Role, TakeToServer, Take, Begin, Ignore, role,
     loop
<1>2. CASE Register
  BY <1>2 DEF TypeOK, BleType, Role, Register, Registered, NotRegistered,
     Answered, role, loop
<1>3. CASE BecomeServer
  BY <1>3 DEF TypeOK, BleType, Role, BecomeServer, role, loop
<1>4. CASE TellServer
  BY <1>4 DEF TypeOK, BleType, Role, TellServer, role, loop
<1>5. CASE TakeToClient
  BY <1>5 DEF TypeOK, BleType, Role, TakeToClient, Take, Begin, Ignore, role,
     loop
<1>6. CASE Unregister
  BY <1>6 DEF TypeOK, BleType, Role, Unregister, Answered, role, loop
<1>7. CASE TellClient
  BY <1>7 DEF TypeOK, BleType, Role, TellClient, role, loop
<1>8. CASE BecomeClient
  BY <1>8 DEF TypeOK, BleType, Role, BecomeClient, role, loop
<1>9. CASE PhoneChanges
  BY <1>9 DEF TypeOK, BleType, Role, PhoneChanges, role, loop
<1>10. CASE Report
  BY <1>10 DEF TypeOK, BleType, Role, Report, role, loop
<1>11. CASE Silence
  BY <1>11, Limits DEF TypeOK, BleType, Role, Silence, role, loop
<1>12. CASE ProxyAdded
  BY <1>12 DEF TypeOK, BleType, Role, ProxyAdded, role, loop
<1>13. CASE Rebuild
  BY <1>13 DEF TypeOK, BleType, Role, Rebuild, role, loop
<1>14. CASE IoTurn \/ IoLocked \/ PressKey \/ Receive \/ DropDBus \/ LoopEnds
         \/ CheckAdapter \/ StartRestart \/ LoopStuck \/ Waited \/
         ClearRequest \/ SyncRole
  BY <1>14 DEF TypeOK, BleType, IoTurn, IoLocked, PressKey, Receive, DropDBus,
     LoopEnds, CheckAdapter, StartRestart, LoopStuck, Waited, ClearRequest,
     SyncRole, role, loop
<1> QED BY <1>1, <1>2, <1>3, <1>4, <1>5, <1>6, <1>7, <1>8, <1>9, <1>10, <1>11,
     <1>12, <1>13, <1>14 DEF Next, MainLoop, Restart

\* The main thread: _empty_service_cnt reaches the limit only in the step that
\* reboots the gateway.
LEMMA ThreadTypeKept ==
  ASSUME TypeOK, Next
  PROVE  ThreadType'
<1>1. CASE TellClient
  BY <1>1 DEF TypeOK, ThreadType, Up, TellClient, thread
<1>2. CASE Silence
  BY <1>2 DEF TypeOK, ThreadType, Up, Silence, thread
<1>3. CASE DropDBus
  BY <1>3 DEF TypeOK, ThreadType, Up, DropDBus, Quit, thread
<1>4. CASE LoopEnds
  BY <1>4 DEF TypeOK, ThreadType, Up, LoopEnds, thread
<1>5. CASE CheckAdapter
  BY <1>5, Limits DEF TypeOK, ThreadType, Up, CheckAdapter, thread
<1>6. CASE StartRestart
  BY <1>6 DEF TypeOK, ThreadType, Up, StartRestart, Quit, thread
<1>7. CASE LoopStuck
  BY <1>7 DEF TypeOK, ThreadType, Up, LoopStuck, thread
<1>8. CASE Rebuild
  BY <1>8 DEF TypeOK, ThreadType, Up, Rebuild, thread
<1>9. CASE Waited
  BY <1>9, Limits DEF TypeOK, ThreadType, Up, Waited, thread
<1>10. CASE ClearRequest
  BY <1>10 DEF TypeOK, ThreadType, Up, ClearRequest, thread
<1>11. CASE SyncRole
  BY <1>11, Limits DEF TypeOK, ThreadType, Up, SyncRole, thread
<1>12. CASE IoTurn \/ IoLocked \/ PressKey \/ Receive \/ TakeToServer \/
         Register \/ BecomeServer \/ TellServer \/ TakeToClient \/ Unregister
         \/ BecomeClient \/ PhoneChanges \/ Report \/ ProxyAdded
  BY <1>12 DEF TypeOK, ThreadType, Up, IoTurn, IoLocked, PressKey, Receive,
     TakeToServer, Register, BecomeServer, TellServer, TakeToClient,
     Unregister, BecomeClient, PhoneChanges, Report, ProxyAdded, thread
<1> QED BY <1>1, <1>2, <1>3, <1>4, <1>5, <1>6, <1>7, <1>8, <1>9, <1>10, <1>11,
     <1>12 DEF Next, MainLoop, Restart

\* BlueZ, the phone and the history.
LEMMA EnvTypeKept ==
  ASSUME TypeOK, Next
  PROVE  EnvType'
<1>1. CASE PressKey
  BY <1>1, Limits DEF TypeOK, EnvType, PressKey, radio, history
<1>2. CASE TakeToServer
  BY <1>2 DEF TypeOK, EnvType, Restarting, TakeToServer, Take, Begin, Ignore,
     radio, history
<1>3. CASE TakeToClient
  BY <1>3 DEF TypeOK, EnvType, Restarting, TakeToClient, Take, Begin, Ignore,
     radio, history
<1>4. CASE Register
  BY <1>4 DEF TypeOK, EnvType, Register, Registered, NotRegistered, Answered,
     radio, history
<1>5. CASE Unregister
  BY <1>5 DEF TypeOK, EnvType, Unregister, Answered, radio, history
<1>6. CASE PhoneChanges
  BY <1>6, Limits DEF TypeOK, EnvType, PhoneChanges, radio, history
<1>7. CASE DropDBus
  <2>1. adv' \in BOOLEAN /\ phone' \in BOOLEAN
    BY <1>7, Zenon DEF DropDBus, Quit
  <2>2. drops' \in 0..MaxDrops
    BY <1>7, Limits DEF TypeOK, EnvType, DropDBus
  <2> QED BY <1>7, <2>1, <2>2 DEF TypeOK, EnvType, DropDBus
<1>8. CASE StartRestart
  BY <1>8 DEF TypeOK, EnvType, Restarting, StartRestart, Quit, radio, history
<1>9. CASE IoTurn \/ IoLocked \/ Receive \/ BecomeServer \/ TellServer \/
         TellClient \/ BecomeClient \/ Report \/ Silence \/ LoopEnds \/
         ProxyAdded \/ CheckAdapter \/ LoopStuck \/ Rebuild \/ Waited \/
         ClearRequest \/ SyncRole
  BY <1>9 DEF TypeOK, EnvType, IoTurn, IoLocked, Receive, BecomeServer,
     TellServer, TellClient, BecomeClient, Report, Silence, LoopEnds,
     ProxyAdded, CheckAdapter, LoopStuck, Rebuild, Waited, ClearRequest,
     SyncRole, radio, history
<1> QED BY <1>1, <1>2, <1>3, <1>4, <1>5, <1>6, <1>7, <1>8, <1>9 DEF Next,
     MainLoop, Restart

\* The queues.
LEMMA QueueTypeKept ==
  ASSUME TypeOK, Next
  PROVE  QueueType'
<1> QueueType
  BY DEF TypeOK
<1>1. CASE IoTurn
  <2>1. from_ble' = from_ble
    BY <1>1 DEF IoTurn
  <2>2. to_ble' = to_ble \/ \E c \in Commands : to_ble' = Append(to_ble, c)
    BY <1>1 DEF IoTurn, ToServer, WaitForPhone, ServePhone, ToClient, GoHome,
       Stay, Command, Commands
  <2> QED BY <2>1, <2>2, AppendType DEF QueueType
<1>2. CASE Receive
  <2>1. to_ble' = to_ble
    BY <1>2 DEF Receive
  <2> QED BY <1>2, <2>1, ReceiveQueue DEF Receive, QueueType
<1>3. CASE TakeToServer \/ TakeToClient
  <2>1. to_ble # <<>> /\ to_ble' = Tail(to_ble) /\ from_ble' = from_ble
    BY <1>3 DEF TakeToServer, TakeToClient, Take
  <2> QED BY <2>1, TailType DEF QueueType
<1>4. CASE TellServer \/ TellClient \/ Report \/ Waited \/ SyncRole
  <2>1. to_ble' = to_ble
    BY <1>4 DEF TellServer, TellClient, Report, Waited, SyncRole
  <2>2. from_ble' = from_ble \/ \E e \in Events : Notify(e)
    <3>1. CASE Report
      <4>1. events # <<>> /\ events \in {<<>>, <<"CONNECTION">>, <<"DISCONNECTION">>}
        BY <3>1 DEF Report, TypeOK, BleType
      <4>2. Head(events) \in Events
        BY <4>1 DEF Events
      <4> QED BY <3>1, <4>2 DEF Report
    <3>2. CASE TellServer \/ TellClient \/ Waited \/ SyncRole
      BY <3>2 DEF TellServer, TellClient, Waited, SyncRole, Events, Commands
    <3> QED BY <1>4, <3>1, <3>2
  <2> QED BY <2>1, <2>2, NotifyType DEF QueueType
<1>5. CASE IoLocked \/ PressKey \/ Register \/ BecomeServer \/ Unregister \/
         BecomeClient \/ PhoneChanges \/ Silence \/ DropDBus \/ LoopEnds \/
         ProxyAdded \/ CheckAdapter \/ StartRestart \/ LoopStuck \/ Rebuild \/
         ClearRequest
  BY <1>5 DEF QueueType, queues, IoLocked, PressKey, Register, BecomeServer,
     Unregister, BecomeClient, PhoneChanges, Silence, DropDBus, LoopEnds,
     ProxyAdded, CheckAdapter, StartRestart, LoopStuck, Rebuild, ClearRequest
<1> QED BY <1>1, <1>2, <1>3, <1>4, <1>5 DEF Next, MainLoop, Restart

\* A step of any thread, or none.
LEMMA NextType == TypeOK /\ [Next]_vars => TypeOK'
<1>1. ASSUME TypeOK, Next
      PROVE  TypeOK'
  BY <1>1, IoTypeKept, GeneralTypeKept, QueueTypeKept, BleTypeKept,
     ThreadTypeKept, EnvTypeKept DEF TypeOK
<1>2. ASSUME TypeOK, UNCHANGED vars
      PROVE  TypeOK'
  BY <1>2 DEF TypeOK, IoType, GeneralType, QueueType, BleType, ThreadType,
     EnvType, Up, vars, io, general, queues, role, loop, thread, radio, history
<1> QED BY <1>1, <1>2

\* Whatever the limits, the inputs and the faults: every counter of the two
\* processes stays within the limit that the code compares it with, no message
\* is queued past the limit of the queue, and a gateway that is up has not used
\* up its restarts without an adapter.
THEOREM TypeCorrect == Spec => []TypeOK
<1>1. Init => TypeOK
  BY InitType
<1>2. TypeOK /\ [Next]_vars => TypeOK'
  BY NextType
<1> QED BY <1>1, <1>2, PTL DEF Spec

-----------------------------------------------------------------------------
(* bt_sw_in_progress                                                       *)

\* The main loop raises the flag only to execute a switch, and leaves the switch
\* only with the flag down.
LEMMA FlagMainLoop ==
  ASSUME FlagMeansSwitch, MainLoop
  PROVE  FlagMeansSwitch'
<1>1. CASE TakeToServer
  BY <1>1 DEF FlagMeansSwitch, Up, role, TakeToServer, Take, Begin, Ignore
<1>2. CASE Register
  BY <1>2 DEF FlagMeansSwitch, Up, role, Register, Registered, NotRegistered,
     Answered
<1>3. CASE BecomeServer
  BY <1>3 DEF FlagMeansSwitch, Up, role, BecomeServer
<1>4. CASE TellServer
  BY <1>4 DEF FlagMeansSwitch, Up, role, TellServer, Notify
<1>5. CASE TakeToClient
  BY <1>5 DEF FlagMeansSwitch, Up, role, TakeToClient, Take, Begin, Ignore
<1>6. CASE Unregister
  BY <1>6 DEF FlagMeansSwitch, Up, role, Unregister, Answered
<1>7. CASE TellClient
  BY <1>7 DEF FlagMeansSwitch, Up, role, TellClient, Notify
<1>8. CASE BecomeClient
  BY <1>8 DEF FlagMeansSwitch, Up, role, BecomeClient
<1> QED BY <1>1, <1>2, <1>3, <1>4, <1>5, <1>6, <1>7, <1>8 DEF MainLoop

\* A restart resets it; no other thread touches it.
LEMMA FlagOthers ==
  ASSUME FlagMeansSwitch, Next, ~MainLoop
  PROVE  FlagMeansSwitch'
<1>1. CASE Rebuild
  BY <1>1 DEF Rebuild, FlagMeansSwitch, Up, role
<1>2. CASE IoTurn \/ IoLocked \/ PressKey \/ Receive \/ PhoneChanges \/ Report
         \/ Silence \/ DropDBus \/ LoopEnds \/ ProxyAdded \/ CheckAdapter \/
         StartRestart \/ LoopStuck \/ Waited \/ ClearRequest \/ SyncRole
  BY <1>2 DEF FlagMeansSwitch, Up, role, IoTurn, IoLocked, PressKey, Receive,
     PhoneChanges, Report, Silence, DropDBus, LoopEnds, ProxyAdded,
     CheckAdapter, StartRestart, LoopStuck, Waited, ClearRequest, SyncRole
<1> QED BY <1>1, <1>2 DEF Next, Restart

\* bt_sw_in_progress of the BLE process is never left up by a failed, late or
\* refused registration, an error on the way home or a restart of D-Bus in the
\* middle of a switch: no later switch is refused as ongoing when none is.
THEOREM NoSwitchLeftOpen == Spec => []FlagMeansSwitch
<1>1. Init => FlagMeansSwitch
  BY DEF Init, FlagMeansSwitch
<1>2. FlagMeansSwitch /\ [Next]_vars => FlagMeansSwitch'
  <2>1. ASSUME FlagMeansSwitch, Next
        PROVE  FlagMeansSwitch'
    BY <2>1, FlagMainLoop, FlagOthers
  <2>2. ASSUME FlagMeansSwitch, UNCHANGED vars
        PROVE  FlagMeansSwitch'
    BY <2>2 DEF FlagMeansSwitch, Up, vars, role
  <2> QED BY <2>1, <2>2
<1> QED BY <1>1, <1>2, PTL DEF Spec

-----------------------------------------------------------------------------
(* The role of the general process                                         *)

\* What an event that announces a switch makes of the general process's role.
RoleOf(e) == IF e = "SW_TO_SERVER" THEN "SERVER" ELSE "CLIENT"

\* The last switch of the queue q is its k-th event.
LastSwitch(q, k) ==
    q[k] \in Commands /\ \A j \in k + 1..Len(q) : q[j] \notin Commands

\* A general process with role g that takes all of q ends in role r.
Leads(q, g, r) ==
    /\ \A k \in 1..Len(q) : LastSwitch(q, k) => RoleOf(q[k]) = r
    /\ (\A k \in 1..Len(q) : q[k] \notin Commands) => g = r

\* An announced switch decides the role.
LEMMA LeadsSwitch ==
  ASSUME NEW q \in Seq(Events), NEW g, NEW e \in Commands
  PROVE  Leads(Append(q, e), g, RoleOf(e))
<1> DEFINE a == Append(q, e)
<1>1. /\ Len(q) \in Nat /\ Len(a) = Len(q) + 1 /\ a[Len(q) + 1] = e
      /\ Len(a) \in 1..Len(a)
  OBVIOUS
<1>2. ASSUME NEW k \in 1..Len(a), LastSwitch(a, k)
      PROVE  RoleOf(a[k]) = RoleOf(e)
  <2>1. CASE k = Len(a)
    BY <1>1, <2>1
  <2>2. CASE k # Len(a)
    <3>1. Len(a) \in k + 1..Len(a)
      BY <1>1, <2>2
    <3>2. a[Len(a)] \notin Commands
      BY <1>2, <3>1, Zenon DEF LastSwitch
    <3> QED BY <1>1, <3>2
  <2> QED BY <2>1, <2>2
<1>3. ~(\A k \in 1..Len(a) : a[k] \notin Commands)
  BY <1>1
<1> HIDE DEF a
<1>4. Leads(a, g, RoleOf(e))
  BY <1>2, <1>3 DEF Leads
<1> QED BY <1>4 DEF a

\* The phone's events leave it as it was.
LEMMA LeadsOther ==
  ASSUME NEW q \in Seq(Events), NEW g, NEW r, Leads(q, g, r),
         NEW e \in Events \ Commands
  PROVE  Leads(Append(q, e), g, r)
<1> DEFINE a == Append(q, e)
<1>1. /\ Len(q) \in Nat /\ Len(a) = Len(q) + 1 /\ a[Len(q) + 1] = e
      /\ \A k \in 1..Len(q) : a[k] = q[k] /\ k \in 1..Len(a)
  OBVIOUS
<1> HIDE DEF a
<1>2. ASSUME NEW k \in 1..Len(a), LastSwitch(a, k)
      PROVE  RoleOf(a[k]) = r
  <2>1. a[k] \in Commands /\ e \notin Commands
    BY <1>2 DEF LastSwitch
  <2>2. k # Len(q) + 1
    BY <1>1, <2>1
  <2>3. k \in 1..Len(q)
    BY <1>1, <2>2
  <2>4. ASSUME NEW j \in k + 1..Len(q)
        PROVE  q[j] \notin Commands
    <3>1. j \in k + 1..Len(a) /\ j \in 1..Len(q)
      BY <1>1, <2>3
    <3>2. a[j] \notin Commands
      BY <1>2, <3>1, Zenon DEF LastSwitch
    <3> QED BY <1>1, <3>1, <3>2
  <2>5. LastSwitch(q, k)
    BY <1>1, <2>1, <2>3, <2>4, Zenon DEF LastSwitch
  <2> QED BY <1>1, <2>3, <2>5, Zenon DEF Leads
<1>3. ASSUME \A k \in 1..Len(a) : a[k] \notin Commands
      PROVE  g = r
  <2>1. \A k \in 1..Len(q) : q[k] \notin Commands
    BY <1>1, <1>3, Zenon
  <2> QED BY <2>1, Zenon DEF Leads
<1>4. Leads(a, g, r)
  BY <1>2, <1>3, Zenon DEF Leads
<1> QED BY <1>4 DEF a

\* Taking an event brings the general process one step nearer.
LEMMA LeadsTail ==
  ASSUME NEW q \in Seq(Events), q # <<>>, NEW g, NEW r, Leads(q, g, r),
         NEW h, h = IF Head(q) \in Commands THEN RoleOf(Head(q)) ELSE g
  PROVE  Leads(Tail(q), h, r)
<1> DEFINE t == Tail(q)
<1>1. /\ Len(q) \in Nat /\ Len(t) \in Nat /\ Len(q) = Len(t) + 1
      /\ Head(q) = q[1]
      /\ \A k \in 1..Len(t) : t[k] = q[k + 1] /\ k + 1 \in 1..Len(q)
  OBVIOUS
<1> HIDE DEF t
<1>2. ASSUME NEW k \in 1..Len(t), LastSwitch(t, k)
      PROVE  RoleOf(t[k]) = r
  <2>1. ASSUME NEW j \in k + 1 + 1..Len(q)
        PROVE  q[j] \notin Commands
    <3>1. j - 1 \in k + 1..Len(t) /\ j - 1 \in 1..Len(t) /\ j - 1 + 1 = j
      BY <1>1
    <3>2. t[j - 1] \notin Commands
      BY <1>2, <3>1, Zenon DEF LastSwitch
    <3> QED BY <1>1, <3>1, <3>2
  <2>2. q[k + 1] \in Commands /\ k + 1 \in 1..Len(q) /\ t[k] = q[k + 1]
    BY <1>1, <1>2 DEF LastSwitch
  <2>3. LastSwitch(q, k + 1)
    BY <2>1, <2>2, Zenon DEF LastSwitch
  <2> QED BY <2>2, <2>3, Zenon DEF Leads
<1>3. ASSUME \A k \in 1..Len(t) : t[k] \notin Commands
      PROVE  h = r
  <2>1. ASSUME NEW j \in 1 + 1..Len(q)
        PROVE  q[j] \notin Commands
    <3>1. j - 1 \in 1..Len(t) /\ j - 1 + 1 = j
      BY <1>1
    <3> QED BY <1>1, <1>3, <3>1
  <2>2. 1 \in 1..Len(q)
    BY <1>1
  <2>3. CASE q[1] \in Commands
    <3>1. LastSwitch(q, 1)
      BY <2>1, <2>3, Zenon DEF LastSwitch
    <3> QED BY <1>1, <2>2, <2>3, <3>1 DEF Leads
  <2>4. CASE q[1] \notin Commands
    <3>1. ASSUME NEW k \in 1..Len(q)
          PROVE  q[k] \notin Commands
      <4>1. k = 1 \/ k \in 1 + 1..Len(q)
        BY <1>1
      <4> QED BY <2>1, <2>4, <4>1
    <3> QED BY <1>1, <2>4, <3>1 DEF Leads
  <2> QED BY <2>3, <2>4
<1>4. Leads(t, h, r)
  BY <1>2, <1>3, Zenon DEF Leads
<1> QED BY <1>4 DEF t

\* The role that the BLE process has last announced, or need not announce.
Told == IF cmd = "settle" THEN "CLIENT" ELSE bt_role

\* A restart finds the main loop at rest; once it has reset the role it stays
\* the client role; the server role is announced after it was taken, the client
\* role before; and outside a restart the queue ends in the role announced.
RestartAlone == Restarting => cmd = "recv"
RestartedHome == main \in {"wait", "again", "clear", "sync"} => bt_role = "CLIENT"
TellsServer == cmd = "tell" => bt_role = "SERVER"
QueueLeads == ~Restarting /\ cmd # "tell" => Leads(from_ble, g_role, Told)
RoleInv == Up /\ ~overlap =>
    RestartAlone /\ RestartedHome /\ TellsServer /\ QueueLeads

\* The receiving thread takes an event.
LEMMA RoleReceive ==
  ASSUME TypeOK, RoleInv, Receive
  PROVE  RoleInv'
<1> SUFFICES ASSUME Up', ~overlap'
             PROVE  (RestartAlone /\ RestartedHome /\ TellsServer /\ QueueLeads)'
  BY DEF RoleInv
<1>1. /\ Up /\ ~overlap /\ UNCHANGED <<cmd, main, bt_role>>
  BY DEF Receive, role, thread, history, Up
<1>2. RestartAlone /\ RestartedHome /\ TellsServer /\ QueueLeads
  BY <1>1 DEF RoleInv
<1>3. (RestartAlone /\ RestartedHome /\ TellsServer)'
  BY <1>1, <1>2 DEF RestartAlone, RestartedHome, TellsServer, Restarting
<1>4. ASSUME (~Restarting /\ cmd # "tell")'
      PROVE  Leads(from_ble', g_role', Told')
  <2>1. Leads(from_ble, g_role, Told) /\ Told' = Told
    BY <1>1, <1>2, <1>4 DEF QueueLeads, Restarting, Told
  <2>2. /\ from_ble \in Seq(Events) /\ from_ble # <<>>
        /\ from_ble' = Tail(from_ble)
        /\ g_role' = IF Head(from_ble) \in Commands THEN RoleOf(Head(from_ble))
                     ELSE g_role
    BY DEF TypeOK, QueueType, Receive, RoleOf, Commands
  <2> QED BY <2>1, <2>2, LeadsTail
<1> QED BY <1>3, <1>4 DEF QueueLeads

\* The main loop: it does not begin a switch in a restart, announces the server
\* role once it has it and the client role just before it takes it.
LEMMA RoleMainLoop ==
  ASSUME TypeOK, RoleInv, MainLoop
  PROVE  RoleInv'
<1> from_ble \in Seq(Events)
  BY DEF TypeOK, QueueType
<1>1. CASE TakeToServer
  BY <1>1 DEF RoleInv, RestartAlone, RestartedHome, TellsServer, QueueLeads,
     Told, Up, Restarting, TakeToServer, Take, Begin, Ignore, general, thread
<1>2. CASE Register
  BY <1>2 DEF RoleInv, RestartAlone, RestartedHome, TellsServer, QueueLeads,
     Told, Up, Restarting, Register, Registered, NotRegistered, general,
     queues, thread, history
<1>3. CASE BecomeServer
  BY <1>3 DEF RoleInv, RestartAlone, RestartedHome, TellsServer, QueueLeads,
     Told, Up, Restarting, BecomeServer, thread, history
<1>4. CASE TellServer
  <2>1. Leads(from_ble', g_role', "SERVER")
    BY <1>4, LeadsSwitch DEF TellServer, Notify, general, Commands, RoleOf
  <2> QED BY <1>4, <2>1 DEF RoleInv, RestartAlone, RestartedHome, TellsServer,
     QueueLeads, Told, Up, Restarting, TellServer, role, thread, history
<1>5. CASE TakeToClient
  BY <1>5 DEF RoleInv, RestartAlone, RestartedHome, TellsServer, QueueLeads,
     Told, Up, Restarting, TakeToClient, Take, Begin, Ignore, general, thread
<1>6. CASE Unregister
  BY <1>6 DEF RoleInv, RestartAlone, RestartedHome, TellsServer, QueueLeads,
     Told, Up, Restarting, Unregister, general, queues, thread, history
<1>7. CASE TellClient
  <2>1. ASSUME adapter
        PROVE  Leads(from_ble', g_role', "CLIENT")
    BY <1>7, <2>1, LeadsSwitch DEF TellClient, Notify, general, Commands, RoleOf
  <2> QED BY <1>7, <2>1 DEF RoleInv, RestartAlone, RestartedHome, TellsServer,
     QueueLeads, Told, Up, Restarting, TellClient, thread, history
<1>8. CASE BecomeClient
  BY <1>8 DEF RoleInv, RestartAlone, RestartedHome, TellsServer, QueueLeads,
     Told, Up, Restarting, BecomeClient, general, queues, thread, history
<1> QED BY <1>1, <1>2, <1>3, <1>4, <1>5, <1>6, <1>7, <1>8 DEF MainLoop

\* The event loop only queues events of the phone.
LEMMA RoleReport ==
  ASSUME TypeOK, RoleInv, Report
  PROVE  RoleInv'
<1>1. from_ble \in Seq(Events)
  BY DEF TypeOK, QueueType
<1>2. Head(events) \in Events \ Commands
  <2>1. events \in {<<"CONNECTION">>, <<"DISCONNECTION">>}
    BY DEF TypeOK, BleType, Report
  <2> QED BY <2>1 DEF Events, Commands
<1>3. ASSUME NEW r, Leads(from_ble, g_role, r)
      PROVE  Leads(from_ble', g_role', r)
  BY <1>1, <1>2, <1>3, LeadsOther DEF Report, Notify, general
<1> QED BY <1>3 DEF RoleInv, RestartAlone, RestartedHome, TellsServer,
     QueueLeads, Told, Up, Restarting, Report, role, thread, history

\* A restart sets the client role and announces it as its last step.
LEMMA RoleRestart ==
  ASSUME TypeOK, RoleInv, Restart
  PROVE  RoleInv'
<1>1. CASE StartRestart
  BY <1>1 DEF RoleInv, RestartAlone, RestartedHome, TellsServer, QueueLeads,
     TypeOK, EnvType, Up, Restarting, StartRestart, role
<1>2. CASE LoopStuck
  BY <1>2 DEF RoleInv, Up, LoopStuck
<1>3. CASE Rebuild
  BY <1>3 DEF RoleInv, RestartAlone, RestartedHome, TellsServer, QueueLeads,
     Up, Restarting, Rebuild, history
<1>4. CASE Waited
  BY <1>4 DEF RoleInv, RestartAlone, RestartedHome, TellsServer, QueueLeads,
     Up, Restarting, Waited, role, history
<1>5. CASE ClearRequest
  BY <1>5 DEF RoleInv, RestartAlone, RestartedHome, TellsServer, QueueLeads,
     Up, Restarting, ClearRequest, role, history
<1>6. CASE SyncRole
  <2>1. from_ble \in Seq(Events)
    BY DEF TypeOK, QueueType
  <2>2. Leads(from_ble', g_role', "CLIENT")
    BY <1>6, <2>1, LeadsSwitch DEF SyncRole, Notify, general, Commands, RoleOf
  <2> QED BY <1>6, <2>2 DEF RoleInv, RestartAlone, RestartedHome, TellsServer,
     QueueLeads, Told, Up, Restarting, SyncRole, role, history
<1> QED BY <1>1, <1>2, <1>3, <1>4, <1>5, <1>6 DEF Restart

\* No other step touches a role, the queue, the switch or the restart.
LEMMA RoleOthers ==
  ASSUME RoleInv, \/ IoTurn \/ IoLocked \/ PressKey \/ PhoneChanges \/ Silence
                  \/ DropDBus \/ LoopEnds \/ ProxyAdded \/ CheckAdapter
                  \/ UNCHANGED vars
  PROVE  RoleInv'
<1>1. /\ UNCHANGED <<cmd, main, bt_role, from_ble, g_role, overlap>>
      /\ Up' => Up
  BY DEF IoTurn, IoLocked, PressKey, PhoneChanges, Silence, DropDBus, LoopEnds,
     ProxyAdded, CheckAdapter, vars, role, thread, queues, general, history, Up
<1> QED BY <1>1 DEF RoleInv, RestartAlone, RestartedHome, TellsServer,
     QueueLeads, Told, Restarting

\* With nothing queued, the general process is where the queue leads.
LEMMA RoleInvAgree == RoleInv => RolesAgree
<1> SUFFICES ASSUME RoleInv, Up, Settled, ~overlap
             PROVE  g_role = bt_role
  BY DEF RolesAgree
<1>1. Leads(<<>>, g_role, bt_role)
  BY DEF RoleInv, QueueLeads, Told, Settled
<1>2. \A k \in 1..Len(<<>>) : <<>>[k] \notin Commands
  OBVIOUS
<1> QED BY <1>1, <1>2, Zenon DEF Leads

\* Unless the latest restart of D-Bus and a switch overlapped, the general
\* process and the BLE process agree on the role whenever no message is on its
\* way, also after an earlier restart that left them apart: whatever keys, phones, failed or late registrations, losses of D-Bus
\* and delays of either queue came before, and however many.
THEOREM ProcessesAgree == Spec => []RolesAgree
<1>1. Init => RoleInv
  BY DEF Init, RoleInv, RestartAlone, RestartedHome, TellsServer, QueueLeads,
     Told, Leads, Restarting
<1>2. TypeOK /\ RoleInv /\ [Next]_vars => RoleInv'
  BY RoleReceive, RoleMainLoop, RoleReport, RoleRestart, RoleOthers DEF Next
<1>3. Spec => []TypeOK
  BY TypeCorrect
<1>4. RoleInv => RolesAgree
  BY RoleInvAgree
<1> QED BY <1>1, <1>2, <1>3, <1>4, PTL DEF Spec

=============================================================================
