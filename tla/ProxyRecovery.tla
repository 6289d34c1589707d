--------------------------- MODULE ProxyRecovery ---------------------------
(***************************************************************************)
(* The Device1/proxy recovery detector of the BLE process: the RSSI        *)
(* counters of bt_connection_new.c, the device queue with its time to      *)
(* live, and thandler_ble_periodicloop, which exits the process (systemd   *)
(* restarts it) when a connection pass finds no proxy of a sensor that was *)
(* active shortly before.                                                  *)
(*                                                                         *)
(* Time is discrete, in seconds.  A time stamp is kept as its age, up to   *)
(* the greatest one that a comparison tells apart; the wall clock, which   *)
(* all of them come from, is not set.  What happens between two passes in  *)
(* the controller is in module ConCtrl; here a pass that selects a sensor  *)
(* is an attempt that ends some time later.  The bluez thread fills slots  *)
(* whenever BlueZ says so, also for an attempt that has timed out and      *)
(* between the decision to exit and the exit.                              *)
(***************************************************************************)
EXTENDS Integers, FiniteSets

CONSTANTS
    Sensor,   \* sensors on the white list
    TTL,      \* BT_CONNECTION_NEW_SCANNED_ELE_TTL_S
    Period,   \* seconds between two connection passes
    Window,   \* BT_CONNECTION_NEW_PROXY_RECOVERY_WINDOW_S
    RssiMin,  \* BT_CONNECTION_NEW_PROXY_RECOVERY_RSSI_MIN
    Slots,    \* CONFIG_BLE_CONNECTION_MAX_NUM
    Nobody    \* no sensor

ASSUME TimesAssumption ==
    /\ TTL \in Nat \ {0} /\ Period \in Nat \ {0} /\ Window \in Nat \ {0}
    /\ RssiMin \in Nat \ {0} /\ Slots \in Nat \ {0}
    /\ Nobody \notin Sensor

VARIABLES
    elem,        \* age of the sensor's element of dev_queue, or Gone
    count,       \* g_recent_whitelist_rssi_count, up to RssiMin
    timestamp,   \* age of g_recent_whitelist_rssi_timestamp, or Gone for 0
    required,    \* g_proxy_recovery_required
    phase,       \* seconds since the last pass was due
    pc,          \* periodic thread: "sleep", "attempt", "check" or "exited"
    target,      \* the sensor that the attempt is for
    connected,   \* sensors in a slot; their elements are in use
    pending,     \* sensors whose Connect BlueZ is still working on
    \* what the properties compare the counters with
    silence,     \* seconds since the last advertisement of any sensor
    heard,       \* advertisements since a sensor was selected, up to RssiMin
    kept         \* sensors connected since before the last pass was over

detector == <<count, timestamp, required>>
ghosts == <<silence, heard>>
links == <<connected, pending, kept>>
vars == <<elem, detector, phase, pc, target, links, ghosts>>

Gone == -1

Older(age, cap) == IF age = Gone \/ age = cap THEN age ELSE age + 1

Init ==
    /\ elem = [s \in Sensor |-> Gone]
    /\ count = 0 /\ timestamp = Gone /\ required = FALSE
    /\ phase = 0 /\ pc = "sleep" /\ target = Nobody
    /\ connected = {} /\ pending = {} /\ kept = {}
    /\ silence = Window + 1 /\ heard = 0

-----------------------------------------------------------------------------
(* The detector                                                            *)

\* The counter stops at 255; from RssiMin on its value makes no difference.
UpTo(n) == IF n < RssiMin THEN n + 1 ELSE n
\* (Mutant: the counter does not stop.)
CountOn == count' = count + 1 /\ timestamp' = 0 /\ UNCHANGED required
NoteActivity ==
    /\ count' = UpTo(count)
    /\ timestamp' = 0
    /\ UNCHANGED required

\* (Mutant: the counts survive a successful search.)
OnlyLowered == required' = FALSE /\ UNCHANGED <<count, timestamp>>
ResetState == count' = 0 /\ timestamp' = Gone /\ required' = FALSE

\* (Mutant: the age of the last RSSI is not looked at.)
CountOnly == count >= RssiMin
RecentlyActive ==
    count >= RssiMin /\ timestamp # Gone /\ timestamp <= Window

NoteLookupFailure ==
    /\ required' = (required \/ RecentlyActive)
    /\ count' = 0 /\ timestamp' = Gone

-----------------------------------------------------------------------------
(* D-Bus callbacks                                                         *)

\* RSSI of a sensor: bt_con_n_append_dev_proxy.  A connected sensor does not
\* advertise.
Rssi(s) ==
    /\ pc # "exited" /\ s \notin connected
    /\ elem' = [elem EXCEPT ![s] = 0]
    /\ NoteActivity
    /\ silence' = 0 /\ heard' = UpTo(heard)
    /\ UNCHANGED <<phase, pc, target, links>>

\* proxy_removed: BlueZ drops a device that it has no business with.
ProxyRemoved(s) ==
    /\ pc # "exited" /\ elem[s] # Gone
    /\ s \notin connected \cup pending \cup {target}
    /\ elem' = [elem EXCEPT ![s] = Gone]
    /\ UNCHANGED <<detector, phase, pc, target, links, ghosts>>

\* Connected = true: the slot that is armed for the sensor takes it, whether the
\* attempt still waits or has given up.
Connected(s) ==
    /\ pc # "exited" /\ s \in pending \ connected
    /\ Cardinality(connected) < Slots
    /\ connected' = connected \cup {s}
    /\ pending' = pending \ {s}
    /\ UNCHANGED <<elem, detector, phase, pc, target, kept, ghosts>>

\* The error that answers a Connect nobody waits for.
LateError(s) ==
    /\ pc # "exited" /\ s \in pending \ {target}
    /\ pending' = pending \ {s}
    /\ UNCHANGED <<elem, detector, phase, pc, target, connected, kept, ghosts>>

\* A connection ends; the device is removed.
Disconnected(s) ==
    /\ pc # "exited" /\ s \in connected
    /\ connected' = connected \ {s} /\ kept' = kept \ {s}
    /\ elem' = [elem EXCEPT ![s] = Gone]
    /\ UNCHANGED <<detector, phase, pc, target, pending, ghosts>>

-----------------------------------------------------------------------------
(* thandler_ble_periodicloop                                               *)

\* A second passes.  The periodic thread counts only the ones it sleeps.
Tick ==
    /\ \/ pc = "sleep" /\ phase < Period /\ phase' = phase + 1
       \/ pc = "attempt" /\ UNCHANGED phase
    /\ elem' = [s \in Sensor |->
                  IF s \in connected THEN elem[s] ELSE Older(elem[s], TTL + 1)]
    /\ timestamp' = Older(timestamp, Window + 1)
    /\ silence' = Older(silence, Window + 1)
    /\ UNCHANGED <<count, required, pc, target, links, heard>>

Due == pc = "sleep" /\ phase = Period

\* bt_con_n_connect_to_dev gives up at once, because a disconnection is in
\* process or no slot is free, and leaves the detector alone.
PassBusy ==
    /\ Due
    /\ phase' = 0
    /\ pc' = "check"
    /\ kept' = connected
    /\ UNCHANGED <<elem, detector, target, connected, pending, ghosts>>

\* bt_con_n_dev_queue_periodic_refresh: too old and not in use.
Expired(s) == s \notin connected /\ elem[s] > TTL
Refreshed == [s \in Sensor |-> IF Expired(s) THEN Gone ELSE elem[s]]
Usable == {s \in Sensor \ connected : Refreshed[s] # Gone}

PassFinds ==
    /\ Due /\ Cardinality(connected) < Slots
    /\ target' \in Usable
    /\ elem' = Refreshed
    /\ ResetState
    /\ phase' = 0
    /\ pc' = "attempt"
    /\ heard' = 0
    /\ pending' = pending \cup {target'}
    /\ UNCHANGED <<connected, kept, silence>>

\* bt_con_n_connect_num_fetch: it fails when another thread holds the mutex of
\* the slots, and it may seem to otherwise, for on success it returns nothing.
\* (Mutant: it is not asked.)
AlwaysIdle(locked) == TRUE
NoConnection(locked) == ~locked /\ connected = {}

PassMisses ==
    /\ Due /\ Cardinality(connected) < Slots
    /\ Usable = {}
    /\ elem' = Refreshed
    /\ \E locked \in BOOLEAN :
          IF NoConnection(locked) THEN NoteLookupFailure ELSE ResetState
    /\ phase' = 0
    /\ pc' = "check"
    /\ kept' = connected
    /\ UNCHANGED <<target, connected, pending, ghosts>>

\* The attempt ends, after up to a minute: bt_con_n_connect_to_dev returns
\* ST_OK after a reply, be it a connection or not, ...
AttemptEnds ==
    /\ pc = "attempt"
    /\ pc' = "sleep" /\ target' = Nobody
    /\ pending' = pending \ {target}
    /\ UNCHANGED <<elem, detector, phase, connected, kept, ghosts>>

\* ... or an error: the call could not be sent, or BlueZ is still at it.
AttemptFails ==
    /\ pc = "attempt"
    /\ pc' = "check" /\ target' = Nobody
    /\ pending' \in {pending, pending \ {target}}
    /\ kept' = connected
    /\ UNCHANGED <<elem, detector, phase, connected, ghosts>>

\* bt_con_n_take_proxy_recovery_required after a pass that failed.
TakeRequired ==
    /\ pc = "check"
    /\ required' = FALSE
    /\ pc' = IF required THEN "exited" ELSE "sleep"
    /\ UNCHANGED <<elem, count, timestamp, phase, target, links, ghosts>>

\* systemd starts the gateway again.
Restart ==
    /\ pc = "exited"
    /\ elem' = [s \in Sensor |-> Gone]
    /\ count' = 0 /\ timestamp' = Gone /\ required' = FALSE
    /\ phase' = 0 /\ pc' = "sleep" /\ target' = Nobody
    /\ connected' = {} /\ pending' = {} /\ kept' = {}
    /\ silence' = Window + 1 /\ heard' = 0

Next ==
    \/ Tick
    \/ \E s \in Sensor : \/ Rssi(s) \/ ProxyRemoved(s)
                         \/ Connected(s) \/ LateError(s) \/ Disconnected(s)
    \/ PassBusy \/ PassFinds \/ PassMisses
    \/ AttemptEnds \/ AttemptFails \/ TakeRequired
    \/ Restart

Spec == Init /\ [][Next]_vars

-----------------------------------------------------------------------------
(* Properties                                                              *)

\* Every variable has its type; the counter is at its limit or below.
TypeOK ==
    /\ elem \in [Sensor -> Gone .. TTL + 1]
    /\ connected \subseteq Sensor /\ pending \subseteq Sensor
    /\ kept \subseteq connected
    /\ count \in 0 .. RssiMin
    /\ timestamp \in Gone .. Window + 1
    /\ required \in BOOLEAN
    /\ phase \in 0 .. Period
    /\ pc \in {"sleep", "attempt", "check", "exited"}
    /\ target \in Sensor \cup {Nobody}
    /\ silence \in 0 .. Window + 1
    /\ heard \in 0 .. RssiMin

Exits == pc = "check" /\ pc' = "exited"

\* The process gives itself up only if some sensor advertised within the
\* window: "a sleeping Sensor, with no recent RSSI activity, does not trigger a
\* Gateway restart".  The time stamp is reset, renewed and compared in three
\* functions, and passes can be a minute apart.
SleepingIgnored == [][Exits => silence <= Window]_vars

\* A restart is decided on RSSI updates that came after the last pass that
\* selected a proxy, not on ones that a selection has already answered:
\* bt_con_n_reset_proxy_recovery_state forgets them in time.
EvidenceIsNew == [][Exits => heard = RssiMin]_vars

\* A restart cuts no connection that was there when the pass which decides it
\* counted the connections: "this prevents an already-connected Sensor from
\* causing a false process restart".  One that BlueZ reports between that count
\* and the exit is cut; nothing in the code prevents it.
CutsOnlyNew == [][Exits => kept = {}]_vars

=============================================================================
