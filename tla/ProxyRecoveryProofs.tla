------------------------ MODULE ProxyRecoveryProofs ------------------------
(***************************************************************************)
(* Proofs about module ProxyRecovery, for any set of sensors, any times    *)
(* and any number of slots: its type invariant, and when the process may   *)
(* give itself up.                                                         *)
(***************************************************************************)
EXTENDS ProxyRecovery, TLAPS

-----------------------------------------------------------------------------
(* The counters and the clock                                              *)

\* A counter that stops at RssiMin.
LEMMA UpToType ==
  ASSUME NEW n \in 0 .. RssiMin
  PROVE  /\ UpTo(n) \in 0 .. RssiMin
         /\ UpTo(n) >= n
         /\ n = RssiMin => UpTo(n) = RssiMin
BY TimesAssumption DEF UpTo

\* UpTo keeps the order of two counters.
LEMMA UpToMonotonic ==
  ASSUME NEW m \in 0 .. RssiMin, NEW n \in 0 .. RssiMin, m <= n
  PROVE  UpTo(m) <= UpTo(n)
BY TimesAssumption DEF UpTo

\* An age stays one, up to its cap.
LEMMA OlderType ==
  ASSUME NEW cap \in Nat, NEW age \in Gone .. cap
  PROVE  /\ Older(age, cap) \in Gone .. cap
         /\ age = Gone <=> Older(age, cap) = Gone
BY DEF Older, Gone

\* Gone is an age, and the greatest ones are too.
LEMMA Ages ==
  /\ Gone \in Gone .. TTL + 1
  /\ Gone \in Gone .. Window + 1
  /\ 0 \in 0 .. RssiMin /\ 0 \in 0 .. Period
  /\ Window + 1 \in 0 .. Window + 1
BY TimesAssumption DEF Gone

-----------------------------------------------------------------------------
(* Types                                                                   *)

\* TypeOK, and an attempt is always for a sensor.
TypeInv == TypeOK /\ (pc = "attempt" => target \in Sensor)

\* The process starts with nothing heard and nothing connected.
LEMMA InitType == Init => TypeInv
BY Ages DEF Init, TypeInv, TypeOK

\* The elements of the queue as a pass refreshes them.
LEMMA RefreshedType ==
  ASSUME TypeOK
  PROVE  /\ Refreshed \in [Sensor -> Gone .. TTL + 1]
         /\ Usable \subseteq Sensor
BY TimesAssumption DEF TypeOK, Refreshed, Usable, Gone

\* The passing of a second.
LEMMA TickType == TypeInv /\ Tick => TypeInv'
<1> SUFFICES ASSUME TypeInv, Tick
             PROVE  TypeInv'
  OBVIOUS
<1> USE DEF TypeInv, TypeOK, Tick, links
<1>1. elem' \in [Sensor -> Gone .. TTL + 1]
  <2>1. ASSUME NEW s \in Sensor
        PROVE  Older(elem[s], TTL + 1) \in Gone .. TTL + 1
    BY OlderType, TimesAssumption
  <2> QED BY <2>1
<1>2. timestamp' \in Gone .. Window + 1
  BY OlderType, TimesAssumption
<1>3. silence' \in 0 .. Window + 1
  BY OlderType, TimesAssumption DEF Gone
<1>4. phase' \in 0 .. Period
  BY TimesAssumption
<1> QED BY <1>1, <1>2, <1>3, <1>4

\* The D-Bus callbacks.
LEMMA CallbackType ==
  ASSUME TypeInv, NEW s \in Sensor,
         \/ Rssi(s) \/ ProxyRemoved(s)
         \/ Connected(s) \/ LateError(s) \/ Disconnected(s)
  PROVE  TypeInv'
<1> USE DEF TypeInv, TypeOK
<1>1. CASE Rssi(s)
  BY <1>1, UpToType, TimesAssumption DEF Rssi, NoteActivity, links, Gone
<1>2. CASE ProxyRemoved(s)
  BY <1>2, TimesAssumption DEF ProxyRemoved, detector, links, ghosts, Gone
<1>3. CASE Disconnected(s)
  BY <1>3, TimesAssumption DEF Disconnected, detector, ghosts, Gone
<1>4. CASE Connected(s) \/ LateError(s)
  BY <1>4 DEF Connected, LateError, detector, ghosts
<1> QED BY <1>1, <1>2, <1>3, <1>4

\* The passes of the periodic thread and what follows them.
LEMMA PassType ==
  ASSUME TypeInv,
         PassBusy \/ PassFinds \/ PassMisses \/ AttemptEnds \/ AttemptFails
           \/ TakeRequired \/ Restart
  PROVE  TypeInv'
<1> USE TimesAssumption DEF TypeInv, TypeOK
<1>1. CASE PassBusy
  BY <1>1 DEF PassBusy, detector, ghosts
<1>2. CASE PassFinds
  BY <1>2, RefreshedType, Ages DEF PassFinds, ResetState
<1>3. CASE PassMisses
  BY <1>3, RefreshedType, Ages
     DEF PassMisses, ResetState, NoteLookupFailure, RecentlyActive, Due, ghosts
<1>4. CASE AttemptEnds
  BY <1>4 DEF AttemptEnds, detector, ghosts
<1>5. CASE AttemptFails
  BY <1>5 DEF AttemptFails, detector, ghosts
<1>6. CASE TakeRequired
  BY <1>6 DEF TakeRequired, links, ghosts
<1>7. CASE Restart
  BY <1>7, Ages DEF Restart
<1> QED BY <1>1, <1>2, <1>3, <1>4, <1>5, <1>6, <1>7

\* A step of anyone, or none.
LEMMA NextType == TypeInv /\ [Next]_vars => TypeInv'
<1>1. ASSUME TypeInv, Next
      PROVE  TypeInv'
  BY <1>1, TickType, CallbackType, PassType DEF Next
<1>2. ASSUME TypeInv, UNCHANGED vars
      PROVE  TypeInv'
  BY <1>2 DEF TypeInv, TypeOK, vars, detector, links, ghosts
<1> QED BY <1>1, <1>2

\* Whatever the times of the detector, its counter never passes its limit and
\* no age leaves the range that its comparisons tell apart.
THEOREM TypeCorrect == Spec => []TypeOK
<1>1. Spec => []TypeInv
  BY InitType, NextType, PTL DEF Spec
<1>2. TypeInv => TypeOK
  BY DEF TypeInv
<1> QED BY <1>1, <1>2, PTL

-----------------------------------------------------------------------------
(* When the process gives itself up                                        *)

\* The stamp of the last RSSI is as old as the silence of the sensors.
StampIsSilence == timestamp # Gone => timestamp = silence

\* No more is counted than was heard since a sensor was selected.
CountedWasHeard == count <= heard

\* g_proxy_recovery_required is up only until the pass that raised it asks for
\* it, and what it was raised for holds until then.
RaisedForCause ==
  required => /\ pc = "check" /\ kept = {}
              /\ silence <= Window /\ heard = RssiMin

ExitInv == StampIsSilence /\ CountedWasHeard /\ RaisedForCause

\* Nothing is counted or required yet.
LEMMA InitExit == Init => ExitInv
BY DEF Init, ExitInv, StampIsSilence, CountedWasHeard, RaisedForCause

\* A second passes for the stamp and for the silence alike; the flag is not up
\* while the periodic thread sleeps or connects.
LEMMA TickExit == TypeInv /\ ExitInv /\ Tick => ExitInv'
<1> SUFFICES ASSUME TypeInv, ExitInv, Tick
             PROVE  ExitInv'
  OBVIOUS
<1>1. StampIsSilence'
  BY OlderType, TimesAssumption
     DEF TypeInv, TypeOK, ExitInv, StampIsSilence, Tick
<1>2. CountedWasHeard'
  BY DEF ExitInv, CountedWasHeard, Tick
<1>3. RaisedForCause'
  BY DEF ExitInv, RaisedForCause, Tick, links
<1> QED BY <1>1, <1>2, <1>3 DEF ExitInv

\* An advertisement renews the stamp, ends the silence and counts for both
\* counters; a sensor that connects or leaves does not spoil the flag.
LEMMA CallbackExit ==
  ASSUME TypeInv, ExitInv, NEW s \in Sensor,
         \/ Rssi(s) \/ ProxyRemoved(s)
         \/ Connected(s) \/ LateError(s) \/ Disconnected(s)
  PROVE  ExitInv'
<1> USE DEF ExitInv, StampIsSilence, CountedWasHeard, RaisedForCause
<1>1. CASE Rssi(s)
  <2>1. UpTo(count) <= UpTo(heard)
    BY UpToMonotonic DEF TypeInv, TypeOK
  <2>2. heard = RssiMin => UpTo(heard) = RssiMin
    BY UpToType DEF TypeInv, TypeOK
  <2> QED BY <1>1, <2>1, <2>2, TimesAssumption DEF Rssi, NoteActivity, links
<1>2. CASE ProxyRemoved(s)
  BY <1>2 DEF ProxyRemoved, detector, links, ghosts
<1>3. CASE Disconnected(s)
  BY <1>3 DEF Disconnected, detector, ghosts
<1>4. CASE Connected(s) \/ LateError(s)
  BY <1>4 DEF Connected, LateError, detector, ghosts
<1> QED BY <1>1, <1>2, <1>3, <1>4

\* A pass that finds nothing raises the flag only on enough recent activity and
\* with no connection; the other passes leave it down.
LEMMA PassExit ==
  ASSUME TypeInv, ExitInv,
         PassBusy \/ PassFinds \/ PassMisses \/ AttemptEnds \/ AttemptFails
           \/ TakeRequired \/ Restart
  PROVE  ExitInv'
<1> USE DEF ExitInv, StampIsSilence, CountedWasHeard, RaisedForCause
<1>1. CASE PassBusy
  BY <1>1 DEF PassBusy, Due, detector, ghosts
<1>2. CASE PassFinds
  BY <1>2 DEF PassFinds, ResetState
<1>3. CASE PassMisses
  <2>1. heard \in 0 .. RssiMin /\ count \in 0 .. RssiMin
    BY DEF TypeInv, TypeOK
  <2>2. CASE NoteLookupFailure /\ connected = {}
    <3>1. required' => RecentlyActive
      BY <1>3, <2>2 DEF PassMisses, NoteLookupFailure, Due
    <3>2. RecentlyActive => silence <= Window /\ heard = RssiMin
      BY <2>1, TimesAssumption DEF RecentlyActive
    <3>3. pc' = "check" /\ kept' = {} /\ UNCHANGED ghosts
      BY <1>3, <2>2 DEF PassMisses
    <3>4. count' = 0 /\ timestamp' = Gone
      BY <2>2 DEF NoteLookupFailure
    <3> QED BY <2>1, <3>1, <3>2, <3>3, <3>4 DEF ghosts
  <2>3. CASE ResetState
    BY <1>3, <2>1, <2>3 DEF PassMisses, ResetState, ghosts
  <2> QED BY <1>3, <2>2, <2>3 DEF PassMisses, NoConnection
<1>4. CASE AttemptEnds
  BY <1>4 DEF AttemptEnds, detector, ghosts
<1>5. CASE AttemptFails
  BY <1>5 DEF AttemptFails, detector, ghosts
<1>6. CASE TakeRequired
  BY <1>6 DEF TakeRequired, links, ghosts
<1>7. CASE Restart
  BY <1>7 DEF Restart
<1> QED BY <1>1, <1>2, <1>3, <1>4, <1>5, <1>6, <1>7

\* ExitInv is inductive relative to the types.
LEMMA ExitInvariant == Spec => [](TypeInv /\ ExitInv)
<1>1. TypeInv /\ ExitInv /\ Next => ExitInv'
  BY TickExit, CallbackExit, PassExit DEF Next
<1>2. ExitInv /\ UNCHANGED vars => ExitInv'
  BY DEF ExitInv, StampIsSilence, CountedWasHeard, RaisedForCause, vars,
         detector, links, ghosts
<1> QED BY <1>1, <1>2, InitType, InitExit, NextType, PTL DEF Spec

\* Only TakeRequired leaves for "exited", and only with the flag up.
LEMMA ExitsOnlyWhenRequired == [Next]_vars /\ Exits => required
<1>1. ASSUME Next, Exits
      PROVE  required
  <2>1. ASSUME NEW s \in Sensor,
               \/ Rssi(s) \/ ProxyRemoved(s)
               \/ Connected(s) \/ LateError(s) \/ Disconnected(s)
        PROVE  FALSE
    BY <1>1, <2>1 DEF Exits, Rssi, ProxyRemoved, Connected, LateError,
       Disconnected
  <2> QED
    BY <1>1, <2>1
       DEF Next, Exits, Tick, PassBusy, PassFinds, PassMisses, Due, AttemptEnds,
           AttemptFails, TakeRequired, Restart
<1>2. ASSUME UNCHANGED vars, Exits
      PROVE  FALSE
  BY <1>2 DEF Exits, vars
<1> QED BY <1>1, <1>2

\* A gateway whose sensors are all silent for longer than the window is never
\* restarted for lack of a proxy.
THEOREM SleepingSensorsIgnored == Spec => SleepingIgnored
<1>1. ExitInv /\ [Next]_vars => [Exits => silence <= Window]_vars
  BY ExitsOnlyWhenRequired DEF ExitInv, RaisedForCause
<1> QED BY <1>1, ExitInvariant, PTL DEF Spec, SleepingIgnored

\* The RSSI updates that a restart is decided on all came after the last pass
\* that selected a sensor.
THEOREM EvidenceNotReused == Spec => EvidenceIsNew
<1>1. ExitInv /\ [Next]_vars => [Exits => heard = RssiMin]_vars
  BY ExitsOnlyWhenRequired DEF ExitInv, RaisedForCause
<1> QED BY <1>1, ExitInvariant, PTL DEF Spec, EvidenceIsNew

\* A connection that was there when the deciding pass counted is not taken down,
\* whatever the bluez thread does between the count, the test of the flag and the
\* exit, and however many attempts have timed out before.
THEOREM OldConnectionsKept == Spec => CutsOnlyNew
<1>1. ExitInv /\ [Next]_vars => [Exits => kept = {}]_vars
  BY ExitsOnlyWhenRequired DEF ExitInv, RaisedForCause
<1> QED BY <1>1, ExitInvariant, PTL DEF Spec, CutsOnlyNew
=============================================================================
