--------------------------- MODULE ConCtrlProofs ---------------------------
(***************************************************************************)
(* Proofs about module ConCtrl, for every number of slots, sensors and     *)
(* proxies and every combination of faults: its type invariant and that    *)
(* is_con_in_process is never left up by a thread that went away.          *)
(***************************************************************************)
EXTENDS ConCtrl, LeastElement, SequenceTheorems, TLAPS

-----------------------------------------------------------------------------
(* Lemmas about the helpers                                                *)

\* An ascending loop over slots that can stop does stop at one of them.
LEMMA FirstIn ==
  ASSUME NEW S \in SUBSET Nat, S # {}
  PROVE  First(S) \in S
  BY LeastExists DEF First

\* The same for a set of slots.
LEMMA FirstSlot ==
  ASSUME NEW S \in SUBSET Slot, S # {}
  PROVE  First(S) \in Slot /\ First(S) \in S
<1>1. S \in SUBSET Nat
  BY NAssumption DEF Slot
<1> QED BY <1>1, FirstIn

\* The rotating search looks at slots only.
LEMMA ProbeSlot ==
  ASSUME NEW k \in Nat, g_con_idx_coutnt \in Nat
  PROVE  Probe(k) \in Slot
<1>1. (g_con_idx_coutnt + k) % CountMod \in Nat
  BY CountAssumption
<1> QED BY <1>1, NAssumption DEF Probe, Slot

\* It finds a distance below N or none.
LEMMA FreeAtRange == FreeAt \in 0 .. N
<1> DEFINE free == {k \in Slot : connected_proxy[Probe(k)] = NoProxy}
<1>1. free # {} => First(free) \in Slot
  BY FirstSlot
<1> QED BY <1>1, NAssumption DEF FreeAt, Slot

\* bt_con_n_set_inuse keeps the elements of the queue well formed.
LEMMA SetInUseType ==
  ASSUME NEW q \in [Mac -> Element], NEW p, NEW u \in BOOLEAN
  PROVE  SetInUse(q, p, u) \in [Mac -> Element]
  BY DEF SetInUse, Element

\* Initialising and destroying a condition variable keep it well formed.
LEMMA CondVarType ==
  ASSUME NEW cv \in CondVar
  PROVE  InitCondVar(cv) \in CondVar /\ DeinitCondVar(cv) \in CondVar
  BY DEF InitCondVar, DeinitCondVar, CondVar, MaybeProxy

\* bt_connection_refresh_white_list returns a list of addresses.
LEMMA MoveToEndType ==
  ASSUME NEW list \in Seq(Mac), NEW k \in 1 .. Len(list)
  PROVE  MoveToEnd(list, k) \in Seq(Mac)
<1>1. SubSeq(list, 1, k - 1) \in Seq(Mac) /\ SubSeq(list, k + 1, Len(list)) \in Seq(Mac)
  BY SubSeqProperties
<1>2. <<list[k]>> \in Seq(Mac)
  BY ElementOfSeq
<1> QED BY <1>1, <1>2, ConcatProperties DEF MoveToEnd

\* bt_con_n_dev_queue_periodic_refresh leaves elements or none.
LEMMA WithoutType ==
  ASSUME dev_queue \in [Mac -> Element], NEW old
  PROVE  Without(old) \in [Mac -> Element]
  BY DEF Without, NoElement, Element, MaybeProxy

\* The null pointer is one a slot may have.
LEMMA NoProxyType == NoProxy \in MaybeProxy
  BY DEF MaybeProxy

\* A condition variable is signalled or consumed.
LEMMA CondVarDone ==
  ASSUME CondVarsType, NEW i \in Slot, NEW u \in BOOLEAN
  PROVE  [pt_cond_var EXCEPT ![i].done = u] \in [Slot -> CondVar]
  BY DEF CondVarsType, CondVar

\* Its proxy is set or forgotten.
LEMMA CondVarProxy ==
  ASSUME CondVarsType, NEW i \in Slot, NEW p \in MaybeProxy
  PROVE  [pt_cond_var EXCEPT ![i].proxy = p] \in [Slot -> CondVar]
  BY DEF CondVarsType, CondVar

\* It is armed for a call.
LEMMA CondVarArmed ==
  ASSUME CondVarsType, NEW i \in Slot, NEW p \in MaybeProxy
  PROVE  [pt_cond_var EXCEPT ![i].done = FALSE, ![i].proxy = p]
            \in [Slot -> CondVar]
  BY DEF CondVarsType, CondVar

\* An emptied slot has no address.
LEMMA ClearedMacType ==
  ASSUME SlotsType, NEW i
  PROVE  ClearedMac(i) \in [Slot -> MaybeMac]
  BY DEF SlotsType, ClearedMac, MaybeMac

\* Between callbacks the bluez thread has nothing in hand.
LEMMA IdleType ==
  /\ Idle \in [k : {"idle", "connected", "failed", "disconnected", "dropped"},
               p : MaybeProxy, i : Slot \cup {NoSlot}, mac : MaybeMac]
  /\ Idle.k = "idle"
  BY DEF Idle, MaybeProxy, MaybeMac

\* The rotating index stays a uint32_t, and the slot it leads to is a slot.
LEMMA RotatedSlot ==
  ASSUME GlobType
  PROVE  Rotated \in 0 .. CountMod - 1 /\ Probe(FreeAt) \in Slot
<1>1. FreeAt \in Nat
  BY FreeAtRange, NAssumption
<1>2. g_con_idx_coutnt \in Nat
  BY CountAssumption DEF GlobType
<1>3. /\ (g_con_idx_coutnt + FreeAt + 1) % CountMod \in 0 .. CountMod - 1
      /\ (g_con_idx_coutnt + N) % CountMod \in 0 .. CountMod - 1
  BY <1>1, <1>2, NAssumption, CountAssumption
<1>4. Rotated \in 0 .. CountMod - 1
  BY <1>3, CountAssumption DEF Rotated
<1> QED BY <1>1, <1>2, <1>4, ProbeSlot

\* The element that a search picks is in the white list and has a proxy.
LEMMA FoundElement ==
  ASSUME TypeOK, NEW old, Candidates(Without(old)) # {}
  PROVE  /\ First(Candidates(Without(old))) \in 1 .. Len(white_list)
         /\ dev_queue[white_list[First(Candidates(Without(old)))]].proxy \in Proxy
<1> DEFINE k == First(Candidates(Without(old)))
<1>1. Candidates(Without(old)) \in SUBSET (1 .. Len(white_list))
  BY DEF Candidates
<1>2. k \in Candidates(Without(old))
  <2>1. Candidates(Without(old)) \in SUBSET Nat
    BY <1>1
  <2> QED BY <2>1, FirstIn
<1> HIDE DEF k
<1>3. white_list[k] \in Mac
  BY <1>1, <1>2, ElementOfSeq DEF TypeOK, ListType
<1>4. Without(old)[white_list[k]].proxy # NoProxy
  BY <1>2 DEF Candidates
<1>5. dev_queue[white_list[k]].proxy # NoProxy
  BY <1>3, <1>4 DEF Without, NoElement
<1>6. dev_queue[white_list[k]] \in Element
  BY <1>3 DEF TypeOK, QueueType
<1>7. dev_queue[white_list[k]].proxy \in Proxy
  BY <1>5, <1>6 DEF Element, MaybeProxy
<1> QED BY <1>1, <1>2, <1>7 DEF k

-----------------------------------------------------------------------------
(* The type invariant: initially, and one lemma for every action.  <1>1    *)
(* has the parts that the action leaves alone.                             *)

\* bt_con_n_init_con_controller establishes the types.
LEMMA InitType == Init => TypeOK
<1> SUFFICES ASSUME Init PROVE TypeOK
  OBVIOUS
<1>1. 0 \in Slot
  BY NAssumption DEF Slot
<1>2. SlotsType /\ FlagType /\ KnownType
  BY <1>1 DEF Init, SlotsType, FlagType, KnownType, MaybeProxy, MaybeMac
<1>3. GlobType
  <2>1. 0 \in 0 .. CountMod - 1
    BY CountAssumption
  <2> QED BY <1>1, <2>1 DEF Init, GlobType, MaybeProxy, MaybeMac
<1>4. CondVarsType /\ QueueType
  BY DEF Init, CondVarsType, QueueType, CondVar, Element, NoElement, MaybeProxy
<1>5. ListType /\ EventsType
  BY WhiteListAssumption, EmptySeq DEF Init, ListType, EventsType
<1>6. CType /\ DType
  BY DEF Init, CType, DType, CPc, DPc, MaybeMac, MaybeProxy
<1>7. CbType
  BY IdleType DEF Init, CbType
<1>8. BluezType
  BY DEF Init, BluezType
<1> QED BY <1>2, <1>3, <1>4, <1>5, <1>6, <1>7, <1>8 DEF TypeOK

\* A step of something else keeps them.
LEMMA StutterType == TypeOK /\ UNCHANGED vars => TypeOK'
  BY DEF TypeOK, SlotsType, CondVarsType, FlagType, QueueType, ListType,
      EventsType, GlobType, CType, DType, CbType, KnownType, BluezType,
      vars, ctrl, queues, glob, threadC, threadD, bluez

\* CBusy may change the file-scope variables; the types stay.
LEMMA CBusyType ==
  ASSUME TypeOK, CBusy
  PROVE  TypeOK'
<1>1. SlotsType' /\ CondVarsType' /\ FlagType' /\ QueueType' /\ ListType' /\ EventsType'
      /\ CType' /\ DType' /\ CbType' /\ KnownType' /\ BluezType'
  BY DEF TypeOK, CBusy, SlotsType, CondVarsType, FlagType, QueueType,
      ListType, EventsType, CType, DType, CbType, KnownType, BluezType, bluez,
      ctrl, queues, threadC, threadD
<1>2. GlobType'
  BY RotatedSlot DEF TypeOK, CBusy, GlobType, glob
<1> QED BY <1>1, <1>2 DEF TypeOK

\* CSelect may change the flag and the last slot, the file-scope variables
\* and the connection pass; their types stay.
LEMMA CSelectType ==
  ASSUME TypeOK, CSelect
  PROVE  TypeOK'
<1>1. SlotsType' /\ CondVarsType' /\ QueueType' /\ ListType' /\ EventsType' /\ DType'
      /\ CbType' /\ KnownType' /\ BluezType'
  BY DEF TypeOK, CSelect, SlotsType, CondVarsType, QueueType, ListType,
      EventsType, DType, CbType, KnownType, BluezType, bluez, ctrl, queues,
      threadD
<1>2. FlagType'
  BY DEF TypeOK, CSelect, FlagType, ctrl
<1>3. GlobType'
  BY RotatedSlot DEF TypeOK, CSelect, GlobType, glob
<1>4. CType'
  BY RotatedSlot DEF TypeOK, CSelect, CType, CPc, threadC
<1> QED BY <1>1, <1>2, <1>3, <1>4 DEF TypeOK

\* CFindNone may change the flag and the last slot, the queue of devices and
\* the connection pass; their types stay.
LEMMA CFindNoneType ==
  ASSUME TypeOK, CFindNone
  PROVE  TypeOK'
<1>1. SlotsType' /\ CondVarsType' /\ ListType' /\ EventsType' /\ GlobType' /\ DType'
      /\ CbType' /\ KnownType' /\ BluezType'
  BY DEF TypeOK, CFindNone, SlotsType, CondVarsType, ListType, EventsType,
      GlobType, DType, CbType, KnownType, BluezType, bluez, ctrl, glob,
      queues, threadD
<1>2. FlagType'
  BY DEF TypeOK, CFindNone, FlagType, ctrl
<1>3. QueueType'
  BY WithoutType DEF TypeOK, CFindNone, QueueType, queues
<1>4. CType'
  BY DEF TypeOK, CFindNone, CType, CPc, threadC
<1> QED BY <1>1, <1>2, <1>3, <1>4 DEF TypeOK

\* CFind may change the queue of devices, the white list and the connection
\* pass; their types stay.
LEMMA CFindType ==
  ASSUME TypeOK, CFind
  PROVE  TypeOK'
<1>1. SlotsType' /\ CondVarsType' /\ FlagType' /\ EventsType' /\ GlobType' /\ DType'
      /\ CbType' /\ KnownType' /\ BluezType'
  BY DEF TypeOK, CFind, SlotsType, CondVarsType, FlagType, EventsType,
      GlobType, DType, CbType, KnownType, BluezType, bluez, ctrl, glob,
      queues, threadD
<1>2. QueueType'
  BY WithoutType DEF TypeOK, CFind, QueueType, queues
<1>3. ListType'
  <2>1. PICK old \in SUBSET Expirable :
           /\ Candidates(Without(old)) # {}
           /\ white_list' = MoveToEnd(white_list, First(Candidates(Without(old))))
    BY DEF CFind
  <2> QED BY <2>1, FoundElement, MoveToEndType DEF TypeOK, ListType
<1>4. CType'
  <2>1. PICK old \in SUBSET Expirable :
           /\ Candidates(Without(old)) # {}
           /\ to_connect' =
                dev_queue[white_list[First(Candidates(Without(old)))]].proxy
    BY DEF CFind
  <2>2. to_connect' \in Proxy
    BY <2>1, FoundElement
  <2> QED BY <2>2 DEF TypeOK, CFind, CType, CPc
<1> QED BY <1>1, <1>2, <1>3, <1>4 DEF TypeOK

\* CInit may change the condition variables, the file-scope variables and the
\* connection pass; their types stay.
LEMMA CInitType ==
  ASSUME TypeOK, CInit
  PROVE  TypeOK'
<1>1. SlotsType' /\ FlagType' /\ QueueType' /\ ListType' /\ EventsType' /\ DType'
      /\ CbType' /\ KnownType' /\ BluezType'
  BY DEF TypeOK, CInit, SlotsType, FlagType, QueueType, ListType, EventsType,
      DType, CbType, KnownType, BluezType, bluez, ctrl, queues, threadD
<1>2. CondVarsType'
  BY CondVarType DEF TypeOK, CInit, CondVarsType, CType, ctrl
<1>3. GlobType'
  BY MacOfAssumption DEF TypeOK, CInit, GlobType, CType, MaybeMac, glob
<1>4. CType'
  BY DEF TypeOK, CInit, CType, CPc, threadC
<1> QED BY <1>1, <1>2, <1>3, <1>4 DEF TypeOK

\* CCall may change the condition variables, the connection pass and BlueZ;
\* their types stay.
LEMMA CCallType ==
  ASSUME TypeOK, CCall
  PROVE  TypeOK'
<1>1. SlotsType' /\ FlagType' /\ QueueType' /\ ListType' /\ EventsType' /\ GlobType'
      /\ DType' /\ CbType' /\ KnownType'
  BY DEF TypeOK, CCall, SlotsType, FlagType, QueueType, ListType, EventsType,
      GlobType, DType, CbType, KnownType, ctrl, glob, queues, threadD
<1>2. CondVarsType'
  BY CondVarArmed DEF TypeOK, CCall, CondVarsType, CType, MaybeProxy, ctrl
<1>3. CType'
  BY DEF TypeOK, CCall, CType, CPc, threadC
<1>4. BluezType'
  BY DEF TypeOK, CCall, BluezType, CType, bluez
<1> QED BY <1>1, <1>2, <1>3, <1>4 DEF TypeOK

\* CWake may change the condition variables and the connection pass; their
\* types stay.
LEMMA CWakeType ==
  ASSUME TypeOK, CWake
  PROVE  TypeOK'
<1>1. SlotsType' /\ FlagType' /\ QueueType' /\ ListType' /\ EventsType' /\ GlobType'
      /\ DType' /\ CbType' /\ KnownType' /\ BluezType'
  BY DEF TypeOK, CWake, SlotsType, FlagType, QueueType, ListType, EventsType,
      GlobType, DType, CbType, KnownType, BluezType, bluez, ctrl, glob,
      queues, threadD
<1>2. CondVarsType'
  BY CondVarDone DEF TypeOK, CWake, CondVarsType, CType, ctrl
<1>3. CType'
  BY DEF TypeOK, CWake, CType, CPc, threadC
<1> QED BY <1>1, <1>2, <1>3 DEF TypeOK

\* CWoken may change the flag and the last slot and the connection pass;
\* their types stay.
LEMMA CWokenType ==
  ASSUME TypeOK, CWoken
  PROVE  TypeOK'
<1>1. SlotsType' /\ CondVarsType' /\ QueueType' /\ ListType' /\ EventsType' /\ GlobType'
      /\ DType' /\ CbType' /\ KnownType' /\ BluezType'
  BY DEF TypeOK, CWoken, SlotsType, CondVarsType, QueueType, ListType,
      EventsType, GlobType, DType, CbType, KnownType, BluezType, bluez, ctrl,
      glob, queues, threadD
<1>2. FlagType'
  BY DEF TypeOK, CWoken, FlagType, ctrl
<1>3. CType'
  BY DEF TypeOK, CWoken, CType, CPc, threadC
<1> QED BY <1>1, <1>2, <1>3 DEF TypeOK

\* CTimeout may change the connection pass; the types stay.
LEMMA CTimeoutType ==
  ASSUME TypeOK, CTimeout
  PROVE  TypeOK'
<1>1. SlotsType' /\ CondVarsType' /\ FlagType' /\ QueueType' /\ ListType' /\ EventsType'
      /\ GlobType' /\ DType' /\ CbType' /\ KnownType' /\ BluezType'
  BY DEF TypeOK, CTimeout, SlotsType, CondVarsType, FlagType, QueueType,
      ListType, EventsType, GlobType, DType, CbType, KnownType, BluezType,
      bluez, ctrl, glob, queues, threadD
<1>2. CType'
  BY DEF TypeOK, CTimeout, CType, CPc, threadC
<1> QED BY <1>1, <1>2 DEF TypeOK

\* CGiveUp may change the connection pass; the types stay.
LEMMA CGiveUpType ==
  ASSUME TypeOK, CGiveUp
  PROVE  TypeOK'
<1>1. SlotsType' /\ CondVarsType' /\ FlagType' /\ QueueType' /\ ListType' /\ EventsType'
      /\ GlobType' /\ DType' /\ CbType' /\ KnownType' /\ BluezType'
  BY DEF TypeOK, CGiveUp, SlotsType, CondVarsType, FlagType, QueueType,
      ListType, EventsType, GlobType, DType, CbType, KnownType, BluezType,
      bluez, ctrl, glob, queues, threadD
<1>2. CType'
  BY DEF TypeOK, CGiveUp, CType, CPc, threadC
<1> QED BY <1>1, <1>2 DEF TypeOK

\* CExit may change the flag and the last slot and the connection pass; their
\* types stay.
LEMMA CExitType ==
  ASSUME TypeOK, CExit
  PROVE  TypeOK'
<1>1. SlotsType' /\ CondVarsType' /\ QueueType' /\ ListType' /\ EventsType' /\ GlobType'
      /\ DType' /\ CbType' /\ KnownType' /\ BluezType'
  BY DEF TypeOK, CExit, SlotsType, CondVarsType, QueueType, ListType,
      EventsType, GlobType, DType, CbType, KnownType, BluezType, bluez, ctrl,
      glob, queues, threadD
<1>2. FlagType'
  BY DEF TypeOK, CExit, FlagType, ctrl
<1>3. CType'
  BY DEF TypeOK, CExit, CType, CPc, threadC
<1> QED BY <1>1, <1>2, <1>3 DEF TypeOK

\* CDeinit may change the condition variables and the connection pass; their
\* types stay.
LEMMA CDeinitType ==
  ASSUME TypeOK, CDeinit
  PROVE  TypeOK'
<1>1. SlotsType' /\ FlagType' /\ QueueType' /\ ListType' /\ EventsType' /\ GlobType'
      /\ DType' /\ CbType' /\ KnownType' /\ BluezType'
  BY DEF TypeOK, CDeinit, SlotsType, FlagType, QueueType, ListType,
      EventsType, GlobType, DType, CbType, KnownType, BluezType, bluez, ctrl,
      glob, queues, threadD
<1>2. CondVarsType'
  BY CondVarType DEF TypeOK, CDeinit, CondVarsType, CType, ctrl
<1>3. CType'
  BY DEF TypeOK, CDeinit, CType, CPc, threadC
<1> QED BY <1>1, <1>2, <1>3 DEF TypeOK

\* DTake may change the disconnection and what the general process knows;
\* their types stay.
LEMMA DTakeType ==
  ASSUME TypeOK, NEW i \in Slot, DTake(i)
  PROVE  TypeOK'
<1>1. SlotsType' /\ CondVarsType' /\ FlagType' /\ QueueType' /\ ListType' /\ EventsType'
      /\ GlobType' /\ CType' /\ CbType' /\ BluezType'
  BY DEF TypeOK, DTake, SlotsType, CondVarsType, FlagType, QueueType,
      ListType, EventsType, GlobType, CType, CbType, BluezType, bluez, ctrl,
      glob, queues, threadC
<1>2. DType'
  BY NullAssumption DEF TypeOK, DTake, DType, DPc, KnownType, MaybeProxy,
      threadD
<1>3. KnownType'
  BY DEF TypeOK, DTake, KnownType, MaybeMac
<1> QED BY <1>1, <1>2, <1>3 DEF TypeOK

\* DFlag may change the flag and the last slot and the disconnection; their
\* types stay.
LEMMA DFlagType ==
  ASSUME TypeOK, DFlag
  PROVE  TypeOK'
<1>1. SlotsType' /\ CondVarsType' /\ QueueType' /\ ListType' /\ EventsType' /\ GlobType'
      /\ CType' /\ CbType' /\ KnownType' /\ BluezType'
  BY DEF TypeOK, DFlag, SlotsType, CondVarsType, QueueType, ListType,
      EventsType, GlobType, CType, CbType, KnownType, BluezType, bluez, ctrl,
      glob, queues, threadC
<1>2. FlagType'
  BY DEF TypeOK, DFlag, FlagType, ctrl
<1>3. DType'
  BY DEF TypeOK, DFlag, DType, DPc, threadD
<1> QED BY <1>1, <1>2, <1>3 DEF TypeOK

\* DSkip may change the flag and the last slot and the disconnection; their
\* types stay.
LEMMA DSkipType ==
  ASSUME TypeOK, DSkip
  PROVE  TypeOK'
<1>1. SlotsType' /\ CondVarsType' /\ QueueType' /\ ListType' /\ EventsType' /\ GlobType'
      /\ CType' /\ CbType' /\ KnownType' /\ BluezType'
  BY DEF TypeOK, DSkip, SlotsType, CondVarsType, QueueType, ListType,
      EventsType, GlobType, CType, CbType, KnownType, BluezType, bluez, ctrl,
      glob, queues, threadC
<1>2. FlagType'
  BY DEF TypeOK, DSkip, FlagType, ctrl
<1>3. DType'
  BY DEF TypeOK, DSkip, DType, DPc, SlotsType, threadD
<1> QED BY <1>1, <1>2, <1>3 DEF TypeOK

\* DCall may change the condition variables, the flag and the last slot, the
\* disconnection and BlueZ; their types stay.
LEMMA DCallType ==
  ASSUME TypeOK, DCall
  PROVE  TypeOK'
<1>1. SlotsType' /\ QueueType' /\ ListType' /\ EventsType' /\ GlobType' /\ CType'
      /\ CbType' /\ KnownType'
  BY DEF TypeOK, DCall, SlotsType, QueueType, ListType, EventsType, GlobType,
      CType, CbType, KnownType, ctrl, glob, queues, threadC
<1>2. CondVarsType'
  BY CondVarArmed DEF TypeOK, DCall, CondVarsType, DType, SlotsType, ctrl
<1>3. FlagType'
  BY DEF TypeOK, DCall, FlagType, ctrl
<1>4. DType'
  BY DEF TypeOK, DCall, DType, DPc, SlotsType, IsTarget, MaybeProxy, threadD
<1>5. BluezType'
  BY DEF TypeOK, DCall, BluezType, DType, SlotsType, IsTarget, MaybeProxy,
      bluez
<1> QED BY <1>1, <1>2, <1>3, <1>4, <1>5 DEF TypeOK

\* DWake may change the condition variables and the disconnection; their
\* types stay.
LEMMA DWakeType ==
  ASSUME TypeOK, DWake
  PROVE  TypeOK'
<1>1. SlotsType' /\ FlagType' /\ QueueType' /\ ListType' /\ EventsType' /\ GlobType'
      /\ CType' /\ CbType' /\ KnownType' /\ BluezType'
  BY DEF TypeOK, DWake, SlotsType, FlagType, QueueType, ListType, EventsType,
      GlobType, CType, CbType, KnownType, BluezType, bluez, ctrl, glob,
      queues, threadC
<1>2. CondVarsType'
  BY CondVarDone DEF TypeOK, DWake, CondVarsType, DType, ctrl
<1>3. DType'
  BY DEF TypeOK, DWake, DType, DPc, threadD
<1> QED BY <1>1, <1>2, <1>3 DEF TypeOK

\* DTimeout may change the disconnection; the types stay.
LEMMA DTimeoutType ==
  ASSUME TypeOK, DTimeout
  PROVE  TypeOK'
<1>1. SlotsType' /\ CondVarsType' /\ FlagType' /\ QueueType' /\ ListType' /\ EventsType'
      /\ GlobType' /\ CType' /\ CbType' /\ KnownType' /\ BluezType'
  BY DEF TypeOK, DTimeout, SlotsType, CondVarsType, FlagType, QueueType,
      ListType, EventsType, GlobType, CType, CbType, KnownType, BluezType,
      bluez, ctrl, glob, queues, threadC
<1>2. DType'
  BY DEF TypeOK, DTimeout, DType, DPc, threadD
<1> QED BY <1>1, <1>2 DEF TypeOK

\* DForce may change the slots, the condition variables, the queue of devices
\* and the disconnection; their types stay.
LEMMA DForceType ==
  ASSUME TypeOK, DForce
  PROVE  TypeOK'
<1>1. FlagType' /\ ListType' /\ EventsType' /\ GlobType' /\ CType' /\ CbType'
      /\ KnownType' /\ BluezType'
  BY DEF TypeOK, DForce, FlagType, ListType, EventsType, GlobType, CType,
      CbType, KnownType, BluezType, bluez, ctrl, glob, queues, threadC
<1>2. SlotsType'
  BY ClearedMacType DEF TypeOK, DForce, SlotsType, DType, MaybeProxy, ctrl
<1>3. CondVarsType'
  BY CondVarDone DEF TypeOK, DForce, CondVarsType, DType, ctrl
<1>4. QueueType'
  BY SetInUseType DEF TypeOK, DForce, QueueType, queues
<1>5. DType'
  BY DEF TypeOK, DForce, DType, DPc, threadD
<1> QED BY <1>1, <1>2, <1>3, <1>4, <1>5 DEF TypeOK

\* DWoken may change the flag and the last slot and the disconnection; their
\* types stay.
LEMMA DWokenType ==
  ASSUME TypeOK, DWoken
  PROVE  TypeOK'
<1>1. SlotsType' /\ CondVarsType' /\ QueueType' /\ ListType' /\ EventsType' /\ GlobType'
      /\ CType' /\ CbType' /\ KnownType' /\ BluezType'
  BY DEF TypeOK, DWoken, SlotsType, CondVarsType, QueueType, ListType,
      EventsType, GlobType, CType, CbType, KnownType, BluezType, bluez, ctrl,
      glob, queues, threadC
<1>2. FlagType'
  BY DEF TypeOK, DWoken, FlagType, ctrl
<1>3. DType'
  BY DEF TypeOK, DWoken, DType, DPc, MaybeProxy, threadD
<1> QED BY <1>1, <1>2, <1>3 DEF TypeOK

\* DRemove may change the disconnection and BlueZ; their types stay.
LEMMA DRemoveType ==
  ASSUME TypeOK, DRemove
  PROVE  TypeOK'
<1>1. SlotsType' /\ CondVarsType' /\ FlagType' /\ QueueType' /\ ListType' /\ EventsType'
      /\ GlobType' /\ CType' /\ CbType' /\ KnownType'
  BY DEF TypeOK, DRemove, SlotsType, CondVarsType, FlagType, QueueType,
      ListType, EventsType, GlobType, CType, CbType, KnownType, ctrl, glob,
      queues, threadC
<1>2. DType'
  BY DEF TypeOK, DRemove, DType, DPc, threadD
<1>3. BluezType'
  BY DEF TypeOK, DRemove, BluezType, Ask, DType, MaybeProxy, bluez
<1> QED BY <1>1, <1>2, <1>3 DEF TypeOK

\* DDeinit may change the condition variables and the disconnection; their
\* types stay.
LEMMA DDeinitType ==
  ASSUME TypeOK, DDeinit
  PROVE  TypeOK'
<1>1. SlotsType' /\ FlagType' /\ QueueType' /\ ListType' /\ EventsType' /\ GlobType'
      /\ CType' /\ CbType' /\ KnownType' /\ BluezType'
  BY DEF TypeOK, DDeinit, SlotsType, FlagType, QueueType, ListType,
      EventsType, GlobType, CType, CbType, KnownType, BluezType, bluez, ctrl,
      glob, queues, threadC
<1>2. CondVarsType'
  BY CondVarType DEF TypeOK, DDeinit, CondVarsType, DType, ctrl
<1>3. DType'
  BY DEF TypeOK, DDeinit, DType, DPc, MaybeMac, MaybeProxy, threadD
<1> QED BY <1>1, <1>2, <1>3 DEF TypeOK

\* ConnectReply may change the condition variables, the callback and BlueZ;
\* their types stay.
LEMMA ConnectReplyType ==
  ASSUME TypeOK, NEW p \in Proxy, ConnectReply(p)
  PROVE  TypeOK'
<1>1. SlotsType' /\ FlagType' /\ QueueType' /\ ListType' /\ EventsType' /\ GlobType'
      /\ CType' /\ DType' /\ KnownType'
  BY DEF TypeOK, ConnectReply, SlotsType, FlagType, QueueType, ListType,
      EventsType, GlobType, CType, DType, KnownType, ctrl, glob, queues,
      threadC, threadD
<1>2. CondVarsType'
  <2>1. g_con_method_param.idx \in Slot
    BY DEF TypeOK, GlobType
  <2>2. \/ pt_cond_var' = pt_cond_var
        \/ pt_cond_var' = [pt_cond_var EXCEPT ![g_con_method_param.idx].done = TRUE]
    BY DEF ConnectReply
  <2> QED BY <2>1, <2>2, CondVarDone DEF TypeOK, CondVarsType
<1>3. CbType'
  BY DEF TypeOK, ConnectReply, CbType, GlobType, MaybeProxy
<1>4. BluezType'
  BY DEF TypeOK, ConnectReply, BluezType, GlobType, CondVarsType, CondVar,
      Ask, MaybeProxy, bluez
<1> QED BY <1>1, <1>2, <1>3, <1>4 DEF TypeOK

\* ConnectFailed may change the slots, the condition variables, the flag and
\* the last slot, the queue of devices, the callback and BlueZ; their types
\* stay.
LEMMA ConnectFailedType ==
  ASSUME TypeOK, ConnectFailed
  PROVE  TypeOK'
<1>1. ListType' /\ EventsType' /\ GlobType' /\ CType' /\ DType' /\ KnownType'
  BY DEF TypeOK, ConnectFailed, ListType, EventsType, GlobType, CType, DType,
      KnownType, glob, queues, threadC, threadD
<1>2. SlotsType'
  BY ClearedMacType DEF TypeOK, ConnectFailed, SlotsType, CbType, MaybeProxy,
      ctrl
<1>3. CondVarsType'
  <2>1. cb.i \in Slot
    BY DEF TypeOK, ConnectFailed, CbType
  <2>2. \/ pt_cond_var' = pt_cond_var
        \/ pt_cond_var' = [pt_cond_var EXCEPT ![cb.i].proxy = NoProxy]
    BY DEF ConnectFailed
  <2> QED BY <2>1, <2>2, CondVarProxy, NoProxyType DEF TypeOK, CondVarsType
<1>4. FlagType'
  BY DEF TypeOK, ConnectFailed, FlagType, ctrl
<1>5. QueueType'
  BY SetInUseType DEF TypeOK, ConnectFailed, QueueType, queues
<1>6. CbType'
  BY IdleType DEF TypeOK, ConnectFailed, CbType
<1>7. BluezType'
  BY DEF TypeOK, ConnectFailed, BluezType, Ask, CbType, MaybeProxy, bluez
<1> QED BY <1>1, <1>2, <1>3, <1>4, <1>5, <1>6, <1>7 DEF TypeOK

\* ConnectSucceeded may change the slots, the condition variables, the flag
\* and the last slot, the queue of devices and the callback; their types
\* stay.
LEMMA ConnectSucceededType ==
  ASSUME TypeOK, ConnectSucceeded
  PROVE  TypeOK'
<1>1. ListType' /\ EventsType' /\ GlobType' /\ CType' /\ DType' /\ KnownType'
      /\ BluezType'
  BY DEF TypeOK, ConnectSucceeded, ListType, EventsType, GlobType, CType,
      DType, KnownType, BluezType, bluez, glob, queues, threadC, threadD
<1>2. SlotsType'
  BY DEF TypeOK, ConnectSucceeded, SlotsType, CbType, MaybeProxy, MaybeMac,
      ctrl
<1>3. CondVarsType'
  <2>1. cb.i \in Slot
    BY DEF TypeOK, ConnectSucceeded, CbType
  <2>2. \/ pt_cond_var' = pt_cond_var
        \/ pt_cond_var' = [pt_cond_var EXCEPT ![cb.i].proxy = cb.p]
    BY DEF ConnectSucceeded
  <2>3. cb.p \in MaybeProxy
    BY DEF TypeOK, CbType
  <2> QED BY <2>1, <2>2, CondVarProxy, <2>3 DEF TypeOK, CondVarsType
<1>4. FlagType'
  BY DEF TypeOK, ConnectSucceeded, FlagType, ctrl
<1>5. QueueType'
  <2> DEFINE match == connected_proxy[cb.i] \in {NoProxy, cb.p}
  <2>1. dev_queue' = SetInUse(dev_queue, cb.p, match)
    BY DEF ConnectSucceeded
  <2>2. match \in BOOLEAN
    OBVIOUS
  <2> HIDE DEF match
  <2> QED BY <2>1, <2>2, SetInUseType DEF TypeOK, QueueType
<1>6. CbType'
  BY IdleType DEF TypeOK, ConnectSucceeded, CbType
<1> QED BY <1>1, <1>2, <1>3, <1>4, <1>5, <1>6 DEF TypeOK

\* DisconnectReply may change the condition variables, the callback and
\* BlueZ; their types stay.
LEMMA DisconnectReplyType ==
  ASSUME TypeOK, NEW d \in pendD, DisconnectReply(d)
  PROVE  TypeOK'
<1>1. SlotsType' /\ FlagType' /\ QueueType' /\ ListType' /\ EventsType' /\ GlobType'
      /\ CType' /\ DType' /\ KnownType'
  BY DEF TypeOK, DisconnectReply, SlotsType, FlagType, QueueType, ListType,
      EventsType, GlobType, CType, DType, KnownType, ctrl, glob, queues,
      threadC, threadD
<1>2. CondVarsType'
  <2>1. d.i \in Slot
    BY DEF TypeOK, BluezType
  <2>2. \/ pt_cond_var' = pt_cond_var
        \/ pt_cond_var' = [pt_cond_var EXCEPT ![d.i].done = TRUE]
    BY DEF DisconnectReply
  <2> QED BY <2>1, <2>2, CondVarDone DEF TypeOK, CondVarsType
<1>3. CbType'
  <2>1. d.p \in Proxy
    BY DEF TypeOK, BluezType
  <2>2. \/ cb' = cb \/ cb' = Idle
        \/ cb' = [Idle EXCEPT !.k = "disconnected", !.p = d.p]
    BY DEF DisconnectReply
  <2>3. CASE cb' = cb
    BY <2>3 DEF TypeOK, CbType
  <2>4. CASE cb' = Idle
    BY <2>4, IdleType DEF CbType
  <2>5. CASE cb' = [Idle EXCEPT !.k = "disconnected", !.p = d.p]
    BY <2>1, <2>5 DEF CbType, Idle, MaybeProxy, MaybeMac
  <2> QED BY <2>2, <2>3, <2>4, <2>5
<1>4. BluezType'
  BY DEF TypeOK, DisconnectReply, BluezType, bluez
<1> QED BY <1>1, <1>2, <1>3, <1>4 DEF TypeOK

\* DisconnectSucceeded may change the slots, the condition variables, the
\* queue of devices and the callback; their types stay.
LEMMA DisconnectSucceededType ==
  ASSUME TypeOK, DisconnectSucceeded
  PROVE  TypeOK'
<1>1. FlagType' /\ ListType' /\ EventsType' /\ GlobType' /\ CType' /\ DType'
      /\ KnownType' /\ BluezType'
  BY DEF TypeOK, DisconnectSucceeded, FlagType, ListType, EventsType,
      GlobType, CType, DType, KnownType, BluezType, bluez, ctrl, glob, queues,
      threadC, threadD
<1>2. SlotsType'
  <2> DEFINE S == IF Attached(cb.p) # {} THEN Attached(cb.p) ELSE Awaiting(cb.p)
  <2>1. S # {} => First(S) \in Slot
    BY FirstSlot DEF Attached, Awaiting
  <2> HIDE DEF S
  <2>2. CASE S = {}
    BY <2>2 DEF TypeOK, DisconnectSucceeded, SlotsType, S
  <2>3. CASE S # {}
    <3>1. /\ connected_proxy' = [connected_proxy EXCEPT ![First(S)] = NoProxy]
          /\ con_mac_addr' = ClearedMac(First(S))
      BY <2>3 DEF DisconnectSucceeded, S
    <3> QED BY <2>1, <2>3, <3>1, ClearedMacType
        DEF TypeOK, SlotsType, MaybeProxy
  <2> QED BY <2>2, <2>3
<1>3. CondVarsType'
  <2> DEFINE S == IF Attached(cb.p) # {} THEN Attached(cb.p) ELSE Awaiting(cb.p)
  <2>1. S # {} => First(S) \in Slot
    BY FirstSlot DEF Attached, Awaiting
  <2> HIDE DEF S
  <2>2. CASE S = {}
    BY <2>2 DEF TypeOK, DisconnectSucceeded, CondVarsType, S
  <2>3. CASE S # {}
    <3>1. pt_cond_var' = [pt_cond_var EXCEPT ![First(S)].proxy = NoProxy]
      BY <2>3 DEF DisconnectSucceeded, S
    <3> QED BY <2>1, <2>3, <3>1, CondVarProxy, NoProxyType
        DEF TypeOK, CondVarsType
  <2> QED BY <2>2, <2>3
<1>4. QueueType'
  BY SetInUseType DEF TypeOK, DisconnectSucceeded, QueueType, queues
<1>5. CbType'
  BY IdleType DEF TypeOK, DisconnectSucceeded, CbType
<1> QED BY <1>1, <1>2, <1>3, <1>4, <1>5 DEF TypeOK

\* ConnectedTrue may change the slots, the flag and the last slot, the queue
\* of devices, the events, the file-scope variables and BlueZ; their types
\* stay.
LEMMA ConnectedTrueType ==
  ASSUME TypeOK, NEW p \in Proxy, ConnectedTrue(p)
  PROVE  TypeOK'
<1>1. CondVarsType' /\ ListType' /\ CType' /\ DType' /\ CbType' /\ KnownType'
  BY DEF TypeOK, ConnectedTrue, CondVarsType, ListType, CType, DType, CbType,
      KnownType, ctrl, queues, threadC, threadD
<1>2. SlotsType'
  BY FirstSlot DEF TypeOK, ConnectedTrue, SlotsType, Awaiting, MaybeProxy,
      ctrl
<1>3. FlagType'
  BY FirstSlot DEF TypeOK, ConnectedTrue, FlagType, Awaiting, ctrl
<1>4. QueueType'
  BY SetInUseType DEF TypeOK, ConnectedTrue, QueueType, queues
<1>5. EventsType'
  <2>1. CASE Awaiting(p) = {}
    BY <2>1 DEF TypeOK, ConnectedTrue, EventsType
  <2>2. CASE Awaiting(p) # {}
    <3>1. "CONNECTION" \in Event
      BY DEF Event
    <3>2. evq' = Append(evq, "CONNECTION")
      BY <2>2 DEF ConnectedTrue
    <3> QED BY <3>1, <3>2, AppendProperties DEF TypeOK, EventsType
  <2> QED BY <2>1, <2>2
<1>6. GlobType'
  BY FirstSlot DEF TypeOK, ConnectedTrue, GlobType, Awaiting, MaybeProxy, glob
<1>7. BluezType'
  BY DEF TypeOK, ConnectedTrue, BluezType, bluez
<1> QED BY <1>1, <1>2, <1>3, <1>4, <1>5, <1>6, <1>7 DEF TypeOK

\* ConnectedFalse may change the slots, the flag and the last slot, the
\* callback and BlueZ; their types stay.
LEMMA ConnectedFalseType ==
  ASSUME TypeOK, NEW p \in Proxy, ConnectedFalse(p)
  PROVE  TypeOK'
<1>1. CondVarsType' /\ QueueType' /\ ListType' /\ EventsType' /\ GlobType' /\ CType'
      /\ DType' /\ KnownType'
  BY DEF TypeOK, ConnectedFalse, CondVarsType, QueueType, ListType,
      EventsType, GlobType, CType, DType, KnownType, ctrl, glob, queues,
      threadC, threadD
<1>2. SlotsType'
  BY FirstSlot, ClearedMacType DEF TypeOK, ConnectedFalse, SlotsType,
      Attached, MaybeProxy, ctrl
<1>3. FlagType'
  BY FirstSlot DEF TypeOK, ConnectedFalse, FlagType, Attached, ctrl
<1>4. CbType'
  <2>1. CASE Attached(p) = {}
    <3>1. cb' = [Idle EXCEPT !.k = "dropped", !.p = p]
      BY <2>1 DEF ConnectedFalse
    <3> QED BY <3>1 DEF CbType, Idle, MaybeProxy, MaybeMac
  <2>2. CASE Attached(p) # {}
    <3>1. First(Attached(p)) \in Slot
      BY <2>2, FirstSlot DEF Attached
    <3>2. cb' = [Idle EXCEPT !.k = "dropped", !.p = p, !.i = First(Attached(p))]
      BY <2>2 DEF ConnectedFalse
    <3> QED BY <3>1, <3>2 DEF CbType, Idle, MaybeProxy, MaybeMac
  <2> QED BY <2>1, <2>2
<1>5. BluezType'
  BY DEF TypeOK, ConnectedFalse, BluezType, bluez
<1> QED BY <1>1, <1>2, <1>3, <1>4, <1>5 DEF TypeOK

\* Dropped may change the condition variables, the queue of devices, the
\* events, the file-scope variables and the callback; their types stay.
LEMMA DroppedType ==
  ASSUME TypeOK, Dropped
  PROVE  TypeOK'
<1>1. SlotsType' /\ FlagType' /\ ListType' /\ CType' /\ DType' /\ KnownType'
      /\ BluezType'
  BY DEF TypeOK, Dropped, SlotsType, FlagType, ListType, CType, DType,
      KnownType, BluezType, bluez, ctrl, queues, threadC, threadD
<1>2. CondVarsType'
  <2>1. CASE Held(cb.p) = {}
    BY <2>1 DEF TypeOK, Dropped, CondVarsType
  <2>2. CASE Held(cb.p) # {}
    <3>1. First(Held(cb.p)) \in Slot
      BY <2>2, FirstSlot DEF Held
    <3>2. pt_cond_var' = [pt_cond_var EXCEPT ![First(Held(cb.p))].proxy = NoProxy]
      BY <2>2 DEF Dropped
    <3> QED BY <3>1, <3>2, CondVarProxy, NoProxyType DEF TypeOK, CondVarsType
  <2> QED BY <2>1, <2>2
<1>3. QueueType'
  BY SetInUseType DEF TypeOK, Dropped, QueueType, queues
<1>4. EventsType'
  <2>1. evq' = evq \/ evq' = Append(evq, "DISCONNECTION")
    BY DEF Dropped
  <2>2. "DISCONNECTION" \in Event
    BY DEF Event
  <2> QED BY <2>1, <2>2, AppendProperties DEF TypeOK, EventsType
<1>5. GlobType'
  BY FirstSlot DEF TypeOK, Dropped, GlobType, Held, MaybeProxy, glob
<1>6. CbType'
  BY IdleType DEF TypeOK, Dropped, CbType
<1> QED BY <1>1, <1>2, <1>3, <1>4, <1>5, <1>6 DEF TypeOK

\* Rssi may change the queue of devices; the types stay.
LEMMA RssiType ==
  ASSUME TypeOK, NEW p \in Proxy, Rssi(p)
  PROVE  TypeOK'
<1>1. SlotsType' /\ CondVarsType' /\ FlagType' /\ ListType' /\ EventsType' /\ GlobType'
      /\ CType' /\ DType' /\ CbType' /\ KnownType' /\ BluezType'
  BY DEF TypeOK, Rssi, SlotsType, CondVarsType, FlagType, ListType,
      EventsType, GlobType, CType, DType, CbType, KnownType, BluezType, bluez,
      ctrl, glob, queues, threadC, threadD
<1>2. QueueType'
  BY MacOfAssumption DEF TypeOK, Rssi, QueueType, Element, MaybeProxy, queues
<1> QED BY <1>1, <1>2 DEF TypeOK

\* Removed may change the queue of devices and BlueZ; their types stay.
LEMMA RemovedType ==
  ASSUME TypeOK, NEW p \in Proxy, Removed(p)
  PROVE  TypeOK'
<1>1. SlotsType' /\ CondVarsType' /\ FlagType' /\ ListType' /\ EventsType' /\ GlobType'
      /\ CType' /\ DType' /\ CbType' /\ KnownType'
  BY DEF TypeOK, Removed, SlotsType, CondVarsType, FlagType, ListType,
      EventsType, GlobType, CType, DType, CbType, KnownType, ctrl, glob,
      queues, threadC, threadD
<1>2. QueueType'
  BY DEF TypeOK, Removed, QueueType, Element, NoElement, MaybeProxy, queues
<1>3. BluezType'
  BY DEF TypeOK, Removed, BluezType, bluez
<1> QED BY <1>1, <1>2, <1>3 DEF TypeOK

\* HandleEvent may change the events and what the general process knows;
\* their types stay.
LEMMA HandleEventType ==
  ASSUME TypeOK, HandleEvent
  PROVE  TypeOK'
<1>1. SlotsType' /\ CondVarsType' /\ FlagType' /\ QueueType' /\ ListType' /\ GlobType'
      /\ CType' /\ DType' /\ CbType' /\ BluezType'
  BY DEF TypeOK, HandleEvent, SlotsType, CondVarsType, FlagType, QueueType,
      ListType, GlobType, CType, DType, CbType, BluezType, bluez, ctrl, glob,
      queues, threadC, threadD
<1>2. EventsType'
  BY HeadTailProperties DEF TypeOK, HandleEvent, EventsType, queues
<1>3. KnownType'
  BY MacOfAssumption DEF TypeOK, HandleEvent, KnownType, Told, SlotsType,
      FlagType, MaybeProxy, MaybeMac
<1> QED BY <1>1, <1>2, <1>3 DEF TypeOK

\* SkipEvent may change the events; the types stay.
LEMMA SkipEventType ==
  ASSUME TypeOK, SkipEvent
  PROVE  TypeOK'
<1>1. SlotsType' /\ CondVarsType' /\ FlagType' /\ QueueType' /\ ListType' /\ GlobType'
      /\ CType' /\ DType' /\ CbType' /\ KnownType' /\ BluezType'
  BY DEF TypeOK, SkipEvent, SlotsType, CondVarsType, FlagType, QueueType,
      ListType, GlobType, CType, DType, CbType, KnownType, BluezType, bluez,
      ctrl, glob, queues, threadC, threadD
<1>2. EventsType'
  BY HeadTailProperties DEF TypeOK, SkipEvent, EventsType, queues
<1> QED BY <1>1, <1>2 DEF TypeOK

\* Every step keeps the types.
LEMMA NextType == TypeOK /\ [Next]_vars => TypeOK'
<1> SUFFICES ASSUME TypeOK, [Next]_vars PROVE TypeOK'
  OBVIOUS
<1>1. CASE DBusCallback
  BY <1>1, ConnectReplyType, ConnectFailedType, ConnectSucceededType,
     DisconnectReplyType, DisconnectSucceededType, ConnectedTrueType,
     ConnectedFalseType, DroppedType, RssiType, RemovedType DEF DBusCallback
<1>2. CASE ConnectToDev
  BY <1>2, CBusyType, CSelectType, CFindNoneType, CFindType, CInitType,
     CCallType, CWakeType, CWokenType, CTimeoutType, CGiveUpType, CExitType,
     CDeinitType DEF ConnectToDev
<1>3. CASE DisconnectFromDev
  BY <1>3, DTakeType, DFlagType, DSkipType, DCallType, DWakeType,
     DTimeoutType, DForceType, DWokenType, DRemoveType, DDeinitType
     DEF DisconnectFromDev
<1>4. CASE HandleEvent \/ SkipEvent
  BY <1>4, HandleEventType, SkipEventType
<1>5. CASE UNCHANGED vars
  BY <1>5, StutterType
<1> QED BY <1>1, <1>2, <1>3, <1>4, <1>5 DEF Next

\* TypeOK holds in every reachable state: in particular no slot index of the
\* rotating search, of an event or of a Connect reply leaves the table, and a
\* thread that waits for a reply always has the proxy it asked for.
THEOREM TypeCorrect == Spec => []TypeOK
<1>1. Init => TypeOK
  BY InitType
<1>2. TypeOK /\ [Next]_vars => TypeOK'
  BY NextType
<1> QED BY <1>1, <1>2, PTL DEF Spec

-----------------------------------------------------------------------------
(* is_con_in_process                                                       *)

\* The passes of bt_con_n_connect_to_dev raise the flag only to go on with it,
\* and give it up only where they lower it.
LEMMA FlagConnect ==
  ASSUME TypeOK, FlagOwned, ConnectToDev
  PROVE  FlagOwned'
  BY DEF TypeOK, FlagType, CType, CPc, FlagOwned, CHasFlag, DHasFlag, ConnectToDev, CBusy,
     CSelect, CFindNone, CFind, CInit, CCall, CWake, CWoken, CTimeout, CGiveUp,
     CExit, CDeinit, ctrl, threadD

\* So does CMD_DISCONNECTION.
LEMMA FlagDisconnect ==
  ASSUME TypeOK, FlagOwned, DisconnectFromDev
  PROVE  FlagOwned'
  BY DEF TypeOK, FlagType, DType, DPc, FlagOwned, CHasFlag, DHasFlag, DisconnectFromDev,
     DTake, DFlag, DSkip, DCall, DWake, DTimeout, DForce, DWoken, DRemove,
     DDeinit, ctrl, threadC

\* The callbacks only ever lower it.
LEMMA FlagCallback ==
  ASSUME FlagOwned, DBusCallback
  PROVE  FlagOwned'
<1>1. pcC' = pcC /\ pcD' = pcD
  BY DEF DBusCallback, ConnectReply, ConnectFailed, ConnectSucceeded,
     DisconnectReply, DisconnectSucceeded, ConnectedTrue, ConnectedFalse,
     Dropped, Rssi, Removed, threadC, threadD
<1>2. is_con_in_process' \in {is_con_in_process, FALSE}
  BY DEF DBusCallback, ConnectReply, ConnectFailed, ConnectSucceeded,
     DisconnectReply, DisconnectSucceeded, ConnectedTrue, ConnectedFalse,
     Dropped, Rssi, Removed, ctrl
<1> QED BY <1>1, <1>2 DEF FlagOwned, CHasFlag, DHasFlag

\* The flag is never left up by a thread that went away, whatever BlueZ does
\* and however the threads interleave, for any number of slots and sensors.
THEOREM FlagNeverLeftUp == Spec => []FlagOwned
<1>1. Init => FlagOwned
  BY DEF Init, FlagOwned
<1>2. TypeOK /\ FlagOwned /\ [Next]_vars => FlagOwned'
  <2> SUFFICES ASSUME TypeOK, FlagOwned, [Next]_vars PROVE FlagOwned'
    OBVIOUS
  <2>1. CASE HandleEvent \/ SkipEvent
    BY <2>1 DEF HandleEvent, SkipEvent, FlagOwned, CHasFlag, DHasFlag, ctrl,
       threadC, threadD
  <2>2. CASE UNCHANGED vars
    BY <2>2 DEF FlagOwned, CHasFlag, DHasFlag, vars, ctrl, threadC, threadD
  <2> QED BY <2>1, <2>2, FlagConnect, FlagDisconnect, FlagCallback DEF Next
<1> QED BY <1>1, <1>2, TypeCorrect, PTL DEF Spec

=============================================================================
