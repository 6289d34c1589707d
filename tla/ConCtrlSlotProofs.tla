------------------------- MODULE ConCtrlSlotProofs -------------------------
(***************************************************************************)
(* Proofs about the slots of module ConCtrl, for every number of slots,    *)
(* sensors and proxies: as long as links are only lost (no timeout, no     *)
(* error, no failing call) and two accidents of timing stay away, no       *)
(* device is in two slots, every slot has a link and every link a slot,    *)
(* the addresses match and connected_proxy implements SlotTable, although  *)
(* a disconnection and a connection pass can run at the same time on the   *)
(* same slot and every thread may step between the halves of a callback.   *)
(***************************************************************************)
EXTENDS ConCtrlProofs

\* Links may be lost, nothing else goes wrong: no call times out, fails or is
\* answered with an error, no pass starts while a link is going down ("early"),
\* and no callback stops half way for as long as a disconnection sleeps ("slow").
Calm == Faults \subseteq {"loss"}

-----------------------------------------------------------------------------
(* The inductive invariant, in parts                                       *)

\* Without timeouts, errors and failing calls some places are never reached.
QuietRun ==
    /\ pcC \notin {"timeout", "exit"} /\ pcD # "timeout" /\ cb.k # "failed"

\* A Connect without a reply is that of the pass that waits, and nothing has
\* woken it.
OneCall ==
    \A p \in Proxy : pendC[p] > 0 =>
        /\ pendC[p] = 1 /\ pcC = "wait" /\ to_connect = p
        /\ ~pt_cond_var[tmp_idx].done

\* The global parameter is that of the pass that has called or is about to.
ParamIsOwn ==
    pcC \in {"call", "wait"} =>
        /\ g_con_method_param.idx = tmp_idx
        /\ g_con_method_param.mac = MacOf[to_connect]

\* The slot of a pass that has not called yet is empty in all three tables.
SlotReserved ==
    CTrying => /\ connected_proxy[tmp_idx] = NoProxy
               /\ pt_cond_var[tmp_idx].proxy = NoProxy
               /\ hld_connected_proxy[tmp_idx] = NoProxy

\* While Connect has no reply the slot is armed for its proxy and holds it, once
\* the link is up, or nothing.
SlotArmed ==
    \A p \in Proxy : pendC[p] > 0 =>
        /\ pt_cond_var[tmp_idx].proxy = p
        /\ connected_proxy[tmp_idx] \in {NoProxy, p}
        /\ hld_connected_proxy[tmp_idx] = connected_proxy[tmp_idx]
        /\ connected_proxy[tmp_idx] = p => link[p] = "up"

\* The device that is being connected is in no other slot.
ChosenOnce ==
    \/ pcC \in {"init", "call"}
    \/ pcC = "wait" /\ pendC[to_connect] > 0
    => \A j \in Slot \ {tmp_idx} : connected_proxy[j] # to_connect

\* A device in a slot is also in app_management and in the condition variable,
\* and it is linked; a device with a link is in a slot.
SlotAgrees ==
    \A j \in Slot : connected_proxy[j] # NoProxy =>
        /\ pt_cond_var[j].proxy = connected_proxy[j]
        /\ hld_connected_proxy[j] = connected_proxy[j]
        /\ link[connected_proxy[j]] # "down"
LinkAgrees ==
    \A p \in Proxy : link[p] = "up" => \E j \in Slot : connected_proxy[j] = p

\* What the condition variables and app_management remember beyond that.
CondVarAgrees ==
    \A j \in Slot, p \in Proxy : pt_cond_var[j].proxy = p =>
        \/ connected_proxy[j] = p
        \/ cb.k = "dropped" /\ cb.p = p /\ hld_connected_proxy[j] = p
        \/ pendC[p] > 0 /\ tmp_idx = j
HeldAgrees ==
    \A j \in Slot, p \in Proxy : hld_connected_proxy[j] = p =>
        \/ connected_proxy[j] = p
        \/ link[p] = "dropping"
        \/ cb.k = "dropped" /\ cb.p = p
HeldOnce ==
    \A i, j \in Slot : hld_connected_proxy[i] # NoProxy
        /\ hld_connected_proxy[i] = hld_connected_proxy[j] => i = j

\* A callback between its two halves.
CallbackAgrees ==
    /\ cb.k = "connected" =>
         connected_proxy[cb.i] = cb.p /\ cb.mac = MacOf[cb.p]
    /\ cb.k = "disconnected" => pendC[cb.p] = 0 /\ link[cb.p] = "dropping"
    /\ cb.k = "dropped" =>
         link[cb.p] = "down" /\ \A j \in Slot : connected_proxy[j] # cb.p

\* A destroyed condition variable is never signalled.
DeadSilent ==
    \A j \in Slot : pt_cond_var[j].magic = "DEINIT" => ~pt_cond_var[j].done

\* The pass waits for a condition variable that a disconnection has destroyed:
\* nothing wakes it any more.
Stranded == pcC = "wait" /\ pt_cond_var[tmp_idx].magic = "DEINIT"

\* The disconnection was woken by the reply that the pass waits for.
Stolen ==
    /\ pcC = "wait" /\ pcD \in {"woken", "exit", "deinit"}
    /\ tmp_idx = dis_idx /\ ~pt_cond_var[tmp_idx].done
    /\ pendC[to_connect] = 0

\* A Disconnect without a reply is that of the disconnection under way, its
\* device is linked and in the slot; only a Connect reply can signal the slot.
OneDisconnect ==
    ~Stranded => \A d \in pendD :
        /\ connected_proxy[d.i] = d.p /\ link[d.p] = "up" /\ dis_idx = d.i
        /\ pcD = "wait" \/ Stolen
        /\ pt_cond_var[d.i].done => pcC = "wait" /\ tmp_idx = d.i

\* A slot whose link is going down is being cleared, or its disconnection waits
\* for a reply that was refused.
DroppingWaits ==
    ~Stranded => \A i \in Slot :
        /\ connected_proxy[i] # NoProxy
        /\ link[connected_proxy[i]] = "dropping"
        /\ ~(cb.k = "disconnected" /\ cb.p = connected_proxy[i])
        => pcD = "wait" /\ dis_idx = i /\ pt_cond_var[i].magic = "DEINIT"

\* A slot whose Disconnect reply is half handled still holds its device, and the
\* disconnection has not come to its end.
BeingCleared ==
    cb.k = "disconnected" /\ ~Stranded =>
        /\ pcD \in {"wait", "woken", "exit", "deinit"}
        /\ \E j \in Slot : connected_proxy[j] = cb.p

SlotInv ==
    /\ QuietRun /\ OneCall /\ ParamIsOwn /\ SlotReserved /\ SlotArmed
    /\ ChosenOnce /\ SlotAgrees /\ LinkAgrees /\ CondVarAgrees /\ HeldAgrees
    /\ HeldOnce /\ CallbackAgrees /\ DeadSilent /\ OneDisconnect
    /\ DroppingWaits /\ BeingCleared /\ MacMatchesSlot

-----------------------------------------------------------------------------
(* Lemmas                                                                  *)

\* The types of the tables, and of the places of the threads.
LEMMA SlotTypes ==
  ASSUME TypeOK
  PROVE  /\ connected_proxy \in [Slot -> Proxy \cup {NoProxy}]
         /\ hld_connected_proxy \in [Slot -> Proxy \cup {NoProxy}]
         /\ con_mac_addr \in [Slot -> MaybeMac]
         /\ pt_cond_var \in [Slot -> CondVar]
         /\ \A j \in Slot : pt_cond_var[j].proxy \in Proxy \cup {NoProxy}
         /\ link \in [Proxy -> {"down", "up", "dropping"}]
         /\ pendC \in [Proxy -> Nat]
         /\ pendD \subseteq [i : Slot, p : Proxy]
         /\ NoProxy \notin Proxy
         /\ pcC # "idle" => tmp_idx \in Slot
         /\ pcC \notin {"idle", "find"} => to_connect \in Proxy
         /\ pcD # "idle" => dis_idx \in Slot
<1>1. /\ connected_proxy \in [Slot -> Proxy \cup {NoProxy}]
      /\ hld_connected_proxy \in [Slot -> Proxy \cup {NoProxy}]
      /\ con_mac_addr \in [Slot -> MaybeMac]
  BY DEF TypeOK, SlotsType, GlobType, MaybeProxy
<1>2. /\ pt_cond_var \in [Slot -> CondVar]
      /\ \A j \in Slot : pt_cond_var[j].proxy \in Proxy \cup {NoProxy}
  BY DEF TypeOK, CondVarsType, CondVar, MaybeProxy
<1>3. /\ link \in [Proxy -> {"down", "up", "dropping"}]
      /\ pendC \in [Proxy -> Nat] /\ pendD \subseteq [i : Slot, p : Proxy]
  BY DEF TypeOK, BluezType
<1>4. /\ pcC # "idle" => tmp_idx \in Slot
      /\ pcC \notin {"idle", "find"} => to_connect \in Proxy
      /\ pcD # "idle" => dis_idx \in Slot
  BY DEF TypeOK, CType, DType
<1> QED BY <1>1, <1>2, <1>3, <1>4, NullAssumption

\* One field of one condition variable changes.
LEMMA CondVarSet ==
  ASSUME pt_cond_var \in [Slot -> CondVar], NEW i \in Slot, NEW u, NEW j \in Slot
  PROVE  /\ [pt_cond_var EXCEPT ![i].done = u][j].done =
              IF j = i THEN u ELSE pt_cond_var[j].done
         /\ [pt_cond_var EXCEPT ![i].done = u][j].proxy = pt_cond_var[j].proxy
         /\ [pt_cond_var EXCEPT ![i].done = u][j].magic = pt_cond_var[j].magic
         /\ [pt_cond_var EXCEPT ![i].proxy = u][j].proxy =
              IF j = i THEN u ELSE pt_cond_var[j].proxy
         /\ [pt_cond_var EXCEPT ![i].proxy = u][j].done = pt_cond_var[j].done
         /\ [pt_cond_var EXCEPT ![i].proxy = u][j].magic = pt_cond_var[j].magic
  BY DEF CondVar

\* One condition variable is initialised or destroyed.
LEMMA CondVarRenew ==
  ASSUME pt_cond_var \in [Slot -> CondVar], NEW i \in Slot, NEW j \in Slot
  PROVE  /\ [pt_cond_var EXCEPT ![i] = InitCondVar(@)][j] =
              IF j = i THEN InitCondVar(pt_cond_var[j]) ELSE pt_cond_var[j]
         /\ [pt_cond_var EXCEPT ![i] = DeinitCondVar(@)][j] =
              IF j = i THEN DeinitCondVar(pt_cond_var[j]) ELSE pt_cond_var[j]
         /\ InitCondVar(pt_cond_var[j]).magic = "INIT"
         /\ InitCondVar(pt_cond_var[j]).proxy \in {NoProxy, pt_cond_var[j].proxy}
         /\ InitCondVar(pt_cond_var[j]).done => pt_cond_var[j].done
         /\ DeinitCondVar(pt_cond_var[j]).magic = "DEINIT"
         /\ DeinitCondVar(pt_cond_var[j]).proxy = pt_cond_var[j].proxy
         /\ DeinitCondVar(pt_cond_var[j]).done =>
              pt_cond_var[j].magic = "DEINIT" /\ pt_cond_var[j].done
<1>1. pt_cond_var[j] \in CondVar
  OBVIOUS
<1>2. /\ InitCondVar(pt_cond_var[j]).magic = "INIT"
      /\ InitCondVar(pt_cond_var[j]).proxy \in {NoProxy, pt_cond_var[j].proxy}
      /\ InitCondVar(pt_cond_var[j]).done => pt_cond_var[j].done
  BY <1>1 DEF InitCondVar, CondVar
<1>3. /\ DeinitCondVar(pt_cond_var[j]).magic = "DEINIT"
      /\ DeinitCondVar(pt_cond_var[j]).proxy = pt_cond_var[j].proxy
      /\ DeinitCondVar(pt_cond_var[j]).done =>
           pt_cond_var[j].magic = "DEINIT" /\ pt_cond_var[j].done
  BY <1>1 DEF DeinitCondVar, CondVar
<1> QED BY <1>2, <1>3

\* The slot that a pass takes is empty.
LEMMA FreeSlot ==
  ASSUME GlobType, FreeAt < N
  PROVE  connected_proxy[Probe(FreeAt)] = NoProxy /\ Probe(FreeAt) \in Slot
<1> DEFINE free == {k \in Slot : connected_proxy[Probe(k)] = NoProxy}
<1>1. free # {}
  BY NAssumption DEF FreeAt
<1>2. First(free) \in free
  BY <1>1, FirstSlot
<1> QED BY <1>1, <1>2, RotatedSlot DEF FreeAt

\* The device that a pass finds is in no slot.
LEMMA FoundFree ==
  ASSUME TypeOK, CFind
  PROVE  to_connect' \in Proxy /\ \A j \in Slot : connected_proxy[j] # to_connect'
<1>1. PICK old \in SUBSET Expirable :
         /\ Candidates(Without(old)) # {}
         /\ to_connect' =
              dev_queue[white_list[First(Candidates(Without(old)))]].proxy
  BY DEF CFind
<1> DEFINE k == First(Candidates(Without(old)))
<1>2. to_connect' \in Proxy /\ k \in 1 .. Len(white_list)
  BY <1>1, FoundElement
<1>3. k \in Candidates(Without(old))
  <2>1. Candidates(Without(old)) \in SUBSET Nat
    BY DEF Candidates
  <2> QED BY <1>1, <2>1, FirstIn
<1> HIDE DEF k
<1>4. white_list[k] \in Mac
  BY <1>2, ElementOfSeq DEF TypeOK, ListType
<1>5. /\ Without(old)[white_list[k]].proxy # NoProxy
      /\ ~InSomeSlot(white_list[k], Without(old)[white_list[k]].proxy)
  BY <1>3 DEF Candidates
<1>6. Without(old)[white_list[k]].proxy = dev_queue[white_list[k]].proxy
  BY <1>4, <1>5 DEF Without, NoElement
<1> QED BY <1>1, <1>2, <1>5, <1>6 DEF InSomeSlot, k

-----------------------------------------------------------------------------
(* The connection pass                                                     *)

\* A pass starts when no link is going down: its slot is empty in all tables.
LEMMA CSelectSlots ==
  ASSUME TypeOK, SlotInv, Calm, CSelect
  PROVE  SlotInv'
<1>1. /\ UNCHANGED <<to_connect, pcD, dis_idx, cb, pendC, pendD, link,
                    connected_proxy, con_mac_addr, pt_cond_var,
                    hld_connected_proxy, g_con_method_param>>
      /\ pcC = "idle" /\ pcC' = "find" /\ tmp_idx' \in Slot
      /\ connected_proxy[tmp_idx'] = NoProxy
      /\ \A p \in Proxy : link[p] # "dropping"
      /\ cb.k # "dropped"
      /\ \A p \in Proxy : pendC[p] = 0
  <2>1. connected_proxy[tmp_idx'] = NoProxy /\ tmp_idx' \in Slot
    BY FreeSlot DEF CSelect, TypeOK
  <2>2. \A p \in Proxy : pendC[p] = 0
    BY SlotTypes DEF CSelect, SlotInv, OneCall
  <2> QED BY <2>1, <2>2 DEF CSelect, PassMayStart, Calm, threadD, bluez
<1>2. SlotAgrees' /\ LinkAgrees' /\ HeldAgrees' /\ HeldOnce' /\
      CallbackAgrees' /\ DeadSilent' /\ MacMatchesSlot'
  BY <1>1 DEF SlotInv, SlotAgrees, LinkAgrees, HeldAgrees, HeldOnce,
     CallbackAgrees, DeadSilent, MacMatchesSlot
<1>3. QuietRun'
  BY <1>1 DEF SlotInv, QuietRun
<1>4. OneCall'
  BY <1>1 DEF SlotInv, OneCall
<1>5. ParamIsOwn'
  BY <1>1 DEF SlotInv, ParamIsOwn
<1>6. SlotReserved'
  <2>2. hld_connected_proxy[tmp_idx'] = NoProxy
    BY <1>1, SlotTypes DEF SlotInv, HeldAgrees
  <2>3. pt_cond_var[tmp_idx'].proxy = NoProxy
    BY <1>1, SlotTypes DEF SlotInv, CondVarAgrees
  <2> QED BY <1>1, <2>2, <2>3 DEF SlotReserved
<1>7. SlotArmed'
  BY <1>1 DEF SlotInv, SlotArmed
<1>8. ChosenOnce'
  BY <1>1 DEF SlotInv, ChosenOnce
<1>9. CondVarAgrees'
  BY <1>1 DEF SlotInv, CondVarAgrees
<1>10. OneDisconnect'
  BY <1>1 DEF SlotInv, OneDisconnect, Stranded, Stolen
<1>11. DroppingWaits'
  BY <1>1 DEF SlotInv, DroppingWaits, Stranded
<1>12. BeingCleared'
  BY <1>1, SlotTypes DEF SlotInv, BeingCleared, Stranded
<1> QED BY <1>2, <1>3, <1>4, <1>5, <1>6, <1>7, <1>8, <1>9, <1>10, <1>11, <1>12 DEF
     SlotInv

\* It gives up.
LEMMA CFindNoneSlots ==
  ASSUME TypeOK, SlotInv, Calm, CFindNone
  PROVE  SlotInv'
<1>1. /\ UNCHANGED <<to_connect, pcD, dis_idx, cb, pendC, pendD, link,
                    connected_proxy, con_mac_addr, pt_cond_var,
                    hld_connected_proxy, g_con_method_param>>
      /\ pcC = "find" /\ pcC' = "idle"
      /\ \A p \in Proxy : pendC[p] = 0
  <2>1. \A p \in Proxy : pendC[p] = 0
    BY SlotTypes DEF CFindNone, SlotInv, OneCall
  <2> QED BY <2>1 DEF CFindNone, glob, threadD, bluez
<1>2. SlotAgrees' /\ LinkAgrees' /\ HeldAgrees' /\ HeldOnce' /\
      CallbackAgrees' /\ DeadSilent' /\ MacMatchesSlot'
  BY <1>1 DEF SlotInv, SlotAgrees, LinkAgrees, HeldAgrees, HeldOnce,
     CallbackAgrees, DeadSilent, MacMatchesSlot
<1>3. QuietRun'
  BY <1>1 DEF SlotInv, QuietRun
<1>4. OneCall'
  BY <1>1 DEF SlotInv, OneCall
<1>5. ParamIsOwn'
  BY <1>1 DEF SlotInv, ParamIsOwn
<1>6. SlotReserved'
  BY <1>1 DEF SlotInv, SlotReserved, CTrying
<1>7. SlotArmed'
  BY <1>1 DEF SlotInv, SlotArmed
<1>8. ChosenOnce'
  BY <1>1 DEF SlotInv, ChosenOnce
<1>9. CondVarAgrees'
  BY <1>1 DEF SlotInv, CondVarAgrees
<1>10. OneDisconnect'
  BY <1>1 DEF SlotInv, OneDisconnect, Stranded, Stolen
<1>11. DroppingWaits'
  BY <1>1 DEF SlotInv, DroppingWaits, Stranded
<1>12. BeingCleared'
  BY <1>1, SlotTypes DEF SlotInv, BeingCleared, Stranded
<1> QED BY <1>2, <1>3, <1>4, <1>5, <1>6, <1>7, <1>8, <1>9, <1>10, <1>11, <1>12 DEF
     SlotInv

\* It finds a device that is in no slot.
LEMMA CFindSlots ==
  ASSUME TypeOK, SlotInv, Calm, CFind
  PROVE  SlotInv'
<1>1. /\ UNCHANGED <<tmp_idx, pcD, dis_idx, cb, pendC, pendD, link,
                    connected_proxy, con_mac_addr, pt_cond_var,
                    hld_connected_proxy, g_con_method_param>>
      /\ pcC = "find" /\ pcC' = "init"
      /\ \A j \in Slot : connected_proxy[j] # to_connect'
      /\ \A p \in Proxy : pendC[p] = 0
  <2>1. \A p \in Proxy : pendC[p] = 0
    BY SlotTypes DEF CFind, SlotInv, OneCall
  <2> QED BY <2>1, FoundFree DEF CFind, ctrl, glob, threadD, bluez
<1>2. SlotArmed' /\ SlotAgrees' /\ LinkAgrees' /\ CondVarAgrees' /\
      HeldAgrees' /\ HeldOnce' /\ CallbackAgrees' /\ DeadSilent' /\
      MacMatchesSlot'
  BY <1>1 DEF SlotInv, SlotArmed, SlotAgrees, LinkAgrees, CondVarAgrees,
     HeldAgrees, HeldOnce, CallbackAgrees, DeadSilent, MacMatchesSlot
<1>3. QuietRun'
  BY <1>1 DEF SlotInv, QuietRun
<1>4. OneCall'
  BY <1>1 DEF SlotInv, OneCall
<1>5. ParamIsOwn'
  BY <1>1 DEF SlotInv, ParamIsOwn
<1>6. SlotReserved'
  BY <1>1 DEF SlotInv, SlotReserved, CTrying
<1>7. ChosenOnce'
  BY <1>1 DEF SlotInv, ChosenOnce
<1>8. OneDisconnect'
  BY <1>1 DEF SlotInv, OneDisconnect, Stranded, Stolen
<1>9. DroppingWaits'
  BY <1>1 DEF SlotInv, DroppingWaits, Stranded
<1>10. BeingCleared'
  BY <1>1, SlotTypes DEF SlotInv, BeingCleared, Stranded
<1> QED BY <1>2, <1>3, <1>4, <1>5, <1>6, <1>7, <1>8, <1>9, <1>10 DEF
     SlotInv

\* It prepares the condition variable, whose proxy is none already, and the
\* global parameter.
LEMMA CInitSlots ==
  ASSUME TypeOK, SlotInv, Calm, CInit
  PROVE  SlotInv'
<1>1. /\ UNCHANGED <<tmp_idx, to_connect, pcD, dis_idx, cb, pendC, pendD,
                    link, connected_proxy, con_mac_addr, hld_connected_proxy>>
      /\ pcC = "init" /\ pcC' = "call"
      /\ g_con_method_param'.idx = tmp_idx
      /\ g_con_method_param'.mac = MacOf[to_connect]
      /\ \A p \in Proxy : pendC[p] = 0
      /\ tmp_idx \in Slot /\ connected_proxy[tmp_idx] = NoProxy
      /\ pt_cond_var'[tmp_idx].magic = "INIT"
      /\ \A j \in Slot : pt_cond_var'[j].proxy = pt_cond_var[j].proxy
      /\ pt_cond_var'[tmp_idx].done => pt_cond_var[tmp_idx].done
      /\ \A j \in Slot \ {tmp_idx} : pt_cond_var'[j] = pt_cond_var[j]
  <2>1. \A p \in Proxy : pendC[p] = 0
    BY SlotTypes DEF CInit, SlotInv, OneCall
  <2>2. /\ tmp_idx \in Slot /\ connected_proxy[tmp_idx] = NoProxy
        /\ pt_cond_var[tmp_idx].proxy = NoProxy
    BY SlotTypes DEF CInit, SlotInv, SlotReserved, CTrying
  <2>3. pt_cond_var' = [pt_cond_var EXCEPT ![tmp_idx] = InitCondVar(@)]
    BY DEF CInit
  <2>4. /\ pt_cond_var'[tmp_idx].magic = "INIT"
        /\ \A j \in Slot : pt_cond_var'[j].proxy = pt_cond_var[j].proxy
        /\ pt_cond_var'[tmp_idx].done => pt_cond_var[tmp_idx].done
        /\ \A j \in Slot \ {tmp_idx} : pt_cond_var'[j] = pt_cond_var[j]
    BY <2>2, <2>3, SlotTypes, CondVarRenew
  <2> QED BY <2>1, <2>2, <2>4 DEF CInit, Calm, threadD, bluez
<1>2. LinkAgrees' /\ HeldAgrees' /\ HeldOnce' /\ CallbackAgrees' /\
      MacMatchesSlot'
  BY <1>1 DEF SlotInv, LinkAgrees, HeldAgrees, HeldOnce, CallbackAgrees,
     MacMatchesSlot
<1>3. QuietRun'
  BY <1>1 DEF SlotInv, QuietRun
<1>4. OneCall'
  BY <1>1 DEF SlotInv, OneCall
<1>5. ParamIsOwn'
  BY <1>1 DEF SlotInv, ParamIsOwn
<1>6. SlotReserved'
  BY <1>1 DEF SlotInv, SlotReserved, CTrying
<1>7. SlotArmed'
  BY <1>1 DEF SlotInv, SlotArmed
<1>8. ChosenOnce'
  BY <1>1 DEF SlotInv, ChosenOnce
<1>9. SlotAgrees'
  BY <1>1 DEF SlotInv, SlotAgrees
<1>10. CondVarAgrees'
  BY <1>1 DEF SlotInv, CondVarAgrees
<1>11. DeadSilent'
  BY <1>1 DEF SlotInv, DeadSilent
<1>12. OneDisconnect'
  BY <1>1, SlotTypes DEF SlotInv, OneDisconnect, Stranded, Stolen
<1>13. DroppingWaits'
  BY <1>1 DEF SlotInv, DroppingWaits, Stranded
<1>14. BeingCleared'
  BY <1>1, SlotTypes DEF SlotInv, BeingCleared, Stranded
<1> QED BY <1>2, <1>3, <1>4, <1>5, <1>6, <1>7, <1>8, <1>9, <1>10, <1>11,
     <1>12, <1>13, <1>14 DEF
     SlotInv

\* It arms the condition variable and calls Connect.
LEMMA CCallSlots ==
  ASSUME TypeOK, SlotInv, Calm, CCall
  PROVE  SlotInv'
<1>1. /\ UNCHANGED <<tmp_idx, to_connect, pcD, dis_idx, cb, pendD, link,
                    connected_proxy, con_mac_addr, hld_connected_proxy,
                    g_con_method_param>>
      /\ pcC = "call" /\ pcC' = "wait"
      /\ tmp_idx \in Slot /\ to_connect \in Proxy
      /\ pendC' = [pendC EXCEPT ![to_connect] = 1]
      /\ pendC \in [Proxy -> Nat] /\ \A p \in Proxy : pendC[p] = 0
      /\ connected_proxy[tmp_idx] = NoProxy
      /\ hld_connected_proxy[tmp_idx] = NoProxy
      /\ \A j \in Slot : connected_proxy[j] # to_connect
      /\ \A j \in Slot : pt_cond_var'[j].magic = pt_cond_var[j].magic
      /\ ~pt_cond_var'[tmp_idx].done /\ pt_cond_var'[tmp_idx].proxy = to_connect
      /\ \A j \in Slot \ {tmp_idx} : /\ pt_cond_var'[j].done = pt_cond_var[j].done
                                     /\ pt_cond_var'[j].proxy = pt_cond_var[j].proxy
  <2>1. \A p \in Proxy : pendC[p] = 0
    BY SlotTypes DEF CCall, SlotInv, OneCall
  <2>2. /\ tmp_idx \in Slot /\ to_connect \in Proxy
        /\ connected_proxy[tmp_idx] = NoProxy
        /\ hld_connected_proxy[tmp_idx] = NoProxy
    BY SlotTypes DEF CCall, SlotInv, SlotReserved, CTrying
  <2>3. \A j \in Slot : connected_proxy[j] # to_connect
    BY <2>2, SlotTypes DEF CCall, SlotInv, ChosenOnce
  <2>4. /\ pcC = "call" /\ pcC' = "wait"
        /\ pendC' = [pendC EXCEPT ![to_connect] = 1]
    BY <2>1, <2>2 DEF CCall, Calm
  <2>5. pt_cond_var' = [pt_cond_var EXCEPT ![tmp_idx].done = FALSE,
                                           ![tmp_idx].proxy = to_connect]
    BY DEF CCall
  <2>6. \A j \in Slot :
          /\ pt_cond_var'[j].done = IF j = tmp_idx THEN FALSE
                                    ELSE pt_cond_var[j].done
          /\ pt_cond_var'[j].proxy = IF j = tmp_idx THEN to_connect
                                     ELSE pt_cond_var[j].proxy
          /\ pt_cond_var'[j].magic = pt_cond_var[j].magic
    <3>1. pt_cond_var \in [Slot -> CondVar]
      BY SlotTypes
    <3> QED BY <2>2, <2>5, <3>1 DEF CondVar
  <2>7. /\ \A j \in Slot : pt_cond_var'[j].magic = pt_cond_var[j].magic
        /\ ~pt_cond_var'[tmp_idx].done /\ pt_cond_var'[tmp_idx].proxy = to_connect
        /\ \A j \in Slot \ {tmp_idx} :
              /\ pt_cond_var'[j].done = pt_cond_var[j].done
              /\ pt_cond_var'[j].proxy = pt_cond_var[j].proxy
    BY <2>2, <2>6
  <2> QED BY <2>1, <2>2, <2>3, <2>4, <2>7, SlotTypes DEF CCall, threadD, glob
<1>2. LinkAgrees' /\ HeldAgrees' /\ HeldOnce' /\ MacMatchesSlot'
  BY <1>1 DEF SlotInv, LinkAgrees, HeldAgrees, HeldOnce, MacMatchesSlot
<1>3. QuietRun'
  BY <1>1, SlotTypes DEF SlotInv, QuietRun
<1>4. OneCall'
  BY <1>1, SlotTypes DEF SlotInv, OneCall
<1>5. ParamIsOwn'
  BY <1>1, SlotTypes DEF SlotInv, ParamIsOwn
<1>6. SlotReserved'
  BY <1>1, SlotTypes DEF SlotInv, SlotReserved, CTrying
<1>7. SlotArmed'
  BY <1>1, SlotTypes DEF SlotInv, SlotArmed
<1>8. ChosenOnce'
  BY <1>1, SlotTypes DEF SlotInv, ChosenOnce
<1>9. SlotAgrees'
  BY <1>1, SlotTypes DEF SlotInv, SlotAgrees
<1>10. CondVarAgrees'
  BY <1>1, SlotTypes DEF SlotInv, CondVarAgrees
<1>11. CallbackAgrees'
  BY <1>1, SlotTypes DEF SlotInv, CallbackAgrees, BeingCleared, Stranded
<1>12. DeadSilent'
  BY <1>1, SlotTypes DEF SlotInv, DeadSilent
<1>13. OneDisconnect'
  BY <1>1, SlotTypes DEF SlotInv, OneDisconnect, Stranded, Stolen
<1>14. DroppingWaits'
  BY <1>1, SlotTypes DEF SlotInv, DroppingWaits, Stranded
<1>15. BeingCleared'
  BY <1>1, SlotTypes DEF SlotInv, BeingCleared, Stranded
<1> QED BY <1>2, <1>3, <1>4, <1>5, <1>6, <1>7, <1>8, <1>9, <1>10, <1>11,
     <1>12, <1>13, <1>14, <1>15 DEF
     SlotInv

\* It is woken only once its Connect has a reply.
LEMMA CWakeSlots ==
  ASSUME TypeOK, SlotInv, Calm, CWake
  PROVE  SlotInv'
<1>1. /\ UNCHANGED <<tmp_idx, to_connect, pcD, dis_idx, cb, pendC, pendD,
                    link, connected_proxy, con_mac_addr, hld_connected_proxy,
                    g_con_method_param>>
      /\ pcC = "wait" /\ pcC' = "woken" /\ tmp_idx \in Slot
      /\ \A p \in Proxy : pendC[p] = 0
      /\ pt_cond_var[tmp_idx].done /\ ~pt_cond_var'[tmp_idx].done
      /\ \A j \in Slot : /\ pt_cond_var'[j].magic = pt_cond_var[j].magic
                         /\ pt_cond_var'[j].proxy = pt_cond_var[j].proxy
                         /\ pt_cond_var'[j].done => pt_cond_var[j].done
  <2>1. \A p \in Proxy : pendC[p] = 0
    BY SlotTypes DEF CWake, SlotInv, OneCall
  <2>2. tmp_idx \in Slot
    BY SlotTypes DEF CWake
  <2>3. /\ ~pt_cond_var'[tmp_idx].done
        /\ \A j \in Slot : /\ pt_cond_var'[j].magic = pt_cond_var[j].magic
                           /\ pt_cond_var'[j].proxy = pt_cond_var[j].proxy
                           /\ pt_cond_var'[j].done => pt_cond_var[j].done
    BY <2>2, SlotTypes, CondVarSet DEF CWake
  <2> QED BY <2>1, <2>2, <2>3 DEF CWake, glob, threadD, bluez
<1>2. LinkAgrees' /\ HeldAgrees' /\ HeldOnce' /\ CallbackAgrees' /\
      MacMatchesSlot'
  BY <1>1 DEF SlotInv, LinkAgrees, HeldAgrees, HeldOnce, CallbackAgrees,
     MacMatchesSlot
<1>3. QuietRun'
  BY <1>1 DEF SlotInv, QuietRun
<1>4. OneCall'
  BY <1>1 DEF SlotInv, OneCall
<1>5. ParamIsOwn'
  BY <1>1 DEF SlotInv, ParamIsOwn
<1>6. SlotReserved'
  BY <1>1 DEF SlotInv, SlotReserved, CTrying
<1>7. SlotArmed'
  BY <1>1 DEF SlotInv, SlotArmed
<1>8. ChosenOnce'
  BY <1>1 DEF SlotInv, ChosenOnce
<1>9. SlotAgrees'
  BY <1>1 DEF SlotInv, SlotAgrees
<1>10. CondVarAgrees'
  BY <1>1 DEF SlotInv, CondVarAgrees
<1>11. DeadSilent'
  BY <1>1 DEF SlotInv, DeadSilent
<1>12. OneDisconnect'
  BY <1>1, SlotTypes DEF SlotInv, DeadSilent, OneDisconnect, Stranded, Stolen
<1>13. DroppingWaits'
  BY <1>1 DEF SlotInv, DeadSilent, DroppingWaits, Stranded
<1>14. BeingCleared'
  BY <1>1 DEF SlotInv, DeadSilent, BeingCleared, Stranded
<1> QED BY <1>2, <1>3, <1>4, <1>5, <1>6, <1>7, <1>8, <1>9, <1>10, <1>11,
     <1>12, <1>13, <1>14 DEF
     SlotInv

\* It leaves, or goes on to destroy the condition variable.
LEMMA CWokenSlots ==
  ASSUME TypeOK, SlotInv, Calm, CWoken
  PROVE  SlotInv'
<1>1. /\ UNCHANGED <<pcD, dis_idx, cb, pendC, pendD, link, connected_proxy,
                    con_mac_addr, pt_cond_var, hld_connected_proxy,
                    g_con_method_param>>
      /\ pcC = "woken" /\ pcC' \in {"deinit", "idle"}
      /\ \A p \in Proxy : pendC[p] = 0
  <2>1. \A p \in Proxy : pendC[p] = 0
    BY SlotTypes DEF CWoken, SlotInv, OneCall
  <2> QED BY <2>1 DEF CWoken, glob, threadD, bluez
<1>2. SlotAgrees' /\ LinkAgrees' /\ HeldAgrees' /\ HeldOnce' /\
      CallbackAgrees' /\ DeadSilent' /\ MacMatchesSlot'
  BY <1>1 DEF SlotInv, SlotAgrees, LinkAgrees, HeldAgrees, HeldOnce,
     CallbackAgrees, DeadSilent, MacMatchesSlot
<1>3. QuietRun'
  BY <1>1 DEF SlotInv, QuietRun
<1>4. OneCall'
  BY <1>1 DEF SlotInv, OneCall
<1>5. ParamIsOwn'
  BY <1>1 DEF SlotInv, ParamIsOwn
<1>6. SlotReserved'
  BY <1>1 DEF SlotInv, SlotReserved, CTrying
<1>7. SlotArmed'
  BY <1>1 DEF SlotInv, SlotArmed
<1>8. ChosenOnce'
  BY <1>1 DEF SlotInv, ChosenOnce
<1>9. CondVarAgrees'
  BY <1>1 DEF SlotInv, CondVarAgrees
<1>10. OneDisconnect'
  BY <1>1 DEF SlotInv, OneDisconnect, Stranded, Stolen
<1>11. DroppingWaits'
  BY <1>1 DEF SlotInv, DroppingWaits, Stranded
<1>12. BeingCleared'
  BY <1>1, SlotTypes DEF SlotInv, BeingCleared, Stranded
<1> QED BY <1>2, <1>3, <1>4, <1>5, <1>6, <1>7, <1>8, <1>9, <1>10, <1>11, <1>12 DEF
     SlotInv

\* It destroys the condition variable of its slot.
LEMMA CDeinitSlots ==
  ASSUME TypeOK, SlotInv, Calm, CDeinit
  PROVE  SlotInv'
<1>1. /\ UNCHANGED <<pcD, dis_idx, cb, pendC, pendD, link, connected_proxy,
                    con_mac_addr, hld_connected_proxy, g_con_method_param>>
      /\ pcC = "deinit" /\ pcC' = "idle"
      /\ \A p \in Proxy : pendC[p] = 0
      /\ \A j \in Slot :
           /\ pt_cond_var[j].magic = "DEINIT" => pt_cond_var'[j].magic = "DEINIT"
           /\ pt_cond_var'[j].proxy = pt_cond_var[j].proxy
           /\ pt_cond_var'[j].done =>
                /\ pt_cond_var[j].done
                /\ pt_cond_var'[j].magic = pt_cond_var[j].magic
  <2>1. \A p \in Proxy : pendC[p] = 0
    BY SlotTypes DEF CDeinit, SlotInv, OneCall
  <2>2. tmp_idx \in Slot
    BY SlotTypes DEF CDeinit
  <2>3. pt_cond_var' = [pt_cond_var EXCEPT ![tmp_idx] = DeinitCondVar(@)]
    BY DEF CDeinit
  <2>4. \A j \in Slot :
          /\ pt_cond_var[j].magic = "DEINIT" => pt_cond_var'[j].magic = "DEINIT"
          /\ pt_cond_var'[j].proxy = pt_cond_var[j].proxy
          /\ pt_cond_var'[j].done => /\ pt_cond_var[j].done
                                     /\ pt_cond_var'[j].magic = pt_cond_var[j].magic
    BY <2>2, <2>3, SlotTypes, CondVarRenew
  <2> QED BY <2>1, <2>4 DEF CDeinit, glob, threadD, bluez
<1>2. LinkAgrees' /\ HeldAgrees' /\ HeldOnce' /\ CallbackAgrees' /\
      MacMatchesSlot'
  BY <1>1 DEF SlotInv, LinkAgrees, HeldAgrees, HeldOnce, CallbackAgrees,
     MacMatchesSlot
<1>3. QuietRun'
  BY <1>1 DEF SlotInv, QuietRun
<1>4. OneCall'
  BY <1>1 DEF SlotInv, OneCall
<1>5. ParamIsOwn'
  BY <1>1 DEF SlotInv, ParamIsOwn
<1>6. SlotReserved'
  BY <1>1 DEF SlotInv, SlotReserved, CTrying
<1>7. SlotArmed'
  BY <1>1 DEF SlotInv, SlotArmed
<1>8. ChosenOnce'
  BY <1>1 DEF SlotInv, ChosenOnce
<1>9. SlotAgrees'
  BY <1>1 DEF SlotInv, SlotAgrees
<1>10. CondVarAgrees'
  BY <1>1 DEF SlotInv, CondVarAgrees
<1>11. DeadSilent'
  BY <1>1 DEF SlotInv, DeadSilent
<1>12. OneDisconnect'
  BY <1>1, SlotTypes DEF SlotInv, OneDisconnect, Stranded, Stolen
<1>13. DroppingWaits'
  BY <1>1 DEF SlotInv, DroppingWaits, Stranded
<1>14. BeingCleared'
  BY <1>1, SlotTypes DEF SlotInv, BeingCleared, Stranded
<1> QED BY <1>2, <1>3, <1>4, <1>5, <1>6, <1>7, <1>8, <1>9, <1>10, <1>11,
     <1>12, <1>13, <1>14 DEF
     SlotInv

-----------------------------------------------------------------------------
(* The disconnection                                                       *)

\* The main loop takes a command.
LEMMA DTakeSlots ==
  ASSUME TypeOK, SlotInv, Calm, NEW i \in Slot, DTake(i)
  PROVE  SlotInv'
<1>1. /\ UNCHANGED <<pcC, tmp_idx, to_connect, cb, pendC, pendD, link,
                    connected_proxy, con_mac_addr, pt_cond_var,
                    hld_connected_proxy, g_con_method_param>>
      /\ pcD = "idle" /\ pcD' = "want"
  BY DEF DTake, ctrl, glob, threadC, bluez
<1>2. OneCall' /\ ParamIsOwn' /\ SlotReserved' /\ SlotArmed' /\ ChosenOnce' /\
      SlotAgrees' /\ LinkAgrees' /\ CondVarAgrees' /\ HeldAgrees' /\ HeldOnce'
      /\ CallbackAgrees' /\ DeadSilent' /\ MacMatchesSlot'
  BY <1>1 DEF SlotInv, OneCall, ParamIsOwn, SlotReserved, SlotArmed,
     ChosenOnce, SlotAgrees, LinkAgrees, CondVarAgrees, HeldAgrees, HeldOnce,
     CallbackAgrees, DeadSilent, MacMatchesSlot, CTrying
<1>3. QuietRun'
  BY <1>1 DEF SlotInv, QuietRun
<1>4. OneDisconnect'
  BY <1>1 DEF SlotInv, OneDisconnect, Stranded, Stolen
<1>5. DroppingWaits'
  BY <1>1 DEF SlotInv, DroppingWaits, Stranded
<1>6. BeingCleared'
  BY <1>1, SlotTypes DEF SlotInv, BeingCleared, Stranded
<1> QED BY <1>2, <1>3, <1>4, <1>5, <1>6 DEF
     SlotInv

\* It gets the flag.
LEMMA DFlagSlots ==
  ASSUME TypeOK, SlotInv, Calm, DFlag
  PROVE  SlotInv'
<1>1. /\ UNCHANGED <<pcC, tmp_idx, to_connect, dis_idx, cb, pendC, pendD,
                    link, connected_proxy, con_mac_addr, pt_cond_var,
                    hld_connected_proxy, g_con_method_param>>
      /\ pcD = "want" /\ pcD' = "check"
  BY DEF DFlag, glob, threadC, bluez
<1>2. OneCall' /\ ParamIsOwn' /\ SlotReserved' /\ SlotArmed' /\ ChosenOnce' /\
      SlotAgrees' /\ LinkAgrees' /\ CondVarAgrees' /\ HeldAgrees' /\ HeldOnce'
      /\ CallbackAgrees' /\ DeadSilent' /\ MacMatchesSlot'
  BY <1>1 DEF SlotInv, OneCall, ParamIsOwn, SlotReserved, SlotArmed,
     ChosenOnce, SlotAgrees, LinkAgrees, CondVarAgrees, HeldAgrees, HeldOnce,
     CallbackAgrees, DeadSilent, MacMatchesSlot, CTrying
<1>3. QuietRun'
  BY <1>1 DEF SlotInv, QuietRun
<1>4. OneDisconnect'
  BY <1>1 DEF SlotInv, OneDisconnect, Stranded, Stolen
<1>5. DroppingWaits'
  BY <1>1 DEF SlotInv, DroppingWaits, Stranded
<1>6. BeingCleared'
  BY <1>1, SlotTypes DEF SlotInv, BeingCleared, Stranded
<1> QED BY <1>2, <1>3, <1>4, <1>5, <1>6 DEF
     SlotInv

\* It has nothing to disconnect.
LEMMA DSkipSlots ==
  ASSUME TypeOK, SlotInv, Calm, DSkip
  PROVE  SlotInv'
<1>1. /\ UNCHANGED <<pcC, tmp_idx, to_connect, dis_idx, cb, pendC, pendD,
                    link, connected_proxy, con_mac_addr, pt_cond_var,
                    hld_connected_proxy, g_con_method_param>>
      /\ pcD = "check" /\ pcD' = "exit"
  BY DEF DSkip, glob, threadC, bluez
<1>2. OneCall' /\ ParamIsOwn' /\ SlotReserved' /\ SlotArmed' /\ ChosenOnce' /\
      SlotAgrees' /\ LinkAgrees' /\ CondVarAgrees' /\ HeldAgrees' /\ HeldOnce'
      /\ CallbackAgrees' /\ DeadSilent' /\ MacMatchesSlot'
  BY <1>1 DEF SlotInv, OneCall, ParamIsOwn, SlotReserved, SlotArmed,
     ChosenOnce, SlotAgrees, LinkAgrees, CondVarAgrees, HeldAgrees, HeldOnce,
     CallbackAgrees, DeadSilent, MacMatchesSlot, CTrying
<1>3. QuietRun'
  BY <1>1 DEF SlotInv, QuietRun
<1>4. OneDisconnect'
  BY <1>1 DEF SlotInv, OneDisconnect, Stranded, Stolen
<1>5. DroppingWaits'
  BY <1>1 DEF SlotInv, DroppingWaits, Stranded
<1>6. BeingCleared'
  BY <1>1, SlotTypes DEF SlotInv, BeingCleared, Stranded
<1> QED BY <1>2, <1>3, <1>4, <1>5, <1>6 DEF
     SlotInv

\* It leaves the wait.
LEMMA DWokenSlots ==
  ASSUME TypeOK, SlotInv, Calm, DWoken
  PROVE  SlotInv'
<1>1. /\ UNCHANGED <<pcC, tmp_idx, to_connect, dis_idx, cb, pendC, pendD,
                    link, connected_proxy, con_mac_addr, pt_cond_var,
                    hld_connected_proxy, g_con_method_param>>
      /\ pcD = "woken" /\ pcD' = "exit"
  BY DEF DWoken, glob, threadC, bluez
<1>2. OneCall' /\ ParamIsOwn' /\ SlotReserved' /\ SlotArmed' /\ ChosenOnce' /\
      SlotAgrees' /\ LinkAgrees' /\ CondVarAgrees' /\ HeldAgrees' /\ HeldOnce'
      /\ CallbackAgrees' /\ DeadSilent' /\ MacMatchesSlot'
  BY <1>1 DEF SlotInv, OneCall, ParamIsOwn, SlotReserved, SlotArmed,
     ChosenOnce, SlotAgrees, LinkAgrees, CondVarAgrees, HeldAgrees, HeldOnce,
     CallbackAgrees, DeadSilent, MacMatchesSlot, CTrying
<1>3. QuietRun'
  BY <1>1 DEF SlotInv, QuietRun
<1>4. OneDisconnect'
  BY <1>1 DEF SlotInv, OneDisconnect, Stranded, Stolen
<1>5. DroppingWaits'
  BY <1>1 DEF SlotInv, DroppingWaits, Stranded
<1>6. BeingCleared'
  BY <1>1, SlotTypes DEF SlotInv, BeingCleared, Stranded
<1> QED BY <1>2, <1>3, <1>4, <1>5, <1>6 DEF
     SlotInv

\* It asks BlueZ to remove the device.
LEMMA DRemoveSlots ==
  ASSUME TypeOK, SlotInv, Calm, DRemove
  PROVE  SlotInv'
<1>1. /\ UNCHANGED <<pcC, tmp_idx, to_connect, dis_idx, cb, pendC, pendD,
                    link, connected_proxy, con_mac_addr, pt_cond_var,
                    hld_connected_proxy, g_con_method_param>>
      /\ pcD = "exit" /\ pcD' = "deinit"
  BY DEF DRemove, ctrl, glob, threadC
<1>2. OneCall' /\ ParamIsOwn' /\ SlotReserved' /\ SlotArmed' /\ ChosenOnce' /\
      SlotAgrees' /\ LinkAgrees' /\ CondVarAgrees' /\ HeldAgrees' /\ HeldOnce'
      /\ CallbackAgrees' /\ DeadSilent' /\ MacMatchesSlot'
  BY <1>1 DEF SlotInv, OneCall, ParamIsOwn, SlotReserved, SlotArmed,
     ChosenOnce, SlotAgrees, LinkAgrees, CondVarAgrees, HeldAgrees, HeldOnce,
     CallbackAgrees, DeadSilent, MacMatchesSlot, CTrying
<1>3. QuietRun'
  BY <1>1 DEF SlotInv, QuietRun
<1>4. OneDisconnect'
  BY <1>1 DEF SlotInv, OneDisconnect, Stranded, Stolen
<1>5. DroppingWaits'
  BY <1>1 DEF SlotInv, DroppingWaits, Stranded
<1>6. BeingCleared'
  BY <1>1, SlotTypes DEF SlotInv, BeingCleared, Stranded
<1> QED BY <1>2, <1>3, <1>4, <1>5, <1>6 DEF
     SlotInv

\* It calls Disconnect for the device in its slot, whose link is up.
LEMMA DCallSlots ==
  ASSUME TypeOK, SlotInv, Calm, DCall
  PROVE  SlotInv'
<1>1. /\ UNCHANGED <<pcC, tmp_idx, to_connect, dis_idx, cb, pendC, link,
                    connected_proxy, con_mac_addr, hld_connected_proxy,
                    g_con_method_param>>
      /\ pcD = "check" /\ pcD' = "wait" /\ dis_idx \in Slot
      /\ connected_proxy[dis_idx] \in Proxy
      /\ ~Stranded => link[connected_proxy[dis_idx]] = "up" /\ pendD = {}
      /\ pendD' = pendD \cup {[i |-> dis_idx, p |-> connected_proxy[dis_idx]]}
      /\ \A j \in Slot : /\ pt_cond_var'[j].magic = pt_cond_var[j].magic
                         /\ pt_cond_var'[j].proxy = pt_cond_var[j].proxy
                         /\ pt_cond_var'[j].done => pt_cond_var[j].done
      /\ ~pt_cond_var'[dis_idx].done
  <2>1. /\ pcD = "check" /\ pcD' = "wait" /\ dis_idx \in Slot
        /\ connected_proxy[dis_idx] # NoProxy
        /\ link[connected_proxy[dis_idx]] # "down"
        /\ pendD' = pendD \cup {[i |-> dis_idx, p |-> connected_proxy[dis_idx]]}
    BY SlotTypes DEF DCall, IsTarget, Calm
  <2>2. connected_proxy[dis_idx] \in Proxy
    BY <2>1, SlotTypes
  <2>3. ASSUME ~Stranded
        PROVE  link[connected_proxy[dis_idx]] = "up" /\ pendD = {}
    <3>1. pendD = {}
      BY <2>1, <2>3 DEF SlotInv, OneDisconnect, Stolen
    <3>2. link[connected_proxy[dis_idx]] # "dropping"
      BY <2>1, <2>3 DEF SlotInv, DroppingWaits, BeingCleared
    <3> QED BY <2>1, <2>2, <3>1, <3>2, SlotTypes
  <2>4. pt_cond_var[dis_idx].proxy = connected_proxy[dis_idx]
    BY <2>1 DEF SlotInv, SlotAgrees
  <2>5. pt_cond_var' = [pt_cond_var EXCEPT ![dis_idx].done = FALSE,
                                           ![dis_idx].proxy = connected_proxy[dis_idx]]
    BY DEF DCall
  <2>6. pt_cond_var \in [Slot -> CondVar]
    BY SlotTypes
  <2>7. /\ \A j \in Slot : /\ pt_cond_var'[j].magic = pt_cond_var[j].magic
                           /\ pt_cond_var'[j].proxy = pt_cond_var[j].proxy
                           /\ pt_cond_var'[j].done => pt_cond_var[j].done
        /\ ~pt_cond_var'[dis_idx].done
    BY <2>1, <2>4, <2>5, <2>6 DEF CondVar
  <2> QED BY <2>1, <2>2, <2>3, <2>7 DEF DCall, glob, threadC
<1>2. ParamIsOwn' /\ ChosenOnce' /\ LinkAgrees' /\ HeldAgrees' /\ HeldOnce' /\
      CallbackAgrees' /\ MacMatchesSlot'
  BY <1>1 DEF SlotInv, ParamIsOwn, ChosenOnce, LinkAgrees, HeldAgrees,
     HeldOnce, CallbackAgrees, MacMatchesSlot
<1>3. QuietRun'
  BY <1>1, SlotTypes DEF SlotInv, QuietRun
<1>4. OneCall'
  BY <1>1, SlotTypes DEF SlotInv, OneCall
<1>5. SlotReserved'
  BY <1>1, SlotTypes DEF SlotInv, SlotReserved, CTrying
<1>6. SlotArmed'
  BY <1>1, SlotTypes DEF SlotInv, OneCall, SlotArmed
<1>7. SlotAgrees'
  BY <1>1, SlotTypes DEF SlotInv, SlotAgrees
<1>8. CondVarAgrees'
  BY <1>1, SlotTypes DEF SlotInv, CondVarAgrees
<1>9. DeadSilent'
  BY <1>1, SlotTypes DEF SlotInv, DeadSilent
<1>10. OneDisconnect'
  BY <1>1, SlotTypes DEF SlotInv, OneDisconnect, Stranded, Stolen
<1>11. DroppingWaits'
  BY <1>1, SlotTypes DEF SlotInv, DroppingWaits, Stranded
<1>12. BeingCleared'
  BY <1>1, SlotTypes DEF SlotInv, BeingCleared, Stranded
<1> QED BY <1>2, <1>3, <1>4, <1>5, <1>6, <1>7, <1>8, <1>9, <1>10, <1>11, <1>12 DEF
     SlotInv

\* It is woken by its own reply, or by the one that a pass waits for.
LEMMA DWakeSlots ==
  ASSUME TypeOK, SlotInv, Calm, DWake
  PROVE  SlotInv'
<1>1. /\ UNCHANGED <<pcC, tmp_idx, to_connect, dis_idx, cb, pendC, pendD,
                    link, connected_proxy, con_mac_addr, hld_connected_proxy,
                    g_con_method_param>>
      /\ pcD = "wait" /\ pcD' = "woken" /\ dis_idx \in Slot
      /\ pt_cond_var[dis_idx].done /\ ~pt_cond_var'[dis_idx].done
      /\ \A j \in Slot : /\ pt_cond_var'[j].magic = pt_cond_var[j].magic
                         /\ pt_cond_var'[j].proxy = pt_cond_var[j].proxy
                         /\ pt_cond_var'[j].done => pt_cond_var[j].done
  <2>1. dis_idx \in Slot
    BY SlotTypes DEF DWake
  <2>2. /\ ~pt_cond_var'[dis_idx].done
        /\ \A j \in Slot : /\ pt_cond_var'[j].magic = pt_cond_var[j].magic
                           /\ pt_cond_var'[j].proxy = pt_cond_var[j].proxy
                           /\ pt_cond_var'[j].done => pt_cond_var[j].done
    BY <2>1, SlotTypes, CondVarSet DEF DWake
  <2> QED BY <2>1, <2>2 DEF DWake, glob, threadC, bluez
<1>2. ParamIsOwn' /\ ChosenOnce' /\ LinkAgrees' /\ HeldAgrees' /\ HeldOnce' /\
      CallbackAgrees' /\ MacMatchesSlot'
  BY <1>1 DEF SlotInv, ParamIsOwn, ChosenOnce, LinkAgrees, HeldAgrees,
     HeldOnce, CallbackAgrees, MacMatchesSlot
<1>3. QuietRun'
  BY <1>1, SlotTypes DEF SlotInv, QuietRun
<1>4. OneCall'
  BY <1>1, SlotTypes DEF SlotInv, OneCall
<1>5. SlotReserved'
  BY <1>1, SlotTypes DEF SlotInv, SlotReserved, CTrying
<1>6. SlotArmed'
  BY <1>1, SlotTypes DEF SlotInv, OneCall, SlotArmed
<1>7. SlotAgrees'
  BY <1>1, SlotTypes DEF SlotInv, SlotAgrees
<1>8. CondVarAgrees'
  BY <1>1, SlotTypes DEF SlotInv, CondVarAgrees
<1>9. DeadSilent'
  BY <1>1, SlotTypes DEF SlotInv, DeadSilent
<1>10. OneDisconnect'
  <2>1. SUFFICES ASSUME ~Stranded', NEW d \in pendD
                 PROVE  /\ connected_proxy[d.i] = d.p /\ link[d.p] = "up"
                        /\ dis_idx = d.i /\ Stolen'
                        /\ ~pt_cond_var'[d.i].done
    BY <1>1 DEF OneDisconnect
  <2>2. d.i \in Slot /\ (pcC = "wait" => tmp_idx \in Slot /\ to_connect \in Proxy)
    BY SlotTypes
  <2>3. ~Stranded
    BY <1>1, <2>1, <2>2 DEF Stranded
  <2>4. /\ connected_proxy[d.i] = d.p /\ link[d.p] = "up" /\ dis_idx = d.i
        /\ pt_cond_var[d.i].done => pcC = "wait" /\ tmp_idx = d.i
    BY <2>3 DEF SlotInv, OneDisconnect
  <2>5. pcC = "wait" /\ tmp_idx = dis_idx
    BY <1>1, <2>4
  <2>6. pendC[to_connect] = 0
    BY <1>1, <2>2, <2>5, SlotTypes DEF SlotInv, OneCall
  <2> QED BY <1>1, <2>4, <2>5, <2>6 DEF Stolen
<1>11. DroppingWaits'
  BY <1>1, SlotTypes DEF SlotInv, DeadSilent, DroppingWaits, Stranded
<1>12. BeingCleared'
  BY <1>1, SlotTypes DEF SlotInv, BeingCleared, Stranded
<1> QED BY <1>2, <1>3, <1>4, <1>5, <1>6, <1>7, <1>8, <1>9, <1>10, <1>11, <1>12 DEF
     SlotInv

\* It destroys the condition variable; a pass whose reply it took is stranded.
LEMMA DDeinitSlots ==
  ASSUME TypeOK, SlotInv, Calm, DDeinit
  PROVE  SlotInv'
<1>1. /\ UNCHANGED <<pcC, tmp_idx, to_connect, cb, pendC, pendD, link,
                    connected_proxy, con_mac_addr, hld_connected_proxy,
                    g_con_method_param>>
      /\ pcD = "deinit" /\ pcD' = "idle" /\ dis_idx \in Slot
      /\ pt_cond_var'[dis_idx].magic = "DEINIT"
      /\ \A j \in Slot :
           /\ pt_cond_var[j].magic = "DEINIT" => pt_cond_var'[j].magic = "DEINIT"
           /\ pt_cond_var'[j].proxy = pt_cond_var[j].proxy
           /\ pt_cond_var'[j].done =>
                /\ pt_cond_var[j].done
                /\ pt_cond_var'[j].magic = pt_cond_var[j].magic
  <2>1. dis_idx \in Slot
    BY SlotTypes DEF DDeinit
  <2>2. pt_cond_var' = [pt_cond_var EXCEPT ![dis_idx] = DeinitCondVar(@)]
    BY DEF DDeinit
  <2>3. /\ pt_cond_var'[dis_idx].magic = "DEINIT"
        /\ \A j \in Slot :
          /\ pt_cond_var[j].magic = "DEINIT" => pt_cond_var'[j].magic = "DEINIT"
          /\ pt_cond_var'[j].proxy = pt_cond_var[j].proxy
          /\ pt_cond_var'[j].done => /\ pt_cond_var[j].done
                                     /\ pt_cond_var'[j].magic = pt_cond_var[j].magic
    BY <2>1, <2>2, SlotTypes, CondVarRenew
  <2> QED BY <2>1, <2>3 DEF DDeinit, glob, threadC, bluez
<1>2. ParamIsOwn' /\ ChosenOnce' /\ LinkAgrees' /\ HeldAgrees' /\ HeldOnce' /\
      CallbackAgrees' /\ MacMatchesSlot'
  BY <1>1 DEF SlotInv, ParamIsOwn, ChosenOnce, LinkAgrees, HeldAgrees,
     HeldOnce, CallbackAgrees, MacMatchesSlot
<1>3. QuietRun'
  BY <1>1, SlotTypes DEF SlotInv, QuietRun
<1>4. OneCall'
  BY <1>1, SlotTypes DEF SlotInv, OneCall
<1>5. SlotReserved'
  BY <1>1, SlotTypes DEF SlotInv, SlotReserved, CTrying
<1>6. SlotArmed'
  BY <1>1, SlotTypes DEF SlotInv, OneCall, SlotArmed
<1>7. SlotAgrees'
  BY <1>1, SlotTypes DEF SlotInv, SlotAgrees
<1>8. CondVarAgrees'
  BY <1>1, SlotTypes DEF SlotInv, CondVarAgrees
<1>9. DeadSilent'
  BY <1>1, SlotTypes DEF SlotInv, DeadSilent
<1>10. OneDisconnect'
  BY <1>1, SlotTypes DEF SlotInv, OneDisconnect, Stranded, Stolen
<1>11. DroppingWaits'
  BY <1>1, SlotTypes DEF SlotInv, DroppingWaits, Stranded
<1>12. BeingCleared'
  <2>1. cb.k # "disconnected"
    BY DEF DDeinit, Calm
  <2> QED BY <1>1, <2>1 DEF BeingCleared
<1> QED BY <1>2, <1>3, <1>4, <1>5, <1>6, <1>7, <1>8, <1>9, <1>10, <1>11, <1>12 DEF
     SlotInv

-----------------------------------------------------------------------------
(* The callbacks                                                           *)

\* A device is in one slot.
LEMMA OneSlot ==
  ASSUME TypeOK, SlotInv, NEW i \in Slot, NEW j \in Slot,
         connected_proxy[i] # NoProxy, connected_proxy[i] = connected_proxy[j]
  PROVE  i = j
  BY DEF SlotInv, SlotAgrees, HeldOnce

\* The reply of Connect finds the device in the slot of the pass that called.
LEMMA ConnectReplySlots ==
  ASSUME TypeOK, SlotInv, Calm, NEW p \in Proxy, ConnectReply(p)
  PROVE  SlotInv'
<1>1. /\ UNCHANGED <<pcC, tmp_idx, to_connect, pcD, dis_idx, pendD, link,
                    connected_proxy, con_mac_addr, hld_connected_proxy,
                    g_con_method_param>>
      /\ pcC = "wait" /\ to_connect = p /\ tmp_idx \in Slot
      /\ pendC[p] = 1 /\ \A q \in Proxy : pendC'[q] = 0
      /\ connected_proxy[tmp_idx] = p /\ cb.k = "idle"
      /\ \/ cb'.k = "idle"
         \/ /\ cb'.k = "connected" /\ cb'.i = tmp_idx /\ cb'.p = p
            /\ cb'.mac = MacOf[p]
      /\ \A j \in Slot : /\ pt_cond_var'[j].magic = pt_cond_var[j].magic
                         /\ pt_cond_var'[j].proxy = pt_cond_var[j].proxy
                         /\ j # tmp_idx => pt_cond_var'[j].done = pt_cond_var[j].done
      /\ pt_cond_var'[tmp_idx].done => pt_cond_var[tmp_idx].magic = "INIT"
  <2>1. /\ pcC = "wait" /\ to_connect = p /\ tmp_idx \in Slot /\ pendC[p] = 1
        /\ ~pt_cond_var[tmp_idx].done
    BY SlotTypes DEF ConnectReply, SlotInv, OneCall
  <2>2. /\ g_con_method_param.idx = tmp_idx /\ g_con_method_param.mac = MacOf[p]
    BY <2>1 DEF SlotInv, ParamIsOwn
  <2>3. ConnectAnswer(p) # {} /\ \A ok \in ConnectAnswer(p) : ok
    BY DEF ConnectReply, ConnectAnswer, Calm
  <2>4. link[p] = "up"
    BY <2>3 DEF ConnectAnswer, Calm
  <2>5. connected_proxy[tmp_idx] = p
    BY <2>1, <2>4 DEF SlotInv, LinkAgrees, ChosenOnce
  <2>6. cb.k = "idle"
    BY IdleType DEF ConnectReply
  <2>7. \/ cb'.k = "idle"
        \/ /\ cb'.k = "connected" /\ cb'.i = tmp_idx /\ cb'.p = p
           /\ cb'.mac = MacOf[p]
    BY <2>2, <2>3, <2>6 DEF ConnectReply
  <2>8. \A q \in Proxy : pendC'[q] = 0
    <3>1. \A q \in Proxy : q # p => pendC[q] = 0
      BY <2>1, SlotTypes DEF SlotInv, OneCall
    <3> QED BY <2>1, <3>1, SlotTypes DEF ConnectReply
  <2>9. \/ pt_cond_var' = pt_cond_var
        \/ /\ pt_cond_var' = [pt_cond_var EXCEPT ![tmp_idx].done = TRUE]
           /\ pt_cond_var[tmp_idx].magic = "INIT"
    BY <2>2 DEF ConnectReply, Accepted
  <2>10. /\ \A j \in Slot :
              /\ pt_cond_var'[j].magic = pt_cond_var[j].magic
              /\ pt_cond_var'[j].proxy = pt_cond_var[j].proxy
              /\ j # tmp_idx => pt_cond_var'[j].done = pt_cond_var[j].done
         /\ pt_cond_var'[tmp_idx].done => pt_cond_var[tmp_idx].magic = "INIT"
    <3>1. pt_cond_var \in [Slot -> CondVar]
      BY SlotTypes
    <3> QED BY <2>1, <2>9, <3>1 DEF CondVar
  <2> QED BY <2>1, <2>5, <2>6, <2>7, <2>8, <2>10 DEF ConnectReply, glob,
     threadC, threadD
<1>2. ParamIsOwn' /\ LinkAgrees' /\ HeldOnce' /\ MacMatchesSlot'
  BY <1>1 DEF SlotInv, ParamIsOwn, LinkAgrees, HeldOnce, MacMatchesSlot
<1>3. QuietRun'
  BY <1>1, SlotTypes DEF SlotInv, QuietRun
<1>4. OneCall'
  BY <1>1, SlotTypes DEF SlotInv, OneCall
<1>5. SlotReserved'
  BY <1>1, SlotTypes DEF SlotInv, SlotReserved, CTrying
<1>6. SlotArmed'
  BY <1>1, SlotTypes DEF SlotInv, SlotArmed
<1>7. ChosenOnce'
  BY <1>1, SlotTypes DEF SlotInv, ChosenOnce
<1>8. SlotAgrees'
  BY <1>1, SlotTypes DEF SlotInv, SlotAgrees
<1>9. CondVarAgrees'
  BY <1>1, SlotTypes DEF SlotInv, OneCall, CondVarAgrees
<1>10. HeldAgrees'
  BY <1>1, SlotTypes DEF SlotInv, HeldAgrees
<1>11. CallbackAgrees'
  BY <1>1 DEF SlotInv, CallbackAgrees
<1>12. DeadSilent'
  BY <1>1 DEF SlotInv, DeadSilent
<1>13. OneDisconnect'
  BY <1>1, SlotTypes DEF SlotInv, OneDisconnect, Stranded, Stolen
<1>14. DroppingWaits'
  BY <1>1, SlotTypes DEF SlotInv, DroppingWaits, Stranded
<1>15. BeingCleared'
  BY <1>1, SlotTypes DEF SlotInv, BeingCleared, Stranded
<1> QED BY <1>2, <1>3, <1>4, <1>5, <1>6, <1>7, <1>8, <1>9, <1>10, <1>11,
     <1>12, <1>13, <1>14, <1>15 DEF
     SlotInv

\* The second half of a connection leaves the slots as they are.
LEMMA ConnectSucceededEffect ==
  ASSUME TypeOK, SlotInv, Calm, ConnectSucceeded
  PROVE  /\ UNCHANGED <<pcC, tmp_idx, to_connect, pcD, dis_idx, pendC, pendD,
                       link, connected_proxy, pt_cond_var,
                       hld_connected_proxy, g_con_method_param>>
         /\ cb.k = "connected" /\ cb'.k = "idle" /\ cb.i \in Slot
         /\ connected_proxy[cb.i] = cb.p /\ cb.p \in Proxy
         /\ con_mac_addr'[cb.i] = MacOf[cb.p]
         /\ \A j \in Slot \ {cb.i} : con_mac_addr'[j] \in {NoMac, con_mac_addr[j]}
<1>1. /\ cb.k = "connected" /\ cb'.k = "idle" /\ cb.i \in Slot /\ cb.p \in Proxy
  BY IdleType DEF ConnectSucceeded, TypeOK, CbType
<1>2. connected_proxy[cb.i] = cb.p /\ cb.mac = MacOf[cb.p]
  BY <1>1 DEF SlotInv, CallbackAgrees
<1>3. connected_proxy' = connected_proxy /\ pt_cond_var' = pt_cond_var
  BY <1>1, <1>2, SlotTypes DEF ConnectSucceeded
<1>4. /\ con_mac_addr'[cb.i] = MacOf[cb.p]
      /\ \A j \in Slot \ {cb.i} : con_mac_addr'[j] \in {NoMac, con_mac_addr[j]}
  BY <1>1, <1>2 DEF ConnectSucceeded
<1> QED BY <1>1, <1>2, <1>3, <1>4 DEF ConnectSucceeded, glob, threadC,
   threadD, bluez

\* It sets the address of the slot.
LEMMA ConnectSucceededSlots ==
  ASSUME TypeOK, SlotInv, Calm, ConnectSucceeded
  PROVE  SlotInv'
<1>1. OneCall' /\ ParamIsOwn' /\ SlotReserved' /\ SlotArmed' /\ ChosenOnce' /\
      SlotAgrees' /\ LinkAgrees' /\ HeldOnce' /\ DeadSilent' /\ OneDisconnect'
  BY ConnectSucceededEffect DEF SlotInv, OneCall, ParamIsOwn, SlotReserved, SlotArmed,
     ChosenOnce, SlotAgrees, LinkAgrees, HeldOnce, DeadSilent, OneDisconnect,
     CTrying, Stolen, Stranded
<1>2. QuietRun'
  BY ConnectSucceededEffect DEF SlotInv, QuietRun
<1>3. CondVarAgrees'
  BY ConnectSucceededEffect DEF SlotInv, CondVarAgrees
<1>4. HeldAgrees'
  BY ConnectSucceededEffect DEF SlotInv, HeldAgrees
<1>5. CallbackAgrees'
  BY ConnectSucceededEffect DEF SlotInv, CallbackAgrees
<1>6. DroppingWaits'
  BY ConnectSucceededEffect DEF SlotInv, DroppingWaits, Stranded
<1>7. MacMatchesSlot'
  BY ConnectSucceededEffect, SlotTypes DEF SlotInv, MacMatchesSlot
<1>8. BeingCleared'
  BY ConnectSucceededEffect DEF BeingCleared
<1> QED BY <1>1, <1>2, <1>3, <1>4, <1>5, <1>6, <1>7, <1>8 DEF
     SlotInv

\* The reply of Disconnect says that the link goes down.  It cannot wake a pass
\* whose Connect has no reply.
LEMMA DisconnectReplySlots ==
  ASSUME TypeOK, SlotInv, Calm, NEW d \in pendD, DisconnectReply(d)
  PROVE  SlotInv'
<1>1. /\ UNCHANGED <<pcC, tmp_idx, to_connect, pcD, dis_idx, pendC,
                    connected_proxy, con_mac_addr, hld_connected_proxy,
                    g_con_method_param>>
      /\ d.i \in Slot /\ d.p \in Proxy /\ cb.k = "idle"
      /\ pendD' = pendD \ {d}
      /\ ~Stranded => /\ connected_proxy[d.i] = d.p /\ link[d.p] = "up"
                      /\ dis_idx = d.i
      /\ \/ link' = link /\ link[d.p] = "down" /\ cb'.k = "idle"
         \/ /\ link' = [link EXCEPT ![d.p] = "dropping"] /\ link[d.p] # "down"
            /\ pendC[d.p] = 0
            /\ cb'.k = "idle" \/ (cb'.k = "disconnected" /\ cb'.p = d.p)
      /\ \/ pt_cond_var' = pt_cond_var /\ ~Accepted(d.i, d.p)
         \/ /\ Accepted(d.i, d.p) /\ pt_cond_var[d.i].magic = "INIT"
            /\ link[d.p] = "down" \/ cb'.k = "disconnected"
      /\ \A j \in Slot : /\ pt_cond_var'[j].magic = pt_cond_var[j].magic
                         /\ pt_cond_var'[j].proxy = pt_cond_var[j].proxy
                         /\ \/ pt_cond_var'[j].done = pt_cond_var[j].done
                            \/ j = d.i /\ Accepted(d.i, d.p)
  <2>1. d.i \in Slot /\ d.p \in Proxy
    BY SlotTypes
  <2>2. cb = Idle /\ cb.k = "idle" /\ Idle.k = "idle"
    BY IdleType DEF DisconnectReply
  <2>3. PICK ok \in DisconnectAnswer(d.p) :
          /\ link' = IF ok THEN [link EXCEPT ![d.p] = "dropping"] ELSE link
          /\ IF Accepted(d.i, d.p)
             THEN /\ pt_cond_var' = [pt_cond_var EXCEPT ![d.i].done = TRUE]
                  /\ cb' = IF ok THEN [Idle EXCEPT !.k = "disconnected",
                                                   !.p = d.p]
                                 ELSE Idle
             ELSE UNCHANGED <<pt_cond_var, cb>>
    BY DEF DisconnectReply
  <2>4. IF ok THEN link[d.p] # "down" /\ pendC[d.p] = 0 ELSE link[d.p] = "down"
    BY <2>3 DEF DisconnectAnswer, Calm
  <2>5. /\ [Idle EXCEPT !.k = "disconnected", !.p = d.p].k = "disconnected"
        /\ [Idle EXCEPT !.k = "disconnected", !.p = d.p].p = d.p
    BY DEF Idle
  <2>6. \/ link' = link /\ link[d.p] = "down" /\ cb'.k = "idle"
        \/ /\ link' = [link EXCEPT ![d.p] = "dropping"] /\ link[d.p] # "down"
           /\ pendC[d.p] = 0
           /\ cb'.k = "idle" \/ (cb'.k = "disconnected" /\ cb'.p = d.p)
    BY <2>2, <2>3, <2>4, <2>5
  <2>7. \/ pt_cond_var' = pt_cond_var /\ ~Accepted(d.i, d.p)
        \/ /\ Accepted(d.i, d.p) /\ pt_cond_var[d.i].magic = "INIT"
           /\ link[d.p] = "down" \/ cb'.k = "disconnected"
    BY <2>3, <2>4, <2>5 DEF Accepted
  <2>8. \/ pt_cond_var' = pt_cond_var
        \/ /\ pt_cond_var' = [pt_cond_var EXCEPT ![d.i].done = TRUE]
           /\ Accepted(d.i, d.p)
    BY <2>3
  <2>9. \A j \in Slot : /\ pt_cond_var'[j].magic = pt_cond_var[j].magic
                        /\ pt_cond_var'[j].proxy = pt_cond_var[j].proxy
                        /\ \/ pt_cond_var'[j].done = pt_cond_var[j].done
                           \/ j = d.i /\ Accepted(d.i, d.p)
    <3>1. pt_cond_var \in [Slot -> CondVar]
      BY SlotTypes
    <3> QED BY <2>1, <2>8, <3>1 DEF CondVar
  <2>10. ~Stranded => /\ connected_proxy[d.i] = d.p /\ link[d.p] = "up"
                      /\ dis_idx = d.i
    BY DEF SlotInv, OneDisconnect
  <2> QED BY <2>1, <2>2, <2>6, <2>7, <2>9, <2>10 DEF DisconnectReply, glob,
     threadC, threadD
<1>2. ParamIsOwn' /\ ChosenOnce' /\ HeldOnce' /\ MacMatchesSlot'
  BY <1>1 DEF SlotInv, ParamIsOwn, ChosenOnce, HeldOnce, MacMatchesSlot
<1>3. QuietRun'
  BY <1>1, SlotTypes DEF SlotInv, QuietRun
<1>4. OneCall'
  <2>1. SUFFICES ASSUME NEW p \in Proxy, pendC[p] > 0
                 PROVE  ~pt_cond_var'[tmp_idx].done
    BY <1>1 DEF SlotInv, OneCall
  <2>2. pcC = "wait" /\ ~pt_cond_var[tmp_idx].done /\ tmp_idx \in Slot
    BY <2>1, SlotTypes DEF SlotInv, OneCall
  <2>3. SUFFICES ASSUME tmp_idx = d.i, Accepted(d.i, d.p)
                 PROVE  FALSE
    BY <1>1, <2>2
  <2>4. ~Stranded
    BY <1>1, <2>3 DEF Stranded
  <2>5. connected_proxy[tmp_idx] \in {NoProxy, p}
    BY <2>1 DEF SlotInv, SlotArmed
  <2>6. d.p = p
    BY <1>1, <2>3, <2>4, <2>5, SlotTypes
  <2> QED BY <1>1, <2>1, <2>4, <2>6, SlotTypes
<1>5. SlotReserved'
  BY <1>1, SlotTypes DEF SlotInv, SlotReserved, CTrying
<1>6. SlotArmed'
  BY <1>1, SlotTypes DEF SlotInv, OneCall, SlotArmed
<1>7. SlotAgrees'
  BY <1>1, SlotTypes DEF SlotInv, SlotAgrees
<1>8. LinkAgrees'
  BY <1>1, SlotTypes DEF SlotInv, LinkAgrees
<1>9. CondVarAgrees'
  BY <1>1, SlotTypes DEF SlotInv, CondVarAgrees
<1>10. HeldAgrees'
  BY <1>1, SlotTypes DEF SlotInv, HeldAgrees
<1>11. CallbackAgrees'
  BY <1>1, SlotTypes DEF SlotInv, CallbackAgrees
<1>12. DeadSilent'
  BY <1>1, SlotTypes DEF SlotInv, DeadSilent
<1>13. OneDisconnect'
  <2>1. SUFFICES ASSUME ~Stranded, NEW e \in pendD, e # d
                 PROVE  FALSE
    BY <1>1, SlotTypes DEF OneDisconnect, Stranded
  <2>2. e.i = d.i /\ e.p = d.p
    BY <1>1, <2>1 DEF SlotInv, OneDisconnect
  <2> QED BY <2>1, <2>2, SlotTypes
<1>14. DroppingWaits'
  <2>1. SUFFICES ASSUME ~Stranded, NEW i \in Slot, connected_proxy[i] # NoProxy,
                        link'[connected_proxy[i]] = "dropping",
                        ~(cb'.k = "disconnected" /\ cb'.p = connected_proxy[i])
                 PROVE  pcD = "wait" /\ dis_idx = i /\ pt_cond_var'[i].magic = "DEINIT"
    BY <1>1, SlotTypes DEF DroppingWaits, Stranded
  <2>2. CASE connected_proxy[i] # d.p
    BY <1>1, <2>1, <2>2, SlotTypes DEF SlotInv, DroppingWaits
  <2>3. CASE connected_proxy[i] = d.p
    <3>1. i = d.i
      BY <1>1, <2>1, <2>3, OneSlot
    <3>2. ~Accepted(d.i, d.p)
      BY <1>1, <2>1, <2>3
    <3>3. pt_cond_var[d.i].proxy = d.p /\ ~MutexHeld(d.i)
      BY <2>1, <2>3, <3>1 DEF SlotInv, SlotAgrees, QuietRun, MutexHeld
    <3>4. pt_cond_var[d.i].magic = "DEINIT"
      BY <1>1, <3>2, <3>3, SlotTypes DEF Accepted, CondVar
    <3>5. ~Stolen
      BY <1>1, <2>1, <3>4 DEF Stolen, Stranded
    <3> QED BY <1>1, <2>1, <3>1, <3>4, <3>5 DEF SlotInv, OneDisconnect
  <2> QED BY <2>2, <2>3
<1>15. BeingCleared'
  <2>1. ~Stranded => pcD \in {"wait", "woken", "exit", "deinit"}
    BY DEF SlotInv, OneDisconnect, Stolen
  <2> QED BY <1>1, <2>1, SlotTypes DEF BeingCleared, Stranded
<1> QED BY <1>2, <1>3, <1>4, <1>5, <1>6, <1>7, <1>8, <1>9, <1>10, <1>11,
     <1>12, <1>13, <1>14, <1>15 DEF
     SlotInv

\* The second half of a disconnection clears the one slot that holds the
\* device, if there is one.
LEMMA DisconnectSucceededEffect ==
  ASSUME TypeOK, SlotInv, Calm, DisconnectSucceeded
  PROVE  /\ UNCHANGED <<pcC, tmp_idx, to_connect, pcD, dis_idx, pendC, pendD,
                       link, hld_connected_proxy, g_con_method_param>>
         /\ cb.k = "disconnected" /\ cb'.k = "idle" /\ cb.p \in Proxy
         /\ pendC[cb.p] = 0 /\ link[cb.p] = "dropping"
         /\ \/ connected_proxy' = connected_proxy
            \/ \E i \in Slot :
                  /\ connected_proxy[i] # NoProxy
                  /\ connected_proxy' = [connected_proxy EXCEPT ![i] = NoProxy]
         /\ \A j \in Slot : /\ connected_proxy[j] = cb.p =>
                                 /\ connected_proxy'[j] = NoProxy
                                 /\ con_mac_addr'[j] = NoMac
                                 /\ pt_cond_var'[j].proxy = NoProxy
                            /\ connected_proxy[j] # cb.p =>
                                 /\ connected_proxy'[j] = connected_proxy[j]
                                 /\ con_mac_addr'[j] = con_mac_addr[j]
                                 /\ pt_cond_var'[j].proxy = pt_cond_var[j].proxy
                            /\ pt_cond_var'[j].done = pt_cond_var[j].done
                            /\ pt_cond_var'[j].magic = pt_cond_var[j].magic
<1>1. cb.k = "disconnected" /\ cb'.k = "idle" /\ cb.p \in Proxy
  BY IdleType DEF DisconnectSucceeded, TypeOK, CbType
<1>2. pendC[cb.p] = 0 /\ link[cb.p] = "dropping"
  BY <1>1 DEF SlotInv, CallbackAgrees
<1>3. Attached(cb.p) = {} => Awaiting(cb.p) = {}
  BY <1>1, <1>2, SlotTypes DEF SlotInv, CondVarAgrees, Attached, Awaiting
<1>4. CASE Attached(cb.p) = {}
  <2>1. UNCHANGED <<connected_proxy, con_mac_addr, pt_cond_var>>
    BY <1>3, <1>4 DEF DisconnectSucceeded
  <2>2. \A j \in Slot : connected_proxy[j] # cb.p
    BY <1>4 DEF Attached
  <2> QED BY <1>1, <1>2, <2>1, <2>2 DEF DisconnectSucceeded, glob, threadC,
     threadD, bluez
<1>5. CASE Attached(cb.p) # {}
  <2> DEFINE i == First(Attached(cb.p))
  <2>1. i \in Slot /\ connected_proxy[i] = cb.p
    <3>1. Attached(cb.p) \in SUBSET Slot
      BY DEF Attached
    <3>2. i \in Attached(cb.p)
      BY <1>5, <3>1, FirstSlot
    <3> QED BY <3>2 DEF Attached
  <2>2. /\ connected_proxy' = [connected_proxy EXCEPT ![i] = NoProxy]
        /\ con_mac_addr' = [con_mac_addr EXCEPT ![i] = NoMac]
        /\ pt_cond_var' = [pt_cond_var EXCEPT ![i].proxy = NoProxy]
    BY <1>5 DEF DisconnectSucceeded, ClearedMac
  <2> HIDE DEF i
  <2>3. \A j \in Slot : connected_proxy[j] = cb.p <=> j = i
    BY <1>1, <2>1, OneSlot, NullAssumption
  <2>4. pt_cond_var \in [Slot -> CondVar]
    BY SlotTypes
  <2>5. \A j \in Slot :
           /\ pt_cond_var'[j].proxy = IF j = i THEN NoProxy
                                      ELSE pt_cond_var[j].proxy
           /\ pt_cond_var'[j].done = pt_cond_var[j].done
           /\ pt_cond_var'[j].magic = pt_cond_var[j].magic
    BY <2>1, <2>2, <2>4 DEF CondVar
  <2>6. \A j \in Slot :
           /\ connected_proxy'[j] = IF j = i THEN NoProxy ELSE connected_proxy[j]
           /\ con_mac_addr'[j] = IF j = i THEN NoMac ELSE con_mac_addr[j]
    BY <2>1, <2>2, SlotTypes
  <2>7. /\ connected_proxy[i] # NoProxy
        /\ connected_proxy' = [connected_proxy EXCEPT ![i] = NoProxy]
    BY <1>1, <2>1, <2>2, NullAssumption
  <2> QED BY <1>1, <1>2, <2>1, <2>3, <2>5, <2>6, <2>7 DEF DisconnectSucceeded,
     glob, threadC, threadD, bluez
<1> QED BY <1>4, <1>5

\* It clears the condition variable with the slot.
LEMMA DisconnectSucceededSlots ==
  ASSUME TypeOK, SlotInv, Calm, DisconnectSucceeded
  PROVE  SlotInv'
<1>1. ParamIsOwn' /\ HeldOnce'
  BY DisconnectSucceededEffect DEF SlotInv, ParamIsOwn, HeldOnce
<1>2. QuietRun'
  BY DisconnectSucceededEffect, SlotTypes DEF SlotInv, QuietRun
<1>3. OneCall'
  BY DisconnectSucceededEffect, SlotTypes DEF SlotInv, OneCall
<1>4. SlotReserved'
  BY DisconnectSucceededEffect, SlotTypes DEF SlotInv, SlotReserved, CTrying
<1>5. SlotArmed'
  BY DisconnectSucceededEffect, SlotTypes DEF SlotInv, OneCall, SlotArmed
<1>6. ChosenOnce'
  BY DisconnectSucceededEffect, SlotTypes DEF SlotInv, ChosenOnce
<1>7. SlotAgrees'
  BY DisconnectSucceededEffect, SlotTypes DEF SlotInv, SlotAgrees
<1>8. LinkAgrees'
  BY DisconnectSucceededEffect, SlotTypes DEF SlotInv, LinkAgrees
<1>9. CondVarAgrees'
  BY DisconnectSucceededEffect, SlotTypes DEF SlotInv, CondVarAgrees
<1>10. HeldAgrees'
  BY DisconnectSucceededEffect, SlotTypes DEF SlotInv, HeldAgrees
<1>11. CallbackAgrees'
  BY DisconnectSucceededEffect, SlotTypes DEF SlotInv, CallbackAgrees
<1>12. DeadSilent'
  BY DisconnectSucceededEffect, SlotTypes DEF SlotInv, DeadSilent
<1>13. OneDisconnect'
  BY DisconnectSucceededEffect, SlotTypes DEF SlotInv, OneDisconnect, Stranded, Stolen
<1>14. DroppingWaits'
  BY DisconnectSucceededEffect, SlotTypes DEF SlotInv, DroppingWaits, Stranded
<1>15. MacMatchesSlot'
  BY DisconnectSucceededEffect, SlotTypes DEF SlotInv, MacMatchesSlot
<1>16. BeingCleared'
  BY DisconnectSucceededEffect DEF BeingCleared
<1> QED BY <1>1, <1>2, <1>3, <1>4, <1>5, <1>6, <1>7, <1>8, <1>9, <1>10,
     <1>11, <1>12, <1>13, <1>14, <1>15, <1>16 DEF
     SlotInv

\* A new link takes the slot of the pass that waits for it, which is empty, and
\* no other.
LEMMA ConnectedTrueEffect ==
  ASSUME TypeOK, SlotInv, Calm, NEW p \in Proxy, ConnectedTrue(p)
  PROVE  /\ UNCHANGED <<pcC, tmp_idx, to_connect, pcD, dis_idx, cb, pendC,
                       pendD, con_mac_addr, pt_cond_var, g_con_method_param>>
         /\ pcC = "wait" /\ to_connect = p /\ tmp_idx \in Slot /\ cb.k = "idle"
         /\ pendC[p] > 0 /\ link[p] = "down"
         /\ pt_cond_var[tmp_idx].proxy = p
         /\ \A j \in Slot : connected_proxy[j] # p
         /\ connected_proxy[tmp_idx] = NoProxy
         /\ link' = [link EXCEPT ![p] = "up"]
         /\ connected_proxy' = [connected_proxy EXCEPT ![tmp_idx] = p]
         /\ hld_connected_proxy' = [hld_connected_proxy EXCEPT ![tmp_idx] = p]
<1>1. /\ pendC[p] > 0 /\ link[p] = "down" /\ cb.k = "idle"
      /\ link' = [link EXCEPT ![p] = "up"]
  BY IdleType DEF ConnectedTrue
<1>2. pcC = "wait" /\ to_connect = p /\ tmp_idx \in Slot
  BY <1>1, SlotTypes DEF SlotInv, OneCall
<1>3. \A j \in Slot : connected_proxy[j] # p
  BY <1>1, SlotTypes DEF SlotInv, SlotAgrees
<1>4. pt_cond_var[tmp_idx].proxy = p /\ connected_proxy[tmp_idx] = NoProxy
  BY <1>1, <1>2, <1>3 DEF SlotInv, SlotArmed
<1>5. \A j \in Slot : pt_cond_var[j].proxy = p => j = tmp_idx
  BY <1>1, <1>3 DEF SlotInv, CondVarAgrees
<1>6. Awaiting(p) # {} /\ First(Awaiting(p)) = tmp_idx
  <2>1. Awaiting(p) = {tmp_idx}
    BY <1>2, <1>4, <1>5 DEF Awaiting
  <2>2. First(Awaiting(p)) \in Awaiting(p)
    BY <1>2, <2>1, FirstSlot
  <2> QED BY <2>1, <2>2
<1>7. /\ connected_proxy' = [connected_proxy EXCEPT ![tmp_idx] = p]
      /\ hld_connected_proxy' = [hld_connected_proxy EXCEPT ![tmp_idx] = p]
  BY <1>6 DEF ConnectedTrue
<1> QED BY <1>1, <1>2, <1>3, <1>4, <1>7 DEF ConnectedTrue, threadC, threadD

\* It is entered in app_management too.
LEMMA ConnectedTrueSlots ==
  ASSUME TypeOK, SlotInv, Calm, NEW p \in Proxy, ConnectedTrue(p)
  PROVE  SlotInv'
<1>1. QuietRun' /\ OneCall' /\ ParamIsOwn' /\ DeadSilent'
  BY ConnectedTrueEffect DEF SlotInv, QuietRun, OneCall, ParamIsOwn, DeadSilent
<1>2. SlotReserved'
  BY ConnectedTrueEffect, SlotTypes DEF SlotInv, SlotReserved, CTrying
<1>3. SlotArmed'
  BY ConnectedTrueEffect, SlotTypes DEF SlotInv, SlotArmed
<1>4. ChosenOnce'
  BY ConnectedTrueEffect, SlotTypes DEF SlotInv, ChosenOnce
<1>5. SlotAgrees'
  BY ConnectedTrueEffect, SlotTypes DEF SlotInv, SlotAgrees
<1>6. LinkAgrees'
  BY ConnectedTrueEffect, SlotTypes DEF SlotInv, LinkAgrees
<1>7. CondVarAgrees'
  BY ConnectedTrueEffect, SlotTypes DEF SlotInv, CondVarAgrees
<1>8. HeldAgrees'
  BY ConnectedTrueEffect, SlotTypes DEF SlotInv, HeldAgrees
<1>9. HeldOnce'
  <2>1. \A j \in Slot : hld_connected_proxy[j] # p
    BY ConnectedTrueEffect DEF SlotInv, HeldAgrees
  <2> QED BY ConnectedTrueEffect, <2>1, SlotTypes DEF SlotInv, HeldOnce
<1>10. CallbackAgrees'
  BY ConnectedTrueEffect, SlotTypes DEF SlotInv, CallbackAgrees
<1>11. OneDisconnect'
  BY ConnectedTrueEffect, SlotTypes DEF SlotInv, OneDisconnect, Stranded, Stolen
<1>12. DroppingWaits'
  BY ConnectedTrueEffect, SlotTypes DEF SlotInv, DroppingWaits, Stranded
<1>13. MacMatchesSlot'
  BY ConnectedTrueEffect, SlotTypes DEF SlotInv, MacMatchesSlot
<1>14. BeingCleared'
  BY ConnectedTrueEffect DEF BeingCleared
<1> QED BY <1>1, <1>2, <1>3, <1>4, <1>5, <1>6, <1>7, <1>8, <1>9, <1>10,
     <1>11, <1>12, <1>13, <1>14 DEF
     SlotInv

\* A link that is gone leaves the one slot that holds the device, if there is
\* one.
LEMMA ConnectedFalseEffect ==
  ASSUME TypeOK, SlotInv, Calm, NEW p \in Proxy, ConnectedFalse(p)
  PROVE  /\ UNCHANGED <<pcC, tmp_idx, to_connect, pcD, dis_idx, pendC, pendD,
                       pt_cond_var, hld_connected_proxy, g_con_method_param>>
         /\ cb.k = "idle" /\ cb'.k = "dropped" /\ cb'.p = p
         /\ link[p] # "down" /\ link' = [link EXCEPT ![p] = "down"]
         /\ link[p] = "up" => pendC[p] = 0 /\ \A d \in pendD : d.p # p
         /\ \/ connected_proxy' = connected_proxy
            \/ \E i \in Slot :
                  /\ connected_proxy[i] # NoProxy
                  /\ connected_proxy' = [connected_proxy EXCEPT ![i] = NoProxy]
         /\ \A j \in Slot : /\ connected_proxy[j] = p =>
                                 connected_proxy'[j] = NoProxy /\ con_mac_addr'[j] = NoMac
                            /\ connected_proxy[j] # p =>
                                 /\ connected_proxy'[j] = connected_proxy[j]
                                 /\ con_mac_addr'[j] = con_mac_addr[j]
<1>1. /\ cb.k = "idle" /\ link[p] # "down"
      /\ link' = [link EXCEPT ![p] = "down"]
      /\ link[p] = "up" => pendC[p] = 0 /\ \A d \in pendD : d.p # p
  BY IdleType DEF ConnectedFalse, Calm
<1>2. cb'.k = "dropped" /\ cb'.p = p
  BY DEF ConnectedFalse, Idle
<1>3. CASE Attached(p) = {}
  BY <1>1, <1>2, <1>3 DEF ConnectedFalse, Attached, glob, threadC, threadD
<1>4. CASE Attached(p) # {}
  <2> DEFINE i == First(Attached(p))
  <2>1. i \in Slot /\ connected_proxy[i] = p
    <3>1. Attached(p) \in SUBSET Slot
      BY DEF Attached
    <3>2. i \in Attached(p)
      BY <1>4, <3>1, FirstSlot
    <3> QED BY <3>2 DEF Attached
  <2>2. /\ connected_proxy' = [connected_proxy EXCEPT ![i] = NoProxy]
        /\ con_mac_addr' = [con_mac_addr EXCEPT ![i] = NoMac]
    BY <1>4 DEF ConnectedFalse, ClearedMac
  <2> HIDE DEF i
  <2>3. \A j \in Slot : connected_proxy[j] = p <=> j = i
    BY <2>1, OneSlot, NullAssumption
  <2>4. \A j \in Slot :
           /\ connected_proxy'[j] = IF j = i THEN NoProxy ELSE connected_proxy[j]
           /\ con_mac_addr'[j] = IF j = i THEN NoMac ELSE con_mac_addr[j]
    BY <2>1, <2>2, SlotTypes
  <2>5. /\ connected_proxy[i] # NoProxy
        /\ connected_proxy' = [connected_proxy EXCEPT ![i] = NoProxy]
    BY <2>1, <2>2, NullAssumption
  <2> QED BY <1>1, <1>2, <2>1, <2>3, <2>4, <2>5 DEF ConnectedFalse, glob,
     threadC, threadD
<1> QED BY <1>3, <1>4

\* The condition variable still has the device, for the second half.
LEMMA ConnectedFalseSlots ==
  ASSUME TypeOK, SlotInv, Calm, NEW p \in Proxy, ConnectedFalse(p)
  PROVE  SlotInv'
<1>1. OneCall' /\ ParamIsOwn' /\ HeldOnce' /\ DeadSilent'
  BY ConnectedFalseEffect DEF SlotInv, OneCall, ParamIsOwn, HeldOnce, DeadSilent
<1>2. QuietRun'
  BY ConnectedFalseEffect, SlotTypes DEF SlotInv, QuietRun
<1>3. SlotReserved'
  BY ConnectedFalseEffect, SlotTypes DEF SlotInv, SlotReserved, CTrying
<1>4. SlotArmed'
  BY ConnectedFalseEffect, SlotTypes DEF SlotInv, OneCall, SlotArmed
<1>5. ChosenOnce'
  BY ConnectedFalseEffect, SlotTypes DEF SlotInv, ChosenOnce
<1>6. SlotAgrees'
  BY ConnectedFalseEffect, SlotTypes DEF SlotInv, SlotAgrees
<1>7. LinkAgrees'
  BY ConnectedFalseEffect, SlotTypes DEF SlotInv, LinkAgrees
<1>8. CondVarAgrees'
  BY ConnectedFalseEffect, SlotTypes DEF SlotInv, SlotAgrees, CondVarAgrees
<1>9. HeldAgrees'
  BY ConnectedFalseEffect, SlotTypes DEF SlotInv, HeldAgrees
<1>10. CallbackAgrees'
  BY ConnectedFalseEffect, SlotTypes DEF SlotInv, CallbackAgrees
<1>11. OneDisconnect'
  BY ConnectedFalseEffect, SlotTypes DEF SlotInv, OneDisconnect, Stranded, Stolen
<1>12. DroppingWaits'
  BY ConnectedFalseEffect, SlotTypes DEF SlotInv, DroppingWaits, Stranded
<1>13. MacMatchesSlot'
  BY ConnectedFalseEffect, SlotTypes DEF SlotInv, MacMatchesSlot
<1>14. BeingCleared'
  BY ConnectedFalseEffect DEF BeingCleared
<1> QED BY <1>1, <1>2, <1>3, <1>4, <1>5, <1>6, <1>7, <1>8, <1>9, <1>10,
     <1>11, <1>12, <1>13, <1>14 DEF
     SlotInv

\* ... and then app_management and the condition variable.
LEMMA DroppedSlots ==
  ASSUME TypeOK, SlotInv, Calm, Dropped
  PROVE  SlotInv'
<1>1. /\ UNCHANGED <<pcC, tmp_idx, to_connect, pcD, dis_idx, pendC, pendD,
                    link, connected_proxy, con_mac_addr, g_con_method_param>>
      /\ cb.k = "dropped" /\ cb'.k = "idle" /\ cb.p \in Proxy
      /\ link[cb.p] = "down" /\ \A j \in Slot : connected_proxy[j] # cb.p
      /\ \A j \in Slot : /\ hld_connected_proxy[j] = cb.p =>
                              /\ hld_connected_proxy'[j] = NoProxy
                              /\ pt_cond_var'[j].proxy = NoProxy
                         /\ hld_connected_proxy[j] # cb.p =>
                              /\ hld_connected_proxy'[j] = hld_connected_proxy[j]
                              /\ pt_cond_var'[j].proxy = pt_cond_var[j].proxy
                         /\ pt_cond_var'[j].done = pt_cond_var[j].done
                         /\ pt_cond_var'[j].magic = pt_cond_var[j].magic
  <2>1. cb.k = "dropped" /\ cb'.k = "idle" /\ cb.p \in Proxy
    BY IdleType DEF Dropped, TypeOK, CbType
  <2>2. link[cb.p] = "down" /\ \A j \in Slot : connected_proxy[j] # cb.p
    BY <2>1 DEF SlotInv, CallbackAgrees
  <2>3. CASE Held(cb.p) = {}
    BY <2>1, <2>2, <2>3 DEF Dropped, Held, threadC, threadD, bluez
  <2>4. CASE Held(cb.p) # {}
    <3> DEFINE i == First(Held(cb.p))
    <3>1. i \in Slot /\ hld_connected_proxy[i] = cb.p
      <4>1. Held(cb.p) \in SUBSET Slot
        BY DEF Held
      <4>2. i \in Held(cb.p)
        BY <2>4, <4>1, FirstSlot
      <4> QED BY <4>2 DEF Held
    <3>2. /\ hld_connected_proxy' = [hld_connected_proxy EXCEPT ![i] = NoProxy]
          /\ pt_cond_var' = [pt_cond_var EXCEPT ![i].proxy = NoProxy]
      BY <2>4 DEF Dropped
    <3> HIDE DEF i
    <3>3. \A j \in Slot : hld_connected_proxy[j] = cb.p <=> j = i
      BY <2>1, <3>1, NullAssumption DEF SlotInv, HeldOnce
    <3>4. pt_cond_var \in [Slot -> CondVar]
      BY SlotTypes
    <3>5. \A j \in Slot :
             /\ pt_cond_var'[j].proxy = IF j = i THEN NoProxy
                                        ELSE pt_cond_var[j].proxy
             /\ pt_cond_var'[j].done = pt_cond_var[j].done
             /\ pt_cond_var'[j].magic = pt_cond_var[j].magic
      BY <3>1, <3>2, <3>4 DEF CondVar
    <3>6. \A j \in Slot : hld_connected_proxy'[j] =
             IF j = i THEN NoProxy ELSE hld_connected_proxy[j]
      BY <3>1, <3>2, SlotTypes
    <3> QED BY <2>1, <2>2, <3>3, <3>5, <3>6 DEF Dropped, threadC, threadD, bluez
  <2> QED BY <2>3, <2>4
<1>2. ParamIsOwn' /\ ChosenOnce' /\ LinkAgrees' /\ MacMatchesSlot'
  BY <1>1 DEF SlotInv, ParamIsOwn, ChosenOnce, LinkAgrees, MacMatchesSlot
<1>3. QuietRun'
  BY <1>1, SlotTypes DEF SlotInv, QuietRun
<1>4. OneCall'
  BY <1>1, SlotTypes DEF SlotInv, OneCall
<1>5. SlotReserved'
  BY <1>1, SlotTypes DEF SlotInv, SlotReserved, CTrying
<1>6. SlotArmed'
  BY <1>1, SlotTypes DEF SlotInv, OneCall, SlotArmed
<1>7. SlotAgrees'
  BY <1>1, SlotTypes DEF SlotInv, SlotAgrees
<1>8. CondVarAgrees'
  BY <1>1, SlotTypes DEF SlotInv, CondVarAgrees
<1>9. HeldAgrees'
  BY <1>1, SlotTypes DEF SlotInv, HeldAgrees
<1>10. HeldOnce'
  BY <1>1, SlotTypes DEF SlotInv, HeldOnce
<1>11. CallbackAgrees'
  BY <1>1, SlotTypes DEF SlotInv, CallbackAgrees
<1>12. DeadSilent'
  BY <1>1, SlotTypes DEF SlotInv, DeadSilent
<1>13. OneDisconnect'
  BY <1>1, SlotTypes DEF SlotInv, OneDisconnect, Stranded, Stolen
<1>14. DroppingWaits'
  BY <1>1, SlotTypes DEF SlotInv, DroppingWaits, Stranded
<1>15. BeingCleared'
  BY <1>1, SlotTypes DEF SlotInv, BeingCleared, Stranded
<1> QED BY <1>2, <1>3, <1>4, <1>5, <1>6, <1>7, <1>8, <1>9, <1>10, <1>11,
     <1>12, <1>13, <1>14, <1>15 DEF
     SlotInv

-----------------------------------------------------------------------------
(* All steps                                                               *)

\* Initially every table is empty and nobody is under way.
LEMMA InitSlots == Init => SlotInv
<1> SUFFICES ASSUME Init PROVE SlotInv
  OBVIOUS
<1>1. QuietRun /\ OneCall /\ ParamIsOwn /\ SlotReserved /\ SlotArmed /\ ChosenOnce
  BY IdleType DEF Init, QuietRun, OneCall, ParamIsOwn, SlotReserved, SlotArmed,
     ChosenOnce, CTrying
<1>2. SlotAgrees /\ LinkAgrees /\ CondVarAgrees /\ HeldAgrees /\ HeldOnce
  BY NullAssumption DEF Init, SlotAgrees, LinkAgrees, CondVarAgrees, HeldAgrees,
     HeldOnce
<1>3. CallbackAgrees /\ DeadSilent /\ OneDisconnect /\ DroppingWaits
      /\ BeingCleared /\ MacMatchesSlot
  BY IdleType DEF Init, CallbackAgrees, DeadSilent, OneDisconnect,
     DroppingWaits, BeingCleared, MacMatchesSlot
<1> QED BY <1>1, <1>2, <1>3 DEF SlotInv

\* What the parts are about.
slotvars == <<pcC, tmp_idx, to_connect, pcD, dis_idx, cb, pendC, pendD, link,
              connected_proxy, con_mac_addr, pt_cond_var, hld_connected_proxy,
              g_con_method_param>>

\* A step that touches none of it.
LEMMA FrameSlots == SlotInv /\ UNCHANGED slotvars => SlotInv'
  BY DEF slotvars, SlotInv, QuietRun, OneCall, ParamIsOwn, SlotReserved,
     SlotArmed, ChosenOnce, SlotAgrees, LinkAgrees, CondVarAgrees, HeldAgrees,
     HeldOnce, CallbackAgrees, DeadSilent, OneDisconnect, DroppingWaits,
     BeingCleared, MacMatchesSlot, CTrying, Stranded, Stolen

\* The connection pass; the ways out after a timeout or a failed call are not
\* reached.
LEMMA ConnectSlots ==
  ASSUME TypeOK, SlotInv, Calm, ConnectToDev
  PROVE  SlotInv'
<1>1. CASE CBusy
  BY <1>1, FrameSlots DEF CBusy, slotvars, ctrl, threadC, threadD, bluez
<1>2. CASE CTimeout \/ CGiveUp \/ CExit
  BY <1>2 DEF CTimeout, CGiveUp, CExit, Calm, SlotInv, QuietRun
<1> QED BY <1>1, <1>2, CSelectSlots, CFindNoneSlots, CFindSlots, CInitSlots,
     CCallSlots, CWakeSlots, CWokenSlots, CDeinitSlots DEF ConnectToDev

\* The disconnection, likewise.
LEMMA DisconnectSlots ==
  ASSUME TypeOK, SlotInv, Calm, DisconnectFromDev
  PROVE  SlotInv'
<1>1. CASE DTimeout \/ DForce
  BY <1>1 DEF DTimeout, DForce, Calm, SlotInv, QuietRun
<1> QED BY <1>1, DTakeSlots, DFlagSlots, DSkipSlots, DCallSlots, DWakeSlots,
     DWokenSlots, DRemoveSlots, DDeinitSlots DEF DisconnectFromDev

\* The callbacks.
LEMMA CallbackSlots ==
  ASSUME TypeOK, SlotInv, Calm, DBusCallback
  PROVE  SlotInv'
<1>1. ASSUME NEW p \in Proxy, Rssi(p) \/ Removed(p)
      PROVE  SlotInv'
  BY <1>1, FrameSlots DEF Rssi, Removed, slotvars, ctrl, glob, threadC, threadD,
     bluez
<1>2. CASE ConnectFailed
  BY <1>2 DEF ConnectFailed, SlotInv, QuietRun
<1> QED BY <1>1, <1>2, ConnectReplySlots, ConnectedTrueSlots,
     ConnectedFalseSlots, DisconnectReplySlots, ConnectSucceededSlots,
     DisconnectSucceededSlots, DroppedSlots DEF DBusCallback

\* Every step of the BLE process.
LEMMA NextSlots ==
  ASSUME TypeOK, SlotInv, Calm, [Next]_vars
  PROVE  SlotInv'
<1>1. CASE ConnectToDev \/ DisconnectFromDev
  BY <1>1, ConnectSlots, DisconnectSlots
<1>2. CASE HandleEvent \/ SkipEvent \/ UNCHANGED vars
  BY <1>2, FrameSlots DEF HandleEvent, SkipEvent, vars, slotvars, ctrl, glob,
     threadC, threadD, bluez
<1> QED BY <1>1, <1>2, CallbackSlots DEF Next

\* The parts hold in every state.
LEMMA SlotInvariant ==
  ASSUME Calm
  PROVE  Spec => []SlotInv
<1>1. Init => SlotInv
  BY InitSlots
<1>2. TypeOK /\ SlotInv /\ [Next]_vars => SlotInv'
  BY NextSlots
<1>3. Spec => []TypeOK
  BY TypeCorrect
<1> QED BY <1>1, <1>2, <1>3, PTL DEF Spec

-----------------------------------------------------------------------------
(* Theorems                                                                *)

\* However connections, disconnections and losses of links interleave, also
\* when a disconnection and a connection pass work on one slot at once, no
\* device is ever in two slots of the controller.  The hypothesis of this and of
\* the next theorems rules out "early" and "slow" besides failing calls.
THEOREM OneSlotPerDevice ==
  ASSUME Faults \subseteq {"loss"}
  PROVE  Spec => []SlotsDistinct
<1>1. SlotInv => SlotsDistinct
  BY DEF SlotInv, SlotAgrees, HeldOnce, SlotsDistinct
<1>2. Calm
  BY DEF Calm
<1> QED BY <1>1, <1>2, SlotInvariant, PTL

\* The address noted for a slot, which bt_con_n_connect_to_dev compares with to
\* avoid a second connection, is always that of the device in the slot.
THEOREM AddressOfSlot ==
  ASSUME Faults \subseteq {"loss"}
  PROVE  Spec => []MacMatchesSlot
<1>1. SlotInv => MacMatchesSlot
  BY DEF SlotInv
<1>2. Calm
  BY DEF Calm
<1> QED BY <1>1, <1>2, SlotInvariant, PTL

\* There is no phantom connection: a slot that holds a device has a link.
THEOREM NoPhantom ==
  ASSUME Faults \subseteq {"loss"}
  PROVE  Spec => []SlotIsLinked
<1>1. SlotInv => SlotIsLinked
  BY DEF SlotInv, SlotAgrees, SlotIsLinked
<1>2. Calm
  BY DEF Calm
<1> QED BY <1>1, <1>2, SlotInvariant, PTL

\* There is no orphan: a link that BlueZ has is in a slot, so that the general
\* process can have it disconnected.  This needs the hypothesis that no pass
\* starts while a link is going down: otherwise the end of Connected = false
\* disarms the condition variable of the new pass, and its device is lost.
THEOREM NoOrphan ==
  ASSUME Faults \subseteq {"loss"}
  PROVE  Spec => []LinkIsTracked
<1>1. SlotInv => LinkIsTracked
  BY DEF SlotInv, LinkAgrees, LinkIsTracked
<1>2. Calm
  BY DEF Calm
<1> QED BY <1>1, <1>2, SlotInvariant, PTL

\* A step of the controller is a step of SlotTable, or leaves the slots alone.
LEMMA StepImplements ==
  ASSUME TypeOK, SlotInv, Calm, [Next]_vars
  PROVE  [Table!Next]_connected_proxy
<1>1. ASSUME NEW p \in Proxy, ConnectedTrue(p)
      PROVE  Table!Next
  <2>1. /\ tmp_idx \in Slot /\ connected_proxy[tmp_idx] = NoProxy
        /\ \A j \in Slot : connected_proxy[j] # p
        /\ connected_proxy' = [connected_proxy EXCEPT ![tmp_idx] = p]
    BY <1>1, ConnectedTrueEffect
  <2>2. Table!Occupy(tmp_idx, p)
    BY <2>1 DEF Table!Occupy
  <2> QED BY <2>1, <2>2 DEF Table!Next
<1>2. ASSUME (\E p \in Proxy : ConnectedFalse(p)) \/ DisconnectSucceeded
      PROVE  Table!Next \/ UNCHANGED connected_proxy
  <2>1. \/ connected_proxy' = connected_proxy
        \/ \E i \in Slot :
              /\ connected_proxy[i] # NoProxy
              /\ connected_proxy' = [connected_proxy EXCEPT ![i] = NoProxy]
    BY <1>2, ConnectedFalseEffect, DisconnectSucceededEffect
  <2> QED BY <2>1 DEF Table!Next, Table!Free
<1>3. CASE ConnectSucceeded
  BY <1>3, ConnectSucceededEffect
<1>4. CASE DForce \/ ConnectFailed
  BY <1>4 DEF DForce, ConnectFailed, SlotInv, QuietRun
<1>5. CASE ConnectToDev
  BY <1>5 DEF ConnectToDev, CBusy, CSelect, CFindNone, CFind, CInit, CCall,
     CWake, CWoken, CTimeout, CGiveUp, CExit, CDeinit, ctrl
<1>6. CASE DisconnectFromDev /\ ~DForce
  BY <1>6 DEF DisconnectFromDev, DTake, DFlag, DSkip, DCall, DWake, DTimeout,
     DWoken, DRemove, DDeinit, ctrl
<1>7. CASE \/ \E p \in Proxy : ConnectReply(p) \/ Rssi(p) \/ Removed(p)
           \/ \E d \in pendD : DisconnectReply(d)
           \/ Dropped \/ HandleEvent \/ SkipEvent \/ UNCHANGED vars
  BY <1>7 DEF ConnectReply, Rssi, Removed, DisconnectReply, Dropped,
     HandleEvent, SkipEvent, vars, ctrl
<1> QED BY <1>1, <1>2, <1>3, <1>4, <1>5, <1>6, <1>7 DEF Next, DBusCallback

\* connected_proxy implements the table of slots that the rest of the gateway
\* relies on: a device takes one empty slot, never a second, and a slot goes
\* from one device to another only through empty, although four callbacks write
\* it without a common lock.
THEOREM SlotTableImplemented ==
  ASSUME Faults \subseteq {"loss"}
  PROVE  Spec => ImplementsSlotTable
<1>1. Init => Table!Init
  BY DEF Init, Table!Init
<1>2. Calm
  BY DEF Calm
<1>3. TypeOK /\ SlotInv /\ [Next]_vars => [Table!Next]_connected_proxy
  BY <1>2, StepImplements
<1>4. Spec => []TypeOK
  BY TypeCorrect
<1>5. Spec => []SlotInv
  BY <1>2, SlotInvariant
<1> QED BY <1>1, <1>3, <1>4, <1>5, PTL DEF Spec, ImplementsSlotTable, Table!Spec

============================================================================
