------------------------------ MODULE SlotTable ------------------------------
(***************************************************************************)
(* What the connection controller promises to the rest of the gateway: a   *)
(* table of slots, each empty or held by one device.  A device takes an    *)
(* empty slot, never a second one, and gives it back before another device *)
(* can have it; one slot changes at a time.  ConCtrl implements it.        *)
(***************************************************************************)
CONSTANTS Slot, Proxy, NoProxy

VARIABLE slots

Occupy(i, p) ==
    /\ slots[i] = NoProxy
    /\ \A j \in Slot : slots[j] # p
    /\ slots' = [slots EXCEPT ![i] = p]

Free(i) ==
    /\ slots[i] # NoProxy
    /\ slots' = [slots EXCEPT ![i] = NoProxy]

Init == slots = [i \in Slot |-> NoProxy]
Next == \E i \in Slot : Free(i) \/ \E p \in Proxy : Occupy(i, p)
Spec == Init /\ [][Next]_slots
==============================================================================
