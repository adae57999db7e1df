----------------------------- MODULE MsgMngProof ------------------------------
(***************************************************************************)
(* Theorems about CMsgMng for any number of messages, receivers and items: *)
(* items and infos always have exactly one owner, the destructor leaves    *)
(* none behind, and every step is a step of the message bus of MsgBus.     *)
(***************************************************************************)
EXTENDS MsgMng, SequenceLemmas, FiniteSetTheorems

Lists == Range(m_lstItemFull) \cup Range(m_lstItemFree)
Owners == {i \in Item : m_pInfo[i]}

(* The dispatcher has an item in its hands exactly while it notifies it, and *)
(* holds m_lckRecv exactly while it calls receivers.                        *)
HandInv ==
  /\ pItem = Nil <=> pc \notin {"lock", "next", "callback"}
  /\ m_lckRecv = Nil <=> pc \notin {"next", "callback"}

(* A registration names its receiver; nothing is posted and nothing is      *)
(* dispatched after the destructor.                                         *)
CallInv ==
  /\ call.op \in {"reg", "rem"} => call.recv \in Receiver
  /\ call.op = "deleted" => /\ m_lstItemFull = <<>> /\ m_lstItemFree = <<>>
                            /\ pc \in {"none", "gone"}

(* Nothing waits once the destructor stops the dispatcher, and the receiver *)
(* that is called is a registered one.                                      *)
StepInv ==
  /\ call.op = "del.stop" => m_lstItemFull = <<>>
  /\ pc = "callback" => pPos <= Len(m_lstReceiver)

Inv == TypeOK /\ HandInv /\ OnePlace /\ InfoOwned /\ CallInv

(* The inductive part that the items need, without the type of clones. *)
ItemInv == /\ m_lstItemFull \in Seq(Item) /\ m_lstItemFree \in Seq(Item)
           /\ m_nMsgID \in [Item -> Posted] /\ m_pInfo \in [Item -> BOOLEAN]
           /\ clones \in Nat
           /\ OnePlace /\ InfoOwned

-----------------------------------------------------------------------------
LEMMA OwnersFinite ==
  ASSUME NEW P \in [Item -> BOOLEAN]
  PROVE  /\ IsFiniteSet({i \in Item : P[i]})
         /\ Cardinality({i \in Item : P[i]}) \in Nat
  BY ItemAssumption, FS_Subset, FS_CardinalityType

(* The item that Notify takes is nobody else's. *)
LEMMA PostPicks ==
  ASSUME ItemInv, NEW m \in Posted, Post(m)
  PROVE  \E i \in Item :
           /\ SetValue(i, m) /\ m_lstItemFull' = Append(m_lstItemFull, i)
           /\ i \notin Range(m_lstItemFull) /\ i \notin InHand
           /\ m_lstItemFree' \in Seq(Item) /\ IsInjective(m_lstItemFree')
           /\ i \notin Range(m_lstItemFree')
           /\ Range(m_lstItemFree') \subseteq Range(m_lstItemFree)
<1>1. PICK i \in Item :
        /\ IF m_lstItemFree # <<>>
           THEN i = Head(m_lstItemFree) /\ m_lstItemFree' = Tail(m_lstItemFree)
           ELSE i \notin Allocated /\ UNCHANGED m_lstItemFree
        /\ SetValue(i, m) /\ m_lstItemFull' = Queued(i)
  BY DEF Post
<1>2. /\ i \notin Range(m_lstItemFull) /\ i \notin InHand
      /\ m_lstItemFree' \in Seq(Item) /\ IsInjective(m_lstItemFree')
      /\ i \notin Range(m_lstItemFree')
      /\ Range(m_lstItemFree') \subseteq Range(m_lstItemFree)
  <2>1. CASE m_lstItemFree # <<>>
    <3>1. i = Head(m_lstItemFree) /\ m_lstItemFree' = Tail(m_lstItemFree)
      BY <1>1, <2>1
    <3>2. /\ i \in Range(m_lstItemFree) /\ m_lstItemFree' \in Seq(Item)
          /\ IsInjective(m_lstItemFree')
          /\ Range(m_lstItemFree') = Range(m_lstItemFree) \ {i}
      BY <2>1, <3>1, TailDistinct DEF ItemInv, OnePlace
    <3> QED BY <3>2 DEF ItemInv, OnePlace
  <2>2. CASE m_lstItemFree = <<>>
    BY <1>1, <2>2 DEF ItemInv, OnePlace, Allocated
  <2> QED BY <2>1, <2>2
<1> QED BY <1>1, <1>2, Zenon DEF Queued

(* A message is posted into an item that nobody else has and that owns no   *)
(* info.                                                                    *)
LEMMA PostItems ==
  ASSUME ItemInv, pItem \in Item \cup {Nil}, NEW m \in Posted, Post(m), UNCHANGED pItem
  PROVE  ItemInv'
<1>0. PICK i \in Item :
        /\ SetValue(i, m) /\ m_lstItemFull' = Append(m_lstItemFull, i)
        /\ i \notin Range(m_lstItemFull) /\ i \notin InHand
        /\ m_lstItemFree' \in Seq(Item) /\ IsInjective(m_lstItemFree')
        /\ i \notin Range(m_lstItemFree')
        /\ Range(m_lstItemFree') \subseteq Range(m_lstItemFree)
  BY PostPicks, Zenon
<1>1. SetValue(i, m) /\ m_lstItemFull' = Append(m_lstItemFull, i)
  BY <1>0
<1>2. /\ i \notin Range(m_lstItemFull) /\ i \notin InHand
      /\ m_lstItemFree' \in Seq(Item) /\ IsInjective(m_lstItemFree')
      /\ i \notin Range(m_lstItemFree')
      /\ Range(m_lstItemFree') \subseteq Range(m_lstItemFree)
  BY <1>0
<1>3. /\ m_lstItemFull' \in Seq(Item) /\ IsInjective(m_lstItemFull')
      /\ Range(m_lstItemFull') = Range(m_lstItemFull) \cup {i}
  <2> QED BY <1>1, <1>2, AppendDistinct, AppendProperties DEF ItemInv, OnePlace
<1>4. OnePlace'
  BY <1>2, <1>3 DEF ItemInv, OnePlace, InHand
<1>5. m_pInfo[i] = FALSE
  BY <1>2 DEF ItemInv, InfoOwned
<1>6. m_nMsgID' = [m_nMsgID EXCEPT ![i] = m] /\ m_nMsgID' \in [Item -> Posted]
  BY <1>1 DEF SetValue, ItemInv
<1>7. CASE m \in Info
  <2>1. m_pInfo' = [m_pInfo EXCEPT ![i] = TRUE] /\ clones' = clones + 1
    BY <1>1, <1>5, <1>7 DEF SetValue, ItemInv
  <2>2. Owners' = Owners \cup {i} /\ i \notin Owners
    BY <1>5, <2>1 DEF Owners, ItemInv
  <2>3. Cardinality(Owners') = Cardinality(Owners) + 1
    BY <2>2, OwnersFinite, FS_AddElement DEF Owners, ItemInv
  <2>4. clones' = Cardinality(Owners')
    BY <2>1, <2>3 DEF Owners, ItemInv, InfoOwned
  <2>5. \A k \in Item : m_pInfo'[k] =>
           k \in Range(m_lstItemFull') \cup InHand' /\ m_nMsgID'[k] \in Info
    BY <1>3, <1>6, <1>7, <2>1 DEF ItemInv, InfoOwned, InHand
  <2>6. m_pInfo' \in [Item -> BOOLEAN] /\ clones' \in Nat
    BY <2>1 DEF ItemInv
  <2> QED BY <1>2, <1>3, <1>4, <1>6, <2>4, <2>5, <2>6 DEF ItemInv, InfoOwned, Owners
<1>8. CASE m \notin Info
  <2>1. m_pInfo' = m_pInfo /\ clones' = clones
    <3>1. [m_pInfo EXCEPT ![i] = FALSE] = m_pInfo
      BY <1>5 DEF ItemInv
    <3>2. m_pInfo' = m_pInfo
      BY <1>1, <1>8, <3>1, Zenon DEF SetValue
    <3>3. clones' = (IF m_pInfo[i] /\ m \in Info THEN clones - 1 ELSE clones)
                       + (IF m \in Info THEN 1 ELSE 0)
      BY <1>1, Zenon DEF SetValue
    <3>4. clones' = clones
      BY <1>8, <3>3 DEF ItemInv
    <3> QED BY <3>2, <3>4
  <2>2. \A k \in Item : m_pInfo[k] =>
           k # i /\ k \in Range(m_lstItemFull') \cup InHand' /\ m_nMsgID'[k] \in Info
    BY <1>3, <1>5, <1>6 DEF ItemInv, InfoOwned, InHand
  <2> QED BY <1>2, <1>3, <1>4, <1>6, <2>1, <2>2 DEF ItemInv, InfoOwned
<1> QED BY <1>7, <1>8

(* Dropping the lists releases the infos of their items and no other. *)
LEMMA DeleteItems ==
  ASSUME ItemInv, DeleteAll, UNCHANGED pItem
  PROVE  ItemInv' /\ m_lstItemFull' = <<>> /\ m_lstItemFree' = <<>>
<1>1. /\ m_lstItemFull' = <<>> /\ m_lstItemFree' = <<>> /\ m_nMsgID' = m_nMsgID
      /\ m_pInfo' = [i \in Item |-> m_pInfo[i] /\ i \notin Lists]
      /\ clones' = clones - Cardinality({i \in Lists : m_pInfo[i]})
  BY DEF DeleteAll, Lists
<1>2. <<>> \in Seq(Item) /\ IsInjective(<<>>) /\ Range(<<>>) = {}
  BY DEF IsInjective, Range
<1>3. OnePlace'
  BY <1>1, <1>2 DEF OnePlace
<1>4. m_pInfo' \in [Item -> BOOLEAN]
  BY <1>1, Zenon DEF ItemInv
<1>5. Lists \subseteq Item
  BY DEF Lists, ItemInv, Range
<1>6. \A i \in Item : m_pInfo'[i] <=> m_pInfo[i] /\ i \notin Lists
  BY <1>1, Zenon
<1>7. Owners' = Owners \ Lists
  BY <1>6 DEF Owners
<1>8. {i \in Lists : m_pInfo[i]} = Owners \cap Lists
  BY <1>5 DEF Owners
<1>9. clones' = Cardinality(Owners') /\ clones' \in Nat
  <2>1. Cardinality(Owners') = Cardinality(Owners) - Cardinality(Owners \cap Lists)
    BY <1>7, OwnersFinite, FS_Difference DEF Owners, ItemInv
  <2>2. clones = Cardinality(Owners)
    BY DEF ItemInv, InfoOwned, Owners
  <2>3. Cardinality(Owners') \in Nat
    BY <1>4, OwnersFinite DEF Owners
  <2> QED BY <1>1, <1>8, <2>1, <2>2, <2>3
<1>10. \A i \in Item : m_pInfo'[i] => i \in InHand' /\ m_nMsgID'[i] \in Info
  BY <1>1, <1>6 DEF ItemInv, InfoOwned, InHand, Lists
<1> QED BY <1>1, <1>2, <1>3, <1>4, <1>9, <1>10 DEF ItemInv, InfoOwned, Owners

(* An item moves from the list into the dispatcher's hands. *)
LEMMA TakeItems ==
  ASSUME ItemInv, pItem = Nil, Take
  PROVE  ItemInv' /\ pItem' \in Item
<1>1. /\ pItem' = Head(m_lstItemFull) /\ m_lstItemFull' = Tail(m_lstItemFull)
      /\ m_lstItemFull # <<>>
      /\ UNCHANGED <<m_lstItemFree, m_nMsgID, m_pInfo, clones>>
  BY DEF Take
<1>2. /\ pItem' \in Item /\ m_lstItemFull' \in Seq(Item)
      /\ pItem' \in Range(m_lstItemFull) /\ IsInjective(m_lstItemFull')
      /\ Range(m_lstItemFull') = Range(m_lstItemFull) \ {pItem'}
  BY <1>1, TailDistinct DEF ItemInv, OnePlace
<1>3. InHand = {} /\ InHand' = {pItem'}
  BY <1>2, NilAssumption DEF InHand
<1>4. OnePlace'
  BY <1>1, <1>2, <1>3 DEF ItemInv, OnePlace
<1>5. \A i \in Item : m_pInfo'[i] =>
         i \in Range(m_lstItemFull') \cup InHand' /\ m_nMsgID'[i] \in Info
  BY <1>1, <1>2, <1>3 DEF ItemInv, InfoOwned
<1>6. clones' = Cardinality({i \in Item : m_pInfo'[i]})
  BY <1>1 DEF ItemInv, InfoOwned
<1> QED BY <1>1, <1>2, <1>4, <1>5, <1>6 DEF ItemInv, InfoOwned

(* ... and from there to the free list, without its info. *)
LEMMA RecycleItems ==
  ASSUME ItemInv, pItem \in Item, Recycle
  PROVE  ItemInv'
<1>1. /\ m_lstItemFree' = Append(m_lstItemFree, pItem) /\ pItem' = Nil
      /\ UNCHANGED <<m_lstItemFull, m_nMsgID>>
      /\ m_pInfo' = [m_pInfo EXCEPT ![pItem] = FALSE]
      /\ clones' = IF m_pInfo[pItem] THEN clones - 1 ELSE clones
  BY DEF Recycle, InfoFreed
<1>2. InHand = {pItem} /\ InHand' = {}
  BY <1>1, NilAssumption DEF InHand
<1>3. /\ m_lstItemFree' \in Seq(Item) /\ IsInjective(m_lstItemFree')
      /\ Range(m_lstItemFree') = Range(m_lstItemFree) \cup {pItem}
  BY <1>1, <1>2, AppendDistinct, AppendProperties DEF ItemInv, OnePlace
<1>4. OnePlace'
  BY <1>1, <1>2, <1>3 DEF ItemInv, OnePlace
<1>5. m_pInfo' \in [Item -> BOOLEAN]
  BY <1>1 DEF ItemInv
<1>6. Owners' = Owners \ {pItem}
  BY <1>1 DEF Owners, ItemInv
<1>7. clones' = Cardinality(Owners') /\ clones' \in Nat
  <2>1. Cardinality(Owners') = IF pItem \in Owners THEN Cardinality(Owners) - 1
                                                   ELSE Cardinality(Owners)
    BY <1>6, OwnersFinite, FS_RemoveElement DEF Owners, ItemInv
  <2>2. clones = Cardinality(Owners) /\ (pItem \in Owners <=> m_pInfo[pItem])
    BY DEF ItemInv, InfoOwned, Owners
  <2>3. Cardinality(Owners') \in Nat
    BY <1>5, OwnersFinite DEF Owners
  <2> QED BY <1>1, <2>1, <2>2, <2>3
<1>8. \A i \in Item : m_pInfo'[i] =>
         i \in Range(m_lstItemFull') \cup InHand' /\ m_nMsgID'[i] \in Info
  BY <1>1, <1>2 DEF ItemInv, InfoOwned
<1> QED BY <1>1, <1>3, <1>4, <1>5, <1>7, <1>8 DEF ItemInv, InfoOwned, Owners
-----------------------------------------------------------------------------
LEMMA InvInit == Init => Inv
<1> SUFFICES ASSUME Init PROVE Inv
  OBVIOUS
<1>1. \A S : <<>> \in Seq(S)
  OBVIOUS
<1>2. IsInjective(<<>>) /\ Range(<<>>) = {}
  BY DEF IsInjective, Range
<1>3. Owners = {}
  BY DEF Init, Owners
<1>4. TypeOK
  <2>1. m_pInfo \in [Item -> BOOLEAN] /\ m_nMsgID \in [Item -> Posted]
    BY DEF Init, Posted
  <2>2. call \in [op : {"idle", "reg", "rem", "del.wait", "del.stop", "deleted"},
                  recv : Receiver \cup {Nil}]
    BY DEF Init, Call
  <2>3. m_bHadOpened \in BOOLEAN /\ opening \in {"no", "yes", "refused"}
    BY Zenon DEF Init
  <2> QED BY <1>1, <2>1, <2>2, <2>3 DEF Init, TypeOK
<1>5. HandInv
  BY DEF Init, HandInv
<1>6. OnePlace
  BY <1>2 DEF Init, OnePlace, InHand
<1>7. InfoOwned
  <2>1. clones = Cardinality(Owners)
    BY <1>3, FS_EmptySet DEF Init
  <2> QED BY <2>1 DEF InfoOwned, Owners, Init
<1>8. CallInv
  BY DEF Init, CallInv, Call
<1> QED BY <1>4, <1>5, <1>6, <1>7, <1>8 DEF Inv

(* What every step keeps that is not about items. *)
ControlType ==
  /\ m_lstReceiver \in Seq(Receiver) /\ m_lckRecv \in {Nil, "dispatcher"}
  /\ m_bHadOpened \in BOOLEAN /\ opening \in {"no", "yes", "refused"}
  /\ pc \in {"none", "idle", "drain", "lock", "next", "callback", "gone"}
  /\ pItem \in Item \cup {Nil} /\ pPos \in Nat \ {0}
  /\ call \in [op : {"idle", "reg", "rem", "del.wait", "del.stop", "deleted"},
               recv : Receiver \cup {Nil}]

LEMMA InvParts == Inv <=> ItemInv /\ ControlType /\ HandInv /\ CallInv
  BY DEF Inv, ItemInv, ControlType, TypeOK

LEMMA InvPartsNext == Inv' <=> ItemInv' /\ ControlType' /\ HandInv' /\ CallInv'
  BY DEF Inv, ItemInv, ControlType, TypeOK

(* Most steps leave the items and the dispatcher's item alone. *)
LEMMA ItemsKept ==
  ASSUME ItemInv, UNCHANGED <<items, pItem>>
  PROVE  ItemInv'
  BY DEF ItemInv, items, OnePlace, InfoOwned, InHand

LEMMA CallTypes ==
  /\ \A r \in Receiver \cup {Nil} :
       \A op \in {"idle", "reg", "rem", "del.wait", "del.stop", "deleted"} :
         /\ Call(op, r) \in [op : {"idle", "reg", "rem", "del.wait", "del.stop", "deleted"},
                             recv : Receiver \cup {Nil}]
         /\ Call(op, r).op = op /\ Call(op, r).recv = r
  BY DEF Call

LEMMA InvNext == Inv /\ [Next]_vars => Inv'
<1> SUFFICES ASSUME Inv, [Next]_vars PROVE Inv'
  OBVIOUS
<1> USE InvParts, InvPartsNext
<1>0. Nil \notin Item /\ Nil # "dispatcher"
  BY NilAssumption
<1>1. ASSUME NEW m \in Msg, Notify(m) PROVE Inv'
  <2>1. Post(m) /\ UNCHANGED <<m_lstReceiver, gate, loop, call>> /\ Alive
    BY <1>1 DEF Notify
  <2>2. ItemInv'
    BY <2>1, PostItems DEF loop, ControlType, Posted
  <2>3. ControlType' /\ HandInv' /\ CallInv'
    BY <2>1 DEF ControlType, HandInv, CallInv, gate, loop, Alive
  <2> QED BY <2>2, <2>3
<1>2. CASE ReleaseItem
  <2>1. DeleteAll /\ UNCHANGED <<m_lstReceiver, gate, loop, call>>
    BY <1>2 DEF ReleaseItem
  <2>2. ItemInv' /\ m_lstItemFull' = <<>> /\ m_lstItemFree' = <<>>
    BY <2>1, DeleteItems DEF loop
  <2>3. ControlType' /\ HandInv' /\ CallInv'
    BY <2>1, <2>2 DEF ControlType, HandInv, CallInv, gate, loop
  <2> QED BY <2>2, <2>3
<1>3. ASSUME NEW r \in Receiver, RegNotify(r) PROVE Inv'
  <2>1. ItemInv'
    BY <1>3, ItemsKept DEF RegNotify, loop
  <2>2. ControlType'
    BY <1>3, CallTypes DEF RegNotify, ControlType, gate, loop
  <2>3. HandInv' /\ CallInv'
    BY <1>3, CallTypes DEF RegNotify, HandInv, CallInv, gate, loop
  <2> QED BY <2>1, <2>2, <2>3
<1>4. ASSUME NEW r \in Receiver, RemNotify(r) PROVE Inv'
  <2>1. ItemInv'
    BY <1>4, ItemsKept DEF RemNotify, loop
  <2>2. ControlType'
    BY <1>4, CallTypes DEF RemNotify, ControlType, gate, loop
  <2>3. HandInv' /\ CallInv'
    BY <1>4, CallTypes DEF RemNotify, HandInv, CallInv, gate, loop
  <2> QED BY <2>1, <2>2, <2>3
<1>5. CASE RegAdds
  <2>1. ItemInv'
    BY <1>5, ItemsKept DEF RegAdds, loop
  <2>2. m_lstReceiver' \in Seq(Receiver)
    BY <1>5, AppendProperties DEF RegAdds, ControlType, CallInv
  <2>3. ControlType'
    BY <1>5, <2>2, CallTypes DEF RegAdds, ControlType, gate, loop
  <2>4. HandInv' /\ CallInv'
    BY <1>5, CallTypes DEF RegAdds, HandInv, CallInv, gate, loop
  <2> QED BY <2>1, <2>3, <2>4
<1>6. CASE RemRemoves
  <2>1. ItemInv'
    BY <1>6, ItemsKept DEF RemRemoves, loop
  <2>2. m_lstReceiver' \in Seq(Receiver)
    BY <1>6, RemoveAtProperties DEF RemRemoves, ControlType
  <2>3. ControlType'
    BY <1>6, <2>2, CallTypes DEF RemRemoves, ControlType, gate, loop
  <2>4. HandInv' /\ CallInv'
    BY <1>6, CallTypes DEF RemRemoves, HandInv, CallInv, gate, loop
  <2> QED BY <2>1, <2>3, <2>4
<1>7. CASE OpenBegins
  <2>1. ItemInv'
    BY <1>7, ItemsKept DEF OpenBegins, loop
  <2>2. m_bHadOpened' \in BOOLEAN /\ opening' \in {"no", "yes", "refused"}
    BY <1>7, Zenon DEF OpenBegins, ControlType
  <2>3. UNCHANGED <<items, m_lstReceiver, loop, call>>
    BY <1>7 DEF OpenBegins
  <2>4. ControlType'
    BY <2>2, <2>3, Zenon DEF ControlType, loop
  <2>5. HandInv' /\ CallInv'
    BY <2>3, Zenon DEF HandInv, CallInv, loop, items
  <2> QED BY <2>1, <2>4, <2>5
<1>8. CASE OpenEnds
  <2>1. ItemInv'
    BY <1>8, ItemsKept DEF OpenEnds, loop
  <2>2. m_bHadOpened' \in BOOLEAN /\ opening' \in {"no", "yes", "refused"}
    BY <1>8, Zenon DEF OpenEnds, ControlType
  <2>3. UNCHANGED <<items, m_lstReceiver, loop, call>>
    BY <1>8 DEF OpenEnds
  <2>4. ControlType'
    BY <2>2, <2>3, Zenon DEF ControlType, loop
  <2>5. HandInv' /\ CallInv'
    BY <2>3, Zenon DEF HandInv, CallInv, loop, items
  <2> QED BY <2>1, <2>4, <2>5
<1>9. CASE OpenRefused
  <2>1. ItemInv'
    BY <1>9, ItemsKept DEF OpenRefused, loop
  <2>2. m_bHadOpened' \in BOOLEAN /\ opening' \in {"no", "yes", "refused"}
    BY <1>9, Zenon DEF OpenRefused, ControlType
  <2>3. UNCHANGED <<items, m_lstReceiver, loop, call>>
    BY <1>9 DEF OpenRefused
  <2>4. ControlType'
    BY <2>2, <2>3, Zenon DEF ControlType, loop
  <2>5. HandInv' /\ CallInv'
    BY <2>3, Zenon DEF HandInv, CallInv, loop, items
  <2> QED BY <2>1, <2>4, <2>5
<1>10. CASE OnWorkItem
  <2>1. ItemInv'
    BY <1>10, ItemsKept DEF OnWorkItem, loop
  <2>2. ControlType' /\ HandInv' /\ CallInv'
    BY <1>10, <1>0, CallTypes DEF OnWorkItem, ControlType, HandInv, CallInv, gate, HasWork, items
  <2> QED BY <2>1, <2>2
<1>11. CASE Take
  <2>1. ItemInv' /\ pItem' \in Item
    BY <1>11, TakeItems DEF Take, HandInv
  <2>2. ControlType' /\ HandInv' /\ CallInv'
    BY <1>11, <1>0, <2>1 DEF Take, ControlType, HandInv, CallInv, gate
  <2> QED BY <2>1, <2>2
<1>12. CASE Drained
  <2>1. ItemInv'
    BY <1>12, ItemsKept DEF Drained, loop
  <2>2. ControlType' /\ HandInv' /\ CallInv'
    BY <1>12, <1>0, CallTypes DEF Drained, ControlType, HandInv, CallInv, gate, items
  <2> QED BY <2>1, <2>2
<1>13. CASE NotifyItem
  <2>1. ItemInv'
    BY <1>13, ItemsKept DEF NotifyItem, loop
  <2>2. ControlType' /\ HandInv' /\ CallInv'
    BY <1>13, <1>0, CallTypes DEF NotifyItem, ControlType, HandInv, CallInv, gate, items
  <2> QED BY <2>1, <2>2
<1>14. CASE ReceiveMsg
  <2>1. ItemInv'
    BY <1>14, ItemsKept DEF ReceiveMsg, loop
  <2>2. ControlType' /\ HandInv' /\ CallInv'
    BY <1>14, <1>0, CallTypes DEF ReceiveMsg, ControlType, HandInv, CallInv, gate, items
  <2> QED BY <2>1, <2>2
<1>15. CASE Received
  <2>1. ItemInv'
    BY <1>15, ItemsKept DEF Received, loop
  <2>2. ControlType' /\ HandInv' /\ CallInv'
    BY <1>15, <1>0, CallTypes DEF Received, ControlType, HandInv, CallInv, gate, items
  <2> QED BY <2>1, <2>2
<1>16. CASE Recycle
  <2>1. ItemInv'
    BY <1>16, RecycleItems DEF Recycle, HandInv, ControlType
  <2>2. ControlType' /\ HandInv' /\ CallInv'
    BY <1>16, <1>0 DEF Recycle, ControlType, HandInv, CallInv, gate
  <2> QED BY <2>1, <2>2
<1>17. CASE DispatcherStops
  <2>1. ItemInv'
    BY <1>17, ItemsKept DEF DispatcherStops, loop
  <2>2. ControlType' /\ HandInv' /\ CallInv'
    BY <1>17, <1>0, CallTypes DEF DispatcherStops, ControlType, HandInv, CallInv, gate, items
  <2> QED BY <2>1, <2>2
<1>18. CASE Delete
  <2>1. Post("exit") /\ UNCHANGED <<m_lstReceiver, gate, loop>> /\ call' = Call("del.wait", Nil)
    BY <1>18 DEF Delete
  <2>2. ItemInv'
    BY <2>1, PostItems DEF loop, ControlType, Posted
  <2>3. ControlType' /\ HandInv' /\ CallInv'
    BY <2>1, CallTypes DEF ControlType, HandInv, CallInv, gate, loop
  <2> QED BY <2>2, <2>3
<1>19. CASE DeleteWaits
  <2>1. ItemInv'
    BY <1>19, ItemsKept DEF DeleteWaits, loop
  <2>2. ControlType' /\ HandInv' /\ CallInv'
    BY <1>19, <1>0, CallTypes DEF DeleteWaits, ControlType, HandInv, CallInv, gate, loop
  <2> QED BY <2>1, <2>2
<1>20. CASE DeleteReleases
  <2>1. /\ DeleteAll /\ m_lstReceiver' = <<>> /\ call' = Call("deleted", Nil)
        /\ UNCHANGED <<gate, loop>> /\ pc \in {"none", "gone"}
    BY <1>20 DEF DeleteReleases, ThreadEnded
  <2>2. ItemInv' /\ m_lstItemFull' = <<>> /\ m_lstItemFree' = <<>>
    BY <2>1, DeleteItems DEF loop
  <2>3. ControlType' /\ HandInv' /\ CallInv'
    BY <2>1, <2>2, CallTypes DEF ControlType, HandInv, CallInv, gate, loop
  <2> QED BY <2>2, <2>3
<1>21. CASE UNCHANGED vars
  <2>1. ItemInv'
    BY <1>21, ItemsKept DEF vars, loop
  <2>2. ControlType' /\ HandInv' /\ CallInv'
    BY <1>21 DEF vars, ControlType, HandInv, CallInv, gate, loop, items
  <2> QED BY <2>1, <2>2
<1> QED
  BY <1>1, <1>2, <1>3, <1>4, <1>5, <1>6, <1>7, <1>8, <1>9, <1>10, <1>11, <1>12, <1>13, <1>14, <1>15, <1>16, <1>17, <1>18, <1>19, <1>20, <1>21
  DEF Next, Locks, Dispatcher, Deleting, Deleted

-----------------------------------------------------------------------------
(* Every variable keeps its type, for any number of messages and items.    *)
THEOREM TypeCorrect == Spec => []TypeOK
<1>1. Inv => TypeOK
  BY DEF Inv
<1> QED BY <1>1, InvInit, InvNext, PTL DEF Spec

(* An item is never in two places: Notify never writes into an item that    *)
(* waits or is being delivered, and ReleaseItem never deletes the one the   *)
(* dispatcher delivers.                                                     *)
THEOREM OnePlaceCorrect == Spec => []OnePlace
<1>1. Inv => OnePlace
  BY DEF Inv
<1> QED BY <1>1, InvInit, InvNext, PTL DEF Spec

(* Every cloned info has exactly one owner, an item that waits or is being  *)
(* delivered: neither Notify nor ReleaseItem leaks one or frees it twice.   *)
THEOREM InfoOwnedCorrect == Spec => []InfoOwned
<1>1. Inv => InfoOwned
  BY DEF Inv
<1> QED BY <1>1, InvInit, InvNext, PTL DEF Spec

(* The destructor frees every item and every info, the one that was in the  *)
(* dispatcher's hands when the list ran empty included.                     *)
THEOREM NothingLeaksCorrect == Spec => []NothingLeaks
<1>1. ASSUME Inv PROVE NothingLeaks
  <2> SUFFICES ASSUME call.op = "deleted" PROVE Allocated = {} /\ clones = 0
    BY DEF NothingLeaks
  <2>1. m_lstItemFull = <<>> /\ m_lstItemFree = <<>> /\ pItem = Nil
    BY <1>1 DEF Inv, CallInv, HandInv
  <2>2. Range(<<>>) = {}
    BY DEF Range
  <2>3. InHand = {} /\ Allocated = {}
    BY <2>1, <2>2 DEF Allocated, InHand
  <2>4. {i \in Item : m_pInfo[i]} = {}
    BY <1>1, <2>1, <2>2, <2>3 DEF Inv, InfoOwned
  <2>5. clones = 0
    BY <1>1, <2>4, FS_EmptySet DEF Inv, InfoOwned
  <2> QED BY <2>3, <2>5
<1> QED BY <1>1, InvInit, InvNext, PTL DEF Spec

-----------------------------------------------------------------------------
(* CMsgMng implements the message bus of MsgBus: step by step, what the      *)
(* dispatcher and the threads that call do is a step of the bus or none.    *)

(* What waits, and what is being delivered, in the state of a CMsgMng. *)
LEMMA LineIs ==
  ASSUME Inv
  PROVE  /\ Waiting = Mapped(m_lstItemFull, m_nMsgID) /\ Waiting \in Seq(Posted)
         /\ pc # "lock" => Line = Waiting
         /\ pc = "lock" => /\ Line = <<m_nMsgID[pItem]>> \o Waiting
                           /\ m_nMsgID[pItem] \in Posted
         /\ Line \in Seq(Posted)
<1>1. Waiting = Mapped(m_lstItemFull, m_nMsgID)
  BY DEF Waiting, Message, Mapped
<1>2. Waiting \in Seq(Posted)
  BY <1>1, MappedType DEF Inv, TypeOK
<1>3. pc # "lock" => Line = Waiting
  BY <1>2, ConcatEmptySeq DEF Line
<1>4. pc = "lock" => Line = <<m_nMsgID[pItem]>> \o Waiting
  BY DEF Line, Message
<1>5. pc = "lock" => m_nMsgID[pItem] \in Posted
  BY DEF Inv, TypeOK, HandInv
<1>6. Line \in Seq(Posted)
  <2>1. CASE pc = "lock"
    <3>1. <<m_nMsgID[pItem]>> \in Seq(Posted)
      BY <2>1, <1>5
    <3> QED BY <2>1, <3>1, <1>2, <1>4, ConcatProperties
  <2> QED BY <2>1, <1>2, <1>3
<1> QED BY <1>1, <1>2, <1>3, <1>4, <1>5, <1>6

LEMMA RestOf ==
  \A c \in [msg : Posted, todo : Seq(Receiver)] : \A d :
     [c EXCEPT !.todo = d] = [msg |-> c.msg, todo |-> d]
  OBVIOUS

LEMMA CurrentIs ==
  ASSUME Inv
  PROVE  /\ pc \notin {"next", "callback"} => Current = Nil
         /\ pc \in {"next", "callback"} =>
              /\ Current # Nil /\ Current \in [msg : Posted, todo : Seq(Receiver)]
              /\ Current = [msg |-> m_nMsgID[pItem],
                            todo |-> SubSeq(m_lstReceiver, pPos, Len(m_lstReceiver))]
<1>1. pc \notin {"next", "callback"} => Current = Nil
  BY DEF Inv, HandInv, Current
<1>2. ASSUME pc \in {"next", "callback"}
      PROVE  /\ Current # Nil /\ Current \in [msg : Posted, todo : Seq(Receiver)]
             /\ Current = [msg |-> m_nMsgID[pItem],
                           todo |-> SubSeq(m_lstReceiver, pPos, Len(m_lstReceiver))]
  <2>1. Current = [msg |-> m_nMsgID[pItem],
                   todo |-> SubSeq(m_lstReceiver, pPos, Len(m_lstReceiver))]
    BY <1>2 DEF Inv, HandInv, Current, Message
  <2>2. m_nMsgID[pItem] \in Posted
    BY <1>2 DEF Inv, HandInv, TypeOK
  <2>3. SubSeq(m_lstReceiver, pPos, Len(m_lstReceiver)) \in Seq(Receiver)
    <3>1. pPos \in Int /\ pPos >= 1 /\ m_lstReceiver \in Seq(Receiver)
      BY DEF Inv, TypeOK
    <3>2. /\ Len(m_lstReceiver) \in Int
          /\ \A i \in pPos..Len(m_lstReceiver) : m_lstReceiver[i] \in Receiver
      BY <3>1, LenProperties, ElementOfSeq
    <3> QED BY <3>1, <3>2, SubSeqProperties
  <2>4. Current \in [msg : Posted, todo : Seq(Receiver)]
    BY <2>1, <2>2, <2>3
  <2> QED BY <2>1, <2>4, NoDelivery DEF Posted
<1> QED BY <1>1, <1>2

LEMMA StepInvNext == ASSUME Inv, StepInv, [Next]_vars PROVE StepInv'
<1>1. m_lstReceiver \in Seq(Receiver) /\ Len(m_lstReceiver) \in Nat /\ pPos \in Nat
  BY LenProperties DEF Inv, TypeOK
<1>2. m_lckRecv = Nil => pc # "callback"
  BY DEF Inv, HandInv
<1>3. call.op = "del.stop" => ~Alive /\ ~Idle
  BY DEF Alive, Idle
<1>4. ASSUME NEW m \in Msg, Notify(m) PROVE StepInv'
  BY <1>4, <1>3 DEF Notify, StepInv, loop
<1>5. CASE ReleaseItem
  BY <1>5 DEF ReleaseItem, DeleteAll, StepInv, loop
<1>6. ASSUME NEW r \in Receiver, RegNotify(r) \/ RemNotify(r) PROVE StepInv'
  BY <1>6, CallTypes DEF RegNotify, RemNotify, StepInv, loop, items
<1>7. CASE RegAdds \/ RemRemoves
  BY <1>7, <1>2, CallTypes DEF RegAdds, RemRemoves, CanRegister, StepInv, loop, items
<1>8. CASE OpenBegins \/ OpenEnds \/ OpenRefused
  BY <1>8 DEF OpenBegins, OpenEnds, OpenRefused, StepInv, loop, items
<1>9. CASE OnWorkItem \/ Take \/ Drained \/ NotifyItem
  BY <1>9 DEF OnWorkItem, Take, Drained, NotifyItem, StepInv, items
<1>10. CASE ReceiveMsg \/ Received \/ Recycle \/ DispatcherStops
  BY <1>10 DEF ReceiveMsg, Received, Recycle, DispatcherStops, StepInv, items
<1>11. CASE Delete \/ DeleteWaits
  BY <1>11, CallTypes DEF Delete, DeleteWaits, StepInv, loop, items
<1>12. CASE DeleteReleases
  BY <1>12, CallTypes DEF DeleteReleases, ThreadEnded, StepInv, loop
<1>13. CASE UNCHANGED vars
  BY <1>13 DEF vars, StepInv, loop, items
<1> QED
  BY <1>4, <1>5, <1>6, <1>7, <1>8, <1>9, <1>10, <1>11, <1>12, <1>13
  DEF Next, Locks, Dispatcher, Deleting, Deleted

(* Steps that leave alone what the bus is made of. *)
LEMMA BusKept ==
  ASSUME Inv, Inv', Line' = Line, Current' = Current, UNCHANGED m_lstReceiver
  PROVE  UNCHANGED Bus!vars
  BY DEF Bus!vars

LEMMA WaitingKept ==
  ASSUME UNCHANGED <<m_lstItemFull, m_nMsgID>> PROVE Waiting' = Waiting
  BY DEF Waiting, Message

LEMMA LineKept ==
  ASSUME UNCHANGED <<m_lstItemFull, m_nMsgID, pItem>>, pc = "lock" <=> pc' = "lock"
  PROVE  Line' = Line
<1>1. Waiting' = Waiting
  BY WaitingKept
<1>2. CASE pc = "lock"
  BY <1>1, <1>2 DEF Line, Message
<1>3. CASE pc # "lock"
  BY <1>1, <1>3 DEF Line
<1> QED BY <1>2, <1>3

LEMMA CurrentKept ==
  ASSUME UNCHANGED <<m_lckRecv, m_nMsgID, pItem, pPos, m_lstReceiver>>
  PROVE  Current' = Current
  BY DEF Current, Message

(* A post appends to the line and touches nothing that is delivered. *)
LEMMA PostSteps ==
  ASSUME Inv, Inv', NEW m \in Posted, Post(m), UNCHANGED <<m_lstReceiver, loop>>
  PROVE  Bus!Post
<1>1. PICK i \in Item :
        /\ SetValue(i, m) /\ m_lstItemFull' = Append(m_lstItemFull, i)
        /\ i \notin Range(m_lstItemFull) /\ i \notin InHand
        /\ m_lstItemFree' \in Seq(Item) /\ IsInjective(m_lstItemFree')
        /\ i \notin Range(m_lstItemFree')
        /\ Range(m_lstItemFree') \subseteq Range(m_lstItemFree)
  BY PostPicks, InvParts, Zenon
<1>2. m_nMsgID' = [m_nMsgID EXCEPT ![i] = m]
  BY <1>1 DEF SetValue
<1>3. m_lstItemFull \in Seq(Item) /\ m_nMsgID \in [Item -> Posted] /\ pItem \in Item \cup {Nil}
  BY DEF Inv, TypeOK
<1>4. UNCHANGED <<pc, pItem, pPos, m_lckRecv>>
  BY DEF loop
<1>5. Waiting' = Append(Waiting, m)
  <2>1. Waiting' = Mapped(Append(m_lstItemFull, i), [m_nMsgID EXCEPT ![i] = m])
    BY <1>1, <1>2 DEF Waiting, Message, Mapped
  <2>2. Mapped(Append(m_lstItemFull, i), [m_nMsgID EXCEPT ![i] = m])
          = Append(Mapped(m_lstItemFull, m_nMsgID), m)
    <3> DEFINE id2 == [m_nMsgID EXCEPT ![i] = m]
    <3>1. id2[i] = m /\ SameBut(m_nMsgID, id2, Item, i)
      BY <1>3 DEF SameBut
    <3>2. m_lstItemFull \in Seq(Item) /\ i \notin Range(m_lstItemFull)
      BY <1>1, <1>3
    <3> HIDE DEF id2
    <3>3. Mapped(Append(m_lstItemFull, i), id2) = Append(Mapped(m_lstItemFull, m_nMsgID), id2[i])
      BY <3>1, <3>2, MappedAppend
    <3> QED BY <3>1, <3>3 DEF id2
  <2>3. Waiting = Mapped(m_lstItemFull, m_nMsgID)
    BY LineIs
  <2> QED BY <2>1, <2>2, <2>3, Zenon
<1>6. pItem # Nil => m_nMsgID'[pItem] = m_nMsgID[pItem]
  BY <1>1, <1>2, <1>3 DEF InHand
<1>7. Line' = Append(Line, m)
  <2>1. CASE pc = "lock"
    <3>1. pItem # Nil
      BY <2>1 DEF Inv, HandInv
    <3>2. Line = <<m_nMsgID[pItem]>> \o Waiting /\ Line' = <<m_nMsgID[pItem]>> \o Waiting'
      BY <1>4, <1>6, <2>1, <3>1 DEF Line, Message
    <3>3. <<m_nMsgID[pItem]>> \in Seq(Posted) /\ Waiting \in Seq(Posted) /\ <<m>> \in Seq(Posted)
      BY <2>1, LineIs
    <3>4. Append(Waiting, m) = Waiting \o <<m>> /\ Append(Line, m) = Line \o <<m>>
      BY <3>3, LineIs, AppendIsConcat
    <3>5. Line \o <<m>> = <<m_nMsgID[pItem]>> \o (Waiting \o <<m>>)
      BY <3>2, <3>3, ConcatAssociative
    <3> QED BY <1>5, <3>2, <3>4, <3>5
  <2>2. CASE pc # "lock"
    <3>1. Line = Waiting
      BY <2>2, LineIs
    <3>2. Waiting' = Append(Waiting, m) /\ Waiting' \in Seq(Posted)
      BY <1>5, LineIs, AppendProperties
    <3>3. Line' = <<>> \o Waiting'
      BY <1>4, <2>2 DEF Line
    <3> QED BY <3>1, <3>2, <3>3, ConcatEmptySeq
  <2> QED BY <2>1, <2>2
<1>8. Current' = Current
  <2>1. CASE m_lckRecv = Nil
    BY <1>4, <2>1 DEF Current
  <2>2. CASE m_lckRecv # Nil
    <3>1. pItem # Nil
      BY <2>2 DEF Inv, HandInv
    <3> QED BY <1>4, <1>6, <2>2, <3>1 DEF Current, Message
  <2> QED BY <2>1, <2>2
<1> QED BY <1>7, <1>8 DEF Bus!Post

(* Dropping the list leaves the message that the dispatcher has taken. *)
LEMMA DropSteps ==
  ASSUME Inv, Inv', ReleaseItem
  PROVE  Bus!Drop \/ UNCHANGED Bus!vars
<1>1. /\ m_lstItemFull' = <<>> /\ m_nMsgID' = m_nMsgID /\ m_lstReceiver' = m_lstReceiver
      /\ UNCHANGED <<pc, pItem, pPos, m_lckRecv>>
  BY DEF ReleaseItem, DeleteAll, loop
<1>2. Current' = Current
  BY <1>1, CurrentKept
<1>3. Waiting' = <<>>
  <2>1. m_nMsgID \in [Item -> Posted] /\ <<>> \in Seq(Item)
    BY DEF Inv, TypeOK
  <2>2. Waiting' = Mapped(<<>>, m_nMsgID)
    BY <1>1 DEF Waiting, Message, Mapped
  <2> QED BY <2>1, <2>2, MappedEmpty
<1>4. CASE pc = "lock"
  <2>1. /\ Line = <<m_nMsgID[pItem]>> \o Waiting /\ m_nMsgID[pItem] \in Posted
        /\ Waiting \in Seq(Posted)
    BY <1>4, LineIs
  <2>2. Line' = <<m_nMsgID[pItem]>> \o <<>>
    BY <1>1, <1>3, <1>4 DEF Line, Message
  <2>3. Line' = <<m_nMsgID[pItem]>>
    BY <2>1, <2>2, ConcatEmptySeq
  <2>4. Line # <<>> /\ Head(Line) = m_nMsgID[pItem]
    BY <2>1, ConsHeadTail
  <2> QED BY <1>1, <1>2, <2>3, <2>4 DEF Bus!Drop
<1>5. CASE pc # "lock"
  <2>1. Line' = <<>>
    BY <1>1, <1>3, <1>5, ConcatEmptySeq DEF Line
  <2>2. CASE Line = <<>>
    BY <1>1, <1>2, <2>1, <2>2 DEF Bus!vars
  <2>3. CASE Line # <<>>
    BY <1>1, <1>2, <2>1, <2>3 DEF Bus!Drop
  <2> QED BY <2>2, <2>3
<1> QED BY <1>4, <1>5

(* Taking an item out of the list moves its message nowhere. *)
LEMMA TakeSteps ==
  ASSUME Inv, Inv', Take
  PROVE  UNCHANGED Bus!vars
<1>1. /\ pc = "drain" /\ pc' = "lock" /\ m_lstItemFull # <<>>
      /\ pItem' = Head(m_lstItemFull) /\ m_lstItemFull' = Tail(m_lstItemFull)
      /\ UNCHANGED <<m_nMsgID, m_lstReceiver, m_lckRecv>>
  BY DEF Take
<1>2. m_lstItemFull \in Seq(Item) /\ m_nMsgID \in [Item -> Posted]
  BY DEF Inv, TypeOK
<1>3. Line = Mapped(m_lstItemFull, m_nMsgID)
  BY <1>1, LineIs
<1>4. Line' = <<m_nMsgID[Head(m_lstItemFull)]>> \o Mapped(Tail(m_lstItemFull), m_nMsgID)
  BY <1>1 DEF Line, Waiting, Message, Mapped
<1>5. Line' = Line
  BY <1>1, <1>2, <1>3, <1>4, MappedTail
<1>6. Current = Nil /\ Current' = Nil
  <2>1. m_lckRecv = Nil
    BY <1>1 DEF Inv, HandInv
  <2> QED BY <1>1, <2>1 DEF Current
<1> QED BY <1>1, <1>5, <1>6 DEF Bus!vars

(* The first of the line begins to be delivered to the receivers of now. *)
LEMMA BeginSteps ==
  ASSUME Inv, Inv', NotifyItem
  PROVE  Bus!Begin
<1>1. /\ pc = "lock" /\ pc' = "next" /\ pPos' = 1 /\ m_lckRecv' = "dispatcher"
      /\ UNCHANGED <<m_lstItemFull, m_nMsgID, m_lstReceiver, pItem>>
  BY DEF NotifyItem, items
<1>2. /\ Line = <<m_nMsgID[pItem]>> \o Waiting /\ m_nMsgID[pItem] \in Posted
      /\ Waiting \in Seq(Posted)
  BY <1>1, LineIs
<1>3. Line # <<>> /\ Head(Line) = m_nMsgID[pItem] /\ Tail(Line) = Waiting
  BY <1>2, ConsHeadTail
<1>4. Waiting' = Waiting
  BY <1>1, WaitingKept
<1>5. Line' = Waiting
  BY <1>1, <1>2, <1>4, ConcatEmptySeq DEF Line
<1>6. Current = Nil
  BY <1>1, CurrentIs
<1>7. Current' = [msg |-> m_nMsgID[pItem],
                  todo |-> SubSeq(m_lstReceiver, 1, Len(m_lstReceiver))]
  BY <1>1, NilAssumption DEF Current, Message
<1>8. SubSeq(m_lstReceiver, 1, Len(m_lstReceiver)) = m_lstReceiver
  BY SubSeqFull DEF Inv, TypeOK
<1> QED BY <1>1, <1>3, <1>5, <1>6, <1>7, <1>8 DEF Bus!Begin

(* One receiver more has it. *)
LEMMA DeliverSteps ==
  ASSUME Inv, Inv', StepInv, Received
  PROVE  Bus!Deliver
<1>1. /\ pc = "callback" /\ pc' = "next" /\ pPos' = pPos + 1 /\ pPos <= Len(m_lstReceiver)
      /\ UNCHANGED <<m_lstItemFull, m_nMsgID, m_lstReceiver, pItem, m_lckRecv>>
  BY DEF Received, StepInv, items
<1> DEFINE todo == SubSeq(m_lstReceiver, pPos, Len(m_lstReceiver))
           rest == SubSeq(m_lstReceiver, pPos + 1, Len(m_lstReceiver))
<1>2. /\ Current # Nil /\ Current = [msg |-> m_nMsgID[pItem], todo |-> todo]
  BY <1>1, CurrentIs
<1>3. Current' = [msg |-> m_nMsgID[pItem], todo |-> rest]
  <2>1. m_lckRecv # Nil
    BY <1>1 DEF Inv, HandInv
  <2> QED BY <1>1, <2>1 DEF Current, Message
<1>4. Tail(todo) = rest /\ todo # <<>>
  <2>1. /\ m_lstReceiver \in Seq(Receiver) /\ Len(m_lstReceiver) \in Nat
        /\ pPos \in Nat \ {0}
    BY LenProperties DEF Inv, TypeOK
  <2>2. pPos \in 1..Len(m_lstReceiver) /\ Len(m_lstReceiver) \in pPos..Len(m_lstReceiver)
    BY <1>1, <2>1
  <2>3. Tail(todo) = rest
    BY <2>1, <2>2, HeadTailOfSubSeq
  <2>4. Len(todo) = Len(m_lstReceiver) - pPos + 1
    <3>1. \A k \in pPos..Len(m_lstReceiver) : m_lstReceiver[k] \in Receiver
      BY <2>1, ElementOfSeq
    <3> QED BY <1>1, <2>1, <3>1, SubSeqProperties
  <2> HIDE DEF todo
  <2>5. Len(todo) # 0 /\ Len(<<>>) = 0
    BY <1>1, <2>1, <2>4, EmptySeq
  <2>6. todo # <<>>
    BY <2>5
  <2> QED BY <2>3, <2>6, Zenon
<1>5. Line' = Line
  BY <1>1, LineKept
<1> HIDE DEF todo, rest
<1>6. Current.todo = todo
  BY <1>2
<1>7. [Current EXCEPT !.todo = Tail(todo)] = [msg |-> m_nMsgID[pItem], todo |-> rest]
  <2>1. Current \in [msg : Posted, todo : Seq(Receiver)] /\ Current.msg = m_nMsgID[pItem]
    BY <1>1, <1>2, CurrentIs
  <2>2. [Current EXCEPT !.todo = Tail(todo)] = [msg |-> m_nMsgID[pItem], todo |-> Tail(todo)]
    BY <2>1, RestOf, Zenon
  <2> QED BY <1>4, <2>2, Zenon
<1> QED BY <1>1, <1>2, <1>3, <1>4, <1>5, <1>6, <1>7, Zenon DEF Bus!Deliver

(* ... until all have. *)
LEMMA EndSteps ==
  ASSUME Inv, Inv', Recycle
  PROVE  Bus!End
<1>1. /\ pc = "next" /\ pc' = "drain" /\ pPos > Len(m_lstReceiver) /\ m_lckRecv' = Nil
      /\ UNCHANGED <<m_lstItemFull, m_nMsgID, m_lstReceiver>>
  BY DEF Recycle
<1>2. Current # Nil /\ Current.todo = SubSeq(m_lstReceiver, pPos, Len(m_lstReceiver))
  BY <1>1, CurrentIs
<1>3. SubSeq(m_lstReceiver, pPos, Len(m_lstReceiver)) = <<>>
  <2>1. Len(m_lstReceiver) \in Int /\ pPos \in Int
    BY LenProperties DEF Inv, TypeOK
  <2> QED BY <1>1, <2>1, SubSeqEmpty
<1>4. Current' = Nil
  BY <1>1 DEF Current
<1>5. Line' = Line
  <2>1. Waiting' = Waiting
    BY <1>1, WaitingKept
  <2> QED BY <1>1, <2>1 DEF Line
<1> QED BY <1>1, <1>2, <1>3, <1>4, <1>5 DEF Bus!End

(* Receivers come and go only between two messages. *)
LEMMA JoinSteps ==
  ASSUME Inv, Inv', RegAdds
  PROVE  Bus!Join
<1>1. /\ m_lckRecv = Nil /\ m_lstReceiver' = Append(m_lstReceiver, call.recv)
      /\ UNCHANGED <<m_lstItemFull, m_nMsgID, pc, pItem, pPos, m_lckRecv>>
  BY DEF RegAdds, CanRegister, items, loop
<1>2. call.recv \in Receiver
  BY DEF RegAdds, Inv, CallInv
<1>3. Current = Nil /\ Current' = Nil
  BY <1>1 DEF Current
<1>4. Line' = Line
  BY <1>1, LineKept
<1> QED BY <1>1, <1>2, <1>3, <1>4 DEF Bus!Join

LEMMA LeaveSteps ==
  ASSUME Inv, Inv', RemRemoves
  PROVE  Bus!Leave \/ UNCHANGED Bus!vars
<1>1. /\ m_lckRecv = Nil /\ UNCHANGED <<m_lstItemFull, m_nMsgID, pc, pItem, pPos, m_lckRecv>>
      /\ \/ \E k \in 1..Len(m_lstReceiver) : m_lstReceiver' = RemoveAt(m_lstReceiver, k)
         \/ UNCHANGED m_lstReceiver
  BY DEF RemRemoves, CanRegister, items, loop
<1>2. Current = Nil /\ Current' = Nil
  BY <1>1 DEF Current
<1>3. Line' = Line
  BY <1>1, LineKept
<1>4. DOMAIN m_lstReceiver = 1..Len(m_lstReceiver)
  BY LenProperties DEF Inv, TypeOK
<1>5. ASSUME NEW k \in 1..Len(m_lstReceiver), m_lstReceiver' = RemoveAt(m_lstReceiver, k)
      PROVE  Bus!Leave
  BY <1>2, <1>3, <1>4, <1>5 DEF Bus!Leave, Bus!RemoveAt, RemoveAt
<1>6. CASE UNCHANGED m_lstReceiver
  BY <1>2, <1>3, <1>6 DEF Bus!vars
<1> QED BY <1>1, <1>5, <1>6

LEMMA ReleaseSteps ==
  ASSUME Inv, Inv', StepInv, DeleteReleases
  PROVE  Bus!Leave
<1>1. /\ call.op = "del.stop" /\ pc \in {"none", "gone"}
      /\ m_lstItemFull' = <<>> /\ m_lstReceiver' = <<>>
      /\ UNCHANGED <<m_nMsgID, pc, pItem, pPos, m_lckRecv>>
  BY DEF DeleteReleases, ThreadEnded, DeleteAll, loop
<1>2. m_lstItemFull = <<>>
  BY <1>1 DEF StepInv
<1>3. m_lckRecv = Nil
  BY <1>1 DEF Inv, HandInv
<1>4. Current = Nil /\ Current' = Nil
  BY <1>1, <1>3 DEF Current
<1>5. Line' = Line
  BY <1>1, <1>2, LineKept
<1> QED BY <1>1, <1>4, <1>5 DEF Bus!Leave

(* Every step of CMsgMng is a step of the bus or none. *)
LEMMA BusStep ==
  ASSUME Inv, Inv', StepInv, [Next]_vars
  PROVE  [Bus!Next]_(Bus!vars)
<1>1. ASSUME NEW m \in Msg, Notify(m) PROVE Bus!Next
  BY <1>1, PostSteps DEF Notify, Posted, Bus!Next
<1>2. CASE ReleaseItem
  BY <1>2, DropSteps DEF Bus!Next
<1>3. ASSUME NEW r \in Receiver, RegNotify(r) \/ RemNotify(r) PROVE UNCHANGED Bus!vars
  <2>1. /\ UNCHANGED <<m_lstItemFull, m_nMsgID, pItem, pPos, m_lckRecv, m_lstReceiver>>
        /\ pc = "lock" <=> pc' = "lock"
    BY <1>3 DEF RegNotify, RemNotify, items, loop
  <2> QED BY <2>1, LineKept, CurrentKept, BusKept
<1>4. CASE RegAdds
  BY <1>4, JoinSteps DEF Bus!Next
<1>5. CASE RemRemoves
  BY <1>5, LeaveSteps DEF Bus!Next
<1>6. CASE OpenBegins \/ OpenEnds \/ OpenRefused \/ DeleteWaits \/ UNCHANGED vars
  <2>1. UNCHANGED <<m_lstItemFull, m_nMsgID, pc, pItem, pPos, m_lckRecv, m_lstReceiver>>
    BY <1>6 DEF OpenBegins, OpenEnds, OpenRefused, DeleteWaits, vars, items, loop
  <2> QED BY <2>1, LineKept, CurrentKept, BusKept
<1>7. CASE OnWorkItem \/ Drained \/ ReceiveMsg \/ DispatcherStops
  <2>1. /\ UNCHANGED <<m_lstItemFull, m_nMsgID, pItem, pPos, m_lckRecv, m_lstReceiver>>
        /\ pc = "lock" <=> pc' = "lock"
    BY <1>7 DEF OnWorkItem, Drained, ReceiveMsg, DispatcherStops, items
  <2> QED BY <2>1, LineKept, CurrentKept, BusKept
<1>8. CASE Take
  BY <1>8, TakeSteps
<1>9. CASE NotifyItem
  BY <1>9, BeginSteps DEF Bus!Next
<1>10. CASE Received
  BY <1>10, DeliverSteps DEF Bus!Next
<1>11. CASE Recycle
  BY <1>11, EndSteps DEF Bus!Next
<1>12. CASE Delete
  BY <1>12, PostSteps DEF Delete, Posted, Bus!Next
<1>13. CASE DeleteReleases
  BY <1>13, ReleaseSteps DEF Bus!Next
<1> QED
  BY <1>1, <1>2, <1>3, <1>4, <1>5, <1>6, <1>7, <1>8, <1>9, <1>10, <1>11, <1>12, <1>13
  DEF Next, Locks, Dispatcher, Deleting, Deleted

(* CMsgMng keeps what MsgBus promises: messages are begun in the order they *)
(* were posted, each goes once to every receiver that is registered when it *)
(* begins, in the order of registration, and no receiver comes or goes      *)
(* meanwhile, whatever threads post, register and drop.                     *)
THEOREM MsgBusImplemented == Spec => ImplementsMsgBus
<1>1. Init => Bus!Init /\ StepInv
  <2> SUFFICES ASSUME Init PROVE Bus!Init /\ StepInv
    OBVIOUS
  <2>1. Inv /\ pc # "lock" /\ m_lstItemFull = <<>> /\ m_lckRecv = Nil /\ m_lstReceiver = <<>>
    BY InvInit DEF Init
  <2>2. Line = Mapped(m_lstItemFull, m_nMsgID)
    BY <2>1, LineIs
  <2>3. Line = <<>>
    BY <2>1, <2>2, MappedEmpty DEF Inv, TypeOK
  <2>4. Current = Nil
    BY <2>1 DEF Current
  <2>5. StepInv
    BY DEF Init, Call, StepInv
  <2> QED BY <2>1, <2>3, <2>4, <2>5 DEF Bus!Init
<1>2. Inv /\ StepInv /\ [Next]_vars => StepInv'
  BY StepInvNext
<1>3. Inv /\ Inv' /\ StepInv /\ [Next]_vars => [Bus!Next]_(Bus!vars)
  BY BusStep
<1> QED BY <1>1, <1>2, <1>3, InvInit, InvNext, PTL DEF Spec, ImplementsMsgBus, Bus!Spec
=============================================================================
