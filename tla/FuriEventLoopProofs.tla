------------------------- MODULE FuriEventLoopProofs -------------------------
(***************************************************************************)
(* Proofs about FuriEventLoop, for every set of queues, items, threads and *)
(* subscription kinds.                                                     *)
(***************************************************************************)
EXTENDS FuriEventLoop, SequenceLemmas

(***************************************************************************)
(* The structural invariant: types, registry, waiting list and pass.       *)
(***************************************************************************)
Structure == TypeOK /\ RegistrySound /\ WaitingSound /\ PassSound

LEMMA StructureInit == Init => Structure
<1> SUFFICES ASSUME Init PROVE Structure
  OBVIOUS
<1> USE ConstantsAssumption DEF Init
<1>1. TypeOK
  <2>1. waiting \in Seq(Items) /\ pending \in Seq(Callbacks)
    OBVIOUS
  <2>2. custom \in [events : SUBSET CustomEvents, callback : BOOLEAN]
    OBVIOUS
  <2>3. inflight \in [Threads -> Notices]
    BY DEF Notices
  <2>4. /\ count \in [Objects -> 0..Capacity]
        /\ item \in [Items -> Subscriptions \union {Freed}]
        /\ tree \in [Objects -> Items \union {Nil}]
        /\ link \in [Objects -> [Dirs -> Items \union {Nil}]]
    OBVIOUS
  <2>5. pc \in Pcs
    BY DEF Pcs, UserPcs
  <2> QED BY <2>1, <2>2, <2>3, <2>4, <2>5 DEF TypeOK
<1>2. RegistrySound
  BY DEF RegistrySound, Freed
<1>3. WaitingSound
  BY DEF WaitingSound, IsWaiting, Contains, Distinct
<1>4. PassSound
  BY DEF PassSound, Processing
<1> QED BY <1>1, <1>2, <1>3, <1>4 DEF Structure

(* What furi_event_loop_item_notify does to the waiting list. *)
LEMMA ItemNotifyEffect ==
  ASSUME TypeOK, WaitingSound, NEW i \in Items, ItemNotify(i)
  PROVE  /\ waiting' \in Seq(Items) /\ waiting' # <<>>
         /\ Distinct(waiting')
         /\ \A j : Contains(waiting', j) <=> Contains(waiting, j) \/ j = i
         /\ bits' \subseteq Flags /\ "Event" \in bits'
<1>1. waiting \in Seq(Items) /\ Distinct(waiting) /\ bits \subseteq Flags
  BY DEF TypeOK, WaitingSound
<1>2. bits' \subseteq Flags /\ "Event" \in bits'
  BY <1>1 DEF ItemNotify, Flags
<1>3. CASE IsWaiting(i)
  <2>1. waiting' = waiting /\ Contains(waiting, i)
    BY <1>3 DEF ItemNotify, PushWaiting, IsWaiting
  <2>2. waiting # <<>>
    BY <2>1 DEF Contains
  <2> QED BY <1>1, <1>2, <2>1, <2>2
<1>4. CASE ~IsWaiting(i)
  <2>1. waiting' = Append(waiting, i) /\ ~Contains(waiting, i)
    BY <1>4 DEF ItemNotify, PushWaiting, IsWaiting
  <2> QED BY <1>1, <1>2, <2>1, AppendContains
<1> QED BY <1>3, <1>4

(* What furi_event_loop_unsubscribe does to the registry and to the list.  *)
LEMMA UnsubscribeEffect ==
  ASSUME TypeOK, RegistrySound, WaitingSound,
         NEW o \in Objects, tree[o] # Nil, UnsubscribeItem(o)
  PROVE  /\ tree[o] \in Items /\ item[tree[o]] # Freed /\ item[tree[o]].object = o
         /\ item' \in [Items -> Subscriptions \union {Freed}]
         /\ tree' = [tree EXCEPT ![o] = Nil]
         /\ tree' \in [Objects -> Items \union {Nil}]
         /\ link' \in [Objects -> [Dirs -> Items \union {Nil}]]
         /\ \A p \in Objects, d \in Dirs : link'[p][d] = IF p = o THEN Nil ELSE link[p][d]
         /\ waiting' \in Seq(Items) /\ Distinct(waiting')
         /\ \A i : Contains(waiting', i) <=> Contains(waiting, i) /\ i # tree[o]
         /\ \A i \in Items : i # tree[o] => item'[i] = item[i]
         /\ item'[tree[o]] = IF current = tree[o] THEN [item[tree[o]] EXCEPT !.owner = FALSE]
                                                  ELSE Freed
<1> DEFINE i == tree[o]
           d == item[i].kind.dir
<1>1. /\ i \in Items /\ item[i] # Freed /\ item[i] \in Subscriptions
      /\ item[i].owner /\ item[i].object = o /\ link[o][d] = i
  BY DEF TypeOK, RegistrySound
<1>2. d \in Dirs
  BY <1>1, ConstantsAssumption DEF Subscriptions
<1>3. \A e \in Dirs : e # d => link[o][e] = Nil
  BY <1>1, <1>2 DEF RegistrySound
<1>4. /\ link' \in [Objects -> [Dirs -> Items \union {Nil}]]
      /\ \A p \in Objects, e \in Dirs : link'[p][e] = IF p = o THEN Nil ELSE link[p][e]
  BY <1>2, <1>3 DEF TypeOK, UnsubscribeItem
<1>5. tree' = [tree EXCEPT ![o] = Nil] /\ tree' \in [Objects -> Items \union {Nil}]
  BY DEF TypeOK, UnsubscribeItem
<1>6. /\ waiting' \in Seq(Items) /\ Distinct(waiting')
      /\ \A j : Contains(waiting', j) <=> Contains(waiting, j) /\ j # i
  <2>1. waiting' = Unlink(waiting, i) /\ waiting \in Seq(Items) /\ Distinct(waiting)
    BY DEF TypeOK, WaitingSound, UnsubscribeItem
  <2> QED BY <2>1, UnlinkContains
<1>7. /\ item' \in [Items -> Subscriptions \union {Freed}]
      /\ \A j \in Items : j # i => item'[j] = item[j]
      /\ item'[i] = IF current = i THEN [item[i] EXCEPT !.owner = FALSE] ELSE Freed
  <2>1. [item[i] EXCEPT !.owner = FALSE] \in Subscriptions
    BY <1>1 DEF Subscriptions
  <2> QED BY <1>1, <2>1 DEF TypeOK, UnsubscribeItem
<1> QED BY <1>1, <1>4, <1>5, <1>6, <1>7

(***************************************************************************)
(* Every step keeps the structural invariant.                              *)
(***************************************************************************)

(* Operations of other threads and of the queues leave the structure alone *)
(* but for the waiting list, which only grows by a live subscription.      *)
LEMMA StructureThread ==
  ASSUME Structure, NEW t \in Threads, ThreadCall(t) \/ Notify(t)
  PROVE  Structure'
<1> USE DEF Structure
<1>1. ASSUME UNCHANGED <<item, tree, link, waiting, pending, pc, flags, cur, current, again>>,
             (count \in [Objects -> 0..Capacity])', (bits \subseteq Flags)',
             (custom \in [events : SUBSET CustomEvents, callback : BOOLEAN])',
             (inflight \in [Threads -> Notices])'
      PROVE  Structure'
  <2>1. TypeOK'
    BY <1>1 DEF TypeOK
  <2>2. RegistrySound' /\ WaitingSound' /\ PassSound'
    BY <1>1 DEF RegistrySound, WaitingSound, PassSound, IsWaiting
  <2> QED BY <2>1, <2>2
<1>2. ASSUME NEW o \in Objects,
             MessageQueuePut(t, o) \/ MessageQueueGet(t, o) \/ MessageQueueReset(t, o)
      PROVE  Structure'
  <2>1. (count \in [Objects -> 0..Capacity])'
    <3>1. count \in [Objects -> 0..Capacity] /\ Capacity \in Nat /\ count[o] \in 0..Capacity
      BY ConstantsAssumption DEF TypeOK
    <3>2. CASE MessageQueuePut(t, o)
      BY <3>1, <3>2 DEF MessageQueuePut
    <3>3. CASE MessageQueueGet(t, o)
      BY <3>1, <3>3 DEF MessageQueueGet
    <3>4. CASE MessageQueueReset(t, o)
      BY <3>1, <3>4 DEF MessageQueueReset
    <3> QED BY <1>2, <3>2, <3>3, <3>4
  <2>2. (inflight \in [Threads -> Notices])'
    <3>1. \A d \in Dirs : [what |-> "queue", object |-> o, dir |-> d] \in Notices
      BY DEF Notices, QueueNotices
    <3>2. \E d \in Dirs : inflight' =
            [inflight EXCEPT ![t] = [what |-> "queue", object |-> o, dir |-> d]]
      BY <1>2 DEF MessageQueuePut, MessageQueueGet, MessageQueueReset, Owes, Dirs
    <3> QED BY <3>1, <3>2 DEF TypeOK
  <2> QED
    BY <1>1, <1>2, <2>1, <2>2
       DEF TypeOK, MessageQueuePut, MessageQueueGet, MessageQueueReset, registry, pass
<1>3. ASSUME NEW e \in CustomEvents, SetCustomEvent(t, e) PROVE Structure'
  <2>1. (custom \in [events : SUBSET CustomEvents, callback : BOOLEAN])'
    BY <1>3 DEF TypeOK, SetCustomEvent
  <2>2. (inflight \in [Threads -> Notices])'
    BY <1>3 DEF TypeOK, SetCustomEvent, Notices
  <2> QED BY <1>1, <1>3, <2>1, <2>2 DEF TypeOK, SetCustomEvent, registry, pass
<1>4. CASE Stop(t)
  BY <1>1, <1>4 DEF TypeOK, Stop, Flags, registry, pass
<1>5. CASE CustomNotify(t)
  <2>1. (inflight \in [Threads -> Notices])'
    BY <1>5 DEF TypeOK, CustomNotify, Notices
  <2> QED BY <1>1, <1>5, <2>1 DEF TypeOK, CustomNotify, Flags, registry, pass
<1>6. CASE LinkNotify(t)
  <2> DEFINE i == link[inflight[t].object][inflight[t].dir]
  <2>1. inflight[t].object \in Objects /\ inflight[t].dir \in Dirs
    BY <1>6 DEF LinkNotify, QueueNotices
  <2>2. (inflight \in [Threads -> Notices])'
    BY <1>6 DEF TypeOK, LinkNotify, Notices
  <2>3. CASE i = Nil
    BY <1>1, <1>6, <2>2, <2>3 DEF TypeOK, LinkNotify, registry, pass
  <2>4. CASE i # Nil
    <3>1. i \in Items /\ item[i] # Freed /\ item[i].owner /\ pc # "freed"
      BY <2>1, <2>4 DEF TypeOK, RegistrySound, PassSound
    <3>2. ItemNotify(i)
      BY <1>6, <2>4 DEF LinkNotify
    <3>3. /\ (waiting \in Seq(Items))' /\ Distinct(waiting')
          /\ \A j : Contains(waiting', j) <=> Contains(waiting, j) \/ j = i
          /\ (bits \subseteq Flags)'
      BY <3>1, <3>2, ItemNotifyEffect
    <3>4. UNCHANGED <<count, item, tree, link, custom, pending, pc, flags, cur, current, again>>
      BY <1>6 DEF LinkNotify, registry, pass
    <3> HIDE DEF i
    <3>5. TypeOK'
      BY <2>2, <3>3, <3>4 DEF TypeOK
    <3>6. RegistrySound'
      BY <3>1, <3>3, <3>4 DEF RegistrySound, IsWaiting
    <3>7. WaitingSound'
      BY <3>1, <3>3, <3>4 DEF WaitingSound, IsWaiting
    <3>8. PassSound'
      BY <3>1, <3>4 DEF PassSound
    <3> QED BY <3>5, <3>6, <3>7, <3>8
  <2> QED BY <2>3, <2>4
<1> QED BY <1>2, <1>3, <1>4, <1>5, <1>6 DEF ThreadCall, Notify

(* The registry after an unsubscription, also when it is the one that the  *)
(* Once flag asks for. current_item is the orphan, if there is one.        *)
LEMMA UnsubscribeRegistry ==
  ASSUME TypeOK, RegistrySound, WaitingSound,
         NEW o \in Objects, tree[o] # Nil, UnsubscribeItem(o),
         current' = current \/ current = Nil
  PROVE  RegistrySound'
<1> DEFINE i == tree[o]
<1>1. /\ i \in Items /\ item[i] # Freed /\ item[i].object = o /\ item[i].owner
  BY UnsubscribeEffect DEF RegistrySound
<1>2. /\ \A p \in Objects : tree'[p] = IF p = o THEN Nil ELSE tree[p]
      /\ \A p \in Objects, d \in Dirs : link'[p][d] = IF p = o THEN Nil ELSE link[p][d]
      /\ \A j \in Items : j # i => item'[j] = item[j]
      /\ item'[i] = IF current = i THEN [item[i] EXCEPT !.owner = FALSE] ELSE Freed
      /\ \A j : Contains(waiting', j) <=> Contains(waiting, j) /\ j # i
  <2>1. tree' = [tree EXCEPT ![o] = Nil] /\ tree \in [Objects -> Items \union {Nil}]
    BY DEF UnsubscribeItem, TypeOK
  <2> QED BY <2>1, UnsubscribeEffect
<1>3. \A p \in Objects : p # o => tree[p] # i
  BY <1>1 DEF RegistrySound
<1>4. \A p \in Objects : tree'[p] # Nil =>
        /\ item'[tree'[p]] # Freed
        /\ item'[tree'[p]].owner /\ item'[tree'[p]].object = p
        /\ link'[p][item'[tree'[p]].kind.dir] = tree'[p]
  <2> SUFFICES ASSUME NEW p \in Objects, tree'[p] # Nil
               PROVE  /\ item'[tree'[p]] # Freed
                      /\ item'[tree'[p]].owner /\ item'[tree'[p]].object = p
                      /\ link'[p][item'[tree'[p]].kind.dir] = tree'[p]
    OBVIOUS
  <2>1. /\ p # o /\ tree'[p] = tree[p] /\ tree[p] # Nil
        /\ tree[p] \in Items /\ item'[tree[p]] = item[tree[p]]
    BY <1>2, <1>3 DEF TypeOK
  <2>2. /\ item[tree[p]] # Freed /\ item[tree[p]].owner /\ item[tree[p]].object = p
        /\ link[p][item[tree[p]].kind.dir] = tree[p]
    BY <2>1 DEF RegistrySound
  <2>3. item[tree[p]].kind.dir \in Dirs
    BY <2>1, <2>2, ConstantsAssumption DEF TypeOK, Subscriptions
  <2> QED BY <1>2, <2>1, <2>2, <2>3
<1>5. \A p \in Objects, d \in Dirs : link'[p][d] # Nil =>
        tree'[p] = link'[p][d] /\ item'[tree'[p]].kind.dir = d
  BY <1>2, <1>3 DEF RegistrySound, TypeOK
<1>6. \A j \in Items : item'[j] # Freed =>
        IF item'[j].owner THEN tree'[item'[j].object] = j
                          ELSE j = current' /\ ~Contains(waiting', j)
  <2> SUFFICES ASSUME NEW j \in Items, item'[j] # Freed
               PROVE  IF item'[j].owner THEN tree'[item'[j].object] = j
                                        ELSE j = current' /\ ~Contains(waiting', j)
    OBVIOUS
  <2>1. CASE j = i
    <3>1. current = i /\ item'[i] = [item[i] EXCEPT !.owner = FALSE]
      BY <2>1, <1>2
    <3>2. item'[i].owner = FALSE
      BY <3>1, <1>1 DEF TypeOK, Subscriptions
    <3> QED BY <2>1, <3>1, <3>2, <1>1, <1>2, ConstantsAssumption
  <2>2. CASE j # i
    <3>1. item'[j] = item[j] /\ item[j].object \in Objects
      BY <2>2, <1>2 DEF TypeOK, Subscriptions
    <3>2. IF item[j].owner THEN tree[item[j].object] = j
                           ELSE j = current /\ ~Contains(waiting, j)
      BY <3>1 DEF RegistrySound, IsWaiting
    <3>3. item[j].owner => item[j].object # o
      BY <2>2, <3>2
    <3> QED BY <3>1, <3>2, <3>3, <1>2, ConstantsAssumption
  <2> QED BY <2>1, <2>2
<1> HIDE DEF i
<1> QED BY <1>4, <1>5, <1>6 DEF RegistrySound, IsWaiting

(* Calls of the loop's own thread: subscribe, unsubscribe, run, free, ... *)
LEMMA StructureOwner ==
  ASSUME Structure, OwnerCall
  PROVE  Structure'
<1> USE DEF Structure
<1>1. ASSUME NEW o \in Objects, NEW k \in Kinds, Subscribe(o, k) PROVE Structure'
  <2>1. /\ MayCall(Loop, "subscribe") /\ tree[o] = Nil /\ k.dir \in Dirs
        /\ UNCHANGED <<count, custom, pending, pc, flags, cur, current, again, inflight>>
    BY <1>1, ConstantsAssumption DEF Subscribe, pass
  <2>2. PICK i \in Items :
          /\ item[i] = Freed
          /\ item' = [item EXCEPT ![i] = [owner |-> TRUE, object |-> o, kind |-> k]]
          /\ tree' = [tree EXCEPT ![o] = i]
          /\ link' = [link EXCEPT ![o][k.dir] = i]
          /\ IF ~k.edge /\ GetLevel(o, k.dir)
               THEN ItemNotify(i)
               ELSE UNCHANGED <<waiting, bits>>
    BY <1>1 DEF Subscribe
  <2> DEFINE new == [owner |-> TRUE, object |-> o, kind |-> k]
  <2>3. new \in Subscriptions /\ new # Freed /\ new.owner /\ new.object = o /\ new.kind = k
    BY DEF Subscriptions, Freed
  <2>4. /\ (waiting \in Seq(Items))' /\ Distinct(waiting') /\ (bits \subseteq Flags)'
        /\ \A j : Contains(waiting', j) => Contains(waiting, j) \/ j = i
    <3>1. CASE ItemNotify(i)
      BY <3>1, ItemNotifyEffect
    <3>2. CASE UNCHANGED <<waiting, bits>>
      BY <3>2 DEF TypeOK, WaitingSound
    <3> QED BY <2>2, <3>1, <3>2
  <2>5. /\ \A j \in Items : item'[j] = IF j = i THEN new ELSE item[j]
        /\ \A p \in Objects : tree'[p] = IF p = o THEN i ELSE tree[p]
        /\ \A p \in Objects, d \in Dirs :
             link'[p][d] = IF p = o /\ d = k.dir THEN i ELSE link[p][d]
        /\ item' \in [Items -> Subscriptions \union {Freed}]
        /\ tree' \in [Objects -> Items \union {Nil}]
        /\ link' \in [Objects -> [Dirs -> Items \union {Nil}]]
    BY <2>1, <2>2, <2>3 DEF TypeOK
  <2>6. \A d \in Dirs : link[o][d] = Nil
    BY <2>1, ConstantsAssumption DEF RegistrySound, TypeOK
  <2>7. \A p \in Objects : tree[p] # i
    BY <2>2, ConstantsAssumption DEF RegistrySound, TypeOK
  <2>8. ~IsWaiting(i)
    BY <2>2 DEF WaitingSound, Freed
  <2>9. pc \in UserPcs /\ pc # "freed"
    BY <2>1 DEF MayCall, UserPcs
  <2> HIDE DEF new
  <2>10. TypeOK'
    BY <2>1, <2>4, <2>5 DEF TypeOK
  <2>11. RegistrySound'
    <3>1. \A p \in Objects : tree'[p] # Nil =>
            /\ item'[tree'[p]] # Freed
            /\ item'[tree'[p]].owner /\ item'[tree'[p]].object = p
            /\ link'[p][item'[tree'[p]].kind.dir] = tree'[p]
      BY <2>1, <2>3, <2>5, <2>7, ConstantsAssumption DEF RegistrySound, TypeOK, Subscriptions
    <3>2. \A p \in Objects, d \in Dirs : link'[p][d] # Nil =>
            tree'[p] = link'[p][d] /\ item'[tree'[p]].kind.dir = d
      BY <2>1, <2>3, <2>5, <2>6, <2>7, ConstantsAssumption DEF RegistrySound, TypeOK
    <3>3. \A j \in Items : item'[j] # Freed =>
            IF item'[j].owner THEN tree'[item'[j].object] = j
                              ELSE j = current' /\ ~Contains(waiting', j)
      <4> SUFFICES ASSUME NEW j \in Items, item'[j] # Freed
                   PROVE  IF item'[j].owner THEN tree'[item'[j].object] = j
                                            ELSE j = current' /\ ~Contains(waiting', j)
        OBVIOUS
      <4>1. CASE j = i
        BY <4>1, <2>3, <2>5
      <4>2. CASE j # i
        <5>1. item'[j] = item[j] /\ item[j] \in Subscriptions /\ item[j].object \in Objects
          BY <4>2, <2>5 DEF TypeOK, Subscriptions
        <5>2. IF item[j].owner THEN tree[item[j].object] = j
                               ELSE j = current /\ ~Contains(waiting, j)
          BY <5>1 DEF RegistrySound, IsWaiting
        <5>3. item[j].owner => item[j].object # o
          BY <5>2, <2>1, ConstantsAssumption
        <5> QED BY <4>2, <5>1, <5>2, <5>3, <2>1, <2>4, <2>5
      <4> QED BY <4>1, <4>2
    <3> QED BY <3>1, <3>2, <3>3 DEF RegistrySound, IsWaiting
  <2>12. WaitingSound'
    BY <2>3, <2>4, <2>5 DEF WaitingSound, IsWaiting
  <2>13. PassSound'
    BY <2>1, <2>2, <2>3, <2>5, <2>9 DEF PassSound, UserPcs, Processing
  <2> QED BY <2>10, <2>11, <2>12, <2>13
<1>2. ASSUME NEW o \in Objects, Unsubscribe(o) PROVE Structure'
  <2>1. /\ pc \in UserPcs /\ tree[o] # Nil /\ UnsubscribeItem(o)
        /\ UNCHANGED <<count, bits, custom, pending, pc, flags, cur, current, again, inflight>>
    BY <1>2 DEF Unsubscribe, MayCall, pass
  <2>2. /\ TypeOK' /\ WaitingSound'
        /\ tree[o] \in Items /\ item[tree[o]] # Freed
        /\ waiting # <<>> \/ waiting' = <<>>
        /\ \A i \in Items : i # tree[o] => item'[i] = item[i]
        /\ item'[tree[o]] = IF current = tree[o] THEN [item[tree[o]] EXCEPT !.owner = FALSE]
                                                 ELSE Freed
    <3>1. TypeOK'
      BY <2>1, UnsubscribeEffect DEF TypeOK
    <3>2. WaitingSound'
      <4>1. /\ Distinct(waiting')
            /\ \A i : Contains(waiting', i) <=> Contains(waiting, i) /\ i # tree[o]
            /\ \A i \in Items : i # tree[o] => item'[i] = item[i]
        BY <2>1, UnsubscribeEffect
      <4> QED BY <4>1 DEF WaitingSound, IsWaiting
    <3>3. waiting # <<>> \/ waiting' = <<>>
      BY <2>1 DEF UnsubscribeItem, Unlink, Contains
    <3> QED BY <2>1, <3>1, <3>2, <3>3, UnsubscribeEffect
  <2>3. RegistrySound'
    BY <2>1, UnsubscribeRegistry
  <2>4. PassSound'
    <3>1. pc \in {"callback", "recheck", "finish"} => item'[cur] # Freed
      <4> SUFFICES ASSUME pc \in {"callback", "recheck", "finish"} PROVE item'[cur] # Freed
        OBVIOUS
      <4>1. cur \in Items /\ cur = current /\ item[cur] # Freed
        BY DEF PassSound, Processing
      <4>2. CASE cur = tree[o]
        <5>1. item[cur] \in Subscriptions
          BY <4>1 DEF TypeOK
        <5>2. [item[cur] EXCEPT !.owner = FALSE].object = item[cur].object
          BY <5>1 DEF Subscriptions
        <5>3. item[cur].object # Nil
          <6>1. item[tree[o]].object = o
            BY <2>1, UnsubscribeEffect
          <6> QED BY <4>2, <6>1, ConstantsAssumption
        <5>4. item'[cur].object # Nil
          BY <2>2, <4>1, <4>2, <5>2, <5>3
        <5> QED BY <5>4 DEF Freed
      <4>3. CASE cur # tree[o]
        BY <2>2, <4>1, <4>3
      <4> QED BY <4>2, <4>3
    <3>2. pc \notin {"process", "dispatch", "freed"}
      BY <2>1 DEF UserPcs
    <3> QED BY <2>1, <3>1, <3>2 DEF PassSound, Processing
  <2> QED BY <2>2, <2>3, <2>4
<1>3. ASSUME NEW f \in Callbacks, PendCallback(f) PROVE Structure'
  <2>1. /\ pending' = Append(pending, f) /\ bits' = bits \union {"Pending"} /\ pc # "freed"
        /\ UNCHANGED <<count, item, tree, link, waiting, custom, pc, flags, cur, current,
                       again, inflight>>
    BY <1>3 DEF PendCallback, MayCall, UserPcs, registry, pass
  <2>2. (pending \in Seq(Callbacks))' /\ pending' # <<>>
    BY <2>1, AppendProperties DEF TypeOK
  <2>3. TypeOK'
    BY <2>1, <2>2 DEF TypeOK, Flags
  <2>4. RegistrySound' /\ WaitingSound' /\ PassSound'
    BY <2>1, <2>2 DEF RegistrySound, WaitingSound, PassSound, IsWaiting
  <2> QED BY <2>3, <2>4
<1>4. CASE SetCustomEventCallback
  <2>1. TypeOK'
    BY <1>4 DEF TypeOK, SetCustomEventCallback, registry, pass, Flags
  <2>2. RegistrySound' /\ WaitingSound' /\ PassSound'
    BY <1>4 DEF SetCustomEventCallback, RegistrySound, WaitingSound, PassSound, IsWaiting,
                registry, pass
  <2> QED BY <2>1, <2>2
<1>5. CASE Run
  <2>0. /\ pc = "idle" /\ pc' = "wait"
        /\ UNCHANGED <<count, item, tree, link, waiting, bits, custom, pending, flags, cur,
                       current, again, inflight>>
    BY <1>5 DEF Run, registry, pass
  <2>1. TypeOK'
    BY <2>0 DEF TypeOK, Pcs
  <2>2. RegistrySound' /\ WaitingSound'
    BY <2>0 DEF RegistrySound, WaitingSound, IsWaiting
  <2>3. PassSound'
    BY <2>0 DEF PassSound, Processing
  <2> QED BY <2>1, <2>2, <2>3
<1>6. CASE Free
  <2>1. UNCHANGED <<count, item, tree, link, waiting, custom, flags, cur, current, again, inflight>>
    BY <1>6 DEF Free, registry, pass
  <2>2. /\ pc \in {"idle", "stopped"} /\ \A o \in Objects : tree[o] = Nil
        /\ pc' \in {"freed", "fault"}
        /\ pc' = "freed" => waiting = <<>>
        /\ pending' \in {pending, <<>>} /\ bits' \in {bits, {}}
    BY <1>6 DEF Free
  <2>3. TypeOK'
    <3>1. (pending \in Seq(Callbacks))'
      BY <2>2, EmptySeq DEF TypeOK
    <3>2. (pc \in Pcs)'
      BY <2>2 DEF Pcs
    <3>3. (bits \subseteq Flags)'
      BY <2>2 DEF TypeOK
    <3> QED BY <2>1, <3>1, <3>2, <3>3 DEF TypeOK
  <2>4. RegistrySound' /\ WaitingSound'
    BY <2>1 DEF RegistrySound, WaitingSound, IsWaiting
  <2>5. PassSound'
    BY <2>1, <2>2 DEF PassSound, Processing
  <2> QED BY <2>3, <2>4, <2>5
<1> QED BY <1>1, <1>2, <1>3, <1>4, <1>5, <1>6 DEF OwnerCall

(* The pass of the loop over its flags. *)
LEMMA StructurePass ==
  ASSUME Structure, LoopStep \/ UserReturn
  PROVE  Structure'
<1> USE DEF Structure
<1>1. CASE Wake
  <2>1. /\ pc = "wait" /\ pc' \in {"stopped", "events"}
        /\ (bits \subseteq Flags)' /\ (flags \subseteq Flags)'
        /\ pc' = "stopped" => flags' = {}
        /\ UNCHANGED <<count, item, tree, link, waiting, custom, pending, cur, current, again, inflight>>
    BY <1>1 DEF Wake, TypeOK, registry
  <2>2. TypeOK'
    BY <2>1 DEF TypeOK, Pcs, UserPcs
  <2>3. RegistrySound' /\ WaitingSound'
    BY <2>1 DEF RegistrySound, WaitingSound, IsWaiting
  <2>4. PassSound'
    BY <2>1 DEF PassSound, Processing
  <2> QED BY <2>2, <2>3, <2>4
<1>2. CASE PopWaiting
  <2>1. /\ pc = "events" /\ cur = Nil /\ current = Nil
        /\ UNCHANGED <<count, item, tree, link, bits, custom, pending, flags, current, again, inflight>>
    BY <1>2 DEF PopWaiting, PassSound, Processing, registry
  <2>2. CASE "Event" \in flags /\ waiting # <<>>
    <3>1. pc' = "process" /\ cur' = Head(waiting) /\ waiting' = Tail(waiting)
      BY <1>2, <2>2 DEF PopWaiting
    <3>2. /\ cur' \in Items /\ IsWaiting(cur') /\ waiting' \in Seq(Items) /\ Distinct(waiting')
          /\ \A j : Contains(waiting', j) => Contains(waiting, j)
      BY <3>1, <2>2, TailContains DEF TypeOK, WaitingSound, IsWaiting
    <3>3. TypeOK'
      BY <2>1, <3>1, <3>2 DEF TypeOK, Pcs
    <3>4. RegistrySound'
      BY <2>1, <3>2 DEF RegistrySound, IsWaiting
    <3>5. WaitingSound'
      BY <2>1, <3>2 DEF WaitingSound, IsWaiting
    <3>6. PassSound'
      BY <2>1, <3>1, <3>2 DEF PassSound, Processing, WaitingSound
    <3> QED BY <3>3, <3>4, <3>5, <3>6
  <2>3. CASE ~("Event" \in flags /\ waiting # <<>>)
    <3>1. pc' = "pending" /\ UNCHANGED <<cur, waiting>>
      BY <1>2, <2>3 DEF PopWaiting
    <3>2. TypeOK'
      BY <2>1, <3>1 DEF TypeOK, Pcs
    <3>3. RegistrySound' /\ WaitingSound'
      BY <2>1, <3>1 DEF RegistrySound, WaitingSound, IsWaiting
    <3>4. PassSound'
      BY <2>1, <3>1 DEF PassSound, Processing
    <3> QED BY <3>2, <3>3, <3>4
  <2> QED BY <2>2, <2>3
<1>3. CASE BeginEvent
  <2>1. /\ pc = "process" /\ pc' = "dispatch" /\ current' = cur /\ again' = FALSE
        /\ cur \in Items /\ current = Nil /\ item[cur].owner
        /\ UNCHANGED <<count, bits, custom, pending, flags, cur, inflight>>
    BY <1>3 DEF BeginEvent, PassSound, Processing
  <2>2. CASE ~item[cur].kind.once
    <3>1. UNCHANGED <<item, tree, link, waiting>>
      BY <1>3, <2>2 DEF BeginEvent, registry
    <3>2. TypeOK'
      BY <2>1, <3>1 DEF TypeOK, Pcs
    <3>3. RegistrySound' /\ WaitingSound'
      BY <2>1, <3>1, ConstantsAssumption DEF RegistrySound, WaitingSound, IsWaiting
    <3>4. PassSound'
      BY <2>1, <3>1 DEF PassSound, Processing
    <3> QED BY <3>2, <3>3, <3>4
  <2>3. CASE item[cur].kind.once
    <3> DEFINE o == item[cur].object
    <3>1. UnsubscribeItem(o)
      BY <1>3, <2>3 DEF BeginEvent
    <3>2. o \in Objects /\ tree[o] = cur /\ tree[o] # Nil
      <4>1. item[cur] \in Subscriptions
        BY <2>1 DEF TypeOK, Freed
      <4> QED BY <2>1, <4>1, ConstantsAssumption DEF RegistrySound, Subscriptions, Freed
    <3> HIDE DEF o
    <3>3. /\ TypeOK' /\ WaitingSound' /\ item'[cur] = Freed
      <4>1. /\ item' \in [Items -> Subscriptions \union {Freed}]
            /\ tree' \in [Objects -> Items \union {Nil}]
            /\ link' \in [Objects -> [Dirs -> Items \union {Nil}]]
            /\ waiting' \in Seq(Items) /\ Distinct(waiting')
            /\ \A i : Contains(waiting', i) <=> Contains(waiting, i) /\ i # tree[o]
            /\ \A i \in Items : i # tree[o] => item'[i] = item[i]
            /\ item'[tree[o]] = IF current = tree[o] THEN [item[tree[o]] EXCEPT !.owner = FALSE]
                                                     ELSE Freed
        BY <3>1, <3>2, UnsubscribeEffect
      <4>2. TypeOK'
        BY <2>1, <4>1 DEF TypeOK, Pcs
      <4>3. WaitingSound'
        BY <4>1 DEF WaitingSound, IsWaiting
      <4>4. item'[cur] = Freed
        BY <2>1, <3>2, <4>1
      <4> QED BY <4>2, <4>3, <4>4
    <3>4. RegistrySound'
      BY <2>1, <3>1, <3>2, UnsubscribeRegistry
    <3>5. PassSound'
      BY <2>1, <3>3 DEF PassSound, Processing
    <3> QED BY <3>3, <3>4, <3>5
  <2> QED BY <2>2, <2>3
<1>4. ASSUME pc \in Processing \ {"process", "finish"},
             pc' \in {"callback", "recheck", "finish", "fault"},
             pc' # "fault" => item[cur] # Freed,
             again' \in BOOLEAN,
             UNCHANGED <<count, item, tree, link, waiting, bits, custom, pending, flags, cur,
                         current, inflight>>
      PROVE  Structure'
  <2>1. TypeOK'
    BY <1>4 DEF TypeOK, Pcs, UserPcs
  <2>2. RegistrySound' /\ WaitingSound'
    BY <1>4 DEF RegistrySound, WaitingSound, IsWaiting
  <2>3. PassSound'
    BY <1>4 DEF PassSound, Processing
  <2> QED BY <2>1, <2>2, <2>3
<1>5. CASE Dispatch
  <2>1. again' \in BOOLEAN
    BY <1>5 DEF Dispatch, TypeOK, pass
  <2> QED BY <1>4, <1>5, <2>1 DEF Dispatch, Processing, registry, pass
<1>6. CASE CallbackReturn
  <2>1. again' \in BOOLEAN /\ item[cur] # Freed
    BY <1>6 DEF CallbackReturn, TypeOK, pass, PassSound
  <2> QED BY <1>4, <1>6, <2>1 DEF CallbackReturn, Processing, registry, pass
<1>7. CASE Recheck
  <2>1. again' \in BOOLEAN
    <3>1. \A o, d : GetLevel(o, d) \in BOOLEAN
      BY DEF GetLevel
    <3> QED BY <1>7, <3>1, Zenon DEF Recheck
  <2>2. item[cur] # Freed
    BY <1>7 DEF Recheck, PassSound
  <2> QED BY <1>4, <1>7, <2>1, <2>2 DEF Recheck, Processing, registry
<1>8. CASE FinishEvent
  <2>1. /\ pc = "finish" /\ cur \in Items /\ current = cur /\ item[cur] # Freed
        /\ pc' = "sync" /\ cur' = Nil /\ current' = Nil /\ again' = FALSE
        /\ UNCHANGED <<count, tree, link, custom, pending, flags, inflight>>
    BY <1>8 DEF FinishEvent, PassSound, Processing
  <2>2. PassSound'
    BY <2>1 DEF PassSound, Processing
  <2>3. CASE ~item[cur].owner
    <3>1. item' = [item EXCEPT ![cur] = Freed] /\ UNCHANGED <<waiting, bits>>
      BY <1>8, <2>3 DEF FinishEvent
    <3>2. /\ \A i \in Items : item'[i] = IF i = cur THEN Freed ELSE item[i]
          /\ item' \in [Items -> Subscriptions \union {Freed}]
      BY <3>1, <2>1 DEF TypeOK
    <3>3. TypeOK'
      BY <2>1, <3>1, <3>2, ConstantsAssumption DEF TypeOK, Pcs
    <3>4. \A o \in Objects : tree[o] # cur
      BY <2>1, <2>3, ConstantsAssumption DEF RegistrySound
    <3>5. RegistrySound'
      <4>1. \A o \in Objects : tree[o] # Nil => tree[o] \in Items /\ item'[tree[o]] = item[tree[o]]
        BY <3>2, <3>4 DEF TypeOK
      <4>2. \A i \in Items : item'[i] # Freed => item'[i] = item[i] /\ item[i].owner
        BY <3>2, <2>1 DEF RegistrySound
      <4> QED BY <2>1, <3>1, <4>1, <4>2 DEF RegistrySound, IsWaiting
    <3>6. WaitingSound'
      BY <3>1, <3>2, <2>3 DEF WaitingSound, IsWaiting
    <3> QED BY <2>2, <3>3, <3>5, <3>6
  <2>4. CASE item[cur].owner
    <3>1. item' = item
      BY <1>8, <2>4 DEF FinishEvent
    <3>2. /\ waiting' \in Seq(Items) /\ Distinct(waiting') /\ bits' \subseteq Flags
          /\ \A j : Contains(waiting', j) => Contains(waiting, j) \/ j = cur
      <4>1. CASE again
        BY <1>8, <2>1, <2>4, <4>1, ItemNotifyEffect DEF FinishEvent
      <4>2. CASE ~again
        BY <1>8, <2>4, <4>2 DEF FinishEvent, TypeOK, WaitingSound
      <4> QED BY <4>1, <4>2 DEF TypeOK
    <3>3. TypeOK'
      BY <2>1, <3>1, <3>2, ConstantsAssumption DEF TypeOK, Pcs
    <3>4. \A i \in Items : item[i] # Freed => item[i].owner
      BY <2>1, <2>4 DEF RegistrySound
    <3>5. RegistrySound'
      BY <2>1, <3>1, <3>4 DEF RegistrySound, IsWaiting
    <3>6. WaitingSound'
      BY <3>1, <3>2, <2>4 DEF WaitingSound, IsWaiting
    <3> QED BY <2>2, <3>3, <3>5, <3>6
  <2> QED BY <2>3, <2>4
<1>9. CASE SyncFlags \/ ProcessPending \/ PendingReturn \/ ProcessCustom \/ CustomReturn
  <2>1. /\ pc \in {"sync", "pending", "pending_cb", "custom", "custom_cb"}
        /\ pc' \in {"pending", "pending_cb", "custom", "custom_cb", "wait"}
        /\ UNCHANGED <<count, item, tree, link, waiting, cur, current, again, inflight>>
    BY <1>9 DEF SyncFlags, ProcessPending, PendingReturn, ProcessCustom, CustomReturn,
                registry, pass
  <2>2. (bits \subseteq Flags)' /\ (flags \subseteq Flags)'
    BY <1>9 DEF SyncFlags, ProcessPending, PendingReturn, ProcessCustom, CustomReturn,
                pass, TypeOK, Flags
  <2>3. (custom \in [events : SUBSET CustomEvents, callback : BOOLEAN])'
    BY <1>9 DEF SyncFlags, ProcessPending, PendingReturn, ProcessCustom, CustomReturn, TypeOK
  <2>4. (pending \in Seq(Callbacks))' /\ (pc = "pending_cb" => pending # <<>>)'
    <3>1. CASE PendingReturn
      <4>1. pending # <<>> /\ pc' # "pending_cb" /\ pending' = Tail(pending)
        BY <3>1 DEF PendingReturn, PassSound
      <4> QED BY <4>1, HeadTailProperties DEF TypeOK
    <3>2. CASE ~PendingReturn
      BY <1>9, <3>2 DEF SyncFlags, ProcessPending, ProcessCustom, CustomReturn, TypeOK
    <3> QED BY <3>1, <3>2
  <2>5. TypeOK'
    BY <2>1, <2>2, <2>3, <2>4 DEF TypeOK, Pcs, UserPcs
  <2>6. RegistrySound' /\ WaitingSound'
    BY <2>1 DEF RegistrySound, WaitingSound, IsWaiting
  <2>7. pc' \in {"wait", "custom_cb"} => flags' = {}
    BY <1>9 DEF SyncFlags, ProcessPending, PendingReturn, ProcessCustom, CustomReturn,
                pass, PassSound
  <2>8. PassSound'
    BY <2>1, <2>4, <2>7 DEF PassSound, Processing
  <2> QED BY <2>5, <2>6, <2>8
<1> QED BY <1>1, <1>2, <1>3, <1>5, <1>6, <1>7, <1>8, <1>9 DEF LoopStep, UserReturn

LEMMA StructureStep == Structure /\ [Next]_vars => Structure'
<1> SUFFICES ASSUME Structure, [Next]_vars PROVE Structure'
  OBVIOUS
<1>1. CASE UNCHANGED vars
  <2>1. UNCHANGED <<count, item, tree, link, waiting, bits, custom, pending,
                    pc, flags, cur, current, again, inflight>>
    BY <1>1 DEF vars
  <2>2. TypeOK'
    BY <2>1 DEF Structure, TypeOK
  <2>3. RegistrySound' /\ WaitingSound' /\ PassSound'
    BY <2>1 DEF Structure, RegistrySound, WaitingSound, PassSound, IsWaiting
  <2> QED BY <2>2, <2>3 DEF Structure
<1>2. CASE Next
  BY <1>2, StructureThread, StructureOwner, StructurePass DEF Next
<1> QED BY <1>1, <1>2

(* The registry, the waiting list and the pass of the loop stay consistent *)
(* under every interleaving: no dangling link, no item queued twice, no    *)
(* freed item queued.                                                      *)
THEOREM StructureInvariant == Spec => []Structure
<1>1. Init => Structure
  BY StructureInit
<1>2. Structure /\ [Next]_vars => Structure'
  BY StructureStep
<1> QED BY <1>1, <1>2, PTL DEF Spec

(* Every variable keeps its type. *)
THEOREM TypeCorrect == Spec => []TypeOK
<1>1. Structure => TypeOK
  BY DEF Structure
<1> QED BY <1>1, StructureInvariant, PTL

(* The waiting list holds live subscriptions only, each of them once. *)
THEOREM WaitingListSound == Spec => []WaitingSound
<1>1. Structure => WaitingSound
  BY DEF Structure
<1> QED BY <1>1, StructureInvariant, PTL

(* The tree, the links and the heap agree at every step. *)
THEOREM RegistryIsSound == Spec => []RegistrySound
<1>1. Structure => RegistrySound
  BY DEF Structure
<1> QED BY <1>1, StructureInvariant, PTL

(* Without Once subscriptions the loop never touches a freed item.         *)
(* FuriEventLoopEventFlagOnce frees the item before its event is handled,  *)
(* so the hypothesis cannot be dropped.                                    *)
THEOREM NoUseAfterFree ==
  ASSUME \A k \in Kinds : ~k.once
  PROVE  Spec => []ItemAliveWhileProcessed
<1> DEFINE Alive == pc = "dispatch" => item[cur] # Freed
<1>1. Init => Alive
  BY DEF Init
<1>2. Structure /\ Structure' /\ Alive /\ [Next]_vars => Alive'
  <2> SUFFICES ASSUME Structure, Structure', Alive, [Next]_vars, pc' = "dispatch"
               PROVE  item'[cur'] # Freed
    OBVIOUS
  <2>1. CASE BeginEvent
    <3>1. pc = "process" /\ cur' = cur /\ cur \in Items /\ item[cur].owner
      BY <2>1 DEF BeginEvent, Structure, PassSound, Processing
    <3>2. item[cur] # Freed
      BY <3>1 DEF Freed
    <3>3. item[cur].kind \in Kinds
      BY <3>1, <3>2 DEF Structure, TypeOK, Subscriptions
    <3>4. item' = item
      BY <2>1, <3>3 DEF BeginEvent, registry
    <3> QED BY <3>1, <3>2, <3>4
  <2>2. CASE \E t \in Threads : ThreadCall(t) \/ Notify(t)
    <3>1. UNCHANGED <<pc, cur, item>>
      BY <2>2 DEF ThreadCall, Notify, MessageQueuePut, MessageQueueGet, MessageQueueReset,
                  SetCustomEvent, Stop, LinkNotify, CustomNotify, registry, pass
    <3> QED BY <3>1
  <2>3. CASE UNCHANGED vars
    BY <2>3 DEF vars
  <2>4. CASE OwnerCall
    <3>1. pc \in UserPcs \/ pc' # "dispatch"
      BY <2>4 DEF OwnerCall, Subscribe, Unsubscribe, PendCallback, SetCustomEventCallback,
                  Run, Free, MayCall
    <3>2. pc' = pc \/ pc' # "dispatch"
      BY <2>4 DEF OwnerCall, Subscribe, Unsubscribe, PendCallback, SetCustomEventCallback,
                  Run, Free
    <3> QED BY <3>1, <3>2 DEF UserPcs
  <2>5. CASE (LoopStep /\ ~BeginEvent) \/ UserReturn
    BY <2>5 DEF LoopStep, UserReturn, Wake, PopWaiting, Dispatch, Recheck, FinishEvent,
                SyncFlags, ProcessPending, ProcessCustom, CallbackReturn, PendingReturn,
                CustomReturn
  <2> QED BY <2>1, <2>2, <2>3, <2>4, <2>5 DEF Next
<1>3. Structure /\ Alive => ItemAliveWhileProcessed
  <2> SUFFICES ASSUME Structure, Alive, pc \in Processing PROVE item[cur] # Freed
    BY DEF ItemAliveWhileProcessed
  <2>1. pc = "process" => item[cur] # Freed
    BY DEF Structure, PassSound, Freed
  <2> QED BY <2>1 DEF Structure, PassSound, Processing
<1> HIDE DEF Alive
<1> QED BY <1>1, <1>2, <1>3, StructureInvariant, PTL DEF Spec

(***************************************************************************)
(* No lost wakeup.                                                         *)
(***************************************************************************)
LEMMA WakeupStep ==
  ASSUME Structure, Structure', NoLostWakeup, [Next]_vars
  PROVE  NoLostWakeup'
<1>1. ASSUME waiting' = waiting, bits \subseteq bits', pc' = pc, flags' = flags
      PROVE  NoLostWakeup'
  BY <1>1 DEF NoLostWakeup
<1>2. ASSUME NEW i, ItemNotify(i) PROVE "Event" \in bits'
  BY <1>2 DEF ItemNotify
<1>3. ASSUME NEW t \in Threads, ThreadCall(t) \/ Notify(t) PROVE NoLostWakeup'
  <2>1. CASE LinkNotify(t)
    BY <1>1, <1>2, <2>1 DEF LinkNotify, pass, NoLostWakeup
  <2>2. CASE ThreadCall(t) \/ CustomNotify(t)
    BY <1>1, <2>2 DEF ThreadCall, MessageQueuePut, MessageQueueGet, MessageQueueReset,
                      SetCustomEvent, Stop, CustomNotify, pass
  <2> QED BY <1>3, <2>1, <2>2 DEF Notify
<1>4. CASE OwnerCall
  <2>1. ASSUME NEW o \in Objects, NEW k \in Kinds, Subscribe(o, k) PROVE NoLostWakeup'
    BY <1>1, <1>2, <2>1 DEF Subscribe, pass, NoLostWakeup
  <2>2. ASSUME NEW o \in Objects, Unsubscribe(o) PROVE NoLostWakeup'
    <3>1. waiting' # <<>> => waiting # <<>>
      BY <2>2 DEF Unsubscribe, UnsubscribeItem, Unlink, Contains
    <3> QED BY <2>2, <3>1 DEF Unsubscribe, pass, NoLostWakeup
  <2>3. ASSUME NEW f \in Callbacks, PendCallback(f) PROVE NoLostWakeup'
    BY <1>1, <2>3 DEF PendCallback, pass
  <2>4. CASE SetCustomEventCallback
    BY <1>1, <2>4 DEF SetCustomEventCallback, pass
  <2>5. CASE Run
    BY <2>5 DEF Run, NoLostWakeup, Processing
  <2>6. CASE Free
    BY <2>6 DEF Free, NoLostWakeup
  <2> QED BY <1>4, <2>1, <2>2, <2>3, <2>4, <2>5, <2>6 DEF OwnerCall
<1>5. CASE LoopStep \/ UserReturn
  <2>1. CASE Wake
    BY <2>1 DEF Wake, NoLostWakeup, Processing
  <2>2. CASE PopWaiting
    BY <2>2 DEF PopWaiting, NoLostWakeup, Processing
  <2>3. CASE BeginEvent \/ Dispatch \/ CallbackReturn \/ Recheck \/ FinishEvent
    BY <2>3 DEF BeginEvent, Dispatch, CallbackReturn, Recheck, FinishEvent, Processing,
                NoLostWakeup
  <2>4. CASE SyncFlags
    BY <2>4 DEF SyncFlags, NoLostWakeup
  <2>5. CASE ProcessPending \/ PendingReturn \/ ProcessCustom \/ CustomReturn
    BY <2>5 DEF ProcessPending, PendingReturn, ProcessCustom, CustomReturn, NoLostWakeup,
                Processing, pass
  <2> QED BY <1>5, <2>1, <2>2, <2>3, <2>4, <2>5 DEF LoopStep, UserReturn
<1>6. CASE UNCHANGED vars
  BY <1>1, <1>6 DEF vars
<1> QED BY <1>3, <1>4, <1>5, <1>6 DEF Next

(* While a subscription waits, the loop has been told or is going to look: *)
(* the loop never sleeps on a non-empty waiting list.                      *)
THEOREM NoWakeupIsLost == Spec => []NoLostWakeup
<1>1. Init => NoLostWakeup
  BY DEF Init, NoLostWakeup
<1>2. Structure /\ Structure' /\ NoLostWakeup /\ [Next]_vars => NoLostWakeup'
  BY WakeupStep
<1> QED BY <1>1, <1>2, StructureInvariant, PTL DEF Spec

(***************************************************************************)
(* No lost event.                                                          *)
(***************************************************************************)
(* The claim of LevelNotLost for one object. *)
Wanted(o) ==
  /\ tree[o] # Nil
  /\ ~item[tree[o]].kind.edge
  /\ GetLevel(o, item[tree[o]].kind.dir)

Pursued(o) ==
  \/ IsWaiting(tree[o])
  \/ cur = tree[o] /\ pc \in Processing \ {"finish"}
  \/ cur = tree[o] /\ pc = "finish" /\ again
  \/ \E t \in Threads : inflight[t] =
       [what |-> "queue", object |-> o, dir |-> item[tree[o]].kind.dir]

LEMMA LevelByObject == LevelNotLost <=> \A o \in Objects : Wanted(o) => Pursued(o)
  BY DEF LevelNotLost, Wanted, Pursued

(* A thread that changes a queue announces the level it may have raised.   *)
LEMMA LevelQueue ==
  ASSUME Structure, Structure', LevelNotLost, NEW t \in Threads, NEW q \in Objects,
         MessageQueuePut(t, q) \/ MessageQueueGet(t, q) \/ MessageQueueReset(t, q)
  PROVE  LevelNotLost'
<1> SUFFICES ASSUME NEW o \in Objects, Wanted(o)' PROVE Pursued(o)'
  BY DEF LevelNotLost, Wanted, Pursued
<1>1. /\ UNCHANGED <<item, tree, waiting, pc, cur, again>>
      /\ inflight[t] = None /\ inflight \in [Threads -> Notices]
      /\ count \in [Objects -> 0..Capacity]
  BY DEF MessageQueuePut, MessageQueueGet, MessageQueueReset, MayCall, registry, pass,
         Structure, TypeOK
<1> DEFINE d == item[tree[o]].kind.dir
<1>2. /\ tree[o] # Nil /\ ~item[tree[o]].kind.edge
      /\ \/ d = "In" /\ count'[o] > 0
         \/ d = "Out" /\ count'[o] < Capacity
  BY <1>1 DEF Wanted, GetLevel
<1> HIDE DEF d
<1>3. CASE ~GetLevel(o, d)
  <2>1. q = o /\ inflight' = [inflight EXCEPT ![t] = [what |-> "queue", object |-> o, dir |-> d]]
    <3>1. CASE MessageQueuePut(t, q)
      <4>1. \A r \in Objects : count'[r] = IF r = q THEN count[r] + 1 ELSE count[r]
        BY <3>1, <1>1 DEF MessageQueuePut
      <4>2. count[o] \in Nat /\ Capacity \in Nat
        BY <1>1, ConstantsAssumption
      <4>3. q = o /\ d = "In"
        BY <4>1, <4>2, <1>2, <1>3 DEF GetLevel
      <4> QED BY <3>1, <4>3 DEF MessageQueuePut, Owes
    <3>2. CASE MessageQueueGet(t, q)
      <4>1. \A r \in Objects : count'[r] = IF r = q THEN count[r] - 1 ELSE count[r]
        BY <3>2, <1>1 DEF MessageQueueGet
      <4>2. count[o] \in Nat /\ Capacity \in Nat
        BY <1>1, ConstantsAssumption
      <4>3. q = o /\ d = "Out"
        BY <4>1, <4>2, <1>2, <1>3 DEF GetLevel
      <4> QED BY <3>2, <4>3 DEF MessageQueueGet, Owes
    <3>3. CASE MessageQueueReset(t, q)
      <4>1. \A r \in Objects : count'[r] = IF r = q THEN 0 ELSE count[r]
        BY <3>3, <1>1 DEF MessageQueueReset
      <4>2. q = o /\ d = "Out"
        BY <4>1, <1>2, <1>3 DEF GetLevel
      <4> QED BY <3>3, <4>2 DEF MessageQueueReset, Owes
    <3> QED BY <3>1, <3>2, <3>3
  <2>2. inflight'[t] = [what |-> "queue", object |-> o, dir |-> d]
    BY <2>1, <1>1
  <2> QED BY <2>2, <1>1 DEF Pursued, d
<1>4. CASE GetLevel(o, d)
  <2>1. Pursued(o)
    BY <1>2, <1>4, LevelByObject DEF Wanted, d
  <2>2. \A u \in Threads : inflight[u].what = "queue" => inflight'[u] = inflight[u]
    BY <1>1 DEF MessageQueuePut, MessageQueueGet, MessageQueueReset, Owes, None
  <2> QED BY <2>1, <2>2, <1>1 DEF Pursued, IsWaiting
<1> QED BY <1>3, <1>4

(* The other calls of the threads only add to the waiting list. *)
LEMMA LevelThread ==
  ASSUME Structure, Structure', LevelNotLost, NEW t \in Threads, ThreadCall(t) \/ Notify(t)
  PROVE  LevelNotLost'
<1>1. ASSUME NEW e \in CustomEvents, SetCustomEvent(t, e) PROVE LevelNotLost'
  <2>1. /\ UNCHANGED <<count, item, tree, waiting, pc, cur, again>>
        /\ \A u \in Threads : inflight[u].what = "queue" => inflight'[u] = inflight[u]
    BY <1>1 DEF SetCustomEvent, MayCall, None, registry, pass, Structure, TypeOK
  <2> QED BY <2>1 DEF LevelNotLost, IsWaiting, GetLevel
<1>2. CASE Stop(t)
  BY <1>2 DEF Stop, registry, pass, LevelNotLost, IsWaiting, GetLevel
<1>3. CASE CustomNotify(t)
  <2>1. /\ UNCHANGED <<count, item, tree, waiting, pc, cur, again>>
        /\ \A u \in Threads : inflight[u].what = "queue" => inflight'[u] = inflight[u]
    BY <1>3 DEF CustomNotify, registry, pass, Structure, TypeOK
  <2> QED BY <2>1 DEF LevelNotLost, IsWaiting, GetLevel
<1>4. CASE LinkNotify(t)
  <2> DEFINE n == inflight[t]
             i == link[n.object][n.dir]
  <2>1. /\ UNCHANGED <<count, item, tree, link, pc, cur, again>>
        /\ n \in QueueNotices
        /\ \A u \in Threads : u # t => inflight'[u] = inflight[u]
    BY <1>4 DEF LinkNotify, registry, pass, Structure, TypeOK
  <2>2. \A j : Contains(waiting, j) => Contains(waiting', j)
    <3>1. CASE i = Nil
      BY <1>4, <3>1 DEF LinkNotify
    <3>2. CASE i # Nil
      <4>1. i \in Items
        BY <2>1, <3>2 DEF QueueNotices, Structure, TypeOK
      <4> QED BY <1>4, <3>2, <4>1, ItemNotifyEffect DEF LinkNotify, Structure
    <3> QED BY <3>1, <3>2
  <2> SUFFICES ASSUME NEW o \in Objects, Wanted(o)' PROVE Pursued(o)'
    BY DEF LevelNotLost, Wanted, Pursued
  <2>3. Wanted(o)
    BY <2>1 DEF Wanted, GetLevel
  <2>4. Pursued(o)
    BY <2>3, LevelByObject
  <2>5. CASE n = [what |-> "queue", object |-> o, dir |-> item[tree[o]].kind.dir]
    <3>1. i = tree[o] /\ i # Nil /\ i \in Items
      BY <2>3, <2>5 DEF Wanted, Structure, RegistrySound, TypeOK
    <3>2. Contains(waiting', tree[o])
      BY <1>4, <3>1, ItemNotifyEffect DEF LinkNotify, Structure
    <3> QED BY <2>1, <3>2 DEF Pursued, IsWaiting
  <2>6. CASE n # [what |-> "queue", object |-> o, dir |-> item[tree[o]].kind.dir]
    <3> HIDE DEF i
    <3> QED BY <2>1, <2>2, <2>4, <2>6 DEF Pursued, IsWaiting
  <2> QED BY <2>5, <2>6
<1> QED BY <1>1, <1>2, <1>3, <1>4, LevelQueue DEF ThreadCall, Notify

(* Taking one subscription away changes nothing for the other objects. *)
LEMMA LevelUnsubscribe ==
  ASSUME Structure, LevelNotLost, NEW q \in Objects, tree[q] # Nil, UnsubscribeItem(q),
         UNCHANGED <<count, cur, again, inflight>>,
         pc' = pc \/ (pc = "process" /\ pc' = "dispatch")
  PROVE  LevelNotLost'
<1> SUFFICES ASSUME NEW o \in Objects, Wanted(o)' PROVE Pursued(o)'
  BY DEF LevelNotLost, Wanted, Pursued
<1>1. /\ tree' = [tree EXCEPT ![q] = Nil] /\ tree \in [Objects -> Items \union {Nil}]
      /\ \A i : Contains(waiting', i) <=> Contains(waiting, i) /\ i # tree[q]
      /\ \A i \in Items : i # tree[q] => item'[i] = item[i]
  BY UnsubscribeEffect DEF Structure, TypeOK
<1>2. o # q /\ tree'[o] = tree[o] /\ tree[o] # Nil
  BY <1>1 DEF Wanted
<1>3. tree[o] \in Items /\ tree[o] # tree[q]
  BY <1>1, <1>2 DEF Structure, RegistrySound
<1>4. item'[tree[o]] = item[tree[o]]
  BY <1>1, <1>3
<1>5. Wanted(o)
  BY <1>2, <1>4 DEF Wanted, GetLevel
<1>6. Pursued(o)
  BY <1>5, LevelByObject
<1> QED BY <1>1, <1>2, <1>3, <1>4, <1>6 DEF Pursued, IsWaiting, Processing

(* Calls of the owner: a subscription starts with its level reported, an   *)
(* unsubscription takes one item away.                                     *)
LEMMA LevelOwner ==
  ASSUME Structure, Structure', LevelNotLost, OwnerCall
  PROVE  LevelNotLost'
<1>1. ASSUME NEW q \in Objects, NEW k \in Kinds, Subscribe(q, k) PROVE LevelNotLost'
  <2>1. /\ tree[q] = Nil /\ k.dir \in Dirs
        /\ UNCHANGED <<count, pc, cur, again, inflight>>
    BY <1>1, ConstantsAssumption DEF Subscribe, pass
  <2>2. PICK i \in Items :
          /\ item[i] = Freed
          /\ item' = [item EXCEPT ![i] = [owner |-> TRUE, object |-> q, kind |-> k]]
          /\ tree' = [tree EXCEPT ![q] = i]
          /\ IF ~k.edge /\ GetLevel(q, k.dir)
               THEN ItemNotify(i)
               ELSE UNCHANGED <<waiting, bits>>
    BY <1>1 DEF Subscribe
  <2>3. /\ \A o \in Objects : tree'[o] = IF o = q THEN i ELSE tree[o]
        /\ \A j \in Items : j # i => item'[j] = item[j]
        /\ item'[i].kind = k
    BY <2>2 DEF Structure, TypeOK
  <2>4. \A j : Contains(waiting, j) => Contains(waiting', j)
    BY <2>2, ItemNotifyEffect DEF Structure
  <2> SUFFICES ASSUME NEW o \in Objects, Wanted(o)' PROVE Pursued(o)'
    BY DEF LevelNotLost, Wanted, Pursued
  <2>5. CASE o = q
    <3>1. ~k.edge /\ GetLevel(q, k.dir)
      BY <2>1, <2>3, <2>5 DEF Wanted, GetLevel
    <3>2. Contains(waiting', i)
      BY <2>2, <3>1, ItemNotifyEffect DEF Structure
    <3> QED BY <2>3, <2>5, <3>2 DEF Pursued, IsWaiting
  <2>6. CASE o # q
    <3>1. tree'[o] = tree[o] /\ tree[o] # Nil
      BY <2>3, <2>6 DEF Wanted
    <3>2. tree[o] \in Items /\ tree[o] # i
      BY <2>2, <3>1 DEF Structure, TypeOK, RegistrySound
    <3>3. item'[tree[o]] = item[tree[o]]
      BY <2>3, <3>2
    <3>4. Wanted(o)
      BY <2>1, <3>1, <3>3 DEF Wanted, GetLevel
    <3>5. Pursued(o)
      BY <3>4, LevelByObject
    <3> QED BY <2>1, <2>4, <3>1, <3>3, <3>5 DEF Pursued, IsWaiting
  <2> QED BY <2>5, <2>6
<1>2. ASSUME NEW q \in Objects, Unsubscribe(q) PROVE LevelNotLost'
  <2>1. /\ tree[q] # Nil /\ UnsubscribeItem(q)
        /\ UNCHANGED <<count, pc, cur, again, inflight>>
    BY <1>2 DEF Unsubscribe, pass
  <2> QED BY <2>1, LevelUnsubscribe
<1>3. CASE (\E f \in Callbacks : PendCallback(f)) \/ SetCustomEventCallback
  BY <1>3 DEF PendCallback, SetCustomEventCallback, registry, pass, LevelNotLost, IsWaiting,
              GetLevel
<1>4. CASE Run
  BY <1>4 DEF Run, registry, pass, LevelNotLost, IsWaiting, GetLevel, Processing
<1>5. CASE Free
  BY <1>5 DEF Free, registry, LevelNotLost
<1> QED BY <1>1, <1>2, <1>3, <1>4, <1>5 DEF OwnerCall

(* The pass: an item leaves the list only into the hands of the pass, and  *)
(* leaves the pass only with its level seen at zero, or back to the list.  *)
LEMMA LevelPass ==
  ASSUME Structure, Structure', LevelNotLost, LoopStep \/ UserReturn
  PROVE  LevelNotLost'
<1>1. ASSUME UNCHANGED <<count, item, tree, inflight>>,
             \A o \in Objects : Wanted(o) /\ Pursued(o) =>
               \/ Contains(waiting', tree[o])
               \/ cur' = tree[o] /\ pc' \in Processing \ {"finish"}
               \/ cur' = tree[o] /\ pc' = "finish" /\ again'
               \/ \E t \in Threads : inflight[t] =
                    [what |-> "queue", object |-> o, dir |-> item[tree[o]].kind.dir]
      PROVE  LevelNotLost'
  BY <1>1, LevelByObject DEF LevelNotLost, Wanted, Pursued, GetLevel, IsWaiting
<1>2. CASE Wake \/ SyncFlags \/ ProcessPending \/ PendingReturn \/ ProcessCustom \/ CustomReturn
  <2>1. UNCHANGED <<count, item, tree, inflight, waiting, cur, again>> /\ pc \notin Processing
    BY <1>2 DEF Wake, SyncFlags, ProcessPending, PendingReturn, ProcessCustom, CustomReturn,
                registry, pass, Processing
  <2> QED BY <1>1, <2>1 DEF Pursued, IsWaiting, Processing
<1>3. CASE PopWaiting
  <2>1. UNCHANGED <<count, item, tree, inflight>> /\ pc \notin Processing
    BY <1>3 DEF PopWaiting, registry, Processing
  <2>2. CASE "Event" \in flags /\ waiting # <<>>
    <3>1. pc' = "process" /\ cur' = Head(waiting) /\ waiting' = Tail(waiting)
      BY <1>3, <2>2 DEF PopWaiting
    <3>2. \A j : Contains(waiting', j) <=> Contains(waiting, j) /\ j # cur'
      BY <2>2, <3>1, TailContains DEF Structure, TypeOK, WaitingSound
    <3> QED BY <1>1, <2>1, <3>1, <3>2 DEF Pursued, IsWaiting, Processing
  <2>3. CASE ~("Event" \in flags /\ waiting # <<>>)
    <3>1. waiting' = waiting
      BY <1>3, <2>3 DEF PopWaiting
    <3> QED BY <1>1, <2>1, <3>1 DEF Pursued, IsWaiting, Processing
  <2> QED BY <2>2, <2>3
<1>4. CASE BeginEvent
  <2>1. /\ pc = "process" /\ pc' = "dispatch" /\ cur' = cur /\ again' = FALSE
        /\ UNCHANGED <<count, inflight>> /\ cur \in Items /\ item[cur].owner
    BY <1>4 DEF BeginEvent, Structure, PassSound, Processing
  <2>2. CASE ~item[cur].kind.once
    <3>1. UNCHANGED <<item, tree, waiting>>
      BY <1>4, <2>2 DEF BeginEvent, registry
    <3> QED BY <1>1, <2>1, <3>1 DEF Pursued, IsWaiting, Processing
  <2>3. CASE item[cur].kind.once
    <3> SUFFICES ASSUME NEW o \in Objects, Wanted(o)' PROVE Pursued(o)'
      BY DEF LevelNotLost, Wanted, Pursued
    <3> DEFINE q == item[cur].object
    <3>1. UnsubscribeItem(q)
      BY <1>4, <2>3 DEF BeginEvent
    <3>2. q \in Objects /\ tree[q] = cur /\ tree[q] # Nil
      <4>1. item[cur] \in Subscriptions
        BY <2>1 DEF Structure, TypeOK, Freed
      <4> QED BY <2>1, <4>1, ConstantsAssumption
              DEF Structure, RegistrySound, Subscriptions, Freed
    <3> HIDE DEF q
    <3>3. /\ tree' = [tree EXCEPT ![q] = Nil] /\ tree \in [Objects -> Items \union {Nil}]
          /\ \A i : Contains(waiting', i) <=> Contains(waiting, i) /\ i # tree[q]
          /\ \A i \in Items : i # tree[q] => item'[i] = item[i]
      BY <3>1, <3>2, UnsubscribeEffect DEF Structure, TypeOK
    <3>4. o # q /\ tree'[o] = tree[o] /\ tree[o] # Nil
      BY <3>3 DEF Wanted
    <3>5. tree[o] \in Items /\ tree[o] # tree[q]
      BY <3>2, <3>3, <3>4 DEF Structure, RegistrySound
    <3>6. item'[tree[o]] = item[tree[o]]
      BY <3>3, <3>5
    <3>7. Wanted(o)
      BY <2>1, <3>4, <3>6 DEF Wanted, GetLevel
    <3>8. Pursued(o)
      BY <3>7, LevelByObject
    <3> QED BY <2>1, <3>2, <3>3, <3>4, <3>5, <3>6, <3>8 DEF Pursued, IsWaiting, Processing
  <2> QED BY <2>2, <2>3
<1>5. CASE Dispatch
  <2>1. /\ pc = "dispatch" /\ UNCHANGED <<count, item, tree, inflight, waiting, cur, again>>
        /\ pc' = IF item[cur] = Freed THEN "fault"
                 ELSE IF item[cur].kind.edge \/ GetLevel(item[cur].object, item[cur].kind.dir)
                 THEN "callback" ELSE "finish"
    BY <1>5 DEF Dispatch, registry, pass
  <2>2. ASSUME NEW o \in Objects, Wanted(o), cur = tree[o] PROVE pc' = "callback"
    <3>1. item[cur] # Freed /\ item[cur].object = o /\ GetLevel(o, item[cur].kind.dir)
      BY <2>2 DEF Wanted, Structure, RegistrySound
    <3> QED BY <2>1, <3>1
  <2> QED BY <1>1, <2>1, <2>2 DEF Pursued, IsWaiting, Processing
<1>6. CASE CallbackReturn
  <2>1. /\ pc = "callback" /\ UNCHANGED <<count, item, tree, inflight, waiting, cur, again>>
        /\ pc' = IF item[cur].kind.edge THEN "finish" ELSE "recheck"
    BY <1>6 DEF CallbackReturn, registry, pass
  <2> QED BY <1>1, <2>1 DEF Wanted, Pursued, IsWaiting, Processing
<1>7. CASE Recheck
  <2>1. /\ pc = "recheck" /\ UNCHANGED <<count, item, tree, inflight, waiting, cur>>
        /\ again' = GetLevel(item[cur].object, item[cur].kind.dir) /\ pc' = "finish"
    BY <1>7 DEF Recheck, registry
  <2>2. ASSUME NEW o \in Objects, Wanted(o), cur = tree[o] PROVE again'
    <3>1. item[cur].object = o /\ GetLevel(o, item[cur].kind.dir)
      BY <2>2 DEF Wanted, Structure, RegistrySound
    <3> QED BY <2>1, <3>1
  <2> QED BY <1>1, <2>1, <2>2 DEF Pursued, IsWaiting, Processing
<1>8. CASE FinishEvent
  <2> SUFFICES ASSUME NEW o \in Objects, Wanted(o)' PROVE Pursued(o)'
    BY DEF LevelNotLost, Wanted, Pursued
  <2>1. /\ pc = "finish" /\ cur \in Items /\ UNCHANGED <<count, tree, inflight>>
    BY <1>8 DEF FinishEvent, Structure, PassSound, Processing
  <2>2. tree[o] # Nil /\ tree[o] \in Items /\ item[tree[o]].owner
    BY <2>1 DEF Wanted, Structure, RegistrySound, TypeOK
  <2>3. item'[tree[o]] = item[tree[o]]
    <3>1. CASE ~item[cur].owner
      BY <1>8, <2>2, <3>1 DEF FinishEvent, Structure, TypeOK
    <3>2. CASE item[cur].owner
      BY <1>8, <3>2 DEF FinishEvent
    <3> QED BY <3>1, <3>2
  <2>4. Wanted(o) /\ Pursued(o)
    <3>1. Wanted(o)
      BY <2>1, <2>3 DEF Wanted, GetLevel
    <3> QED BY <3>1, LevelByObject
  <2>5. CASE cur = tree[o] /\ again
    <3>1. ItemNotify(cur)
      BY <1>8, <2>2, <2>5 DEF FinishEvent
    <3> QED BY <2>1, <2>5, <3>1, ItemNotifyEffect DEF Pursued, IsWaiting, Structure
  <2>6. CASE ~(cur = tree[o] /\ again)
    <3>1. \A j : Contains(waiting, j) => Contains(waiting', j)
      BY <1>8, <2>1, ItemNotifyEffect DEF FinishEvent, Structure
    <3> QED BY <2>1, <2>3, <2>4, <2>6, <3>1 DEF Pursued, IsWaiting, Processing
  <2> QED BY <2>5, <2>6
<1> QED BY <1>2, <1>3, <1>4, <1>5, <1>6, <1>7, <1>8 DEF LoopStep, UserReturn

(* No event is lost: a level subscription whose level is not zero is       *)
(* pursued at every step by the list, by the pass or by the thread that    *)
(* changed the queue.                                                      *)
THEOREM NoEventIsLost == Spec => []LevelNotLost
<1>1. Init => LevelNotLost
  BY DEF Init, LevelNotLost
<1>2. Structure /\ Structure' /\ LevelNotLost /\ [Next]_vars => LevelNotLost'
  <2>1. UNCHANGED vars /\ LevelNotLost => LevelNotLost'
    BY DEF vars, LevelNotLost, IsWaiting, GetLevel
  <2> QED BY <2>1, LevelThread, LevelOwner, LevelPass DEF Next
<1> QED BY <1>1, <1>2, StructureInvariant, PTL DEF Spec

(***************************************************************************)
(* Custom events and deferred functions.                                   *)
(***************************************************************************)

(* Custom event bits stay announced until the callback is given them. *)
THEOREM NoCustomEventIsLost == Spec => []CustomNotLost
<1>1. Init => CustomNotLost
  BY DEF Init, CustomNotLost
<1>2. Structure /\ CustomNotLost /\ [Next]_vars => CustomNotLost'
  <2> SUFFICES ASSUME Structure, CustomNotLost, [Next]_vars PROVE CustomNotLost'
    OBVIOUS
  <2>1. ASSUME UNCHANGED custom, bits \union flags \subseteq bits' \union flags', pc' = pc,
               \A u \in Threads : inflight[u] = [what |-> "custom"] =>
                 inflight'[u] = inflight[u] \/ "Custom" \in bits'
        PROVE  CustomNotLost'
    BY <2>1 DEF CustomNotLost
  <2>2. ASSUME NEW t \in Threads, ThreadCall(t) \/ Notify(t) PROVE CustomNotLost'
    <3>1. inflight \in [Threads -> Notices]
      BY DEF Structure, TypeOK
    <3>2. ASSUME NEW o \in Objects,
                 MessageQueuePut(t, o) \/ MessageQueueGet(t, o) \/ MessageQueueReset(t, o)
          PROVE  CustomNotLost'
      <4>1. UNCHANGED <<custom, bits, flags, pc>>
        BY <3>2 DEF MessageQueuePut, MessageQueueGet, MessageQueueReset, pass
      <4>2. \A u \in Threads : inflight[u] = [what |-> "custom"] => inflight'[u] = inflight[u]
        BY <3>1, <3>2 DEF MessageQueuePut, MessageQueueGet, MessageQueueReset, MayCall, Owes, None
      <4> QED BY <2>1, <4>1, <4>2
    <3>3. ASSUME NEW e \in CustomEvents, SetCustomEvent(t, e) PROVE CustomNotLost'
      <4>1. inflight'[t] = [what |-> "custom"]
        BY <3>1, <3>3 DEF SetCustomEvent
      <4> QED BY <4>1 DEF CustomNotLost
    <3>4. CASE Stop(t)
      BY <2>1, <3>4 DEF Stop, pass
    <3>5. CASE CustomNotify(t)
      <4>1. "Custom" \in bits'
        BY <3>5 DEF CustomNotify
      <4> QED BY <4>1 DEF CustomNotLost
    <3>6. CASE LinkNotify(t)
      <4>1. UNCHANGED <<custom, flags, pc>> /\ bits \subseteq bits'
        BY <3>6 DEF LinkNotify, ItemNotify, pass
      <4>2. \A u \in Threads : inflight[u] = [what |-> "custom"] => inflight'[u] = inflight[u]
        BY <3>1, <3>6 DEF LinkNotify, QueueNotices
      <4> QED BY <2>1, <4>1, <4>2
    <3> QED BY <2>2, <3>2, <3>3, <3>4, <3>5, <3>6 DEF ThreadCall, Notify
  <2>3. CASE OwnerCall
    <3>1. CASE SetCustomEventCallback
      <4>1. custom \in [events : SUBSET CustomEvents, callback : BOOLEAN]
        BY DEF Structure, TypeOK
      <4>2. custom'.events = custom.events
        BY <3>1, <4>1 DEF SetCustomEventCallback
      <4>3. custom.events # {} => "Custom" \in bits'
        BY <3>1 DEF SetCustomEventCallback
      <4> QED BY <4>2, <4>3 DEF CustomNotLost
    <3>2. CASE Run
      <4>1. UNCHANGED <<custom, bits, flags, inflight>> /\ pc = "idle"
        BY <3>2 DEF Run, pass
      <4> QED BY <4>1 DEF CustomNotLost
    <3>4. CASE Free
      <4>1. pc' \in {"freed", "fault"}
        BY <3>4 DEF Free
      <4> QED BY <4>1 DEF CustomNotLost
    <3>3. CASE (\E o \in Objects, k \in Kinds : Subscribe(o, k))
                 \/ (\E o \in Objects : Unsubscribe(o)) \/ (\E f \in Callbacks : PendCallback(f))
      BY <2>1, <3>3 DEF Subscribe, Unsubscribe, PendCallback, ItemNotify, pass
    <3> QED BY <2>3, <3>1, <3>2, <3>3, <3>4 DEF OwnerCall
  <2>4. CASE LoopStep \/ UserReturn
    <3>1. UNCHANGED inflight
      BY <2>4 DEF LoopStep, UserReturn, Wake, PopWaiting, BeginEvent, Dispatch, Recheck,
                  FinishEvent, SyncFlags, ProcessPending, ProcessCustom, CallbackReturn,
                  PendingReturn, CustomReturn
    <3>2. CASE Wake
      <4>1. custom' = custom /\ inflight' = inflight
        BY <3>2 DEF Wake
      <4>2. \/ pc' = "stopped"
            \/ pc \notin {"stopped", "freed", "fault"} /\ bits \subseteq flags'
        BY <3>2 DEF Wake
      <4>3. flags = {}
        BY <3>2 DEF Wake, Structure, PassSound
      <4> QED BY <4>1, <4>2, <4>3 DEF CustomNotLost
    <3>3. CASE ProcessCustom
      <4>1. custom \in [events : SUBSET CustomEvents, callback : BOOLEAN]
        BY DEF Structure, TypeOK
      <4>2. CASE "Custom" \in flags /\ custom.callback
        <5>1. custom'.events = {}
          BY <3>3, <4>1, <4>2 DEF ProcessCustom
        <5> QED BY <5>1 DEF CustomNotLost
      <4>3. CASE ~("Custom" \in flags /\ custom.callback)
        <5>1. custom' = custom /\ bits' = bits /\ inflight' = inflight /\ pc = "custom"
          BY <3>3, <4>3 DEF ProcessCustom
        <5> QED BY <5>1, <4>3 DEF CustomNotLost
      <4> QED BY <4>2, <4>3
    <3>4. CASE Dispatch
      BY <3>1, <3>4 DEF Dispatch, CustomNotLost, pass
    <3>5. CASE PopWaiting \/ BeginEvent \/ Recheck \/ FinishEvent \/ SyncFlags
                 \/ ProcessPending \/ UserReturn
      <4>1. UNCHANGED <<custom, flags>> /\ bits \subseteq bits'
        BY <3>5 DEF PopWaiting, BeginEvent, Recheck, FinishEvent, ItemNotify, SyncFlags,
                    ProcessPending, UserReturn, CallbackReturn, PendingReturn, CustomReturn, pass
      <4>2. pc \notin {"stopped", "freed", "fault"}
        BY <3>5 DEF PopWaiting, BeginEvent, Recheck, FinishEvent, SyncFlags,
                    ProcessPending, UserReturn, CallbackReturn, PendingReturn, CustomReturn
      <4> QED BY <3>1, <4>1, <4>2 DEF CustomNotLost
    <3> QED BY <2>4, <3>2, <3>3, <3>4, <3>5 DEF LoopStep
  <2>5. CASE UNCHANGED vars
    BY <2>1, <2>5 DEF vars
  <2> QED BY <2>2, <2>3, <2>4, <2>5 DEF Next
<1> QED BY <1>1, <1>2, StructureInvariant, PTL DEF Spec

(* Deferred functions stay announced until they have run. *)
THEOREM NoDeferredFunctionIsLost == Spec => []PendingNotLost
<1>1. Init => PendingNotLost
  BY DEF Init, PendingNotLost
<1>2. Structure /\ PendingNotLost /\ [Next]_vars => PendingNotLost'
  <2> SUFFICES ASSUME Structure, PendingNotLost, [Next]_vars PROVE PendingNotLost'
    OBVIOUS
  <2>1. ASSUME pending' = pending, bits \subseteq bits', flags' = flags, pc' = pc
        PROVE  PendingNotLost'
    BY <2>1 DEF PendingNotLost
  <2>2. ASSUME NEW t \in Threads, ThreadCall(t) \/ Notify(t) PROVE PendingNotLost'
    BY <2>1, <2>2 DEF ThreadCall, Notify, MessageQueuePut, MessageQueueGet, MessageQueueReset,
                      SetCustomEvent, Stop, LinkNotify, ItemNotify, CustomNotify, pass
  <2>3. CASE OwnerCall
    <3>1. CASE \E f \in Callbacks : PendCallback(f)
      BY <3>1 DEF PendCallback, PendingNotLost
    <3>2. CASE Run \/ Free
      BY <3>2 DEF Run, Free, PendingNotLost, Processing, pass
    <3>3. CASE (\E o \in Objects, k \in Kinds : Subscribe(o, k))
                 \/ (\E o \in Objects : Unsubscribe(o)) \/ SetCustomEventCallback
      BY <2>1, <3>3 DEF Subscribe, Unsubscribe, SetCustomEventCallback, ItemNotify, pass
    <3> QED BY <2>3, <3>1, <3>2, <3>3 DEF OwnerCall
  <2>4. CASE LoopStep \/ UserReturn
    <3>1. CASE Wake
      BY <3>1 DEF Wake, PendingNotLost, Processing
    <3>2. CASE PopWaiting \/ BeginEvent \/ Dispatch \/ Recheck \/ FinishEvent \/ SyncFlags
                 \/ CallbackReturn
      <4>1. UNCHANGED <<pending, flags>> /\ bits \subseteq bits'
        BY <3>2 DEF PopWaiting, BeginEvent, Dispatch, Recheck, FinishEvent, ItemNotify,
                    SyncFlags, CallbackReturn, pass
      <4>2. /\ pc \in Processing \union {"events", "sync"}
            /\ pc' \in Processing \union {"sync", "pending", "fault"}
        BY <3>2 DEF PopWaiting, BeginEvent, Dispatch, Recheck, FinishEvent, SyncFlags,
                    CallbackReturn, Processing
      <4> QED BY <4>1, <4>2 DEF PendingNotLost, Processing
    <3>3. CASE ProcessPending
      BY <3>3 DEF ProcessPending, PendingNotLost, Processing, pass
    <3>4. CASE PendingReturn
      <4>1. pending # <<>>
        BY <3>4 DEF PendingReturn, Structure, PassSound
      <4> QED BY <3>4, <4>1 DEF PendingReturn, PendingNotLost, Processing, pass
    <3>5. CASE ProcessCustom \/ CustomReturn
      BY <3>5 DEF ProcessCustom, CustomReturn, PendingNotLost, Processing, pass
    <3> QED BY <2>4, <3>1, <3>2, <3>3, <3>4, <3>5 DEF LoopStep, UserReturn
  <2>5. CASE UNCHANGED vars
    BY <2>1, <2>5 DEF vars
  <2> QED BY <2>2, <2>3, <2>4, <2>5 DEF Next
<1> QED BY <1>1, <1>2, StructureInvariant, PTL DEF Spec

(* Neither a custom event nor a deferred function is left unannounced.     *)
THEOREM NoAnnouncementIsLost == Spec => []AnnouncementsNotLost
<1>1. CustomNotLost /\ PendingNotLost => AnnouncementsNotLost
  BY DEF AnnouncementsNotLost
<1> QED BY <1>1, NoCustomEventIsLost, NoDeferredFunctionIsLost, PTL


(***************************************************************************)
(* The loop implements EventDelivery.  What a step does to the three       *)
(* mapped variables is derived first, the abstract step from it.           *)
(***************************************************************************)
SubOf == [o \in Objects |-> IF tree[o] = Nil THEN Nil ELSE item[tree[o]].kind]

ServingOf == IF pc = "callback" THEN item[cur].object ELSE Nil

PhaseOf == IF pc = "idle" THEN "idle"
           ELSE IF pc \in {"stopped", "freed"} THEN "stopped" ELSE "running"

AbstractStep == [Delivery!ENext]_(Delivery!evars)

(* A step that changes no mapped variable is a stutter. *)
LEMMA DeliveryStutter ==
  ASSUME UNCHANGED <<count, SubOf, ServingOf, PhaseOf>>
  PROVE  AbstractStep
BY DEF AbstractStep, Delivery!evars, SubOf, ServingOf, PhaseOf

(* The object of a registered item finds its kind through the tree. *)
LEMMA KindOfCurrent ==
  ASSUME Structure, cur \in Items, item[cur] # Freed, item[cur].owner
  PROVE  /\ item[cur].object \in Objects /\ item[cur].kind # Nil
         /\ SubOf[item[cur].object] = item[cur].kind
<1>1. item[cur] \in Subscriptions
  BY DEF Structure, TypeOK
<1>2. item[cur].object \in Objects /\ item[cur].kind \in Kinds /\ cur # Nil
  BY <1>1, ConstantsAssumption DEF Subscriptions
<1>3. tree[item[cur].object] = cur
  BY DEF Structure, RegistrySound
<1> QED BY <1>2, <1>3, ConstantsAssumption DEF SubOf

(* Other threads change queues only. *)
LEMMA DeliveryThread ==
  ASSUME Structure, NEW t \in Threads, ThreadCall(t) \/ Notify(t)
  PROVE  AbstractStep
<1>1. UNCHANGED <<item, tree, pc, cur>>
  BY DEF ThreadCall, Notify, MessageQueuePut, MessageQueueGet, MessageQueueReset,
         SetCustomEvent, Stop, LinkNotify, CustomNotify, registry, pass
<1>2. UNCHANGED <<SubOf, ServingOf, PhaseOf>>
  BY <1>1 DEF SubOf, ServingOf, PhaseOf
<1>3. CASE UNCHANGED count
  BY <1>2, <1>3, DeliveryStutter
<1>4. ASSUME NEW o \in Objects,
             MessageQueuePut(t, o) \/ MessageQueueGet(t, o) \/ MessageQueueReset(t, o)
      PROVE  AbstractStep
  <2>1. count[o] \in 0..Capacity /\ Capacity \in Nat
    BY ConstantsAssumption DEF Structure, TypeOK
  <2>2. \E n \in {count[o] + 1, count[o] - 1, 0} \cap 0..Capacity :
          count' = [count EXCEPT ![o] = n]
    BY <1>4, <2>1 DEF MessageQueuePut, MessageQueueGet, MessageQueueReset
  <2>3. Delivery!Change(o)
    BY <1>2, <2>2 DEF Delivery!Change, SubOf, ServingOf, PhaseOf
  <2> QED BY <2>3 DEF AbstractStep, Delivery!ENext
<1>5. CASE (\E e \in CustomEvents : SetCustomEvent(t, e)) \/ Stop(t) \/ Notify(t)
  BY <1>3, <1>5 DEF SetCustomEvent, Stop, Notify, LinkNotify, CustomNotify
<1> QED BY <1>4, <1>5 DEF ThreadCall

(* Unsubscribing, by the user or because of the Once flag. *)
LEMMA DeliveryUnsubscribe ==
  ASSUME Structure, NEW o \in Objects, tree[o] # Nil, UnsubscribeItem(o)
  PROVE  /\ SubOf[o] # Nil
         /\ SubOf' = [SubOf EXCEPT ![o] = Nil]
<1>1. /\ tree[o] \in Items /\ item[tree[o]] # Freed
      /\ tree' = [tree EXCEPT ![o] = Nil]
      /\ \A i \in Items : i # tree[o] => item'[i] = item[i]
  BY UnsubscribeEffect DEF Structure
<1>2. item[tree[o]] \in Subscriptions /\ item[tree[o]].kind \in Kinds
  BY <1>1 DEF Structure, TypeOK, Subscriptions
<1>3. SubOf[o] # Nil
  <2>1. SubOf[o] = item[tree[o]].kind
    BY DEF SubOf
  <2> QED BY <1>2, <2>1, ConstantsAssumption
<1>4. \A p \in Objects : p # o /\ tree[p] # Nil => tree'[p] = tree[p] /\ item'[tree[p]] = item[tree[p]]
  <2> SUFFICES ASSUME NEW p \in Objects, p # o, tree[p] # Nil
               PROVE  tree'[p] = tree[p] /\ item'[tree[p]] = item[tree[p]]
    OBVIOUS
  <2>1. tree[p] \in Items /\ tree[p] # tree[o]
    BY DEF Structure, TypeOK, RegistrySound
  <2> QED BY <1>1, <2>1 DEF Structure, TypeOK
<1>5. \A p \in Objects : SubOf'[p] = IF p = o THEN Nil ELSE SubOf[p]
  BY <1>1, <1>4 DEF SubOf, Structure, TypeOK
<1> QED BY <1>3, <1>5 DEF SubOf

(* Calls of the loop's own thread. *)
LEMMA DeliveryOwner ==
  ASSUME Structure, OwnerCall
  PROVE  AbstractStep
<1>1. ASSUME NEW o \in Objects, NEW k \in Kinds, Subscribe(o, k) PROVE AbstractStep
  <2>1. /\ tree[o] = Nil
        /\ UNCHANGED <<count, pc, cur>>
    BY <1>1 DEF Subscribe, pass
  <2>2. PICK i \in Items :
          /\ item[i] = Freed
          /\ item' = [item EXCEPT ![i] = [owner |-> TRUE, object |-> o, kind |-> k]]
          /\ tree' = [tree EXCEPT ![o] = i]
    BY <1>1 DEF Subscribe
  <2>3. \A p \in Objects : tree[p] # i
    BY <2>2, ConstantsAssumption DEF Structure, RegistrySound
  <2>4. \A p \in Objects : SubOf'[p] = IF p = o THEN k ELSE SubOf[p]
    <3> SUFFICES ASSUME NEW p \in Objects PROVE SubOf'[p] = IF p = o THEN k ELSE SubOf[p]
      OBVIOUS
    <3>1. CASE p = o
      <4>1. tree'[p] = i /\ i # Nil
        BY <2>2, <3>1, ConstantsAssumption DEF Structure, TypeOK
      <4>2. item'[i].kind = k
        BY <2>2 DEF Structure, TypeOK
      <4> QED BY <3>1, <4>1, <4>2 DEF SubOf
    <3>2. CASE p # o
      <4>1. tree'[p] = tree[p] /\ item'[tree[p]] = item[tree[p]]
        BY <2>2, <2>3, <3>2 DEF Structure, TypeOK
      <4> QED BY <3>2, <4>1 DEF SubOf
    <3> QED BY <3>1, <3>2
  <2>5. SubOf' = [SubOf EXCEPT ![o] = k] /\ SubOf[o] = Nil
    BY <2>1, <2>4 DEF SubOf
  <2>6. ServingOf' = ServingOf /\ PhaseOf' = PhaseOf
    <3>1. CASE pc = "callback"
      <4>1. cur \in Items /\ item[cur] # Freed
        BY <3>1 DEF Structure, PassSound, Processing
      <4>2. item'[cur] = item[cur]
        BY <2>2, <4>1 DEF Structure, TypeOK
      <4> QED BY <2>1, <4>2 DEF ServingOf, PhaseOf
    <3>2. CASE pc # "callback"
      BY <2>1, <3>2 DEF ServingOf, PhaseOf
    <3> QED BY <3>1, <3>2
  <2>7. Delivery!Subscribe(o, k)
    BY <2>1, <2>5, <2>6 DEF Delivery!Subscribe, SubOf, ServingOf, PhaseOf
  <2> QED BY <2>7 DEF AbstractStep, Delivery!ENext
<1>2. ASSUME NEW o \in Objects, Unsubscribe(o) PROVE AbstractStep
  <2>1. /\ tree[o] # Nil /\ UnsubscribeItem(o)
        /\ UNCHANGED <<count, pc, cur>>
    BY <1>2 DEF Unsubscribe, pass
  <2>2. ServingOf' = ServingOf /\ PhaseOf' = PhaseOf
    <3>1. CASE pc = "callback"
      <4>1. cur \in Items /\ item[cur] # Freed /\ current = cur
        BY <3>1 DEF Structure, PassSound, Processing
      <4>2. item[cur] \in Subscriptions
        BY <4>1 DEF Structure, TypeOK
      <4>3. item'[cur].object = item[cur].object
        <5>1. /\ \A i \in Items : i # tree[o] => item'[i] = item[i]
              /\ item'[tree[o]] = IF current = tree[o]
                                    THEN [item[tree[o]] EXCEPT !.owner = FALSE] ELSE Freed
          BY <2>1, UnsubscribeEffect DEF Structure
        <5>2. [item[cur] EXCEPT !.owner = FALSE].object = item[cur].object
          BY <4>2 DEF Subscriptions
        <5> QED BY <4>1, <5>1, <5>2
      <4> QED BY <2>1, <4>3 DEF ServingOf, PhaseOf
    <3>2. CASE pc # "callback"
      BY <2>1, <3>2 DEF ServingOf, PhaseOf
    <3> QED BY <3>1, <3>2
  <2>3. SubOf[o] # Nil /\ SubOf' = [SubOf EXCEPT ![o] = Nil]
    BY <2>1, DeliveryUnsubscribe
  <2>4. Delivery!Unsubscribe(o)
    BY <2>1, <2>2, <2>3 DEF Delivery!Unsubscribe, SubOf, ServingOf, PhaseOf
  <2> QED BY <2>4 DEF AbstractStep, Delivery!ENext
<1>3. ASSUME UNCHANGED <<count, item, tree, pc, cur>> PROVE AbstractStep
  BY <1>3, DeliveryStutter DEF SubOf, ServingOf, PhaseOf
<1>4. ASSUME UNCHANGED <<count, item, tree, cur>>,
             \/ pc = "idle" /\ pc' \in {"wait", "freed", "fault"}
             \/ pc = "stopped" /\ pc' = "freed"
      PROVE  AbstractStep
  <2>1. SubOf' = SubOf /\ ServingOf = Nil /\ ServingOf' = Nil
    BY <1>4 DEF SubOf, ServingOf
  <2>2. \/ PhaseOf = "idle" /\ PhaseOf' \in {"running", "stopped"}
        \/ PhaseOf' = PhaseOf
    BY <1>4 DEF PhaseOf
  <2>3. CASE PhaseOf' = PhaseOf
    BY <1>4, <2>1, <2>3, DeliveryStutter
  <2>4. CASE PhaseOf = "idle" /\ PhaseOf' \in {"running", "stopped"}
    <3>1. Delivery!Switch
      BY <1>4, <2>1, <2>4 DEF Delivery!Switch, SubOf, ServingOf, PhaseOf
    <3> QED BY <3>1 DEF AbstractStep, Delivery!ENext
  <2> QED BY <2>2, <2>3, <2>4
<1>5. CASE Run
  BY <1>4, <1>5 DEF Run, registry, pass
<1>6. CASE Free
  <2>1. pc = "stopped" => pc' = "freed"
    <3>1. waiting = <<>>
      <4> SUFFICES ASSUME waiting # <<>> PROVE FALSE
        OBVIOUS
      <4>1. waiting[1] \in Items /\ IsWaiting(waiting[1])
        BY DEF Structure, TypeOK, IsWaiting, Contains
      <4>2. item[waiting[1]].owner
        BY <4>1 DEF Structure, WaitingSound
      <4>3. item[waiting[1]] # Freed
        BY <4>2 DEF Freed
      <4>4. item[waiting[1]].object \in Objects
        BY <4>1, <4>3 DEF Structure, TypeOK, Subscriptions
      <4>5. tree[item[waiting[1]].object] = waiting[1]
        BY <4>1, <4>2, <4>3 DEF Structure, RegistrySound
      <4> QED BY <1>6, <4>1, <4>4, <4>5, ConstantsAssumption DEF Free
    <3> QED BY <1>6, <3>1 DEF Free
  <2>2. pc \in {"idle", "stopped"} /\ pc' \in {"freed", "fault"} /\ UNCHANGED <<count, item, tree, cur>>
    BY <1>6 DEF Free, registry, pass
  <2> QED BY <1>4, <2>1, <2>2
<1>7. ASSUME NEW f \in Callbacks, PendCallback(f) PROVE AbstractStep
  BY <1>3, <1>7 DEF PendCallback, registry, pass
<1>8. CASE SetCustomEventCallback
  BY <1>3, <1>8 DEF SetCustomEventCallback, registry, pass
<1> QED BY <1>1, <1>2, <1>5, <1>6, <1>7, <1>8 DEF OwnerCall

(* The pass of the loop: it serves a subscribed object whose level is not  *)
(* zero, and stops only between two callbacks.                             *)
LEMMA DeliveryPass ==
  ASSUME Structure, Structure', LoopStep \/ UserReturn
  PROVE  AbstractStep
<1>1. ASSUME UNCHANGED <<count, item, tree>>,
             pc \notin {"idle", "callback", "stopped", "freed"},
             pc' \notin {"idle", "callback", "stopped", "freed"}
      PROVE  AbstractStep
  <2>1. SubOf' = SubOf /\ ServingOf' = ServingOf /\ PhaseOf' = PhaseOf
    BY <1>1 DEF SubOf, ServingOf, PhaseOf
  <2> QED BY <1>1, <2>1, DeliveryStutter
<1>2. CASE Wake
  <2>1. pc = "wait" /\ pc' \in {"stopped", "events"} /\ UNCHANGED <<count, item, tree>>
    BY <1>2 DEF Wake, registry
  <2>2. CASE pc' = "stopped"
    <3>1. SubOf' = SubOf /\ ServingOf' = Nil /\ ServingOf = Nil
          /\ PhaseOf = "running" /\ PhaseOf' = "stopped"
      BY <2>1, <2>2 DEF SubOf, ServingOf, PhaseOf
    <3>2. Delivery!Switch
      BY <2>1, <3>1 DEF Delivery!Switch, SubOf, ServingOf, PhaseOf
    <3> QED BY <3>2 DEF AbstractStep, Delivery!ENext
  <2>3. CASE pc' = "events"
    BY <1>1, <2>1, <2>3
  <2> QED BY <2>1, <2>2, <2>3
<1>3. CASE BeginEvent
  <2>1. /\ pc = "process" /\ pc' = "dispatch" /\ count' = count
        /\ cur \in Items /\ current = Nil /\ item[cur].owner
    BY <1>3 DEF BeginEvent, Structure, PassSound, Processing
  <2>2. item[cur] # Freed
    BY <2>1 DEF Freed
  <2>3. CASE item[cur].kind.once
    <3>1. PICK o \in Objects :
            o = item[cur].object /\ SubOf[o] = item[cur].kind /\ item[cur].kind # Nil
      BY <2>1, <2>2, KindOfCurrent
    <3>2. UnsubscribeItem(o) /\ tree[o] # Nil
      BY <1>3, <2>3, <3>1 DEF BeginEvent, SubOf
    <3>3. SubOf[o] # Nil /\ SubOf' = [SubOf EXCEPT ![o] = Nil]
      BY <3>1, <3>2, DeliveryUnsubscribe
    <3>4. ServingOf' = ServingOf /\ PhaseOf' = PhaseOf
      BY <2>1 DEF ServingOf, PhaseOf
    <3>5. Delivery!Unsubscribe(o)
      BY <2>1, <3>3, <3>4 DEF Delivery!Unsubscribe, SubOf, ServingOf, PhaseOf
    <3> QED BY <3>5 DEF AbstractStep, Delivery!ENext
  <2>4. CASE ~item[cur].kind.once
    BY <1>1, <1>3, <2>1, <2>4 DEF BeginEvent, registry
  <2> QED BY <2>3, <2>4
<1>4. CASE Dispatch
  <2>1. pc = "dispatch" /\ UNCHANGED <<count, item, tree, cur>>
    BY <1>4 DEF Dispatch, registry, pass
  <2>2. CASE pc' # "callback"
    BY <1>1, <1>4, <2>1, <2>2 DEF Dispatch
  <2>3. CASE pc' = "callback"
    <3> DEFINE o == item[cur].object
    <3>1. /\ cur \in Items /\ item[cur] # Freed /\ item[cur].owner
          /\ item[cur].kind.edge \/ GetLevel(o, item[cur].kind.dir)
      BY <1>4, <2>3 DEF Dispatch, Structure, PassSound, Processing
    <3>2. o \in Objects /\ SubOf[o] = item[cur].kind /\ item[cur].kind # Nil
      BY <3>1, KindOfCurrent
    <3>3. item[cur].kind.dir \in Dirs
      BY <3>1, ConstantsAssumption DEF Structure, TypeOK, Subscriptions
    <3>4. SubOf' = SubOf /\ ServingOf = Nil /\ ServingOf' = o
          /\ PhaseOf = "running" /\ PhaseOf' = "running"
      BY <2>1, <2>3 DEF SubOf, ServingOf, PhaseOf
    <3>5. SubOf[o].edge \/ Delivery!Level(o, SubOf[o].dir)
      BY <3>1, <3>2, <3>3 DEF Delivery!Level, GetLevel, Dirs
    <3> HIDE DEF o
    <3>6. SubOf[o].edge \/ Delivery!Ready(o)
      BY <3>2, <3>5 DEF Delivery!Ready, SubOf
    <3>7. Delivery!Serve(o)
      BY <2>1, <3>2, <3>4, <3>6 DEF Delivery!Serve, SubOf, ServingOf, PhaseOf
    <3> QED BY <3>2, <3>7 DEF AbstractStep, Delivery!ENext
  <2> QED BY <2>2, <2>3
<1>5. CASE CallbackReturn
  <2>1. pc = "callback" /\ pc' \in {"finish", "recheck"} /\ UNCHANGED <<count, item, tree>>
    BY <1>5 DEF CallbackReturn, registry
  <2>2. cur \in Items /\ item[cur] # Freed
    BY <2>1 DEF Structure, PassSound, Processing
  <2>3. item[cur].object \in Objects
    BY <2>2 DEF Structure, TypeOK, Subscriptions
  <2>4. SubOf' = SubOf /\ ServingOf # Nil /\ ServingOf' = Nil /\ PhaseOf' = PhaseOf
    BY <2>1, <2>3, ConstantsAssumption DEF SubOf, ServingOf, PhaseOf
  <2>5. Delivery!Return
    BY <2>1, <2>4 DEF Delivery!Return, SubOf, ServingOf, PhaseOf
  <2> QED BY <2>5 DEF AbstractStep, Delivery!ENext
<1>6. CASE FinishEvent
  <2>1. pc = "finish" /\ pc' = "sync" /\ UNCHANGED <<count, tree>>
        /\ cur \in Items /\ item[cur] # Freed
    BY <1>6 DEF FinishEvent, Structure, PassSound, Processing
  <2>2. CASE item[cur].owner
    BY <1>1, <1>6, <2>1, <2>2 DEF FinishEvent
  <2>3. CASE ~item[cur].owner
    <3>1. item' = [item EXCEPT ![cur] = Freed]
      BY <1>6, <2>3 DEF FinishEvent
    <3>2. \A o \in Objects : tree[o] # Nil => item'[tree[o]] = item[tree[o]]
      BY <2>3, <3>1 DEF Structure, TypeOK, RegistrySound
    <3>3. SubOf' = SubOf
      BY <2>1, <3>2 DEF SubOf
    <3>4. ServingOf' = ServingOf /\ PhaseOf' = PhaseOf
      BY <2>1 DEF ServingOf, PhaseOf
    <3> QED BY <2>1, <3>3, <3>4, DeliveryStutter
  <2> QED BY <2>2, <2>3
<1>7. CASE PopWaiting \/ Recheck \/ SyncFlags \/ ProcessPending \/ ProcessCustom
           \/ PendingReturn \/ CustomReturn
  BY <1>1, <1>7 DEF PopWaiting, Recheck, SyncFlags, ProcessPending, ProcessCustom,
                    PendingReturn, CustomReturn, registry
<1> QED BY <1>2, <1>3, <1>4, <1>5, <1>6, <1>7 DEF LoopStep, UserReturn

(* FuriEventLoop implements the safety part of EventDelivery, with Once    *)
(* subscriptions too (furi_event_loop_process_event): callbacks come one   *)
(* at a time, of subscribed objects only, a level callback only when the   *)
(* level is not zero, and a stop takes effect between two callbacks.       *)
THEOREM ImplementsDelivery == Spec => DeliverySafety
<1>1. Init => Delivery!EInit
  BY DEF Init, Delivery!EInit
<1>2. Structure /\ Structure' /\ [Next]_vars => [Delivery!ENext]_(Delivery!evars)
  <2> SUFFICES ASSUME Structure, Structure', [Next]_vars PROVE AbstractStep
    BY DEF AbstractStep
  <2>1. CASE UNCHANGED vars
    BY <2>1, DeliveryStutter DEF vars, registry, pass, SubOf, ServingOf, PhaseOf
  <2>2. CASE Next
    BY <2>2, DeliveryThread, DeliveryOwner, DeliveryPass DEF Next
  <2> QED BY <2>1, <2>2
<1> QED BY <1>1, <1>2, StructureInvariant, PTL DEF Spec, DeliverySafety, Delivery!ESafety
=============================================================================
