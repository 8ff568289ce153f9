---------------------------- MODULE OrdersProofs ----------------------------
(***************************************************************************)
(* Proofs about Orders for any numbers of processes, requests and mutexes: *)
(* LockOrder excludes, and in one process every order behaves as OrderOnce *)
(* says.                                                                   *)
(***************************************************************************)
EXTENDS Orders, FiniteSetTheorems, TLAPS

(* The handlers that refer to a mutex. *)
Users(l) == {h \in Handlers : rcm[h] = l}

(* Where a handler that locks refers to a mutex. *)
Engaged(h) ==
  /\ Locking(role[h])
  /\ pc[h] \in {"wait", "read", "save", "write", "credit", "unlock", "release"}

(* A handler refers to a mutex exactly from LockOrder to the end of         *)
(* UnlockOrder, and it is the one in the map.                               *)
RefersInv ==
  \A h \in Handlers :
    /\ Engaged(h) => rcm[h] \in Locks
    /\ ~Engaged(h) => rcm[h] = NoLock
    /\ rcm[h] # NoLock => rcm[h] = entry[node[h]]
    /\ pc[h] \in {"lock", "wait", "save", "credit", "unlock", "release"} => Locking(role[h])

(* Two processes never share a mutex. *)
EntryInv ==
  \A m, n \in Nodes : entry[m] = entry[n] /\ entry[m] # NoLock => m = n

(* Who is inside holds the mutex it refers to. *)
OwnerInv ==
  \A h \in Handlers : Inside(h) => owner[rcm[h]] = h

(* The count of a mutex in a map is the number of its users. *)
CountInv ==
  \A n \in Nodes, l \in Locks :
    entry[n] = l => refCount[l] = Cardinality(Users(l))

LockInv == TypeOK /\ RefersInv /\ EntryInv /\ OwnerInv /\ CountInv

(* Users is a finite set, and its cardinality changes with one handler. *)
LEMMA UsersFinite ==
  ASSUME NEW l
  PROVE  IsFiniteSet(Users(l)) /\ Cardinality(Users(l)) \in Nat
<1>1. Users(l) \subseteq Handlers
  BY DEF Users
<1>2. IsFiniteSet(Users(l))
  BY <1>1, OrderAssumption, FS_Subset
<1>. QED
  BY <1>2, FS_CardinalityType

(* A handler that comes to refer to l raises the number of its users.       *)
LEMMA UserAdded ==
  ASSUME NEW h \in Handlers, NEW l, rcm \in [Handlers -> Locks \cup {NoLock}],
         rcm' = [rcm EXCEPT ![h] = l], rcm[h] # l
  PROVE  /\ Cardinality(Users(l)') = Cardinality(Users(l)) + 1
         /\ \A k : k # l /\ k # rcm[h] => Users(k)' = Users(k)
<1>1. Users(l)' = Users(l) \cup {h} /\ h \notin Users(l)
  BY DEF Users
<1>2. Cardinality(Users(l) \cup {h}) = Cardinality(Users(l)) + 1
  BY <1>1, UsersFinite, FS_AddElement
<1>3. \A k : k # l /\ k # rcm[h] => Users(k)' = Users(k)
  BY DEF Users
<1>. QED
  BY <1>1, <1>2, <1>3

(* A handler that stops referring to its mutex lowers the number.           *)
LEMMA UserRemoved ==
  ASSUME NEW h \in Handlers, rcm \in [Handlers -> Locks \cup {NoLock}],
         rcm' = [rcm EXCEPT ![h] = NoLock], rcm[h] # NoLock
  PROVE  /\ Cardinality(Users(rcm[h])) \in Nat \ {0}
         /\ \A l : l = rcm[h]
              => /\ Cardinality(Users(l)') = Cardinality(Users(l)) - 1
                 /\ Cardinality(Users(l)) = 1 => Users(l) = {h}
         /\ \A k : k # NoLock /\ k # rcm[h] => Users(k)' = Users(k)
<1>. DEFINE l == rcm[h]
<1>1. h \in Users(l)
  BY DEF Users
<1>2. \A k : k = l => Users(k)' = Users(k) \ {h}
  BY DEF Users
<1>3. IsFiniteSet(Users(l)) /\ Cardinality(Users(l)) \in Nat
  BY UsersFinite
<1>4. Cardinality(Users(l) \ {h}) = Cardinality(Users(l)) - 1
  BY <1>1, <1>3, FS_RemoveElement
<1>5. IsFiniteSet(Users(l) \ {h}) /\ Cardinality(Users(l) \ {h}) \in Nat
  BY <1>3, <1>1, FS_RemoveElement, FS_CardinalityType
<1>6. Cardinality(Users(l)) # 0
  BY <1>3, <1>4, <1>5
<1>7. ASSUME Cardinality(Users(l)) = 1
      PROVE  Users(l) = {h}
  <2>1. Cardinality(Users(l) \ {h}) = 0
    BY <1>4, <1>7
  <2>2. Users(l) \ {h} = {}
    BY <2>1, <1>5, FS_EmptySet
  <2>. QED
    BY <2>2, <1>1
<1>8. \A k : k # NoLock /\ k # rcm[h] => Users(k)' = Users(k)
  BY DEF Users
<1>. QED
  BY <1>2, <1>3, <1>4, <1>6, <1>7, <1>8

(* What a step leaves alone keeps its users. *)
LEMMA UsersKept ==
  ASSUME rcm' = rcm
  PROVE  \A k : Users(k)' = Users(k)
BY DEF Users
-----------------------------------------------------------------------------
(* The type invariant and the lock. *)

LEMMA TypeOKInit == Init => TypeOK
<1>. SUFFICES ASSUME Init PROVE TypeOK
  OBVIOUS
<1>1. scenario \in Scenarios /\ fate \in {"open", "paid", "failed", "expired"}
      /\ acked \in Outcomes \cup {"none"} /\ faulty \in BOOLEAN
  BY DEF Init
<1>2. status \in Statuses /\ credits \in Nat
  BY DEF Init, Statuses
<1>3. entry \in [Nodes -> Locks \cup {NoLock}] /\ refCount \in [Locks -> Nat]
      /\ owner \in [Locks -> Handlers \cup {NoOne}]
  BY DEF Init
<1>4. pc \in [Handlers -> Places] /\ role \in [Handlers -> Roles]
      /\ node \in [Handlers -> Nodes]
      /\ rcm \in [Handlers -> Locks \cup {NoLock}]
      /\ outcome \in [Handlers -> Outcomes]
  BY DEF Init, Places, Roles, Outcomes
<1>. QED
  BY <1>1, <1>2, <1>3, <1>4 DEF TypeOK

LEMMA TypeOKNext == TypeOK /\ RefersInv /\ CountInv /\ [Next]_vars => TypeOK'
<1>. SUFFICES ASSUME TypeOK, RefersInv, CountInv, [Next]_vars PROVE TypeOK'
  OBVIOUS
<1>. USE DEF TypeOK, Statuses, Places, Roles, Outcomes, order, mutex, Goto, Ends
<1>1. ASSUME NEW h \in Handlers, NEW k \in Roles, Deliver(h, k) PROVE TypeOK'
  BY <1>1 DEF Deliver
<1>2. ASSUME NEW h \in Handlers, LockOrder(h) PROVE TypeOK'
  BY <1>2 DEF LockOrder
<1>3. ASSUME NEW h \in Handlers, LockMutex(h) PROVE TypeOK'
  BY <1>3 DEF LockMutex
<1>4. ASSUME NEW h \in Handlers, UnlockMutex(h) PROVE TypeOK'
  BY <1>4 DEF UnlockMutex
<1>5. ASSUME NEW h \in Handlers, ReleaseOrder(h) PROVE TypeOK'
  <2>1. rcm[h] \in Locks /\ rcm[h] = entry[node[h]] /\ rcm[h] # NoLock
    BY <1>5, OrderAssumption DEF ReleaseOrder, RefersInv, Engaged
  <2>2. rcm' = [rcm EXCEPT ![h] = NoLock]
    BY <1>5 DEF ReleaseOrder
  <2>3. Cardinality(Users(rcm[h])) \in Nat \ {0}
    BY <2>1, <2>2, UserRemoved
  <2>4. refCount[rcm[h]] \in Nat \ {0}
    BY <2>1, <2>3 DEF CountInv
  <2>5. refCount' \in [Locks -> Nat]
    BY <1>5, <2>1, <2>4 DEF ReleaseOrder
  <2>6. acked' \in Outcomes \cup {"none"}
    BY <1>5 DEF ReleaseOrder, Answered
  <2>. QED
    BY <1>5, <2>5, <2>6 DEF ReleaseOrder
<1>6. ASSUME NEW h \in Handlers, ReadOrder(h) PROVE TypeOK'
  BY <1>6 DEF ReadOrder, Leave, StoreError
<1>7. ASSUME NEW h \in Handlers, CompleteOrder(h) PROVE TypeOK'
  <2>1. status' \in Statuses
    BY <1>7 DEF CompleteOrder, Target
  <2>2. credits' \in Nat
    BY <1>7 DEF CompleteOrder
  <2>3. faulty' \in BOOLEAN
    BY <1>7 DEF CompleteOrder, StoreError
  <2>. QED
    BY <1>7, <2>1, <2>2, <2>3 DEF CompleteOrder, Leave
<1>8. ASSUME NEW h \in Handlers, EpaySave(h) PROVE TypeOK'
  BY <1>8 DEF EpaySave, Leave, StoreError
<1>9. ASSUME NEW h \in Handlers, EpayCredit(h) PROVE TypeOK'
  <2>1. credits' \in Nat
    BY <1>9 DEF EpayCredit
  <2>2. faulty' \in BOOLEAN
    BY <1>9 DEF EpayCredit, StoreError
  <2>. QED
    BY <1>9, <2>1, <2>2 DEF EpayCredit, Leave
<1>10. ASSUME NEW n \in Nodes, Crash(n) PROVE TypeOK'
  BY <1>10 DEF Crash
<1>11. CASE PaymentDecided
  BY <1>11 DEF PaymentDecided
<1>12. CASE UNCHANGED vars
  BY <1>12 DEF vars
<1>. QED
  BY <1>1, <1>2, <1>3, <1>4, <1>5, <1>6, <1>7, <1>8, <1>9, <1>10, <1>11, <1>12
     DEF Next, Step

(* Steps that move one handler and leave the mutexes and references alone    *)
(* keep the lock, if the handler does not enter or leave its critical part.  *)
LEMMA LockUntouched ==
  ASSUME LockInv, TypeOK', mutex' = mutex, rcm' = rcm, node' = node,
         scenario' = scenario,
         \A h \in Handlers :
            /\ Engaged(h)' = Engaged(h)
            /\ Inside(h)' => Inside(h)
            /\ pc'[h] \in {"lock", "wait", "save", "credit", "unlock", "release"} => Locking(role[h])'
  PROVE  LockInv'
<1>1. RefersInv'
  BY DEF LockInv, RefersInv, mutex
<1>2. EntryInv'
  BY DEF LockInv, EntryInv, mutex
<1>3. OwnerInv'
  BY DEF LockInv, OwnerInv, mutex
<1>4. CountInv'
  BY UsersKept DEF LockInv, CountInv, mutex
<1>. QED
  BY <1>1, <1>2, <1>3, <1>4 DEF LockInv

(* A step of handler h that leaves the lock alone, from place p to place q.  *)
LEMMA LockUntouchedBy ==
  ASSUME LockInv, TypeOK', NEW h \in Handlers, mutex' = mutex, rcm' = rcm,
         node' = node, scenario' = scenario, role' = role,
         pc[h] \in {"read", "save", "write", "credit"},
         \/ Leave(h)
         \/ Goto(h, "save") /\ Locking(role[h])
         \/ Goto(h, "credit") /\ Locking(role[h])
         \/ Goto(h, "write")
  PROVE  LockInv'
<1>1. \A g \in Handlers :
        /\ Engaged(g)' = Engaged(g)
        /\ Inside(g)' => Inside(g)
        /\ pc'[g] \in {"lock", "wait", "save", "credit", "unlock", "release"} => Locking(role[g])'
  BY DEF LockInv, TypeOK, Engaged, Inside, Leave, Goto, RefersInv, Locking
<1>. QED
  BY <1>1, LockUntouched

LEMMA LockInvInit == Init => LockInv
<1>. SUFFICES ASSUME Init PROVE LockInv
  OBVIOUS
<1>1. RefersInv
  BY DEF Init, RefersInv, Engaged
<1>2. EntryInv /\ CountInv
  BY OrderAssumption DEF Init, EntryInv, CountInv
<1>3. OwnerInv
  BY DEF Init, OwnerInv, Inside
<1>. QED
  BY <1>1, <1>2, <1>3, TypeOKInit DEF LockInv

(* Coming to a mutex. *)
LEMMA LockInvLockOrder ==
  ASSUME LockInv, TypeOK', NEW h \in Handlers, LockOrder(h)
  PROVE  LockInv'
<1>. USE DEF LockInv
<1>a. PICK n \in Nodes : n = node[h]
  BY DEF TypeOK
<1>b. PICK l \in Locks : l = IF entry[n] = NoLock THEN FreshLock ELSE entry[n]
  BY <1>a DEF LockOrder, TypeOK
<1>1. /\ l \in Locks /\ n \in Nodes
      /\ entry[n] = NoLock => Unused(l)
      /\ entry' = [entry EXCEPT ![n] = l]
      /\ rcm' = [rcm EXCEPT ![h] = l]
      /\ pc[h] = "lock" /\ pc' = [pc EXCEPT ![h] = "wait"]
      /\ role' = role /\ node' = node /\ scenario' = scenario
      /\ Locking(role[h]) /\ rcm[h] = NoLock
  BY <1>a, <1>b DEF LockOrder, Goto, TypeOK, RefersInv, Engaged
<1>2. /\ refCount' = [refCount EXCEPT ![l] = IF entry[n] = NoLock THEN 1
                                            ELSE refCount[l] + 1]
      /\ owner' = [owner EXCEPT ![l] = IF entry[n] = NoLock THEN NoOne
                                      ELSE owner[l]]
  BY <1>1, <1>a, <1>b DEF LockOrder, TypeOK
<1>3. l # NoLock /\ rcm[h] # l
  BY <1>1, OrderAssumption
<1>4. \A g \in Handlers : g # h =>
        /\ Engaged(g)' = Engaged(g) /\ Inside(g)' = Inside(g)
        /\ rcm'[g] = rcm[g] /\ pc'[g] = pc[g]
  BY <1>1 DEF TypeOK, Engaged, Inside, Locking
<1>5. Engaged(h)' /\ ~Inside(h)' /\ rcm'[h] = l /\ l = entry'[node[h]]
  BY <1>1, <1>a DEF TypeOK, Engaged, Inside, Locking
<1>6. \A g \in Handlers : g # h /\ rcm[g] # NoLock => rcm[g] = entry'[node[g]]
  BY <1>1, <1>3, <1>b DEF TypeOK, RefersInv, Unused
<1>7. RefersInv'
  BY <1>1, <1>3, <1>4, <1>5, <1>6 DEF TypeOK, RefersInv, Locking
<1>8. EntryInv'
  BY <1>1, <1>3, <1>b DEF TypeOK, EntryInv, Unused
<1>9. OwnerInv'
  <2>. SUFFICES ASSUME NEW g \in Handlers, Inside(g)'
                PROVE  owner'[rcm'[g]] = g
    BY DEF OwnerInv
  <2>1. g # h /\ Inside(g) /\ rcm'[g] = rcm[g]
    BY <1>4, <1>5
  <2>2. owner[rcm[g]] = g /\ Engaged(g)
    BY <2>1 DEF OwnerInv, Inside, Engaged
  <2>3. rcm[g] \in Locks
    BY <2>2 DEF RefersInv
  <2>4. owner'[rcm[g]] = owner[rcm[g]]
    BY <1>1, <1>2, <2>3 DEF TypeOK, Unused
  <2>. QED
    BY <2>1, <2>2, <2>4
<1>10. CountInv'
  <2>1. Cardinality(Users(l)') = Cardinality(Users(l)) + 1
    BY <1>1, <1>3, UserAdded DEF TypeOK
  <2>2. \A k : k # l /\ k # NoLock => Users(k)' = Users(k)
    BY <1>1, <1>3, UserAdded DEF TypeOK
  <2>3. refCount'[l] = Cardinality(Users(l)')
    <3>1. CASE entry[n] = NoLock
      <4>1. Users(l) = {}
        BY <1>1, <3>1 DEF Unused, Users
      <4>2. Cardinality(Users(l)) = 0
        BY <4>1, FS_EmptySet
      <4>. QED
        BY <3>1, <4>2, <2>1, <1>1, <1>2 DEF TypeOK
    <3>2. CASE entry[n] # NoLock
      <4>1. refCount[l] = Cardinality(Users(l))
        BY <3>2, <1>1, <1>b DEF CountInv
      <4>. QED
        BY <3>2, <4>1, <2>1, <1>1, <1>2 DEF TypeOK
    <3>. QED
      BY <3>1, <3>2
  <2>. SUFFICES ASSUME NEW m \in Nodes, NEW k \in Locks, entry'[m] = k
                PROVE  refCount'[k] = Cardinality(Users(k)')
    BY DEF CountInv
  <2>4. CASE k = l
    <3>1. Users(k)' = Users(l)'
      BY <2>4 DEF Users
    <3>. QED
      BY <2>3, <2>4, <3>1
  <2>5. CASE k # l
    <3>1. entry[m] = k
      BY <2>5, <1>1 DEF TypeOK
    <3>2. refCount'[k] = refCount[k]
      BY <2>5, <1>1, <1>2 DEF TypeOK
    <3>3. refCount[k] = Cardinality(Users(k))
      BY <3>1 DEF CountInv
    <3>4. Users(k)' = Users(k)
      BY <2>2, <2>5, OrderAssumption
    <3>. QED
      BY <3>2, <3>3, <3>4
  <2>. QED
    BY <2>4, <2>5
<1>. QED
  BY <1>7, <1>8, <1>9, <1>10

(* The lock is taken only when nobody has it. *)
LEMMA LockInvLockMutex ==
  ASSUME LockInv, TypeOK', NEW h \in Handlers, LockMutex(h)
  PROVE  LockInv'
<1>. USE DEF LockInv
<1>1. /\ pc[h] = "wait" /\ pc' = [pc EXCEPT ![h] = "read"]
      /\ role' = role /\ node' = node /\ scenario' = scenario /\ rcm' = rcm
      /\ entry' = entry /\ refCount' = refCount
      /\ Locking(role[h]) /\ rcm[h] \in Locks
      /\ owner[rcm[h]] = NoOne /\ owner' = [owner EXCEPT ![rcm[h]] = h]
  BY DEF LockMutex, Goto, TypeOK, RefersInv, Engaged
<1>2. \A g \in Handlers : /\ Engaged(g)' = Engaged(g)
                          /\ g # h => Inside(g)' = Inside(g) /\ pc'[g] = pc[g]
  BY <1>1 DEF TypeOK, Engaged, Inside, Locking
<1>3. RefersInv' /\ EntryInv'
  BY <1>1, <1>2 DEF TypeOK, RefersInv, EntryInv, Locking
<1>4. OwnerInv'
  <2>. SUFFICES ASSUME NEW g \in Handlers, Inside(g)'
                PROVE  owner'[rcm[g]] = g
    BY <1>1 DEF OwnerInv
  <2>1. CASE g = h
    BY <1>1, <2>1 DEF TypeOK
  <2>2. CASE g # h
    <3>1. Inside(g) /\ owner[rcm[g]] = g /\ rcm[g] \in Locks
      BY <1>2, <2>2 DEF OwnerInv, RefersInv, Engaged, Inside
    <3>2. rcm[g] # rcm[h]
      BY <3>1, <1>1, OrderAssumption
    <3>. QED
      BY <3>1, <3>2, <1>1 DEF TypeOK
  <2>. QED
    BY <2>1, <2>2
<1>5. CountInv'
  BY <1>1, UsersKept DEF CountInv
<1>. QED
  BY <1>3, <1>4, <1>5

(* UnlockOrder finds the mutex its caller took. *)
LEMMA LockInvUnlockMutex ==
  ASSUME LockInv, TypeOK', NEW h \in Handlers, UnlockMutex(h)
  PROVE  LockInv'
<1>. USE DEF LockInv
<1>1. /\ pc[h] = "unlock" /\ Locking(role[h]) /\ Engaged(h)
      /\ rcm[h] \in Locks /\ rcm[h] = entry[node[h]] /\ Inside(h)
  BY OrderAssumption DEF UnlockMutex, RefersInv, Engaged, Inside
<1>2. /\ rcm' = rcm /\ pc' = [pc EXCEPT ![h] = "release"]
      /\ role' = role /\ node' = node /\ scenario' = scenario
      /\ entry' = entry /\ refCount' = refCount
      /\ owner' = [owner EXCEPT ![rcm[h]] = NoOne]
  BY <1>1, OrderAssumption DEF UnlockMutex, Goto, TypeOK
<1>3. \A g \in Handlers : /\ Engaged(g)' = Engaged(g)
                          /\ Inside(g)' => Inside(g) /\ g # h
                          /\ g # h => pc'[g] = pc[g]
  BY <1>1, <1>2 DEF TypeOK, Engaged, Inside, Locking
<1>4. RefersInv' /\ EntryInv'
  BY <1>1, <1>2, <1>3 DEF TypeOK, RefersInv, EntryInv, Locking
<1>5. OwnerInv'
  <2>. SUFFICES ASSUME NEW g \in Handlers, Inside(g)'
                PROVE  owner'[rcm[g]] = g
    BY <1>2 DEF OwnerInv
  <2>1. g # h /\ owner[rcm[g]] = g /\ owner[rcm[h]] = h /\ rcm[g] \in Locks
    BY <1>1, <1>3 DEF OwnerInv, RefersInv, Engaged, Inside
  <2>. QED
    BY <2>1, <1>1, <1>2 DEF TypeOK
<1>6. CountInv'
  BY <1>2, UsersKept DEF CountInv
<1>. QED
  BY <1>4, <1>5, <1>6

(* The mutex leaves the map with its last user. *)
LEMMA LockInvReleaseOrder ==
  ASSUME LockInv, TypeOK', NEW h \in Handlers, ReleaseOrder(h)
  PROVE  LockInv'
<1>. USE DEF LockInv
<1>a. PICK l \in Locks : l = rcm[h] /\ l = entry[node[h]]
  BY OrderAssumption DEF ReleaseOrder, RefersInv, Engaged
<1>b. PICK n \in Nodes : n = node[h]
  BY DEF TypeOK
<1>1. /\ pc[h] = "release" /\ Locking(role[h]) /\ Engaged(h)
      /\ pc' = [pc EXCEPT ![h] = "idle"] /\ role' = [role EXCEPT ![h] = "none"]
      /\ node' = node /\ scenario' = scenario /\ owner' = owner
      /\ rcm' = [rcm EXCEPT ![h] = NoLock] /\ l # NoLock
  BY <1>a, OrderAssumption DEF ReleaseOrder, RefersInv, Engaged, Goto, TypeOK
<1>2. /\ refCount' = [refCount EXCEPT ![l] = refCount[l] - 1]
      /\ entry' = IF refCount[l] = 1 THEN [entry EXCEPT ![n] = NoLock]
                  ELSE entry
  BY <1>a, <1>b DEF ReleaseOrder, TypeOK
<1>3. /\ Cardinality(Users(l)') = Cardinality(Users(l)) - 1
      /\ Cardinality(Users(l)) = 1 => Users(l) = {h}
      /\ \A k : k # NoLock /\ k # l => Users(k)' = Users(k)
  BY <1>1, <1>a, UserRemoved DEF TypeOK
<1>4. refCount[l] = Cardinality(Users(l))
  BY <1>a, <1>b DEF CountInv
<1>5. \A g \in Handlers : g # h =>
        /\ Engaged(g)' = Engaged(g) /\ Inside(g)' = Inside(g)
        /\ rcm'[g] = rcm[g] /\ pc'[g] = pc[g] /\ role'[g] = role[g]
  BY <1>1 DEF TypeOK, Engaged, Inside, Locking
<1>6. ~Engaged(h)' /\ ~Inside(h)' /\ rcm'[h] = NoLock /\ pc'[h] = "idle"
  BY <1>1 DEF TypeOK, Engaged, Inside
<1>7. \A g \in Handlers : g # h /\ rcm[g] # NoLock => rcm[g] = entry'[node[g]]
  <2>. SUFFICES ASSUME NEW g \in Handlers, g # h, rcm[g] # NoLock
                PROVE  rcm[g] = entry'[node[g]]
    OBVIOUS
  <2>1. rcm[g] = entry[node[g]] /\ node[g] \in Nodes
    BY DEF RefersInv, TypeOK
  <2>2. CASE refCount[l] # 1
    BY <2>1, <2>2, <1>2
  <2>3. CASE refCount[l] = 1
    <3>1. Users(l) = {h}
      BY <2>3, <1>3, <1>4
    <3>2. rcm[g] # l
      BY <3>1 DEF Users
    <3>3. node[g] # n
      BY <3>2, <2>1, <1>a, <1>b
    <3>. QED
      BY <3>3, <2>1, <2>3, <1>2 DEF TypeOK
  <2>. QED
    BY <2>2, <2>3
<1>8. RefersInv'
  BY <1>1, <1>5, <1>6, <1>7 DEF TypeOK, RefersInv, Locking
<1>9. \A m \in Nodes : entry'[m] = entry[m] \/ entry'[m] = NoLock
  BY <1>2 DEF TypeOK
<1>10. EntryInv'
  BY <1>9 DEF TypeOK, EntryInv
<1>11. OwnerInv'
  BY <1>1, <1>5, <1>6 DEF OwnerInv
<1>12. CountInv'
  <2>. SUFFICES ASSUME NEW m \in Nodes, NEW k \in Locks, entry'[m] = k
                PROVE  refCount'[k] = Cardinality(Users(k)')
    BY DEF CountInv
  <2>1. entry[m] = k
    BY <1>9, OrderAssumption
  <2>2. refCount[k] = Cardinality(Users(k))
    BY <2>1 DEF CountInv
  <2>3. CASE k = l
    <3>1. Users(k)' = Users(l)'
      BY <2>3 DEF Users
    <3>. QED
      BY <2>2, <2>3, <3>1, <1>2, <1>3 DEF TypeOK
  <2>4. CASE k # l
    <3>1. Users(k)' = Users(k)
      BY <2>4, <1>3, OrderAssumption
    <3>. QED
      BY <2>2, <2>4, <3>1, <1>2 DEF TypeOK
  <2>. QED
    BY <2>3, <2>4
<1>. QED
  BY <1>8, <1>10, <1>11, <1>12

(* A process that stops takes its handlers and its mutexes with it.          *)
LEMMA LockInvCrash ==
  ASSUME LockInv, TypeOK', NEW n \in Nodes, Crash(n)
  PROVE  LockInv'
<1>. USE DEF LockInv
<1>1. /\ node' = node /\ scenario' = scenario
      /\ entry' = [entry EXCEPT ![n] = NoLock]
      /\ \A l \in Locks : l # entry[n] => refCount'[l] = refCount[l]
                                        /\ owner'[l] = owner[l]
  BY DEF Crash, TypeOK
<1>2. \A h \in Handlers : node[h] = n =>
        pc'[h] = "idle" /\ rcm'[h] = NoLock /\ ~Engaged(h)' /\ ~Inside(h)'
  BY DEF Crash, Engaged, Inside
<1>3. \A h \in Handlers : node[h] # n =>
        /\ pc'[h] = pc[h] /\ rcm'[h] = rcm[h] /\ role'[h] = role[h]
        /\ Engaged(h)' = Engaged(h) /\ Inside(h)' = Inside(h)
  BY DEF Crash, Engaged, Inside, Locking
<1>4. \A h \in Handlers : node[h] # n => entry'[node[h]] = entry[node[h]]
  BY <1>1 DEF TypeOK
<1>5. RefersInv'
  BY <1>1, <1>2, <1>3, <1>4 DEF RefersInv, Locking
<1>6. EntryInv'
  BY <1>1 DEF TypeOK, EntryInv
<1>7. \A h \in Handlers : node[h] # n /\ rcm[h] # NoLock => rcm[h] # entry[n]
  BY DEF TypeOK, RefersInv, EntryInv
<1>8. OwnerInv'
  <2>. SUFFICES ASSUME NEW h \in Handlers, Inside(h)'
                PROVE  owner'[rcm'[h]] = h
    BY DEF OwnerInv
  <2>1. node[h] # n /\ Inside(h) /\ rcm'[h] = rcm[h]
    BY <1>2, <1>3
  <2>2. owner[rcm[h]] = h /\ rcm[h] \in Locks
    BY <2>1 DEF OwnerInv, RefersInv, Engaged, Inside
  <2>. QED
    BY <2>1, <2>2, <1>1, <1>7, OrderAssumption
<1>9. CountInv'
  <2>. SUFFICES ASSUME NEW m \in Nodes, NEW k \in Locks, entry'[m] = k
                PROVE  refCount'[k] = Cardinality(Users(k)')
    BY DEF CountInv
  <2>1. m # n /\ entry[m] = k /\ k # NoLock
    BY <1>1, OrderAssumption DEF TypeOK
  <2>2. k # entry[n]
    BY <2>1 DEF EntryInv
  <2>3. \A h \in Handlers : rcm'[h] = k <=> rcm[h] = k
    <3>. SUFFICES ASSUME NEW h \in Handlers PROVE rcm'[h] = k <=> rcm[h] = k
      OBVIOUS
    <3>1. CASE node[h] = n
      BY <3>1, <2>1, <2>2, <1>2 DEF RefersInv
    <3>2. CASE node[h] # n
      BY <3>2, <1>3
    <3>. QED
      BY <3>1, <3>2
  <2>4. Users(k)' = Users(k)
    BY <2>3 DEF Users
  <2>. QED
    BY <2>1, <2>2, <2>4, <1>1 DEF CountInv
<1>. QED
  BY <1>5, <1>6, <1>8, <1>9

LEMMA LockInvNext == LockInv /\ [Next]_vars => LockInv'
<1>. SUFFICES ASSUME LockInv, [Next]_vars PROVE LockInv'
  OBVIOUS
<1>t. TypeOK'
  BY TypeOKNext DEF LockInv
<1>1. ASSUME NEW h \in Handlers, NEW k \in Roles, Deliver(h, k) PROVE LockInv'
  <2>1. /\ mutex' = mutex /\ rcm' = rcm /\ node' = node /\ scenario' = scenario
        /\ pc[h] = "idle" /\ role' = [role EXCEPT ![h] = k]
        /\ pc' = [pc EXCEPT ![h] = IF Locking(k) THEN "lock" ELSE "read"]
    BY <1>1 DEF Deliver, Goto
  <2>2. \A g \in Handlers :
          /\ Engaged(g)' = Engaged(g)
          /\ Inside(g)' => Inside(g)
          /\ pc'[g] \in {"lock", "wait", "save", "credit", "unlock", "release"} => Locking(role[g])'
    BY <2>1 DEF LockInv, TypeOK, RefersInv, Engaged, Inside, Locking
  <2>. QED
    BY <1>t, <2>1, <2>2, LockUntouched
<1>2. ASSUME NEW h \in Handlers, LockOrder(h) PROVE LockInv'
  BY <1>2, <1>t, LockInvLockOrder
<1>3. ASSUME NEW h \in Handlers, LockMutex(h) PROVE LockInv'
  BY <1>3, <1>t, LockInvLockMutex
<1>4. ASSUME NEW h \in Handlers, UnlockMutex(h) PROVE LockInv'
  BY <1>4, <1>t, LockInvUnlockMutex
<1>5. ASSUME NEW h \in Handlers, ReleaseOrder(h) PROVE LockInv'
  BY <1>5, <1>t, LockInvReleaseOrder
<1>6. ASSUME NEW h \in Handlers, ReadOrder(h) PROVE LockInv'
  BY <1>6, <1>t, LockUntouchedBy DEF ReadOrder, Goto, Locking
<1>7. ASSUME NEW h \in Handlers, CompleteOrder(h) PROVE LockInv'
  BY <1>7, <1>t, LockUntouchedBy DEF CompleteOrder
<1>8. ASSUME NEW h \in Handlers, EpaySave(h) PROVE LockInv'
  <2>1. Locking(role[h])
    BY <1>8 DEF EpaySave, LockInv, RefersInv
  <2>. QED
    BY <1>8, <1>t, <2>1, LockUntouchedBy DEF EpaySave
<1>9. ASSUME NEW h \in Handlers, EpayCredit(h) PROVE LockInv'
  BY <1>9, <1>t, LockUntouchedBy DEF EpayCredit
<1>10. ASSUME NEW n \in Nodes, Crash(n) PROVE LockInv'
  BY <1>10, <1>t, LockInvCrash
<1>11. CASE PaymentDecided \/ UNCHANGED vars
  BY <1>11, <1>t, LockUntouched DEF PaymentDecided, vars, LockInv, RefersInv,
     Engaged, Inside, Locking
<1>. QED
  BY <1>1, <1>2, <1>3, <1>4, <1>5, <1>6, <1>7, <1>8, <1>9, <1>10, <1>11
     DEF Next, Step

(* Every reachable state is well typed, refCount never negative.             *)
THEOREM OrderTypeCorrect == Spec => []TypeOK
<1>1. LockInv => TypeOK
  BY DEF LockInv
<1>. QED
  BY LockInvInit, LockInvNext, <1>1, PTL DEF Spec

LEMMA LockInvExcludes == LockInv => LockIsExclusive
<1>. SUFFICES ASSUME LockInv, NEW g \in Handlers, NEW h \in Handlers,
                     Inside(g), Inside(h), node[g] = node[h]
              PROVE  g = h
  BY DEF LockIsExclusive
<1>1. rcm[g] \in Locks /\ rcm[h] \in Locks
  BY DEF LockInv, RefersInv, Engaged, Inside
<1>2. rcm[g] = rcm[h]
  BY <1>1, OrderAssumption DEF LockInv, RefersInv
<1>. QED
  BY <1>2 DEF LockInv, OwnerInv

(* LockOrder excludes for any number of requests, processes and mutexes.     *)
THEOREM OrderLockExclusive == Spec => []LockIsExclusive
BY LockInvInit, LockInvNext, LockInvExcludes, PTL DEF Spec
-----------------------------------------------------------------------------
(* One process implements OrderOnce. *)

(* Every request of the scenario takes the lock. *)
AllLock(s) ==
  /\ "redeem" \notin s.roles
  /\ s.provider = "waffo" => "failed" \notin s.roles

(* What keeps an order: the lock, or a database that serializes; and Epay's  *)
(* two accesses both succeed.                                                *)
Guarded(s) ==
  /\ AllLock(s) \/ s.serial
  /\ s.provider = "epay" => AllLock(s) /\ s.faults = {}

OneGuardedProcess ==
  /\ \A m, n \in Nodes : m = n
  /\ \A s \in Scenarios : Guarded(s)

(* What a handler has read of the order still holds when it acts on it.      *)
OrderInv ==
  /\ \A h \in Handlers :
        /\ pc[h] # "idle" => role[h] \in scenario.roles
        /\ pc[h] \in {"save", "credit"} => scenario.provider = "epay"
        /\ pc[h] = "credit" => status = "success"
  /\ AllLock(scenario) =>
        \A h \in Handlers : pc[h] \in {"save", "write"} => status = "pending"

LEMMA OrderInvInit == Init => OrderInv
BY DEF Init, OrderInv

(* While a handler works on an order that every request locks, the others    *)
(* are elsewhere.                                                            *)
LEMMA WorksAlone ==
  ASSUME LockInv, OrderInv, OneGuardedProcess, AllLock(scenario),
         NEW h \in Handlers, pc[h] \in {"read", "save", "write", "credit"},
         NEW g \in Handlers, g # h
  PROVE  pc[g] \notin {"read", "save", "write", "credit"}
<1>1. node[g] = node[h]
  BY DEF OneGuardedProcess, LockInv, TypeOK
<1>2. Inside(h)
  BY DEF Inside, Locking, OrderInv, AllLock
<1>3. ~Inside(g)
  BY <1>1, <1>2, LockInvExcludes DEF LockIsExclusive
<1>. QED
  BY <1>3 DEF Inside, Locking, OrderInv, AllLock

(* Epay's two accesses happen under the lock and do not fail.                *)
LEMMA EpayAlone ==
  ASSUME LockInv, OrderInv, OneGuardedProcess, NEW h \in Handlers,
         pc[h] \in {"save", "credit"}
  PROVE  AllLock(scenario) /\ scenario.faults = {}
BY DEF LockInv, TypeOK, OrderInv, OneGuardedProcess, Guarded

LEMMA OrderInvNext ==
  LockInv /\ OrderInv /\ OneGuardedProcess /\ [Next]_vars => OrderInv'
<1>. SUFFICES ASSUME LockInv, OrderInv, OneGuardedProcess, [Next]_vars
              PROVE  OrderInv'
  OBVIOUS
<1>t. TypeOK /\ TypeOK'
  BY TypeOKNext DEF LockInv
<1>. USE DEF TypeOK, order, mutex, Goto
<1>1. ASSUME NEW h \in Handlers, NEW k \in Roles, Deliver(h, k) PROVE OrderInv'
  BY <1>1, <1>t DEF Deliver, Occurs, OrderInv, AllLock
<1>2. ASSUME NEW h \in Handlers, LockOrder(h) PROVE OrderInv'
  BY <1>2, <1>t DEF LockOrder, OrderInv, AllLock
<1>3. ASSUME NEW h \in Handlers, LockMutex(h) PROVE OrderInv'
  BY <1>3, <1>t DEF LockMutex, OrderInv, AllLock
<1>4. ASSUME NEW h \in Handlers, UnlockMutex(h) PROVE OrderInv'
  BY <1>4, <1>t DEF UnlockMutex, OrderInv, AllLock
<1>5. ASSUME NEW h \in Handlers, ReleaseOrder(h) PROVE OrderInv'
  BY <1>5, <1>t DEF ReleaseOrder, OrderInv, AllLock
<1>6. ASSUME NEW h \in Handlers, ReadOrder(h) PROVE OrderInv'
  BY <1>6, <1>t DEF ReadOrder, Leave, OrderInv, AllLock
<1>7. ASSUME NEW h \in Handlers, CompleteOrder(h) PROVE OrderInv'
  <2>1. /\ pc[h] = "write" /\ pc'[h] \in {"unlock", "idle"}
        /\ \A g \in Handlers : g # h => pc'[g] = pc[g]
        /\ role' = role /\ scenario' = scenario
    BY <1>7, <1>t DEF CompleteOrder, Leave
  <2>2. \A g \in Handlers : pc'[g] = "credit" => pc[g] = "credit" /\ g # h
    BY <2>1
  <2>3. \A g \in Handlers : pc[g] # "credit"
    <3>. SUFFICES ASSUME NEW g \in Handlers, pc[g] = "credit" PROVE FALSE
      OBVIOUS
    <3>1. g # h /\ AllLock(scenario)
      BY <2>1, EpayAlone
    <3>. QED
      BY <3>1, <2>1, WorksAlone
  <2>4. AllLock(scenario) =>
          \A g \in Handlers : pc'[g] \notin {"save", "write"}
    BY <2>1, WorksAlone
  <2>. QED
    BY <2>1, <2>2, <2>3, <2>4 DEF OrderInv, AllLock
<1>8. ASSUME NEW h \in Handlers, EpaySave(h) PROVE OrderInv'
  <2>1. /\ pc[h] = "save"
        /\ \A g \in Handlers : g # h => pc'[g] = pc[g]
        /\ role' = role /\ scenario' = scenario
    BY <1>8, <1>t DEF EpaySave, Leave
  <2>2. AllLock(scenario) /\ scenario.faults = {}
    BY <2>1, EpayAlone
  <2>3. status' = "success" /\ pc'[h] = "credit"
    BY <1>8, <1>t, <2>2 DEF EpaySave, StoreError
  <2>4. \A g \in Handlers : g # h => pc'[g] \notin {"save", "write", "credit"}
    BY <2>1, <2>2, WorksAlone
  <2>. QED
    BY <2>1, <2>3, <2>4 DEF OrderInv, AllLock
<1>9. ASSUME NEW h \in Handlers, EpayCredit(h) PROVE OrderInv'
  BY <1>9, <1>t DEF EpayCredit, Leave, OrderInv, AllLock
<1>10. ASSUME NEW n \in Nodes, Crash(n) PROVE OrderInv'
  BY <1>10, <1>t DEF Crash, OrderInv, AllLock
<1>11. CASE PaymentDecided \/ UNCHANGED vars
  BY <1>11 DEF PaymentDecided, vars, OrderInv, AllLock
<1>. QED
  BY <1>1, <1>2, <1>3, <1>4, <1>5, <1>6, <1>7, <1>8, <1>9, <1>10, <1>11
     DEF Next, Step

(* A step that leaves the order alone and takes no handler into or out of    *)
(* the two accesses of Epay is a stuttering step of OrderOnce.               *)
LEMMA OrderStutters ==
  ASSUME order' = order,
         \A h \in Handlers : pc'[h] = "credit" <=> pc[h] = "credit"
  PROVE  UNCHANGED Once!vars
BY DEF Once!vars, SettledStatus, order

LEMMA OrderStep ==
  LockInv /\ OrderInv /\ OneGuardedProcess /\ [Next]_vars => [Once!Next]_(Once!vars)
<1>. SUFFICES ASSUME LockInv, OrderInv, OneGuardedProcess, [Next]_vars
              PROVE  Once!Next \/ UNCHANGED Once!vars
  OBVIOUS
<1>. USE DEF order, mutex, Goto
<1>t. TypeOK
  BY DEF LockInv
<1>1. ASSUME NEW h \in Handlers,
             \/ \E k \in Roles : Deliver(h, k)
             \/ LockOrder(h) \/ LockMutex(h) \/ UnlockMutex(h)
             \/ ReleaseOrder(h) \/ ReadOrder(h)
      PROVE  UNCHANGED Once!vars
  <2>1. order' = order
    BY <1>1 DEF Deliver, LockOrder, LockMutex, UnlockMutex, ReleaseOrder, ReadOrder
  <2>2. \A g \in Handlers : pc'[g] = "credit" <=> pc[g] = "credit"
    BY <1>1, <1>t DEF TypeOK, Deliver, LockOrder, LockMutex, UnlockMutex,
       ReleaseOrder, ReadOrder, Leave
  <2>. QED
    BY <2>1, <2>2, OrderStutters
<1>2. ASSUME NEW h \in Handlers, CompleteOrder(h)
      PROVE  Once!Next \/ UNCHANGED Once!vars
  <2>1. /\ pc[h] = "write" /\ pc'[h] \in {"unlock", "idle"}
        /\ \A g \in Handlers : g # h => pc'[g] = pc[g]
    BY <1>2, <1>t DEF CompleteOrder, Leave, TypeOK
  <2>2. \A g \in Handlers : pc[g] # "credit"
    <3>. SUFFICES ASSUME NEW g \in Handlers, pc[g] = "credit" PROVE FALSE
      OBVIOUS
    <3>1. g # h /\ AllLock(scenario)
      BY <2>1, EpayAlone
    <3>. QED
      BY <3>1, <2>1, WorksAlone
  <2>3. \A g \in Handlers : pc'[g] # "credit"
    BY <2>1, <2>2
  <2>4. SettledStatus = status /\ SettledStatus' = status'
    BY <2>2, <2>3 DEF SettledStatus
  <2>5. CASE order' = order
    BY <2>4, <2>5 DEF Once!vars
  <2>6. CASE order' # order
    <3>1. Guarded(scenario)
      BY <1>t DEF TypeOK, OneGuardedProcess
    <3>2. status = "pending"
      BY <3>1, <2>6, <2>1, <1>2 DEF CompleteOrder, Guarded, OrderInv
    <3>3. /\ status' = Target(h)
          /\ credits' = IF Target(h) = "success" THEN credits + 1 ELSE credits
      BY <2>6, <1>2 DEF CompleteOrder
    <3>4. CASE Target(h) = "success"
      BY <3>2, <3>3, <3>4, <2>4 DEF Once!Next, Once!Complete
    <3>5. CASE Target(h) \in {"failed", "expired"}
      BY <3>2, <3>3, <3>5, <2>4 DEF Once!Next, Once!Close
    <3>6. Target(h) \in {"success", "failed", "expired"}
      BY DEF Target
    <3>. QED
      BY <3>4, <3>5, <3>6
  <2>. QED
    BY <2>5, <2>6
<1>3. ASSUME NEW h \in Handlers, EpaySave(h)
      PROVE  UNCHANGED Once!vars
  <2>1. pc[h] = "save" /\ AllLock(scenario) /\ scenario.faults = {}
    BY <1>3, EpayAlone DEF EpaySave
  <2>2. status = "pending" /\ pc'[h] = "credit" /\ credits' = credits
    BY <1>3, <1>t, <2>1 DEF EpaySave, StoreError, OrderInv, TypeOK
  <2>3. SettledStatus = "pending" /\ SettledStatus' = "pending"
    BY <2>2 DEF SettledStatus
  <2>. QED
    BY <2>2, <2>3 DEF Once!vars
<1>4. ASSUME NEW h \in Handlers, EpayCredit(h)
      PROVE  Once!Next
  <2>1. pc[h] = "credit" /\ AllLock(scenario) /\ scenario.faults = {}
    BY <1>4, EpayAlone DEF EpayCredit
  <2>2. /\ status = "success" /\ status' = status /\ credits' = credits + 1
        /\ pc'[h] \in {"unlock", "idle"}
        /\ \A g \in Handlers : g # h => pc'[g] = pc[g]
    BY <1>4, <1>t, <2>1 DEF EpayCredit, StoreError, OrderInv, Leave, TypeOK
  <2>3. \A g \in Handlers : pc'[g] # "credit"
    BY <2>1, <2>2, WorksAlone
  <2>4. SettledStatus = "pending" /\ SettledStatus' = "success"
    BY <2>1, <2>2, <2>3 DEF SettledStatus
  <2>. QED
    BY <2>2, <2>4 DEF Once!Next, Once!Complete
<1>5. ASSUME NEW n \in Nodes, Crash(n) PROVE UNCHANGED Once!vars
  <2>1. order' = order /\ "crash" \in scenario.faults
    BY <1>5 DEF Crash
  <2>2. \A g \in Handlers : pc[g] # "credit"
    BY <2>1, EpayAlone
  <2>3. \A g \in Handlers : pc'[g] # "credit"
    BY <1>5, <2>2 DEF Crash
  <2>. QED
    BY <2>1, <2>2, <2>3, OrderStutters
<1>6. CASE PaymentDecided \/ UNCHANGED vars
  BY <1>6, OrderStutters DEF PaymentDecided, vars
<1>. QED
  BY <1>1, <1>2, <1>3, <1>4, <1>5, <1>6 DEF Next, Step

(* In one process whose requests take the lock, or whose database            *)
(* serializes, every order is completed with exactly one credit or closed    *)
(* without any, for ever.                                                    *)
THEOREM OrderRefinesOnce ==
  ASSUME OneGuardedProcess
  PROVE  Spec => ImplementsOnce
<1>1. Init => Once!Init
  BY DEF Init, Once!Init, SettledStatus
<1>2. LockInv /\ OrderInv /\ [Next]_vars => OrderInv'
  BY OrderInvNext
<1>3. LockInv /\ OrderInv /\ [Next]_vars => [Once!Next]_(Once!vars)
  BY OrderStep
<1>. QED
  BY <1>1, <1>2, <1>3, LockInvInit, LockInvNext, OrderInvInit, PTL
     DEF Spec, ImplementsOnce, Once!Spec
=============================================================================
