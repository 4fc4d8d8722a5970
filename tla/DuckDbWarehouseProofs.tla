------------------------ MODULE DuckDbWarehouseProofs ------------------------
(***************************************************************************)
(* Proofs about DuckDbWarehouse, for any number of queries, instances and  *)
(* versions: the inductive invariant IInv, and from it that a query runs   *)
(* on a file at least as new as the one it found, and that a root recorded *)
(* as current is current.                                                  *)
(***************************************************************************)
EXTENDS DuckDbWarehouse, TLAPS

(* Init establishes the invariant.                                         *)
LEMMA InitInv == Init => IInv
BY WarehouseAssumption DEF Init, IInv, TypeOK, OnlyRootOpen, NewerThanStamp, Step

(* A new instance is not the root and nobody's.                            *)
LEMMA NewIsNobodys ==
  ASSUME OnlyRootOpen, NEW i \in Instance, New(i)
  PROVE  i # root /\ i \notin open /\ \A q \in Query : on[q] # i
BY WarehouseAssumption DEF OnlyRootOpen, New, Alive

(* Attaching a new instance touches neither the root nor other queries.    *)
LEMMA AttachInv ==
  ASSUME IInv, NEW q \in Query, Attach(q)
  PROVE  IInv'
<1> PICK i \in Instance :
      /\ New(i)
      /\ version' = [version EXCEPT ![i] = file]
      /\ open' = open \cup {i}
      /\ on' = [on EXCEPT ![q] = i]
  BY DEF Attach
<1> USE WarehouseAssumption DEF IInv, Attach, Goes
<1>1. i # root /\ i # None /\ i \notin open /\ \A x \in Query : on[x] # i
  BY NewIsNobodys
<1>2. TypeOK'
  BY DEF TypeOK, Step
<1>3. OnlyRootOpen'
  <2>1. root' # None => root' \in open'
    BY DEF OnlyRootOpen
  <2>2. ASSUME NEW c \in open', c # root'
        PROVE  \E x \in Query : pc'[x] = "install" /\ on'[x] = c
    BY <2>2 DEF OnlyRootOpen, GateFree, TypeOK
  <2>3. ASSUME NEW x \in Query
        PROVE  /\ pc'[x] \in {"install", "duplicate", "query"} <=> on'[x] # None
               /\ pc'[x] = "install" => on'[x] # root' /\ on'[x] \in open'
    <3>1. CASE x = q
      BY <1>1, <3>1 DEF TypeOK
    <3>2. CASE x # q
      BY <3>2 DEF OnlyRootOpen, TypeOK
    <3> QED
      BY <3>1, <3>2
  <2>4. \A x, y \in Query : pc'[x] = "install" /\ pc'[y] = "install" => x = y
    BY DEF GateFree, TypeOK
  <2> QED
    BY <2>1, <2>2, <2>3, <2>4 DEF OnlyRootOpen
<1>4. NewerThanStamp'
  <2>1. \A c \in Instance : version'[c] <= file'
    BY DEF NewerThanStamp, TypeOK
  <2>2. /\ root' = None => stamp' = 0
        /\ root' # None => stamp' <= version'[root']
    BY <1>1 DEF NewerThanStamp, TypeOK
  <2>3. ASSUME NEW x \in Query
        PROVE  /\ seen'[x] <= file'
               /\ pc'[x] # "idle" => seen'[x] # 0
               /\ on'[x] # None => seen'[x] <= version'[on'[x]]
    <3>1. CASE x = q
      BY <3>1 DEF NewerThanStamp, TypeOK
    <3>2. CASE x # q
      <4>1. on'[x] = on[x] /\ on[x] # i /\ pc'[x] = pc[x]
        BY <1>1, <3>2 DEF TypeOK
      <4>2. on[x] # None => version'[on[x]] = version[on[x]]
        BY <4>1 DEF TypeOK
      <4> QED
        BY <4>1, <4>2 DEF NewerThanStamp
    <3> QED
      BY <3>1, <3>2
  <2> QED
    BY <2>1, <2>2, <2>3 DEF NewerThanStamp
<1> QED
  BY <1>2, <1>3, <1>4

(* The replacement of the root, by the only query inside the gate.         *)
LEMMA ReplaceRootInv ==
  ASSUME IInv, NEW q \in Query, ReplaceRoot(q)
  PROVE  IInv'
<1> USE WarehouseAssumption DEF IInv, ReplaceRoot, Goes, StampOf
<1>1. on[q] \in Instance /\ on[q] # root /\ on[q] \in open /\ seen[q] <= version[on[q]]
  BY DEF OnlyRootOpen, NewerThanStamp, TypeOK
<1>2. TypeOK'
  BY <1>1 DEF TypeOK, Step
<1>3. OnlyRootOpen'
  <2>1. root' # None => root' \in open'
    BY <1>1
  <2>2. ASSUME NEW c \in open', c # root'
        PROVE  \E x \in Query : pc'[x] = "install" /\ on'[x] = c
    BY <2>2 DEF OnlyRootOpen
  <2>3. ASSUME NEW x \in Query
        PROVE  /\ pc'[x] \in {"install", "duplicate", "query"} <=> on'[x] # None
               /\ pc'[x] = "install" => on'[x] # root' /\ on'[x] \in open'
    BY DEF OnlyRootOpen, TypeOK
  <2>4. \A x, y \in Query : pc'[x] = "install" /\ pc'[y] = "install" => x = y
    BY DEF OnlyRootOpen, TypeOK
  <2> QED
    BY <2>1, <2>2, <2>3, <2>4 DEF OnlyRootOpen
<1>4. NewerThanStamp'
  BY <1>1 DEF NewerThanStamp, TypeOK
<1> QED
  BY <1>2, <1>3, <1>4

(* The other steps of a query move it on or drop what it was given.        *)
LEMMA OtherQueryInv ==
  ASSUME IInv, NEW q \in Query,
         \/ TakeStamp(q) \/ UseRoot(q) \/ AttachFails(q)
         \/ Duplicate(q) \/ RootIsGone(q) \/ Finish(q)
  PROVE  IInv'
<1> USE WarehouseAssumption
    DEF IInv, TakeStamp, UseRoot, AttachFails, Duplicate, RootIsGone, Finish, Goes, Current
<1>1. TypeOK'
  BY DEF TypeOK, Step
<1>2. OnlyRootOpen'
  BY DEF OnlyRootOpen, TypeOK
<1>3. NewerThanStamp'
  BY DEF NewerThanStamp, OnlyRootOpen, TypeOK
<1> QED
  BY <1>1, <1>2, <1>3

(* A build's swap only makes the file newer.                               *)
LEMMA SwapInv == IInv /\ Swap => IInv'
<1> SUFFICES ASSUME IInv, Swap PROVE IInv'
  OBVIOUS
<1> USE WarehouseAssumption DEF IInv, Swap
<1>1. TypeOK' /\ OnlyRootOpen'
  BY DEF TypeOK, OnlyRootOpen
<1>2. NewerThanStamp'
  BY DEF NewerThanStamp, TypeOK
<1> QED
  BY <1>1, <1>2

(* Every step keeps the invariant.                                         *)
LEMMA NextInv == IInv /\ [Next]_vars => IInv'
<1> SUFFICES ASSUME IInv, [Next]_vars PROVE IInv'
  OBVIOUS
<1>1. CASE Swap
  BY <1>1, SwapInv
<1>2. CASE \E q \in Query : \/ TakeStamp(q) \/ UseRoot(q) \/ Attach(q) \/ AttachFails(q)
                            \/ ReplaceRoot(q) \/ Duplicate(q) \/ RootIsGone(q) \/ Finish(q)
  BY <1>2, AttachInv, ReplaceRootInv, OtherQueryInv
<1>3. CASE UNCHANGED vars
  BY <1>3 DEF vars, IInv, TypeOK, OnlyRootOpen, NewerThanStamp
<1> QED
  BY <1>1, <1>2, <1>3 DEF Next

-----------------------------------------------------------------------------

(* The inductive invariant of OpenAsync.                                   *)
THEOREM InvariantHolds == Spec => []IInv
BY InitInv, NextInv, PTL DEF Spec

(* A query runs on the file it found on disk or a newer one.               *)
THEOREM QueriesSeeLatest == Spec => []QuerySeesLatest
<1>1. IInv => QuerySeesLatest
  BY DEF IInv, TypeOK, OnlyRootOpen, NewerThanStamp, QuerySeesLatest
<1> QED
  BY <1>1, InvariantHolds, PTL

(* A root whose stamp is the file's has that file attached.                *)
THEOREM StampedIsOpen == Spec => []CurrentIsCurrent
<1>1. IInv => CurrentIsCurrent
  BY DEF IInv, TypeOK, NewerThanStamp, CurrentIsCurrent
<1> QED
  BY <1>1, InvariantHolds, PTL
=============================================================================
