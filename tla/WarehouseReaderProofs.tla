------------------------ MODULE WarehouseReaderProofs ------------------------
(***************************************************************************)
(* Proofs about WarehouseReader, for any number of reloaders, queries,     *)
(* databases and versions: the inductive invariant IInv, and from it that  *)
(* no query runs on a closed database, that a database recorded as current *)
(* is current, and that no database is leaked.                             *)
(***************************************************************************)
EXTENDS WarehouseReader, TLAPS

(* Init establishes the invariant.                                         *)
LEMMA InitInv == Init => IInv
BY ReaderAssumption
   DEF Init, IInv, TypeOK, Owners, NewerThanSeen, QueriesUseCurrent, Step

(* The steps of Reload that only read: nothing but pc changes, and not to  *)
(* a step that needs a database.                                           *)
LEMMA ComparesInv ==
  ASSUME IInv, NEW r \in Reloader, Compare(r)
  PROVE  IInv'
<1> USE DEF Compare, Goes, IInv
<1>1. TypeOK'
  BY DEF TypeOK, Step
<1>2. Owners'
  BY DEF Owners, TypeOK
<1>3. NewerThanSeen'
  BY DEF NewerThanSeen, Owners, TypeOK
<1>4. QueriesUseCurrent'
  BY DEF QueriesUseCurrent
<1> QED
  BY <1>1, <1>2, <1>3, <1>4

(* An open database is opened for one reloader alone.                      *)
LEMMA OpenInv ==
  ASSUME IInv, NEW r \in Reloader, Open(r)
  PROVE  IInv'
<1> PICK d \in Database :
      /\ version[d] = 0
      /\ version' = [version EXCEPT ![d] = file]
      /\ mine' = [mine EXCEPT ![r] = d]
  BY DEF Open
<1> USE ReaderAssumption DEF Open, Goes, IInv
<1>1. TypeOK'
  BY DEF TypeOK, Step
<1>2. file # 0 /\ d # None /\ d # db /\ \A o \in Reloader : mine[o] # d
  BY DEF NewerThanSeen, Owners, TypeOK
<1>3. Owners'
  <2>1. ASSUME NEW o \in Reloader, mine'[o] # None
        PROVE  /\ mine'[o] # db'
               /\ version'[mine'[o]] # 0
               /\ \A x \in Reloader : mine'[x] = mine'[o] => x = o
    BY <1>2, <2>1 DEF Owners, TypeOK
  <2>2. ASSUME NEW c \in Database, version'[c] # 0
        PROVE  c = db' \/ \E o \in Reloader : mine'[o] = c
    <3>1. CASE c = d
      BY <3>1 DEF TypeOK
    <3>2. CASE c # d
      <4>1. version[c] # 0
        BY <2>2, <3>2 DEF TypeOK
      <4>2. c = db \/ \E o \in Reloader : mine[o] = c /\ o # r
        BY <4>1 DEF Owners, TypeOK
      <4> QED
        BY <4>2 DEF TypeOK
    <3> QED
      BY <3>1, <3>2
  <2>3. \A o \in Reloader :
          /\ pc'[o] \in {"idle", "compare", "open"} => mine'[o] = None
          /\ pc'[o] \in {"announce", "lock"} => mine'[o] # None
    BY <1>2 DEF Owners, TypeOK
  <2> QED
    BY <2>1, <2>2, <2>3 DEF Owners
<1>4. NewerThanSeen'
  <2>1. \A c \in Database : version'[c] <= file'
    BY DEF NewerThanSeen, TypeOK
  <2>2. ASSUME NEW o \in Reloader
        PROVE  /\ seen'[o] <= file'
               /\ pc'[o] # "idle" => seen'[o] # 0
               /\ pc'[o] \in {"announce", "lock"} => seen'[o] <= version'[mine'[o]]
    <3>1. CASE o = r
      BY <3>1 DEF NewerThanSeen, TypeOK
    <3>2. CASE o # r
      <4>1. mine'[o] = mine[o] /\ pc'[o] = pc[o]
        BY <3>2 DEF TypeOK
      <4>2. mine[o] # d
        BY <1>2
      <4> QED
        BY <4>1, <4>2 DEF NewerThanSeen, Owners, TypeOK
    <3> QED
      BY <3>1, <3>2
  <2>3. /\ db' = None <=> stat' = 0
        /\ db' # None => version'[db'] # 0 /\ stat' <= version'[db']
    BY <1>2 DEF NewerThanSeen, TypeOK
  <2> QED
    BY <2>1, <2>2, <2>3 DEF NewerThanSeen
<1>5. QueriesUseCurrent'
  BY DEF QueriesUseCurrent
<1> QED
  BY <1>1, <1>3, <1>4, <1>5

(* The swap under the lock: db and the reloader's database change places,  *)
(* when no query uses the old one.                                         *)
LEMMA InstallInv ==
  ASSUME IInv, NEW r \in Reloader, Install(r)
  PROVE  IInv'
<1> USE ReaderAssumption DEF Install, Goes, IInv, StatOf
<1>1. TypeOK'
  BY DEF TypeOK, Step
<1>2. /\ mine[r] \in Database /\ mine[r] # None /\ mine[r] # db
      /\ version[mine[r]] # 0 /\ seen[r] # 0 /\ seen[r] <= version[mine[r]]
  BY DEF Owners, NewerThanSeen, TypeOK
<1>3. Owners'
  <2>1. ASSUME NEW o \in Reloader, mine'[o] # None
        PROVE  /\ mine'[o] # db'
               /\ version'[mine'[o]] # 0
               /\ \A x \in Reloader : mine'[x] = mine'[o] => x = o
    <3>1. CASE o = r
      BY <1>2, <2>1, <3>1 DEF Owners, NewerThanSeen, TypeOK
    <3>2. CASE o # r
      BY <1>2, <2>1, <3>2 DEF Owners, TypeOK
    <3> QED
      BY <3>1, <3>2
  <2>2. ASSUME NEW c \in Database, version'[c] # 0
        PROVE  c = db' \/ \E o \in Reloader : mine'[o] = c
    <3>1. c = db \/ \E o \in Reloader : mine[o] = c
      BY <2>2 DEF Owners
    <3>2. CASE c = db
      BY <3>2 DEF TypeOK
    <3>3. CASE \E o \in Reloader : mine[o] = c
      BY <3>3 DEF TypeOK
    <3> QED
      BY <3>1, <3>2, <3>3
  <2>3. \A o \in Reloader :
          /\ pc'[o] \in {"idle", "compare", "open"} => mine'[o] = None
          /\ pc'[o] \in {"announce", "lock"} => mine'[o] # None
    BY DEF Owners, TypeOK
  <2> QED
    BY <2>1, <2>2, <2>3 DEF Owners
<1>4. NewerThanSeen'
  <2>1. ASSUME NEW o \in Reloader
        PROVE  /\ seen'[o] <= file'
               /\ pc'[o] # "idle" => seen'[o] # 0
               /\ pc'[o] \in {"announce", "lock"} => seen'[o] <= version'[mine'[o]]
    <3>1. CASE o = r
      BY <1>2, <3>1 DEF NewerThanSeen, TypeOK
    <3>2. CASE o # r
      BY <3>2 DEF NewerThanSeen, TypeOK
    <3> QED
      BY <3>1, <3>2
  <2>2. /\ db' = None <=> stat' = 0
        /\ db' # None => version'[db'] # 0 /\ stat' <= version'[db']
    BY <1>2
  <2> QED
    BY <2>1, <2>2 DEF NewerThanSeen
<1>5. QueriesUseCurrent'
  BY DEF QueriesUseCurrent, NoReaders
<1> QED
  BY <1>1, <1>3, <1>4, <1>5

(* The old database is closed when nothing refers to it any more.          *)
LEMMA CloseOldInv ==
  ASSUME IInv, NEW r \in Reloader, CloseOld(r)
  PROVE  IInv'
<1> USE ReaderAssumption DEF CloseOld, Goes, IInv
<1>1. TypeOK'
  BY DEF TypeOK, Step
<1>2. mine[r] # None => mine[r] # db /\ \A o \in Reloader : mine[o] = mine[r] => o = r
  BY DEF Owners
<1>3. Owners'
  <2>1. ASSUME NEW o \in Reloader, mine'[o] # None
        PROVE  /\ mine'[o] # db'
               /\ version'[mine'[o]] # 0
               /\ \A x \in Reloader : mine'[x] = mine'[o] => x = o
    <3>1. o # r /\ mine'[o] = mine[o] /\ mine[o] # mine[r]
      BY <1>2, <2>1 DEF TypeOK
    <3>2. version'[mine[o]] = version[mine[o]]
      BY <2>1, <3>1 DEF TypeOK
    <3>3. \A x \in Reloader : mine'[x] = mine[o] => mine[x] = mine[o]
      BY <2>1, <3>1 DEF TypeOK
    <3> QED
      BY <2>1, <3>1, <3>2, <3>3 DEF Owners
  <2>2. ASSUME NEW c \in Database, version'[c] # 0
        PROVE  c = db' \/ \E o \in Reloader : mine'[o] = c
    <3>1. c # mine[r] /\ version[c] # 0
      BY <2>2 DEF TypeOK
    <3>2. c = db \/ \E o \in Reloader : mine[o] = c
      BY <3>1 DEF Owners
    <3> QED
      BY <3>1, <3>2 DEF TypeOK
  <2>3. \A o \in Reloader :
          /\ pc'[o] \in {"idle", "compare", "open"} => mine'[o] = None
          /\ pc'[o] \in {"announce", "lock"} => mine'[o] # None
    BY DEF Owners, TypeOK
  <2> QED
    BY <2>1, <2>2, <2>3 DEF Owners
<1>4. NewerThanSeen'
  <2>1. \A c \in Database : version'[c] <= file'
    BY DEF NewerThanSeen, TypeOK
  <2>2. ASSUME NEW o \in Reloader
        PROVE  /\ seen'[o] <= file'
               /\ pc'[o] # "idle" => seen'[o] # 0
               /\ pc'[o] \in {"announce", "lock"} => seen'[o] <= version'[mine'[o]]
    <3>1. CASE o = r
      BY <3>1 DEF NewerThanSeen, TypeOK
    <3>2. CASE o # r
      <4>1. mine'[o] = mine[o] /\ pc'[o] = pc[o]
        BY <3>2 DEF TypeOK
      <4>2. pc[o] \in {"announce", "lock"} => mine[o] \in Database /\ mine[o] # mine[r]
        BY <1>2, <3>2 DEF Owners, TypeOK
      <4> QED
        BY <4>1, <4>2 DEF NewerThanSeen, TypeOK
    <3> QED
      BY <3>1, <3>2
  <2>3. /\ db' = None <=> stat' = 0
        /\ db' # None => version'[db'] # 0 /\ stat' <= version'[db']
    BY <1>2 DEF NewerThanSeen, TypeOK
  <2> QED
    BY <2>1, <2>2, <2>3 DEF NewerThanSeen
<1>5. QueriesUseCurrent'
  BY DEF QueriesUseCurrent
<1> QED
  BY <1>1, <1>3, <1>4, <1>5

(* The other steps of a reloader move it on and touch nothing else.        *)
LEMMA OtherReloadInv ==
  ASSUME IInv, NEW r \in Reloader, Stat(r) \/ OpenFails(r) \/ Announce(r)
  PROVE  IInv'
<1> USE DEF Stat, OpenFails, Announce, Goes, IInv
<1>1. TypeOK'
  BY DEF TypeOK, Step
<1>2. Owners'
  BY DEF Owners, TypeOK
<1>3. NewerThanSeen'
  BY DEF NewerThanSeen, TypeOK
<1>4. QueriesUseCurrent'
  BY DEF QueriesUseCurrent
<1> QED
  BY <1>1, <1>2, <1>3, <1>4

(* Builds and queries.                                                     *)
LEMMA SwapInv == IInv /\ Swap => IInv'
<1> SUFFICES ASSUME IInv, Swap PROVE IInv'
  OBVIOUS
<1> USE ReaderAssumption DEF Swap, IInv
<1>1. TypeOK'
  BY DEF TypeOK
<1>2. Owners'
  BY DEF Owners
<1>3. NewerThanSeen'
  BY DEF NewerThanSeen, TypeOK
<1>4. QueriesUseCurrent'
  BY DEF QueriesUseCurrent
<1> QED
  BY <1>1, <1>2, <1>3, <1>4

(* A query that begins or ends keeps the invariant.                        *)
LEMMA QueryInv ==
  ASSUME IInv, NEW q \in Query, Begin(q) \/ Finish(q)
  PROVE  IInv'
<1> USE DEF Begin, Finish, IInv
<1>1. TypeOK'
  BY DEF TypeOK
<1>2. Owners' /\ NewerThanSeen'
  BY DEF Owners, NewerThanSeen
<1>3. QueriesUseCurrent'
  BY DEF QueriesUseCurrent, TypeOK
<1> QED
  BY <1>1, <1>2, <1>3

(* Every step keeps the invariant.                                         *)
LEMMA NextInv == IInv /\ [Next]_vars => IInv'
<1> SUFFICES ASSUME IInv, [Next]_vars PROVE IInv'
  OBVIOUS
<1>1. CASE Swap
  BY <1>1, SwapInv
<1>2. ASSUME NEW r \in Reloader, Stat(r) \/ Reload(r)
      PROVE  IInv'
  BY <1>2, ComparesInv, OpenInv, InstallInv, CloseOldInv, OtherReloadInv DEF Reload
<1>3. ASSUME NEW q \in Query, Begin(q) \/ Finish(q)
      PROVE  IInv'
  BY <1>3, QueryInv
<1>4. CASE UNCHANGED vars
  BY <1>4 DEF vars, IInv, TypeOK, Owners, NewerThanSeen, QueriesUseCurrent
<1> QED
  BY <1>1, <1>2, <1>3, <1>4 DEF Next

-----------------------------------------------------------------------------

(* The inductive invariant of With and Reload.                             *)
THEOREM InvariantHolds == Spec => []IInv
BY InitInv, NextInv, PTL DEF Spec

(* A query never runs on a closed database, although Reload closes the old *)
(* one after it has given the lock back.                                   *)
THEOREM QueriesAreSafe == Spec => []NoQueryOnClosed
<1>1. IInv => NoQueryOnClosed
  BY DEF IInv, QueriesUseCurrent, NewerThanSeen, NoQueryOnClosed
<1> QED
  BY <1>1, InvariantHolds, PTL

(* A recorded file that is the one on disk is the one that is open.        *)
THEOREM RecordedIsOpen == Spec => []CurrentIsCurrent
<1>1. IInv => CurrentIsCurrent
  BY DEF IInv, TypeOK, NewerThanSeen, CurrentIsCurrent
<1> QED
  BY <1>1, InvariantHolds, PTL

(* Between reloads only the current database is open.                      *)
THEOREM NoDatabaseLeaks == Spec => []NothingLeaks
<1>1. IInv => NothingLeaks
  BY ReaderAssumption DEF IInv, Owners, NothingLeaks, TypeOK
<1> QED
  BY <1>1, InvariantHolds, PTL
=============================================================================
