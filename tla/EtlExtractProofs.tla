-------------------------- MODULE EtlExtractProofs --------------------------
(***************************************************************************)
(* Proofs about EtlExtract, for any number of connections, orders and      *)
(* transactions, any clock and any overlap: the inductive invariant IInv,  *)
(* and from it that a run leaves no order out, half of one, or one twice.  *)
(***************************************************************************)
EXTENDS EtlExtract, FiniteSetTheorems, TLAPS

StoreStep == \/ \E s \in Session : \/ Place(s) \/ Commit(s) \/ Rollback(s)
                                   \/ \E o \in Order : Change(s, o) \/ Return(s, o)
             \/ Tick

(* Orders are numbered from 1.                                             *)
LEMMA OrderIds ==
  /\ Cardinality(Order) \in Nat
  /\ Order = 1..Cardinality(Order)
  /\ Order \subseteq Nat /\ 0 \notin Order
  /\ MaxTx \in Nat /\ MaxTime \in Nat /\ Overlap \in Nat \ {0}
<1>1. Cardinality(Order) \in Nat
  BY FS_CardinalityType, ExtractAssumption
<1> QED
  BY <1>1, ExtractAssumption

(* The orders there are from the start are the first ones.                 *)
LEMMA SeedIds ==
  /\ Cardinality(DOMAIN Seed) \in Order \cup {0}
  /\ \A o \in DOMAIN Seed : o \in Order /\ o <= Cardinality(DOMAIN Seed) /\ Seed[o] \in Status
<1>1. PICK n \in 0..Cardinality(Order) : Seed \in [1..n -> Status]
  BY ExtractAssumption
<1>2. n \in Nat /\ n \in Order \cup {0}
  BY <1>1, OrderIds
<1>3. Cardinality(DOMAIN Seed) = n
  BY <1>1, <1>2, FS_Interval
<1> QED
  BY <1>1, <1>2, <1>3, OrderIds

(* A status that moved on from a later one is later still.                 *)
LEMMA MovesOn ==
  ASSUME NEW a, NEW b, NEW c, AtLeast(b, a), AtLeast(c, b)
  PROVE  AtLeast(c, a)
BY DEF AtLeast, Newer, Moves

(* What a transaction that opens does.                                     *)
LEMMA OpensTx ==
  ASSUME TypeOK, NEW s \in Session,
         NEW kind \in {"order", "return"}, NEW o \in Order, NEW status \in Status \cup {"none"},
         NEW ret \in 0..MaxTx, Opens(s, kind, o, status, ret)
  PROVE  /\ tx[s].kind = "none" /\ ids.tx + 1 \in 0..MaxTx
         /\ tx' \in [Session -> Tx]
         /\ \A x \in Session : x # s => tx'[x] = tx[x]
         /\ tx'[s].kind = kind /\ tx'[s].order = o /\ tx'[s].status = status /\ tx'[s].ret = ret
         /\ tx'[s].began \in Int /\ now - Overlap < tx'[s].began
         /\ UNCHANGED <<now, orders, returns, dw, run>>
<1> DEFINE t(began) == [kind |-> kind, order |-> o, status |-> status, ret |-> ret, began |-> began]
<1>1. PICK began \in (now - Overlap + 1)..now : tx' = [tx EXCEPT ![s] = t(began)]
  BY DEF Opens
<1>2. began \in Time /\ began \in Int /\ now - Overlap < began
  BY <1>1, OrderIds DEF Time, TypeOK
<1>3. t(began) \in Tx
  BY <1>2 DEF Tx
<1>4. /\ tx' \in [Session -> Tx]
      /\ \A x \in Session : x # s => tx'[x] = tx[x]
      /\ tx'[s] = t(began)
  BY <1>1, <1>3 DEF TypeOK
<1> QED
  BY <1>2, <1>4, OrderIds DEF Opens, TypeOK

(* What each action of the store opens.                                    *)
LEMMA PlaceOpens ==
  ASSUME IInv, NEW s \in Session, Place(s)
  PROVE  /\ ids'.order = ids.order + 1 /\ ids'.order \in Order
         /\ Opens(s, "order", ids'.order, "paid", 0)
BY DEF Place, IInv, TypeOK

LEMMA ReturnOpens ==
  ASSUME IInv, NEW s \in Session, NEW o \in Order, Return(s, o)
  PROVE  /\ ids'.return \in 0..MaxTx /\ ids'.return # 0
         /\ Opens(s, "return", o, "none", ids'.return)
<1>1. ids.return <= ids.tx /\ ids.tx < MaxTx /\ ids.return \in Nat /\ ids'.return = ids.return + 1
  BY OrderIds DEF Return, Opens, IInv, TypeOK, IdsGivenOut
<1> QED
  BY <1>1, OrderIds DEF Return, IInv, TypeOK

-----------------------------------------------------------------------------
(* Type correctness.                                                       *)

(* The state the store starts in satisfies the invariant.                  *)
LEMMA InitInv == Init => IInv
<1> SUFFICES ASSUME Init PROVE IInv
  OBVIOUS
<1> USE DEF Init
<1>1. TypeOK
  <2>1. now \in 0..MaxTime /\ returns \subseteq ReturnRow /\ run \in Run
    BY OrderIds DEF Run, NoRun, Empty, Time, Table
  <2>2. orders \in [Order -> OrderRow]
    BY OrderIds, SeedIds DEF OrderRow, Time
  <2>3. ids \in [order : Order \cup {0}, return : 0..MaxTx, tx : 0..MaxTx]
    BY OrderIds, SeedIds
  <2>4. tx \in [Session -> Tx]
    BY OrderIds DEF Tx, NoTx, Time
  <2>5. dw \in Warehouse
    BY OrderIds DEF Warehouse, Empty, Time
  <2> QED
    BY <2>1, <2>2, <2>3, <2>4, <2>5 DEF TypeOK
<1>2. OpenTx /\ LoadedOrPending
  BY DEF OpenTx, NoTx, LoadedOrPending
<1>3. IdsGivenOut
  <2>1. Committed = DOMAIN Seed
    BY SeedIds DEF Committed, Status
  <2> QED
    BY <2>1, SeedIds, OrderIds DEF IdsGivenOut, NoTx
<1>4. RowsWereSo /\ UpToWatermark
  BY DEF RowsWereSo, UpToWatermark, WasSo, NoRun, Empty
<1>5. RunStarted /\ RunWatermark /\ OldIsLoaded /\ NothingRead /\ AskedIsRead
  BY DEF RunStarted, RunWatermark, OldIsLoaded, NothingRead, AskedIsRead, Chosen, Done, NoRun
<1>6. OrdersAreWhole /\ OneVersion
  <2>1. \A t \in Table : dw.raw[t] = {}
    BY DEF Empty
  <2> QED
    BY <2>1 DEF OrdersAreWhole, OneVersion, Table
<1> QED
  BY <1>1, <1>2, <1>3, <1>4, <1>5, <1>6 DEF IInv

(* What the store does keeps the types.                                    *)
LEMMA StoreTyped ==
  ASSUME IInv, StoreStep
  PROVE  TypeOK'
<1> USE OrderIds DEF IInv, TypeOK
<1>1. CASE \E s \in Session : Place(s)
  <2> PICK s \in Session : Place(s)
    BY <1>1
  <2>1. /\ tx' \in [Session -> Tx] /\ ids.tx + 1 \in 0..MaxTx
        /\ UNCHANGED <<now, orders, returns, dw, run>>
    BY PlaceOpens, OpensTx DEF Status
  <2> QED
    BY <2>1 DEF Place
<1>2. CASE \E s \in Session, o \in Order : Change(s, o)
  <2> PICK s \in Session, o \in Order : Change(s, o)
    BY <1>2
  <2>1. /\ tx' \in [Session -> Tx] /\ ids.tx + 1 \in 0..MaxTx
        /\ UNCHANGED <<now, orders, returns, dw, run>>
    <3> PICK status \in Status : Opens(s, "order", o, status, 0)
      BY DEF Change
    <3>1. "order" \in {"order", "return"} /\ 0 \in 0..MaxTx
      BY OrderIds
    <3> HIDE DEF IInv, TypeOK
    <3>2. TypeOK
      BY DEF IInv
    <3> QED
      BY <3>1, <3>2, OpensTx
  <2> QED
    BY <2>1 DEF Change
<1>3. CASE \E s \in Session, o \in Order : Return(s, o)
  <2> PICK s \in Session, o \in Order : Return(s, o)
    BY <1>3
  <2>1. /\ tx' \in [Session -> Tx] /\ ids.tx + 1 \in 0..MaxTx
        /\ UNCHANGED <<now, orders, returns, dw, run>>
    BY ReturnOpens, OpensTx DEF Status
  <2>2. ids'.return \in 0..MaxTx
    BY ReturnOpens
  <2> QED
    BY <2>1, <2>2 DEF Return
<1>4. CASE \E s \in Session : Commit(s) \/ Rollback(s)
  <2> PICK s \in Session : Commit(s) \/ Rollback(s)
    BY <1>4
  <2>1. NoTx \in Tx
    BY DEF NoTx, Tx, Time
  <2>2. CASE Rollback(s)
    BY <2>1, <2>2 DEF Rollback
  <2>3. CASE Commit(s)
    <3>1. tx[s] \in Tx /\ tx[s].order \in Order
      BY <2>3 DEF Commit, OpenTx
    <3>2. [status |-> tx[s].status, updated |-> tx[s].began] \in OrderRow
      BY <3>1 DEF Tx, OrderRow
    <3>3. ASSUME tx[s].kind # "order"
          PROVE  [id |-> tx[s].ret, order |-> tx[s].order] \in ReturnRow
      <4>1. tx[s].kind = "return" /\ tx[s].ret \in 0..MaxTx
        BY <2>3, <3>1, <3>3 DEF Commit, Tx
      <4>2. tx[s].ret # 0
        BY <4>1 DEF OpenTx
      <4>3. tx[s].ret \in 1..MaxTx
        BY <4>1, <4>2
      <4> QED
        BY <3>1, <4>3 DEF ReturnRow
    <3> QED
      BY <2>1, <2>3, <3>1, <3>2, <3>3 DEF Commit
  <2> QED
    BY <2>2, <2>3
<1>5. CASE Tick
  BY <1>5 DEF Tick
<1> QED
  BY <1>1, <1>2, <1>3, <1>4, <1>5 DEF StoreStep

-----------------------------------------------------------------------------
(* The store beside a run.                                                 *)

(* What the invariant says of the store.                                   *)
LEMMA StoreFacts ==
  ASSUME IInv
  PROVE  /\ TypeOK /\ OpenTx /\ IdsGivenOut
         /\ now \in Int /\ Overlap \in Int
         /\ DOMAIN orders = Order /\ DOMAIN tx = Session
         /\ ids = [order |-> ids.order, return |-> ids.return, tx |-> ids.tx]
         /\ ids.order \in Nat /\ ids.return \in Int /\ ids.tx \in Int
         /\ \A o \in Order : orders[o].updated \in Int
         /\ \A s \in Session : tx[s].order \in Int /\ tx[s].began \in Int
BY OrderIds DEF IInv, TypeOK, OrderRow, Tx, Time

(* Orders are only placed and only move on; an order that changes is given *)
(* the now() of an open transaction; none opens with an older one than     *)
(* the overlap.                                                            *)
LEMMA StoreMoves ==
  ASSUME IInv, StoreStep
  PROVE  /\ UNCHANGED <<dw, run>> /\ now <= now'
         /\ \A o \in Committed : o \in Committed' /\ AtLeast(orders'[o].status, orders[o].status)
         /\ \A o \in Order : \/ orders'[o] = orders[o]
                             \/ \E s \in Session : /\ tx[s].kind # "none"
                                                   /\ orders'[o].updated = tx[s].began
         /\ \A s \in Session : tx'[s].kind # "none" =>
              tx'[s] = tx[s] \/ (tx'[s].began \in Int /\ now - Overlap < tx'[s].began)
<1> DEFINE Onward == \A o \in Committed :
                       o \in Committed' /\ AtLeast(orders'[o].status, orders[o].status)
           Dated  == \A o \in Order : \/ orders'[o] = orders[o]
                                      \/ \E s \in Session : /\ tx[s].kind # "none"
                                                            /\ orders'[o].updated = tx[s].began
           Open   == \A s \in Session : tx'[s].kind # "none" =>
                       tx'[s] = tx[s] \/ (tx'[s].began \in Int /\ now - Overlap < tx'[s].began)
<1>0. TypeOK /\ OpenTx /\ now \in Int /\ DOMAIN orders = Order /\ DOMAIN tx = Session
  BY StoreFacts
<1>1. ASSUME orders' = orders PROVE Onward /\ Dated
  BY <1>1 DEF Committed, AtLeast
<1>2. ASSUME NEW s \in Session, NEW kind \in {"order", "return"}, NEW o \in Order,
             NEW status \in Status \cup {"none"}, NEW ret \in 0..MaxTx,
             Opens(s, kind, o, status, ret)
      PROVE  UNCHANGED <<now, orders, dw, run>> /\ Open
  <2>1. /\ \A x \in Session : x # s => tx'[x] = tx[x]
        /\ tx'[s].began \in Int /\ now - Overlap < tx'[s].began
        /\ UNCHANGED <<now, orders, dw, run>>
    BY <1>0, <1>2, OpensTx
  <2> QED
    BY <2>1
<1>3. UNCHANGED <<dw, run>> /\ now <= now' /\ Onward /\ Dated /\ Open
  <2>1. ASSUME NEW s \in Session, Place(s)
        PROVE  UNCHANGED <<now, orders, dw, run>> /\ Open
    <3>1. "paid" \in Status /\ 0 \in 0..MaxTx /\ "order" \in {"order", "return"}
      BY OrderIds DEF Status
    <3>2. ids'.order \in Order /\ Opens(s, "order", ids'.order, "paid", 0)
      BY <2>1, PlaceOpens
    <3> HIDE DEF Open
    <3> QED
      BY <1>2, <3>1, <3>2
  <2>2. ASSUME NEW s \in Session, NEW o \in Order, Change(s, o)
        PROVE  UNCHANGED <<now, orders, dw, run>> /\ Open
    <3>1. 0 \in 0..MaxTx /\ "order" \in {"order", "return"}
      BY OrderIds
    <3>2. PICK status \in Status : Opens(s, "order", o, status, 0)
      BY <2>2 DEF Change
    <3> HIDE DEF Open
    <3> QED
      BY <1>2, <3>1, <3>2
  <2>3. ASSUME NEW s \in Session, NEW o \in Order, Return(s, o)
        PROVE  UNCHANGED <<now, orders, dw, run>> /\ Open
    <3>1. ids'.return \in 0..MaxTx /\ Opens(s, "return", o, "none", ids'.return)
      BY <2>3, ReturnOpens
    <3> HIDE DEF Open
    <3> QED
      BY <1>2, <3>1
  <2>4. ASSUME NEW s \in Session, Rollback(s)
        PROVE  UNCHANGED <<now, orders, dw, run>> /\ Open
    BY <1>0, <2>4 DEF Rollback, NoTx
  <2>5. ASSUME NEW s \in Session, Commit(s)
        PROVE  UNCHANGED <<now, dw, run>> /\ Open /\ Onward /\ Dated
    <3>1. UNCHANGED <<now, dw, run>> /\ Open
      BY <1>0, <2>5 DEF Commit, NoTx
    <3>2. CASE tx[s].kind # "order"
      BY <1>1, <2>5, <3>1, <3>2 DEF Commit
    <3>3. CASE tx[s].kind = "order"
      <4> DEFINE p == tx[s].order
      <4>1. /\ p \in Order /\ tx[s].status # "none"
            /\ p \in Committed => <<orders[p].status, tx[s].status>> \in Moves
        BY <1>0, <3>3 DEF OpenTx
      <4>2. /\ orders'[p].status = tx[s].status /\ orders'[p].updated = tx[s].began
            /\ \A x \in Order : x # p => orders'[x] = orders[x]
        BY <1>0, <2>5, <3>3, <4>1 DEF Commit
      <4> HIDE DEF p
      <4>3. ASSUME NEW x \in Committed
            PROVE  x \in Committed' /\ AtLeast(orders'[x].status, orders[x].status)
        BY <4>1, <4>2, <4>3 DEF Committed, AtLeast, Newer
      <4>4. Dated
        BY <4>2, <3>3
      <4> QED
        BY <3>1, <4>3, <4>4
    <3> QED
      BY <3>2, <3>3
  <2>6. ASSUME Tick
        PROVE  UNCHANGED <<orders, dw, run>> /\ now <= now' /\ Open
    BY <1>0, <2>6 DEF Tick
  <2>7. ASSUME now' = now PROVE now <= now'
    BY <1>0, <2>7
  <2> HIDE DEF Open, Onward, Dated
  <2> QED
    BY <1>1, <2>1, <2>2, <2>3, <2>4, <2>5, <2>6, <2>7 DEF StoreStep
<1> QED
  BY <1>3

(* Open transactions stay apart.                                           *)
LEMMA StoreKeepsOpenTx ==
  ASSUME IInv, StoreStep
  PROVE  OpenTx' /\ IdsGivenOut'
<1>0. /\ TypeOK /\ OpenTx /\ IdsGivenOut /\ now \in Int /\ Overlap \in Int
      /\ DOMAIN orders = Order /\ DOMAIN tx = Session
      /\ ids.order \in Nat /\ ids.return \in Int /\ ids.tx \in Int
      /\ \A s \in Session : tx[s].order \in Int /\ tx[s].began \in Int
      /\ ids = [order |-> ids.order, return |-> ids.return, tx |-> ids.tx]
  BY StoreFacts
<1>1. CASE \E s \in Session : Place(s)
  <2> PICK s \in Session : Place(s)
    BY <1>1
  <2>1. "paid" \in Status /\ 0 \in 0..MaxTx
    BY OrderIds DEF Status
  <2>2. /\ ids'.order = ids.order + 1 /\ ids'.order \in Order /\ ids'.order \notin Committed
        /\ ids'.return = ids.return /\ ids'.tx = ids.tx + 1
    BY <1>0, OrderIds, PlaceOpens DEF Place, IdsGivenOut
  <2>3. /\ tx[s].kind = "none" /\ tx'[s].kind = "order" /\ tx'[s].order = ids'.order
        /\ tx'[s].status = "paid" /\ tx'[s].began \in Int /\ now - Overlap < tx'[s].began
        /\ \A x \in Session : x # s => tx'[x] = tx[x]
        /\ now' = now /\ orders' = orders
    BY <1>0, <2>1, <2>2, PlaceOpens, OpensTx
  <2>4. Committed' = Committed
    BY <1>0, <2>3 DEF Committed
  <2>5. OpenTx'
    BY <1>0, <2>2, <2>3, <2>4 DEF OpenTx, IdsGivenOut
  <2>6. \A o \in Committed : o \in Nat
    BY OrderIds DEF Committed
  <2> QED
    BY <1>0, <2>2, <2>3, <2>4, <2>5, <2>6 DEF IdsGivenOut
<1>2. CASE \E s \in Session, o \in Order : Change(s, o)
  <2> PICK s \in Session, o \in Order : Change(s, o)
    BY <1>2
  <2> PICK status \in Status : /\ <<orders[o].status, status>> \in Moves
                               /\ Opens(s, "order", o, status, 0)
    BY <1>0 DEF Change
  <2>1. /\ tx[s].kind = "none" /\ tx'[s].kind = "order" /\ tx'[s].order = o
        /\ tx'[s].status = status /\ tx'[s].began \in Int /\ now - Overlap < tx'[s].began
        /\ \A x \in Session : x # s => tx'[x] = tx[x]
        /\ now' = now /\ orders' = orders
    BY <1>0, OrderIds, OpensTx
  <2>2. Committed' = Committed /\ o \in Committed /\ ~Locked(o)
    BY <1>0, <2>1 DEF Committed, Change
  <2>3. ids'.order = ids.order /\ ids'.return = ids.return /\ ids'.tx = ids.tx + 1
    BY <1>0 DEF Change
  <2>4. OpenTx'
    BY <1>0, <2>1, <2>2 DEF OpenTx, Locked, Status
  <2> QED
    BY <1>0, <2>1, <2>2, <2>3, <2>4 DEF IdsGivenOut
<1>3. CASE \E s \in Session, o \in Order : Return(s, o)
  <2> PICK s \in Session, o \in Order : Return(s, o)
    BY <1>3
  <2>1. /\ tx[s].kind = "none" /\ tx'[s].kind = "return" /\ tx'[s].order = o
        /\ tx'[s].ret # 0 /\ tx'[s].began \in Int /\ now - Overlap < tx'[s].began
        /\ \A x \in Session : x # s => tx'[x] = tx[x]
        /\ now' = now /\ orders' = orders
    <3>1. /\ ids'.return \in 0..MaxTx /\ ids'.return # 0 /\ "return" \in {"order", "return"}
          /\ Opens(s, "return", o, "none", ids'.return)
      BY ReturnOpens
    <3> QED
      BY <1>0, <3>1, OpensTx
  <2>2. Committed' = Committed /\ o \in Committed /\ ~Locked(o)
    BY <1>0, <2>1 DEF Committed, Return
  <2>3. ids'.order = ids.order /\ ids'.return = ids.return + 1 /\ ids'.tx = ids.tx + 1
    BY <1>0 DEF Return
  <2>4. OpenTx'
    BY <1>0, <2>1, <2>2 DEF OpenTx, Locked
  <2> QED
    BY <1>0, <2>1, <2>2, <2>3, <2>4 DEF IdsGivenOut
<1>4. CASE \E s \in Session : Rollback(s)
  <2>1. Committed' = Committed
    BY <1>0, <1>4 DEF Rollback, Committed
  <2>2. OpenTx'
    BY <1>0, <1>4, <2>1 DEF OpenTx, Rollback, NoTx
  <2> QED
    BY <1>0, <1>4, <2>1, <2>2 DEF IdsGivenOut, Rollback, NoTx
<1>5. CASE \E s \in Session : Commit(s)
  <2> PICK s \in Session : Commit(s)
    BY <1>5
  <2>1. /\ tx'[s].kind = "none" /\ tx'[s].order = 0
        /\ \A x \in Session : x # s => tx'[x] = tx[x]
        /\ now' = now /\ ids' = ids
    BY <1>0 DEF Commit, NoTx
  <2>2. tx[s].order \in Order /\ \A x \in Order : x # tx[s].order => orders'[x] = orders[x]
    BY <1>0 DEF Commit, OpenTx
  <2>3. \A x \in Order : x # tx[s].order => (x \in Committed <=> x \in Committed')
    BY <1>0, <2>2 DEF Committed
  <2>4. \A x \in Session : x # s /\ tx[x].kind # "none" => tx[x].order # tx[s].order
    BY <1>0 DEF OpenTx, Commit
  <2>5. OpenTx'
    <3> SUFFICES ASSUME NEW x \in Session, tx'[x].kind # "none"
                 PROVE  /\ x # s /\ tx'[x] = tx[x] /\ tx[x].kind # "none"
                        /\ tx[x].order \in Order /\ orders'[tx[x].order] = orders[tx[x].order]
                        /\ tx[x].order \in Committed' => tx[x].order \in Committed
      BY <1>0, <2>1 DEF OpenTx
    <3>1. x # s /\ tx'[x] = tx[x] /\ tx[x].kind # "none"
      BY <2>1
    <3>2. tx[x].order \in Order /\ tx[x].order # tx[s].order
      BY <1>0, <2>4, <3>1 DEF OpenTx
    <3> QED
      BY <2>2, <2>3, <3>1, <3>2
  <2>6. Committed' \subseteq Committed \cup {tx[s].order}
    BY <1>0, <2>3 DEF Committed
  <2> QED
    BY <1>0, <2>1, <2>5, <2>6 DEF IdsGivenOut
<1>6. CASE Tick
  <2>1. Committed' = Committed
    BY <1>0, <1>6 DEF Tick, Committed
  <2>2. OpenTx'
    BY <1>0, <1>6, <2>1 DEF OpenTx, Tick
  <2> QED
    BY <1>0, <1>6, <2>1, <2>2 DEF IdsGivenOut, Tick
<1> QED
  BY <1>1, <1>2, <1>3, <1>4, <1>5, <1>6 DEF StoreStep

(* What is up to date stays so: what changes, changes after time.          *)
LEMMA StaysUpToDate ==
  ASSUME IInv, StoreStep, NEW time \in Int, time <= now, TxAfter(time)
  PROVE  /\ \A s \in Session : tx'[s].kind # "none" => tx'[s].began > time - Overlap
         /\ \A rows : \A o \in Order :
              (orders'[o].status # "none" /\ (o \in Committed => UpToDate(o, rows, time)))
              => \/ [order |-> o, status |-> orders'[o].status] \in rows
                 \/ orders'[o].updated > time - Overlap
<1>1. now \in Int /\ Overlap \in Int /\ \A s \in Session : tx[s].began \in Int
  BY StoreFacts
<1>2. /\ \A o \in Order : \/ orders'[o] = orders[o]
                            \/ \E s \in Session : /\ tx[s].kind # "none"
                                                  /\ orders'[o].updated = tx[s].began
      /\ \A s \in Session : tx'[s].kind # "none" =>
           tx'[s] = tx[s] \/ (tx'[s].began \in Int /\ now - Overlap < tx'[s].began)
  BY StoreMoves
<1> QED
  BY <1>1, <1>2 DEF TxAfter, UpToDate, Committed

(* What was so once has only moved on.                                     *)
LEMMA StaysSo ==
  ASSUME IInv, StoreStep, NEW rows, WasSo(rows)
  PROVE  \A r \in rows : r.order \in Committed' /\ AtLeast(orders'[r.order].status, r.status)
BY StoreMoves, MovesOn DEF WasSo

(* The clocks and rows of the run and the warehouse have their types.      *)
LEMMA RunFacts ==
  ASSUME IInv
  PROVE  /\ dw.extracted \in Int /\ run.extracted \in Int
         /\ dw.upTo \in Nat /\ run.upTo \in Nat
         /\ run.seen \subseteq Row /\ run.changed \subseteq Order
         /\ \A t \in Table : dw.raw[t] \subseteq Row /\ run.raw[t] \subseteq Row
         /\ \A r \in Row : r.order \in Order /\ r.order \in Nat
         /\ "orders" \in Table
BY OrderIds DEF IInv, TypeOK, Warehouse, Run, Row, Time, Table

(* The store's steps keep the invariant.                                   *)
LEMMA StoreKeepsInv ==
  ASSUME IInv, StoreStep
  PROVE  IInv'
<1>1. /\ dw' = dw /\ run' = run /\ now <= now'
      /\ now \in Int /\ now' \in Int
      /\ Committed \subseteq Committed'
  <2>1. now \in Int /\ now' \in Int
    BY StoreFacts, StoreTyped, OrderIds DEF TypeOK
  <2> QED
    BY <2>1, StoreMoves
<1>2. TypeOK' /\ OpenTx' /\ IdsGivenOut'
  BY StoreTyped, StoreKeepsOpenTx
<1>3. RowsWereSo'
  <2>1. RowsWereSo
    BY DEF IInv
  <2> QED
    BY <1>1, <2>1, StaysSo DEF RowsWereSo, WasSo
<1>4. UpToWatermark' /\ RunWatermark' /\ NothingRead' /\ OrdersAreWhole' /\ OneVersion'
  <2>1. UpToWatermark /\ RunWatermark /\ NothingRead /\ OrdersAreWhole /\ OneVersion
    BY DEF IInv
  <2> QED
    BY <1>1, <2>1 DEF UpToWatermark, RunWatermark, NothingRead, OrdersAreWhole, OneVersion
<1>5. LoadedOrPending'
  <2> SUFFICES ASSUME dw'.there
               PROVE  /\ dw.extracted <= now' /\ TxAfter(dw.extracted)'
                      /\ \A o \in Committed' :
                           o <= dw.upTo => UpToDate(o, dw.raw["orders"], dw.extracted)'
    BY <1>1 DEF LoadedOrPending, TxAfter, UpToDate
  <2>1. /\ dw.extracted \in Int /\ dw.extracted <= now /\ TxAfter(dw.extracted)
        /\ \A o \in Committed : o <= dw.upTo => UpToDate(o, dw.raw["orders"], dw.extracted)
    BY <1>1, RunFacts DEF IInv, LoadedOrPending
  <2>2. dw'.extracted = dw.extracted /\ dw'.raw = dw.raw
    BY <1>1
  <2>3. /\ \A s \in Session : tx'[s].kind # "none" => tx'[s].began > dw.extracted - Overlap
        /\ \A o \in Committed' : o <= dw.upTo =>
             \/ [order |-> o, status |-> orders'[o].status] \in dw.raw["orders"]
             \/ orders'[o].updated > dw.extracted - Overlap
    BY <2>1, StaysUpToDate DEF Committed
  <2> QED
    BY <1>1, <2>1, <2>2, <2>3 DEF TxAfter, UpToDate
<1>6. RunStarted'
  <2> SUFFICES ASSUME run.step # "idle"
               PROVE  run.extracted <= now' /\ TxAfter(run.extracted)' /\ (~run.full => dw.there)
    BY <1>1 DEF RunStarted, TxAfter
  <2>1. /\ run.extracted \in Int /\ run.extracted <= now /\ TxAfter(run.extracted)
        /\ ~run.full => dw.there
    BY RunFacts DEF IInv, RunStarted
  <2> QED
    BY <1>1, <2>1, StaysUpToDate DEF TxAfter
<1>7. ASSUME run.step # "idle", NEW rows, NEW o \in Committed',
             o \in Committed => UpToDate(o, rows, run.extracted)
      PROVE  \/ [order |-> o, status |-> orders'[o].status] \in rows
             \/ orders'[o].updated > run.extracted - Overlap
  <2>1. run.extracted \in Int /\ run.extracted <= now /\ TxAfter(run.extracted)
    BY <1>7, RunFacts DEF IInv, RunStarted
  <2> QED
    BY <1>7, <2>1, StaysUpToDate DEF Committed
<1>8. run.step \in Chosen => run.step # "idle"
  BY DEF Chosen, Done
<1>9. OldIsLoaded'
  <2> SUFFICES ASSUME run.step \in Chosen, ~run.full
               PROVE  /\ \A o \in Committed' : o <= dw.upTo /\ o \notin run.changed =>
                           \/ [order |-> o, status |-> orders'[o].status] \in dw.raw["orders"]
                           \/ orders'[o].updated > run.extracted - Overlap
                      /\ Covers(dw.raw["orders"],
                                {r \in run.seen : r.order <= dw.upTo /\ r.order \notin run.changed})
    BY <1>1 DEF OldIsLoaded, UpToDate, Covers
  <2>1. /\ \A o \in Committed : o <= dw.upTo /\ o \notin run.changed =>
             UpToDate(o, dw.raw["orders"], run.extracted)
        /\ Covers(dw.raw["orders"],
                  {r \in run.seen : r.order <= dw.upTo /\ r.order \notin run.changed})
    BY DEF IInv, OldIsLoaded
  <2> QED
    BY <2>1, <1>7, <1>8
<1>10. AskedIsRead'
  <2>1. Asked' = Asked
    BY <1>1 DEF Asked
  <2> SUFFICES ASSUME run.step \in Chosen
               PROVE  /\ \A t \in Table : \A a, b \in run.raw[t] :
                           a.order \in Asked /\ (a.order = b.order => a = b)
                      /\ \A t \in Done[run.step] : Covers(run.raw[t], run.raw["orders"])
                      /\ run.step # "orders" =>
                           /\ \A o \in Committed' \cap Asked :
                                \/ [order |-> o, status |-> orders'[o].status] \in run.raw["orders"]
                                \/ orders'[o].updated > run.extracted - Overlap
                           /\ Covers(run.raw["orders"], {r \in run.seen : r.order \in Asked})
    BY <1>1, <2>1 DEF AskedIsRead, UpToDate, Covers
  <2>2. AskedIsRead
    BY DEF IInv
  <2> QED
    BY <2>2, <1>7, <1>8 DEF AskedIsRead
<1> QED
  BY <1>2, <1>3, <1>4, <1>5, <1>6, <1>9, <1>10 DEF IInv

-----------------------------------------------------------------------------
(* The run.                                                                *)

(* The rows a statement sees.                                              *)
LEMMA RowsSeen ==
  ASSUME TypeOK, NEW S
  PROVE  /\ RowsOf(S) \subseteq Row
         /\ \A r \in RowsOf(S) : /\ r.order \in Committed \cap S
                                  /\ r.status = orders[r.order].status
         /\ \A a, b \in RowsOf(S) : a.order = b.order => a = b
         /\ \A o \in Committed \cap S : [order |-> o, status |-> orders[o].status] \in RowsOf(S)
         /\ WasSo(RowsOf(S))
<1>1. \A o \in Committed : o \in Order /\ orders[o].status \in Status
  BY DEF Committed, TypeOK, OrderRow
<1> QED
  BY <1>1 DEF RowsOf, Row, WasSo, AtLeast

(* A statement's rows have all that was so before, at least as far on.     *)
LEMMA RowsCover ==
  ASSUME TypeOK, NEW S, NEW rows, WasSo(rows)
  PROVE  Covers(RowsOf(S), {r \in rows : r.order \in S})
<1> SUFFICES ASSUME NEW r \in rows, r.order \in S
             PROVE  \E x \in RowsOf(S) : x.order = r.order /\ AtLeast(x.status, r.status)
  BY DEF Covers
<1>1. r.order \in Committed /\ AtLeast(orders[r.order].status, r.status)
  BY DEF WasSo
<1>2. [order |-> r.order, status |-> orders[r.order].status] \in RowsOf(S)
  BY <1>1, RowsSeen
<1> QED
  BY <1>1, <1>2

(* While the run only reads, what the invariant says of the store and of   *)
(* the warehouse stays.                                                    *)
LEMMA RunKeepsRest ==
  ASSUME IInv, UNCHANGED <<now, orders, returns, ids, tx, dw>>, run' \in Run
  PROVE  /\ TypeOK' /\ OpenTx' /\ IdsGivenOut' /\ LoadedOrPending'
         /\ UpToWatermark' /\ OrdersAreWhole' /\ OneVersion'
         /\ Committed' = Committed
         /\ \A t \in Table : WasSo(dw.raw[t])
<1> USE DEF IInv
<1>1. Committed' = Committed
  BY DEF Committed
<1>2. TypeOK'
  BY DEF TypeOK
<1>3. OpenTx' /\ IdsGivenOut'
  BY <1>1 DEF OpenTx, IdsGivenOut
<1>4. UpToWatermark' /\ OrdersAreWhole' /\ OneVersion'
  BY <1>1 DEF UpToWatermark, OrdersAreWhole, OneVersion
<1>5. LoadedOrPending'
  BY <1>1 DEF LoadedOrPending, TxAfter, UpToDate
<1> QED
  BY <1>1, <1>2, <1>3, <1>4, <1>5 DEF RowsWereSo

(* The tables of the steps.                                                *)
LEMMA Steps ==
  /\ \A t \in Table : /\ After[t] \in Chosen /\ Done[After[t]] = Done[t] \cup {t}
                       /\ After[t] \notin {"orders", "idle", "watermark", "changed"}
                       /\ t \in Chosen /\ t \notin {"idle", "watermark", "changed", "returns"}
                       /\ Done[t] \subseteq Table /\ t \notin Done[t]
  /\ After.first = "orders" /\ Done["orders"] = {} /\ "orders" \in Chosen
  /\ After.returns = "finish" /\ Done["finish"] = Table /\ Done["returns"] = Table
  /\ "finish" \in Chosen /\ "returns" \in Chosen
  /\ {"idle", "watermark", "changed"} \cap Chosen = {}
BY DEF Table, After, Done, Chosen

(* A run that is asked for.                                                *)
LEMMA StartKeepsInv ==
  ASSUME IInv, NEW full \in BOOLEAN, Start(full)
  PROVE  IInv'
<1>0. TypeOK /\ now \in 0..MaxTime /\ returns \subseteq ReturnRow /\ WasSo(RowsOf(Order))
      /\ RowsOf(Order) \subseteq Row
  BY RowsSeen DEF IInv, TypeOK
<1>1. /\ run' = [step |-> "watermark", full |-> full, extracted |-> now, upTo |-> 0, changed |-> {},
                 raw |-> Empty, returns |-> {}, seen |-> RowsOf(Order), due |-> returns]
      /\ full \/ dw.there
      /\ UNCHANGED <<now, orders, returns, ids, tx, dw>>
  BY DEF Start, NoRun
<1>2. run' \in Run
  BY <1>0, <1>1, OrderIds DEF Run, Time, Empty
<1>3. TxAfter(now)
  <2>1. /\ now \in Int /\ Overlap \in Int /\ \A s \in Session : tx[s].began \in Int
        /\ \A s \in Session : tx[s].kind # "none" => now < tx[s].began + Overlap
    BY StoreFacts DEF OpenTx
  <2> QED
    BY <2>1 DEF TxAfter
<1>4. Committed' = Committed
  BY <1>1 DEF Committed
<1>5. RowsWereSo'
  BY <1>0, <1>1, <1>2, <1>4, RunKeepsRest DEF RowsWereSo, WasSo, Empty
<1>6. RunStarted'
  BY <1>1, <1>3, StoreFacts DEF RunStarted, TxAfter
<1>7. RunWatermark' /\ OldIsLoaded' /\ NothingRead' /\ AskedIsRead'
  BY <1>1, Steps DEF RunWatermark, OldIsLoaded, NothingRead, AskedIsRead
<1> QED
  BY <1>1, <1>2, <1>5, <1>6, <1>7, RunKeepsRest DEF IInv

(* A run that is given up.                                                 *)
LEMMA AbortKeepsInv ==
  ASSUME IInv, Abort
  PROVE  IInv'
<1>1. run' = NoRun /\ UNCHANGED <<now, orders, returns, ids, tx, dw>>
  BY DEF Abort
<1>2. NoRun \in Run
  BY OrderIds DEF NoRun, Run, Time, Empty
<1>3. Committed' = Committed
  BY <1>1 DEF Committed
<1>4. RowsWereSo'
  BY <1>1, <1>2, <1>3, RunKeepsRest DEF RowsWereSo, WasSo, Empty, NoRun
<1>5. RunStarted' /\ RunWatermark' /\ OldIsLoaded' /\ NothingRead' /\ AskedIsRead'
  BY <1>1, Steps DEF RunStarted, RunWatermark, OldIsLoaded, NothingRead, AskedIsRead, NoRun
<1> QED
  BY <1>1, <1>2, <1>4, <1>5, RunKeepsRest DEF IInv

(* The watermark is read.                                                  *)
LEMMA WatermarkKeepsInv ==
  ASSUME IInv, ReadWatermark
  PROVE  IInv'
<1>0. /\ TypeOK /\ RowsWereSo /\ UpToWatermark /\ RunStarted /\ NothingRead
      /\ Committed \subseteq Order /\ Order \subseteq Nat
  BY OrderIds DEF IInv, Committed
<1>1. PICK max \in Committed \cup {0} :
        /\ \A o \in Committed : o <= max
        /\ run' = [run EXCEPT !.step = IF run.full THEN After.first ELSE "changed", !.upTo = max]
  BY DEF ReadWatermark
<1>2. run.step = "watermark" /\ UNCHANGED <<now, orders, returns, ids, tx, dw>>
  BY DEF ReadWatermark
<1>3. /\ run'.step = (IF run.full THEN "orders" ELSE "changed")
      /\ run'.upTo = max /\ max \in Nat
      /\ run'.full = run.full /\ run'.extracted = run.extracted /\ run'.raw = run.raw
      /\ run'.seen = run.seen
      /\ run' \in Run
  <2>1. run \in Run /\ max \in Nat
    BY <1>0, <1>1 DEF TypeOK
  <2>2. (IF run.full THEN "orders" ELSE "changed") \in {"changed"} \cup Table
    BY DEF Table
  <2> QED
    BY <1>1, <2>1, <2>2, Steps DEF Run
<1>4. run.raw = Empty
  BY <1>0, <1>2, Steps DEF NothingRead
<1>5. Committed' = Committed
  BY <1>2 DEF Committed
<1>6. RowsWereSo'
  BY <1>0, <1>2, <1>3, <1>5 DEF RowsWereSo, WasSo
<1>7. RunStarted'
  BY <1>0, <1>2, <1>3 DEF RunStarted, TxAfter
<1>8. RunWatermark'
  <2>1. \A r \in run.seen : r.order <= max
    BY <1>0, <1>1 DEF RowsWereSo, WasSo
  <2>2. dw.upTo <= max
    BY <1>0, <1>1, <1>3 DEF UpToWatermark
  <2> QED
    BY <1>2, <1>3, <1>5, <2>1, <2>2 DEF RunWatermark
<1>9. OldIsLoaded' /\ NothingRead'
  BY <1>3, <1>4, Steps DEF OldIsLoaded, NothingRead
<1>10. AskedIsRead'
  <2>1. \A t \in Table : run'.raw[t] = {}
    BY <1>3, <1>4 DEF Empty
  <2> SUFFICES ASSUME run'.step \in Chosen
               PROVE  run'.step = "orders" /\ Done[run'.step] = {}
    BY <2>1 DEF AskedIsRead
  <2> QED
    BY <1>3, Steps
<1> QED
  BY <1>2, <1>3, <1>6, <1>7, <1>8, <1>9, <1>10, RunKeepsRest DEF IInv

(* What has changed is found: the rest is in the warehouse.                *)
LEMMA ChangedKeepsInv ==
  ASSUME IInv, FindChanged
  PROVE  IInv'
<1>0. /\ TypeOK /\ RowsWereSo /\ RunStarted /\ RunWatermark /\ NothingRead /\ LoadedOrPending
      /\ run \in Run /\ returns \subseteq ReturnRow
  BY DEF IInv, TypeOK
<1> DEFINE changed == {o \in Committed : \/ dw.upTo < o /\ o <= run.upTo
                                         \/ o <= dw.upTo /\ orders[o].updated > Since}
                      \cup {r.order : r \in {x \in returns : /\ x.id > MaxReturnId
                                                              /\ x.order <= run.upTo}}
<1>1. /\ run.step = "changed" /\ UNCHANGED <<now, orders, returns, ids, tx, dw>>
      /\ run' = [run EXCEPT !.step = After.first, !.changed = changed]
  BY DEF FindChanged
<1>2. changed \subseteq Order
  BY <1>0 DEF Committed, ReturnRow
<1>3. \A o \in Committed : o <= dw.upTo /\ o \notin changed => ~(orders[o].updated > Since)
  OBVIOUS
<1> HIDE DEF changed
<1>4. /\ run'.step = "orders" /\ run'.changed = changed
      /\ run'.upTo = run.upTo /\ run'.full = run.full /\ run'.extracted = run.extracted
      /\ run'.raw = run.raw /\ run'.seen = run.seen
      /\ run' \in Run
  BY <1>0, <1>1, <1>2, Steps DEF Run, Table
<1>5. run.raw = Empty
  BY <1>0, <1>1, Steps DEF NothingRead
<1>6. Committed' = Committed
  BY <1>1 DEF Committed
<1>7. RowsWereSo'
  BY <1>0, <1>1, <1>4, <1>6 DEF RowsWereSo, WasSo
<1>8. RunStarted' /\ RunWatermark'
  BY <1>0, <1>1, <1>4, <1>6 DEF RunStarted, RunWatermark, TxAfter
<1>9. OldIsLoaded'
  <2> SUFFICES ASSUME ~run.full
               PROVE  /\ \A o \in Committed : o <= dw.upTo /\ o \notin changed =>
                           UpToDate(o, dw.raw["orders"], run.extracted)
                      /\ Covers(dw.raw["orders"],
                                {r \in run.seen : r.order <= dw.upTo /\ r.order \notin changed})
    BY <1>1, <1>4, <1>6 DEF OldIsLoaded, UpToDate, Covers
  <2>1. dw.there
    BY <1>0, <1>1 DEF RunStarted
  <2>2. \A o \in Committed : o <= dw.upTo /\ o \notin changed =>
          [order |-> o, status |-> orders[o].status] \in dw.raw["orders"]
    BY <1>0, <1>3, <2>1 DEF LoadedOrPending, UpToDate, Since
  <2>3. \A r \in run.seen : r.order \in Committed /\ AtLeast(orders[r.order].status, r.status)
    BY <1>0 DEF RowsWereSo, WasSo
  <2>4. ASSUME NEW r \in run.seen, r.order <= dw.upTo, r.order \notin changed
        PROVE  \E x \in dw.raw["orders"] : x.order = r.order /\ AtLeast(x.status, r.status)
    <3>1. [order |-> r.order, status |-> orders[r.order].status] \in dw.raw["orders"]
      BY <2>2, <2>3, <2>4
    <3> QED
      BY <2>3, <3>1
  <2> QED
    BY <2>2, <2>4 DEF UpToDate, Covers
<1>10. NothingRead' /\ AskedIsRead'
  <2>1. \A t \in Table : run'.raw[t] = {}
    BY <1>4, <1>5 DEF Empty
  <2> QED
    BY <1>4, <2>1, Steps DEF AskedIsRead, NothingRead
<1> QED
  BY <1>1, <1>4, <1>7, <1>8, <1>9, <1>10, RunKeepsRest DEF IInv

(* A table is read.                                                        *)
LEMMA TableKeepsInv ==
  ASSUME IInv, NEW t \in Table, ReadTable(t)
  PROVE  IInv'
<1>0. /\ TypeOK /\ RowsWereSo /\ RunStarted /\ RunWatermark /\ OldIsLoaded /\ AskedIsRead
      /\ run \in Run
  BY DEF IInv, TypeOK
<1> DEFINE rows == RowsOf(Asked)
<1>1. /\ run.step = t /\ UNCHANGED <<now, orders, returns, ids, tx, dw>>
      /\ run' = [run EXCEPT !.step = After[t], !.raw[t] = rows]
  BY DEF ReadTable
<1>2. /\ rows \subseteq Row /\ WasSo(rows)
      /\ \A r \in rows : r.order \in Committed \cap Asked
      /\ \A a, b \in rows : a.order = b.order => a = b
      /\ \A o \in Committed \cap Asked : [order |-> o, status |-> orders[o].status] \in rows
      /\ \A old : WasSo(old) => Covers(rows, {r \in old : r.order \in Asked})
  BY <1>0, RowsSeen, RowsCover
<1> HIDE DEF rows
<1>3. /\ run'.step = After[t]
      /\ run'.changed = run.changed
      /\ run'.upTo = run.upTo /\ run'.full = run.full /\ run'.extracted = run.extracted
      /\ run'.seen = run.seen
      /\ run'.raw[t] = rows /\ \A x \in Table : x # t => run'.raw[x] = run.raw[x]
      /\ run' \in Run
  <2>1. After[t] \in {"returns"} \cup Table
    BY DEF After, Table
  <2>2. /\ [run.raw EXCEPT ![t] = rows] \in [Table -> SUBSET Row]
        /\ run.raw \in [Table -> SUBSET Row]
    BY <1>0, <1>2 DEF Run
  <2>3. run' = [[run EXCEPT !.step = After[t]] EXCEPT !.raw = [run.raw EXCEPT ![t] = rows]]
    BY <1>0, <1>1 DEF Run
  <2> QED
    BY <1>0, <2>1, <2>2, <2>3 DEF Run
<1>4. Committed' = Committed /\ Asked' = Asked
  BY <1>1, <1>3 DEF Committed, Asked
<1>5. RowsWereSo'
  BY <1>0, <1>1, <1>2, <1>3, <1>4 DEF RowsWereSo, WasSo
<1>6. RunStarted' /\ RunWatermark' /\ OldIsLoaded' /\ NothingRead'
  BY <1>0, <1>1, <1>3, <1>4, Steps
     DEF RunStarted, RunWatermark, OldIsLoaded, NothingRead, TxAfter, UpToDate, Covers
<1>7. AskedIsRead'
  <2>1. \A x \in Table : \A a, b \in run'.raw[x] : a.order \in Asked /\ (a.order = b.order => a = b)
    BY <1>0, <1>1, <1>2, <1>3, Steps DEF AskedIsRead
  <2>2. WasSo(run.raw["orders"]) /\ WasSo(run.seen)
    BY <1>0, Steps DEF RowsWereSo, Table
  <2>3. CASE t = "orders"
    <3>1. run'.raw["orders"] = rows /\ Done[After[t]] = {"orders"}
      BY <1>3, <2>3, Steps
    <3>2. Covers(rows, rows)
      BY DEF Covers, AtLeast
    <3>3. \A o \in Committed \cap Asked : UpToDate(o, rows, run.extracted)
      BY <1>2 DEF UpToDate
    <3>4. Covers(rows, {r \in run.seen : r.order \in Asked})
      BY <1>2, <2>2
    <3> QED
      BY <1>1, <1>3, <1>4, <2>1, <3>1, <3>2, <3>3, <3>4 DEF AskedIsRead, UpToDate, Covers
  <2>4. CASE t # "orders"
    <3>1. /\ run'.raw["orders"] = run.raw["orders"] /\ "orders" \in Table
          /\ Done[After[t]] = Done[t] \cup {t} /\ Done[t] \subseteq Table /\ t \notin Done[t]
          /\ run.step \in Chosen /\ run.step # "orders"
      BY <1>1, <1>3, <2>4, Steps DEF Table
    <3>2. \A r \in run.raw["orders"] : r.order \in Asked
      BY <1>0, <3>1 DEF AskedIsRead
    <3>3. Covers(rows, run.raw["orders"])
      BY <1>2, <2>2, <3>2 DEF Covers
    <3>4. \A x \in Done[After[t]] : Covers(run'.raw[x], run.raw["orders"])
      BY <1>0, <1>1, <1>3, <3>1, <3>3 DEF AskedIsRead
    <3>5. /\ \A o \in Committed \cap Asked : UpToDate(o, run.raw["orders"], run.extracted)
          /\ Covers(run.raw["orders"], {r \in run.seen : r.order \in Asked})
      BY <1>0, <3>1 DEF AskedIsRead
    <3> QED
      BY <1>1, <1>3, <1>4, <2>1, <3>1, <3>4, <3>5 DEF AskedIsRead, UpToDate, Covers
  <2> QED
    BY <2>3, <2>4
<1> QED
  BY <1>1, <1>3, <1>5, <1>6, <1>7, RunKeepsRest DEF IInv

(* The returns are read.                                                   *)
LEMMA ReturnsKeepInv ==
  ASSUME IInv, ReadReturns
  PROVE  IInv'
<1>0. /\ TypeOK /\ RowsWereSo /\ RunStarted /\ RunWatermark /\ OldIsLoaded /\ AskedIsRead
      /\ run \in Run /\ returns \subseteq ReturnRow
  BY DEF IInv, TypeOK
<1>1. /\ run.step = "returns" /\ UNCHANGED <<now, orders, returns, ids, tx, dw>>
      /\ run' = [run EXCEPT !.step = "finish", !.returns = {r \in returns : r.order \in Asked}]
  BY Steps DEF ReadReturns
<1>2. /\ run'.step = "finish" /\ run'.changed = run.changed
      /\ run'.upTo = run.upTo /\ run'.full = run.full /\ run'.extracted = run.extracted
      /\ run'.seen = run.seen /\ run'.raw = run.raw
      /\ run' \in Run
  BY <1>0, <1>1 DEF Run
<1>3. Committed' = Committed /\ Asked' = Asked
  BY <1>1, <1>2 DEF Committed, Asked
<1>4. RowsWereSo'
  BY <1>0, <1>1, <1>2, <1>3 DEF RowsWereSo, WasSo
<1>5. RunStarted' /\ RunWatermark' /\ OldIsLoaded' /\ NothingRead'
  BY <1>0, <1>1, <1>2, <1>3, Steps
     DEF RunStarted, RunWatermark, OldIsLoaded, NothingRead, TxAfter, UpToDate, Covers
<1>6. AskedIsRead'
  BY <1>0, <1>1, <1>2, <1>3, Steps DEF AskedIsRead, UpToDate, Covers
<1> QED
  BY <1>1, <1>2, <1>4, <1>5, <1>6, RunKeepsRest DEF IInv

(* What a run that finishes leaves behind.                                 *)
LEMMA WhatIsLeft ==
  ASSUME IInv, Finish
  PROVE  /\ dw'.there /\ dw'.upTo = run.upTo /\ dw'.extracted = run.extracted
         /\ \A t \in Table :
              /\ run.raw[t] \subseteq dw'.raw[t]
              /\ dw'.raw[t] \subseteq dw.raw[t] \cup run.raw[t]
              /\ \A r \in dw'.raw[t] :
                   \/ r \in run.raw[t]
                   \/ ~run.full /\ r \in dw.raw[t] /\ r.order \notin run.changed
              /\ ~run.full =>
                   \A r \in dw.raw[t] : r.order \notin run.changed => r \in dw'.raw[t]
         /\ dw' \in Warehouse
         /\ run' = NoRun /\ UNCHANGED <<now, orders, returns, ids, tx>>
<1>1. dw \in Warehouse /\ run \in Run
  BY DEF IInv, TypeOK
<1>2. /\ run' = NoRun /\ UNCHANGED <<now, orders, returns, ids, tx>>
      /\ dw' = [there |-> TRUE, upTo |-> run.upTo, extracted |-> run.extracted,
                raw |-> [t \in Table |-> IF run.full THEN run.raw[t]
                                         ELSE Kept(dw.raw[t]) \cup run.raw[t]],
                returns |-> IF run.full THEN run.returns ELSE Kept(dw.returns) \cup run.returns]
  BY DEF Finish
<1>3. \A rows : /\ Kept(rows) \subseteq rows
                /\ \A r \in rows : r \in Kept(rows) <=> r.order \notin run.changed
  BY DEF Kept
<1>4. \A t \in Table : dw'.raw[t] = IF run.full THEN run.raw[t] ELSE Kept(dw.raw[t]) \cup run.raw[t]
  BY <1>2
<1>5. dw' \in Warehouse
  <2>1. [t \in Table |-> IF run.full THEN run.raw[t] ELSE Kept(dw.raw[t]) \cup run.raw[t]]
          \in [Table -> SUBSET Row]
    BY <1>1, <1>3 DEF Warehouse, Run
  <2>2. (IF run.full THEN run.returns ELSE Kept(dw.returns) \cup run.returns) \in SUBSET ReturnRow
    BY <1>1, <1>3 DEF Warehouse, Run
  <2>3. run.upTo \in Nat /\ run.extracted \in Time
    BY <1>1 DEF Run
  <2> QED
    BY <1>2, <2>1, <2>2, <2>3 DEF Warehouse
<1>6. dw'.there /\ dw'.upTo = run.upTo /\ dw'.extracted = run.extracted
  BY <1>2
<1> QED
  BY <1>2, <1>3, <1>4, <1>5, <1>6

(* An order the run did not ask for is an old one that has not changed.    *)
LEMMA NotAsked ==
  ASSUME IInv, run.step = "finish", NEW o \in Order, o <= run.upTo, o \notin Asked
  PROVE  ~run.full /\ o <= dw.upTo /\ o \notin run.changed
<1>1. o \in Nat /\ dw.upTo \in Nat
  BY RunFacts, OrderIds
<1> QED
  BY <1>1 DEF Asked

(* A finished run has all that was committed when it read the clock.       *)
LEMMA FinishMissesNone ==
  ASSUME IInv, Finish
  PROVE  Covers(dw'.raw["orders"], run.seen)
<1>0. /\ OldIsLoaded /\ AskedIsRead /\ RunWatermark /\ run.step = "finish"
      /\ run.step \in Chosen /\ run.step # "orders" /\ "orders" \in Table
      /\ run.seen \subseteq Row
  BY Steps, RunFacts DEF IInv, Finish
<1> SUFFICES ASSUME NEW r \in run.seen
             PROVE  \E x \in dw'.raw["orders"] : x.order = r.order /\ AtLeast(x.status, r.status)
  BY DEF Covers
<1>1. r.order \in Order /\ r.order <= run.upTo
  BY <1>0, RunFacts DEF RunWatermark
<1>2. CASE r.order \in Asked
  <2>1. PICK x \in run.raw["orders"] : x.order = r.order /\ AtLeast(x.status, r.status)
    BY <1>0, <1>2 DEF AskedIsRead, Covers
  <2> QED
    BY <1>0, <2>1, WhatIsLeft
<1>3. CASE r.order \notin Asked
  <2>1. ~run.full /\ r.order <= dw.upTo /\ r.order \notin run.changed
    BY <1>0, <1>1, <1>3, NotAsked
  <2>2. PICK x \in dw.raw["orders"] : x.order = r.order /\ AtLeast(x.status, r.status)
    BY <1>0, <2>1 DEF OldIsLoaded, Covers
  <2> QED
    BY <1>0, <2>1, <2>2, WhatIsLeft
<1> QED
  BY <1>2, <1>3

(* The run has ended well.                                                 *)
LEMMA FinishKeepsInv ==
  ASSUME IInv, Finish
  PROVE  IInv'
<1>0. /\ TypeOK /\ OpenTx /\ IdsGivenOut /\ RowsWereSo /\ UpToWatermark /\ RunStarted /\ RunWatermark
      /\ OldIsLoaded /\ AskedIsRead /\ OrdersAreWhole /\ OneVersion
      /\ run.step = "finish" /\ run.step \in Chosen \ {"orders", "idle"} /\ "orders" \in Table
      /\ Done[run.step] = Table
  BY Steps, RunFacts DEF IInv, Finish
<1>1. Committed' = Committed
  BY WhatIsLeft DEF Committed
<1>2. TypeOK' /\ OpenTx' /\ IdsGivenOut'
  <2>1. NoRun \in Run
    BY OrderIds DEF NoRun, Run, Time, Empty
  <2> QED
    BY <1>0, <1>1, <2>1, WhatIsLeft DEF TypeOK, OpenTx, IdsGivenOut
<1>3. RowsWereSo'
  <2>1. \A t \in Table : WasSo(dw.raw[t]) /\ WasSo(run.raw[t])
    BY <1>0 DEF RowsWereSo
  <2>2. \A t \in Table : \A r \in dw'.raw[t] : r \in dw.raw[t] \cup run.raw[t]
    BY WhatIsLeft
  <2>3. run'.seen = {} /\ (\A t \in Table : run'.raw[t] = {}) /\ orders' = orders
    BY WhatIsLeft DEF NoRun, Empty
  <2> QED
    BY <1>1, <2>1, <2>2, <2>3 DEF RowsWereSo, WasSo
<1>4. \A t \in Table : \A r \in run.raw[t] : r.order \in Asked
  BY <1>0 DEF AskedIsRead
<1>5. UpToWatermark'
  <2>1. dw'.upTo \in Committed' \cup {0}
    BY <1>0, <1>1, WhatIsLeft DEF RunWatermark
  <2>2. ASSUME NEW t \in Table, NEW r \in dw'.raw[t]
        PROVE  r.order <= dw'.upTo
    <3>1. r \in dw.raw[t] \cup run.raw[t] /\ r.order \in Nat /\ dw'.upTo = run.upTo
      BY WhatIsLeft, RunFacts
    <3>2. dw.upTo \in Nat /\ run.upTo \in Nat /\ dw.upTo <= run.upTo
      BY <1>0, RunFacts DEF RunWatermark
    <3>3. r.order <= dw.upTo \/ r.order <= run.upTo
      BY <1>0, <1>4, <3>1 DEF UpToWatermark, Asked
    <3> QED
      BY <3>1, <3>2, <3>3
  <2> QED
    BY <2>1, <2>2 DEF UpToWatermark
<1>6. LoadedOrPending'
  <2>1. run.extracted <= now /\ TxAfter(run.extracted)
    BY <1>0 DEF RunStarted
  <2>2. ASSUME NEW o \in Committed, o <= run.upTo
        PROVE  UpToDate(o, dw'.raw["orders"], run.extracted)
    <3>1. CASE o \in Asked
      BY <1>0, <2>2, <3>1, WhatIsLeft DEF AskedIsRead, UpToDate
    <3>2. CASE o \notin Asked
      <4>1. ~run.full /\ o <= dw.upTo /\ o \notin run.changed
        BY <1>0, <2>2, <3>2, NotAsked DEF Committed
      <4>2. UpToDate(o, dw.raw["orders"], run.extracted)
        BY <1>0, <4>1 DEF OldIsLoaded
      <4> QED
        BY <1>0, <4>1, <4>2, WhatIsLeft DEF UpToDate
    <3> QED
      BY <3>1, <3>2
  <2> QED
    BY <1>1, <2>1, <2>2, WhatIsLeft DEF LoadedOrPending, TxAfter, UpToDate
<1>7. OrdersAreWhole'
  <2> SUFFICES ASSUME NEW t \in Table, NEW r \in dw'.raw["orders"]
               PROVE  \E x \in dw'.raw[t] : x.order = r.order /\ AtLeast(x.status, r.status)
    BY DEF OrdersAreWhole
  <2>1. CASE r \in run.raw["orders"]
    <3>1. PICK x \in run.raw[t] : x.order = r.order /\ AtLeast(x.status, r.status)
      BY <1>0, <2>1 DEF AskedIsRead, Covers
    <3> QED
      BY <3>1, WhatIsLeft
  <2>2. CASE ~run.full /\ r \in dw.raw["orders"] /\ r.order \notin run.changed
    <3>1. PICK x \in dw.raw[t] : x.order = r.order /\ AtLeast(x.status, r.status)
      BY <1>0, <2>2 DEF OrdersAreWhole
    <3> QED
      BY <2>2, <3>1, WhatIsLeft
  <2> QED
    BY <1>0, <2>1, <2>2, WhatIsLeft
<1>8. OneVersion'
  <2> SUFFICES ASSUME NEW t \in Table, NEW a \in dw'.raw[t], NEW b \in dw'.raw[t], a.order = b.order
               PROVE  a = b
    BY DEF OneVersion
  <2>1. \A r \in dw.raw[t] : r.order \in Nat /\ r.order <= dw.upTo
    BY <1>0, RunFacts DEF UpToWatermark
  <2>2. ASSUME NEW r \in run.raw[t], NEW x \in dw.raw[t], ~run.full, x.order \notin run.changed
        PROVE  x.order # r.order
    BY <1>4, <2>1, <2>2, RunFacts DEF Asked
  <2>3. \A x, y \in run.raw[t] : x.order = y.order => x = y
    BY <1>0 DEF AskedIsRead
  <2>4. \A x, y \in dw.raw[t] : x.order = y.order => x = y
    BY <1>0 DEF OneVersion
  <2>5. \A r \in {a, b} : \/ r \in run.raw[t]
                          \/ ~run.full /\ r \in dw.raw[t] /\ r.order \notin run.changed
    BY WhatIsLeft
  <2> QED
    BY <2>2, <2>3, <2>4, <2>5
<1>9. RunStarted' /\ RunWatermark' /\ OldIsLoaded' /\ NothingRead' /\ AskedIsRead'
  BY WhatIsLeft, Steps DEF RunStarted, RunWatermark, OldIsLoaded, NothingRead, AskedIsRead, NoRun
<1> QED
  BY <1>2, <1>3, <1>5, <1>6, <1>7, <1>8, <1>9 DEF IInv

-----------------------------------------------------------------------------
(* The theorems.                                                           *)

(* Every step keeps the invariant.                                         *)
LEMMA NextKeepsInv == IInv /\ [Next]_vars => IInv'
<1> SUFFICES ASSUME IInv, [Next]_vars PROVE IInv'
  OBVIOUS
<1>1. CASE StoreStep
  BY <1>1, StoreKeepsInv
<1>2. CASE \E full \in BOOLEAN : Start(full)
  BY <1>2, StartKeepsInv
<1>3. CASE RunStep
  BY <1>3, WatermarkKeepsInv, ChangedKeepsInv, TableKeepsInv, ReturnsKeepInv,
     FinishKeepsInv DEF RunStep
<1>4. CASE Abort
  BY <1>4, AbortKeepsInv
<1>5. CASE UNCHANGED vars
  BY <1>5 DEF vars, IInv, TypeOK, OpenTx, IdsGivenOut, RowsWereSo, UpToWatermark,
     LoadedOrPending, RunStarted, RunWatermark, OldIsLoaded, NothingRead, AskedIsRead,
     OrdersAreWhole, OneVersion, WasSo, UpToDate, TxAfter, Covers, Committed, Asked
<1> QED
  BY <1>1, <1>2, <1>3, <1>4, <1>5 DEF Next, StoreStep

(* The invariant of the store, the run and the warehouse holds always.     *)
THEOREM InvariantHolds == Spec => []IInv
<1> QED
  BY InitInv, NextKeepsInv, PTL DEF Spec

(* No statement of a run that sees the store later than another leaves     *)
(* half of an order in the warehouse.                                      *)
THEOREM OrdersWhole == Spec => []OrdersAreWhole
<1>1. IInv => OrdersAreWhole
  BY DEF IInv
<1> QED
  BY <1>1, InvariantHolds, PTL

(* No run, full or incremental, leaves an order in two versions.           *)
THEOREM OneVersionEach == Spec => []OneVersion
<1>1. IInv => OneVersion
  BY DEF IInv
<1> QED
  BY <1>1, InvariantHolds, PTL

(* A run that finishes has every order that was committed when it read the *)
(* clock, however late what came before it committed.                      *)
THEOREM NoOrderIsMissed == Spec => NoOrderMissed
<1>1. IInv /\ [Next]_vars =>
        [Finish => \A r \in run.seen : \E x \in dw'.raw["orders"] :
                     x.order = r.order /\ AtLeast(x.status, r.status)]_vars
  BY FinishMissesNone DEF Covers
<1> QED
  BY <1>1, InitInv, NextKeepsInv, PTL DEF Spec, NoOrderMissed
=============================================================================
