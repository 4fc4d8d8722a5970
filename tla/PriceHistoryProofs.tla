------------------------- MODULE PriceHistoryProofs -------------------------
(***************************************************************************)
(* Proofs about PriceHistory, for any number of sessions, checkouts and    *)
(* prices: the inductive invariant IInv, from it that the history is the   *)
(* log of PriceBook, that closed versions stay as they are, and that each  *)
(* extracted sale joins with one version.                                  *)
(***************************************************************************)
EXTENDS PriceHistory, FiniteSetTheorems, WellFoundedInduction, TLAPS

USE PriceHistoryAssumption

-----------------------------------------------------------------------------
(* Least and greatest elements.                                            *)

LEMMA LessIsWellFounded == IsWellFoundedOn({ss \in Nat \X Nat : ss[1] < ss[2]}, Nat)
  BY NatLessThanWellFounded DEF OpToRel

(* A set of natural numbers has a least element.                           *)
LEMMA LeastNatural ==
  ASSUME NEW T, T \subseteq Nat, T # {}
  PROVE  \E n \in T : \A m \in T : n <= m
  <1>1. PICK x \in T : \A y \in T : ~(<<y, x>> \in {ss \in Nat \X Nat : ss[1] < ss[2]})
    BY LessIsWellFounded, WFMin, Zenon
  <1>2. ASSUME NEW y \in T PROVE x <= y
    <2>1. x \in Nat /\ y \in Nat
      OBVIOUS
    <2>2. ~(<<y, x>> \in {ss \in Nat \X Nat : ss[1] < ss[2]})
      BY <1>1
    <2>3. SUFFICES ASSUME y < x PROVE FALSE
      BY <2>1
    <2>4. <<y, x>> \in {ss \in Nat \X Nat : ss[1] < ss[2]}
      BY <2>1, <2>3
    <2> QED
      BY <2>2, <2>4
  <1> QED
    BY <1>2

(* The watermark is the id of an order that was placed, or 0 (max(id)).    *)
LEMMA MaxIdIsPlaced ==
  ASSUME TypeOK
  PROVE  /\ MaxId \in 0..Cardinality(Buyer)
         /\ MaxId > 0 => Sold # {}
  <1> DEFINE Bound == {n \in 0..Cardinality(Buyer) : \A b \in Sold : buy[b].id <= n}
  <1>1. Cardinality(Buyer) \in Nat
    BY FS_CardinalityType
  <1>2. \A b \in Sold : b \in Buyer /\ buy[b].id \in 0..Cardinality(Buyer)
    BY DEF Sold, TypeOK
  <1>3. Cardinality(Buyer) \in Bound /\ Bound \subseteq Nat
    BY <1>1, <1>2
  <1>4. PICK n \in Bound : \A m \in Bound : n <= m
    <2> HIDE DEF Bound
    <2> QED
      BY <1>3, LeastNatural
  <1>5. n = 0 \/ \E b \in Sold : buy[b].id = n
    <2>1. SUFFICES ASSUME n # 0, \A b \in Sold : buy[b].id # n PROVE FALSE
      OBVIOUS
    <2>2. n - 1 \in 0..Cardinality(Buyer) /\ ~(n <= n - 1)
      BY <1>1, <2>1
    <2>3. \A b \in Sold : buy[b].id <= n - 1
      BY <1>1, <1>2, <2>1
    <2> QED
      BY <1>4, <2>2, <2>3
  <1>6. \E k \in 0..Cardinality(Buyer) :
          /\ k = 0 \/ \E b \in Sold : buy[b].id = k
          /\ \A b \in Sold : buy[b].id <= k
    BY <1>5
  <1>7. /\ MaxId \in 0..Cardinality(Buyer)
        /\ MaxId = 0 \/ \E b \in Sold : buy[b].id = MaxId
    BY <1>6 DEF MaxId
  <1> QED
    BY <1>1, <1>7

-----------------------------------------------------------------------------
(* A price change.                                                         *)

(* The version a price change closes is the open one, and the last.        *)
LEMMA RepricedIsLast ==
  ASSUME IInv, NEW s \in Session, NEW v \in versions, NEW p \in Price, Reprice(s, v, p)
  PROVE  /\ Live /\ v.to = Open /\ v.from < tx[s].at
         /\ tx[s].at \in Time /\ v \in Version
         /\ \A u \in versions : u # v => u.from < v.from /\ u.to <= v.from /\ u.to # Open
  <1>1. Live
    BY DEF IInv
  <1>2. v.to = Open
    BY <1>1 DEF IInv, Gapless, Reprice, OneCurrent, OpenVersions
  <1>3. v.from < tx[s].at /\ tx[s].at \in Time /\ v \in Version
    BY DEF Reprice, ValidRange, IInv, TypeOK
  <1>4. ASSUME NEW u \in versions, u # v
        PROVE  u.from < v.from /\ u.to <= v.from /\ u.to # Open
    <2>1. u \in Version /\ u.from # v.from
      BY <1>4 DEF IInv, TypeOK, History
    <2>2. ~(v.from < u.from)
      BY <1>2, <1>3, <2>1 DEF IInv, History, Version, Time, Open
    <2>3. u.from < v.from
      BY <1>3, <2>1, <2>2 DEF Version, Time
    <2>4. u.to <= v.from
      BY <2>3 DEF IInv, History
    <2> QED
      BY <1>3, <2>1, <2>3, <2>4 DEF Version, Time, Open
  <1> QED
    BY <1>1, <1>2, <1>3, <1>4

(* Closing the last version at t and opening one at t keeps a history.     *)
LEMMA RepriceKeepsHistory ==
  ASSUME NEW S, S \subseteq Version, History(S),
         NEW v \in S, v.to = Open, NEW t \in Time, v.from < t, NEW p \in Price,
         \A u \in S : u # v => u.from < v.from /\ u.to <= v.from
  PROVE  History((S \ {v}) \cup {[v EXCEPT !.to = t], [from |-> t, to |-> Open, price |-> p]})
  <1> DEFINE closed == [v EXCEPT !.to = t]
             opened == [from |-> t, to |-> Open, price |-> p]
             S2     == (S \ {v}) \cup {closed, opened}
  <1>1. /\ v \in Version /\ closed \in Version /\ opened \in Version
        /\ closed.from = v.from /\ closed.to = t
        /\ opened.from = t /\ opened.to = Open
    BY DEF Version, Time, Open
  <1>2. \A u \in S : u # v => u \in Version /\ u.from < v.from /\ u.to <= v.from
    OBVIOUS
  <1> HIDE DEF closed, opened
  <1>3. \A u \in S2 : u.from < u.to
    BY <1>1, <1>2 DEF History, Version, Time, Open
  <1>4. \A u, w \in S2 : u.from = w.from => u = w
    BY <1>1, <1>2 DEF History, Version, Time, Open
  <1>5. \A u, w \in S2 : u.from < w.from => u.to <= w.from
    BY <1>1, <1>2 DEF History, Version, Time, Open
  <1>6. ASSUME NEW u \in S2, NEW i \in Time, u.from <= i
        PROVE  \E w \in S2 : w.from <= i /\ i < w.to
    <2>1. CASE t <= i
      BY <1>1, <2>1 DEF Time, Open
    <2>2. CASE i < t /\ v.from <= i
      BY <1>1, <2>2
    <2>3. CASE i < v.from
      <3>1. u \in S /\ u # v
        BY <1>1, <1>6, <2>3 DEF Version, Time
      <3>2. PICK w \in S : w.from <= i /\ i < w.to
        BY <1>6, <3>1 DEF History
      <3>3. w # v
        BY <1>1, <2>3, <3>2 DEF Version, Time
      <3> QED
        BY <3>2, <3>3
    <2> QED
      BY <1>1, <2>1, <2>2, <2>3 DEF Version, Time
  <1>7. History(S2)
    BY <1>3, <1>4, <1>5, <1>6 DEF History
  <1> QED
    BY <1>7 DEF closed, opened

(* A price change, of either program, keeps the invariant.                 *)
LEMMA RepriceInv ==
  ASSUME IInv, NEW s \in Session, NEW v \in versions, NEW p \in Price, Reprice(s, v, p)
  PROVE  IInv'
  <1> DEFINE t      == tx[s].at
             closed == [v EXCEPT !.to = t]
             opened == [from |-> t, to |-> Open, price |-> p]
  <1>1. /\ Live /\ v.to = Open /\ v.from < t /\ t \in Time /\ v \in Version
        /\ \A u \in versions : u # v => u.from < v.from /\ u.to <= v.from /\ u.to # Open
    BY RepricedIsLast
  <1>2. /\ versions' = (versions \ {v}) \cup {closed, opened}
        /\ price' = p /\ tx' = [tx EXCEPT ![s] = NoTx]
        /\ UNCHANGED <<clock, created, buy, raw>>
    BY DEF Reprice
  <1>3. /\ closed \in Version /\ opened \in Version
        /\ closed.from = v.from /\ closed.to = t /\ opened.from = t /\ opened.to = Open
        /\ opened.price = p
    BY <1>1 DEF Version, Time, Open
  <1>4. History(versions')
    <2>1. versions \subseteq Version /\ History(versions)
      BY DEF IInv, TypeOK
    <2> QED
      BY <1>1, <1>2, <2>1, RepriceKeepsHistory
  <1>5. NoTx \in [phase : {"idle", "close", "read", "save", "delete"}, at : Time,
                  price : Price \cup {None}, target : SUBSET Version]
    BY DEF NoTx, Time
  <1> HIDE DEF closed, opened
  <1>6. TypeOK'
    BY <1>2, <1>3, <1>5 DEF IInv, TypeOK
  <1>7. Live'
    BY <1>2 DEF Live
  <1>8. Gapless'
    <2>1. \A u, w \in versions' : u.from < w.from => u.to <= w.from
      BY <1>4 DEF History
    <2>2. ASSUME NEW u \in versions', u.to # Open
          PROVE  \E w \in versions' : w.from = u.to
      <3>1. CASE u = closed
        BY <1>2, <1>3, <3>1
      <3>2. CASE u = opened
        BY <1>3, <2>2, <3>2
      <3>3. CASE u \in versions /\ u # v
        <4>1. PICK w \in versions : w.from = u.to
          BY <2>2, <3>3 DEF IInv, Gapless
        <4> QED
          BY <1>2, <1>3, <4>1
      <3> QED
        BY <1>2, <3>1, <3>2, <3>3
    <2>3. \E u \in versions' : u.to = Open /\ u.price = price'
      BY <1>2, <1>3
    <2> QED
      BY <1>7, <2>1, <2>2, <2>3 DEF Gapless
  <1>9. TargetsWereOpen'
    BY <1>2 DEF IInv, TypeOK, TargetsWereOpen, NoTx
  <1>10. SalesKeepProduct'
    <2>1. ASSUME raw.max > 0, raw.phase \in {"prices", "done"}, NEW u \in versions'
          PROVE  \E w \in raw.versions : w.from <= u.from
      <3>1. \E x \in versions : x.from <= u.from
        BY <1>1, <1>2, <1>3 DEF IInv, TypeOK, Version, Time
      <3>2. PICK x \in versions, w \in raw.versions : x.from <= u.from /\ w.from <= x.from
        BY <2>1, <3>1 DEF IInv, SalesKeepProduct
      <3>3. x \in Version /\ w \in Version /\ u \in Version
        BY <1>6, <1>2 DEF IInv, TypeOK
      <3> QED
        BY <3>2, <3>3 DEF Version, Time
    <2> QED
      BY <1>2, <1>7, <2>1 DEF IInv, SalesKeepProduct, Sold
  <1>11. /\ \A x \in Session : tx'[x].phase \in {"read", "save"} => tx'[x].price \in Price
         /\ \A x \in Session : tx'[x].at <= clock'
    BY <1>2 DEF IInv, TypeOK, NoTx, Time
  <1>12. \A u \in versions' : u.from <= clock'
    BY <1>2, <1>3 DEF IInv
  <1> QED
    BY <1>2, <1>4, <1>6, <1>7, <1>8, <1>9, <1>10, <1>11, <1>12 DEF IInv

-----------------------------------------------------------------------------
(* The other steps.                                                        *)

(* A new product has no sales and no versions yet.                         *)
LEMMA CreateInv == ASSUME IInv, NEW s \in NetSession, NetCreate(s) PROVE IInv'
  <1>1. PICK t \in 0..clock, p \in Price :
          versions' = {[from |-> t, to |-> Open, price |-> p]} /\ price' = p
    BY DEF NetCreate
  <1>2. ~Live /\ versions = {} /\ created' /\ UNCHANGED <<clock, tx, buy, raw>>
    BY DEF NetCreate, IInv
  <1>3. t \in Time /\ t <= clock /\ [from |-> t, to |-> Open, price |-> p] \in Version
    BY DEF IInv, TypeOK, Time, Version, Open
  <1>4. Sold = {} /\ \A b \in Buyer : buy[b].phase \notin {"inserted", "placed"}
    BY <1>2 DEF IInv, SalesKeepProduct, Sold
  <1>5. ~(raw.max > 0)
    BY <1>4 DEF IInv, SalesKeepProduct
  <1>6. Live'
    BY <1>1 DEF Live
  <1>7. TypeOK'
    BY <1>1, <1>2, <1>3 DEF IInv, TypeOK, NetCreate
  <1>8. History(versions')
    BY <1>1, <1>3 DEF History, Time, Open
  <1>9. Gapless'
    BY <1>1, <1>6 DEF Gapless, Time, Open
  <1>10. SalesKeepProduct'
    BY <1>2, <1>4, <1>5 DEF IInv, SalesKeepProduct, Sold
  <1> QED
    BY <1>1, <1>2, <1>3, <1>6, <1>7, <1>8, <1>9, <1>10 DEF IInv, TargetsWereOpen

(* A product that is deleted has no order, so no extract counts on it.     *)
LEMMA DeleteInv == ASSUME IInv, NEW s \in NetSession, NetDelete(s) PROVE IInv'
  <1>1. /\ versions' = {} /\ price' = None /\ tx' = [tx EXCEPT ![s] = NoTx]
        /\ UNCHANGED <<clock, created, buy, raw>>
        /\ \A b \in Buyer : buy[b].phase \notin {"inserted", "placed"}
    BY DEF NetDelete, NoLineRefers
  <1>2. NoTx \in [phase : {"idle", "close", "read", "save", "delete"}, at : Time,
                  price : Price \cup {None}, target : SUBSET Version]
    BY DEF NoTx, Time
  <1>3. Sold = {}
    BY <1>1 DEF Sold
  <1>4. TypeOK' /\ ~Live'
    BY <1>1, <1>2 DEF IInv, TypeOK, Live
  <1>5. Gapless' /\ History(versions')
    BY <1>1, <1>4 DEF Gapless, History
  <1>6. TargetsWereOpen'
    BY <1>1 DEF IInv, TypeOK, TargetsWereOpen, NoTx, Session
  <1>7. SalesKeepProduct'
    BY <1>1, <1>3 DEF IInv, SalesKeepProduct, Sold
  <1>8. /\ \A x \in Session : tx'[x].phase \in {"read", "save"} => tx'[x].price \in Price
        /\ \A x \in Session : tx'[x].at <= clock'
    BY <1>1 DEF IInv, TypeOK, NoTx, Time, Session
  <1> QED
    BY <1>1, <1>4, <1>5, <1>6, <1>7, <1>8 DEF IInv

(* What a session has in hand.                                             *)
Transaction == [phase  : {"idle", "close", "read", "save", "delete"},
                at     : Time,
                price  : Price \cup {None},
                target : SUBSET Version]

BuyerState == [phase  : {"idle", "priced", "inserted", "placed"},
               placed : Time,
               price  : Price \cup {None},
               id     : 0..Cardinality(Buyer)]

(* A line inserted under an id of the table is still a buyer's state.      *)
LEMMA InsertedBuyer ==
  ASSUME NEW line \in BuyerState, NEW i \in 0..Cardinality(Buyer)
  PROVE  [line EXCEPT !.phase = "inserted", !.id = i] \in BuyerState
  BY DEF BuyerState

(* What a session reads, or gives up, leaves the history alone.            *)
LEMMA SessionInv ==
  ASSUME IInv, NEW s \in Session, NEW new \in Transaction,
         new.at <= clock,
         new.phase \in {"read", "save"} => new.price \in Price,
         \A v \in new.target : v.to = Open,
         tx' = [tx EXCEPT ![s] = new],
         UNCHANGED <<clock, versions, price, created, buy, raw>>
  PROVE  IInv'
  <1>1. TypeOK'
    BY DEF IInv, TypeOK, Transaction
  <1>2. TargetsWereOpen'
    BY DEF IInv, TypeOK, TargetsWereOpen
  <1>3. SalesKeepProduct' /\ Gapless'
    BY DEF IInv, SalesKeepProduct, Sold, Gapless, Live
  <1>4. /\ \A x \in Session : tx'[x].phase \in {"read", "save"} => tx'[x].price \in Price
        /\ \A x \in Session : tx'[x].at <= clock'
    BY DEF IInv, TypeOK
  <1> QED
    BY <1>1, <1>2, <1>3, <1>4 DEF IInv, Live

(* Reading, counting and rolling back.                                     *)
LEMMA SessionStep ==
  ASSUME IInv, NEW s \in Session,
         \/ GoPick(s) \/ Rollback(s)
         \/ s \in NetSession /\ (NetRead(s) \/ NetReadOpen(s) \/ NetCount(s))
  PROVE  IInv'
  <1>1. /\ NoTx \in Transaction /\ NoTx.at = 0 /\ NoTx.phase = "idle" /\ NoTx.target = {}
        /\ clock \in Time /\ tx \in [Session -> Transaction] /\ tx[s].at <= clock
        /\ OpenVersions(versions) \subseteq Version
        /\ \A v \in OpenVersions(versions) : v.to = Open
    BY DEF NoTx, Time, IInv, TypeOK, OpenVersions, Transaction
  <1>2. CASE Rollback(s)
    <2>1. tx' = [tx EXCEPT ![s] = NoTx] /\ UNCHANGED <<clock, versions, price, created, buy, raw>>
      BY <1>2 DEF Rollback
    <2>2. NoTx.at <= clock /\ NoTx.phase \notin {"read", "save"} /\ \A v \in NoTx.target : v.to = Open
      BY <1>1 DEF Time
    <2> QED
      BY <1>1, <2>1, <2>2, SessionInv
  <1>3. CASE GoPick(s)
    <2>1. PICK t \in 0..clock :
            tx' = [tx EXCEPT ![s] = [NoTx EXCEPT !.phase = "close", !.at = t,
                                                 !.target = OpenVersions(versions)]]
      BY <1>3 DEF GoPick
    <2> DEFINE new == [NoTx EXCEPT !.phase = "close", !.at = t, !.target = OpenVersions(versions)]
    <2>2. /\ new \in Transaction /\ new.at <= clock /\ new.phase = "close"
          /\ new.target = OpenVersions(versions)
      <3>1. t \in Time /\ t <= clock
        BY <1>1 DEF Time
      <3> QED
        BY <1>1, <3>1 DEF Transaction
    <2>3. tx' = [tx EXCEPT ![s] = new] /\ UNCHANGED <<clock, versions, price, created, buy, raw>>
      BY <1>3, <2>1 DEF GoPick
    <2> HIDE DEF new
    <2> QED
      BY <1>1, <2>2, <2>3, SessionInv
  <1>4. CASE s \in NetSession /\ NetRead(s)
    <2>1. PICK p \in Price \ {price} :
            tx' = [tx EXCEPT ![s] = [NoTx EXCEPT !.phase = "read", !.at = clock, !.price = p]]
      BY <1>4 DEF NetRead
    <2> DEFINE new == [NoTx EXCEPT !.phase = "read", !.at = clock, !.price = p]
    <2>2. new \in Transaction /\ new.at <= clock /\ new.price \in Price /\ new.target = {}
      <3>1. clock <= clock
        BY <1>1 DEF Time
      <3> QED
        BY <1>1, <3>1 DEF Transaction
    <2>3. tx' = [tx EXCEPT ![s] = new] /\ UNCHANGED <<clock, versions, price, created, buy, raw>>
      BY <1>4, <2>1 DEF NetRead
    <2> HIDE DEF new
    <2> QED
      BY <2>2, <2>3, SessionInv
  <1>5. CASE s \in NetSession /\ NetReadOpen(s)
    <2>1. PICK t \in tx[s].at..clock :
            tx' = [tx EXCEPT ![s].phase = "save", ![s].at = t, ![s].target = OpenVersions(versions)]
      BY <1>5 DEF NetReadOpen
    <2> DEFINE new == [tx[s] EXCEPT !.phase = "save", !.at = t, !.target = OpenVersions(versions)]
    <2>2. tx[s] \in Transaction /\ tx[s].price \in Price
      BY <1>1, <1>5 DEF NetReadOpen, InPhase, IInv
    <2>3. /\ new \in Transaction /\ new.at <= clock /\ new.price \in Price
          /\ new.target = OpenVersions(versions)
      <3>1. t \in Time /\ t <= clock
        BY <1>1, <2>2 DEF Transaction, Time
      <3> QED
        BY <1>1, <2>2, <3>1 DEF Transaction
    <2>4. tx' = [tx EXCEPT ![s] = new] /\ UNCHANGED <<clock, versions, price, created, buy, raw>>
      BY <1>1, <1>5, <2>1 DEF NetReadOpen
    <2> HIDE DEF new
    <2> QED
      BY <1>1, <2>3, <2>4, SessionInv
  <1>6. CASE s \in NetSession /\ NetCount(s)
    <2> DEFINE new == [NoTx EXCEPT !.phase = "delete"]
    <2>1. new \in Transaction /\ new.at <= clock /\ new.phase = "delete" /\ new.target = {}
      <3>1. 0 <= clock
        BY <1>1 DEF Time
      <3> QED
        BY <1>1, <3>1 DEF Transaction
    <2>2. tx' = [tx EXCEPT ![s] = new] /\ UNCHANGED <<clock, versions, price, created, buy, raw>>
      BY <1>6 DEF NetCount
    <2> HIDE DEF new
    <2> QED
      BY <2>1, <2>2, SessionInv
  <1> QED
    BY <1>2, <1>3, <1>4, <1>5, <1>6

(* The clock.                                                              *)
LEMMA TickInv == ASSUME IInv, Tick PROVE IInv'
  <1>1. clock' = clock + 1 /\ clock' \in Time /\ UNCHANGED <<versions, price, created, tx, buy, raw>>
    BY DEF Tick, IInv, TypeOK, Time
  <1>2. TypeOK'
    BY <1>1 DEF IInv, TypeOK
  <1>3. SalesKeepProduct' /\ Gapless' /\ TargetsWereOpen'
    BY <1>1 DEF IInv, SalesKeepProduct, Sold, Gapless, Live, TargetsWereOpen
  <1>4. \A x \in Session : tx'[x].at <= clock'
    BY <1>1 DEF IInv, TypeOK, Time
  <1>5. \A v \in versions' : v.from <= clock'
    BY <1>1 DEF IInv, TypeOK, Time, Version
  <1> QED
    BY <1>1, <1>2, <1>3, <1>4, <1>5 DEF IInv, Live

-----------------------------------------------------------------------------
(* Checkouts and the extract.                                              *)

(* An id is left for a checkout that has none.                             *)
LEMMA IdIsLeft ==
  ASSUME TypeOK, NEW b \in Buyer, buy[b].id = 0
  PROVE  NextId \in 1..Cardinality(Buyer)
  <1> DEFINE taken == {c \in Buyer : buy[c].id # 0}
  <1>1. taken \subseteq Buyer \ {b}
    OBVIOUS
  <1>2. IsFiniteSet(Buyer \ {b}) /\ Cardinality(Buyer \ {b}) = Cardinality(Buyer) - 1
    BY FS_RemoveElement
  <1>3. IsFiniteSet(taken) /\ Cardinality(taken) <= Cardinality(Buyer \ {b})
    BY <1>1, <1>2, FS_Subset
  <1>4. Cardinality(taken) \in Nat /\ Cardinality(Buyer) \in Nat
    BY <1>3, FS_CardinalityType
  <1>5. NextId = 1 + Cardinality(taken)
    BY DEF NextId
  <1> HIDE DEF taken
  <1> QED
    BY <1>2, <1>3, <1>4, <1>5

(* A checkout inserts a line of a product that exists, and thereby keeps   *)
(* it in existence.                                                        *)
LEMMA BuyInv ==
  ASSUME IInv, NEW b \in Buyer, BuyRead(b) \/ BuyInsert(b) \/ BuyCommit(b)
  PROVE  IInv'
  <1>1. UNCHANGED <<clock, versions, price, created, tx, raw>> /\ Cardinality(Buyer) \in Nat
    BY FS_CardinalityType DEF BuyRead, BuyInsert, BuyCommit
  <1>2. TypeOK' /\ SalesKeepProduct'
    <2>1. CASE BuyRead(b)
      <3>1. PICK t \in 0..clock :
              buy' = [buy EXCEPT ![b] = [phase |-> "priced", placed |-> t, price |-> price, id |-> 0]]
        BY <2>1 DEF BuyRead
      <3>2. t \in Time /\ buy[b].phase = "idle"
        BY <2>1 DEF IInv, TypeOK, Time, BuyRead
      <3>3. TypeOK'
        BY <1>1, <3>1, <3>2 DEF IInv, TypeOK
      <3>4. SalesKeepProduct'
        BY <1>1, <3>1, <3>2 DEF IInv, TypeOK, SalesKeepProduct, Sold, Live
      <3> QED
        BY <3>3, <3>4
    <2>2. CASE BuyInsert(b)
      <3>1. /\ buy' = [buy EXCEPT ![b].phase = "inserted", ![b].id = NextId]
            /\ buy[b].phase = "priced" /\ Live
        BY <2>2 DEF BuyInsert
      <3>2. buy[b].id = 0
        BY <3>1 DEF IInv, SalesKeepProduct
      <3>3. NextId \in 1..Cardinality(Buyer)
        BY <3>2, IdIsLeft DEF IInv
      <3>4. TypeOK'
        <4> DEFINE new == [buy[b] EXCEPT !.phase = "inserted", !.id = NextId]
        <4>1. buy' = [buy EXCEPT ![b] = new]
          BY <3>1 DEF IInv, TypeOK
        <4>2. NextId \in 0..Cardinality(Buyer)
          BY <1>1, <3>3
        <4>3. buy[b] \in BuyerState
          BY DEF IInv, TypeOK, BuyerState
        <4>4. new \in BuyerState
          BY <4>2, <4>3, InsertedBuyer
        <4> HIDE DEF new
        <4> QED
          BY <1>1, <4>1, <4>4 DEF IInv, TypeOK, BuyerState
      <3>5. Sold' = Sold
        BY <3>1 DEF IInv, TypeOK, Sold
      <3>6. SalesKeepProduct'
        BY <1>1, <3>1, <3>3, <3>5 DEF IInv, TypeOK, SalesKeepProduct, Sold, Live
      <3> QED
        BY <3>4, <3>6
    <2>3. CASE BuyCommit(b)
      <3>1. buy' = [buy EXCEPT ![b].phase = "placed"] /\ buy[b].phase = "inserted"
        BY <2>3 DEF BuyCommit
      <3>2. TypeOK'
        BY <1>1, <3>1 DEF IInv, TypeOK
      <3>3. Sold' = Sold \cup {b}
        BY <3>1 DEF IInv, TypeOK, Sold
      <3>4. \A c \in Buyer : buy'[c].id = buy[c].id
        BY <3>1 DEF IInv, TypeOK
      <3>5. \A c \in Buyer : buy'[c].phase \in {"inserted", "placed"}
                                <=> buy[c].phase \in {"inserted", "placed"}
        BY <3>1 DEF IInv, TypeOK
      <3>6. SalesKeepProduct'
        <4>1. \A c \in raw'.orders : c \in Sold' /\ buy'[c].id <= raw'.max
          BY <1>1, <3>3, <3>4 DEF IInv, SalesKeepProduct, Sold
        <4>2. raw'.max > 0 => Sold' # {}
          BY <3>3
        <4> QED
          BY <1>1, <3>4, <3>5, <4>1, <4>2 DEF IInv, SalesKeepProduct, Live
      <3> QED
        BY <3>2, <3>6
    <2> QED
      BY <2>1, <2>2, <2>3
  <1>3. Gapless' /\ TargetsWereOpen'
    BY <1>1 DEF IInv, Gapless, Live, TargetsWereOpen
  <1> QED
    BY <1>1, <1>2, <1>3 DEF IInv, Live

(* The extract: orders up to the watermark have kept their product, so its *)
(* row and its versions are found.                                         *)
LEMMA ExtractInv ==
  ASSUME IInv, EtlBegin \/ EtlProducts \/ EtlPrices \/ EtlOrders
  PROVE  IInv'
  <1>1. UNCHANGED <<clock, versions, price, created, tx, buy>>
    BY DEF EtlBegin, EtlProducts, EtlPrices, EtlOrders, Extract
  <1>2. TypeOK' /\ SalesKeepProduct' /\ History(raw'.versions)
    <2>1. CASE EtlBegin
      <3>1. raw' = [phase |-> "watermark", max |-> MaxId, live |-> FALSE, versions |-> {}, orders |-> {}]
        BY <2>1 DEF EtlBegin, Extract, NoRaw, Watermark
      <3>2. MaxId \in 0..Cardinality(Buyer) /\ (MaxId > 0 => Sold # {})
        BY MaxIdIsPlaced DEF IInv
      <3>3. TypeOK'
        BY <1>1, <3>1, <3>2 DEF IInv, TypeOK
      <3>4. SalesKeepProduct'
        BY <1>1, <3>1, <3>2 DEF IInv, SalesKeepProduct, Sold, Live
      <3> QED
        BY <3>1, <3>3, <3>4 DEF History
    <2>2. CASE EtlProducts
      <3>1. /\ raw' = [raw EXCEPT !.live = Live, !.phase = "products"]
            /\ raw.phase = "watermark"
        BY <2>2 DEF EtlProducts, Extract, IInv, TypeOK
      <3>2. TypeOK'
        BY <1>1, <3>1 DEF IInv, TypeOK, Live
      <3>3. raw.max > 0 => Live
        BY DEF IInv, SalesKeepProduct, Sold
      <3>4. /\ raw'.max = raw.max /\ raw'.live = Live /\ raw'.phase = "products"
            /\ raw'.versions = raw.versions /\ raw'.orders = raw.orders
        BY <3>1 DEF IInv, TypeOK
      <3>5. SalesKeepProduct'
        BY <1>1, <3>3, <3>4 DEF IInv, SalesKeepProduct, Sold, Live
      <3> QED
        BY <3>2, <3>4, <3>5 DEF IInv
    <2>3. CASE EtlPrices
      <3>1. /\ raw' = [raw EXCEPT !.versions = versions, !.phase = "prices"]
            /\ raw.phase = "products"
        BY <2>3 DEF EtlPrices, Extract, IInv, TypeOK
      <3>2. TypeOK'
        BY <1>1, <3>1 DEF IInv, TypeOK
      <3>3. /\ raw'.max = raw.max /\ raw'.live = raw.live /\ raw'.phase = "prices"
            /\ raw'.versions = versions /\ raw'.orders = raw.orders
        BY <3>1 DEF IInv, TypeOK
      <3>4. \A v \in versions : v.from <= v.from
        BY DEF IInv, TypeOK, Version, Time
      <3>5. SalesKeepProduct'
        BY <1>1, <3>1, <3>3, <3>4 DEF IInv, SalesKeepProduct, Sold, Live
      <3> QED
        BY <3>2, <3>3, <3>5 DEF IInv
    <2>4. CASE EtlOrders
      <3>1. /\ raw' = [raw EXCEPT !.orders = {b \in Sold : buy[b].id <= raw.max}, !.phase = "done"]
            /\ raw.phase = "prices"
        BY <2>4 DEF EtlOrders, Extract, IInv, TypeOK
      <3>2. TypeOK'
        BY <1>1, <3>1 DEF IInv, TypeOK, Sold
      <3>3. /\ raw'.max = raw.max /\ raw'.live = raw.live /\ raw'.phase = "done"
            /\ raw'.versions = raw.versions /\ raw'.orders = {b \in Sold : buy[b].id <= raw.max}
        BY <3>1 DEF IInv, TypeOK
      <3>4. SalesKeepProduct'
        BY <1>1, <3>1, <3>3 DEF IInv, SalesKeepProduct, Sold, Live
      <3> QED
        BY <3>2, <3>3, <3>4 DEF IInv
    <2> QED
      BY <2>1, <2>2, <2>3, <2>4
  <1>3. Gapless' /\ TargetsWereOpen'
    BY <1>1 DEF IInv, Gapless, Live, TargetsWereOpen
  <1> QED
    BY <1>1, <1>2, <1>3 DEF IInv, Live

-----------------------------------------------------------------------------
LEMMA InitInv == Init => IInv
  <1>1. SUFFICES ASSUME Init PROVE IInv
    OBVIOUS
  <1>2. TypeOK
    <2>1. 0 \in Time /\ 0 \in 0..Cardinality(Buyer)
      BY FS_CardinalityType DEF Time
    <2>2. NoTx \in Transaction
      BY <2>1 DEF NoTx, Transaction
    <2> QED
      BY <1>1, <2>1, <2>2 DEF Init, TypeOK, Transaction, NoOrder, NoRaw
  <1>3. SalesKeepProduct /\ TargetsWereOpen /\ Gapless /\ ~Live
    BY <1>1 DEF Init, SalesKeepProduct, TargetsWereOpen, Gapless, Live, NoTx, NoOrder, NoRaw, Sold
  <1>4. History({})
    BY DEF History
  <1> QED
    BY <1>1, <1>2, <1>3, <1>4 DEF Init, IInv, NoTx, NoRaw

(* What a price change of either program comes to.                         *)
LEMMA ChangeIsReprice ==
  ASSUME IInv, NEW s \in Session,
         (s \in GoSession /\ GoClose(s)) \/ (s \in NetSession /\ NetSave(s))
  PROVE  \E v \in versions, p \in Price : Reprice(s, v, p)
  <1>1. CASE s \in GoSession /\ GoClose(s)
    BY <1>1 DEF GoClose, StillOpen
  <1>2. CASE s \in NetSession /\ NetSave(s)
    BY <1>2 DEF NetSave, InPhase, IInv
  <1> QED
    BY <1>1, <1>2

LEMMA NextInv == IInv /\ [Next]_vars => IInv'
  <1> SUFFICES ASSUME IInv, [Next]_vars PROVE IInv'
    OBVIOUS
  <1> USE DEF Session
  <1>1. CASE Tick
    BY <1>1, TickInv
  <1>2. ASSUME NEW s \in GoSession, GoPick(s) PROVE IInv'
    BY <1>2, SessionStep
  <1>3. ASSUME NEW s \in Session,
               (s \in GoSession /\ GoClose(s)) \/ (s \in NetSession /\ NetSave(s))
        PROVE  IInv'
    BY <1>3, ChangeIsReprice, RepriceInv
  <1>4. ASSUME NEW s \in NetSession, NetCreate(s) PROVE IInv'
    BY <1>4, CreateInv
  <1>5. ASSUME NEW s \in NetSession, NetRead(s) \/ NetReadOpen(s) \/ NetCount(s) PROVE IInv'
    BY <1>5, SessionStep
  <1>6. ASSUME NEW s \in NetSession, NetDelete(s) PROVE IInv'
    BY <1>6, DeleteInv
  <1>7. ASSUME NEW s \in Session, Rollback(s) PROVE IInv'
    BY <1>7, SessionStep
  <1>8. ASSUME NEW b \in Buyer, BuyRead(b) \/ BuyInsert(b) \/ BuyCommit(b) PROVE IInv'
    BY <1>8, BuyInv
  <1>9. CASE EtlBegin \/ EtlProducts \/ EtlPrices \/ EtlOrders
    BY <1>9, ExtractInv
  <1>10. CASE UNCHANGED vars
    <2>1. TypeOK' /\ Gapless' /\ TargetsWereOpen' /\ SalesKeepProduct'
      BY <1>10 DEF vars, IInv, TypeOK, Gapless, Live, TargetsWereOpen, SalesKeepProduct, Sold
    <2> QED
      BY <1>10, <2>1 DEF vars, IInv, Live
  <1> QED
    BY <1>1, <1>2, <1>3, <1>4, <1>5, <1>6, <1>7, <1>8, <1>9, <1>10 DEF Next

(* IInv holds however many sessions change prices, whatever they read      *)
(* before (changePrice, ProductService), beside checkouts and an extract.  *)
THEOREM PriceInvariant == Spec => []IInv
  <1> QED
    BY InitInv, NextInv, PTL DEF Spec

-----------------------------------------------------------------------------
(* What follows from it.                                                   *)

(* A price change appends to the log.                                      *)
LEMMA RepriceAppends ==
  ASSUME IInv, NEW s \in Session, NEW v \in versions, NEW p \in Price, Reprice(s, v, p)
  PROVE  /\ Book!Next
         /\ \A u \in versions : u.to # Open => u \in versions'
  <1> DEFINE t      == tx[s].at
             closed == [v EXCEPT !.to = t]
             opened == [from |-> t, to |-> Open, price |-> p]
  <1>1. /\ v.from < t /\ t \in Time /\ v \in Version /\ v.to = Open
        /\ \A u \in versions : u # v => u.from < v.from
    BY RepricedIsLast
  <1>2. versions' = (versions \ {v}) \cup {closed, opened} /\ price' = p
    BY DEF Reprice
  <1>3. closed.from = v.from /\ closed.price = v.price /\ opened.from = t /\ opened.price = p
    BY <1>1 DEF Version
  <1> HIDE DEF closed, opened
  <1>4. \A u \in versions : u.from < t
    BY <1>1 DEF IInv, TypeOK, Version, Time
  <1>5. {<<w.from, w.price>> : w \in versions'} = {<<w.from, w.price>> : w \in versions} \cup {<<t, p>>}
    BY <1>2, <1>3
  <1>6. \A e \in {<<w.from, w.price>> : w \in versions} : e[1] < t
    BY <1>4
  <1>7. Book!Append(t, p)
    BY <1>2, <1>5, <1>6 DEF Book!Append
  <1>8. <<t, p>> \in {<<w.from, w.price>> : w \in versions'}
    BY <1>5
  <1>9. Book!Next
    <2> DEFINE e == <<t, p>>
    <2>1. e[1] = t /\ e[2] = p
      OBVIOUS
    <2> HIDE DEF t
    <2> QED
      BY <1>7, <1>8 DEF Book!Next
  <1> QED
    BY <1>1, <1>2, <1>9

(* Every other step leaves the log alone, begins it, or ends it.           *)
LEMMA NextRefines ==
  ASSUME IInv, [Next]_vars
  PROVE  /\ Book!Next \/ UNCHANGED <<versions, price>>
         /\ Live' => \A u \in versions : u.to # Open => u \in versions'
  <1> USE DEF Session
  <1>1. ASSUME NEW s \in Session,
               (s \in GoSession /\ GoClose(s)) \/ (s \in NetSession /\ NetSave(s))
        PROVE  Book!Next /\ \A u \in versions : u.to # Open => u \in versions'
    BY <1>1, ChangeIsReprice, RepriceAppends
  <1>2. ASSUME NEW s \in NetSession, NetCreate(s)
        PROVE  Book!Next /\ versions = {}
    <2>1. PICK t \in 0..clock, p \in Price :
            versions' = {[from |-> t, to |-> Open, price |-> p]} /\ price' = p
      BY <1>2 DEF NetCreate
    <2>2. versions = {}
      BY <1>2 DEF NetCreate, IInv
    <2>3. {<<w.from, w.price>> : w \in versions} = {}
      BY <2>2
    <2>4. {<<w.from, w.price>> : w \in versions'} = {<<t, p>>}
      BY <2>1
    <2>5. Book!Append(t, p)
      BY <2>1, <2>3, <2>4 DEF Book!Append
    <2>6. \E e \in {<<w.from, w.price>> : w \in versions'} : e = <<t, p>>
      BY <2>4
    <2>7. <<t, p>>[1] = t /\ <<t, p>>[2] = p
      OBVIOUS
    <2> QED
      BY <2>2, <2>5, <2>6, <2>7 DEF Book!Next
  <1>3. ASSUME NEW s \in NetSession, NetDelete(s)
        PROVE  Book!Next /\ ~Live'
    BY <1>3 DEF NetDelete, Book!Next, Book!Remove, Live
  <1>4. ASSUME NEW s \in Session,
               \/ GoPick(s) \/ Rollback(s)
               \/ s \in NetSession /\ (NetRead(s) \/ NetReadOpen(s) \/ NetCount(s))
        PROVE  UNCHANGED <<versions, price>>
    BY <1>4 DEF GoPick, Rollback, NetRead, NetReadOpen, NetCount
  <1>5. ASSUME Tick \/ EtlBegin \/ EtlProducts \/ EtlPrices \/ EtlOrders \/ UNCHANGED vars
        PROVE  UNCHANGED <<versions, price>>
    BY <1>5 DEF Tick, EtlBegin, EtlProducts, EtlPrices, EtlOrders, Extract, vars
  <1>6. ASSUME NEW b \in Buyer, BuyRead(b) \/ BuyInsert(b) \/ BuyCommit(b)
        PROVE  UNCHANGED <<versions, price>>
    BY <1>6 DEF BuyRead, BuyInsert, BuyCommit
  <1> QED
    BY <1>1, <1>2, <1>3, <1>4, <1>5, <1>6 DEF Next

(* The price changes of both programs implement the log of prices: nothing *)
(* is inserted before its end and no price is rewritten (changePrice,      *)
(* UpdateAsync).                                                           *)
THEOREM PricesImplementBook == Spec => ImplementsPriceBook
  <1>1. Init => Book!Init
    BY DEF Init, Book!Init
  <1>2. IInv /\ [Next]_vars => [Book!Next]_<<{<<v.from, v.price>> : v \in versions}, price>>
    <2> SUFFICES ASSUME IInv, [Next]_vars, ~Book!Next
                 PROVE  UNCHANGED <<{<<v.from, v.price>> : v \in versions}, price>>
      OBVIOUS
    <2> QED
      BY NextRefines
  <1> QED
    BY <1>1, <1>2, PriceInvariant, PTL DEF Spec, ImplementsPriceBook, Book!Spec

(* A stale price change never moves the end of a version that was closed   *)
(* (UpdateAsync, which finds its version by primary key, open or not).     *)
THEOREM ClosedVersionsStay == Spec => ClosedStaysClosed
  <1>1. IInv /\ [Next]_vars =>
          [Live' => \A v \in versions : v.to # Open => v \in versions']_vars
    BY NextRefines
  <1> QED
    BY <1>1, PriceInvariant, PTL DEF Spec, ClosedStaysClosed

(* A set whose elements are all the same has one at most.                  *)
LEMMA AtMostOne ==
  ASSUME NEW S, \A x, y \in S : x = y
  PROVE  Cardinality(S) <= 1
  <1>1. CASE S = {}
    BY <1>1, FS_EmptySet
  <1>2. CASE S # {}
    <2>1. PICK x \in S : S = {x}
      BY <1>2
    <2> QED
      BY <2>1, FS_Singleton
  <1> QED
    BY <1>1, <1>2

(* The first version is found.                                             *)
LEMMA FirstVersionExists ==
  ASSUME TypeOK, versions # {}
  PROVE  FirstVersion \in versions
  <1> DEFINE starts == {v.from : v \in versions}
  <1>1. starts \subseteq Nat /\ starts # {}
    BY DEF TypeOK, Version, Time
  <1>2. PICK n \in starts : \A m \in starts : n <= m
    <2> HIDE DEF starts
    <2> QED
      BY <1>1, LeastNatural
  <1>3. \E v \in versions : \A w \in versions : v.from <= w.from
    BY <1>2
  <1> QED
    BY <1>3 DEF FirstVersion

(* Each extracted sale joins with one version: the extract reads versions  *)
(* before orders, but the orders are those of the watermark, which was     *)
(* read before both (01_extract.sql, 03_facts.sql).                        *)
THEOREM SalesJoinOnce == Spec => []EachSaleJoinsOnce
  <1>1. IInv => EachSaleJoinsOnce
    <2> SUFFICES ASSUME IInv, raw.phase = "done", NEW b \in raw.orders
                 PROVE  /\ Cardinality(Joined(b)) <= 1
                        /\ buy[b].placed >= FirstVersion.from => Joined(b) # {}
      BY DEF EachSaleJoinsOnce
    <2>1. /\ b \in Sold /\ b \in Buyer /\ buy[b].placed \in Time
          /\ buy[b].id # 0 /\ buy[b].id <= raw.max
      BY DEF IInv, SalesKeepProduct, Sold, TypeOK
    <2>2. raw.max > 0
      <3>1. buy[b].id \in Nat /\ raw.max \in Nat
        BY <2>1, FS_CardinalityType DEF IInv, TypeOK
      <3> QED
        BY <2>1, <3>1
    <2>3. /\ raw.live /\ Live /\ raw.versions \subseteq Version
          /\ \A v \in versions : \E w \in raw.versions : w.from <= v.from
      BY <2>1, <2>2 DEF IInv, SalesKeepProduct, TypeOK, Sold
    <2>4. Joined(b) = {v \in raw.versions : v.from <= buy[b].placed /\ buy[b].placed < v.to}
      BY <2>3 DEF Joined, DimProduct
    <2>5. ASSUME NEW v \in Joined(b), NEW w \in Joined(b) PROVE v = w
      <3>1. v.from \in Nat /\ w.from \in Nat /\ v.to \in Nat /\ w.to \in Nat /\ buy[b].placed \in Nat
        BY <2>1, <2>3, <2>4 DEF Version, Time, Open
      <3>2. ~(v.from < w.from) /\ ~(w.from < v.from)
        BY <2>4, <3>1 DEF IInv, History
      <3> QED
        BY <2>4, <3>1, <3>2 DEF IInv, History
    <2>6. ASSUME buy[b].placed >= FirstVersion.from PROVE Joined(b) # {}
      <3>1. versions # {}
        BY <2>3 DEF IInv, Gapless
      <3>2. FirstVersion \in versions /\ FirstVersion \in Version
        BY <3>1, FirstVersionExists DEF IInv, TypeOK
      <3>3. PICK w \in raw.versions : w.from <= FirstVersion.from
        BY <2>3, <3>2
      <3>4. w.from <= buy[b].placed
        BY <2>1, <2>3, <2>6, <3>2, <3>3 DEF Version, Time
      <3>5. \E x \in raw.versions : x.from <= buy[b].placed /\ buy[b].placed < x.to
        BY <2>1, <3>4 DEF IInv, History
      <3> QED
        BY <2>4, <3>5
    <2> QED
      BY <2>5, <2>6, AtMostOne
  <1> QED
    BY <1>1, PriceInvariant, PTL
=============================================================================
