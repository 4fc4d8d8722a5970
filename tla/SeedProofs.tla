----------------------------- MODULE SeedProofs -----------------------------
(***************************************************************************)
(* Proofs about the data generator.  First the load (SeedPipeline), for    *)
(* any number of tables, batch size and channel capacity: rows reach the   *)
(* COPY in order and once, nothing outlives its step, and constraints      *)
(* exist only on complete data.  Then the rows (SeedOrders), for any       *)
(* catalogue, promotions, history, delays and numbers of customers and     *)
(* orders: orders join the price and rate of their time, and agree with    *)
(* each other.  Last the catalogue itself (SeedCatalog), for any tree of   *)
(* categories, history and numbers of products, prices and promotions.     *)
(***************************************************************************)
EXTENDS SeedPipeline, SeedOrders, SeedCatalog, SequenceTheorems, FiniteSetTheorems, WellFoundedInduction, TLAPS

-----------------------------------------------------------------------------
(* The load (SeedPipeline).                                                *)

(* The first state.                                                        *)
LEMMA SeedInitial == Init => IInv
<1> SUFFICES ASSUME Init PROVE IInv
  OBVIOUS
<1>1. TypeOK
  <2>1. \A f : f = [s \in Stream |-> 0] => f \in [Stream -> Nat]
    OBVIOUS
  <2>2. made \in [Stream -> Nat] /\ sent \in [Stream -> Nat] /\ read \in [Stream -> Nat] /\ table \in [Stream -> Nat]
    BY <2>1 DEF Init
  <2>3. chan \in [Stream -> Seq(Batch)] /\ closed \in [Stream -> BOOLEAN]
    BY DEF Init
  <2>4. gen \in [at : {"none", "run", "send", "finish", "finish err", "done"}, to : SUBSET Stream]
    BY DEF Init
  <2>5. copy \in [Stream -> {"none", "acquire", "copy", "broken", "done"}]
    BY DEF Init
  <2>6. runs \in Nat /\ phase \in Steps \cup Ended /\ cancelled \in BOOLEAN /\ failed \in BOOLEAN
    BY DEF Init, Steps
  <2>7. refs \in 0..RefTables
    <3>1. refs = 0 BY DEF Init
    <3> QED BY <3>1, SeedPipelineAssumption
  <2>8. constrained \in BOOLEAN
    BY DEF Init
  <2> QED BY <2>2, <2>3, <2>4, <2>5, <2>6, <2>7, <2>8 DEF TypeOK
<1>2. RowsInOrder
  BY SeedPipelineAssumption DEF Init, RowsInOrder, Follows
<1>3. NothingOutlivesTheStep /\ GroupConsistent /\ ConstraintsOnCompleteData
  BY DEF Init, NothingOutlivesTheStep, GroupConsistent, ConstraintsOnCompleteData
<1> QED BY <1>1, <1>2, <1>3 DEF IInv

(* Putting the buffer into the channel keeps the rows in order.            *)
LEMMA PushKeepsOrder ==
  ASSUME TypeOK, RowsInOrder, NEW s \in Stream, HasRoom(s), Buffered(s) > 0, Push(s),
         UNCHANGED <<made, read>>
  PROVE  RowsInOrder' /\ chan' \in [Stream -> Seq(Batch)] /\ sent' \in [Stream -> Nat]
<1> DEFINE b == [lo |-> sent[s] + 1, hi |-> made[s]]
<1>1. b \in Batch /\ sent[s] \in Nat /\ made[s] \in Nat /\ sent[s] < made[s]
  <2>1. sent[s] \in Nat /\ made[s] \in Nat
    BY DEF TypeOK
  <2>2. sent[s] < made[s]
    BY <2>1 DEF Buffered
  <2> QED BY <2>1, <2>2 DEF Batch
<1>2. chan[s] \in Seq(Batch) /\ chan' = [chan EXCEPT ![s] = Append(chan[s], b)]
  BY DEF TypeOK, Push
<1>3. chan' \in [Stream -> Seq(Batch)]
  <2>1. Append(chan[s], b) \in Seq(Batch)
    BY <1>1, <1>2
  <2>2. chan \in [Stream -> Seq(Batch)]
    BY DEF TypeOK
  <2> QED BY <1>2, <2>1, <2>2
<1>4. sent' = [sent EXCEPT ![s] = made[s]] /\ sent' \in [Stream -> Nat]
  BY <1>1 DEF TypeOK, Push
<1>5. ASSUME NEW x \in Stream PROVE Follows(x)'
  <2>1. Follows(x) BY DEF RowsInOrder
  <2>2. CASE x # s
    BY <2>1, <2>2, <1>2, <1>4 DEF TypeOK, Follows
  <2>3. CASE x = s
    <3>1. chan'[s] = Append(chan[s], b) /\ sent'[s] = made[s] /\ read'[s] = read[s] /\ made'[s] = made[s]
      BY <1>2, <1>4 DEF TypeOK
    <3>2. Len(chan'[s]) = Len(chan[s]) + 1 /\ Len(chan[s]) \in Nat
      BY <1>1, <1>2, <3>1
    <3>3. \A i \in 1..Len(chan[s]) : chan'[s][i] = chan[s][i]
      BY <1>1, <1>2, <3>1
    <3>4. chan'[s][Len(chan[s]) + 1] = b
      BY <1>1, <1>2, <3>1
    <3>5. read[s] \in Nat /\ read[s] <= sent[s] /\ sent[s] < made[s]
      BY <2>1, <2>3, <1>1 DEF Follows, TypeOK
    <3>6. sent[s] = IF chan[s] = <<>> THEN read[s] ELSE chan[s][Len(chan[s])].hi
      BY <2>1, <2>3 DEF Follows
    <3>7. chan[s] = <<>> <=> Len(chan[s]) = 0
      BY <1>2
    <3>8. ASSUME NEW i \in 1..Len(chan'[s])
          PROVE /\ chan'[s][i].lo <= chan'[s][i].hi /\ chan'[s][i].hi <= sent'[s]
                /\ chan'[s][i].lo = (IF i = 1 THEN read'[s] ELSE chan'[s][i - 1].hi) + 1
      <4>1. CASE i \in 1..Len(chan[s])
        <5>1. i # 1 => i - 1 \in 1..Len(chan[s])
          BY <4>1, <3>2
        <5>2. /\ chan[s][i].lo <= chan[s][i].hi /\ chan[s][i].hi <= sent[s]
              /\ chan[s][i].lo = (IF i = 1 THEN read[s] ELSE chan[s][i - 1].hi) + 1
          BY <4>1, <2>1, <2>3 DEF Follows
        <5>3. chan'[s][i] = chan[s][i] /\ (i # 1 => chan'[s][i - 1] = chan[s][i - 1])
          BY <4>1, <5>1, <3>3
        <5>4. chan[s][i] \in Batch
          BY <4>1, <1>2
        <5>5. chan[s][i].hi \in Nat
          BY <5>4 DEF Batch
        <5> QED
          BY <5>2, <5>3, <5>5, <3>1, <1>1
      <4>2. CASE i = Len(chan[s]) + 1
        <5>1. chan'[s][i] = b BY <4>2, <3>4
        <5>2. i # 1 => Len(chan[s]) \in 1..Len(chan[s]) /\ chan'[s][i - 1] = chan[s][Len(chan[s])]
          BY <4>2, <3>2, <3>3
        <5> QED
          BY <5>1, <5>2, <4>2, <3>1, <3>2, <3>5, <3>6, <3>7, <1>1
      <4> QED BY <4>1, <4>2, <3>2
    <3>9. Len(chan'[s]) <= Capacity
      BY <3>2, SeedPipelineAssumption DEF HasRoom
    <3>10. sent'[s] = IF chan'[s] = <<>> THEN read'[s] ELSE chan'[s][Len(chan'[s])].hi
      BY <3>1, <3>2, <3>4, <1>1, <1>2, <1>3
    <3>11. read'[s] <= sent'[s] /\ sent'[s] <= made'[s]
      BY <3>1, <3>5, <1>1
    <3> QED
      BY <2>3, <3>8, <3>9, <3>10, <3>11 DEF Follows
  <2> QED BY <2>2, <2>3
<1> QED BY <1>3, <1>4, <1>5 DEF RowsInOrder, Stream

(* Taking the first batch keeps the rest in order.                         *)
LEMMA ReceiveKeepsOrder ==
  ASSUME TypeOK, RowsInOrder, NEW s \in Stream, chan[s] # <<>>,
         read' = [read EXCEPT ![s] = Head(chan[s]).hi],
         chan' = [chan EXCEPT ![s] = Tail(chan[s])],
         UNCHANGED <<made, sent>>
  PROVE  RowsInOrder' /\ chan' \in [Stream -> Seq(Batch)] /\ read' \in [Stream -> Nat]
<1>0. chan[s] \in Seq(Batch)
  BY DEF TypeOK
<1>1. /\ chan[s] \in Seq(Batch) /\ Len(chan[s]) \in Nat /\ Len(chan[s]) > 0
      /\ Head(chan[s]) = chan[s][1] /\ chan[s][1] \in Batch
  BY <1>0
<1>2. chan' \in [Stream -> Seq(Batch)]
  <2>1. Tail(chan[s]) \in Seq(Batch)
    BY <1>1
  <2>2. chan \in [Stream -> Seq(Batch)]
    BY DEF TypeOK
  <2> QED BY <2>1, <2>2
<1>3. read' \in [Stream -> Nat]
  <2>1. chan[s][1].hi \in Nat
    BY <1>1 DEF Batch
  <2> QED BY <1>1, <2>1 DEF TypeOK
<1>4. ASSUME NEW x \in Stream PROVE Follows(x)'
  <2>1. Follows(x) BY DEF RowsInOrder
  <2>2. CASE x # s
    BY <2>1, <2>2 DEF TypeOK, Follows
  <2>3. CASE x = s
    <3> DEFINE c == chan[s]
    <3>1. chan'[s] = Tail(c) /\ read'[s] = c[1].hi /\ sent'[s] = sent[s] /\ made'[s] = made[s]
      BY <1>1 DEF TypeOK
    <3>0. Len(c) \in Nat /\ Len(c) > 0
      BY <1>1
    <3>2. Len(Tail(c)) = Len(c) - 1 /\ \A i \in 1..(Len(c) - 1) : Tail(c)[i] = c[i + 1]
      BY <1>1
    <3>3. \A i \in 1..Len(c) : c[i] \in Batch
      BY <1>1
    <3>4. \A i \in 1..Len(c) : /\ c[i].lo <= c[i].hi /\ c[i].hi <= sent[s]
                               /\ c[i].lo = (IF i = 1 THEN read[s] ELSE c[i - 1].hi) + 1
      BY <2>1, <2>3 DEF Follows
    <3>5. sent[s] = c[Len(c)].hi /\ sent[s] <= made[s] /\ Len(c) <= Capacity
      BY <2>1, <2>3, <1>1 DEF Follows
    <3>6. ASSUME NEW i \in 1..(Len(c) - 1)
          PROVE /\ Tail(c)[i].lo <= Tail(c)[i].hi /\ Tail(c)[i].hi <= sent[s]
                /\ Tail(c)[i].lo = (IF i = 1 THEN c[1].hi ELSE Tail(c)[i - 1].hi) + 1
      <4>1. i + 1 \in 1..Len(c) /\ i + 1 # 1 /\ (i + 1) - 1 = i BY <1>1
      <4>2. Tail(c)[i] = c[i + 1] /\ (i # 1 => Tail(c)[i - 1] = c[i])
        BY <3>2, <1>1
      <4> QED BY <4>1, <4>2, <3>4
    <3>7. sent[s] = IF Tail(c) = <<>> THEN c[1].hi ELSE Tail(c)[Len(Tail(c))].hi
      <4>1. CASE Len(c) = 1
        <5>0. Tail(c) \in Seq(Batch)
          BY <1>1
        <5>1. Tail(c) = <<>>
          <6>1. Len(Tail(c)) = 0
            BY <4>1, <3>2
          <6> QED BY <5>0, <6>1, EmptySeq
        <5> QED BY <4>1, <5>1, <3>5
      <4>2. CASE Len(c) # 1
        <5>0. \A n \in Nat : n > 0 /\ n # 1 => n - 1 \in 1..(n - 1) /\ (n - 1) + 1 = n /\ n - 1 > 0
          OBVIOUS
        <5>1. Len(c) - 1 \in 1..(Len(c) - 1) /\ (Len(c) - 1) + 1 = Len(c) /\ Len(c) - 1 > 0
          BY <4>2, <3>0, <5>0
        <5>2. Tail(c)[Len(c) - 1] = c[Len(c)]
          BY <5>1, <3>2
        <5>3. Tail(c) # <<>>
          <6>1. Len(Tail(c)) > 0
            BY <5>1, <3>2
          <6> QED BY <6>1
        <5> QED BY <5>2, <5>3, <3>2, <3>5
      <4> QED BY <4>1, <4>2
    <3>8. Len(Tail(c)) <= Capacity
      BY <3>2, <3>5, <1>1, SeedPipelineAssumption
    <3>9. c[1].hi <= sent[s] /\ c[1].hi \in Nat
      BY <3>3, <3>4, <1>1 DEF Batch
    <3> QED
      BY <2>3, <3>1, <3>2, <3>5, <3>6, <3>7, <3>8, <3>9 DEF Follows
  <2> QED BY <2>2, <2>3
<1> QED BY <1>2, <1>3, <1>4 DEF RowsInOrder, Stream

-----------------------------------------------------------------------------
(* Only Add, Push and Receive touch what RowsInOrder is about.              *)
LEMMA OrderStep == IInv /\ [Next]_vars => RowsInOrder' /\ chan' \in [Stream -> Seq(Batch)]
<1> SUFFICES ASSUME IInv, [Next]_vars PROVE RowsInOrder' /\ chan' \in [Stream -> Seq(Batch)]
  OBVIOUS
<1>0. TypeOK /\ RowsInOrder /\ chan \in [Stream -> Seq(Batch)]
  BY DEF IInv, TypeOK
<1>1. CASE UNCHANGED <<queues, read>>
  BY <1>0, <1>1 DEF RowsInOrder, Follows, queues
<1>2. CASE StartGroup
  <2>1. RowsInOrder'
    BY <1>2, SeedPipelineAssumption DEF StartGroup, RowsInOrder, Follows
  <2> QED BY <1>2, <2>1 DEF StartGroup
<1>3. ASSUME NEW s \in Stream, Add(s) PROVE RowsInOrder' /\ chan' \in [Stream -> Seq(Batch)]
  <2>1. made' = [made EXCEPT ![s] = made[s] + 1] /\ UNCHANGED <<sent, chan, read>>
    BY <1>3 DEF Add
  <2>2. \A x \in Stream : made'[x] \in Nat /\ made[x] <= made'[x]
    <3>1. \A x \in Stream : made[x] \in Nat
      BY <1>0 DEF TypeOK
    <3>2. \A x \in Stream : made'[x] = IF x = s THEN made[s] + 1 ELSE made[x]
      BY <1>0, <2>1 DEF TypeOK
    <3> QED BY <3>1, <3>2
  <2>3. ASSUME NEW x \in Stream PROVE Follows(x)'
    <3>1. sent[x] \in Nat /\ made[x] \in Nat /\ Follows(x)
      BY <1>0 DEF TypeOK, RowsInOrder
    <3>2. sent[x] <= made'[x]
      BY <3>1, <2>2 DEF Follows
    <3> QED BY <2>1, <3>1, <3>2 DEF Follows
  <2> QED BY <1>0, <2>1, <2>3 DEF RowsInOrder, Stream
<1>4. ASSUME NEW s \in Stream, Send(s) PROVE RowsInOrder' /\ chan' \in [Stream -> Seq(Batch)]
  <2>1. CASE Buffered(s) > 0
    BY <1>0, <1>4, <2>1, PushKeepsOrder DEF Send
  <2>2. CASE ~(Buffered(s) > 0)
    <3>1. phase = "orders" /\ gen.at = "send" /\ s \in gen.to
      BY <1>4 DEF Send, IInv, NothingOutlivesTheStep
    <3> QED BY <2>2, <3>1 DEF IInv, GroupConsistent
  <2> QED BY <2>1, <2>2
<1>5. ASSUME NEW s \in Stream, Finish(s) PROVE RowsInOrder' /\ chan' \in [Stream -> Seq(Batch)]
  <2>1. CASE Buffered(s) > 0 /\ HasRoom(s) /\ Push(s)
    BY <1>0, <1>5, <2>1, PushKeepsOrder DEF Finish
  <2>2. CASE UNCHANGED <<sent, chan>>
    BY <1>0, <1>1, <1>5, <2>2 DEF Finish, RowsInOrder, Follows
  <2> QED BY <1>5, <2>1, <2>2 DEF Finish
<1>6. ASSUME NEW s \in Stream, Receive(s) PROVE RowsInOrder' /\ chan' \in [Stream -> Seq(Batch)]
  BY <1>0, <1>6, ReceiveKeepsOrder DEF Receive
<1>7. CASE \E s \in Stream : \/ Acquire(s) \/ CopyEnds(s) \/ CopyFails(s) \/ CopyBreaks(s) \/ BrokenEnds(s)
  <2>1. UNCHANGED <<queues, read>>
    BY <1>7 DEF Acquire, CopyEnds, CopyFails, CopyBreaks, BrokenEnds
  <2> QED BY <1>1, <2>1
<1>8. CASE \/ CreateSchema \/ CopyReference \/ Wait \/ AddConstraints \/ DailyRates \/ Vacuum
           \/ StepFails \/ Interrupt \/ Crash \/ RunAgain \/ LastOrder \/ SendCancelled \/ GeneratorEnds
  <2>1. UNCHANGED <<queues, read>>
    BY <1>8 DEF CreateSchema, CopyReference, Wait, AddConstraints, DailyRates, Vacuum, ApplySchemaFile,
                StepFails, Interrupt, Crash, RunAgain, LastOrder, SendCancelled, GeneratorEnds
  <2> QED BY <1>1, <2>1
<1>9. CASE UNCHANGED vars
  BY <1>1, <1>9 DEF vars
<1> QED
  BY <1>2, <1>3, <1>4, <1>5, <1>6, <1>7, <1>8, <1>9 DEF Next, Main, Generator, Copier

(* Every step keeps the types.                                             *)
LEMMA SeedTypeStep == IInv /\ [Next]_vars => TypeOK'
<1> SUFFICES ASSUME IInv, [Next]_vars PROVE TypeOK'
  OBVIOUS
<1>0. TypeOK /\ chan' \in [Stream -> Seq(Batch)]
  BY OrderStep DEF IInv
<1>a. 0 \in 0..RefTables
  BY SeedPipelineAssumption
<1>b. refs < RefTables => refs + 1 \in 0..RefTables
  <2>1. refs \in 0..RefTables
    BY <1>0 DEF TypeOK
  <2> QED BY <2>1, SeedPipelineAssumption
<1>c. runs + 1 \in Nat /\ \A s \in Stream : made[s] + 1 \in Nat
  <2>1. runs \in Nat /\ \A s \in Stream : made[s] \in Nat
    BY <1>0 DEF TypeOK
  <2> QED BY <2>1
<1>1. CASE CreateSchema
  BY <1>0, <1>a, <1>b, <1>c, <1>1 DEF TypeOK, Steps, Ended, CreateSchema, ApplySchemaFile, run, queues, store
<1>2. CASE CopyReference
  BY <1>0, <1>a, <1>b, <1>c, <1>2 DEF TypeOK, Steps, Ended, CopyReference, run, queues
<1>3. CASE StartGroup
  BY <1>0, <1>a, <1>b, <1>c, <1>3 DEF TypeOK, Steps, Ended, StartGroup, store
<1>4. CASE Wait
  BY <1>0, <1>a, <1>b, <1>c, <1>4 DEF TypeOK, Steps, Ended, Wait, GroupEnded, queues, store
<1>5. CASE AddConstraints
  BY <1>0, <1>a, <1>b, <1>c, <1>5 DEF TypeOK, Steps, Ended, AddConstraints, ApplySchemaFile, queues
<1>6. CASE DailyRates
  BY <1>0, <1>a, <1>b, <1>c, <1>6 DEF TypeOK, Steps, Ended, DailyRates, ApplySchemaFile, queues, store
<1>7. CASE Vacuum
  BY <1>0, <1>a, <1>b, <1>c, <1>7 DEF TypeOK, Steps, Ended, Vacuum, ApplySchemaFile, queues, store
<1>8. CASE StepFails
  BY <1>0, <1>a, <1>b, <1>c, <1>8 DEF TypeOK, Steps, Ended, StepFails, queues, store
<1>9. CASE Interrupt
  BY <1>0, <1>a, <1>b, <1>c, <1>9 DEF TypeOK, Steps, Ended, Interrupt, queues, store
<1>10. CASE Crash
  BY <1>0, <1>a, <1>b, <1>c, <1>10 DEF TypeOK, Steps, Ended, Crash, NoGroup, queues, store
<1>11. CASE RunAgain
  BY <1>0, <1>a, <1>b, <1>c, <1>11 DEF TypeOK, Steps, Ended, RunAgain, NoGroup, queues, store
<1>12. CASE LastOrder
  BY <1>0, <1>a, <1>b, <1>c, <1>12 DEF TypeOK, Steps, Ended, LastOrder, run, queues, store
<1>13. CASE SendCancelled
  BY <1>0, <1>a, <1>b, <1>c, <1>13 DEF TypeOK, Steps, Ended, SendCancelled, run, queues, store
<1>14. CASE GeneratorEnds
  BY <1>0, <1>a, <1>b, <1>c, <1>14 DEF TypeOK, Steps, Ended, GeneratorEnds, Finishing, run, queues, store
<1>15. ASSUME NEW s \in Stream, Add(s) PROVE TypeOK'
  <2>1. made' \in [Stream -> Nat]
    BY <1>0, <1>c, <1>15 DEF TypeOK, Add
  <2>2. gen' \in [at : {"none", "run", "send", "finish", "finish err", "done"}, to : SUBSET Stream]
    BY <1>0, <1>15 DEF TypeOK, Add
  <2> QED BY <1>0, <1>15, <2>1, <2>2 DEF TypeOK, Add, run, store
<1>16. ASSUME NEW s \in Stream, Send(s) PROVE TypeOK'
  BY <1>0, <1>c, <1>16 DEF TypeOK, Send, Push, run, store
<1>17. ASSUME NEW s \in Stream, Finish(s) PROVE TypeOK'
  <2>1. closed' \in [Stream -> BOOLEAN]
    BY <1>0, <1>17 DEF TypeOK, Finish
  <2>2. sent' \in [Stream -> Nat]
    <3>1. UNCHANGED sent \/ sent' = [sent EXCEPT ![s] = made[s]]
      BY <1>17 DEF Finish, Push
    <3> QED BY <1>0, <3>1 DEF TypeOK
  <2>3. gen' \in [at : {"none", "run", "send", "finish", "finish err", "done"}, to : SUBSET Stream]
    <3>1. \/ gen' = [at |-> gen.at, to |-> gen.to \ {s}]
          \/ gen' = [at |-> "finish err", to |-> gen.to \ {s}]
      BY <1>17 DEF Finish
    <3>2. gen \in [at : {"none", "run", "send", "finish", "finish err", "done"}, to : SUBSET Stream]
      BY <1>0 DEF TypeOK
    <3>4. gen.at \in {"none", "run", "send", "finish", "finish err", "done"} /\ gen.to \ {s} \in SUBSET Stream
      BY <3>2
    <3>5. CASE gen' = [at |-> gen.at, to |-> gen.to \ {s}]
      BY <3>4, <3>5
    <3>6. CASE gen' = [at |-> "finish err", to |-> gen.to \ {s}]
      BY <3>4, <3>6
    <3> QED BY <3>1, <3>5, <3>6
  <2> QED BY <1>0, <1>17, <2>1, <2>2, <2>3 DEF TypeOK, Finish, run, store
<1>18. ASSUME NEW s \in Stream, Acquire(s) PROVE TypeOK'
  BY <1>0, <1>c, <1>18 DEF TypeOK, Acquire, run, queues, store
<1>19. ASSUME NEW s \in Stream, Receive(s) PROVE TypeOK'
  <2>1. read' \in [Stream -> Nat]
    BY <1>0, <1>19, ReceiveKeepsOrder DEF IInv, Receive
  <2> QED BY <1>0, <1>19, <2>1 DEF TypeOK, Receive, run, store
<1>20. ASSUME NEW s \in Stream, CopyEnds(s) PROVE TypeOK'
  BY <1>0, <1>c, <1>20 DEF TypeOK, CopyEnds, NoMoreRows, run, queues
<1>21. ASSUME NEW s \in Stream, CopyFails(s) PROVE TypeOK'
  BY <1>0, <1>c, <1>21 DEF TypeOK, CopyFails, Fails, run, queues, store
<1>22. ASSUME NEW s \in Stream, CopyBreaks(s) PROVE TypeOK'
  BY <1>0, <1>c, <1>22 DEF TypeOK, CopyBreaks, run, queues, store
<1>23. ASSUME NEW s \in Stream, BrokenEnds(s) PROVE TypeOK'
  BY <1>0, <1>c, <1>23 DEF TypeOK, BrokenEnds, Fails, run, queues, store
<1>24. CASE UNCHANGED vars
  BY <1>0, <1>24 DEF TypeOK, vars, run, queues, store
<1> QED
  BY <1>1, <1>2, <1>3, <1>4, <1>5, <1>6, <1>7, <1>8, <1>9, <1>10, <1>11, <1>12, <1>13, <1>14, <1>15, <1>16, <1>17, <1>18, <1>19, <1>20, <1>21, <1>22, <1>23, <1>24 DEF Next, Main, Generator, Copier

(* A group ends before its step, complete or failed.                       *)
LEMMA SeedGroupStep == IInv /\ [Next]_vars => NothingOutlivesTheStep' /\ GroupConsistent' /\ ConstraintsOnCompleteData'
<1> DEFINE Goal == NothingOutlivesTheStep /\ GroupConsistent /\ ConstraintsOnCompleteData
<1> SUFFICES ASSUME IInv, [Next]_vars PROVE Goal'
  OBVIOUS
<1>0. TypeOK /\ RowsInOrder /\ Goal
  BY DEF IInv
<1> USE DEF Buffered, NothingOutlivesTheStep, GroupConsistent, ConstraintsOnCompleteData, Loaded
<1>1. CASE CreateSchema
  BY <1>0, <1>1 DEF TypeOK, Steps, Ended, CreateSchema, ApplySchemaFile, run, queues, store
<1>2. CASE CopyReference
  BY <1>0, <1>2 DEF TypeOK, Steps, Ended, CopyReference, run, queues
<1>3. CASE StartGroup
  BY <1>0, <1>3 DEF TypeOK, Steps, Ended, StartGroup, store
<1>4. CASE Wait
  <2>1. /\ phase = "orders" /\ gen.at = "done" /\ \A s \in Stream : copy[s] = "done"
        /\ phase' = IF failed THEN "failed" ELSE "constraints"
        /\ UNCHANGED <<failed, gen, queues, read, copy, store>>
    BY <1>4 DEF Wait, GroupEnded
  <2>2. ~failed => Loaded
    <3> SUFFICES ASSUME ~failed, NEW s \in Stream PROVE table[s] = made[s]
      BY <1>0, <2>1 DEF Loaded
    <3>1. sent[s] = made[s] /\ chan[s] = <<>> /\ table[s] = read[s]
      BY <1>0, <2>1 DEF TypeOK
    <3>2. sent[s] = read[s]
      BY <1>0, <3>1 DEF RowsInOrder, Follows
    <3> QED BY <3>1, <3>2
  <2> QED BY <1>0, <2>1, <2>2 DEF queues, store
<1>5. CASE AddConstraints
  BY <1>0, <1>5 DEF TypeOK, Steps, Ended, AddConstraints, ApplySchemaFile, queues
<1>6. CASE DailyRates
  BY <1>0, <1>6 DEF TypeOK, Steps, Ended, DailyRates, ApplySchemaFile, queues, store
<1>7. CASE Vacuum
  BY <1>0, <1>7 DEF TypeOK, Steps, Ended, Vacuum, ApplySchemaFile, queues, store
<1>8. CASE StepFails
  BY <1>0, <1>8 DEF TypeOK, Steps, Ended, StepFails, queues, store
<1>9. CASE Interrupt
  BY <1>0, <1>9 DEF TypeOK, Steps, Ended, Interrupt, queues, store
<1>10. CASE Crash
  BY <1>0, <1>10 DEF TypeOK, Steps, Ended, Crash, NoGroup, queues, store
<1>11. CASE RunAgain
  BY <1>0, <1>11 DEF TypeOK, Steps, Ended, RunAgain, NoGroup, queues, store
<1>12. CASE LastOrder
  BY <1>0, <1>12 DEF TypeOK, Steps, Ended, LastOrder, run, queues, store
<1>13. CASE SendCancelled
  BY <1>0, <1>13 DEF TypeOK, Steps, Ended, SendCancelled, run, queues, store
<1>14. CASE GeneratorEnds
  BY <1>0, <1>14 DEF TypeOK, Steps, Ended, GeneratorEnds, Finishing, run, queues, store
<1>15. ASSUME NEW s \in Stream, Add(s) PROVE Goal'
  <2>1. phase = "orders" /\ gen.at = "run" /\ gen'.at \in {"run", "send"}
    BY <1>0, <1>15 DEF Add
  <2>2. made' = [made EXCEPT ![s] = made[s] + 1] /\ UNCHANGED <<run, failed, sent, chan, closed, read, copy, store>>
    BY <1>15 DEF Add
  <2>3. gen'.at = "send" => \A x \in gen'.to : made'[x] - sent'[x] > 0
    <3>1. gen'.at = "send" => gen'.to = {s}
      BY <1>15, <2>1 DEF Add
    <3>2. made'[s] = made[s] + 1 /\ made[s] \in Nat /\ sent[s] \in Nat /\ sent[s] <= made[s] /\ sent'[s] = sent[s]
      BY <1>0, <2>2 DEF TypeOK, RowsInOrder, Follows
    <3> QED BY <3>1, <3>2
  <2> QED BY <1>0, <2>1, <2>2, <2>3 DEF run, store
<1>16. ASSUME NEW s \in Stream, Send(s) PROVE Goal'
  BY <1>0, <1>16 DEF TypeOK, Send, Push, run, store
<1>17. ASSUME NEW s \in Stream, Finish(s) PROVE Goal'
  <2>1. /\ phase = "orders" /\ ~constrained /\ refs = RefTables /\ s \in gen.to
        /\ gen.at \in {"finish", "finish err"} /\ gen'.at \in {"finish", "finish err"}
        /\ gen'.to = gen.to \ {s} /\ (gen'.at = "finish" => gen.at = "finish")
        /\ closed' = [closed EXCEPT ![s] = TRUE] /\ UNCHANGED <<run, failed, made, read, copy, store>>
    <3>1. phase = "orders" /\ gen.at \in {"finish", "finish err"} /\ s \in gen.to
      BY <1>0, <1>17 DEF Finish, Finishing
    <3>3. gen' = [at |-> gen.at, to |-> gen.to \ {s}] \/ gen' = [at |-> "finish err", to |-> gen.to \ {s}]
      BY <1>17 DEF Finish
    <3>4. closed' = [closed EXCEPT ![s] = TRUE] /\ UNCHANGED <<run, failed, made, read, copy, store>>
      BY <1>17 DEF Finish
    <3>5. gen'.at \in {"finish", "finish err"} /\ gen'.to = gen.to \ {s} /\ (gen'.at = "finish" => gen.at = "finish")
      <4>1. CASE gen' = [at |-> gen.at, to |-> gen.to \ {s}]
        BY <3>1, <4>1
      <4>2. CASE gen' = [at |-> "finish err", to |-> gen.to \ {s}]
        BY <4>2
      <4> QED BY <3>3, <4>1, <4>2
    <3> QED BY <1>0, <3>1, <3>4, <3>5
  <2>2. \A x \in Stream \ {s} : sent'[x] = sent[x] /\ chan'[x] = chan[x]
    BY <1>0, <1>17 DEF TypeOK, Finish, Push
  <2>3. gen'.at = "finish" => sent'[s] = made[s]
    <3>1. made[s] \in Nat /\ sent[s] \in Nat
      BY <1>0 DEF TypeOK
    <3>2. made[s] - sent[s] = 0 => made[s] = sent[s]
      BY <3>1
    <3>3. CASE sent' = [sent EXCEPT ![s] = made[s]]
      BY <1>0, <3>3 DEF TypeOK
    <3>4. CASE made[s] - sent[s] = 0 /\ UNCHANGED sent
      BY <3>2, <3>4
    <3>5. CASE gen' = [at |-> "finish err", to |-> gen.to \ {s}]
      BY <3>5
    <3>6. \/ sent' = [sent EXCEPT ![s] = made[s]]
          \/ made[s] - sent[s] = 0 /\ UNCHANGED sent
          \/ gen' = [at |-> "finish err", to |-> gen.to \ {s}]
      BY <1>17 DEF Finish, Push
    <3> QED BY <3>3, <3>4, <3>5, <3>6
  <2>4. ~closed[s] /\ (~failed => copy[s] # "done")
    BY <1>0, <2>1
  <2>5. \A x \in Stream : closed'[x] <=> x \notin gen'.to
    BY <1>0, <2>1 DEF TypeOK
  <2>6. NothingOutlivesTheStep' /\ ConstraintsOnCompleteData'
    BY <1>0, <2>1 DEF run, store
  <2>7. /\ gen'.at \notin {"run", "send"}
        /\ gen'.at = "finish" => \A x \in Stream : closed'[x] => sent'[x] = made'[x]
    <3>1. ASSUME gen'.at = "finish", NEW x \in Stream, closed'[x] PROVE sent'[x] = made'[x]
      <4>1. CASE x = s
        BY <2>1, <2>3, <3>1, <4>1
      <4>2. CASE x # s
        <5>1. closed[x]
          BY <1>0, <2>1, <3>1, <4>2 DEF TypeOK
        <5> QED BY <1>0, <2>1, <2>2, <3>1, <4>2, <5>1
      <4> QED BY <4>1, <4>2
    <3> QED BY <2>1, <3>1
  <2>8. ~failed' => \A x \in Stream : copy'[x] = "done" => closed'[x] /\ chan'[x] = <<>> /\ table'[x] = read'[x]
    <3>1. ASSUME ~failed', NEW x \in Stream, copy'[x] = "done"
          PROVE closed'[x] /\ chan'[x] = <<>> /\ table'[x] = read'[x]
      <4>1. x # s /\ ~failed /\ copy[x] = "done"
        BY <2>1, <2>4, <3>1
      <4>2. closed[x] /\ chan[x] = <<>> /\ table[x] = read[x]
        BY <1>0, <2>1, <4>1
      <4> QED BY <1>0, <2>1, <2>2, <4>1, <4>2 DEF TypeOK, store
    <3> QED BY <3>1
  <2>9. GroupConsistent'
    <3>1. phase' = phase /\ constrained' = constrained /\ refs' = refs
      BY <2>1 DEF run, store
    <3> QED BY <2>1, <2>5, <2>7, <2>8, <3>1
  <2> QED BY <2>6, <2>9
<1>18. ASSUME NEW s \in Stream, Acquire(s) PROVE Goal'
  BY <1>0, <1>18 DEF TypeOK, Acquire, run, queues, store
<1>19. ASSUME NEW s \in Stream, Receive(s) PROVE Goal'
  BY <1>0, <1>19 DEF TypeOK, Receive, run, store
<1>20. ASSUME NEW s \in Stream, CopyEnds(s) PROVE Goal'
  BY <1>0, <1>20 DEF TypeOK, CopyEnds, NoMoreRows, run, queues
<1>21. ASSUME NEW s \in Stream, CopyFails(s) PROVE Goal'
  BY <1>0, <1>21 DEF TypeOK, CopyFails, Fails, run, queues, store
<1>22. ASSUME NEW s \in Stream, CopyBreaks(s) PROVE Goal'
  BY <1>0, <1>22 DEF TypeOK, CopyBreaks, run, queues, store
<1>23. ASSUME NEW s \in Stream, BrokenEnds(s) PROVE Goal'
  BY <1>0, <1>23 DEF TypeOK, BrokenEnds, Fails, run, queues, store
<1>24. CASE UNCHANGED vars
  BY <1>0, <1>24 DEF vars, run, queues, store
<1> QED
  BY <1>1, <1>2, <1>3, <1>4, <1>5, <1>6, <1>7, <1>8, <1>9, <1>10, <1>11, <1>12, <1>13, <1>14, <1>15, <1>16, <1>17, <1>18, <1>19, <1>20, <1>21, <1>22, <1>23, <1>24 DEF Next, Main, Generator, Copier

-----------------------------------------------------------------------------
(* The inductive invariant holds in every state of every run of the seeder. *)
THEOREM SeedInvariant == Spec => []IInv
<1>1. Init => IInv
  BY SeedInitial
<1>2. IInv /\ [Next]_vars => IInv'
  BY OrderStep, SeedTypeStep, SeedGroupStep DEF IInv
<1> QED BY <1>1, <1>2, PTL DEF Spec

(* Constraints exist only on a store with every row that was generated     *)
(* (Run, copyOrders), for any number of tables and any channel.            *)
THEOREM SeedConstraintsOnCompleteData == Spec => []ConstraintsOnCompleteData
<1>1. IInv => ConstraintsOnCompleteData
  BY DEF IInv
<1> QED BY <1>1, SeedInvariant, PTL

(* The batches of a channel are in order and never more than it holds      *)
(* (stream.flush, stream.copy).                                            *)
THEOREM SeedRowsInOrder == Spec => []RowsInOrder
<1>1. IInv => RowsInOrder
  BY DEF IInv
<1> QED BY <1>1, SeedInvariant, PTL

(* Rows are never added behind the constraints: no goroutine of a group is *)
(* left when the step after it runs.                                       *)
THEOREM SeedNoRowsAfterConstraints == Spec => NoRowsAfterConstraints
<1>1. IInv /\ [Next]_vars => [constrained /\ constrained' => UNCHANGED <<table, refs>>]_vars
  <2> SUFFICES ASSUME IInv, [Next]_vars, constrained, constrained' PROVE UNCHANGED <<table, refs>>
    OBVIOUS
  <2>1. phase \notin {"reference", "orders", "constraints"} /\ \A s \in Stream : copy[s] \in {"none", "done"}
    BY DEF IInv, GroupConsistent, NothingOutlivesTheStep
  <2>2. CASE CreateSchema
    BY <2>2 DEF CreateSchema
  <2>3. CASE \E s \in Stream : CopyEnds(s)
    BY <2>1, <2>3 DEF CopyEnds
  <2>4. CASE CopyReference
    BY <2>1, <2>4 DEF CopyReference
  <2>5. CASE \/ StartGroup \/ Wait \/ AddConstraints \/ DailyRates \/ Vacuum \/ StepFails \/ Interrupt
             \/ Crash \/ RunAgain \/ LastOrder \/ SendCancelled \/ GeneratorEnds
    BY <2>5 DEF StartGroup, Wait, AddConstraints, DailyRates, Vacuum, ApplySchemaFile, StepFails, Interrupt,
                Crash, RunAgain, LastOrder, SendCancelled, GeneratorEnds, store
  <2>6. CASE \E s \in Stream : \/ Add(s) \/ Send(s) \/ Finish(s) \/ Acquire(s) \/ Receive(s)
                              \/ CopyFails(s) \/ CopyBreaks(s) \/ BrokenEnds(s)
    BY <2>6 DEF Add, Send, Finish, Acquire, Receive, CopyFails, CopyBreaks, BrokenEnds, store
  <2>7. CASE UNCHANGED vars
    BY <2>7 DEF vars, store
  <2> QED
    BY <2>2, <2>3, <2>4, <2>5, <2>6, <2>7 DEF Next, Main, Generator, Copier
<1> QED BY <1>1, SeedInvariant, PTL DEF Spec, NoRowsAfterConstraints

-----------------------------------------------------------------------------
(* Arithmetic, sums and the exchange rates (SeedData, Totals).             *)

(* A nonempty set of naturals has a least element.                         *)
LEMMA LeastNatural ==
  ASSUME NEW T \in SUBSET Nat, T # {}
  PROVE  \E x \in T : \A y \in T : x <= y
  <1> DEFINE R == {pair \in Nat \X Nat : pair[1] < pair[2]}
  <1>1. IsWellFoundedOn(R, Nat)
    BY NatLessThanWellFounded, Zenon DEF OpToRel
  <1> HIDE DEF R
  <1>2. \E x \in T : \A y \in T : <<y, x>> \notin R
    BY <1>1, WFMin, Zenon
  <1>3. \A x, y \in Nat : <<y, x>> \in R <=> y < x
    BY DEF R
  <1>4. PICK x \in T : \A y \in T : <<y, x>> \notin R
    BY <1>2
  <1>5. ASSUME NEW y \in T PROVE x <= y
    <2>1. x \in Nat /\ y \in Nat
      OBVIOUS
    <2>2. ~(y < x)
      BY <2>1, <1>3, <1>4
    <2>3. QED
      BY <2>1, <2>2
  <1>6. QED
    BY <1>5

(* There are finitely many units, so their number is a natural one.        *)
LEMMA UnitsFinite ==
  ASSUME NEW S, IsFiniteSet(S), NEW n, \A x \in S : n[x] \in Nat
  PROVE  /\ IsFiniteSet(UNION {{x} \X (1 .. n[x]) : x \in S})
         /\ Total(n, S) \in Nat
  <1> DEFINE Part(x) == {x} \X (1 .. n[x])
             f == [x \in S |-> Part(x)]
             T == {Part(x) : x \in S}
  <1>1. ASSUME NEW x \in S PROVE IsFiniteSet(Part(x))
    <2>1. IsFiniteSet({x})
      BY FS_Singleton
    <2>2. n[x] \in Int /\ 1 \in Int
      OBVIOUS
    <2>3. IsFiniteSet(1 .. n[x])
      BY <2>2, FS_Interval
    <2>4. QED
      BY <2>1, <2>3, FS_Product
  <1>2. f \in Surjection(S, T)
    BY DEF Surjection
  <1>3. IsFiniteSet(T)
    BY <1>2, FS_Surjection
  <1>4. IsFiniteSet(UNION T)
    BY <1>1, <1>3, FS_UNION
  <1>5. QED
    BY <1>4, FS_CardinalityType DEF Total

(* A sum depends on the summands of the members only.                      *)
LEMMA TotalSame ==
  ASSUME NEW S, NEW n, NEW m, \A x \in S : n[x] = m[x]
  PROVE  Total(n, S) = Total(m, S)
  <1>1. {{x} \X (1 .. n[x]) : x \in S} = {{x} \X (1 .. m[x]) : x \in S}
    OBVIOUS
  <1>2. QED
    BY <1>1 DEF Total

(* One member more adds its own units.                                     *)
LEMMA TotalAdd ==
  ASSUME NEW S, IsFiniteSet(S), NEW n, NEW y, y \notin S,
         \A x \in S \cup {y} : n[x] \in Nat
  PROVE  Total(n, S \cup {y}) = Total(n, S) + n[y]
  <1> DEFINE A == UNION {{x} \X (1 .. n[x]) : x \in S}
             B == {y} \X (1 .. n[y])
  <1>1. UNION {{x} \X (1 .. n[x]) : x \in S \cup {y}} = A \cup B
    OBVIOUS
  <1>2. A \cap B = {}
    OBVIOUS
  <1>3. IsFiniteSet(A) /\ Cardinality(A) = Total(n, S) /\ Cardinality(A) \in Nat
    BY UnitsFinite DEF Total
  <1>4. IsFiniteSet(B) /\ Cardinality(B) = n[y]
    <2>1. IsFiniteSet({y}) /\ Cardinality({y}) = 1
      BY FS_Singleton
    <2>2. IsFiniteSet(1 .. n[y]) /\ Cardinality(1 .. n[y]) = n[y]
      BY FS_Interval
    <2>3. Cardinality(B) = 1 * n[y] /\ IsFiniteSet(B)
      BY <2>1, <2>2, FS_Product
    <2>4. QED
      BY <2>3
  <1> HIDE DEF A, B
  <1>5. Cardinality(A \cup B) = Cardinality(A) + Cardinality(B) - Cardinality({})
    BY <1>2, <1>3, <1>4, FS_Union
  <1>6. Cardinality(A \cup B) = Total(n, S) + n[y]
    BY <1>3, <1>4, <1>5, FS_EmptySet
  <1>7. QED
    BY <1>1, <1>6 DEF Total

(* A sum is nothing when every summand is.                                 *)
LEMMA TotalZero ==
  ASSUME NEW S, IsFiniteSet(S), NEW n, \A x \in S : n[x] \in Nat
  PROVE  Total(n, S) = 0 <=> \A x \in S : n[x] = 0
  <1> DEFINE U == UNION {{x} \X (1 .. n[x]) : x \in S}
  <1>1. Total(n, S) = 0 <=> U = {}
    BY UnitsFinite, FS_EmptySet DEF Total
  <1>2. ASSUME NEW x \in S, n[x] # 0 PROVE U # {}
    <2>1. 1 \in 1 .. n[x]
      BY <1>2
    <2>2. <<x, 1>> \in U
      BY <2>1
    <2>3. QED
      BY <2>2
  <1>3. ASSUME \A x \in S : n[x] = 0 PROVE U = {}
    BY <1>3
  <1>4. QED
    BY <1>1, <1>2, <1>3

-----------------------------------------------------------------------------
(* Least and greatest.                                                     *)

(* Min of a set with a least element is that element.                      *)
LEMMA MinFact ==
  ASSUME NEW T \in SUBSET Int, NEW x \in T, \A y \in T : x <= y
  PROVE  Min(T) = x
  <1>1. Min(T) \in T /\ \A y \in T : Min(T) <= y
    BY DEF Min
  <1>2. Min(T) <= x /\ x <= Min(T) /\ Min(T) \in Int /\ x \in Int
    BY <1>1
  <1>3. QED
    BY <1>2

(* Max of a set with a greatest element is that element.                   *)
LEMMA MaxFact ==
  ASSUME NEW T \in SUBSET Int, NEW x \in T, \A y \in T : x >= y
  PROVE  Max(T) = x
  <1>1. Max(T) \in T /\ \A y \in T : Max(T) >= y
    BY DEF Max
  <1>2. Max(T) >= x /\ x >= Max(T) /\ Max(T) \in Int /\ x \in Int
    BY <1>1
  <1>3. QED
    BY <1>2

-----------------------------------------------------------------------------
(* The rate of a day is named by the last business day up to it: what the  *)
(* array that buildFX fills has, and what the ASOF join of the warehouse   *)
(* finds.                                                                  *)

BusinessDaysTo(f, d) == {e \in 0..d : BusinessDay(f, e)}
LastBusinessDay(f, d) == IF BusinessDaysTo(f, d) = {} THEN Nothing ELSE Max(BusinessDaysTo(f, d))

(* From one day to the next, the last business day is the new day or stays. *)
LEMMA NextLastBusinessDay ==
  ASSUME NEW f \in Nat, NEW d \in Nat
  PROVE  LastBusinessDay(f, d) =
           IF BusinessDay(f, d) THEN d ELSE LastBusinessDay(f, d - 1)
  <1>1. CASE BusinessDay(f, d)
    <2>1. d \in BusinessDaysTo(f, d) /\ BusinessDaysTo(f, d) \in SUBSET Int
      BY <1>1 DEF BusinessDaysTo
    <2>2. \A e \in BusinessDaysTo(f, d) : d >= e
      BY DEF BusinessDaysTo
    <2>3. Max(BusinessDaysTo(f, d)) = d
      BY <2>1, <2>2, MaxFact
    <2>4. QED
      BY <1>1, <2>1, <2>3 DEF LastBusinessDay
  <1>2. CASE ~BusinessDay(f, d)
    <2>1. BusinessDaysTo(f, d) = BusinessDaysTo(f, d - 1)
      BY <1>2 DEF BusinessDaysTo
    <2>2. QED
      BY <1>2, <2>1 DEF LastBusinessDay
  <1>3. QED
    BY <1>1, <1>2

(* The array has that day for every day.                                   *)
LEMMA FxFact ==
  ASSUME NEW f \in Nat, NEW days \in Nat
  PROVE  /\ DOMAIN Fx(f, days) = 0..(Lead + days)
         /\ \A d \in 0..(Lead + days) : Fx(f, days)[d] = LastBusinessDay(f, d)
  <1> DEFINE D == -1..(Lead + days)
             Step(r) == [d \in D |->
               IF d = -1 THEN Nothing ELSE IF BusinessDay(f, d) THEN d ELSE r[d - 1]]
             rate == CHOOSE r : r = Step(r)
             last == [d \in D |-> LastBusinessDay(f, d)]
  <1>1. Lead \in Nat
    BY DEF Lead
  <1>2. last = Step(last)
    <2>1. ASSUME NEW d \in D PROVE last[d] = Step(last)[d]
      <3>1. CASE d = -1
        <4>1. BusinessDaysTo(f, -1) = {}
          BY DEF BusinessDaysTo
        <4>2. QED
          BY <3>1, <4>1 DEF LastBusinessDay
      <3>2. CASE d # -1
        <4>1. d \in Nat /\ d - 1 \in D
          BY <1>1, <3>2
        <4>2. last[d - 1] = LastBusinessDay(f, d - 1)
          BY <4>1
        <4>3. QED
          BY <3>2, <4>1, <4>2, NextLastBusinessDay
      <3>3. QED
        BY <3>1, <3>2
    <2>2. QED
      BY <2>1
  <1>3. rate = Step(rate)
    <2>1. \E r : r = Step(r)
      BY <1>2
    <2>2. QED
      BY <2>1
  <1>4. \A d \in D : rate[d] = last[d]
    <2> DEFINE T == {n \in Nat : n - 1 \in D /\ rate[n - 1] # last[n - 1]}
    <2> HIDE DEF rate, last
    <2>1. SUFFICES ASSUME T # {} PROVE FALSE
      <3>1. ASSUME NEW d \in D, rate[d] # last[d] PROVE d + 1 \in T
        <4>1. d + 1 \in Nat /\ (d + 1) - 1 = d
          BY <1>1
        <4>2. QED
          BY <3>1, <4>1
      <3>2. QED
        BY <3>1
    <2>2. PICK n \in T : \A m \in T : n <= m
      BY <2>1, LeastNatural
    <2> DEFINE d == n - 1
    <2>3. n \in Nat /\ d \in D /\ rate[d] # last[d]
      OBVIOUS
    <2>4. rate[d] = Step(rate)[d] /\ last[d] = Step(last)[d]
      BY <1>2, <1>3
    <2>5. d # -1 /\ ~BusinessDay(f, d) /\ rate[d - 1] # last[d - 1]
      BY <2>3, <2>4
    <2>6. d \in Nat /\ n - 1 \in Nat /\ d - 1 \in D
      BY <1>1, <2>3, <2>5
    <2>7. n - 1 \in T
      BY <2>5, <2>6
    <2>8. QED
      BY <2>2, <2>3, <2>7
  <1>5. Fx(f, days) = [d \in 0..(Lead + days) |-> rate[d]]
    BY DEF Fx
  <1>6. QED
    <2> HIDE DEF rate
    <2>1. \A d \in 0..(Lead + days) : d \in D
      BY <1>1
    <2>2. QED
      BY <1>4, <1>5, <2>1

(* Every day of the history has a business day before it, as the rates     *)
(* begin ten days earlier.                                                 *)
LEMMA BusinessDayBefore ==
  ASSUME NEW f \in 0..6, NEW d \in Nat, d >= 2
  PROVE  LastBusinessDay(f, d) \in BusinessDaysTo(f, d)
  <1> DEFINE B == BusinessDaysTo(f, d)
             T == {n \in Nat : \E e \in B : n = d - e}
  <1>1. B # {}
    <2>1. CASE f = 0
      <3>1. BusinessDay(f, 1)
        BY <2>1 DEF BusinessDay
      <3>2. QED
        BY <3>1 DEF BusinessDaysTo
    <2>2. CASE f = 6
      <3>1. BusinessDay(f, 2)
        BY <2>2 DEF BusinessDay
      <3>2. QED
        BY <3>1 DEF BusinessDaysTo
    <2>3. CASE f \in 1..5
      <3>1. BusinessDay(f, 0)
        BY <2>3 DEF BusinessDay
      <3>2. QED
        BY <3>1 DEF BusinessDaysTo
    <2>4. QED
      BY <2>1, <2>2, <2>3
  <1>2. B \in SUBSET (0..d)
    BY DEF BusinessDaysTo
  <1> HIDE DEF B
  <1>3. T # {}
    <2>1. PICK e \in B : TRUE
      BY <1>1
    <2>2. d - e \in T
      BY <1>2
    <2>3. QED
      BY <2>2
  <1>4. PICK n \in T : \A m \in T : n <= m
    BY <1>3, LeastNatural
  <1>5. PICK e \in B : n = d - e
    BY <1>4
  <1>6. \A x \in B : e >= x
    <2>1. ASSUME NEW x \in B PROVE e >= x
      <3>1. x \in Int /\ e \in Int /\ d - x \in Nat
        BY <1>2
      <3>2. d - x \in T
        BY <3>1
      <3>3. d - e <= d - x
        BY <1>4, <1>5, <3>2
      <3>4. QED
        BY <3>1, <3>3
    <2>2. QED
      BY <2>1
  <1>7. Max(B) = e
    BY <1>2, <1>6, MaxFact
  <1>8. QED
    BY <1>1, <1>5, <1>7 DEF B, LastBusinessDay

(* What a line is converted with is the rate the warehouse finds.          *)
LEMMA RateFact ==
  ASSUME NEW f \in 0..6, first = f, NEW d \in 0..(Days - 1)
  PROVE  RateAt(Fx(first, Days), d) = AsOf(d) /\ Rate(AsOf(d)) \in Nat
  <1>1. Days \in Nat /\ Lead = 10 /\ f \in Nat
    BY SeedOrdersAssumption DEF Lead
  <1>2. /\ DOMAIN Fx(f, Days) = 0..(Lead + Days)
        /\ \A e \in 0..(Lead + Days) : Fx(f, Days)[e] = LastBusinessDay(f, e)
    BY <1>1, FxFact
  <1>3. Max(0..(Lead + Days)) = Lead + Days
    <2>1. Lead + Days \in 0..(Lead + Days) /\ 0..(Lead + Days) \in SUBSET Int
      BY <1>1
    <2>2. \A e \in 0..(Lead + Days) : Lead + Days >= e
      BY <1>1
    <2>3. QED
      BY <2>1, <2>2, MaxFact
  <1>4. Min({Lead + d, Lead + Days}) = Lead + d
    <2>1. Lead + d \in {Lead + d, Lead + Days} /\ {Lead + d, Lead + Days} \in SUBSET Int
      BY <1>1
    <2>2. \A e \in {Lead + d, Lead + Days} : Lead + d <= e
      BY <1>1
    <2>3. QED
      BY <2>1, <2>2, MinFact
  <1>5. RateAt(Fx(f, Days), d) = LastBusinessDay(f, Lead + d)
    <2>1. RateAt(Fx(f, Days), d) = Fx(f, Days)[Lead + d]
      BY <1>2, <1>3, <1>4 DEF RateAt
    <2>2. Lead + d \in 0..(Lead + Days)
      BY <1>1
    <2>3. QED
      BY <1>2, <2>1, <2>2
  <1>6. LastBusinessDay(f, Lead + d) \in BusinessDaysTo(f, Lead + d)
    BY <1>1, BusinessDayBefore
  <1>7. LastBusinessDay(f, Lead + d) = AsOf(d)
    <2>1. BusinessDaysTo(f, Lead + d) # {}
      BY <1>6
    <2>2. QED
      BY <2>1 DEF LastBusinessDay, BusinessDaysTo, AsOf
  <1>8. AsOf(d) \in Nat
    BY <1>6, <1>7 DEF BusinessDaysTo
  <1>9. QED
    BY <1>5, <1>7, <1>8 DEF Rate, Nothing

-----------------------------------------------------------------------------
(* The price of an instant is the version that is valid then.              *)

PriceHistory == [from : Int \ {Nothing}, cents : Nat]
Row(prices, i) == [from |-> prices[i].from, cents |-> prices[i].cents,
                   to |-> IF i < Len(prices) THEN prices[i + 1].from ELSE Nothing]

(* In an ascending history the valid version is the one at which the       *)
(* binary search of priceAt ends, and no other.                            *)
LEMMA PriceAtFact ==
  ASSUME NEW prices \in Seq(PriceHistory), prices # <<>>, NEW t \in Int, prices[1].from <= t,
         \A i, j \in DOMAIN prices : i < j => prices[i].from < prices[j].from
  PROVE  \E k \in DOMAIN prices :
           /\ PriceAt(prices, t) = prices[k]
           /\ {r \in PriceRows(prices) : ValidAt(r, t)} = {Row(prices, k)}
  <1> DEFINE N == Len(prices)
             T == {j \in DOMAIN prices : prices[j].from >= t} \cup {N + 1}
  <1>1. N \in Nat /\ N # 0 /\ DOMAIN prices = 1..N
    <2>1. N # 0
      BY EmptySeq
    <2>2. QED
      BY <2>1
  <1>2. \A i \in 1..N : prices[i].from \in Int /\ prices[i].from # Nothing
    <2>1. ASSUME NEW i \in 1..N PROVE prices[i] \in PriceHistory
      BY <1>1
    <2>2. QED
      BY <2>1 DEF PriceHistory
  <1>3. PICK i \in T : \A y \in T : i <= y
    <2>1. T \in SUBSET Nat /\ T # {}
      BY <1>1
    <2>2. QED
      BY <2>1, LeastNatural
  <1>4. Min(T) = i /\ i \in 1..(N + 1)
    <2>1. T \in SUBSET Int /\ T \in SUBSET (1..(N + 1))
      BY <1>1
    <2>2. QED
      BY <1>3, <2>1, MinFact
  <1>5. \A j \in 1..N : j < i => prices[j].from < t
    <2>1. ASSUME NEW j \in 1..N, j < i PROVE prices[j].from < t
      <3>1. j \notin T
        BY <1>3, <1>4, <2>1
      <3>2. ~(prices[j].from >= t)
        BY <1>1, <3>1
      <3>3. QED
        BY <1>2, <3>2
    <2>2. QED
      BY <2>1
  <1>6. i <= N => prices[i].from >= t
    BY <1>1, <1>3, <1>4
  <1> DEFINE k == IF i <= N /\ prices[i].from = t THEN i ELSE i - 1
  <1>7. k \in 1..N
    <2>1. CASE i = 1
      <3>1. i <= N /\ prices[i].from = t
        BY <1>1, <1>2, <1>6, <2>1
      <3>2. QED
        BY <1>1, <2>1, <3>1
    <2>2. CASE i # 1
      BY <1>1, <1>4, <2>2
    <2>3. QED
      BY <2>1, <2>2
  <1>8. PriceAt(prices, t) = prices[k]
    <2>1. CASE i <= N /\ prices[i].from = t
      BY <1>4, <2>1 DEF PriceAt
    <2>2. CASE ~(i <= N /\ prices[i].from = t)
      <3>1. k = i - 1 /\ i - 1 >= 1
        BY <1>4, <1>7, <2>2
      <3>2. Max({1, i - 1}) = i - 1
        <4>1. i - 1 \in {1, i - 1} /\ {1, i - 1} \in SUBSET Int
          BY <1>4
        <4>2. \A y \in {1, i - 1} : i - 1 >= y
          BY <1>4, <3>1
        <4>3. QED
          BY <4>1, <4>2, MaxFact
      <3>3. QED
        BY <1>4, <2>2, <3>1, <3>2 DEF PriceAt
    <2>3. QED
      BY <2>1, <2>2
  <1>9. prices[k].from <= t /\ (k < N => t < prices[k + 1].from)
    <2>1. CASE i <= N /\ prices[i].from = t
      <3>1. k = i
        BY <2>1
      <3>2. k < N => prices[k].from < prices[k + 1].from
        BY <1>1, <1>7
      <3>3. QED
        BY <1>2, <1>7, <2>1, <3>1, <3>2
    <2>2. CASE ~(i <= N /\ prices[i].from = t)
      <3>1. k = i - 1 /\ k < i
        BY <1>4, <2>2
      <3>2. prices[k].from < t
        BY <1>5, <1>7, <3>1
      <3>3. ASSUME k < N PROVE t < prices[k + 1].from
        <4>1. k + 1 = i /\ i <= N
          BY <1>4, <1>7, <3>1, <3>3
        <4>2. prices[i].from >= t /\ prices[i].from # t
          BY <1>6, <2>2, <4>1
        <4>3. QED
          BY <1>2, <1>4, <4>1, <4>2
      <3>4. QED
        BY <1>2, <1>7, <3>2, <3>3
    <2>3. QED
      BY <2>1, <2>2
  <1> HIDE DEF k, T
  <1>10. \A j \in 1..N : ValidAt(Row(prices, j), t) <=> j = k
    <2>1. ASSUME NEW j \in 1..N PROVE ValidAt(Row(prices, j), t) <=> j = k
      <3>1. ValidAt(Row(prices, j), t) <=> prices[j].from <= t /\ (j < N => t < prices[j + 1].from)
        <4>1. j < N => prices[j + 1].from # Nothing
          BY <1>1, <1>2
        <4>2. QED
          BY <4>1 DEF ValidAt, Row
      <3>2. CASE j = k
        BY <1>9, <3>1, <3>2
      <3>3. CASE j < k
        <4>1. j + 1 \in 1..N /\ j < N
          BY <1>1, <1>7, <3>3
        <4>2. prices[j + 1].from <= prices[k].from
          <5>1. CASE j + 1 = k
            BY <1>2, <1>7, <5>1
          <5>2. CASE j + 1 < k
            BY <1>1, <1>2, <1>7, <4>1, <5>2
          <5>3. QED
            BY <1>7, <3>3, <5>1, <5>2
        <4>3. prices[j + 1].from <= t
          BY <1>2, <1>7, <1>9, <4>1, <4>2
        <4>4. QED
          BY <1>2, <3>1, <3>3, <4>1, <4>3
      <3>4. CASE k < j
        <4>1. k + 1 \in 1..N /\ k < N /\ k + 1 <= j
          BY <1>1, <1>7, <3>4
        <4>2. prices[k + 1].from <= prices[j].from
          <5>1. CASE k + 1 = j
            BY <1>2, <5>1
          <5>2. CASE k + 1 < j
            BY <1>1, <1>2, <4>1, <5>2
          <5>3. QED
            BY <1>7, <4>1, <5>1, <5>2
        <4>3. t < prices[j].from
          BY <1>2, <1>9, <4>1, <4>2
        <4>4. QED
          BY <1>2, <3>1, <3>4, <4>3
      <3>5. QED
        BY <1>7, <3>2, <3>3, <3>4
    <2>2. QED
      BY <2>1
  <1>11. PriceRows(prices) = {Row(prices, j) : j \in 1..N}
    BY <1>1 DEF PriceRows, Row
  <1>12. {r \in PriceRows(prices) : ValidAt(r, t)} = {Row(prices, k)}
    <2>1. Row(prices, k) \in PriceRows(prices) /\ ValidAt(Row(prices, k), t)
      BY <1>7, <1>10, <1>11
    <2>2. \A r \in PriceRows(prices) : ValidAt(r, t) => r = Row(prices, k)
      BY <1>10, <1>11
    <2>3. QED
      BY <2>1, <2>2
  <1>13. QED
    BY <1>1, <1>7, <1>8, <1>12

-----------------------------------------------------------------------------
(* Cents.                                                                  *)

(* A part of an amount in hundredths is an amount, of nothing nothing.     *)
LEMMA RoundedFact ==
  /\ \A a \in Nat : Rounded(a, 100) \in Nat
  /\ \A a \in Int : Rounded(a, 100) \in Int
  /\ Rounded(0, 100) = 0
  BY DEF Rounded

LEMMA NatTimes == \A a, b \in Nat : a * b \in Nat
  OBVIOUS

(* Units that are refunded together, and then one by one, each with its    *)
(* share of the discount rounded down, give back what was paid for the     *)
(* line or less than a cent per unit more.                                 *)
LEMMA RefundFact ==
  ASSUME NEW u \in Nat, NEW disc \in Nat, NEW n \in Nat \ {0}, NEW q \in 1..n
  PROVE  LET all == (q * u - (disc * q) \div n) + (n - q) * (u - disc \div n)
             net == n * u - disc
         IN net <= all /\ all < net + n
  <1> DEFINE a == disc \div n
             r == disc - n * a
             b == (disc * q) \div n
             c == b - a * q
  <1>1. a \in Int /\ r \in Int /\ 0 <= r /\ r < n /\ q \in Int /\ 0 <= q /\ q <= n
    OBVIOUS
  <1>2. b \in Int /\ n * b <= disc * q /\ disc * q < n * b + n
    <2> DEFINE x == disc * q
    <2>1. x \in Int
      OBVIOUS
    <2> HIDE DEF x
    <2>2. x \div n \in Int /\ n * (x \div n) <= x /\ x < n * (x \div n) + n
      BY <2>1
    <2>3. QED
      BY <2>2 DEF x
  <1>3. disc = n * a + r
    BY <1>1
  <1> HIDE DEF a, r, b
  <1>4. c \in Int /\ disc * q = n * (a * q) + r * q /\ n * b = n * (a * q) + n * c
    BY <1>1, <1>2, <1>3
  <1>5. 0 <= r * q /\ r * q <= n * r
    BY <1>1
  <1> HIDE DEF c
  <1>6. n * c <= r * q /\ r * q < n * c + n
    <2> DEFINE y == n * (a * q)
               z == r * q
               w == n * c
    <2>1. y \in Int /\ z \in Int /\ w \in Int
      BY <1>1, <1>4
    <2>2. disc * q = y + z /\ n * b = y + w
      BY <1>4
    <2> HIDE DEF y, z, w
    <2>3. w <= z /\ z < w + n
      BY <1>2, <2>1, <2>2
    <2>4. QED
      BY <2>3 DEF y, z, w
  <1>7. 0 <= c
    <2>1. ASSUME c < 0 PROVE FALSE
      <3>1. n * c <= -n
        <4>1. c <= -1 /\ c \in Int
          BY <1>4, <2>1
        <4>2. QED
          BY <4>1
      <3>2. QED
        BY <1>1, <1>4, <1>5, <1>6, <3>1
    <2>2. QED
      BY <1>4, <2>1
  <1>8. c <= r
    <2>1. ASSUME r < c PROVE FALSE
      <3>1. n * r + n <= n * c
        <4>1. r + 1 <= c /\ r \in Int /\ c \in Int
          BY <1>1, <1>4, <2>1
        <4>2. QED
          BY <4>1
      <3>2. QED
        BY <1>1, <1>4, <1>5, <1>6, <3>1
    <2>2. QED
      BY <1>1, <1>4, <2>1
  <1>9. (q * u - b) + (n - q) * (u - a) = (n * u - disc) + (r - c)
    <2>1. b = a * q + c
      BY <1>1, <1>2 DEF c
    <2>2. QED
      BY <1>1, <1>3, <1>4, <2>1
  <1>10. n * u - disc \in Int
    OBVIOUS
  <1>11. QED
    BY <1>1, <1>4, <1>7, <1>8, <1>9, <1>10 DEF a, b

-----------------------------------------------------------------------------
(* Order lines.                                                            *)

(* What LinesJoinTheirVersion says of a line.                              *)
Joins(l, placed) ==
  LET valid == {r \in PriceRows(Catalog[l.product].prices) : ValidAt(r, placed)}
  IN  /\ Cardinality(valid) = 1
      /\ \A r \in valid : l.unit = Rounded(r.cents * Rate(AsOf(DayOf(placed))), 100)

LEMMA LineFact ==
  ASSUME first \in FirstWeekdays, NEW placed \in 0..(End - 1),
         NEW p \in PickedProducts(placed), NEW qty \in Quantities,
         NEW promo \in {0} \cup DOMAIN Promotions
  PROVE  LET l == Line(p, qty, placed, promo) IN
         /\ l \in OrderLine /\ l.product = p
         /\ Joins(l, placed)
         /\ l.disc # 0 => promo # 0 /\ p \in Promotions[promo].set
  <1> DEFINE prices == Catalog[p].prices
             l == Line(p, qty, placed, promo)
             rate == Rate(AsOf(DayOf(placed)))
  <1>1. p \in Product /\ Catalog[p].created <= placed /\ placed \in Int
    BY DEF PickedProducts
  <1>2. /\ prices \in Seq(PriceHistory) /\ prices # <<>> /\ prices[1].from <= placed
        /\ \A i, j \in DOMAIN prices : i < j => prices[i].from < prices[j].from
    BY <1>1, CatalogAssumption DEF PriceHistory
  <1>3. PICK k \in DOMAIN prices :
          /\ PriceAt(prices, placed) = prices[k]
          /\ {r \in PriceRows(prices) : ValidAt(r, placed)} = {Row(prices, k)}
    BY <1>1, <1>2, PriceAtFact
  <1>4. prices[k].cents \in Nat
    <2>1. prices[k] \in PriceHistory
      BY <1>2, <1>3
    <2>2. QED
      BY <2>1 DEF PriceHistory
  <1>5. DayOf(placed) \in 0..(Days - 1)
    BY SeedOrdersAssumption DEF DayOf, End
  <1>6. RateAt(Fx(first, Days), DayOf(placed)) = AsOf(DayOf(placed)) /\ rate \in Nat
    <2>1. first \in 0..6
      BY SeedOrdersAssumption
    <2>2. QED
      BY <1>5, <2>1, RateFact
  <1>7. l.product = p /\ l.qty = qty /\ l.unit = Rounded(prices[k].cents * rate, 100)
    BY <1>3, <1>6 DEF Line
  <1>8. l.unit \in Nat
    BY <1>4, <1>6, <1>7, NatTimes, RoundedFact
  <1> DEFINE pct == IF promo # 0 /\ p \in Promotions[promo].set THEN Promotions[promo].pct ELSE 0
  <1>9. pct \in Nat
    BY PromotionsAssumption
  <1>10. l.disc = Rounded(qty * l.unit * pct, 100)
    BY DEF Line
  <1>11. l.disc \in Nat
    <2>1. qty \in Nat
      BY SeedOrdersAssumption
    <2>2. qty * l.unit \in Nat
      BY <1>8, <2>1, NatTimes
    <2>3. qty * l.unit * pct \in Nat
      BY <1>9, <2>2, NatTimes
    <2>4. QED
      BY <1>10, <2>3, RoundedFact
  <1>12. l.disc # 0 => promo # 0 /\ p \in Promotions[promo].set
    <2>1. SUFFICES ASSUME ~(promo # 0 /\ p \in Promotions[promo].set) PROVE l.disc = 0
      OBVIOUS
    <2>2. pct = 0
      BY <2>1
    <2>3. qty * l.unit \in Nat
      BY <1>8, NatTimes, SeedOrdersAssumption
    <2>4. qty * l.unit * pct = 0
      BY <2>2, <2>3
    <2>5. QED
      BY <1>10, <2>4, RoundedFact
  <1>13. l \in OrderLine
    <2>1. l = [product |-> l.product, qty |-> l.qty, unit |-> l.unit, disc |-> l.disc]
      BY DEF Line
    <2>2. QED
      BY <1>1, <1>7, <1>8, <1>11, <2>1 DEF OrderLine
  <1>14. Joins(l, placed)
    <2>1. Cardinality({Row(prices, k)}) = 1
      BY FS_Singleton
    <2>2. Row(prices, k).cents = prices[k].cents
      BY DEF Row
    <2>3. QED
      BY <1>3, <1>7, <2>1, <2>2 DEF Joins
  <1>15. QED
    BY <1>7, <1>12, <1>13, <1>14

-----------------------------------------------------------------------------
(* Customers.                                                              *)

AddressesFollow ==
  \A c \in DOMAIN customers :
    customers[c].address = 1 + SumOf([k \in 1..(c - 1) |-> customers[k].addresses])

SignedUpBefore == Ordered => customers[order.customer].created < order.placed

(* The invariant in the parts the proofs of the steps work with.           *)
LEMMA OrdersParts ==
  OrdersInv <=>
    /\ OrdersTypeOK /\ IndexCutsByDay /\ AddressesFollow /\ SignedUpBefore
    /\ ReturnIsOfLine /\ OrderTellsOneStory /\ OneReviewEach
    /\ LinesJoinTheirVersion /\ PromotionsApply
  <1>1. ASSUME OrdersTypeOK, IndexCutsByDay, BuiltCustomers, NEW d \in 0..(Days - 1)
        PROVE  {c \in DOMAIN customers : DayOf(customers[c].created) = d}
                 = FirstOf(d)..(FirstOf(d + 1) - 1)
    <2> DEFINE N == Len(customers)
    <2>1. Days \in Nat /\ Len(firstCust) = Days + 1 /\ DOMAIN firstCust = 1..(Days + 1)
      BY <1>1, SeedOrdersAssumption DEF BuiltCustomers, OrdersTypeOK
    <2>2. N \in Nat /\ DOMAIN customers = 1..N
      BY <1>1 DEF OrdersTypeOK
    <2>3. d + 1 \in 1..(Days + 1) /\ d + 2 \in 1..(Days + 1)
      BY <2>1
    <2>4. /\ FirstOf(d) \in 1..(N + 1) /\ FirstOf(d + 1) \in 1..(N + 1)
          /\ \A c \in 1..N : c < FirstOf(d) <=> customers[c].created < Midnight(d)
          /\ \A c \in 1..N : c < FirstOf(d + 1) <=> customers[c].created < Midnight(d + 1)
      <3>1. (d + 1) + 1 = d + 2 /\ (d + 1) - 1 = d /\ (d + 2) - 1 = d + 1
        BY <2>1
      <3>2. QED
        BY <1>1, <2>1, <2>2, <2>3, <3>1 DEF IndexCutsByDay, FirstOf
    <2>5. ASSUME NEW c \in 1..N
          PROVE  DayOf(customers[c].created) = d <=> FirstOf(d) <= c /\ c < FirstOf(d + 1)
      <3>1. customers[c].created \in Nat
        <4>1. customers[c] \in Customer
          BY <1>1, <2>2 DEF OrdersTypeOK
        <4>2. QED
          BY <4>1 DEF Customer
      <3>2. DayOf(customers[c].created) = d <=>
              Midnight(d) <= customers[c].created /\ customers[c].created < Midnight(d + 1)
        BY <2>1, <3>1 DEF DayOf, Midnight
      <3>3. Midnight(d) \in Int /\ Midnight(d + 1) \in Int
        BY <2>1 DEF Midnight
      <3>4. QED
        BY <2>4, <3>1, <3>2, <3>3
    <2>6. QED
      BY <2>2, <2>4, <2>5
  <1>2. OrdersTypeOK /\ IndexCutsByDay => (CustomersAreIndexed <=> AddressesFollow)
    BY <1>1 DEF CustomersAreIndexed, AddressesFollow
  <1>3. QED
    BY <1>2 DEF OrdersInv, SeededRowsAgree, SignedUpBefore

(* The same of the next state.                                             *)
LEMMA OrdersPartsNext ==
  OrdersInv' <=>
    /\ OrdersTypeOK' /\ IndexCutsByDay' /\ AddressesFollow' /\ SignedUpBefore'
    /\ ReturnIsOfLine' /\ OrderTellsOneStory' /\ OneReviewEach'
    /\ LinesJoinTheirVersion' /\ PromotionsApply'
  BY OrdersParts, PTL

(* The addresses of one customer more come after the others.               *)
LEMMA SumOfNext ==
  ASSUME NEW n \in Nat \ {0}, NEW f, \A k \in 1..n : f[k].addresses \in Nat
  PROVE  SumOf([k \in 1..n |-> f[k].addresses])
           = SumOf([k \in 1..(n - 1) |-> f[k].addresses]) + f[n].addresses
  <1> DEFINE g == [k \in 1..n |-> f[k].addresses]
             h == [k \in 1..(n - 1) |-> f[k].addresses]
             S == 1..(n - 1)
  <1>1. IsFiniteSet(S)
    <2>1. 1 \in Int /\ n - 1 \in Int
      OBVIOUS
    <2>2. QED
      BY <2>1, FS_Interval
  <1>2. 1..n = S \cup {n} /\ n \notin S
    OBVIOUS
  <1>3. \A k \in S \cup {n} : g[k] \in Nat
    BY <1>2
  <1>4. \A k \in S : g[k] = h[k]
    BY <1>2
  <1>5. g[n] = f[n].addresses /\ DOMAIN g = 1..n /\ DOMAIN h = S
    OBVIOUS
  <1> HIDE DEF g, h, S
  <1>6. Total(g, S \cup {n}) = Total(g, S) + g[n]
    BY <1>1, <1>2, <1>3, TotalAdd
  <1>7. Total(g, S) = Total(h, S)
    BY <1>4, TotalSame
  <1>8. QED
    BY <1>2, <1>5, <1>6, <1>7 DEF SumOf, g, h

(* An empty sum.                                                           *)
LEMMA SumOfNothing ==
  ASSUME NEW f PROVE SumOf([k \in 1..0 |-> f[k].addresses]) = 0
  <1> DEFINE g == [k \in 1..0 |-> f[k].addresses]
  <1>1. DOMAIN g = {}
    OBVIOUS
  <1> HIDE DEF g
  <1>2. Total(g, {}) = 0
    <2>1. IsFiniteSet({}) /\ \A k \in {} : g[k] \in Nat
      BY FS_EmptySet
    <2>2. QED
      BY <2>1, TotalZero
  <1>3. SumOf(g) = 0
    BY <1>1, <1>2 DEF SumOf
  <1>4. QED
    BY <1>3 DEF g

(* The customers who have signed up stay as they are.                      *)
LEMMA SignUpInv ==
  ASSUME OrdersInv, SignUp
  PROVE  OrdersInv'
  <1> DEFINE N == Len(customers)
             d == Len(firstCust) - 1
  <1>1. OrdersTypeOK /\ IndexCutsByDay /\ AddressesFollow /\ SignedUpBefore
    BY OrdersParts
  <1>2. /\ Len(firstCust) \in 1..Days
        /\ UNCHANGED <<first, firstCust, day, clock, count, order, line, return, reviewed>>
    BY DEF SignUp, theOrder
  <1>3. PICK t \in {Midnight(d), Midnight(d) + 1}, n \in AddressCounts :
          customers' = Append(customers, [created |-> t, address |-> AddressId, addresses |-> n])
    BY DEF SignUp
  <1> DEFINE new == [created |-> t, address |-> AddressId, addresses |-> n]
  <1>4. /\ N \in Nat /\ DOMAIN customers = 1..N /\ \A c \in 1..N : customers[c] \in Customer
        /\ Len(firstCust) \in Nat /\ DOMAIN firstCust = 1..Len(firstCust)
    BY <1>1 DEF OrdersTypeOK
  <1>5. /\ Len(customers') = N + 1 /\ DOMAIN customers' = 1..(N + 1)
        /\ customers'[N + 1] = new /\ \A c \in 1..N : customers'[c] = customers[c]
    BY <1>1, <1>3, <1>4 DEF OrdersTypeOK
  <1>6. t \in Nat /\ t < Midnight(Len(firstCust)) /\ \A e \in 1..Len(firstCust) : Midnight(e - 1) <= t
    BY <1>2, <1>3, <1>4 DEF Midnight
  <1>7. \A c \in 1..N : /\ customers[c].created \in Nat /\ customers[c].address \in Nat
                         /\ customers[c].addresses \in Nat
    BY <1>4, SeedOrdersAssumption DEF Customer
  <1>8. AddressId = 1 + SumOf([k \in 1..N |-> customers[k].addresses]) /\ AddressId \in Nat
    <2>1. CASE N = 0
      <3>1. customers = <<>>
        BY <1>1, <2>1, EmptySeq DEF OrdersTypeOK
      <3>2. QED
        BY <2>1, <3>1, SumOfNothing DEF AddressId
    <2>2. CASE N # 0
      <3>1. customers # <<>>
        BY <2>2
      <3>2. N \in 1..N /\ AddressId = customers[N].address + customers[N].addresses
        BY <1>4, <2>2, <3>1 DEF AddressId, Last
      <3> DEFINE sum == SumOf([k \in 1..(N - 1) |-> customers[k].addresses])
                 all == SumOf([k \in 1..N |-> customers[k].addresses])
      <3>3. customers[N].address = 1 + sum
        BY <1>1, <1>4, <3>2 DEF AddressesFollow
      <3>4. all = sum + customers[N].addresses
        BY <1>4, <1>7, <2>2, SumOfNext
      <3>5. sum \in Int
        <4> DEFINE f == [k \in 1..(N - 1) |-> customers[k].addresses]
        <4>1. DOMAIN f = 1..(N - 1) /\ \A k \in 1..(N - 1) : f[k] \in Nat
          BY <1>4, <1>7
        <4>2. 1 \in Int /\ N - 1 \in Int
          BY <1>4
        <4>3. IsFiniteSet(1..(N - 1))
          BY <4>2, FS_Interval
        <4> HIDE DEF f
        <4>4. Total(f, 1..(N - 1)) \in Nat
          BY <4>1, <4>3, UnitsFinite
        <4>5. QED
          BY <4>1, <4>4 DEF SumOf, f
      <3> HIDE DEF sum, all
      <3>6. customers[N].addresses \in Nat /\ customers[N].address \in Nat
        BY <1>7, <3>2
      <3>7. AddressId = 1 + all /\ AddressId \in Nat
        BY <3>2, <3>3, <3>4, <3>5, <3>6
      <3>8. QED
        BY <3>7 DEF all
    <2>3. QED
      BY <2>1, <2>2
  <1>9. OrdersTypeOK'
    <2>1. new \in Customer
      BY <1>3, <1>6, <1>8 DEF Customer
    <2>2. customers' \in Seq(Customer)
      BY <1>1, <1>3, <2>1 DEF OrdersTypeOK
    <2>3. Ordered' => order' \in Order /\ order'.customer \in DOMAIN customers'
      BY <1>1, <1>2, <1>4, <1>5 DEF OrdersTypeOK, Ordered
    <2>4. QED
      BY <1>1, <1>2, <2>2, <2>3 DEF OrdersTypeOK
  <1>10. IndexCutsByDay'
    <2>1. \A c \in DOMAIN customers' : customers'[c].created < Midnight(Len(firstCust))
      <3>1. \A c \in 1..N : customers'[c].created < Midnight(Len(firstCust))
        BY <1>1, <1>4, <1>5 DEF IndexCutsByDay
      <3>2. customers'[N + 1].created = t
        BY <1>5
      <3>3. QED
        BY <1>4, <1>5, <1>6, <3>1, <3>2
    <2>2. ASSUME NEW e \in DOMAIN firstCust
          PROVE  /\ firstCust[e] \in 1..(Len(customers') + 1)
                 /\ \A c \in DOMAIN customers' :
                      c < firstCust[e] <=> customers'[c].created < Midnight(e - 1)
      <3>1. firstCust[e] \in 1..(N + 1)
        BY <1>1 DEF IndexCutsByDay
      <3>2. ASSUME NEW c \in 1..N
            PROVE  c < firstCust[e] <=> customers'[c].created < Midnight(e - 1)
        BY <1>1, <1>4, <1>5 DEF IndexCutsByDay
      <3>3. ~(N + 1 < firstCust[e]) /\ ~(t < Midnight(e - 1)) /\ customers'[N + 1].created = t
        <4>1. Midnight(e - 1) <= t /\ Midnight(e - 1) \in Int
          BY <1>4, <1>6 DEF Midnight
        <4>2. QED
          BY <1>4, <1>5, <1>6, <3>1, <4>1
      <3>4. QED
        BY <1>4, <1>5, <3>1, <3>2, <3>3
    <2>3. QED
      BY <1>1, <1>2, <2>1, <2>2 DEF IndexCutsByDay
  <1>11. AddressesFollow'
    <2>1. ASSUME NEW c \in 1..(N + 1)
          PROVE  customers'[c].address = 1 + SumOf([k \in 1..(c - 1) |-> customers'[k].addresses])
      <3>1. [k \in 1..(c - 1) |-> customers'[k].addresses] = [k \in 1..(c - 1) |-> customers[k].addresses]
        BY <1>4, <1>5
      <3>2. CASE c = N + 1
        <4>1. c - 1 = N /\ customers'[c].address = AddressId
          BY <1>4, <1>5, <3>2
        <4>2. QED
          BY <1>8, <3>1, <4>1
      <3>3. CASE c # N + 1
        <4>1. c \in 1..N
          BY <1>4, <3>3
        <4>2. QED
          BY <1>1, <1>4, <1>5, <3>1, <4>1 DEF AddressesFollow
      <3>4. QED
        BY <3>2, <3>3
    <2>2. QED
      BY <1>5, <2>1 DEF AddressesFollow
  <1>12. SignedUpBefore'
    BY <1>1, <1>2, <1>4, <1>5 DEF SignedUpBefore, OrdersTypeOK, Ordered
  <1>13. /\ ReturnIsOfLine' /\ OrderTellsOneStory' /\ OneReviewEach'
         /\ LinesJoinTheirVersion' /\ PromotionsApply'
    <2>1. /\ ReturnIsOfLine /\ OrderTellsOneStory /\ OneReviewEach
          /\ LinesJoinTheirVersion /\ PromotionsApply
      BY OrdersParts
    <2>2. QED
      BY <1>2, <2>1 DEF ReturnIsOfLine, OrderTellsOneStory, OneReviewEach, LinesJoinTheirVersion,
        PromotionsApply, Ordered, Written, Delivered, AsOf
  <1>14. QED
    <2>1. /\ OrdersTypeOK' /\ IndexCutsByDay' /\ AddressesFollow' /\ SignedUpBefore'
          /\ ReturnIsOfLine' /\ OrderTellsOneStory' /\ OneReviewEach'
          /\ LinesJoinTheirVersion' /\ PromotionsApply'
      BY <1>9, <1>10, <1>11, <1>12, <1>13
    <2>2. QED
      BY <2>1, OrdersPartsNext

(* The lines of the next order join, as the rates are the same.            *)
LEMMA LinesJoinNext ==
  ASSUME first' = first,
         Ordered' => \A i \in DOMAIN order'.lines : Joins(order'.lines[i], order'.placed)
  PROVE  LinesJoinTheirVersion'
  BY DEF LinesJoinTheirVersion, Joins, AsOf

(* What was said of the lines and the code of an order stays true of it.   *)
LEMMA LinesStay ==
  ASSUME first' = first, LinesJoinTheirVersion, PromotionsApply,
         Ordered' => /\ Ordered
                     /\ order'.lines = order.lines /\ order'.placed = order.placed
                     /\ order'.promo = order.promo
  PROVE  LinesJoinTheirVersion' /\ PromotionsApply'
  <1>1. LinesJoinTheirVersion'
    <2>1. ASSUME Ordered' PROVE \A i \in DOMAIN order'.lines : Joins(order'.lines[i], order'.placed)
      <3>1. Ordered => \A i \in DOMAIN order.lines : Joins(order.lines[i], order.placed)
        BY DEF LinesJoinTheirVersion, Joins
      <3>2. QED
        BY <2>1, <3>1
    <2>2. QED
      BY <2>1, LinesJoinNext
  <1>2. PromotionsApply'
    <2>1. SUFFICES ASSUME Ordered' PROVE PromotionsApply'
      BY DEF PromotionsApply
    <2>2. Ordered
      BY <2>1
    <2>3. QED
      BY <2>1, <2>2 DEF PromotionsApply
  <1>3. QED
    BY <1>1, <1>2

(* A day more is in the index.                                             *)
LEMMA NextSignUpDayInv ==
  ASSUME OrdersInv, NextSignUpDay
  PROVE  OrdersInv'
  <1> DEFINE N == Len(customers)
             D == Len(firstCust)
  <1>1. OrdersTypeOK /\ IndexCutsByDay
    BY OrdersParts
  <1>2. /\ D <= Days /\ firstCust' = Append(firstCust, N + 1)
        /\ UNCHANGED <<first, customers, day, clock, count, order, line, return, reviewed>>
    BY DEF NextSignUpDay, theOrder
  <1>3. N \in Nat /\ D \in Nat /\ DOMAIN customers = 1..N /\ DOMAIN firstCust = 1..D /\ Days \in Nat
    BY <1>1, SeedOrdersAssumption DEF OrdersTypeOK
  <1>4. /\ firstCust' \in Seq(Nat) /\ Len(firstCust') = D + 1 /\ DOMAIN firstCust' = 1..(D + 1)
        /\ firstCust'[D + 1] = N + 1 /\ \A e \in 1..D : firstCust'[e] = firstCust[e]
    BY <1>1, <1>2, <1>3 DEF OrdersTypeOK
  <1>5. \A c \in 1..N : customers[c].created \in Nat
    <2>1. \A c \in 1..N : customers[c] \in Customer
      BY <1>1, <1>3 DEF OrdersTypeOK
    <2>2. QED
      BY <2>1 DEF Customer
  <1>6. OrdersTypeOK'
    BY <1>1, <1>2, <1>4 DEF OrdersTypeOK, Ordered
  <1>7. IndexCutsByDay'
    <2>1. \A c \in 1..N : customers[c].created < Midnight(D)
      BY <1>1, <1>3 DEF IndexCutsByDay
    <2>2. Midnight(D) < Midnight(D + 1) /\ Midnight(D) \in Int /\ Midnight(D + 1) \in Int
      BY <1>3 DEF Midnight
    <2>3. \A c \in 1..N : customers[c].created < Midnight(D + 1)
      BY <1>5, <2>1, <2>2
    <2>4. ASSUME NEW e \in 1..(D + 1)
          PROVE  /\ firstCust'[e] \in 1..(N + 1)
                 /\ \A c \in 1..N : c < firstCust'[e] <=> customers[c].created < Midnight(e - 1)
      <3>1. CASE e = D + 1
        <4>1. firstCust'[e] = N + 1 /\ e - 1 = D
          BY <1>3, <1>4, <3>1
        <4>2. QED
          BY <1>3, <2>1, <4>1
      <3>2. CASE e # D + 1
        <4>1. e \in 1..D
          BY <1>3, <3>2
        <4>2. QED
          BY <1>1, <1>3, <1>4, <4>1 DEF IndexCutsByDay
      <3>3. QED
        BY <3>1, <3>2
    <2>5. QED
      BY <1>2, <1>3, <1>4, <2>3, <2>4 DEF IndexCutsByDay
  <1>8. /\ AddressesFollow' /\ SignedUpBefore' /\ ReturnIsOfLine' /\ OrderTellsOneStory'
        /\ OneReviewEach' /\ LinesJoinTheirVersion' /\ PromotionsApply'
    <2>1. /\ AddressesFollow /\ SignedUpBefore /\ ReturnIsOfLine /\ OrderTellsOneStory
          /\ OneReviewEach /\ LinesJoinTheirVersion /\ PromotionsApply
      BY OrdersParts
    <2>2. AddressesFollow' /\ SignedUpBefore'
      BY <1>2, <2>1 DEF AddressesFollow, SignedUpBefore, Ordered
    <2>3. ReturnIsOfLine' /\ OrderTellsOneStory' /\ OneReviewEach'
      BY <1>2, <2>1 DEF ReturnIsOfLine, OrderTellsOneStory, OneReviewEach, Ordered, Written, Delivered
    <2>4. LinesJoinTheirVersion' /\ PromotionsApply'
      BY <1>2, <2>1, LinesStay DEF Ordered
    <2>5. QED
      BY <2>2, <2>3, <2>4
  <1>9. QED
    BY <1>6, <1>7, <1>8, OrdersPartsNext

-----------------------------------------------------------------------------
(* Orders.                                                                 *)

(* Steps that leave the customers alone.                                   *)
LEMMA CustomersStay ==
  ASSUME OrdersInv, UNCHANGED <<customers, firstCust>>
  PROVE  IndexCutsByDay' /\ AddressesFollow'
  <1>1. IndexCutsByDay /\ AddressesFollow
    BY OrdersParts
  <1>2. QED
    BY <1>1 DEF IndexCutsByDay, AddressesFollow

(* A day without an order in the making ends.                              *)
LEMMA NextOrderDayInv ==
  ASSUME OrdersInv, NextOrderDay
  PROVE  OrdersInv'
  <1>1. /\ OrdersTypeOK /\ SignedUpBefore /\ ReturnIsOfLine /\ OrderTellsOneStory
        /\ OneReviewEach /\ LinesJoinTheirVersion /\ PromotionsApply
    BY OrdersParts
  <1>2. /\ day < Days - 1 /\ day' = day + 1 /\ clock' = Midnight(day + 1)
        /\ UNCHANGED <<first, customers, firstCust, count, order, line, return, reviewed>>
    BY DEF NextOrderDay, theOrder
  <1>3. OrdersTypeOK'
    BY <1>1, <1>2, SeedOrdersAssumption DEF OrdersTypeOK, Ordered, Midnight
  <1>4. /\ SignedUpBefore' /\ ReturnIsOfLine' /\ OrderTellsOneStory'
        /\ OneReviewEach' /\ LinesJoinTheirVersion' /\ PromotionsApply'
    BY <1>1, <1>2 DEF SignedUpBefore, ReturnIsOfLine, OrderTellsOneStory, OneReviewEach,
      LinesJoinTheirVersion, PromotionsApply, Ordered, Written, Delivered, AsOf
  <1>5. QED
    BY <1>2, <1>3, <1>4, CustomersStay, OrdersPartsNext

(* An order is placed: its lines join their versions, its code was active, *)
(* and its customer had signed up.                                         *)
LEMMA PlaceOrderInv ==
  ASSUME OrdersInv, PlaceOrder
  PROVE  OrdersInv'
  <1>1. /\ OrdersTypeOK /\ IndexCutsByDay /\ ReturnIsOfLine /\ OneReviewEach
    BY OrdersParts
  <1>2. /\ BuiltCustomers /\ HasDemand(day) /\ order = NoOrder /\ count' = count + 1
        /\ UNCHANGED <<first, customers, firstCust, day, line, return, reviewed>>
    BY DEF PlaceOrder
  <1>3. PICK placed \in {t \in {Midnight(day), Midnight(day) + 1} : t >= clock} :
        \E c \in PickedCustomers(day, placed),
           promo \in {0} \cup ActivePromotions(Promotions, Midnight(day)),
           draft \in {s \in Drafts : \A i \in DOMAIN s : s[i][1] \in PickedProducts(placed)} :
          LET lines    == [i \in DOMAIN draft |-> Line(draft[i][1], draft[i][2], placed, promo)]
              discount == SumOf([i \in DOMAIN lines |-> lines[i].disc])
              net      == SumOf([i \in DOMAIN lines |-> lines[i].qty * lines[i].unit]) - discount
          IN /\ order' = [customer |-> c, address |-> customers[c].address, placed |-> placed,
                          promo |-> IF discount = 0 THEN 0 ELSE promo, lines |-> lines,
                          total |-> net + Rounded(net * TaxPct, 100), status |-> "none",
                          updated |-> placed, payments |-> <<>>, shipment |-> NoShipment]
             /\ clock' = placed
    BY DEF PlaceOrder
  <1>4. PICK c \in PickedCustomers(day, placed),
             promo \in {0} \cup ActivePromotions(Promotions, Midnight(day)),
             draft \in {s \in Drafts : \A i \in DOMAIN s : s[i][1] \in PickedProducts(placed)} :
          LET lines    == [i \in DOMAIN draft |-> Line(draft[i][1], draft[i][2], placed, promo)]
              discount == SumOf([i \in DOMAIN lines |-> lines[i].disc])
              net      == SumOf([i \in DOMAIN lines |-> lines[i].qty * lines[i].unit]) - discount
          IN /\ order' = [customer |-> c, address |-> customers[c].address, placed |-> placed,
                          promo |-> IF discount = 0 THEN 0 ELSE promo, lines |-> lines,
                          total |-> net + Rounded(net * TaxPct, 100), status |-> "none",
                          updated |-> placed, payments |-> <<>>, shipment |-> NoShipment]
             /\ clock' = placed
    BY <1>3
  <1> DEFINE lines    == [i \in DOMAIN draft |-> Line(draft[i][1], draft[i][2], placed, promo)]
             discs    == [i \in DOMAIN lines |-> lines[i].disc]
             costs    == [i \in DOMAIN lines |-> lines[i].qty * lines[i].unit]
             net      == SumOf(costs) - SumOf(discs)
  <1>5. PICK n \in 1..MaxLines : draft \in [1..n -> Product \X Quantities]
    BY DEF Drafts
  <1>6. n \in Nat /\ DOMAIN draft = 1..n /\ DOMAIN lines = 1..n /\ DOMAIN discs = 1..n /\ DOMAIN costs = 1..n
    BY <1>5, SeedOrdersAssumption
  <1>7. /\ day \in 0..(Days - 1) /\ placed \in 0..(End - 1)
        /\ Midnight(day) <= placed /\ placed < Midnight(day) + 2
    BY <1>1, SeedOrdersAssumption DEF OrdersTypeOK, Midnight, End
  <1>8. ASSUME NEW i \in 1..n
        PROVE  /\ lines[i] \in OrderLine /\ Joins(lines[i], placed)
               /\ lines[i].disc # 0 => promo # 0 /\ lines[i].product \in Promotions[promo].set
    <2> DEFINE p == draft[i][1]
               qty == draft[i][2]
               l == Line(p, qty, placed, promo)
    <2>1. p \in PickedProducts(placed) /\ qty \in Quantities
      BY <1>5, <1>6
    <2>2. promo \in {0} \cup DOMAIN Promotions
      BY DEF ActivePromotions
    <2>3. first \in FirstWeekdays /\ placed \in 0..(End - 1)
      BY <1>1, <1>7 DEF OrdersTypeOK
    <2>4. lines[i] = l
      BY <1>6
    <2> HIDE DEF lines, p, qty
    <2>5. /\ l \in OrderLine /\ l.product = p /\ Joins(l, placed)
          /\ l.disc # 0 => promo # 0 /\ p \in Promotions[promo].set
      BY <2>1, <2>2, <2>3, LineFact
    <2>6. QED
      BY <2>4, <2>5
  <1> HIDE DEF lines
  <1>9. ASSUME NEW i \in 1..n
        PROVE  /\ lines[i].product \in Product /\ lines[i].qty \in Nat /\ lines[i].unit \in Nat
               /\ lines[i].disc \in Nat /\ costs[i] \in Nat /\ discs[i] = lines[i].disc
    <2>1. lines[i].product \in Product /\ lines[i].qty \in Nat /\ lines[i].unit \in Nat /\ lines[i].disc \in Nat
      BY <1>8, SeedOrdersAssumption DEF OrderLine
    <2>2. costs[i] = lines[i].qty * lines[i].unit /\ discs[i] = lines[i].disc
      BY <1>6
    <2>3. QED
      BY <2>1, <2>2, NatTimes
  <1> HIDE DEF discs, costs
  <1>10. /\ SumOf(discs) \in Nat /\ SumOf(costs) \in Nat
         /\ SumOf(discs) = 0 <=> \A i \in 1..n : lines[i].disc = 0
    <2>1. IsFiniteSet(1..n)
      <3>1. 1 \in Int /\ n \in Int
        BY <1>6
      <3>2. QED
        BY <3>1, FS_Interval
    <2>2. \A i \in 1..n : discs[i] \in Nat /\ costs[i] \in Nat
      BY <1>9
    <2>3. Total(discs, 1..n) \in Nat /\ Total(costs, 1..n) \in Nat
      BY <2>1, <2>2, UnitsFinite
    <2>4. Total(discs, 1..n) = 0 <=> \A i \in 1..n : discs[i] = 0
      BY <2>1, <2>2, TotalZero
    <2>5. QED
      BY <1>6, <1>9, <2>3, <2>4 DEF SumOf
  <1>11. order' = [customer |-> c, address |-> customers[c].address, placed |-> placed,
                   promo |-> IF SumOf(discs) = 0 THEN 0 ELSE promo, lines |-> lines,
                   total |-> net + Rounded(net * TaxPct, 100), status |-> "none",
                   updated |-> placed, payments |-> <<>>, shipment |-> NoShipment]
         /\ clock' = placed
    BY <1>4 DEF lines, discs, costs
  <1>12. c \in DOMAIN customers /\ customers[c] \in Customer /\ customers[c].created < placed
    <2> DEFINE N == Len(customers)
    <2>1. N \in Nat /\ DOMAIN customers = 1..N /\ DOMAIN firstCust = 1..(Days + 1) /\ Days \in Nat
      BY <1>1, <1>2, SeedOrdersAssumption DEF OrdersTypeOK, BuiltCustomers
    <2>2. day + 1 \in 1..(Days + 1) /\ day + 2 \in 1..(Days + 1) /\ (day + 1) - 1 = day /\ (day + 1) + 1 = day + 2
      BY <1>7, <2>1
    <2>3. /\ FirstOf(day) \in 1..(N + 1) /\ FirstOf(day + 1) \in 1..(N + 1)
          /\ \A x \in 1..N : x < FirstOf(day) => customers[x].created < Midnight(day)
      BY <1>1, <2>1, <2>2 DEF IndexCutsByDay, FirstOf
    <2>4. c \in 1..N
      BY <2>1, <2>3 DEF PickedCustomers
    <2>5. customers[c] \in Customer
      BY <1>1, <2>1, <2>4 DEF OrdersTypeOK
    <2>6. CASE customers[c].created < placed
      BY <2>1, <2>4, <2>5, <2>6
    <2>7. CASE c \in 1..(FirstOf(day) - 1)
      <3>1. c < FirstOf(day)
        BY <2>3, <2>7
      <3>2. customers[c].created < Midnight(day)
        BY <2>3, <2>4, <3>1
      <3>3. customers[c].created \in Nat /\ Midnight(day) \in Int
        BY <1>7, <2>5 DEF Customer, Midnight
      <3>4. QED
        BY <1>7, <2>1, <2>4, <2>5, <3>2, <3>3
    <2>8. QED
      BY <2>6, <2>7 DEF PickedCustomers
  <1>13. OrdersTypeOK'
    <2>1. order' \in Order
      <3>1. net \in Int /\ Rounded(net * TaxPct, 100) \in Int
        <4>1. net \in Int
          BY <1>10
        <4> HIDE DEF net
        <4>2. net * TaxPct \in Int
          BY <4>1 DEF TaxPct
        <4>3. QED
          BY <4>1, <4>2, RoundedFact
      <3> HIDE DEF net
      <3>2. net + Rounded(net * TaxPct, 100) \in Int
        BY <3>1
      <3>3. lines \in Seq(OrderLine)
        <4>1. lines \in [1..n -> OrderLine]
          BY <1>6, <1>8 DEF lines
        <4>2. QED
          BY <1>6, <4>1
      <3>4. c \in Nat /\ customers[c].address \in Nat
        BY <1>1, <1>12 DEF OrdersTypeOK, Customer
      <3>5. promo \in {0} \cup DOMAIN Promotions
        BY DEF ActivePromotions
      <3>6. NoShipment \in Parcel /\ <<>> \in Seq(Payment) /\ placed \in Int
        BY <1>7 DEF NoShipment, Parcel, Nothing
      <3>7. QED
        BY <1>7, <1>11, <3>2, <3>3, <3>4, <3>5, <3>6 DEF Order
    <2>2. order'.customer = c /\ clock' = placed
      BY <1>11
    <2>3. QED
      BY <1>1, <1>2, <1>7, <1>12, <2>1, <2>2 DEF OrdersTypeOK
  <1>14. order'.customer = c /\ order'.placed = placed /\ order'.lines = lines
         /\ order'.promo = (IF SumOf(discs) = 0 THEN 0 ELSE promo) /\ order'.status = "none"
    BY <1>11
  <1>15. SignedUpBefore'
    BY <1>2, <1>12, <1>14 DEF SignedUpBefore
  <1>16. LinesJoinTheirVersion'
    <2>1. ASSUME NEW i \in DOMAIN order'.lines PROVE Joins(order'.lines[i], order'.placed)
      BY <1>6, <1>8, <1>14
    <2>2. first' = first
      BY <1>2
    <2>3. QED
      BY <2>1, <2>2 DEF LinesJoinTheirVersion, Joins, AsOf
  <1>17. PromotionsApply'
    <2>1. order'.promo = 0 <=> \A i \in DOMAIN order'.lines : order'.lines[i].disc = 0
      <3>1. SumOf(discs) # 0 => promo # 0
        BY <1>8, <1>10
      <3>2. QED
        BY <1>6, <1>10, <1>14, <3>1
    <2>2. order'.promo # 0 => ValidAt([from |-> Promotions[order'.promo].starts,
                                       to |-> Promotions[order'.promo].ends], order'.placed)
      <3>1. SUFFICES ASSUME order'.promo # 0
                     PROVE  ValidAt([from |-> Promotions[promo].starts, to |-> Promotions[promo].ends], placed)
        BY <1>14
      <3>2. promo \in DOMAIN Promotions /\ Promotions[promo].starts <= Midnight(day) /\ Midnight(day) < Promotions[promo].ends
        BY <1>14, <3>1 DEF ActivePromotions
      <3>3. /\ Promotions[promo].starts \in Int /\ Promotions[promo].ends \in Int
            /\ Promotions[promo].ends = Midnight(DayOf(Promotions[promo].ends))
        BY <3>2, PromotionsAssumption
      <3> DEFINE e == Promotions[promo].ends
      <3> HIDE DEF e
      <3>4. DayOf(e) \in Int /\ e = 2 * DayOf(e) /\ e \in Int /\ 2 * day < e
        BY <3>2, <3>3 DEF Midnight, DayOf, e
      <3>5. 2 * day + 2 <= e
        BY <1>7, <3>4
      <3>6. placed < e /\ Promotions[promo].starts <= placed
        BY <1>7, <3>2, <3>3, <3>4, <3>5 DEF Midnight
      <3>7. QED
        BY <3>6 DEF ValidAt, e
    <2>3. ASSUME NEW i \in DOMAIN order'.lines, order'.lines[i].disc > 0
          PROVE  order'.lines[i].product \in Promotions[order'.promo].set
      <3>1. i \in 1..n /\ lines[i].disc # 0
        BY <1>6, <1>14, <2>3
      <3>2. SumOf(discs) # 0
        BY <1>10, <3>1
      <3>3. QED
        BY <1>8, <1>14, <3>1, <3>2
    <2>4. QED
      BY <2>1, <2>2, <2>3 DEF PromotionsApply
  <1>18. ReturnIsOfLine'
    <2>1. return = NoReturn
      BY <1>1, <1>2 DEF ReturnIsOfLine, Delivered
    <2>2. QED
      BY <1>2, <2>1 DEF ReturnIsOfLine
  <1>19. OrderTellsOneStory' /\ OneReviewEach'
    BY <1>1, <1>2, <1>14 DEF OrderTellsOneStory, OneReviewEach, Written
  <1>20. QED
    BY <1>2, <1>13, <1>15, <1>16, <1>17, <1>18, <1>19, CustomersStay, OrdersPartsNext

(* Payments, parcel and dates follow the status the order reached.         *)
LEMMA WriteOrderInv ==
  ASSUME OrdersInv, WriteOrder
  PROVE  OrdersInv'
  <1>1. /\ OrdersTypeOK /\ SignedUpBefore /\ ReturnIsOfLine /\ OneReviewEach
        /\ LinesJoinTheirVersion /\ PromotionsApply
    BY OrdersParts
  <1>2. /\ order # NoOrder /\ order.status = "none" /\ line' = 1
        /\ UNCHANGED <<first, customers, firstCust, day, clock, count, return, reviewed>>
    BY DEF WriteOrder
  <1>3. PICK refused \in BOOLEAN, a \in PayDelays, b \in ShipDelays, e \in TransitDelays :
       LET paid      == order.placed + a
           shipped   == paid + b
           delivered == shipped + e
           status    == StatusAt(refused, paid, shipped, delivered)
           updated   == CASE status = "cancelled" -> order.placed + b
                          [] status = "pending"   -> order.placed
                          [] status = "paid"      -> paid
                          [] status = "shipped"   -> shipped
                          [] OTHER                -> delivered
       IN \E payments \in Payments(status, order.placed, paid) :
            order' = [order EXCEPT !.status = status,
                                   !.updated = IF updated > End THEN End - 1 ELSE updated,
                                   !.payments = payments,
                                   !.shipment = Shipment(status, shipped, delivered)]
    BY DEF WriteOrder
  <1> DEFINE placed    == order.placed
             paid      == placed + a
             shipped   == paid + b
             delivered == shipped + e
             status    == StatusAt(refused, paid, shipped, delivered)
             updated   == CASE status = "cancelled" -> placed + b
                            [] status = "pending"   -> placed
                            [] status = "paid"      -> paid
                            [] status = "shipped"   -> shipped
                            [] OTHER                -> delivered
             parcel    == Shipment(status, shipped, delivered)
             date      == IF updated > End THEN End - 1 ELSE updated
  <1>4. PICK payments \in Payments(status, placed, paid) :
          order' = [order EXCEPT !.status = status, !.updated = date,
                                 !.payments = payments, !.shipment = parcel]
    BY <1>3
  <1>5. /\ order \in Order /\ order.customer \in DOMAIN customers
        /\ placed \in 0..(End - 1) /\ End \in Nat /\ placed \in Nat /\ placed < End
    <2>1. order \in Order /\ order.customer \in DOMAIN customers
      BY <1>1, <1>2 DEF OrdersTypeOK, Ordered
    <2>2. placed \in 0..(End - 1)
      BY <2>1 DEF Order
    <2>3. End \in Nat
      BY SeedOrdersAssumption DEF End
    <2> HIDE DEF placed
    <2>4. QED
      BY <2>1, <2>2, <2>3
  <1>6. /\ paid \in Nat /\ shipped \in Nat /\ delivered \in Nat /\ placed + b \in Nat
        /\ placed < paid /\ paid < shipped /\ shipped < delivered /\ placed < placed + b
    <2>1. a \in Nat \ {0} /\ b \in Nat \ {0} /\ e \in Nat \ {0}
      BY SeedOrdersAssumption
    <2>2. QED
      BY <1>5, <2>1
  <1>7. /\ status \in {"cancelled", "pending", "paid", "shipped", "delivered"}
        /\ status = "shipped" => shipped < End
        /\ status = "delivered" => delivered < End
    <2>1. status = StatusAt(refused, paid, shipped, delivered)
      OBVIOUS
    <2> HIDE DEF paid, shipped, delivered, status
    <2>2. CASE refused
      BY <2>1, <2>2 DEF StatusAt
    <2>3. CASE ~refused
      <3>1. /\ status \in {"pending", "paid", "shipped", "delivered"}
            /\ status = "shipped" => Reached(shipped)
            /\ status = "delivered" => Reached(delivered)
        BY <2>1, <2>3 DEF StatusAt
      <3>2. QED
        BY <3>1 DEF Reached
    <2>4. QED
      BY <2>2, <2>3
  <1> HIDE DEF placed, paid, shipped, delivered, status
  <1>8. /\ parcel \in Parcel
        /\ parcel.shipped = (IF status \in {"shipped", "delivered"} THEN shipped ELSE Nothing)
        /\ parcel.delivered = (IF status = "delivered" THEN delivered ELSE Nothing)
    <2>1. Nothing \in Int /\ shipped \in Int /\ delivered \in Int
      BY <1>6 DEF Nothing
    <2>2. CASE status = "paid"
      BY <2>1, <2>2 DEF Shipment, Parcel
    <2>3. CASE status = "shipped"
      BY <2>1, <2>3 DEF Shipment, Parcel
    <2>4. CASE status = "delivered"
      BY <2>1, <2>4 DEF Shipment, Parcel
    <2>5. CASE status \in {"cancelled", "pending"}
      BY <2>1, <2>5 DEF Shipment, NoShipment, Parcel
    <2>6. QED
      BY <1>7, <2>2, <2>3, <2>4, <2>5
  <1>9. /\ payments \in Seq(Payment)
        /\ (\E i \in DOMAIN payments : payments[i].status \in {"authorized", "captured"})
             <=> status # "cancelled"
    <2>1. placed \in Int /\ paid \in Int
      BY <1>5, <1>6
    <2>2. CASE status = "pending"
      <3>1. payments = <<[status |-> "authorized", at |-> placed]>>
        BY <2>2 DEF Payments
      <3>2. [status |-> "authorized", at |-> placed] \in Payment
        BY <2>1 DEF Payment
      <3>3. QED
        BY <2>2, <3>1, <3>2
    <2>3. CASE status = "cancelled"
      <3>1. PICK s \in {"refunded", "failed"} : payments = <<[status |-> s, at |-> placed]>>
        BY <2>3 DEF Payments
      <3>2. [status |-> s, at |-> placed] \in Payment
        BY <2>1 DEF Payment
      <3>3. QED
        BY <2>3, <3>1, <3>2
    <2>4. CASE status \in {"paid", "shipped", "delivered"}
      <3>1. \/ payments = <<[status |-> "captured", at |-> paid]>>
            \/ payments = <<[status |-> "failed", at |-> placed], [status |-> "captured", at |-> paid]>>
        BY <2>4 DEF Payments
      <3>2. [status |-> "captured", at |-> paid] \in Payment /\ [status |-> "failed", at |-> placed] \in Payment
        BY <2>1 DEF Payment
      <3>3. CASE payments = <<[status |-> "captured", at |-> paid]>>
        BY <2>4, <3>2, <3>3
      <3>4. CASE payments = <<[status |-> "failed", at |-> placed], [status |-> "captured", at |-> paid]>>
        <4>1. payments \in Seq(Payment)
          BY <3>2, <3>4
        <4>2. 2 \in DOMAIN payments /\ payments[2].status = "captured"
          BY <3>4
        <4>3. QED
          BY <2>4, <4>1, <4>2
      <3>5. QED
        BY <3>1, <3>3, <3>4
    <2>5. QED
      BY <1>7, <2>2, <2>3, <2>4
  <1>10. placed <= date /\ date <= End /\ date \in Int
    <2>1. updated \in Nat /\ placed <= updated
      BY <1>5, <1>6, <1>7
    <2> HIDE DEF updated
    <2>2. QED
      BY <1>5, <2>1
  <1> HIDE DEF parcel, date
  <1>11. /\ order'.customer = order.customer /\ order'.placed = placed /\ order'.lines = order.lines
         /\ order'.promo = order.promo /\ order'.status = status /\ order'.updated = date
         /\ order'.payments = payments /\ order'.shipment = parcel /\ order' \in Order
    <2>1. order' \in Order
      BY <1>4, <1>5, <1>7, <1>8, <1>9, <1>10 DEF Order
    <2>2. QED
      BY <1>4, <1>5, <2>1 DEF Order, placed
  <1>12. OrdersTypeOK'
    BY <1>1, <1>2, <1>5, <1>11 DEF OrdersTypeOK
  <1>13. return = NoReturn
    BY <1>1, <1>2 DEF ReturnIsOfLine, Delivered
  <1>14. OrderTellsOneStory'
    <2>1. shipped # Nothing /\ delivered # Nothing
      BY <1>6 DEF Nothing
    <2>2. /\ status \in {"shipped", "delivered"} <=> parcel.shipped # Nothing
          /\ parcel.shipped # Nothing => placed < parcel.shipped /\ parcel.shipped < End
          /\ status = "delivered" <=> parcel.delivered # Nothing
          /\ parcel.delivered # Nothing => parcel.shipped <= parcel.delivered /\ parcel.delivered < End
      <3>1. CASE status = "delivered"
        BY <1>5, <1>6, <1>7, <1>8, <2>1, <3>1
      <3>2. CASE status = "shipped"
        BY <1>5, <1>6, <1>7, <1>8, <2>1, <3>2
      <3>3. CASE status \notin {"shipped", "delivered"}
        BY <1>8, <3>3
      <3>4. QED
        BY <3>1, <3>2, <3>3
    <2>3. QED
      BY <1>2, <1>9, <1>10, <1>11, <1>13, <2>2 DEF OrderTellsOneStory
  <1>15. ReturnIsOfLine'
    BY <1>2, <1>13 DEF ReturnIsOfLine
  <1>16. SignedUpBefore' /\ OneReviewEach'
    BY <1>1, <1>2, <1>11 DEF SignedUpBefore, OneReviewEach, Ordered, placed
  <1>17. LinesJoinTheirVersion' /\ PromotionsApply'
    BY <1>1, <1>2, <1>11, LinesStay DEF Ordered, placed
  <1>18. QED
    BY <1>2, <1>12, <1>14, <1>15, <1>16, <1>17, CustomersStay, OrdersPartsNext

(* A line is returned, or not.                                             *)
LEMMA ReturnLineInv ==
  ASSUME OrdersInv, ReturnLine
  PROVE  OrdersInv'
  <1>1. /\ OrdersTypeOK /\ SignedUpBefore /\ OrderTellsOneStory /\ OneReviewEach
        /\ LinesJoinTheirVersion /\ PromotionsApply
    BY OrdersParts
  <1> DEFINE l == order.lines[line]
  <1>2. /\ Delivered /\ line \in DOMAIN order.lines /\ line' = line + 1
        /\ UNCHANGED <<first, customers, firstCust, day, clock, count, order, reviewed>>
    BY DEF ReturnLine
  <1>3. \/ return' = NoReturn
        \/ \E w \in LaterDelays, q \in 1..l.qty : \E st \in Decisions(order.shipment.delivered + w) :
             /\ Reached(order.shipment.delivered + w)
             /\ return' = [qty |-> q, status |-> st, at |-> order.shipment.delivered + w,
                           refund |-> IF st \in {"refunded", "approved"} THEN Refund(l, q) ELSE 0]
    BY DEF ReturnLine
  <1>4. /\ order \in Order /\ line \in Nat /\ l \in OrderLine /\ l.qty \in Nat \ {0} /\ l.unit \in Nat
        /\ l.disc \in Nat /\ order.shipment.delivered \in Int /\ line' - 1 = line
    <2>1. order \in Order /\ line \in Nat
      BY <1>1, <1>2 DEF OrdersTypeOK, Delivered, Ordered
    <2>2. order.lines \in Seq(OrderLine) /\ order.shipment \in Parcel
      BY <2>1 DEF Order
    <2>3. l \in OrderLine
      BY <1>2, <2>2
    <2>4. QED
      <3>1. /\ l.qty \in Nat \ {0} /\ l.unit \in Nat /\ l.disc \in Nat
        BY <2>3, SeedOrdersAssumption DEF OrderLine
      <3>2. order.shipment.delivered \in Int
        BY <2>2 DEF Parcel
      <3>3. line' - 1 = line
        BY <1>2, <2>1
      <3>4. QED
        BY <2>1, <2>3, <3>1, <3>2, <3>3
  <1>5. /\ return' \in Return
        /\ return' # NoReturn =>
             /\ return'.qty \in 1..l.qty
             /\ return'.status \in {"refunded", "approved"} => return'.refund = Refund(l, return'.qty)
             /\ order.shipment.delivered < return'.at /\ return'.at < End
    <2>1. CASE return' = NoReturn
      BY <2>1 DEF NoReturn, Return, Nothing
    <2>2. ASSUME NEW w \in LaterDelays, NEW q \in 1..l.qty,
                 NEW st \in Decisions(order.shipment.delivered + w),
                 Reached(order.shipment.delivered + w),
                 return' = [qty |-> q, status |-> st, at |-> order.shipment.delivered + w,
                            refund |-> IF st \in {"refunded", "approved"} THEN Refund(l, q) ELSE 0]
          PROVE  /\ return' \in Return /\ return'.qty \in 1..l.qty
                 /\ return'.status \in {"refunded", "approved"} => return'.refund = Refund(l, return'.qty)
                 /\ order.shipment.delivered < return'.at /\ return'.at < End
      <3>1. st \in {"requested", "refunded", "approved", "rejected"}
        BY DEF Decisions
      <3>2. w \in Nat \ {0}
        BY SeedOrdersAssumption
      <3>3. q \in Nat /\ Refund(l, q) \in Int
        <4>1. q \in Nat /\ l.qty \in Nat \ {0} /\ l.unit \in Nat /\ l.disc \in Nat
          BY <1>4
        <4> HIDE DEF l
        <4>2. q * l.unit \in Nat /\ l.disc * q \in Nat
          BY <4>1, NatTimes
        <4>3. (l.disc * q) \div l.qty \in Int
          BY <4>1, <4>2
        <4>4. QED
          BY <4>1, <4>2, <4>3 DEF Refund
      <3> HIDE DEF l
      <3>4. order.shipment.delivered + w \in Int /\ order.shipment.delivered < order.shipment.delivered + w
        BY <1>4, <3>2
      <3>5. return' \in Return
        BY <2>2, <3>1, <3>3, <3>4 DEF Return
      <3>6. QED
        BY <2>2, <3>4, <3>5 DEF Reached
    <2>3. QED
      BY <1>3, <2>1, <2>2
  <1>6. OrdersTypeOK'
    BY <1>1, <1>2, <1>4, <1>5 DEF OrdersTypeOK, Ordered
  <1>7. ReturnIsOfLine'
    BY <1>2, <1>4, <1>5 DEF ReturnIsOfLine, Delivered
  <1>8. OrderTellsOneStory'
    <2>1. order.status # "none" /\ order # NoOrder
      BY <1>2 DEF Delivered
    <2>2. QED
      BY <1>1, <1>2, <1>5, <2>1 DEF OrderTellsOneStory, Written, Ordered
  <1>9. SignedUpBefore' /\ OneReviewEach'
    BY <1>1, <1>2 DEF SignedUpBefore, OneReviewEach, Ordered
  <1>10. LinesJoinTheirVersion' /\ PromotionsApply'
    BY <1>1, <1>2 DEF LinesJoinTheirVersion, PromotionsApply, Ordered, AsOf
  <1>11. QED
    BY <1>2, <1>6, <1>7, <1>8, <1>9, <1>10, CustomersStay, OrdersPartsNext

(* A product is reviewed, or not.                                          *)
LEMMA ReviewLineInv ==
  ASSUME OrdersInv, ReviewLine
  PROVE  OrdersInv'
  <1>1. /\ OrdersTypeOK /\ SignedUpBefore /\ OrderTellsOneStory /\ OneReviewEach
        /\ LinesJoinTheirVersion /\ PromotionsApply
    BY OrdersParts
  <1> DEFINE k == <<order.lines[line - Len(order.lines)].product, order.customer>>
  <1>2. /\ line' = line + 1 /\ return' = NoReturn
        /\ UNCHANGED <<first, customers, firstCust, day, clock, count, order>>
    BY DEF ReviewLine
  <1>3. \/ reviewed' = reviewed
        \/ reviewed[k] = 0 /\ reviewed' = [reviewed EXCEPT ![k] = @ + 1]
    BY DEF ReviewLine, NotReviewed
  <1> HIDE DEF k
  <1>4. reviewed' \in [Product \X (1..MaxCustomers) -> Nat] /\ OneReviewEach'
    <2>1. CASE reviewed' = reviewed
      BY <1>1, <2>1 DEF OrdersTypeOK, OneReviewEach
    <2>2. CASE reviewed[k] = 0 /\ reviewed' = [reviewed EXCEPT ![k] = @ + 1]
      <3> DEFINE S == Product \X (1..MaxCustomers)
      <3>1. reviewed \in [S -> Nat] /\ \A x \in S : reviewed[x] <= 1
        BY <1>1 DEF OrdersTypeOK, OneReviewEach
      <3> HIDE DEF S
      <3>2. \A x \in S : reviewed'[x] = IF x = k THEN 1 ELSE reviewed[x]
        BY <2>2, <3>1
      <3>3. reviewed' \in [S -> Nat] /\ \A x \in S : reviewed'[x] <= 1
        <4>1. \A x \in S : reviewed'[x] \in Nat /\ reviewed'[x] <= 1
          BY <3>1, <3>2
        <4>2. reviewed' = [x \in S |-> reviewed'[x]]
          BY <2>2, <3>1
        <4>3. QED
          BY <4>1, <4>2
      <3>4. DOMAIN reviewed' = S
        BY <3>3
      <3>5. QED
        BY <3>3, <3>4 DEF OneReviewEach, S
    <2>3. QED
      BY <1>3, <2>1, <2>2
  <1>5. NoReturn \in Return
    BY DEF NoReturn, Return, Nothing
  <1>6. OrdersTypeOK'
    BY <1>1, <1>2, <1>4, <1>5 DEF OrdersTypeOK, Ordered
  <1>7. ReturnIsOfLine' /\ OrderTellsOneStory'
    BY <1>1, <1>2 DEF ReturnIsOfLine, OrderTellsOneStory, Written, Ordered
  <1>8. SignedUpBefore'
    BY <1>1, <1>2 DEF SignedUpBefore, Ordered
  <1>9. LinesJoinTheirVersion' /\ PromotionsApply'
    BY <1>1, <1>2 DEF LinesJoinTheirVersion, PromotionsApply, Ordered, AsOf
  <1>10. UNCHANGED <<customers, firstCust>>
    BY <1>2
  <1>11. QED
    BY <1>4, <1>6, <1>7, <1>8, <1>9, <1>10, CustomersStay, OrdersPartsNext

(* The order is forgotten.                                                 *)
LEMMA OrderDoneInv ==
  ASSUME OrdersInv, OrderDone
  PROVE  OrdersInv'
  <1>1. OrdersTypeOK /\ OneReviewEach
    BY OrdersParts
  <1>2. /\ order' = NoOrder /\ line' = 0 /\ return' = NoReturn
        /\ UNCHANGED <<first, customers, firstCust, day, clock, count, reviewed>>
    BY DEF OrderDone
  <1>3. NoReturn \in Return
    BY DEF NoReturn, Return, Nothing
  <1>4. OrdersTypeOK'
    BY <1>1, <1>2, <1>3 DEF OrdersTypeOK, Ordered
  <1>5. /\ SignedUpBefore' /\ ReturnIsOfLine' /\ OrderTellsOneStory'
        /\ LinesJoinTheirVersion' /\ PromotionsApply'
    BY <1>2 DEF SignedUpBefore, ReturnIsOfLine, OrderTellsOneStory, LinesJoinTheirVersion,
      PromotionsApply, Ordered, Written
  <1>6. OneReviewEach'
    BY <1>1, <1>2 DEF OneReviewEach
  <1>7. QED
    BY <1>2, <1>4, <1>5, <1>6, CustomersStay, OrdersPartsNext

-----------------------------------------------------------------------------

(* Nothing is there in the beginning.                                      *)
LEMMA OrdersInitInv ==
  ASSUME OrdersInit
  PROVE  OrdersInv
  <1>1. NoReturn \in Return /\ Days \in Nat \ {0}
    BY SeedOrdersAssumption DEF NoReturn, Return, Nothing
  <1>2. OrdersTypeOK
    BY <1>1 DEF OrdersInit, OrdersTypeOK, Ordered, NoOrder
  <1>3. IndexCutsByDay
    BY <1>1 DEF OrdersInit, IndexCutsByDay
  <1>4. AddressesFollow
    BY DEF OrdersInit, AddressesFollow
  <1>5. /\ SignedUpBefore /\ ReturnIsOfLine /\ OrderTellsOneStory
        /\ LinesJoinTheirVersion /\ PromotionsApply
    BY DEF OrdersInit, SignedUpBefore, ReturnIsOfLine, OrderTellsOneStory, LinesJoinTheirVersion,
      PromotionsApply, Ordered, Written
  <1>6. OneReviewEach
    BY DEF OrdersInit, OneReviewEach
  <1>7. QED
    BY <1>2, <1>3, <1>4, <1>5, <1>6, OrdersParts

(* A step that changes nothing.                                            *)
LEMMA OrdersStutter ==
  ASSUME OrdersInv, UNCHANGED ordersVars
  PROVE  OrdersInv'
  <1>1. /\ OrdersTypeOK /\ SignedUpBefore /\ ReturnIsOfLine /\ OrderTellsOneStory
        /\ OneReviewEach /\ LinesJoinTheirVersion /\ PromotionsApply
    BY OrdersParts
  <1>2. UNCHANGED <<first, customers, firstCust, day, clock, count, order, line, return, reviewed>>
    BY DEF ordersVars
  <1>3. OrdersTypeOK'
    BY <1>1, <1>2 DEF OrdersTypeOK, Ordered
  <1>4. SignedUpBefore' /\ ReturnIsOfLine' /\ OrderTellsOneStory' /\ OneReviewEach'
    BY <1>1, <1>2 DEF SignedUpBefore, ReturnIsOfLine, OrderTellsOneStory, OneReviewEach,
      Ordered, Written, Delivered
  <1>5. LinesJoinTheirVersion' /\ PromotionsApply'
    BY <1>1, <1>2 DEF LinesJoinTheirVersion, PromotionsApply, Ordered, AsOf
  <1>6. QED
    BY <1>2, <1>3, <1>4, <1>5, CustomersStay, OrdersPartsNext

(* The invariant of the generator, for any catalogue, promotions, length   *)
(* of the history, delays and numbers of customers, lines and orders.      *)
THEOREM OrdersInvHolds == OrdersSpec => []OrdersInv
  <1>1. OrdersInit => OrdersInv
    BY OrdersInitInv
  <1>2. OrdersInv /\ [OrdersNext]_ordersVars => OrdersInv'
    BY SignUpInv, NextSignUpDayInv, NextOrderDayInv, PlaceOrderInv, WriteOrderInv,
      ReturnLineInv, ReviewLineInv, OrderDoneInv, OrdersStutter DEF OrdersNext
  <1>3. QED
    BY <1>1, <1>2, PTL DEF OrdersSpec

(* A seeded line cost what the warehouse will join it with: one version of *)
(* the price, at the rate of the last business day (generateOrders, fxOf). *)
THEOREM LinesJoin == OrdersSpec => []LinesJoinTheirVersion
  <1>1. OrdersInv => LinesJoinTheirVersion
    BY DEF OrdersInv
  <1>2. QED
    BY <1>1, OrdersInvHolds, PTL

(* A code on a seeded order was active and discounts only its products.    *)
THEOREM CodesApply == OrdersSpec => []PromotionsApply
  <1>1. OrdersInv => PromotionsApply
    BY DEF OrdersInv
  <1>2. QED
    BY <1>1, OrdersInvHolds, PTL

(* The sign-up index, the addresses, the story of an order and its dates,  *)
(* the reviews and the customer who orders agree (SeedStore's rows).       *)
THEOREM RowsAgree == OrdersSpec => []SeededRowsAgree
  <1>1. OrdersInv => SeededRowsAgree
    BY DEF OrdersInv
  <1>2. QED
    BY <1>1, OrdersInvHolds, PTL

(* Returning the units that are left through the store gives a customer    *)
(* back what was paid, or at most a cent per unit more: the shares of a    *)
(* discount are rounded down by emitOrder and by the store alike.          *)
THEOREM RefundsFair == OrdersSpec => []RefundsAreFair
  <1>1. ASSUME OrdersInv PROVE RefundsAreFair
    <2>1. OrdersTypeOK /\ ReturnIsOfLine
      BY <1>1, OrdersParts
    <2>2. SUFFICES ASSUME return.status \in {"refunded", "approved"} PROVE RefundsAreFair
      BY DEF RefundsAreFair
    <2> DEFINE l == order.lines[line - 1]
               q == return.qty
    <2>3. /\ return # NoReturn /\ Delivered /\ line - 1 \in DOMAIN order.lines
          /\ q \in 1..l.qty /\ return.refund = Refund(l, q)
      BY <2>1, <2>2 DEF ReturnIsOfLine, NoReturn
    <2>4. l.qty \in Nat \ {0} /\ l.unit \in Nat /\ l.disc \in Nat
      <3>1. order.lines \in Seq(OrderLine)
        BY <2>1, <2>3 DEF OrdersTypeOK, Delivered, Ordered, Order
      <3>2. l \in OrderLine
        BY <2>3, <3>1
      <3>3. QED
        BY <3>2, SeedOrdersAssumption DEF OrderLine
    <2>5. /\ l.qty * l.unit - l.disc <= Refund(l, q) + (l.qty - q) * StoreRefund(l)
          /\ Refund(l, q) + (l.qty - q) * StoreRefund(l) < l.qty * l.unit - l.disc + l.qty
      BY <2>3, <2>4, RefundFact DEF Refund, StoreRefund
    <2>6. QED
      BY <2>3, <2>5 DEF RefundsAreFair
  <1>2. QED
    BY <1>1, OrdersInvHolds, PTL

-----------------------------------------------------------------------------
(* The category tree (SeedCatalog).                                        *)

ParentsFirst(cats) == \A j \in DOMAIN cats : cats[j].parent \in 0..(j - 1)

(* Because parents come first, the recursion of Ancestry has a solution:   *)
(* the least set that holds a category and the parents of its members.     *)
LEMMA AncestryUnfolds ==
  ASSUME NEW S, NEW cats \in Seq(S), ParentsFirst(cats)
  PROVE  /\ Ancestry(cats, 0) = {}
         /\ \A i \in 1..Len(cats) : Ancestry(cats, i) = {i} \cup Ancestry(cats, cats[i].parent)
  <1> DEFINE N == Len(cats)
             Step(f) == [j \in 0..N |-> IF j = Top THEN {} ELSE {j} \cup f[cats[j].parent]]
             Closed(T) == \A j \in T : j # 0 => cats[j].parent \in T
             least == [i \in 0..N |->
                        {c \in 1..N : \A T \in SUBSET (0..N) : i \in T /\ Closed(T) => c \in T}]
             self == CHOOSE f : f = Step(f)
  <1>1. N \in Nat /\ \A j \in 1..N : cats[j].parent \in 0..N
    BY DEF ParentsFirst
  <1>2. least[0] = {}
    <2>1. {0} \in SUBSET (0..N) /\ Closed({0})
      BY <1>1
    <2>2. ASSUME NEW c \in least[0] PROVE FALSE
      <3>1. c \in 1..N /\ c \in {0}
        BY <1>1, <2>1, <2>2
      <3>2. QED
        BY <1>1, <3>1
    <2>3. QED
      BY <2>2
  <1>3. ASSUME NEW i \in 1..N PROVE least[i] = {i} \cup least[cats[i].parent]
    <2> DEFINE p == cats[i].parent
    <2>1. i \in 0..N /\ p \in 0..N /\ i # 0
      BY <1>1
    <2>2. ASSUME NEW c \in least[i], c # i PROVE c \in least[p]
      <3>1. SUFFICES ASSUME NEW T \in SUBSET (0..N), p \in T, Closed(T) PROVE c \in T
        BY <2>1, <2>2
      <3>2. Closed(T \cup {i}) /\ T \cup {i} \in SUBSET (0..N)
        BY <2>1, <3>1
      <3>3. c \in T \cup {i}
        BY <2>1, <2>2, <3>2
      <3>4. QED
        BY <2>2, <3>3
    <2>3. ASSUME NEW c \in least[p] PROVE c \in least[i]
      <3>1. c \in 1..N
        BY <2>1
      <3>2. ASSUME NEW T \in SUBSET (0..N), i \in T, Closed(T) PROVE c \in T
        <4>1. p \in T
          BY <2>1, <3>2
        <4>2. QED
          BY <2>1, <2>3, <3>2, <4>1
      <3>3. QED
        BY <2>1, <3>1, <3>2
    <2>4. i \in least[i]
      BY <2>1
    <2>5. QED
      BY <2>2, <2>3, <2>4
  <1> HIDE DEF least, Closed
  <1>4. \A j \in 0..N : least[j] = Step(least)[j]
    <2>1. ASSUME NEW j \in 0..N PROVE least[j] = Step(least)[j]
      <3>1. CASE j = 0
        BY <1>1, <1>2, <3>1 DEF Top
      <3>2. CASE j # 0
        <4>1. j \in 1..N
          BY <1>1, <3>2
        <4>2. Step(least)[j] = {j} \cup least[cats[j].parent]
          BY <3>2, <4>1 DEF Top
        <4>3. QED
          BY <1>3, <4>1, <4>2
      <3>3. QED
        BY <3>1, <3>2
    <2>2. QED
      BY <2>1
  <1>5. least = Step(least)
    <2>1. least = [j \in 0..N |-> least[j]]
      BY DEF least
    <2>2. QED
      BY <1>4, <2>1
  <1>6. self = Step(self)
    <2>1. \E f : f = Step(f)
      BY <1>5
    <2>2. QED
      BY <2>1
  <1>7. \A i \in 0..N : Ancestry(cats, i) = self[i]
    BY DEF Ancestry
  <1> HIDE DEF self
  <1>8. self[0] = {} /\ \A i \in 1..N : self[i] = {i} \cup self[cats[i].parent]
    <2>1. \A i \in 0..N : self[i] = Step(self)[i]
      BY <1>6
    <2>2. self[0] = {}
      <3>1. 0 \in 0..N
        BY <1>1
      <3>2. self[0] = Step(self)[0]
        BY <2>1, <3>1
      <3>3. Step(self)[0] = {}
        BY <3>1 DEF Top
      <3>4. QED
        BY <3>2, <3>3
    <2>3. ASSUME NEW i \in 1..N PROVE self[i] = {i} \cup self[cats[i].parent]
      <3>1. i \in 0..N /\ i # 0
        BY <1>1
      <3>2. QED
        BY <2>1, <3>1 DEF Top
    <2>4. QED
      BY <2>2, <2>3
  <1>9. QED
    BY <1>1, <1>7, <1>8

(* What holds of a category when it holds of the one before it in the      *)
(* chain of parents holds of every category.                               *)
LEMMA ParentInduction ==
  ASSUME NEW S, NEW cats \in Seq(S), ParentsFirst(cats), NEW good, 0 \in good,
         \A i \in 1..Len(cats) : cats[i].parent \in good => i \in good
  PROVE  0..Len(cats) \subseteq good
  <1> DEFINE T == {i \in 0..Len(cats) : i \notin good}
  <1>1. SUFFICES ASSUME T # {} PROVE FALSE
    OBVIOUS
  <1>2. T \in SUBSET Nat
    OBVIOUS
  <1>3. PICK i \in T : \A j \in T : i <= j
    BY <1>1, <1>2, LeastNatural
  <1>4. i \in 1..Len(cats) /\ cats[i].parent \in 0..(i - 1)
    BY <1>3 DEF ParentsFirst
  <1>5. cats[i].parent \notin T /\ cats[i].parent \in 0..Len(cats)
    BY <1>3, <1>4
  <1>6. QED
    BY <1>3, <1>4, <1>5

(* A category and those above it have ids up to its own.                   *)
LEMMA AncestryBounds ==
  ASSUME NEW S, NEW cats \in Seq(S), ParentsFirst(cats)
  PROVE  \A i \in 0..Len(cats) : Ancestry(cats, i) \subseteq 1..i
  <1> DEFINE good == {i \in 0..Len(cats) : Ancestry(cats, i) \subseteq 1..i}
  <1>1. 0 \in good
    BY AncestryUnfolds
  <1>2. ASSUME NEW i \in 1..Len(cats), cats[i].parent \in good PROVE i \in good
    <2>1. cats[i].parent \in 0..(i - 1) /\ i \in 0..Len(cats)
      BY DEF ParentsFirst
    <2>2. Ancestry(cats, i) = {i} \cup Ancestry(cats, cats[i].parent)
      BY AncestryUnfolds
    <2>3. QED
      BY <1>2, <2>1, <2>2
  <1> HIDE DEF good
  <1>3. 0..Len(cats) \subseteq good
    BY <1>1, <1>2, ParentInduction
  <1>4. QED
    BY <1>3 DEF good

(* Storing one more category leaves the chains of the others.              *)
LEMMA AncestryStays ==
  ASSUME NEW S, NEW cats \in Seq(S), NEW c \in S, c.parent \in 0..Len(cats), ParentsFirst(cats)
  PROVE  /\ ParentsFirst(Append(cats, c))
         /\ \A i \in 0..Len(cats) : Ancestry(Append(cats, c), i) = Ancestry(cats, i)
         /\ Ancestry(Append(cats, c), Len(cats) + 1) = {Len(cats) + 1} \cup Ancestry(cats, c.parent)
  <1> DEFINE more == Append(cats, c)
  <1>1. /\ more \in Seq(S) /\ Len(more) = Len(cats) + 1 /\ Len(cats) \in Nat
        /\ \A i \in 1..Len(cats) : more[i] = cats[i]
        /\ more[Len(cats) + 1] = c
    OBVIOUS
  <1> HIDE DEF more
  <1>2. ParentsFirst(more)
    <2>1. ASSUME NEW j \in 1..Len(more) PROVE more[j].parent \in 0..(j - 1)
      <3>1. CASE j = Len(cats) + 1
        <4>1. j - 1 = Len(cats)
          BY <1>1, <3>1
        <4>2. more[j] = c
          BY <1>1, <3>1
        <4>3. QED
          BY <4>1, <4>2
      <3>2. CASE j # Len(cats) + 1
        <4>1. j \in 1..Len(cats)
          BY <1>1, <3>2
        <4>2. cats[j].parent \in 0..(j - 1)
          BY <4>1 DEF ParentsFirst
        <4>3. QED
          BY <1>1, <4>1, <4>2
      <3>3. QED
        BY <3>1, <3>2
    <2>2. QED
      BY <1>1, <2>1 DEF ParentsFirst
  <1> DEFINE good == {i \in 0..Len(cats) : Ancestry(more, i) = Ancestry(cats, i)}
  <1>3. 0 \in good
    <2>1. Ancestry(more, 0) = {}
      BY <1>1, <1>2, AncestryUnfolds
    <2>2. Ancestry(cats, 0) = {}
      BY AncestryUnfolds
    <2>3. 0 \in 0..Len(cats)
      BY <1>1
    <2>4. QED
      BY <2>1, <2>2, <2>3
  <1>4. ASSUME NEW i \in 1..Len(cats), cats[i].parent \in good PROVE i \in good
    <2>1. Ancestry(cats, i) = {i} \cup Ancestry(cats, cats[i].parent)
      BY AncestryUnfolds
    <2>2. i \in 1..Len(more)
      BY <1>1
    <2>3. Ancestry(more, i) = {i} \cup Ancestry(more, more[i].parent)
      BY <1>1, <1>2, <2>2, AncestryUnfolds
    <2>4. cats[i].parent = more[i].parent /\ i \in 0..Len(cats)
      BY <1>1
    <2>5. Ancestry(more, cats[i].parent) = Ancestry(cats, cats[i].parent)
      BY <1>4
    <2>6. QED
      BY <2>1, <2>3, <2>4, <2>5
  <1> HIDE DEF good
  <1>5. 0..Len(cats) \subseteq good
    BY <1>3, <1>4, ParentInduction
  <1>6. Len(cats) + 1 \in 1..Len(more)
    BY <1>1
  <1>7. Ancestry(more, Len(cats) + 1) = {Len(cats) + 1} \cup Ancestry(more, c.parent)
    <2>1. Ancestry(more, Len(cats) + 1) = {Len(cats) + 1} \cup Ancestry(more, more[Len(cats) + 1].parent)
      BY <1>1, <1>2, <1>6, AncestryUnfolds
    <2>2. more[Len(cats) + 1] = c
      BY <1>1
    <2>3. QED
      BY <2>1, <2>2
  <1>8. QED
    BY <1>2, <1>5, <1>7 DEF more, good

(* One pass from the first category to the last finds every category at or *)
(* below a name.                                                           *)
LEMMA BelowFact ==
  ASSUME NEW S, NEW cats \in Seq(S), ParentsFirst(cats), NEW names
  PROVE  Below(cats, names) =
           {i \in DOMAIN cats : \E c \in Ancestry(cats, i) : cats[c].def.name \in names}
  <1> DEFINE N == Len(cats)
             N0 == Named(cats, names)
             under(i) == \E c \in Ancestry(cats, i) : cats[c].def.name \in names
             Step(f) == [i \in 0..N |->
                          IF i = 0 THEN N0 ELSE f[i - 1] \cup {c \in {i} : cats[c].parent \in f[i - 1]}]
             seen == [k \in 0..N |-> {i \in 1..N : i \in N0 \/ (i <= k /\ under(i))}]
             want == CHOOSE f : f = Step(f)
  <1>1. N \in Nat /\ DOMAIN cats = 1..N /\ N0 \subseteq 1..N
    BY DEF Named
  <1>2. ASSUME NEW i \in 1..N
        PROVE  /\ i \in N0 => under(i)
               /\ under(i) <=> i \in N0 \/ (cats[i].parent \in 1..N /\ under(cats[i].parent))
    <2>1. Ancestry(cats, i) = {i} \cup Ancestry(cats, cats[i].parent)
      BY AncestryUnfolds
    <2>2. i \in N0 <=> cats[i].def.name \in names
      BY <1>1 DEF Named
    <2>3. cats[i].parent = 0 => Ancestry(cats, cats[i].parent) = {}
      BY AncestryUnfolds
    <2>4. cats[i].parent \in 0..(i - 1)
      BY <1>1 DEF ParentsFirst
    <2>5. cats[i].parent = 0 \/ cats[i].parent \in 1..N
      BY <1>1, <2>4
    <2>6. QED
      BY <2>1, <2>2, <2>3, <2>5
  <1> HIDE DEF under, N0
  <1>3. seen = Step(seen)
    <2>1. ASSUME NEW k \in 0..N PROVE seen[k] = Step(seen)[k]
      <3>1. CASE k = 0
        <4>1. \A i \in 1..N : ~(i <= 0)
          BY <1>1
        <4>2. seen[0] = N0
          <5>1. 0 \in 0..N
            BY <1>1
          <5>2. seen[0] = {i \in 1..N : i \in N0 \/ (i <= 0 /\ under(i))}
            BY <5>1
          <5>3. QED
            BY <1>1, <4>1, <5>2
        <4>3. QED
          BY <3>1, <4>2
      <3>2. CASE k # 0
        <4> DEFINE p == cats[k].parent
        <4>1. k \in 1..N /\ k - 1 \in 0..N /\ p \in 0..(k - 1)
          BY <1>1, <3>2 DEF ParentsFirst
        <4>2. p \in seen[k - 1] <=> p \in 1..N /\ under(p)
          BY <1>1, <1>2, <4>1
        <4>3. under(k) <=> k \in N0 \/ p \in seen[k - 1]
          BY <1>2, <4>1, <4>2
        <4>4. seen[k] = seen[k - 1] \cup {c \in {k} : p \in seen[k - 1]}
          <5>1. ASSUME NEW i \in 1..N
                PROVE  i \in seen[k] <=> i \in seen[k - 1] \/ (i = k /\ p \in seen[k - 1])
            <6>1. CASE i = k
              <7>1. i \in seen[k - 1] <=> i \in N0
                BY <4>1, <6>1
              <7>2. i \in seen[k] <=> i \in N0 \/ under(i)
                BY <4>1, <6>1
              <7>3. QED
                BY <4>3, <6>1, <7>1, <7>2
            <6>2. CASE i # k
              <7>1. i <= k <=> i <= k - 1
                BY <4>1, <6>2
              <7>2. QED
                BY <4>1, <6>2, <7>1
            <6>3. QED
              BY <6>1, <6>2
          <5>2. seen[k] \subseteq 1..N /\ seen[k - 1] \subseteq 1..N
            BY <4>1
          <5>3. QED
            BY <4>1, <5>1, <5>2
        <4>5. Step(seen)[k] = seen[k - 1] \cup {c \in {k} : p \in seen[k - 1]}
          BY <3>2
        <4>6. QED
          BY <4>4, <4>5
      <3>3. QED
        BY <3>1, <3>2
    <2>2. seen = [k \in 0..N |-> seen[k]]
      OBVIOUS
    <2> HIDE DEF seen
    <2>3. QED
      BY <2>1, <2>2
  <1>4. want = Step(want)
    <2>1. \E f : f = Step(f)
      BY <1>3
    <2>2. QED
      BY <2>1
  <1>5. \A k \in 0..N : want[k] = seen[k]
    <2> DEFINE T == {k \in 0..N : want[k] # seen[k]}
    <2> HIDE DEF want, seen
    <2>1. SUFFICES ASSUME T # {} PROVE FALSE
      OBVIOUS
    <2>2. T \in SUBSET Nat
      OBVIOUS
    <2>3. PICK k \in T : \A j \in T : k <= j
      BY <2>1, <2>2, LeastNatural
    <2>4. want[k] = Step(want)[k] /\ seen[k] = Step(seen)[k] /\ k \in 0..N
      BY <1>3, <1>4
    <2>5. k # 0
      BY <2>4
    <2>6. k - 1 \in 0..N /\ k - 1 \notin T
      BY <1>1, <2>3, <2>5
    <2>7. want[k - 1] = seen[k - 1]
      BY <2>6
    <2>8. QED
      BY <2>4, <2>5, <2>7
  <1>6. Below(cats, names) = want[N]
    BY DEF Below, N0
  <1>7. seen[N] = {i \in 1..N : under(i)}
    BY <1>1, <1>2
  <1> HIDE DEF want, seen
  <1>8. Below(cats, names) = {i \in 1..N : under(i)}
    BY <1>1, <1>5, <1>6, <1>7
  <1>9. QED
    BY <1>1, <1>8 DEF under
(* Rates and prices come from the nearest category of a chain: of two      *)
(* functions that agree on it, and when a category is put before it.       *)
LEMMA NearestSame ==
  ASSUME NEW chain, NEW own, NEW other, \A c \in chain : own[c] = other[c], NEW value,
         FromNearest(chain, own, value)
  PROVE  FromNearest(chain, other, value)
  <1>1. {c \in chain : own[c] > 0} = {c \in chain : other[c] > 0}
    OBVIOUS
  <1>2. QED
    BY <1>1 DEF FromNearest

LEMMA NearestOwn ==
  ASSUME NEW n \in Nat, NEW chain, \A c \in chain : c \in Int /\ c < n,
         NEW own, own[n] \in Nat, NEW value, FromNearest(chain, own, value)
  PROVE  FromNearest({n} \cup chain, own, Own(own[n], value))
  <1> DEFINE givers == {c \in chain : own[c] > 0}
             all == {c \in {n} \cup chain : own[c] > 0}
  <1>1. CASE own[n] > 0
    <2>1. Own(own[n], value) = own[n]
      BY <1>1 DEF Own
    <2>2. n \in all /\ \A g \in all : g <= n
      BY <1>1
    <2>3. QED
      BY <2>1, <2>2 DEF FromNearest
  <1>2. CASE ~(own[n] > 0)
    <2>1. all = givers
      BY <1>2
    <2>2. Own(own[n], value) = value
      BY <1>2 DEF Own
    <2> HIDE DEF all, givers
    <2>3. \/ givers = {} /\ value = 0
          \/ \E c \in givers : value = own[c] /\ \A g \in givers : g <= c
      BY DEF FromNearest, givers
    <2>4. \/ all = {} /\ value = 0
          \/ \E c \in all : value = own[c] /\ \A g \in all : g <= c
      BY <2>1, <2>3
    <2>5. QED
      BY <2>2, <2>4 DEF FromNearest, all
  <1>3. QED
    BY <1>1, <1>2

-----------------------------------------------------------------------------
(* The catalog (SeedCatalog): an inductive invariant.                      *)

Category == [def : Definition, parent : Nat, top : Nat, depth : Int, ret : Nat, price : Nat]
CatalogPrice == [from : Nat, cents : Nat]
CatalogProduct == [cat : Nat, created : Nat, prices : Seq(CatalogPrice)]
CatalogPromotion == [starts : Nat, ends : Nat, names : PromoNames \cup {{}}, set : SUBSET Nat]

CatalogTypeOK ==
  /\ tree \in Seq(Definition)
  /\ builder \in {"categories", "products", "promotions", "suppliers", "done"}
  /\ categories \in Seq(Category) /\ products \in Seq(CatalogProduct) /\ promotions \in Seq(CatalogPromotion)
  /\ up \in 0..Len(categories) /\ done \in [0..Len(categories) -> Nat]
  /\ supplied \in Seq(Supplier)

(* The walk has stored as many children of a category as its loop has      *)
(* made rounds, and is past the last one of every category it has left.    *)
WalkIsInOrder ==
  /\ \A c \in 0..Len(categories) : done[c] = Cardinality(Children(categories, c)) /\ done[c] <= Len(Kids(c))
  /\ \A i \in DOMAIN categories : categories[i].def = Kids(categories[i].parent)[Place(categories, i)]
  /\ \A c \in DOMAIN categories \ Ancestry(categories, up) : done[c] = Len(Kids(c))
  /\ builder # "categories" => up = Top /\ done[Top] = Len(tree)

(* What is made later is not there yet.                                    *)
BuildersFollow ==
  /\ builder = "categories" => products = <<>>
  /\ builder \in {"categories", "products"} => promotions = <<>>

(* The prices of a product begin with it, in strict time order.            *)
Ascending(p) ==
  /\ p.prices # <<>> /\ p.prices[1].from = p.created
  /\ \A i, j \in DOMAIN p.prices : i < j => p.prices[i].from < p.prices[j].from
PricesAscend == \A p \in DOMAIN products : Ascending(products[p])

CatalogInv == /\ CatalogTypeOK /\ WalkIsInOrder /\ BuildersFollow /\ PricesAscend
              /\ CategoriesInherit /\ PromotionCoversSubtree /\ RowsPassConstraints

(* The children of a category are finitely many, and their definitions are *)
(* those of the tree.                                                      *)
LEMMA ChildrenFinite ==
  ASSUME CatalogTypeOK, NEW c
  PROVE  IsFiniteSet(Children(categories, c)) /\ Cardinality(Children(categories, c)) \in Nat
  <1>1. Len(categories) \in Nat /\ DOMAIN categories = 1..Len(categories)
    BY DEF CatalogTypeOK
  <1>2. IsFiniteSet(1..Len(categories))
    BY <1>1, FS_Interval
  <1>3. Children(categories, c) \subseteq 1..Len(categories)
    BY <1>1 DEF Children
  <1>4. QED
    BY <1>2, <1>3, FS_Subset, FS_CardinalityType

LEMMA KidsAreDefinitions ==
  ASSUME CatalogTypeOK, NEW c \in 0..Len(categories)
  PROVE  Kids(c) \in Seq(Definition)
  <1>1. CASE c = Top
    BY <1>1 DEF CatalogTypeOK, Kids
  <1>2. CASE c # Top
    <2>1. c \in 1..Len(categories)
      BY <1>2 DEF CatalogTypeOK, Top
    <2>2. categories[c] \in Category
      BY <2>1 DEF CatalogTypeOK
    <2>3. categories[c].def \in Definition
      BY <2>2 DEF Category
    <2>4. QED
      BY <1>2, <2>3, SeedCatalogAssumption DEF Kids
  <1>3. QED
    BY <1>1, <1>2

(* The new category is of the tree, its parent is there, and the rest of   *)
(* it is inherited.                                                        *)
LEMMA VisitStores ==
  ASSUME CatalogInv, VisitDefinition
  PROVE  \E c \in Category :
           /\ categories' = Append(categories, c) /\ c.parent = up
           /\ c.def = Kids(up)[done[up] + 1] /\ done[up] + 1 \in DOMAIN Kids(up)
           /\ c.top = Above.top
           /\ c.ret = Own(c.def.ret, Above.ret) /\ c.price = Own(c.def.price, Above.price)
  <1> DEFINE def == Kids(up)[done[up] + 1]
             c == [def |-> def, parent |-> up, top |-> Above.top, depth |-> Above.depth + 1,
                   ret |-> Own(def.ret, Above.ret), price |-> Own(def.price, Above.price)]
  <1>1. up \in 0..Len(categories) /\ up \in Nat /\ done[up] \in Nat
    <2>1. up \in 0..Len(categories) /\ done \in [0..Len(categories) -> Nat]
      BY DEF CatalogInv, CatalogTypeOK
    <2>2. QED
      BY <2>1
  <1>2. Kids(up) \in Seq(Definition)
    BY <1>1, KidsAreDefinitions DEF CatalogInv
  <1>3. done[up] + 1 \in DOMAIN Kids(up)
    BY <1>1, <1>2 DEF VisitDefinition
  <1>4. def \in Definition
    BY <1>2, <1>3
  <1>5. Above.top \in Nat /\ Above.depth \in Int /\ Above.ret \in Nat /\ Above.price \in Nat
    <2>1. CASE up = Top
      BY <1>1, <2>1 DEF Above
    <2>2. CASE up # Top
      <3>1. up \in 1..Len(categories)
        BY <1>1, <2>2 DEF Top
      <3>2. categories[up] \in Category
        BY <3>1 DEF CatalogInv, CatalogTypeOK
      <3>3. Above = categories[up]
        BY <2>2 DEF Above
      <3>4. QED
        BY <3>2, <3>3 DEF Category
    <2>3. QED
      BY <2>1, <2>2
  <1>6. def.ret \in Nat /\ def.price \in Nat
    BY <1>4, SeedCatalogAssumption
  <1> HIDE DEF def
  <1>7. Own(def.ret, Above.ret) \in Nat /\ Own(def.price, Above.price) \in Nat
    BY <1>5, <1>6 DEF Own
  <1>8. c \in Category
    BY <1>1, <1>4, <1>5, <1>7 DEF Category
  <1>9. categories' = Append(categories, c)
    BY DEF VisitDefinition, def
  <1>10. QED
    BY <1>3, <1>8, <1>9 DEF def

(* The definitions below a category, after a step.                         *)
NewKids(c) == IF c = Top THEN tree' ELSE categories'[c].def.kids

(* What the walk knows of the categories that were there stays.            *)
LEMMA VisitShape ==
  ASSUME CatalogInv, VisitDefinition
  PROVE  LET N == Len(categories) IN
         /\ N \in Nat /\ Len(categories') = N + 1 /\ categories' \in Seq(Category)
         /\ \A i \in 1..N : categories'[i] = categories[i]
         /\ categories'[N + 1].parent = up
         /\ ParentsFirst(categories) /\ ParentsFirst(categories')
         /\ \A i \in 0..N : /\ Ancestry(categories', i) = Ancestry(categories, i)
                            /\ Ancestry(categories, i) \subseteq 1..i
         /\ Ancestry(categories', N + 1) = {N + 1} \cup Ancestry(categories, up)
         /\ up \in 0..N /\ tree' = tree
         /\ \A x \in 0..N : NewKids(x) = Kids(x)
         /\ \A x \in 0..N : Children(categories', x) = IF x = up THEN Children(categories, x) \cup {N + 1} ELSE Children(categories, x)
         /\ Children(categories', N + 1) = {}
         /\ \A x \in 0..N : Children(categories, x) \subseteq 1..N
         /\ products' = products /\ promotions' = promotions /\ builder' = builder
  <1> DEFINE N == Len(categories)
  <1>1. PICK c \in Category : categories' = Append(categories, c) /\ c.parent = up
    BY VisitStores
  <1>2. categories \in Seq(Category) /\ up \in 0..N /\ N \in Nat
    BY DEF CatalogInv, CatalogTypeOK
  <1>3. /\ categories' \in Seq(Category) /\ Len(categories') = N + 1
        /\ \A i \in 1..N : categories'[i] = categories[i]
        /\ categories'[N + 1] = c
    BY <1>1, <1>2
  <1>4. ParentsFirst(categories)
    BY <1>2 DEF CatalogInv, RowsPassConstraints, ParentsFirst
  <1>5. /\ ParentsFirst(categories')
        /\ \A i \in 0..N : Ancestry(categories', i) = Ancestry(categories, i)
        /\ Ancestry(categories', N + 1) = {N + 1} \cup Ancestry(categories, up)
    BY <1>1, <1>2, <1>4, AncestryStays
  <1>6. \A i \in 0..N : Ancestry(categories, i) \subseteq 1..i
    BY <1>2, <1>4, AncestryBounds
  <1>7. tree' = tree /\ products' = products /\ promotions' = promotions /\ builder' = builder
    BY DEF VisitDefinition
  <1>8. ASSUME NEW x \in 0..N PROVE NewKids(x) = Kids(x)
    <2>1. x # Top => x \in 1..N
      BY <1>2 DEF Top
    <2>2. QED
      BY <1>3, <1>7, <2>1 DEF Kids, NewKids
  <1>9. DOMAIN categories = 1..N /\ DOMAIN categories' = 1..(N + 1)
    BY <1>2, <1>3
  <1>10. ASSUME NEW x
         PROVE  Children(categories', x) = IF x = up THEN Children(categories, x) \cup {N + 1} ELSE Children(categories, x)
    <2>1. ASSUME NEW i \in 1..(N + 1)
          PROVE  categories'[i].parent = x <=>
                   (i \in 1..N /\ categories[i].parent = x) \/ (i = N + 1 /\ x = up)
      <3>1. CASE i = N + 1
        <4>1. i \notin 1..N
          BY <1>2, <3>1
        <4>2. QED
          BY <1>1, <1>3, <3>1, <4>1
      <3>2. CASE i # N + 1
        <4>1. i \in 1..N
          BY <1>2, <3>2
        <4>2. QED
          BY <1>3, <3>2, <4>1
      <3>3. QED
        BY <3>1, <3>2
    <2>2. Children(categories', x) = {i \in 1..(N + 1) : categories'[i].parent = x}
      BY <1>9 DEF Children
    <2>3. Children(categories, x) = {i \in 1..N : categories[i].parent = x}
      BY <1>9 DEF Children
    <2>4. 1..N \subseteq 1..(N + 1) /\ N + 1 \in 1..(N + 1)
      BY <1>2
    <2> HIDE DEF N
    <2>5. QED
      BY <2>1, <2>2, <2>3, <2>4
  <1>11. Children(categories', N + 1) = {}
    <2>1. Children(categories, N + 1) = {}
      BY <1>2, <1>4, <1>9 DEF Children, ParentsFirst
    <2>2. N + 1 # up
      BY <1>2
    <2>3. QED
      BY <1>10, <2>1, <2>2
  <1>12. \A x \in 0..N : Children(categories, x) \subseteq 1..N
    BY <1>9 DEF Children
  <1> HIDE DEF N
  <1>13. QED
    BY <1>1, <1>2, <1>3, <1>4, <1>5, <1>6, <1>7, <1>8, <1>10, <1>11, <1>12 DEF N

(* Where a category stands among its siblings does not change.             *)
LEMMA VisitPlaces ==
  ASSUME CatalogInv, VisitDefinition
  PROVE  LET N == Len(categories) IN
         /\ \A i \in 1..N : Place(categories', i) = Place(categories, i)
         /\ Place(categories', N + 1) = done[up] + 1
         /\ Cardinality(Children(categories', up)) = done[up] + 1
  <1> DEFINE N == Len(categories)
  <1>1. /\ N \in Nat /\ up \in 0..N
        /\ \A i \in 1..N : categories'[i] = categories[i]
        /\ categories'[N + 1].parent = up
    BY VisitShape
  <1>2. \A x \in 0..N : Children(categories', x) = IF x = up THEN Children(categories, x) \cup {N + 1} ELSE Children(categories, x)
    BY VisitShape
  <1>3. ASSUME NEW i \in 1..N PROVE Place(categories', i) = Place(categories, i)
    <2> DEFINE x == categories[i].parent
    <2>1. x \in 0..N
      BY <1>1, VisitShape DEF ParentsFirst
    <2>2. ~(N + 1 <= i)
      BY <1>1
    <2>3. {j \in Children(categories', x) : j <= i} = {j \in Children(categories, x) : j <= i}
      BY <1>2, <2>1, <2>2
    <2>4. Place(categories, i) = Cardinality({j \in Children(categories, x) : j <= i})
      BY DEF Place
    <2>5. Place(categories', i) = Cardinality({j \in Children(categories', categories'[i].parent) : j <= i})
      BY DEF Place
    <2>6. QED
      BY <1>1, <2>3, <2>4, <2>5
  <1>4. Children(categories', up) = Children(categories, up) \cup {N + 1} /\ N + 1 \notin Children(categories, up)
    <2>1. Children(categories, up) \subseteq 1..N
      BY VisitShape
    <2>2. N + 1 \notin 1..N
      BY <1>1
    <2>3. QED
      BY <1>1, <1>2, <2>1, <2>2
  <1>5. IsFiniteSet(Children(categories, up)) /\ Cardinality(Children(categories, up)) = done[up]
    BY <1>1, ChildrenFinite DEF CatalogInv, WalkIsInOrder
  <1>6. Cardinality(Children(categories', up)) = done[up] + 1
    BY <1>4, <1>5, FS_AddElement
  <1>7. Place(categories', N + 1) = Cardinality(Children(categories', up))
    <2>1. Children(categories', up) \subseteq 1..(N + 1)
      <3>1. Children(categories, up) \subseteq 1..N
        BY VisitShape
      <3>2. 1..N \subseteq 1..(N + 1) /\ N + 1 \in 1..(N + 1)
        BY <1>1
      <3>3. QED
        BY <1>4, <3>1, <3>2
    <2>2. {j \in Children(categories', up) : j <= N + 1} = Children(categories', up)
      BY <1>1, <2>1
    <2>3. Place(categories', N + 1) = Cardinality({j \in Children(categories', categories'[N + 1].parent) : j <= N + 1})
      BY DEF Place
    <2>4. QED
      BY <1>1, <2>2, <2>3
  <1>8. QED
    BY <1>3, <1>6, <1>7

LEMMA VisitTypes == CatalogInv /\ VisitDefinition => CatalogTypeOK'
<1> SUFFICES ASSUME CatalogInv, VisitDefinition PROVE CatalogTypeOK'
  OBVIOUS
<1> DEFINE N == Len(categories)
<1>1. N \in Nat /\ Len(categories') = N + 1 /\ categories' \in Seq(Category)
  BY VisitShape
<1>2. /\ tree' \in Seq(Definition) /\ products' \in Seq(CatalogProduct)
      /\ promotions' \in Seq(CatalogPromotion) /\ supplied' \in Seq(Supplier)
      /\ builder' \in {"categories", "products", "promotions", "suppliers", "done"}
  BY DEF CatalogInv, CatalogTypeOK, VisitDefinition
<1>3. up' \in 0..Len(categories')
  BY <1>1 DEF VisitDefinition
<1>4. done' \in [0..Len(categories') -> Nat]
  <2>1. done \in [0..N -> Nat] /\ up \in 0..N
    BY DEF CatalogInv, CatalogTypeOK
  <2>2. \A c \in 0..(N + 1) :
          (IF c = up THEN done[c] + 1 ELSE IF c \in DOMAIN done THEN done[c] ELSE 0) \in Nat
    BY <2>1
  <2>3. done' = [c \in 0..(N + 1) |-> IF c = up THEN done[c] + 1 ELSE IF c \in DOMAIN done THEN done[c] ELSE 0]
    BY DEF VisitDefinition
  <2>4. QED
    BY <1>1, <2>2, <2>3
<1>5. QED
  BY <1>1, <1>2, <1>3, <1>4 DEF CatalogTypeOK

LEMMA VisitWalk == CatalogInv /\ VisitDefinition => WalkIsInOrder'
<1> SUFFICES ASSUME CatalogInv, VisitDefinition PROVE WalkIsInOrder'
  OBVIOUS
<1> DEFINE N == Len(categories)
<1>1. /\ N \in Nat /\ Len(categories') = N + 1 /\ categories' \in Seq(Category) /\ up \in 0..N
      /\ \A i \in 1..N : categories'[i] = categories[i]
      /\ categories'[N + 1].parent = up
      /\ \A x \in 0..N : NewKids(x) = Kids(x)
  BY VisitShape
<1>2. /\ \A x \in 0..N : Children(categories', x) = IF x = up THEN Children(categories, x) \cup {N + 1}
                                                  ELSE Children(categories, x)
      /\ Children(categories', N + 1) = {}
  BY VisitShape
<1>3. /\ \A i \in 1..N : Place(categories', i) = Place(categories, i)
      /\ Place(categories', N + 1) = done[up] + 1
      /\ Cardinality(Children(categories', up)) = done[up] + 1
  BY VisitPlaces
<1>4. /\ \A x \in 0..N : done[x] \in Nat /\ done[x] = Cardinality(Children(categories, x)) /\ done[x] <= Len(Kids(x))
      /\ \A i \in 1..N : categories[i].def = Kids(categories[i].parent)[Place(categories, i)]
      /\ \A x \in 1..N \ Ancestry(categories, up) : done[x] = Len(Kids(x))
  <2>1. DOMAIN categories = 1..N /\ done \in [0..N -> Nat]
    BY DEF CatalogInv, CatalogTypeOK
  <2>2. WalkIsInOrder
    BY DEF CatalogInv
  <2>3. \A x \in 0..N : done[x] \in Nat /\ done[x] = Cardinality(Children(categories, x)) /\ done[x] <= Len(Kids(x))
    BY <2>1, <2>2 DEF WalkIsInOrder
  <2>4. \A i \in 1..N : categories[i].def = Kids(categories[i].parent)[Place(categories, i)]
    BY <2>1, <2>2 DEF WalkIsInOrder
  <2>5. \A x \in 1..N \ Ancestry(categories, up) : done[x] = Len(Kids(x))
    BY <2>1, <2>2 DEF WalkIsInOrder
  <2>6. QED
    BY <2>3, <2>4, <2>5
<1>5. done' = [c \in 0..(N + 1) |-> IF c = up THEN done[c] + 1 ELSE IF c \in 0..N THEN done[c] ELSE 0]
  <2>1. DOMAIN done = 0..N
    BY DEF CatalogInv, CatalogTypeOK
  <2>2. QED
    BY <2>1 DEF VisitDefinition
<1>6. /\ done'[up] = done[up] + 1 /\ done'[N + 1] = 0
      /\ \A x \in 0..N : x # up => done'[x] = done[x]
  <2>1. N + 1 # up /\ N + 1 \notin 0..N /\ N + 1 \in 0..(N + 1) /\ 0..N \subseteq 0..(N + 1)
    BY <1>1
  <2>2. QED
    BY <1>1, <1>5, <2>1
<1>7. NewKids(N + 1) \in Seq(Definition)
  <2>1. CatalogTypeOK'
    BY VisitTypes
  <2>2. N + 1 \in 1..(N + 1) /\ N + 1 # 0
    BY <1>1
  <2>3. categories'[N + 1] \in Category
    BY <1>1, <2>2
  <2>4. categories'[N + 1].def \in Definition
    BY <2>3 DEF Category
  <2>5. NewKids(N + 1) = categories'[N + 1].def.kids
    BY <1>1, <2>2 DEF NewKids, Top
  <2>6. QED
    BY <2>4, <2>5, SeedCatalogAssumption
<1>8. ASSUME NEW x \in 0..(N + 1)
      PROVE  done'[x] = Cardinality(Children(categories', x)) /\ done'[x] <= Len(NewKids(x))
  <2>1. CASE x = N + 1
    BY <1>2, <1>6, <1>7, <2>1, FS_EmptySet
  <2>2. CASE x = up
    <3>1. done[up] < Len(Kids(up)) /\ done[up] \in Nat /\ Kids(up) \in Seq(Definition)
      BY <1>1, <1>4, KidsAreDefinitions DEF VisitDefinition, CatalogInv
    <3>2. done[up] + 1 <= Len(Kids(up))
      BY <3>1
    <3>3. QED
      BY <1>1, <1>3, <1>6, <2>2, <3>2
  <2>3. CASE x # N + 1 /\ x # up
    <3>1. x \in 0..N
      BY <1>1, <2>3
    <3>2. QED
      BY <1>1, <1>2, <1>4, <1>6, <2>3, <3>1
  <2>4. QED
    BY <2>1, <2>2, <2>3
<1>9. ASSUME NEW i \in 1..(N + 1)
      PROVE  categories'[i].def = NewKids(categories'[i].parent)[Place(categories', i)]
  <2>1. CASE i = N + 1
    <3>1. categories'[N + 1].def = Kids(up)[done[up] + 1]
      <4>1. PICK c \in Category : categories' = Append(categories, c) /\ c.def = Kids(up)[done[up] + 1]
        BY VisitStores
      <4>2. categories \in Seq(Category)
        BY DEF CatalogInv, CatalogTypeOK
      <4>3. categories'[N + 1] = c
        BY <4>1, <4>2
      <4>4. QED
        BY <4>1, <4>3
    <3>2. QED
      BY <1>1, <1>3, <2>1, <3>1
  <2>2. CASE i # N + 1
    <3>1. i \in 1..N
      BY <1>1, <2>2
    <3>2. categories[i].parent \in 0..N
      BY <1>1, <3>1, VisitShape DEF ParentsFirst
    <3>3. NewKids(categories'[i].parent) = Kids(categories[i].parent)
      BY <1>1, <3>1, <3>2
    <3>4. QED
      BY <1>1, <1>3, <1>4, <3>1, <3>3
  <2>3. QED
    BY <2>1, <2>2
<1>10. ASSUME NEW x \in 1..(N + 1), x \notin Ancestry(categories', up') PROVE done'[x] = Len(NewKids(x))
  <2>1. up' = N + 1
    BY DEF VisitDefinition
  <2>2. Ancestry(categories', up') = {N + 1} \cup Ancestry(categories, up)
    BY <2>1, VisitShape
  <2>3. x \in 1..N /\ x \in 0..N /\ x \notin Ancestry(categories, up)
    BY <1>1, <1>10, <2>2
  <2>4. up \in 1..N => up \in Ancestry(categories, up)
    BY <1>1, VisitShape, AncestryUnfolds
  <2>5. x # up
    BY <2>3, <2>4
  <2>6. QED
    BY <1>1, <1>4, <1>6, <2>3, <2>5
<1>11. builder' = "categories"
  BY DEF VisitDefinition
<1>12. QED
  <2>1. DOMAIN categories' = 1..(N + 1)
    BY <1>1
  <2> HIDE DEF N
  <2>2. \A x \in 0..Len(categories') : done'[x] = Cardinality(Children(categories', x)) /\ done'[x] <= Len(NewKids(x))
    BY <1>1, <1>8
  <2>3. \A i \in DOMAIN categories' : categories'[i].def = NewKids(categories'[i].parent)[Place(categories', i)]
    BY <1>9, <2>1
  <2>4. \A x \in DOMAIN categories' \ Ancestry(categories', up') : done'[x] = Len(NewKids(x))
    BY <1>10, <2>1
  <2>5. QED
    BY <1>11, <2>2, <2>3, <2>4 DEF WalkIsInOrder, Kids, NewKids

(* The new category inherits along the chain of its parent.                *)
LEMMA VisitInherits == CatalogInv /\ VisitDefinition => CategoriesInherit'
<1> SUFFICES ASSUME CatalogInv, VisitDefinition PROVE CategoriesInherit'
  OBVIOUS
<1> DEFINE N == Len(categories)
           prices == [c \in DOMAIN categories |-> categories[c].def.price]
           rets == [c \in DOMAIN categories |-> categories[c].def.ret]
           prices1 == [c \in DOMAIN categories' |-> categories'[c].def.price]
           rets1 == [c \in DOMAIN categories' |-> categories'[c].def.ret]
           Root(chain, c) == /\ c.top \in DOMAIN tree
                             /\ \E r \in chain : categories'[r].parent = Top /\ categories'[r].def = tree[c.top]
<1>1. /\ N \in Nat /\ Len(categories') = N + 1 /\ categories' \in Seq(Category) /\ up \in 0..N
      /\ \A i \in 1..N : categories'[i] = categories[i]
      /\ \A i \in 0..N : /\ Ancestry(categories', i) = Ancestry(categories, i)
                         /\ Ancestry(categories, i) \subseteq 1..i
      /\ Ancestry(categories', N + 1) = {N + 1} \cup Ancestry(categories, up)
      /\ tree' = tree
  BY VisitShape
<1>2. DOMAIN categories' = 1..(N + 1) /\ DOMAIN categories = 1..N
  BY <1>1 DEF CatalogInv, CatalogTypeOK
<1>3. PICK c \in Category :
           /\ categories' = Append(categories, c) /\ c.parent = up
           /\ c.def = Kids(up)[done[up] + 1] /\ done[up] + 1 \in DOMAIN Kids(up)
           /\ c.top = Above.top
           /\ c.ret = Own(c.def.ret, Above.ret) /\ c.price = Own(c.def.price, Above.price)
  BY VisitStores
<1>4. categories'[N + 1] = c
  BY <1>3 DEF CatalogInv, CatalogTypeOK
<1>5. ASSUME NEW x \in 0..N, NEW j \in Ancestry(categories, x)
      PROVE  j \in 1..N /\ j \in 1..x /\ j \in 1..(N + 1)
  <2>1. j \in 1..x /\ x \in Nat /\ x <= N
    BY <1>1, <1>5
  <2>2. QED
    BY <1>1, <2>1
<1>6. \A j \in 1..N : prices1[j] = prices[j] /\ rets1[j] = rets[j]
  <2>1. 1..N \subseteq 1..(N + 1)
    BY <1>1
  <2>2. QED
    BY <1>1, <1>2, <2>1
<1>7. prices1[N + 1] = c.def.price /\ rets1[N + 1] = c.def.ret
  <2>1. N + 1 \in 1..(N + 1)
    BY <1>1
  <2>2. QED
    BY <1>2, <1>4, <2>1
<1>8. c.def.price \in Nat /\ c.def.ret \in Nat /\ c.def \in Definition
  BY SeedCatalogAssumption DEF Category
<1> HIDE DEF prices, prices1, rets, rets1, N
<1>9. ASSUME NEW x \in 1..N
      PROVE  /\ FromNearest(Ancestry(categories, x), prices1, categories[x].price)
             /\ FromNearest(Ancestry(categories, x), rets1, categories[x].ret)
             /\ Root(Ancestry(categories, x), categories[x])
  <2>1. /\ FromNearest(Ancestry(categories, x), prices, categories[x].price)
        /\ FromNearest(Ancestry(categories, x), rets, categories[x].ret)
        /\ categories[x].top \in DOMAIN tree
        /\ \E r \in Ancestry(categories, x) :
             categories[r].parent = Top /\ categories[r].def = tree[categories[x].top]
    BY <1>2 DEF CatalogInv, CategoriesInherit, prices, rets
  <2>2. \A j \in Ancestry(categories, x) : j \in 1..N
    BY <1>1, <1>5
  <2>3. FromNearest(Ancestry(categories, x), prices1, categories[x].price)
    BY <1>6, <2>1, <2>2, NearestSame
  <2>4. FromNearest(Ancestry(categories, x), rets1, categories[x].ret)
    BY <1>6, <2>1, <2>2, NearestSame
  <2>5. Root(Ancestry(categories, x), categories[x])
    BY <1>1, <2>1, <2>2
  <2>6. QED
    BY <2>3, <2>4, <2>5
<1> DEFINE chain == Ancestry(categories, up)
<1>10. /\ FromNearest(chain, prices1, Above.price)
       /\ FromNearest(chain, rets1, Above.ret)
       /\ up # Top => Root(chain, Above)
  <2>1. CASE up = Top
    <3>1. chain = {}
      <4>1. ParentsFirst(categories) /\ categories \in Seq(Category)
        BY VisitShape DEF CatalogInv, CatalogTypeOK
      <4>2. QED
        BY <2>1, <4>1, AncestryUnfolds DEF Top
    <3>2. Above.price = 0 /\ Above.ret = 0
      BY <2>1 DEF Above
    <3> HIDE DEF chain
    <3>3. QED
      BY <2>1, <3>1, <3>2 DEF FromNearest
  <2>2. CASE up # Top
    <3>1. up \in 1..N
      BY <1>1, <2>2 DEF Top
    <3>2. Above = categories[up]
      BY <2>2 DEF Above
    <3>3. QED
      BY <1>9, <3>1, <3>2
  <2>3. QED
    BY <2>1, <2>2
<1>11. \A j \in chain : j \in Int /\ j < N + 1
  BY <1>1, <1>5
<1> HIDE DEF chain
<1>12. /\ FromNearest({N + 1} \cup chain, prices1, c.price)
       /\ FromNearest({N + 1} \cup chain, rets1, c.ret)
  <2>1. N + 1 \in Nat
    BY <1>1
  <2>2. FromNearest({N + 1} \cup chain, prices1, Own(prices1[N + 1], Above.price))
    BY <1>7, <1>8, <1>10, <1>11, <2>1, NearestOwn
  <2>3. FromNearest({N + 1} \cup chain, rets1, Own(rets1[N + 1], Above.ret))
    BY <1>7, <1>8, <1>10, <1>11, <2>1, NearestOwn
  <2>4. QED
    BY <1>3, <1>7, <2>2, <2>3
<1>13. Root({N + 1} \cup chain, c)
  <2>1. CASE up = Top
    <3>1. c.top = done[up] + 1 /\ Kids(up) = tree
      BY <1>3, <2>1 DEF Above, Kids
    <3>2. c.top \in DOMAIN tree /\ c.def = tree[c.top] /\ c.parent = Top
      BY <1>3, <2>1, <3>1
    <3>3. QED
      BY <1>4, <3>2
  <2>2. CASE up # Top
    BY <1>3, <1>10, <2>2
  <2>3. QED
    BY <2>1, <2>2
<1>14. ASSUME NEW i \in DOMAIN categories'
       PROVE  /\ FromNearest(Ancestry(categories', i), prices1, categories'[i].price)
              /\ FromNearest(Ancestry(categories', i), rets1, categories'[i].ret)
              /\ Root(Ancestry(categories', i), categories'[i])
  <2>1. CASE i = N + 1
    <3>1. Ancestry(categories', i) = {N + 1} \cup chain
      BY <1>1, <2>1 DEF chain
    <3>2. QED
      BY <1>4, <1>12, <1>13, <2>1, <3>1
  <2>2. CASE i # N + 1
    <3>1. i \in 1..N /\ i \in 0..N
      BY <1>1, <1>2, <2>2
    <3>2. QED
      BY <1>1, <1>9, <3>1
  <2>3. QED
    BY <2>1, <2>2
<1>15. QED
  BY <1>1, <1>14 DEF CategoriesInherit, prices1, rets1

LEMMA VisitInv == CatalogInv /\ VisitDefinition => CatalogInv'
<1> SUFFICES ASSUME CatalogInv, VisitDefinition PROVE CatalogInv'
  OBVIOUS
<1>1. builder = "categories" /\ products = <<>> /\ promotions = <<>>
  BY DEF CatalogInv, BuildersFollow, VisitDefinition
<1>2. builder' = builder /\ products' = <<>> /\ promotions' = <<>> /\ supplied' = supplied
  BY <1>1 DEF VisitDefinition
<1>3. BuildersFollow' /\ PricesAscend' /\ PromotionCoversSubtree'
  BY <1>2 DEF BuildersFollow, PricesAscend, PromotionCoversSubtree
<1>4. RowsPassConstraints'
  <2>1. ParentsFirst(categories')
    BY VisitShape
  <2>2. QED
    BY <1>2, <2>1 DEF CatalogInv, RowsPassConstraints, ParentsFirst
<1>5. QED
  BY <1>3, <1>4, VisitTypes, VisitWalk, VisitInherits DEF CatalogInv

(* A step that leaves the tree and the categories leaves what they inherit, *)
(* and, if it is not of the walk, the walk.                                *)
LEMMA CategoriesStay ==
  ASSUME CatalogInv, UNCHANGED <<tree, categories>>
  PROVE  /\ CategoriesInherit' /\ ParentsFirst(categories)
         /\ UNCHANGED <<up, done>> /\ builder # "categories" => WalkIsInOrder'
  <1>1. CategoriesInherit'
    BY DEF CatalogInv, CategoriesInherit
  <1>2. ParentsFirst(categories)
    BY DEF CatalogInv, RowsPassConstraints, ParentsFirst
  <1>3. ASSUME UNCHANGED <<up, done>>, builder # "categories" PROVE WalkIsInOrder'
    BY <1>3 DEF CatalogInv, WalkIsInOrder, Kids
  <1>4. QED
    BY <1>1, <1>2, <1>3

LEMMA ReturnInv == CatalogInv /\ ReturnFromWalk => CatalogInv'
<1> SUFFICES ASSUME CatalogInv, ReturnFromWalk PROVE CatalogInv'
  OBVIOUS
<1> DEFINE N == Len(categories)
<1>1. /\ builder = "categories" /\ done[up] = Len(Kids(up))
      /\ UNCHANGED <<tree, categories, products, promotions, done, supplied>>
  BY DEF ReturnFromWalk
<1>2. products = <<>> /\ promotions = <<>>
  BY <1>1 DEF CatalogInv, BuildersFollow
<1>3. CategoriesInherit' /\ ParentsFirst(categories)
  BY <1>1, CategoriesStay
<1>4. BuildersFollow' /\ PricesAscend' /\ PromotionCoversSubtree'
  <2>1. builder' \in {"categories", "products"}
    BY <1>1 DEF ReturnFromWalk
  <2>2. QED
    BY <1>1, <1>2, <2>1 DEF BuildersFollow, PricesAscend, PromotionCoversSubtree
<1>5. RowsPassConstraints'
  BY <1>1, <1>2 DEF CatalogInv, RowsPassConstraints, Leaves
<1>6. N \in Nat /\ up \in 0..N /\ categories \in Seq(Category) /\ DOMAIN categories = 1..N
  BY DEF CatalogInv, CatalogTypeOK
<1>7. CatalogTypeOK'
  <2>1. up' \in 0..N
    <3>1. CASE up = Top
      BY <1>6, <3>1 DEF ReturnFromWalk
    <3>2. CASE up # Top
      <4>1. up \in 1..N
        BY <1>6, <3>2 DEF Top
      <4>2. categories[up].parent \in 0..(up - 1)
        BY <1>3, <1>6, <4>1 DEF ParentsFirst
      <4>3. QED
        BY <1>6, <3>2, <4>1, <4>2 DEF ReturnFromWalk
    <3>3. QED
      BY <3>1, <3>2
  <2>2. builder' \in {"categories", "products"}
    BY <1>1 DEF ReturnFromWalk
  <2>3. QED
    BY <1>1, <2>1, <2>2 DEF CatalogInv, CatalogTypeOK
<1>8. WalkIsInOrder'
  <2>1. /\ \A c \in 0..N : done[c] = Cardinality(Children(categories, c)) /\ done[c] <= Len(Kids(c))
        /\ \A i \in 1..N : categories[i].def = Kids(categories[i].parent)[Place(categories, i)]
        /\ \A c \in (1..N) \ Ancestry(categories, up) : done[c] = Len(Kids(c))
    BY <1>6 DEF CatalogInv, WalkIsInOrder
  <2>2. ASSUME NEW c \in 1..N, c \notin Ancestry(categories, up') PROVE done[c] = Len(Kids(c))
    <3>1. CASE up = Top
      BY <2>1, <2>2, <3>1 DEF ReturnFromWalk
    <3>2. CASE up # Top
      <4>1. up \in 1..N
        BY <1>6, <3>2 DEF Top
      <4>2. Ancestry(categories, up) = {up} \cup Ancestry(categories, categories[up].parent)
        BY <1>3, <1>6, <4>1, AncestryUnfolds
      <4>3. up' = categories[up].parent
        BY <3>2 DEF ReturnFromWalk
      <4>4. c = up \/ c \notin Ancestry(categories, up)
        BY <2>2, <4>2, <4>3
      <4>5. QED
        BY <1>1, <2>1, <4>4
    <3>3. QED
      BY <3>1, <3>2
  <2>3. builder' # "categories" => up' = Top /\ done[Top] = Len(tree)
    BY <1>1 DEF ReturnFromWalk, Kids
  <2>4. QED
    BY <1>1, <1>6, <2>1, <2>2, <2>3 DEF WalkIsInOrder, Kids
<1>9. QED
  BY <1>3, <1>4, <1>5, <1>7, <1>8 DEF CatalogInv

(* A product begins with one price.                                        *)
LEMMA CreateInv == CatalogInv /\ CreateProduct => CatalogInv'
<1> SUFFICES ASSUME CatalogInv, CreateProduct PROVE CatalogInv'
  OBVIOUS
<1>1. PICK leaf \in Leaves, created \in 0..(HistoryEnd - Margin - 1) :
        products' = Append(products, [cat |-> leaf, created |-> created,
                                      prices |-> <<[from |-> created, cents |-> 1]>>])
  BY DEF CreateProduct
<1> DEFINE p == [cat |-> leaf, created |-> created, prices |-> <<[from |-> created, cents |-> 1]>>]
<1>2. /\ builder = "products" /\ promotions = <<>>
      /\ UNCHANGED <<tree, builder, categories, promotions, up, done, supplied>>
  BY DEF CatalogInv, BuildersFollow, CreateProduct
<1>3. products \in Seq(CatalogProduct) /\ categories \in Seq(Category)
  BY DEF CatalogInv, CatalogTypeOK
<1>4. leaf \in Nat /\ created \in Nat
  <2>1. leaf \in 1..Len(categories)
    BY <1>3 DEF Leaves
  <2>2. created \in Int /\ 0 <= created
    BY SeedCatalogAssumption
  <2>3. QED
    BY <2>1, <2>2
<1>5. p \in CatalogProduct
  <2>1. [from |-> created, cents |-> 1] \in CatalogPrice
    BY <1>4 DEF CatalogPrice
  <2>2. <<[from |-> created, cents |-> 1]>> \in Seq(CatalogPrice)
    BY <2>1
  <2>3. QED
    BY <1>4, <2>2 DEF CatalogProduct
<1>6. Ascending(p)
  BY DEF Ascending
<1> HIDE DEF p
<1>7. /\ products' = Append(products, p) /\ products' \in Seq(CatalogProduct)
      /\ \A i \in DOMAIN products' : products'[i] = p \/ (i \in DOMAIN products /\ products'[i] = products[i])
  <2>1. products' = Append(products, p)
    BY <1>1 DEF p
  <2>2. QED
    BY <1>3, <1>5, <2>1
<1>8. CategoriesInherit' /\ WalkIsInOrder'
  BY <1>2, CategoriesStay
<1>9. PricesAscend'
  BY <1>6, <1>7 DEF CatalogInv, PricesAscend
<1>10. BuildersFollow' /\ PromotionCoversSubtree'
  BY <1>2 DEF BuildersFollow, PromotionCoversSubtree
<1>11. RowsPassConstraints'
  <2>1. p.cat \in Leaves
    BY DEF p
  <2>2. \A i \in DOMAIN products' : products'[i].cat \in Leaves'
    BY <1>2, <1>7, <2>1 DEF CatalogInv, RowsPassConstraints, Leaves
  <2>3. QED
    BY <1>2, <2>2 DEF CatalogInv, RowsPassConstraints
<1>12. CatalogTypeOK'
  BY <1>2, <1>7 DEF CatalogInv, CatalogTypeOK
<1>13. QED
  BY <1>8, <1>9, <1>10, <1>11, <1>12 DEF CatalogInv

(* A later price comes after all the others.                               *)
LEMMA PointAscends ==
  ASSUME NEW p \in CatalogProduct, Ascending(p), NEW t \in Nat, t >= Last(p.prices).from
  PROVE  LET q == [p EXCEPT !.prices = AddPoint(p.prices, t)] IN
         q \in CatalogProduct /\ q.cat = p.cat /\ Ascending(q)
  <1> DEFINE old == p.prices
             n == Len(old)
             new == AddPoint(old, t)
             q == [p EXCEPT !.prices = new]
  <1>1. old \in Seq(CatalogPrice) /\ old # <<>> /\ n \in Nat /\ n >= 1 /\ DOMAIN old = 1..n
    <2>1. old \in Seq(CatalogPrice) /\ old # <<>>
      BY DEF CatalogProduct, Ascending
    <2>2. n # 0
      BY <2>1, EmptySeq
    <2>3. QED
      BY <2>1, <2>2
  <1>2. \A i \in 1..n : old[i].from \in Nat
    <2>1. ASSUME NEW i \in 1..n PROVE old[i] \in CatalogPrice
      BY <1>1
    <2>2. QED
      BY <2>1 DEF CatalogPrice
  <1>3. \A i, j \in 1..n : i < j => old[i].from < old[j].from
    BY <1>1 DEF Ascending
  <1>4. Last(old) = old[n]
    BY DEF Last
  <1>5. /\ new \in Seq(CatalogPrice) /\ new # <<>> /\ new[1] = old[1]
        /\ \A i, j \in DOMAIN new : i < j => new[i].from < new[j].from
    <2>1. CASE t = Last(old).from
      <3>1. new = old
        BY <2>1 DEF AddPoint
      <3>2. QED
        BY <1>1, <1>3, <3>1
    <2>2. CASE t # Last(old).from
      <3> DEFINE point == [from |-> t, cents |-> n + 1]
      <3>1. new = Append(old, point)
        BY <2>2 DEF AddPoint
      <3>2. point \in CatalogPrice
        BY <1>1 DEF CatalogPrice
      <3>3. old[n].from < t
        <4>1. n \in 1..n
          BY <1>1
        <4>2. QED
          BY <1>2, <1>4, <2>2, <4>1
      <3>4. point.from = t
        OBVIOUS
      <3> HIDE DEF point, new
      <3>5. /\ new \in Seq(CatalogPrice) /\ Len(new) = n + 1 /\ DOMAIN new = 1..(n + 1)
            /\ \A i \in 1..n : new[i] = old[i]
            /\ new[n + 1] = point
        BY <1>1, <3>1, <3>2
      <3>6. ASSUME NEW i \in 1..(n + 1), NEW j \in 1..(n + 1), i < j PROVE new[i].from < new[j].from
        <4>1. i \in 1..n
          BY <1>1, <3>6
        <4>2. CASE j = n + 1
          <5>1. old[i].from <= old[n].from
            <6>1. CASE i = n
              BY <1>2, <4>1, <6>1
            <6>2. CASE i # n
              BY <1>1, <1>2, <1>3, <4>1, <6>2
            <6>3. QED
              BY <6>1, <6>2
          <5>2. n \in 1..n
            BY <1>1
          <5>3. QED
            BY <1>2, <3>3, <3>4, <3>5, <4>1, <4>2, <5>1, <5>2
        <4>3. CASE j # n + 1
          <5>1. j \in 1..n
            BY <1>1, <4>3
          <5>2. QED
            BY <1>3, <3>5, <3>6, <4>1, <5>1
        <4>4. QED
          BY <4>2, <4>3
      <3>7. new[1] = old[1] /\ new # <<>>
        <4>1. 1 \in 1..n
          BY <1>1
        <4>2. QED
          BY <1>1, <3>5, <4>1
      <3>8. QED
        BY <3>5, <3>6, <3>7
    <2>3. QED
      BY <2>1, <2>2
  <1> HIDE DEF new
  <1>6. q.prices = new /\ q.cat = p.cat /\ q.created = p.created
    BY DEF CatalogProduct
  <1>7. q \in CatalogProduct
    BY <1>5 DEF CatalogProduct
  <1>8. Ascending(q)
    BY <1>5, <1>6 DEF Ascending
  <1>9. QED
    BY <1>6, <1>7, <1>8 DEF new

LEMMA ChangeInv == CatalogInv /\ ChangePrice => CatalogInv'
<1> SUFFICES ASSUME CatalogInv, ChangePrice PROVE CatalogInv'
  OBVIOUS
<1> DEFINE n == Len(products)
           p == products[n]
<1>1. PICK t \in (p.created + Gap)..(HistoryEnd - 1) :
        t >= Last(p.prices).from /\ products' = [products EXCEPT ![n].prices = AddPoint(p.prices, t)]
  BY DEF ChangePrice
<1>2. /\ builder = "products" /\ promotions = <<>> /\ products # <<>>
      /\ UNCHANGED <<tree, builder, categories, promotions, up, done, supplied>>
  BY DEF CatalogInv, BuildersFollow, ChangePrice
<1>3. products \in Seq(CatalogProduct) /\ n \in 1..n /\ n \in Nat /\ DOMAIN products = 1..n
  <2>1. products \in Seq(CatalogProduct)
    BY DEF CatalogInv, CatalogTypeOK
  <2>2. n # 0
    BY <1>2, <2>1, EmptySeq
  <2>3. QED
    BY <2>1, <2>2
<1>4. p \in CatalogProduct
  BY <1>3
<1>5. t \in Nat
  BY <1>4, SeedCatalogAssumption DEF CatalogProduct
<1> DEFINE q == [p EXCEPT !.prices = AddPoint(p.prices, t)]
<1>6. q \in CatalogProduct /\ q.cat = p.cat /\ Ascending(q)
  BY <1>1, <1>3, <1>4, <1>5, PointAscends DEF CatalogInv, PricesAscend
<1>7. products' = [products EXCEPT ![n] = q]
  BY <1>1
<1> HIDE DEF q, p
<1>8. /\ products' \in Seq(CatalogProduct)
      /\ DOMAIN products' = DOMAIN products
      /\ \A i \in DOMAIN products : products'[i] = IF i = n THEN q ELSE products[i]
  BY <1>3, <1>6, <1>7
<1>9. CategoriesInherit' /\ WalkIsInOrder'
  BY <1>2, CategoriesStay
<1>10. PricesAscend'
  BY <1>6, <1>8 DEF CatalogInv, PricesAscend
<1>11. BuildersFollow' /\ PromotionCoversSubtree'
  BY <1>2 DEF BuildersFollow, PromotionCoversSubtree
<1>12. RowsPassConstraints'
  <2>1. \A i \in DOMAIN products : products[i].cat \in Leaves
    BY DEF CatalogInv, RowsPassConstraints
  <2>2. p.cat \in Leaves
    BY <1>3, <2>1 DEF p
  <2>3. \A i \in DOMAIN products' : products'[i].cat \in Leaves
    BY <1>6, <1>8, <2>1, <2>2
  <2>4. QED
    BY <1>2, <2>3 DEF CatalogInv, RowsPassConstraints, Leaves
<1>13. CatalogTypeOK'
  BY <1>2, <1>8 DEF CatalogInv, CatalogTypeOK
<1>14. QED
  BY <1>9, <1>10, <1>11, <1>12, <1>13 DEF CatalogInv

(* The products of a promotion are those at or below its names, and there  *)
(* is an instant of the history at which it is active.                     *)
LEMMA PromoteInv == CatalogInv /\ BuildPromotion => CatalogInv'
<1> SUFFICES ASSUME CatalogInv, BuildPromotion PROVE CatalogInv'
  OBVIOUS
<1>1. PICK names \in PromoNames \cup {{}}, starts \in 0..HistoryEnd, days \in PromoDays :
      \E set \in IF names = {} THEN SUBSET DOMAIN products ELSE {ProductsUnder(names)} :
        /\ Kept(starts, starts + days, set)
        /\ promotions' = Append(promotions, [starts |-> starts, ends |-> starts + days,
                                             names |-> names, set |-> set])
  BY DEF BuildPromotion
<1>2. PICK set \in IF names = {} THEN SUBSET DOMAIN products ELSE {ProductsUnder(names)} :
        /\ Kept(starts, starts + days, set)
        /\ promotions' = Append(promotions, [starts |-> starts, ends |-> starts + days,
                                             names |-> names, set |-> set])
  BY <1>1
<1> DEFINE promo == [starts |-> starts, ends |-> starts + days, names |-> names, set |-> set]
           under(some) == {p \in DOMAIN products :
                            \E c \in Ancestry(categories, products[p].cat) : categories[c].def.name \in some}
<1>3. builder = "promotions" /\ UNCHANGED <<tree, builder, categories, products, up, done, supplied>>
  BY DEF BuildPromotion
<1>4. /\ products \in Seq(CatalogProduct) /\ categories \in Seq(Category)
      /\ promotions \in Seq(CatalogPromotion)
  BY DEF CatalogInv, CatalogTypeOK
<1>5. CategoriesInherit' /\ WalkIsInOrder' /\ ParentsFirst(categories)
  BY <1>3, CategoriesStay
<1>6. names # {} => set = under(names)
  <2>1. SUFFICES ASSUME names # {} PROVE set = under(names)
    OBVIOUS
  <2>2. set = {p \in DOMAIN products : products[p].cat \in Below(categories, names)}
    BY <2>1 DEF ProductsUnder
  <2>3. Below(categories, names) =
          {i \in DOMAIN categories : \E c \in Ancestry(categories, i) : categories[c].def.name \in names}
    BY <1>4, <1>5, BelowFact
  <2>4. \A p \in DOMAIN products : products[p].cat \in DOMAIN categories
    BY DEF CatalogInv, RowsPassConstraints, Leaves
  <2>5. QED
    BY <2>2, <2>3, <2>4
<1>7. set \subseteq DOMAIN products
  <2>1. names = {} \/ set = under(names)
    BY <1>6
  <2>2. QED
    BY <2>1
<1>8. starts \in Nat /\ starts + days \in Nat /\ starts <= starts + days
  BY SeedCatalogAssumption
<1>9. \E t \in HistoryStart..HistoryEnd : starts <= t /\ t <= starts + days
  <2>1. starts + days >= HistoryStart /\ starts < HistoryEnd
    BY <1>2 DEF Kept
  <2>2. CASE starts <= HistoryStart
    <3>1. HistoryStart \in HistoryStart..HistoryEnd
      BY SeedCatalogAssumption
    <3>2. QED
      BY <2>1, <2>2, <3>1
  <2>3. CASE ~(starts <= HistoryStart)
    <3>1. starts \in HistoryStart..HistoryEnd
      BY <1>8, <2>1, <2>3, SeedCatalogAssumption
    <3>2. QED
      BY <1>8, <3>1
  <2>4. QED
    BY <2>2, <2>3
<1>10. set # {}
  BY <1>2 DEF Kept
<1>11. promo \in CatalogPromotion
  <2>1. set \in SUBSET Nat
    BY <1>4, <1>7
  <2>2. QED
    BY <1>8, <2>1 DEF CatalogPromotion
<1>12. promo.starts = starts /\ promo.ends = starts + days /\ promo.names = names /\ promo.set = set
  OBVIOUS
<1> HIDE DEF promo
<1>13. /\ promotions' = Append(promotions, promo) /\ promotions' \in Seq(CatalogPromotion)
       /\ \A i \in DOMAIN promotions' :
            promotions'[i] = promo \/ (i \in DOMAIN promotions /\ promotions'[i] = promotions[i])
  <2>1. promotions' = Append(promotions, promo)
    BY <1>2 DEF promo
  <2>2. QED
    BY <1>4, <1>11, <2>1
<1>14. PromotionCoversSubtree'
  <2>1. \A i \in DOMAIN promotions : promotions[i].names # {} => promotions[i].set = under(promotions[i].names)
    BY DEF CatalogInv, PromotionCoversSubtree
  <2>2. ASSUME NEW i \in DOMAIN promotions', promotions'[i].names # {}
        PROVE  promotions'[i].set = under(promotions'[i].names)
    <3>1. CASE promotions'[i] = promo
      BY <1>6, <1>12, <2>2, <3>1
    <3>2. CASE i \in DOMAIN promotions /\ promotions'[i] = promotions[i]
      BY <2>1, <2>2, <3>2
    <3>3. QED
      BY <1>13, <3>1, <3>2
  <2>3. QED
    BY <1>3, <2>2 DEF PromotionCoversSubtree
<1>15. RowsPassConstraints'
  <2> DEFINE Good(x) == /\ x.set # {} /\ x.set \subseteq DOMAIN products
                        /\ \E t \in HistoryStart..HistoryEnd : x.starts <= t /\ t <= x.ends
  <2>1. Good(promo)
    BY <1>7, <1>9, <1>10, <1>12
  <2>2. \A i \in DOMAIN promotions : Good(promotions[i])
    BY DEF CatalogInv, RowsPassConstraints
  <2>3. \A i \in DOMAIN promotions' : Good(promotions'[i])
    <3> HIDE DEF Good
    <3> QED BY <1>13, <2>1, <2>2
  <2>4. QED
    BY <1>3, <2>3 DEF CatalogInv, RowsPassConstraints, Leaves
<1>16. BuildersFollow' /\ PricesAscend'
  BY <1>3 DEF CatalogInv, BuildersFollow, PricesAscend
<1>17. CatalogTypeOK'
  BY <1>3, <1>13 DEF CatalogInv, CatalogTypeOK
<1>18. QED
  BY <1>5, <1>14, <1>15, <1>16, <1>17 DEF CatalogInv

(* A supplier is appended only when it is not there.                       *)
LEMMA DrawInv == CatalogInv /\ DrawSupplier => CatalogInv'
<1> SUFFICES ASSUME CatalogInv, DrawSupplier PROVE CatalogInv'
  OBVIOUS
<1>1. PICK s \in Supplier : supplied' = Drawn(supplied, s)
  BY DEF DrawSupplier
<1>2. /\ builder # "categories" /\ supplied \in Seq(Supplier)
      /\ UNCHANGED <<tree, builder, categories, products, promotions, up, done>>
  BY DEF CatalogInv, CatalogTypeOK, DrawSupplier
<1>3. \A i, j \in DOMAIN supplied : supplied[i] = supplied[j] => i = j
  BY DEF CatalogInv, RowsPassConstraints
<1>4. supplied' \in Seq(Supplier) /\ \A i, j \in DOMAIN supplied' : supplied'[i] = supplied'[j] => i = j
  <2>1. CASE Contains(supplied, s)
    BY <1>1, <1>2, <1>3, <2>1 DEF Drawn
  <2>2. CASE ~Contains(supplied, s)
    <3>1. supplied' = Append(supplied, s)
      BY <1>1, <2>2 DEF Drawn
    <3>2. \A i \in 1..Len(supplied) : supplied[i] # s
      BY <1>2, <2>2 DEF Contains
    <3>3. /\ supplied' \in Seq(Supplier) /\ Len(supplied) \in Nat
          /\ DOMAIN supplied = 1..Len(supplied) /\ DOMAIN supplied' = 1..(Len(supplied) + 1)
          /\ \A i \in 1..Len(supplied) : supplied'[i] = supplied[i]
          /\ supplied'[Len(supplied) + 1] = s
      BY <1>2, <3>1
    <3>4. ASSUME NEW i \in DOMAIN supplied', NEW j \in DOMAIN supplied', supplied'[i] = supplied'[j]
          PROVE  i = j
      <4>1. \A k \in DOMAIN supplied' : k \in 1..Len(supplied) \/ k = Len(supplied) + 1
        BY <3>3
      <4>2. QED
        BY <1>3, <3>2, <3>3, <3>4, <4>1
    <3>5. QED
      BY <3>3, <3>4
  <2>3. QED
    BY <2>1, <2>2
<1>5. CategoriesInherit' /\ WalkIsInOrder'
  BY <1>2, CategoriesStay
<1>6. RowsPassConstraints'
  BY <1>2, <1>4 DEF CatalogInv, RowsPassConstraints, Leaves
<1>7. BuildersFollow' /\ PricesAscend' /\ PromotionCoversSubtree'
  BY <1>2 DEF CatalogInv, BuildersFollow, PricesAscend, PromotionCoversSubtree
<1>8. CatalogTypeOK'
  BY <1>2, <1>4 DEF CatalogInv, CatalogTypeOK
<1>9. QED
  BY <1>5, <1>6, <1>7, <1>8 DEF CatalogInv

LEMMA NextBuilderInv == CatalogInv /\ NextBuilder => CatalogInv'
<1> SUFFICES ASSUME CatalogInv, NextBuilder PROVE CatalogInv'
  OBVIOUS
<1>1. /\ builder # "categories" /\ builder' \in {"promotions", "suppliers", "done"}
      /\ UNCHANGED <<tree, categories, products, promotions, up, done, supplied>>
  BY DEF NextBuilder
<1>2. CategoriesInherit' /\ WalkIsInOrder'
  BY <1>1, CategoriesStay
<1>3. BuildersFollow' /\ PricesAscend' /\ PromotionCoversSubtree'
  BY <1>1 DEF CatalogInv, BuildersFollow, PricesAscend, PromotionCoversSubtree
<1>4. RowsPassConstraints' /\ CatalogTypeOK'
  BY <1>1 DEF CatalogInv, RowsPassConstraints, Leaves, CatalogTypeOK
<1>5. QED
  BY <1>2, <1>3, <1>4 DEF CatalogInv

LEMMA CatalogInitInv == CatalogInit => CatalogInv
<1> SUFFICES ASSUME CatalogInit PROVE CatalogInv
  OBVIOUS
<1>1. /\ tree \in Seq(Definition) /\ builder = "categories" /\ up = 0 /\ done = [c \in {0} |-> 0]
      /\ categories = <<>> /\ products = <<>> /\ promotions = <<>> /\ supplied = <<>>
  BY SeedCatalogAssumption DEF CatalogInit, Top
<1>2. CatalogTypeOK
  <2>1. Len(categories) = 0 /\ 0..0 = {0} /\ done \in [{0} -> Nat]
    BY <1>1
  <2>2. QED
    BY <1>1, <2>1 DEF CatalogTypeOK
<1>3. WalkIsInOrder
  <2>1. Children(categories, 0) = {} /\ Kids(0) = tree /\ Len(tree) \in Nat
    BY <1>1 DEF Children, Kids, Top
  <2>2. \A c \in 0..Len(categories) : c = 0
    BY <1>1
  <2>3. done[0] = 0 /\ Cardinality({}) = 0 /\ DOMAIN categories = {}
    BY <1>1, FS_EmptySet
  <2>4. \A c \in 0..Len(categories) : done[c] = Cardinality(Children(categories, c)) /\ done[c] <= Len(Kids(c))
    <3> SUFFICES ASSUME NEW c \in 0..Len(categories)
                 PROVE  done[c] = Cardinality(Children(categories, c)) /\ done[c] <= Len(Kids(c))
      OBVIOUS
    <3>1. c = 0
      BY <2>2
    <3>2. done[0] = Cardinality(Children(categories, 0)) /\ done[0] <= Len(Kids(0))
      <4>1. Cardinality(Children(categories, 0)) = 0
        BY <2>1, <2>3
      <4>2. Len(Kids(0)) \in Nat
        BY <2>1
      <4>3. QED
        BY <2>3, <4>1, <4>2
    <3>3. QED
      BY <3>1, <3>2
  <2>5. QED
    BY <1>1, <2>3, <2>4 DEF WalkIsInOrder
<1>4. BuildersFollow /\ PricesAscend /\ CategoriesInherit /\ PromotionCoversSubtree /\ RowsPassConstraints
  BY <1>1 DEF BuildersFollow, PricesAscend, CategoriesInherit, PromotionCoversSubtree, RowsPassConstraints
<1>5. QED
  BY <1>2, <1>3, <1>4 DEF CatalogInv

(* The inductive invariant of the catalog: what the walk has done and has  *)
(* to do, what categories inherit, prices in time order, and the rows.     *)
THEOREM CatalogInvHolds == CatalogSpec => []CatalogInv
<1>1. CatalogInit => CatalogInv
  BY CatalogInitInv
<1>2. CatalogInv /\ [CatalogNext]_catalogVars => CatalogInv'
  <2>1. CatalogInv /\ UNCHANGED catalogVars => CatalogInv'
    <3> SUFFICES ASSUME CatalogInv, UNCHANGED catalogVars PROVE CatalogInv'
      OBVIOUS
    <3>1. UNCHANGED <<tree, builder, categories, products, promotions, up, done, supplied>>
      BY DEF catalogVars
    <3>2. CatalogTypeOK' /\ WalkIsInOrder' /\ BuildersFollow' /\ PricesAscend'
      BY <3>1 DEF CatalogInv, CatalogTypeOK, WalkIsInOrder, Kids, BuildersFollow, PricesAscend
    <3>3. CategoriesInherit' /\ PromotionCoversSubtree' /\ RowsPassConstraints'
      BY <3>1 DEF CatalogInv, CategoriesInherit, PromotionCoversSubtree, RowsPassConstraints, Leaves
    <3>4. QED
      BY <3>2, <3>3 DEF CatalogInv
  <2>2. QED
    BY <2>1, VisitInv, ReturnInv, CreateInv, ChangeInv, PromoteInv, DrawInv, NextBuilderInv DEF CatalogNext
<1>3. QED
  BY <1>1, <1>2, PTL DEF CatalogSpec

(* When the walk of buildCategories is over, every definition of the tree  *)
(* is stored once, under the category it belongs to and in its order;      *)
(* categories inherit from their nearest ancestor that sets something; and *)
(* a promotion has exactly the products at or below its names.             *)
THEOREM TreeFollowed == CatalogSpec => []TreeIsFollowed
<1>1. CatalogInv => TreeIsFollowed
  <2> SUFFICES ASSUME CatalogInv PROVE TreeIsFollowed
    OBVIOUS
  <2>1. EveryDefinitionStored
    <3>1. SUFFICES ASSUME builder # "categories"
                   PROVE  \A c \in 0..Len(categories) : Cardinality(Children(categories, c)) = Len(Kids(c))
      BY DEF CatalogInv, WalkIsInOrder, EveryDefinitionStored
    <3>2. up = Top /\ done[Top] = Len(tree)
      BY <3>1 DEF CatalogInv, WalkIsInOrder
    <3>3. categories \in Seq(Category) /\ ParentsFirst(categories)
      BY DEF CatalogInv, CatalogTypeOK, RowsPassConstraints, ParentsFirst
    <3>4. Ancestry(categories, up) = {}
      BY <3>2, <3>3, AncestryUnfolds DEF Top
    <3>5. \A c \in DOMAIN categories : done[c] = Len(Kids(c))
      BY <3>4 DEF CatalogInv, WalkIsInOrder
    <3>6. done[Top] = Len(Kids(Top))
      BY <3>2 DEF Kids
    <3>7. \A c \in 0..Len(categories) : c = Top \/ c \in DOMAIN categories
      BY <3>3 DEF Top
    <3>8. QED
      BY <3>5, <3>6, <3>7 DEF CatalogInv, WalkIsInOrder
  <2>2. QED
    BY <2>1 DEF CatalogInv, TreeIsFollowed
<1>2. QED
  BY <1>1, CatalogInvHolds, PTL

(* At every instant from a product's creation on exactly one version of    *)
(* its price is valid, and it is the one priceAt finds.                    *)
THEOREM HistoryGapless == CatalogSpec => []HistoryIsGapless
<1>1. CatalogInv => HistoryIsGapless
  <2> SUFFICES ASSUME CatalogInv, NEW p \in DOMAIN products
               PROVE  LET rows == PriceRows(products[p].prices) IN
                      /\ \A r \in rows : r.to = Nothing \/ r.from < r.to
                      /\ \A t \in products[p].created..HistoryEnd :
                           LET valid == {r \in rows : ValidAt(r, t)}
                           IN /\ Cardinality(valid) = 1
                              /\ \A r \in valid : r.cents = PriceAt(products[p].prices, t).cents
    BY DEF HistoryIsGapless
  <2> DEFINE prices == products[p].prices
             rows == PriceRows(prices)
  <2>1. products[p] \in CatalogProduct /\ Ascending(products[p])
    BY DEF CatalogInv, CatalogTypeOK, PricesAscend
  <2>2. prices \in Seq(CatalogPrice) /\ products[p].created \in Nat
    BY <2>1 DEF CatalogProduct
  <2>3. prices \in Seq(PriceHistory)
    <3>1. CatalogPrice \subseteq PriceHistory
      BY DEF CatalogPrice, PriceHistory, Nothing
    <3>2. QED
      BY <2>2, <3>1
  <2>4. /\ prices # <<>> /\ prices[1].from = products[p].created
        /\ \A i, j \in DOMAIN prices : i < j => prices[i].from < prices[j].from
    BY <2>1 DEF Ascending
  <2>5. \A r \in rows : r.to = Nothing \/ r.from < r.to
    <3> SUFFICES ASSUME NEW i \in DOMAIN prices, i < Len(prices) PROVE prices[i].from < prices[i + 1].from
      BY DEF PriceRows
    <3>1. i + 1 \in DOMAIN prices /\ i < i + 1
      BY <2>2
    <3>2. QED
      BY <2>4, <3>1
  <2>6. ASSUME NEW t \in products[p].created..HistoryEnd
        PROVE  LET valid == {r \in rows : ValidAt(r, t)}
               IN /\ Cardinality(valid) = 1
                  /\ \A r \in valid : r.cents = PriceAt(prices, t).cents
    <3>1. t \in Int /\ prices[1].from <= t
      BY <2>2, <2>4, SeedCatalogAssumption
    <3> HIDE DEF prices
    <3>2. PICK k \in DOMAIN prices :
             /\ PriceAt(prices, t) = prices[k]
             /\ {r \in rows : ValidAt(r, t)} = {Row(prices, k)}
      BY <2>3, <2>4, <3>1, PriceAtFact
    <3>3. Cardinality({Row(prices, k)}) = 1
      BY FS_Singleton
    <3>4. Row(prices, k).cents = prices[k].cents
      BY DEF Row
    <3>5. QED
      BY <3>2, <3>3, <3>4
  <2>7. QED
    BY <2>5, <2>6
<1>2. QED
  BY <1>1, CatalogInvHolds, PTL

(* The rows of the catalog pass the constraints that are added after they  *)
(* were copied.                                                            *)
THEOREM RowsPass == CatalogSpec => []RowsPassConstraints
<1>1. CatalogInv => RowsPassConstraints
  BY DEF CatalogInv
<1>2. QED
  BY <1>1, CatalogInvHolds, PTL
=============================================================================
