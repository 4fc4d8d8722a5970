-------------------------- MODULE WebServerProofs --------------------------
(***************************************************************************)
(* Proofs about WebServer and the engine race it runs, for every number of *)
(* requests, racers, writers, statements and repetitions; and, from        *)
(* LeastNatural on, about the SQL console, for every script and result.    *)
(***************************************************************************)
EXTENDS WebServer, SqlConsole, FiniteSetTheorems, WellFoundedInduction, TLAPS

Engine == {"postgres", "duckdb"}
Exec   == {"read", "inserts", "updates", "concurrent", "bulk"}
VariantRecord == [engine : Engine, exec : Exec, oneTx : BOOLEAN]

(* A question of the race page has its arguments and its variants.         *)
LEMMA ScenarioFact ==
  ASSUME NEW id \in DOMAIN scenarios
  PROVE  /\ id # "none"
         /\ scenarios[id].args \in {"none", "order", "customer"}
         /\ scenarios[id].variants \in Seq(VariantRecord)
         /\ Len(scenarios[id].variants) \in Nat
  <1>1. Reads \in Seq(VariantRecord)
    BY DEF Reads, V, VariantRecord, Engine, Exec
  <1>2. \A x \in Exec, b \in BOOLEAN : Writes(x, b) \in Seq(VariantRecord)
    BY DEF Writes, V, VariantRecord, Engine
  <1>3. scenarios[id].variants \in Seq(VariantRecord)
    BY <1>1, <1>2 DEF scenarios, Exec
  <1>4. id # "none" /\ scenarios[id].args \in {"none", "order", "customer"}
    BY DEF scenarios, Analytics, Lookups, WriteTests
  <1>5. QED
    BY <1>3, <1>4

(* The steps that get the table of a test ready, on either engine.         *)
LEMMA SetupFact ==
  ASSUME NEW p
  PROVE  /\ Len(Setup(p)) = IF TableOf(p) = "stock" THEN 5 ELSE 3
         /\ Setup(p)[1] = IF Variant(p).engine = "postgres" THEN "schema" ELSE "clean"
         /\ Setup(p)[2] = IF Variant(p).engine = "postgres" THEN "drop" ELSE "open"
         /\ Setup(p)[3] = "create"
         /\ TableOf(p) = "stock" => Setup(p)[4] = "fill" /\ Setup(p)[5] = "vacuum"
  <1>1. CASE Variant(p).engine = "postgres" /\ TableOf(p) = "stock"
    BY <1>1 DEF Setup
  <1>2. CASE Variant(p).engine # "postgres" /\ TableOf(p) = "stock"
    BY <1>2 DEF Setup
  <1>3. CASE Variant(p).engine = "postgres" /\ TableOf(p) # "stock"
    BY <1>3 DEF Setup
  <1>4. CASE Variant(p).engine # "postgres" /\ TableOf(p) # "stock"
    BY <1>4 DEF Setup
  <1>5. QED
    BY <1>1, <1>2, <1>3, <1>4

-----------------------------------------------------------------------------
(* Sums.  The units of a set are numbered, so one member more adds its own. *)

(* There are finitely many units, so their number is a natural one.        *)
LEMMA UnitsFinite ==
  ASSUME NEW S, IsFiniteSet(S), NEW n, \A x \in S : n[x] \in Nat
  PROVE  /\ IsFiniteSet(UNION {{x} \X (1 .. n[x]) : x \in S})
         /\ Total(n, S) \in Nat
  <1> DEFINE Part(x) == {x} \X (1 .. n[x])
             f == [x \in S |-> Part(x)]
             T == {Part(x) : x \in S}
  <1>1. ASSUME NEW x \in S PROVE IsFiniteSet(Part(x))
    <2>1. IsFiniteSet({x})
      BY FS_Singleton
    <2>2. n[x] \in Int /\ 1 \in Int
      OBVIOUS
    <2>3. IsFiniteSet(1 .. n[x])
      BY <2>2, FS_Interval
    <2>4. QED
      BY <2>1, <2>3, FS_Product
  <1>2. f \in Surjection(S, T)
    BY DEF Surjection
  <1>3. IsFiniteSet(T)
    BY <1>2, FS_Surjection
  <1>4. IsFiniteSet(UNION T)
    BY <1>1, <1>3, FS_UNION
  <1>5. QED
    BY <1>4, FS_CardinalityType DEF Total

(* A sum depends on the summands of the members only.                      *)
LEMMA TotalSame ==
  ASSUME NEW S, NEW n, NEW m, \A x \in S : n[x] = m[x]
  PROVE  Total(n, S) = Total(m, S)
  <1>1. {{x} \X (1 .. n[x]) : x \in S} = {{x} \X (1 .. m[x]) : x \in S}
    OBVIOUS
  <1>2. QED
    BY <1>1 DEF Total

(* Members that count for the same make a product.                         *)
LEMMA TotalAlike ==
  ASSUME NEW S, IsFiniteSet(S), NEW n, NEW k \in Nat, \A x \in S : n[x] = k
  PROVE  Total(n, S) = Cardinality(S) * k
  <1>1. UNION {{x} \X (1 .. n[x]) : x \in S} = S \X (1 .. k)
    OBVIOUS
  <1>2. IsFiniteSet(1 .. k) /\ Cardinality(1 .. k) = k
    BY FS_Interval
  <1>3. Cardinality(S \X (1 .. k)) = Cardinality(S) * k
    BY <1>2, FS_Product
  <1>4. QED
    BY <1>1, <1>3 DEF Total

(* One member more adds its own units.                                     *)
LEMMA TotalAdd ==
  ASSUME NEW S, IsFiniteSet(S), NEW n, NEW y, y \notin S,
         \A x \in S \cup {y} : n[x] \in Nat
  PROVE  Total(n, S \cup {y}) = Total(n, S) + n[y]
  <1> DEFINE A == UNION {{x} \X (1 .. n[x]) : x \in S}
             B == {y} \X (1 .. n[y])
  <1>1. UNION {{x} \X (1 .. n[x]) : x \in S \cup {y}} = A \cup B
    OBVIOUS
  <1>2. A \cap B = {}
    OBVIOUS
  <1>3. IsFiniteSet(A) /\ Cardinality(A) = Total(n, S) /\ Cardinality(A) \in Nat
    BY UnitsFinite DEF Total
  <1>4. IsFiniteSet(B) /\ Cardinality(B) = n[y]
    <2>1. IsFiniteSet({y}) /\ Cardinality({y}) = 1
      BY FS_Singleton
    <2>2. IsFiniteSet(1 .. n[y]) /\ Cardinality(1 .. n[y]) = n[y]
      BY FS_Interval
    <2>3. Cardinality(B) = 1 * n[y] /\ IsFiniteSet(B)
      BY <2>1, <2>2, FS_Product
    <2>4. QED
      BY <2>3
  <1> HIDE DEF A, B
  <1>5. Cardinality(A \cup B) = Cardinality(A) + Cardinality(B) - Cardinality({})
    BY <1>2, <1>3, <1>4, FS_Union
  <1>6. Cardinality(A \cup B) = Total(n, S) + n[y]
    BY <1>3, <1>4, <1>5, FS_EmptySet
  <1>7. QED
    BY <1>1, <1>6 DEF Total

(* What one member counts for changes the sum by as much.                  *)
LEMMA TotalChanged ==
  ASSUME NEW S, IsFiniteSet(S), NEW n \in [S -> Nat], NEW m \in [S -> Nat], NEW y \in S,
         \A x \in S : x # y => m[x] = n[x]
  PROVE  /\ Total(m, S) = Total(n, S) + m[y] - n[y]
         /\ Total(n, S) \in Nat /\ Total(m, S) \in Nat
  <1> DEFINE R == S \ {y}
  <1>1. IsFiniteSet(R) /\ y \notin R /\ S = R \cup {y}
    BY FS_RemoveElement
  <1>2. \A x \in R : m[x] = n[x]
    OBVIOUS
  <1> HIDE DEF R
  <1>3. \A x \in R \cup {y} : n[x] \in Nat /\ m[x] \in Nat
    BY <1>1
  <1>4. IsFiniteSet(R) /\ y \notin R
    BY <1>1
  <1>5. Total(n, R \cup {y}) = Total(n, R) + n[y]
    BY <1>3, <1>4, TotalAdd, Zenon
  <1>6. Total(m, R \cup {y}) = Total(m, R) + m[y]
    BY <1>3, <1>4, TotalAdd, Zenon
  <1>7. Total(m, R) = Total(n, R)
    BY <1>2, TotalSame
  <1>8. Total(n, R) \in Nat
    BY <1>1, <1>3, UnitsFinite
  <1>9. QED
    BY <1>1, <1>3, <1>5, <1>6, <1>7, <1>8

-----------------------------------------------------------------------------
(* What the steps of a racer write.                                        *)

Measuring == {"warm", "timed", "setup", "loop", "bulk", "writers", "close", "clean", "measured"}

(* A step of p leaves the other racers alone, and what they have open.    *)
LeavesOthers(p) ==
  \A q \in Racer \ {p} :
    /\ run'[q] = run[q] /\ opened'[q] = opened[q]
    /\ opened[q] # NoFile => db'[opened[q]] = db[opened[q]] /\ opened'[p] # opened[q]
    /\ q \in disturbed => q \in disturbed'
    /\ Undisturbed(q) /\ q \notin disturbed' =>
         db'[Postgres][TableOf(q)] = db[Postgres][TableOf(q)]

(* What is stored keeps its type, and p stays disturbed if it was.         *)
StoresKept(p) ==
  /\ db' \in [{Postgres} \cup File -> Tables] /\ wal' \in File \cup {NoFile}
  /\ disturbed' \subseteq Racer /\ (p \in disturbed => p \in disturbed')

(* Only the pc and the loop counter of a run change.                       *)
Moves(p, pc, left) ==
  /\ run'[p].pc = pc /\ run'[p].left = left
  /\ run'[p].sc = run[p].sc /\ run'[p].v = run[p].v /\ run'[p].res = run[p].res

(* A racer that rests is in a legal state.                                 *)
LEMMA IdleType == Idle \in RunState /\ Resting \in [Writer -> WriterState]
                  /\ Unmeasured \in Measurement
  <1>1. Resting \in [Writer -> WriterState]
    BY EngineRaceAssumption DEF Resting, WriterState
  <1>2. Unmeasured \in Measurement
    BY DEF Unmeasured, Measurement
  <1>3. <<>> \in Seq(Measurement)
    OBVIOUS
  <1>4. QED
    BY <1>1, <1>2, <1>3 DEF Idle, RunState

(* So is a table that is gone, empty or filled.                            *)
LEMMA GoneType == Gone \in TableState /\ Empty \in TableState /\ NoTables \in Tables
                  /\ Filled \in TableState
  <1>1. Gone \in TableState
    BY EngineRaceAssumption DEF Gone, TableState
  <1>2. Empty \in TableState
    BY <1>1 DEF Empty, TableState
  <1>3. 0..HotRows \in SUBSET Nat
    BY EngineRaceAssumption
  <1>4. Filled \in TableState
    BY <1>2, <1>3 DEF Filled, TableState
  <1>5. QED
    BY <1>1, <1>2, <1>4 DEF NoTables, Tables

(* A step writes the state of one racer.                                   *)
LEMMA RunUpdate ==
  ASSUME RaceTypeOK, NEW p \in Racer, NEW t \in RunState, run' = [run EXCEPT ![p] = t]
  PROVE  /\ run' \in [Racer -> RunState] /\ run'[p] = t
         /\ \A q \in Racer \ {p} : run'[q] = run[q]
  BY DEF RaceTypeOK

(* A variant that returns keeps its question, its place and its results;   *)
(* everything else starts again.                                           *)
LEMMA Returned ==
  ASSUME RaceTypeOK, NEW p \in Racer, NEW m \in Measurement, Returns(p, m)
  PROVE  /\ run' \in [Racer -> RunState] /\ \A q \in Racer \ {p} : run'[q] = run[q]
         /\ Moves(p, After(p), 0) /\ run'[p].m = m
         /\ ~run'[p].tx /\ run'[p].mine = 0 /\ run'[p].ok = 0 /\ run'[p].failed = 0
         /\ ~run'[p].fatal
  <1> DEFINE t == [Idle EXCEPT !.pc = After(p), !.m = m, !.sc = run[p].sc,
                               !.v = run[p].v, !.res = run[p].res]
  <1>1. run[p] \in RunState /\ Idle \in RunState
    BY IdleType DEF RaceTypeOK
  <1>2. After(p) \in {"measured", "close"}
    BY DEF After
  <1>3. t \in RunState
    BY <1>1, <1>2 DEF RunState
  <1>4. run' = [run EXCEPT ![p] = t]
    BY DEF Returns
  <1>5. /\ t.pc = After(p) /\ t.m = m /\ t.sc = run[p].sc /\ t.v = run[p].v /\ t.res = run[p].res
        /\ t.left = 0 /\ t.tx = FALSE /\ t.mine = 0 /\ t.ok = 0 /\ t.failed = 0 /\ t.fatal = FALSE
    BY DEF Idle
  <1> HIDE DEF t
  <1>6. QED
    BY <1>3, <1>4, <1>5, RunUpdate DEF Moves

(* A step that only goes elsewhere keeps the rest of the run.              *)
LEMMA GotoFact ==
  ASSUME RaceTypeOK, NEW p \in Racer,
         NEW pc \in {"variant", "done", "failed", "panic", "clean", "measured"}, Goto(p, pc)
  PROVE  /\ run' \in [Racer -> RunState] /\ \A q \in Racer \ {p} : run'[q] = run[q]
         /\ run'[p] = [run[p] EXCEPT !.pc = pc]
         /\ Moves(p, pc, run[p].left)
         /\ run'[p].m = run[p].m /\ run'[p].tx = run[p].tx /\ run'[p].mine = run[p].mine
         /\ run'[p].ok = run[p].ok /\ run'[p].failed = run[p].failed /\ run'[p].fatal = run[p].fatal
  <1> DEFINE t == [run[p] EXCEPT !.pc = pc]
  <1>1. run[p] \in RunState
    BY DEF RaceTypeOK
  <1>2. t \in RunState
    BY <1>1 DEF RunState
  <1>3. run' = [run EXCEPT ![p] = t]
    BY DEF Goto
  <1>4. /\ t.pc = pc /\ t.m = run[p].m /\ t.sc = run[p].sc /\ t.v = run[p].v
        /\ t.res = run[p].res /\ t.left = run[p].left /\ t.tx = run[p].tx /\ t.mine = run[p].mine
        /\ t.ok = run[p].ok /\ t.failed = run[p].failed /\ t.fatal = run[p].fatal
    BY <1>1 DEF RunState
  <1>5. run'[p] = t /\ run' \in [Racer -> RunState] /\ \A q \in Racer \ {p} : run'[q] = run[q]
    BY <1>2, <1>3, RunUpdate
  <1>6. QED
    BY <1>4, <1>5 DEF Moves

(* The variant at hand, its table and its setup depend on sc and v.        *)
LEMMA SameVariant ==
  ASSUME NEW p, run'[p].sc = run[p].sc, run'[p].v = run[p].v
  PROVE  /\ Variants(p)' = Variants(p) /\ Variant(p)' = Variant(p) /\ TableOf(p)' = TableOf(p)
         /\ Setup(p)' = Setup(p)
         /\ opened'[p] = opened[p] => Store(p)' = Store(p)
  BY DEF Variants, Variant, TableOf, Setup, Store

(* While a racer measures, its variant is one of its question's.           *)
LEMMA VariantFact ==
  ASSUME RaceTypeOK, NEW p \in Racer, InOrder(p), run[p].pc \in Measuring
  PROVE  Variant(p) \in VariantRecord /\ Variants(p) \in Seq(VariantRecord)
  <1>1. run[p].sc \in DOMAIN scenarios /\ run[p].v \in Nat \ {0} /\ run[p].v <= Len(Variants(p))
    BY DEF InOrder, Measuring, RaceTypeOK, RunState
  <1>2. Variants(p) \in Seq(VariantRecord)
    BY <1>1, ScenarioFact DEF Variants
  <1>3. QED
    BY <1>1, <1>2 DEF Variant

(* A racer stays in order while it measures a variant.                     *)
LEMMA InOrderKept ==
  ASSUME NEW p, InOrder(p), run[p].pc \in Measuring, NEW pc \in Measuring, NEW left,
         Moves(p, pc, left)
  PROVE  InOrder(p)'
  BY SameVariant DEF InOrder, Moves, Measuring, At

(* A racer that nobody touches keeps its invariant.                        *)
LEMMA RacerUntouched ==
  ASSUME RaceTypeOK, NEW p \in Racer, NEW q \in Racer \ {p}, RacerInv(q), LeavesOthers(p)
  PROVE  RacerInv(q)'
  <1>1. /\ run'[q] = run[q] /\ opened'[q] = opened[q]
        /\ opened[q] # NoFile => db'[opened[q]] = db[opened[q]] /\ opened'[p] # opened[q]
        /\ \A x \in Racer \ {p} : opened'[x] = opened[x]
        /\ q \in disturbed => q \in disturbed'
        /\ Undisturbed(q) /\ q \notin disturbed' =>
             db'[Postgres][TableOf(q)] = db[Postgres][TableOf(q)]
    BY DEF LeavesOthers
  <1>2. /\ Variants(q)' = Variants(q) /\ Variant(q)' = Variant(q) /\ TableOf(q)' = TableOf(q)
        /\ Setup(q)' = Setup(q) /\ Store(q)' = Store(q)
    BY <1>1, SameVariant
  <1>3. InOrder(q)' /\ DoesItsVariant(q)' /\ Rested(q)'
    BY <1>1, <1>2 DEF RacerInv, InOrder, DoesItsVariant, Rested, At
  <1>4. NeedsFile(q)' = NeedsFile(q)
    BY <1>1, <1>2 DEF NeedsFile, At
  <1>5. HasItsFile(q)'
    BY <1>1, <1>4 DEF RacerInv, HasItsFile
  <1>6. UpdatesAddUp(q)' /\ MeasuresRight(q)'
    BY <1>1, <1>2 DEF RacerInv, UpdatesAddUp, ToDo, MeasuresRight, At
  <1>7. TableFollows(q)'
    <2>1. ASSUME Followed(q)' PROVE Followed(q) /\ Table(q)' = Table(q) /\ Done(q)' = Done(q)
      <3>1. CASE opened[q] # NoFile
        <4>1. Variant(q).engine = "duckdb"
          BY <3>1 DEF RacerInv, HasItsFile, NeedsFile, DoesItsVariant, At
        <4>2. Table(q)' = Table(q)
          BY <1>1, <1>2, <3>1, <4>1 DEF Table, Store
        <4>3. QED
          BY <1>2, <3>1, <4>2 DEF Followed, Done
      <3>2. CASE opened[q] = NoFile
        <4>1. Undisturbed(q)'
          BY <1>1, <2>1, <3>2 DEF Followed
        <4>2. Undisturbed(q) /\ q \notin disturbed' /\ Variant(q).engine = "postgres"
          BY <1>1, <1>2, <4>1 DEF Undisturbed, HasTable
        <4>3. Table(q)' = Table(q)
          BY <1>1, <1>2, <4>2 DEF Table, Store
        <4>4. QED
          BY <1>2, <4>2, <4>3 DEF Followed, Done
      <3>3. QED
        BY <3>1, <3>2
    <2>2. CASE ~Followed(q)'
      BY <2>2 DEF TableFollows
    <2>3. CASE Followed(q)'
      BY <1>1, <1>2, <2>1, <2>3 DEF RacerInv, TableFollows, At
    <2>4. QED
      BY <2>2, <2>3
  <1>8. QED
    BY <1>3, <1>5, <1>6, <1>7 DEF RacerInv

(* What p has followed so far it follows on, or it has just begun to.      *)
LEMMA FollowedBefore ==
  ASSUME NEW p, HasTable(p), opened'[p] = opened[p],
         run'[p].sc = run[p].sc, run'[p].v = run[p].v,
         p \in disturbed => p \in disturbed', Followed(p)'
  PROVE  Followed(p)
  BY SameVariant DEF Followed, Undisturbed

(* A statement writes one table of the store of its racer.                 *)
LEMMA HoldsFact ==
  ASSUME RaceTypeOK, NEW p \in Racer, HasItsFile(p), Store(p) # NoFile, NEW t \in TableState,
         Holds(p, t), UNCHANGED opened, \A q \in Racer \ {p} : run'[q] = run[q]
  PROVE  /\ StoresKept(p) /\ LeavesOthers(p)
         /\ db'[Store(p)][TableOf(p)] = t
  <1>1. /\ opened[p] \in File \cup {NoFile} /\ Store(p) \in {Postgres} \cup File
        /\ \A q \in Racer : opened[q] # NoFile => opened[q] # Postgres
    BY DEF RaceTypeOK, Store, File, Postgres, NoFile
  <1>2. TableOf(p) \in {"events", "stock", "bulk"}
    BY DEF TableOf
  <1>3. db[Store(p)] \in Tables
    BY <1>1 DEF RaceTypeOK
  <1> DEFINE ts == [db[Store(p)] EXCEPT ![TableOf(p)] = t]
  <1>4. /\ ts \in Tables /\ ts[TableOf(p)] = t
        /\ \A n \in {"events", "stock", "bulk"} : n # TableOf(p) => ts[n] = db[Store(p)][n]
    BY <1>2, <1>3 DEF Tables
  <1>5. db' = [db EXCEPT ![Store(p)] = ts]
    BY DEF Holds
  <1> HIDE DEF ts
  <1>6. /\ db' \in [{Postgres} \cup File -> Tables] /\ db'[Store(p)] = ts
        /\ \A s \in {Postgres} \cup File : s # Store(p) => db'[s] = db[s]
    BY <1>1, <1>4, <1>5 DEF RaceTypeOK
  <1>7. StoresKept(p)
    <2>1. disturbed' \subseteq Racer /\ (p \in disturbed => p \in disturbed')
      BY DEF RaceTypeOK, Holds, Sharing
    <2>2. wal' \in File \cup {NoFile}
      BY <1>1 DEF RaceTypeOK, Holds
    <2>3. QED
      BY <1>6, <2>1, <2>2 DEF StoresKept
  <1>8. ASSUME NEW q \in Racer \ {p}, opened[q] # NoFile
        PROVE  db'[opened[q]] = db[opened[q]] /\ opened'[p] # opened[q]
    <2>1. opened[q] # Store(p) /\ opened[q] # opened[p]
      BY <1>1, <1>8 DEF Store, HasItsFile
    <2>2. opened[q] \in File
      BY <1>8 DEF RaceTypeOK
    <2>3. QED
      BY <1>6, <2>1, <2>2
  <1>9. ASSUME NEW q \in Racer \ {p}, Undisturbed(q), q \notin disturbed'
        PROVE  db'[Postgres][TableOf(q)] = db[Postgres][TableOf(q)]
    <2>1. HasTable(q) /\ Store(q) = Postgres
      BY <1>9 DEF Undisturbed, Store
    <2>2. TableOf(q) \in {"events", "stock", "bulk"}
      BY DEF TableOf
    <2>3. CASE Store(p) # Postgres
      BY <1>6, <2>3
    <2>4. CASE Store(p) = Postgres /\ TableOf(q) # TableOf(p)
      BY <1>4, <1>6, <2>2, <2>4
    <2>5. CASE Store(p) = Postgres /\ TableOf(q) = TableOf(p)
      <3>1. q \in Sharing(p)
        BY <2>1, <2>5 DEF Sharing
      <3>2. t = Table(p)
        BY <1>9, <3>1 DEF Holds
      <3>3. QED
        BY <1>4, <1>6, <2>5, <3>2 DEF Table
    <2>6. QED
      BY <2>3, <2>4, <2>5
  <1>10. \A q \in Racer : q \in disturbed => q \in disturbed'
    BY DEF Holds
  <1>11. LeavesOthers(p)
    BY <1>8, <1>9, <1>10 DEF LeavesOthers
  <1>12. QED
    BY <1>4, <1>6, <1>7, <1>11

(* Only files that nobody can reach any more disappear.                    *)
LEMMA FilesFact ==
  ASSUME NEW d \in [{Postgres} \cup File -> Tables], Files(d)
  PROVE  /\ db' \in [{Postgres} \cup File -> Tables]
         /\ \A s \in {Postgres} \cup File :
              s = Postgres \/ (\E q \in Racer : opened'[q] = s) => db'[s] = d[s]
  BY GoneType DEF Files, Reachable

(* What p does to the files is no concern of the tables of Postgres, nor   *)
(* of a file somebody else has open.                                       *)
LEMMA FilesLeaveOthers ==
  ASSUME RaceTypeOK, NEW p \in Racer, \A q \in Racer \ {p} : run'[q] = run[q] /\ opened'[q] = opened[q],
         NEW d \in [{Postgres} \cup File -> Tables], Files(d), wal' \in File \cup {NoFile},
         UNCHANGED disturbed, d[Postgres] = db[Postgres],
         \A q \in Racer \ {p} : opened[q] # NoFile => d[opened[q]] = db[opened[q]] /\ opened'[p] # opened[q]
  PROVE  StoresKept(p) /\ LeavesOthers(p) /\ db'[Postgres] = db[Postgres]
  <1>1. /\ db' \in [{Postgres} \cup File -> Tables]
        /\ \A s \in {Postgres} \cup File :
             s = Postgres \/ (\E q \in Racer : opened'[q] = s) => db'[s] = d[s]
    BY FilesFact
  <1>2. StoresKept(p)
    BY <1>1 DEF StoresKept, RaceTypeOK
  <1>3. ASSUME NEW q \in Racer \ {p}, opened[q] # NoFile
        PROVE  db'[opened[q]] = db[opened[q]] /\ opened'[p] # opened[q]
    BY <1>1, <1>3 DEF RaceTypeOK
  <1>4. db'[Postgres] = db[Postgres]
    BY <1>1
  <1>5. LeavesOthers(p)
    BY <1>3, <1>4 DEF LeavesOthers
  <1>6. QED
    BY <1>2, <1>4, <1>5

(* There is always a file that nobody has open and no log is of.           *)
LEMMA FreshFile ==
  ASSUME RaceTypeOK
  PROVE  \E f \in File : f \notin {opened[q] : q \in Racer} \cup {wal}
  <1> DEFINE T == {opened[q] : q \in Racer}
             U == T \cup {wal}
             n == Cardinality(Racer)
  <1>1. IsFiniteSet(Racer) /\ n \in Nat
    BY EngineRaceAssumption, FS_CardinalityType
  <1>2. opened \in Surjection(Racer, T)
    BY DEF Surjection, RaceTypeOK
  <1>3. IsFiniteSet(T) /\ Cardinality(T) <= n /\ Cardinality(T) \in Nat
    BY <1>1, <1>2, FS_Surjection, FS_CardinalityType
  <1> HIDE DEF T
  <1>4. IsFiniteSet(U) /\ Cardinality(U) <= n + 1 /\ Cardinality(U) \in Nat
    <2>1. /\ IsFiniteSet(U)
          /\ Cardinality(U) = IF wal \in T THEN Cardinality(T) ELSE Cardinality(T) + 1
      BY <1>3, FS_AddElement
    <2>2. QED
      BY <1>1, <1>3, <2>1
  <1>5. Cardinality(1 .. (n + 2)) = n + 2
    BY <1>1, FS_Interval
  <1> HIDE DEF U
  <1>6. ASSUME File \subseteq U PROVE FALSE
    <2>1. Cardinality(File) <= Cardinality(U)
      BY <1>4, <1>6, FS_Subset
    <2>2. QED
      BY <1>1, <1>4, <1>5, <2>1 DEF File
  <1>7. QED
    BY <1>6 DEF T, U

-----------------------------------------------------------------------------
(* Each step of a race keeps the types, the invariant of its racer, and    *)
(* leaves the others alone.                                                *)

RaceStepKeeps(p) == RaceTypeOK' /\ RacerInv(p)' /\ LeavesOthers(p)

(* A variant returns: with the measurement it is due, and, where a file is *)
(* open, with a count of what the file holds.                              *)
LEMMA ReturnsKeeps ==
  ASSUME RaceTypeOK, NEW p \in Racer, RacerInv(p), run[p].pc \in Measuring,
         run[p].pc \notin {"close", "clean", "measured"},
         Variant(p).exec # "read" \/ opened[p] = NoFile,
         NEW m \in Measurement, Returns(p, m), Right(Variant(p), m),
         UNCHANGED <<opened, path>>, StoresKept(p), LeavesOthers(p),
         /\ opened[p] # NoFile \/ (Variant(p).engine = "postgres" /\ p \notin disturbed')
         /\ ~m.err /\ Variant(p).exec \notin {"read", "bulk"}
         => LET t == db'[Store(p)][TableOf(p)]
            IN  m.ops = IF Variant(p).exec = "inserts" THEN Cardinality(t.rows) ELSE TakenFrom(t)
  PROVE  RaceStepKeeps(p)
  <1>1. /\ run' \in [Racer -> RunState]
        /\ Moves(p, After(p), 0) /\ run'[p].m = m
        /\ ~run'[p].tx /\ run'[p].mine = 0 /\ run'[p].ok = 0 /\ run'[p].failed = 0
        /\ ~run'[p].fatal
    BY Returned
  <1>2. RaceTypeOK'
    BY <1>1 DEF RaceTypeOK, StoresKept
  <1>3. /\ Variants(p)' = Variants(p) /\ Variant(p)' = Variant(p) /\ TableOf(p)' = TableOf(p)
        /\ Store(p)' = Store(p)
    BY <1>1, SameVariant DEF Moves
  <1>4. After(p) \in {"close", "measured"} /\ (After(p) = "close" <=> opened[p] # NoFile)
    BY DEF After
  <1>5. InOrder(p)'
    BY <1>1, <1>4, InOrderKept DEF RacerInv, Measuring
  <1>6. opened[p] # NoFile => Variant(p).engine = "duckdb"
    BY DEF RacerInv, HasItsFile, NeedsFile, At
  <1>7. DoesItsVariant(p)'
    BY <1>1, <1>3, <1>4, <1>6 DEF DoesItsVariant, Moves, At
  <1>8. Rested(p)'
    BY <1>1 DEF Rested
  <1>9. HasItsFile(p)'
    <2>1. NeedsFile(p)' <=> opened[p] # NoFile
      BY <1>1, <1>4 DEF NeedsFile, Moves, At
    <2>2. \A q \in Racer \ {p} : opened'[q] = opened[q]
      OBVIOUS
    <2>3. QED
      BY <2>1, <2>2 DEF RacerInv, HasItsFile
  <1>10. UpdatesAddUp(p)'
    BY <1>1, <1>4 DEF UpdatesAddUp, Moves, At
  <1>11. MeasuresRight(p)'
    BY <1>1, <1>3 DEF MeasuresRight, Moves, RacerInv
  <1>12. TableFollows(p)'
    <2>1. Table(p)' = db'[Store(p)][TableOf(p)] /\ run'[p].pc \in {"close", "measured"}
      BY <1>1, <1>3, <1>4 DEF Table, Moves
    <2>2. Followed(p)' => opened[p] # NoFile \/ (Variant(p).engine = "postgres" /\ p \notin disturbed')
      BY <1>3 DEF Followed, Undisturbed
    <2>3. Followed(p)' /\ ~run'[p].m.err /\ Variant(p)'.exec \notin {"read", "bulk"} => Done(p)' = run'[p].m.ops
      BY <1>1, <1>3, <2>1, <2>2 DEF Done
    <2>4. QED
      BY <2>1, <2>3 DEF TableFollows, At
  <1>13. QED
    BY <1>2, <1>5, <1>7, <1>8, <1>9, <1>10, <1>11, <1>12 DEF RaceStepKeeps, RacerInv

(* A variant that fails returns with an error, whatever it did.            *)
LEMMA FailsKeeps ==
  ASSUME RaceTypeOK, NEW p \in Racer, RacerInv(p), run[p].pc \in Measuring,
         run[p].pc \notin {"close", "clean", "measured"},
         Fails(p), UNCHANGED <<db, opened, path, wal, disturbed>>
  PROVE  RaceStepKeeps(p)
  <1> DEFINE m == [Unmeasured EXCEPT !.err = TRUE]
  <1>1. m \in Measurement /\ m.err
    BY DEF Unmeasured, Measurement
  <1>2. Returns(p, m)
    BY DEF Fails
  <1> HIDE DEF m
  <1>3. Right(Variant(p), m)
    BY <1>1 DEF Right
  <1>4. \A q \in Racer \ {p} : run'[q] = run[q]
    BY <1>1, <1>2, Returned
  <1>5. LeavesOthers(p)
    BY <1>4 DEF LeavesOthers, RacerInv, HasItsFile
  <1>6. Variant(p).exec # "read" \/ opened[p] = NoFile
    BY DEF RacerInv, HasItsFile, NeedsFile, DoesItsVariant, At
  <1>7. QED
    BY <1>1, <1>2, <1>3, <1>5, <1>6, ReturnsKeeps DEF RaceTypeOK, StoresKept

(* A step from a state without a file to one that needs none.              *)
LEMMA NoFileKeeps ==
  ASSUME RaceTypeOK, NEW p \in Racer, RacerInv(p), opened[p] = NoFile,
         run' \in [Racer -> RunState], \A q \in Racer \ {p} : run'[q] = run[q],
         UNCHANGED <<db, opened, path, wal>>, disturbed' \in {disturbed, disturbed \ {p}},
         run'[p].pc \notin {"loop", "bulk", "writers", "close", "measured"},
         run'[p].pc = "setup" => run'[p].left = 1,
         ~run'[p].tx, run'[p].mine = 0, run'[p].ok = 0, run'[p].failed = 0, ~run'[p].fatal,
         InOrder(p)', DoesItsVariant(p)', MeasuresRight(p)'
  PROVE  RaceStepKeeps(p)
  <1>1. RaceTypeOK'
    BY DEF RaceTypeOK
  <1>2. LeavesOthers(p)
    BY DEF LeavesOthers
  <1>3. ~NeedsFile(p)'
    BY DEF NeedsFile, At
  <1>4. HasItsFile(p)'
    BY <1>3 DEF HasItsFile
  <1>5. UpdatesAddUp(p)' /\ Rested(p)' /\ TableFollows(p)'
    BY DEF UpdatesAddUp, Rested, TableFollows, Followed, Undisturbed, HasTable, At
  <1>6. QED
    BY <1>1, <1>2, <1>4, <1>5 DEF RaceStepKeeps, RacerInv

(* The arguments are chosen: a question without an id to draw ends at once.*)
LEMMA ChooseArgsKeeps ==
  ASSUME RaceTypeOK, NEW p \in Racer, RacerInv(p), ChooseArgs(p)
  PROVE  RaceStepKeeps(p)
  <1>1. run[p].pc = "args" /\ UNCHANGED <<db, opened, path, wal, disturbed>>
    BY DEF ChooseArgs, At
  <1>2. PICK pc \in {"variant", "panic", "failed"} : Goto(p, pc)
    BY DEF ChooseArgs
  <1>3. /\ run' \in [Racer -> RunState] /\ \A q \in Racer \ {p} : run'[q] = run[q]
        /\ Moves(p, pc, run[p].left)
        /\ run'[p].m = run[p].m /\ run'[p].tx = run[p].tx /\ run'[p].mine = run[p].mine
        /\ run'[p].ok = run[p].ok /\ run'[p].failed = run[p].failed /\ run'[p].fatal = run[p].fatal
    BY <1>2, GotoFact
  <1>4. Variants(p)' = Variants(p) /\ run[p].v = 1 /\ run[p].res \in Seq(Measurement)
    BY <1>1, <1>3, SameVariant DEF Moves, RacerInv, InOrder, At, RaceTypeOK, RunState
  <1>5. run[p].res = <<>>
    <2>1. Len(run[p].res) = 0
      BY <1>1, <1>4 DEF RacerInv, InOrder, At
    <2>2. QED
      BY <1>4, <2>1
  <1>6. run[p].sc \in DOMAIN scenarios /\ run[p].v <= Len(Variants(p)) + 1
    BY <1>1 DEF RacerInv, InOrder
  <1>7. InOrder(p)'
    BY <1>3, <1>4, <1>5, <1>6 DEF InOrder, Moves, At
  <1>8. DoesItsVariant(p)'
    BY <1>3 DEF DoesItsVariant, Moves, At
  <1>9. MeasuresRight(p)'
    BY <1>3, <1>5 DEF MeasuresRight, Moves
  <1>10. opened[p] = NoFile
    BY <1>1 DEF RacerInv, HasItsFile, NeedsFile, At
  <1>11. QED
    BY <1>1, <1>3, <1>7, <1>8, <1>9, <1>10, NoFileKeeps DEF RacerInv, Rested, Moves

(* The next variant begins, or there is none: one measurement for each.    *)
LEMMA NextVariantKeeps ==
  ASSUME RaceTypeOK, NEW p \in Racer, RacerInv(p), NextVariant(p)
  PROVE  RaceStepKeeps(p)
  <1>1. run[p].pc = "variant" /\ UNCHANGED <<db, opened, path, wal, disturbed>> /\ run[p] \in RunState
    BY DEF NextVariant, At, RaceTypeOK
  <1>2. /\ run[p].sc \in DOMAIN scenarios /\ run[p].v <= Len(Variants(p)) + 1
        /\ Len(run[p].res) = run[p].v - 1
    BY <1>1 DEF RacerInv, InOrder, At
  <1>3. /\ ~run[p].tx /\ run[p].mine = 0 /\ run[p].ok = 0 /\ run[p].failed = 0 /\ ~run[p].fatal
        /\ opened[p] = NoFile
        /\ \A i \in DOMAIN run[p].res : Right(Variants(p)[i], run[p].res[i])
    BY <1>1 DEF RacerInv, Rested, HasItsFile, NeedsFile, At, MeasuresRight
  <1>4. Len(Variants(p)) \in Nat
    BY <1>2, ScenarioFact DEF Variants
  <1>5. CASE run[p].v > Len(Variants(p))
    <2>1. Goto(p, "done")
      BY <1>5 DEF NextVariant
    <2>2. /\ run' \in [Racer -> RunState] /\ \A q \in Racer \ {p} : run'[q] = run[q]
          /\ Moves(p, "done", run[p].left)
          /\ run'[p].tx = run[p].tx /\ run'[p].mine = run[p].mine
          /\ run'[p].ok = run[p].ok /\ run'[p].failed = run[p].failed
          /\ run'[p].fatal = run[p].fatal
      BY <2>1, GotoFact
    <2>3. Variants(p)' = Variants(p) /\ run[p].v = Len(Variants(p)) + 1
      BY <1>1, <1>2, <1>4, <1>5, <2>2, SameVariant DEF Moves, RunState
    <2>4. InOrder(p)'
      BY <1>2, <2>2, <2>3 DEF InOrder, Moves, At
    <2>5. DoesItsVariant(p)' /\ MeasuresRight(p)'
      BY <1>3, <2>2, <2>3 DEF DoesItsVariant, MeasuresRight, Moves, At
    <2>6. QED
      BY <1>1, <1>3, <2>2, <2>4, <2>5, NoFileKeeps DEF Moves
  <1>6. CASE ~(run[p].v > Len(Variants(p)))
    <2> DEFINE pc == IF Variant(p).exec = "read" THEN "warm" ELSE "setup"
               t == [run[p] EXCEPT !.pc = pc, !.left = 1, !.m = Unmeasured]
    <2>1. run' = [run EXCEPT ![p] = t]
      BY <1>6 DEF NextVariant
    <2>2. pc \in {"warm", "setup"}
      OBVIOUS
    <2> HIDE DEF pc
    <2>3. t \in RunState
      BY <1>1, <2>2, IdleType DEF RunState
    <2>4. /\ t.pc = pc /\ t.left = 1 /\ t.sc = run[p].sc /\ t.v = run[p].v /\ t.res = run[p].res
          /\ t.tx = run[p].tx /\ t.mine = run[p].mine
          /\ t.ok = run[p].ok /\ t.failed = run[p].failed /\ t.fatal = run[p].fatal
      BY <1>1 DEF RunState
    <2> HIDE DEF t
    <2>5. /\ run' \in [Racer -> RunState] /\ run'[p] = t
          /\ \A q \in Racer \ {p} : run'[q] = run[q]
      BY <2>1, <2>3, RunUpdate
    <2>6. /\ Variants(p)' = Variants(p) /\ Variant(p)' = Variant(p)
          /\ Setup(p)' = Setup(p) /\ run[p].v <= Len(Variants(p))
      <3>1. Variants(p)' = Variants(p) /\ Variant(p)' = Variant(p) /\ Setup(p)' = Setup(p)
        BY <2>4, <2>5, SameVariant
      <3>2. run[p].v \in Nat
        BY <1>1 DEF RunState
      <3>3. QED
        BY <1>4, <1>6, <3>1, <3>2
    <2>7. InOrder(p)'
      BY <1>2, <2>2, <2>4, <2>5, <2>6 DEF InOrder, At
    <2>8. Len(Setup(p)) \in {3, 5}
      BY SetupFact
    <2>9. 1 \in 1..Len(Setup(p))
      BY <2>8
    <2>10. DoesItsVariant(p)'
      BY <2>2, <2>4, <2>5, <2>6, <2>9 DEF DoesItsVariant, At, pc
    <2>11. MeasuresRight(p)'
      BY <1>3, <2>2, <2>4, <2>5, <2>6 DEF MeasuresRight
    <2>12. QED
      BY <1>1, <1>3, <2>2, <2>4, <2>5, <2>7, <2>10, <2>11, NoFileKeeps
  <1>7. QED
    BY <1>5, <1>6

(* A measurement is appended, or the run is cut off and keeps none.        *)
LEMMA EndVariantKeeps ==
  ASSUME RaceTypeOK, NEW p \in Racer, RacerInv(p), EndVariant(p)
  PROVE  RaceStepKeeps(p)
  <1>1. /\ run[p].pc = "measured" /\ run[p] \in RunState
        /\ UNCHANGED <<db, opened, path, wal>> /\ disturbed' = disturbed \ {p}
    BY DEF EndVariant, At, RaceTypeOK
  <1>2. /\ run[p].sc \in DOMAIN scenarios /\ run[p].v <= Len(Variants(p))
        /\ Len(run[p].res) = run[p].v - 1
    BY <1>1 DEF RacerInv, InOrder, At
  <1>3. /\ ~run[p].tx /\ run[p].mine = 0 /\ run[p].ok = 0 /\ run[p].failed = 0 /\ ~run[p].fatal
        /\ opened[p] = NoFile
        /\ \A i \in DOMAIN run[p].res : Right(Variants(p)[i], run[p].res[i])
        /\ Right(Variant(p), run[p].m)
    BY <1>1 DEF RacerInv, Rested, HasItsFile, NeedsFile, At, MeasuresRight
  <1>4. Len(Variants(p)) \in Nat /\ run[p].v \in Nat \ {0} /\ run[p].res \in Seq(Measurement)
        /\ run[p].m \in Measurement
    BY <1>1, <1>2, ScenarioFact DEF Variants, RunState
  <1>5. CASE run' = [run EXCEPT ![p].pc = "failed", ![p].res = <<>>]
    <2> DEFINE t == [run[p] EXCEPT !.pc = "failed", !.res = <<>>]
    <2>1. <<>> \in Seq(Measurement)
      OBVIOUS
    <2>2. t \in RunState
      BY <1>1, <2>1 DEF RunState
    <2>3. /\ t.pc = "failed" /\ t.sc = run[p].sc /\ t.v = run[p].v /\ t.res = <<>>
          /\ t.tx = run[p].tx /\ t.mine = run[p].mine
          /\ t.ok = run[p].ok /\ t.failed = run[p].failed /\ t.fatal = run[p].fatal
      BY <1>1 DEF RunState
    <2>4. run' = [run EXCEPT ![p] = t]
      BY <1>5
    <2> HIDE DEF t
    <2>5. /\ run' \in [Racer -> RunState] /\ run'[p] = t
          /\ \A q \in Racer \ {p} : run'[q] = run[q]
      BY <2>2, <2>4, RunUpdate
    <2>6. Variants(p)' = Variants(p)
      BY <2>3, <2>5, SameVariant
    <2>7. InOrder(p)'
      BY <1>2, <1>4, <2>3, <2>5, <2>6 DEF InOrder, At
    <2>8. DoesItsVariant(p)' /\ MeasuresRight(p)'
      BY <2>3, <2>5 DEF DoesItsVariant, MeasuresRight, At
    <2>9. QED
      BY <1>1, <1>3, <2>3, <2>5, <2>7, <2>8, NoFileKeeps
  <1>6. CASE run' = [run EXCEPT ![p].pc = "variant", ![p].res = Append(@, run[p].m), ![p].v = @ + 1]
    <2> DEFINE new == Append(run[p].res, run[p].m)
               t == [run[p] EXCEPT !.pc = "variant", !.res = new, !.v = run[p].v + 1]
    <2>1. /\ new \in Seq(Measurement) /\ Len(new) = run[p].v
          /\ \A i \in DOMAIN new : IF i = run[p].v THEN new[i] = run[p].m
                                   ELSE i \in DOMAIN run[p].res /\ new[i] = run[p].res[i]
      BY <1>2, <1>4
    <2>2. run' = [run EXCEPT ![p] = t]
      BY <1>6
    <2> HIDE DEF new
    <2>3. t \in RunState
      <3>1. run[p].v + 1 \in Nat \ {0}
        BY <1>4
      <3>2. QED
        BY <1>1, <2>1, <3>1 DEF RunState
    <2>4. /\ t.pc = "variant" /\ t.sc = run[p].sc /\ t.v = run[p].v + 1 /\ t.res = new
          /\ t.tx = run[p].tx /\ t.mine = run[p].mine
          /\ t.ok = run[p].ok /\ t.failed = run[p].failed /\ t.fatal = run[p].fatal
      BY <1>1 DEF RunState
    <2> HIDE DEF t
    <2>5. /\ run' \in [Racer -> RunState] /\ run'[p] = t
          /\ \A q \in Racer \ {p} : run'[q] = run[q]
      BY <2>2, <2>3, RunUpdate
    <2>6. Variants(p)' = Variants(p)
      BY <2>4, <2>5 DEF Variants
    <2>7. InOrder(p)'
      BY <1>2, <1>4, <2>1, <2>4, <2>5, <2>6 DEF InOrder, At
    <2>8. DoesItsVariant(p)'
      BY <2>4, <2>5 DEF DoesItsVariant, At
    <2>9. MeasuresRight(p)'
      BY <1>3, <2>1, <2>4, <2>5, <2>6 DEF MeasuresRight, Variant
    <2>10. QED
      BY <1>1, <1>3, <2>4, <2>5, <2>7, <2>8, <2>9, NoFileKeeps
  <1>7. QED
    BY <1>5, <1>6 DEF EndVariant

(* The warm-up of a read.                                                  *)
LEMMA WarmUpKeeps ==
  ASSUME RaceTypeOK, NEW p \in Racer, RacerInv(p), WarmUp(p)
  PROVE  RaceStepKeeps(p)
  <1>1. run[p].pc = "warm" /\ UNCHANGED <<db, opened, path, wal, disturbed>> /\ run[p] \in RunState
    BY DEF WarmUp, At, RaceTypeOK
  <1>2. CASE Fails(p)
    BY <1>1, <1>2, FailsKeeps DEF Measuring
  <1>3. ASSUME NEW n \in {1, Reps}, run' = [run EXCEPT ![p].pc = "timed", ![p].left = n]
        PROVE  RaceStepKeeps(p)
    <2> DEFINE t == [run[p] EXCEPT !.pc = "timed", !.left = n]
    <2>1. n \in Nat
      BY EngineRaceAssumption
    <2>2. t \in RunState
      BY <1>1, <2>1 DEF RunState
    <2>3. /\ t.pc = "timed" /\ t.left = n /\ t.sc = run[p].sc /\ t.v = run[p].v
          /\ t.res = run[p].res /\ t.tx = run[p].tx /\ t.mine = run[p].mine
          /\ t.ok = run[p].ok /\ t.failed = run[p].failed /\ t.fatal = run[p].fatal
      BY <1>1 DEF RunState
    <2>4. run' = [run EXCEPT ![p] = t]
      BY <1>3
    <2> HIDE DEF t
    <2>5. /\ run' \in [Racer -> RunState] /\ run'[p] = t
          /\ \A q \in Racer \ {p} : run'[q] = run[q]
      BY <2>2, <2>4, RunUpdate
    <2>6. Moves(p, "timed", n)
      BY <2>3, <2>5 DEF Moves
    <2>7. Variants(p)' = Variants(p) /\ Variant(p)' = Variant(p)
      BY <2>6, SameVariant DEF Moves
    <2>8. InOrder(p)'
      BY <1>1, <2>6, InOrderKept DEF RacerInv, Measuring
    <2>9. DoesItsVariant(p)' /\ MeasuresRight(p)'
      BY <1>1, <2>6, <2>7 DEF Moves, DoesItsVariant, MeasuresRight, At, RacerInv
    <2>10. opened[p] = NoFile /\ Rested(p)
      BY <1>1 DEF RacerInv, HasItsFile, NeedsFile, At
    <2>11. QED
      BY <1>1, <2>3, <2>5, <2>8, <2>9, <2>10, NoFileKeeps DEF Rested
  <1>4. QED
    BY <1>2, <1>3 DEF WarmUp

(* A timed run of a read: no operations are counted.                       *)
LEMMA TimedRunKeeps ==
  ASSUME RaceTypeOK, NEW p \in Racer, RacerInv(p), TimedRun(p)
  PROVE  RaceStepKeeps(p)
  <1>1. run[p].pc = "timed" /\ UNCHANGED <<db, opened, path, wal, disturbed>> /\ run[p] \in RunState
    BY DEF TimedRun, At, RaceTypeOK
  <1>2. opened[p] = NoFile /\ Rested(p) /\ Variant(p).exec = "read"
    BY <1>1 DEF RacerInv, HasItsFile, NeedsFile, DoesItsVariant, At
  <1>3. CASE Fails(p)
    BY <1>1, <1>3, FailsKeeps DEF Measuring
  <1>4. CASE run[p].left > 1 /\ run' = [run EXCEPT ![p].left = @ - 1]
    <2> DEFINE t == [run[p] EXCEPT !.left = run[p].left - 1]
    <2>1. run[p].left - 1 \in Nat
      BY <1>1, <1>4 DEF RunState
    <2>2. t \in RunState
      BY <1>1, <2>1 DEF RunState
    <2>3. /\ t.pc = "timed" /\ t.left = run[p].left - 1 /\ t.sc = run[p].sc /\ t.v = run[p].v
          /\ t.res = run[p].res /\ t.tx = run[p].tx /\ t.mine = run[p].mine
          /\ t.ok = run[p].ok /\ t.failed = run[p].failed /\ t.fatal = run[p].fatal
      BY <1>1 DEF RunState
    <2>4. run' = [run EXCEPT ![p] = t]
      BY <1>4
    <2> HIDE DEF t
    <2>5. /\ run' \in [Racer -> RunState] /\ run'[p] = t
          /\ \A q \in Racer \ {p} : run'[q] = run[q]
      BY <2>2, <2>4, RunUpdate
    <2>6. Moves(p, "timed", run[p].left - 1)
      BY <2>3, <2>5 DEF Moves
    <2>7. Variants(p)' = Variants(p) /\ Variant(p)' = Variant(p)
      BY <2>6, SameVariant DEF Moves
    <2>8. InOrder(p)'
      BY <1>1, <2>6, InOrderKept DEF RacerInv, Measuring
    <2>9. DoesItsVariant(p)' /\ MeasuresRight(p)'
      BY <1>1, <2>6, <2>7 DEF Moves, DoesItsVariant, MeasuresRight, At, RacerInv
    <2>10. QED
      BY <1>1, <1>2, <2>3, <2>5, <2>8, <2>9, NoFileKeeps DEF Rested
  <1>5. CASE Counts(p, 0, 0)
    <2> DEFINE m == [err |-> FALSE, ops |-> 0, errors |-> 0]
    <2>1. m \in Measurement /\ Returns(p, m)
      BY <1>5 DEF Measurement, Counts
    <2> HIDE DEF m
    <2>2. Right(Variant(p), m)
      BY <1>2 DEF Right
    <2>3. LeavesOthers(p)
      BY <1>1, <1>2, <2>1, Returned DEF LeavesOthers
    <2>4. QED
      BY <1>1, <1>2, <2>1, <2>2, <2>3, ReturnsKeeps DEF RaceTypeOK, StoresKept, Measuring
  <1>6. QED
    BY <1>3, <1>4, <1>5 DEF TimedRun

(* Closing the scratch file and removing what has its name: whoever else   *)
(* has opened a file keeps it.                                             *)
LEMMA CloseScratchKeeps ==
  ASSUME RaceTypeOK, NEW p \in Racer, RacerInv(p), CloseScratch(p)
  PROVE  RaceStepKeeps(p)
  <1>1. /\ run[p].pc = "close" /\ Goto(p, "clean") /\ UNCHANGED <<path, disturbed>>
        /\ wal' \in {wal, NoFile} /\ Files(db)
        /\ opened' = [opened EXCEPT ![p] = NoFile]
    BY DEF CloseScratch, Checkpoints, At
  <1>2. /\ run' \in [Racer -> RunState] /\ \A q \in Racer \ {p} : run'[q] = run[q]
        /\ Moves(p, "clean", run[p].left) /\ run'[p].m = run[p].m
        /\ run'[p].tx = run[p].tx /\ run'[p].mine = run[p].mine
        /\ run'[p].ok = run[p].ok /\ run'[p].failed = run[p].failed /\ run'[p].fatal = run[p].fatal
    BY <1>1, GotoFact
  <1>3. /\ opened' \in [Racer -> File \cup {NoFile}] /\ opened'[p] = NoFile
        /\ \A q \in Racer \ {p} : opened'[q] = opened[q]
    BY <1>1 DEF RaceTypeOK
  <1>4. db \in [{Postgres} \cup File -> Tables] /\ wal' \in File \cup {NoFile}
    BY <1>1 DEF RaceTypeOK
  <1>5. StoresKept(p) /\ LeavesOthers(p)
    BY <1>1, <1>2, <1>3, <1>4, FilesLeaveOthers
  <1>6. RaceTypeOK'
    BY <1>1, <1>2, <1>3, <1>5 DEF RaceTypeOK, StoresKept
  <1>7. Variants(p)' = Variants(p) /\ Variant(p)' = Variant(p)
    BY <1>2, SameVariant DEF Moves
  <1>8. InOrder(p)'
    BY <1>1, <1>2, InOrderKept DEF RacerInv, Measuring
  <1>9. DoesItsVariant(p)' /\ MeasuresRight(p)' /\ Rested(p)' /\ UpdatesAddUp(p)'
    BY <1>1, <1>2, <1>7
    DEF Moves, DoesItsVariant, MeasuresRight, Rested, UpdatesAddUp, At, RacerInv
  <1>10. HasItsFile(p)' /\ TableFollows(p)'
    BY <1>2, <1>3
    DEF HasItsFile, NeedsFile, TableFollows, Followed, Undisturbed, HasTable, Moves, At
  <1>11. QED
    BY <1>5, <1>6, <1>8, <1>9, <1>10 DEF RaceStepKeeps, RacerInv

(* What has the name of the scratch file is removed.                       *)
LEMMA RemoveScratchKeeps ==
  ASSUME RaceTypeOK, NEW p \in Racer, RacerInv(p), RemoveScratch(p)
  PROVE  RaceStepKeeps(p)
  <1>1. /\ run[p].pc = "clean" /\ Goto(p, "measured") /\ path' = NoFile /\ wal' = NoFile
        /\ UNCHANGED <<opened, disturbed>> /\ Files(db)
    BY DEF RemoveScratch, CleanScratch, At
  <1>2. /\ run' \in [Racer -> RunState] /\ \A q \in Racer \ {p} : run'[q] = run[q]
        /\ Moves(p, "measured", run[p].left) /\ run'[p].m = run[p].m
        /\ run'[p].tx = run[p].tx /\ run'[p].mine = run[p].mine
        /\ run'[p].ok = run[p].ok /\ run'[p].failed = run[p].failed /\ run'[p].fatal = run[p].fatal
    BY <1>1, GotoFact
  <1>3. opened[p] = NoFile /\ Variant(p).engine = "duckdb"
    BY <1>1 DEF RacerInv, HasItsFile, NeedsFile, DoesItsVariant, At
  <1>4. db \in [{Postgres} \cup File -> Tables]
    BY DEF RaceTypeOK
  <1>5. StoresKept(p) /\ LeavesOthers(p)
    BY <1>1, <1>2, <1>3, <1>4, FilesLeaveOthers
  <1>6. RaceTypeOK'
    BY <1>1, <1>2, <1>5 DEF RaceTypeOK, StoresKept
  <1>7. Variants(p)' = Variants(p) /\ Variant(p)' = Variant(p)
    BY <1>2, SameVariant DEF Moves
  <1>8. InOrder(p)'
    BY <1>1, <1>2, InOrderKept DEF RacerInv, Measuring
  <1>9. DoesItsVariant(p)' /\ MeasuresRight(p)' /\ Rested(p)' /\ UpdatesAddUp(p)'
    BY <1>1, <1>2, <1>7
    DEF Moves, DoesItsVariant, MeasuresRight, Rested, UpdatesAddUp, At, RacerInv
  <1>10. HasItsFile(p)' /\ TableFollows(p)'
    BY <1>1, <1>2, <1>3, <1>7
    DEF HasItsFile, NeedsFile, TableFollows, Followed, Undisturbed, Moves, At
  <1>11. QED
    BY <1>5, <1>6, <1>8, <1>9, <1>10 DEF RaceStepKeeps, RacerInv

(* The next step of a setup, or the work it was made for.                  *)
WorkBegins(p) ==
  \/ /\ Variant(p).exec = "concurrent" /\ run'[p].pc = "writers" /\ run'[p].left = 0
     /\ \A w \in Writer : run'[p].writers[w].at = "next" /\ run'[p].writers[w].left = OpsPerWriter
  \/ Variant(p).exec = "bulk" /\ run'[p].pc = "bulk" /\ run'[p].left = 2
  \/ Variant(p).exec \notin {"concurrent", "bulk"} /\ run'[p].pc = "loop" /\ run'[p].left = Statements

(* What a step of a setup writes of its racer.                             *)
LEMMA SetupDoneFact ==
  ASSUME RaceTypeOK, NEW p \in Racer, At(p, "setup"), SetupDone(p)
  PROVE  /\ run' \in [Racer -> RunState] /\ \A q \in Racer \ {p} : run'[q] = run[q]
         /\ run'[p].sc = run[p].sc /\ run'[p].v = run[p].v /\ run'[p].res = run[p].res
         /\ run'[p].tx = run[p].tx /\ run'[p].mine = run[p].mine
         /\ run'[p].ok = run[p].ok /\ run'[p].failed = run[p].failed /\ run'[p].fatal = run[p].fatal
         /\ \/ run[p].left < Len(Setup(p)) /\ run'[p].pc = "setup" /\ run'[p].left = run[p].left + 1
            \/ ~(run[p].left < Len(Setup(p))) /\ WorkBegins(p)
  <1>1. run[p] \in RunState /\ run[p].pc = "setup"
    BY DEF RaceTypeOK, At
  <1>2. CASE run[p].left < Len(Setup(p))
    <2> DEFINE t == [run[p] EXCEPT !.left = run[p].left + 1]
    <2>1. run[p].left + 1 \in Nat
      BY <1>1 DEF RunState
    <2>2. t \in RunState
      BY <1>1, <2>1 DEF RunState
    <2>3. /\ t.pc = "setup" /\ t.left = run[p].left + 1 /\ t.sc = run[p].sc /\ t.v = run[p].v
          /\ t.res = run[p].res /\ t.tx = run[p].tx /\ t.mine = run[p].mine
          /\ t.ok = run[p].ok /\ t.failed = run[p].failed /\ t.fatal = run[p].fatal
      BY <1>1 DEF RunState
    <2>4. run' = [run EXCEPT ![p] = t]
      BY <1>2 DEF SetupDone
    <2> HIDE DEF t
    <2>5. QED
      BY <1>2, <2>2, <2>3, <2>4, RunUpdate
  <1>3. CASE ~(run[p].left < Len(Setup(p))) /\ Variant(p).exec = "concurrent"
    <2> DEFINE ws == [w \in Writer |-> [Resting[w] EXCEPT !.left = OpsPerWriter]]
               t == [run[p] EXCEPT !.pc = "writers", !.left = 0, !.writers = ws]
    <2>1. run' = [run EXCEPT ![p] = t]
      BY <1>3 DEF SetupDone, StartWork
    <2>2. /\ ws \in [Writer -> WriterState]
          /\ \A w \in Writer : ws[w].at = "next" /\ ws[w].left = OpsPerWriter
      BY EngineRaceAssumption DEF Resting, WriterState
    <2> HIDE DEF ws
    <2>3. t \in RunState
      BY <1>1, <2>2 DEF RunState
    <2>4. /\ t.pc = "writers" /\ t.left = 0 /\ t.writers = ws /\ t.sc = run[p].sc /\ t.v = run[p].v
          /\ t.res = run[p].res /\ t.tx = run[p].tx /\ t.mine = run[p].mine
          /\ t.ok = run[p].ok /\ t.failed = run[p].failed /\ t.fatal = run[p].fatal
      BY <1>1 DEF RunState
    <2> HIDE DEF t
    <2>5. QED
      BY <1>3, <2>1, <2>2, <2>3, <2>4, RunUpdate DEF WorkBegins
  <1>4. ASSUME NEW pc \in {"bulk", "loop"}, NEW left \in Nat,
               run' = [run EXCEPT ![p].pc = pc, ![p].left = left]
        PROVE  /\ run' \in [Racer -> RunState] /\ \A q \in Racer \ {p} : run'[q] = run[q]
               /\ run'[p].sc = run[p].sc /\ run'[p].v = run[p].v /\ run'[p].res = run[p].res
               /\ run'[p].tx = run[p].tx /\ run'[p].mine = run[p].mine
               /\ run'[p].ok = run[p].ok /\ run'[p].failed = run[p].failed
               /\ run'[p].fatal = run[p].fatal
               /\ run'[p].pc = pc /\ run'[p].left = left
    <2> DEFINE t == [run[p] EXCEPT !.pc = pc, !.left = left]
    <2>1. run' = [run EXCEPT ![p] = t]
      BY <1>4
    <2>2. t \in RunState
      BY <1>1 DEF RunState
    <2>3. /\ t.pc = pc /\ t.left = left /\ t.sc = run[p].sc /\ t.v = run[p].v
          /\ t.res = run[p].res /\ t.tx = run[p].tx /\ t.mine = run[p].mine
          /\ t.ok = run[p].ok /\ t.failed = run[p].failed /\ t.fatal = run[p].fatal
      BY <1>1 DEF RunState
    <2> HIDE DEF t
    <2>4. QED
      BY <2>1, <2>2, <2>3, RunUpdate
  <1>5. CASE ~(run[p].left < Len(Setup(p))) /\ Variant(p).exec = "bulk"
    <2>1. run' = [run EXCEPT ![p].pc = "bulk", ![p].left = 2]
      BY <1>5 DEF SetupDone, StartWork
    <2>2. QED
      BY <1>4, <1>5, <2>1 DEF WorkBegins
  <1>6. CASE ~(run[p].left < Len(Setup(p))) /\ Variant(p).exec \notin {"concurrent", "bulk"}
    <2>1. run' = [run EXCEPT ![p].pc = "loop", ![p].left = Statements]
      BY <1>6 DEF SetupDone, StartWork
    <2>2. QED
      BY <1>4, <1>6, <2>1, EngineRaceAssumption DEF WorkBegins
  <1>7. QED
    BY <1>2, <1>3, <1>5, <1>6

(* A setup is at one of its steps.                                         *)
LEMMA SetupPlace ==
  ASSUME RaceTypeOK, NEW p \in Racer, RacerInv(p), At(p, "setup")
  PROVE  /\ run[p].left \in Nat /\ Variant(p) \in VariantRecord /\ Variant(p).exec # "read"
         /\ run[p].pc = "setup"
         /\ \/ Len(Setup(p)) = 3 /\ TableOf(p) # "stock"
            \/ Len(Setup(p)) = 5 /\ TableOf(p) = "stock"
         /\ \/ run[p].left = 1
            \/ run[p].left = 2
            \/ run[p].left = 3
            \/ run[p].left = 4 /\ TableOf(p) = "stock"
            \/ run[p].left = 5 /\ TableOf(p) = "stock"
         /\ opened[p] # NoFile <=> run[p].left > 2 /\ Variant(p).engine = "duckdb"
  <1>1. Variant(p) \in VariantRecord /\ run[p].pc = "setup"
    BY VariantFact DEF RacerInv, At, Measuring
  <1>2. Variant(p).exec # "read" /\ run[p].left \in 1..Len(Setup(p))
    BY DEF RacerInv, DoesItsVariant
  <1>3. Len(Setup(p)) = IF TableOf(p) = "stock" THEN 5 ELSE 3
    BY SetupFact
  <1>4. opened[p] # NoFile <=> run[p].left > 2 /\ Variant(p).engine = "duckdb"
    BY <1>1 DEF RacerInv, HasItsFile, NeedsFile, At
  <1>5. QED
    BY <1>1, <1>2, <1>3, <1>4

(* What a step of a setup leaves behind, the tables aside.                 *)
LEMMA SetupKept ==
  ASSUME RaceTypeOK, NEW p \in Racer, RacerInv(p), At(p, "setup"), SetupDone(p)
  PROVE  /\ InOrder(p)' /\ DoesItsVariant(p)' /\ Rested(p)' /\ UpdatesAddUp(p)'
         /\ MeasuresRight(p)'
         /\ NeedsFile(p)' <=> run[p].left # 1 /\ Variant(p).engine = "duckdb"
  <1>1. /\ run' \in [Racer -> RunState]
        /\ run'[p].sc = run[p].sc /\ run'[p].v = run[p].v /\ run'[p].res = run[p].res
        /\ run'[p].tx = run[p].tx /\ run'[p].mine = run[p].mine
        /\ run'[p].ok = run[p].ok /\ run'[p].failed = run[p].failed /\ run'[p].fatal = run[p].fatal
        /\ \/ run[p].left < Len(Setup(p)) /\ run'[p].pc = "setup" /\ run'[p].left = run[p].left + 1
           \/ ~(run[p].left < Len(Setup(p))) /\ WorkBegins(p)
    BY SetupDoneFact
  <1>2. /\ Variants(p)' = Variants(p) /\ Variant(p)' = Variant(p) /\ TableOf(p)' = TableOf(p)
        /\ Setup(p)' = Setup(p)
    BY <1>1, SameVariant
  <1>3. /\ run[p].left \in Nat /\ Variant(p) \in VariantRecord /\ Variant(p).exec # "read"
        /\ run[p].pc = "setup" /\ run[p].left # 0
        /\ Len(Setup(p)) \in Nat /\ Len(Setup(p)) > 2
    <2>1. /\ Variant(p) \in VariantRecord /\ Variant(p).exec # "read" /\ run[p].pc = "setup"
          /\ run[p].left \in Nat /\ (Len(Setup(p)) = 3 \/ Len(Setup(p)) = 5)
          /\ \/ run[p].left = 1 \/ run[p].left = 2 \/ run[p].left = 3 \/ run[p].left = 4
             \/ run[p].left = 5
      BY SetupPlace
    <2>2. run[p].left # 0
      BY <2>1
    <2>3. Len(Setup(p)) \in Nat /\ Len(Setup(p)) > 2
      <3> DEFINE n == Len(Setup(p))
      <3>1. n = 3 \/ n = 5
        BY <2>1
      <3> HIDE DEF n
      <3>2. n \in Nat /\ n > 2
        BY <3>1
      <3>3. QED
        BY <3>2 DEF n
    <2>4. QED
      BY <2>1, <2>2, <2>3
  <1>4. run'[p].pc \in {"setup", "writers", "bulk", "loop"}
    BY <1>1 DEF WorkBegins
  <1>5. InOrder(p)'
    <2>1. Moves(p, run'[p].pc, run'[p].left)
      BY <1>1 DEF Moves
    <2>2. run'[p].pc \in Measuring /\ run[p].pc \in Measuring
      BY <1>3, <1>4 DEF Measuring
    <2>3. QED
      BY <2>1, <2>2, InOrderKept DEF RacerInv
  <1>6. ~run[p].tx /\ run[p].mine = 0 /\ run[p].ok = 0 /\ run[p].failed = 0 /\ ~run[p].fatal
    BY <1>3 DEF RacerInv, Rested
  <1>7. Rested(p)'
    BY <1>1, <1>6 DEF Rested
  <1>8. MeasuresRight(p)'
    BY <1>1, <1>2, <1>4 DEF MeasuresRight, RacerInv
  <1>9. DoesItsVariant(p)'
    <2>1. run'[p].pc = "setup" => run'[p].left \in 1..Len(Setup(p))
      BY <1>1, <1>3 DEF WorkBegins
    <2>2. run'[p].pc = "loop" => Variant(p).exec \in {"inserts", "updates"} /\ run'[p].left <= Statements
      BY <1>1, <1>3, EngineRaceAssumption DEF WorkBegins, VariantRecord, Exec
    <2>3. /\ run'[p].pc = "bulk" => Variant(p).exec = "bulk"
          /\ run'[p].pc = "writers" => Variant(p).exec = "concurrent"
      BY <1>1 DEF WorkBegins
    <2>4. QED
      BY <1>2, <1>3, <1>4, <2>1, <2>2, <2>3 DEF DoesItsVariant, At
  <1>10. NeedsFile(p)' <=> run[p].left # 1 /\ Variant(p).engine = "duckdb"
    <2>1. CASE run[p].left < Len(Setup(p)) /\ run'[p].pc = "setup" /\ run'[p].left = run[p].left + 1
      <3>1. run'[p].left > 2 <=> run[p].left # 1
        BY <1>3, <2>1
      <3>2. QED
        BY <1>2, <2>1, <3>1 DEF NeedsFile, At
    <2>2. CASE ~(run[p].left < Len(Setup(p))) /\ WorkBegins(p)
      <3>1. run[p].left # 1
        BY <1>3, <2>2
      <3>2. run'[p].pc \in {"writers", "bulk", "loop"}
        BY <2>2 DEF WorkBegins
      <3>3. QED
        BY <1>2, <3>1, <3>2 DEF NeedsFile, At
    <2>3. QED
      BY <1>1, <2>1, <2>2
  <1>11. UpdatesAddUp(p)'
    <2>1. CASE run'[p].pc # "writers"
      BY <2>1 DEF UpdatesAddUp, At
    <2>2. CASE run'[p].pc = "writers"
      <3>1. \A w \in Writer : run'[p].writers[w].at = "next" /\ run'[p].writers[w].left = OpsPerWriter
        BY <1>1, <2>2 DEF WorkBegins
      <3> DEFINE n == [w \in Writer |-> run'[p].writers[w].left]
      <3>2. IsFiniteSet(Writer) /\ OpsPerWriter \in Nat /\ \A w \in Writer : n[w] = OpsPerWriter
        BY <3>1, EngineRaceAssumption
      <3>3. ToDo(p)' = Total(n, Writer)
        BY DEF ToDo
      <3> HIDE DEF n
      <3>4. ToDo(p)' = Cardinality(Writer) * OpsPerWriter
        BY <3>2, <3>3, TotalAlike
      <3>5. Cardinality(Writer) \in Nat
        BY <3>2, FS_CardinalityType
      <3>6. Cardinality(Writer) * OpsPerWriter \in Nat
        BY <3>2, <3>5
      <3>7. run'[p].ok + run'[p].failed + ToDo(p)' = Cardinality(Writer) * OpsPerWriter
        BY <1>1, <1>6, <3>4, <3>6
      <3>8. QED
        BY <1>1, <1>6, <3>1, <3>7 DEF UpdatesAddUp
    <2>3. QED
      BY <2>1, <2>2
  <1>12. QED
    BY <1>5, <1>7, <1>8, <1>9, <1>10, <1>11

(* A table just filled was never updated.                                  *)
LEMMA FilledTotal == TakenFrom(Filled) = 0 /\ Filled.rows = 0..HotRows /\ Empty.rows = {}
  <1>1. HotRows \in Nat
    BY EngineRaceAssumption
  <1>2. /\ Filled.taken = [r \in 0..HotRows |-> 0] /\ Filled.rows = 0..HotRows /\ Empty.rows = {}
    BY DEF Filled, Empty, Gone
  <1>3. IsFiniteSet(0..HotRows) /\ Cardinality(0..HotRows) \in Nat
    BY <1>1, FS_Interval, FS_CardinalityType
  <1>4. Total(Filled.taken, 0..HotRows) = Cardinality(0..HotRows) * 0
    <2>1. \A r \in 0..HotRows : Filled.taken[r] = 0
      BY <1>2
    <2>2. QED
      BY <1>3, <2>1, TotalAlike
  <1>5. QED
    BY <1>2, <1>3, <1>4 DEF TakenFrom

(* A setup leads to a table that is as the test expects it.                *)
LEMMA SetupTable ==
  ASSUME RaceTypeOK, NEW p \in Racer, RacerInv(p), At(p, "setup"), SetupDone(p),
         Followed(p)' =>
           /\ run[p].left = 3 => Table(p)' = Empty
           /\ run[p].left = 4 => Table(p)' = Filled
           /\ run[p].left = 5 => Table(p)' = Table(p) /\ Followed(p)
  PROVE  TableFollows(p)'
  <1>1. /\ run'[p].sc = run[p].sc /\ run'[p].v = run[p].v
        /\ run'[p].mine = run[p].mine /\ run'[p].ok = run[p].ok
        /\ \/ run[p].left < Len(Setup(p)) /\ run'[p].pc = "setup" /\ run'[p].left = run[p].left + 1
           \/ ~(run[p].left < Len(Setup(p))) /\ WorkBegins(p)
    BY SetupDoneFact
  <1>2. Variant(p)' = Variant(p)
    BY <1>1, SameVariant
  <1>3. /\ run[p].left \in Nat /\ run[p].pc = "setup" /\ Variant(p) \in VariantRecord
        /\ Variant(p).exec # "read"
        /\ \/ Len(Setup(p)) = 3 /\ TableOf(p) # "stock"
           \/ Len(Setup(p)) = 5 /\ TableOf(p) = "stock"
        /\ \/ run[p].left = 1
           \/ run[p].left = 2
           \/ run[p].left = 3
           \/ run[p].left = 4 /\ TableOf(p) = "stock"
           \/ run[p].left = 5 /\ TableOf(p) = "stock"
    BY SetupPlace
  <1>4. run[p].mine = 0 /\ run[p].ok = 0
    BY <1>3 DEF RacerInv, Rested
  <1>5. CASE ~Followed(p)'
    BY <1>5 DEF TableFollows
  <1>6. CASE Followed(p)' /\ run[p].left < Len(Setup(p))
    <2>1. run'[p].pc = "setup" /\ run'[p].left = run[p].left + 1
      BY <1>1, <1>6
    <2>2. run'[p].left = 4 => Table(p)' = Empty
      BY <1>3, <1>6, <2>1
    <2>3. run'[p].left = 5 => Table(p)' = Filled
      BY <1>3, <1>6, <2>1
    <2>4. QED
      BY <2>1, <2>2, <2>3 DEF TableFollows, At
  <1>7. CASE Followed(p)' /\ run[p].left = 3 /\ Len(Setup(p)) = 3
    <2>1. Variant(p).exec \in {"inserts", "bulk"}
      BY <1>3, <1>7 DEF TableOf, VariantRecord, Exec
    <2>2. CASE Variant(p).exec = "bulk"
      <3>1. run'[p].pc = "bulk"
        BY <1>1, <1>7, <2>2 DEF WorkBegins
      <3>2. QED
        BY <3>1 DEF TableFollows, At
    <2>3. CASE Variant(p).exec = "inserts"
      <3>1. run'[p].pc = "loop" /\ run'[p].left = Statements
        BY <1>1, <1>7, <2>3 DEF WorkBegins
      <3>2. Table(p)'.rows = {}
        BY <1>7, FilledTotal
      <3>3. Statements - Statements = 0 /\ 1..0 = {} /\ 0 - 0 = 0
        BY EngineRaceAssumption
      <3>4. QED
        BY <1>1, <1>2, <1>4, <2>3, <3>1, <3>2, <3>3 DEF TableFollows, At
    <2>4. QED
      BY <2>1, <2>2, <2>3
  <1>8. CASE Followed(p)' /\ run[p].left = 5
    <2>1. Variant(p).exec \in {"updates", "concurrent"}
      BY <1>3, <1>8 DEF TableOf, VariantRecord, Exec
    <2>2. Table(p)' = Filled
      BY <1>3, <1>8 DEF RacerInv, TableFollows, At
    <2>3. Table(p)'.rows = 0..HotRows /\ TakenFrom(Table(p))' = 0
      BY <2>2, FilledTotal DEF TakenFrom
    <2>4. WorkBegins(p)
      <3>1. Len(Setup(p)) = 5
        BY <1>3, <1>8
      <3>2. ~(run[p].left < Len(Setup(p)))
        BY <1>8, <3>1
      <3>3. QED
        BY <1>1, <3>2
    <2>5. Statements - Statements = 0 /\ 0 - 0 = 0
      BY EngineRaceAssumption
    <2>6. CASE Variant(p).exec = "updates"
      <3>1. run'[p].pc = "loop" /\ run'[p].left = Statements
        BY <2>4, <2>6 DEF WorkBegins
      <3>2. QED
        BY <1>1, <1>2, <1>4, <2>3, <2>5, <2>6, <3>1 DEF TableFollows, At
    <2>7. CASE Variant(p).exec = "concurrent"
      <3>1. run'[p].pc = "writers"
        BY <2>4, <2>7 DEF WorkBegins
      <3>2. QED
        BY <1>1, <1>4, <2>3, <3>1 DEF TableFollows, At
    <2>8. QED
      BY <2>1, <2>6, <2>7
  <1>9. \/ run[p].left < Len(Setup(p))
        \/ run[p].left = 3 /\ Len(Setup(p)) = 3
        \/ run[p].left = 5
    <2>1. CASE Len(Setup(p)) = 3 /\ TableOf(p) # "stock"
      BY <1>3, <2>1
    <2>2. CASE Len(Setup(p)) = 5
      BY <1>3, <2>2
    <2>3. QED
      BY <1>3, <2>1, <2>2
  <1>10. QED
    BY <1>5, <1>6, <1>7, <1>8, <1>9

(* The table of a test, where there is one.                                *)
LEMMA TableType ==
  ASSUME RaceTypeOK, NEW p \in Racer, Store(p) # NoFile
  PROVE  Table(p) \in TableState /\ Store(p) \in {Postgres} \cup File
  <1>1. Store(p) \in {Postgres} \cup File
    BY DEF RaceTypeOK, Store
  <1>2. db[Store(p)] \in Tables
    BY <1>1 DEF RaceTypeOK
  <1>3. TableOf(p) \in {"events", "stock", "bulk"}
    BY DEF TableOf
  <1>4. QED
    BY <1>1, <1>2, <1>3 DEF Table, Tables

(* The invariant of the racer, put together after a step of its setup.     *)
LEMMA SetupEnds ==
  ASSUME RaceTypeOK, NEW p \in Racer, RacerInv(p), At(p, "setup"), SetupDone(p),
         StoresKept(p), opened' \in [Racer -> File \cup {NoFile}],
         path' \in File \cup {NoFile}, LeavesOthers(p),
         opened'[p] # NoFile <=> run[p].left # 1 /\ Variant(p).engine = "duckdb",
         \A q \in Racer \ {p} : opened'[p] # NoFile => opened[q] # opened'[p],
         TableFollows(p)'
  PROVE  RaceStepKeeps(p)
  <1>1. run' \in [Racer -> RunState]
    BY SetupDoneFact
  <1>2. RaceTypeOK'
    BY <1>1 DEF RaceTypeOK, StoresKept
  <1>3. /\ InOrder(p)' /\ DoesItsVariant(p)' /\ Rested(p)' /\ UpdatesAddUp(p)'
        /\ MeasuresRight(p)'
        /\ NeedsFile(p)' <=> run[p].left # 1 /\ Variant(p).engine = "duckdb"
    BY SetupKept
  <1>4. \A q \in Racer \ {p} : opened'[q] = opened[q]
    BY DEF LeavesOthers
  <1>5. HasItsFile(p)'
    BY <1>3, <1>4 DEF HasItsFile
  <1>6. QED
    BY <1>2, <1>3, <1>5 DEF RaceStepKeeps, RacerInv

(* A step of a setup that does not touch the names of the scratch file.    *)
LEMMA SetupWrites ==
  ASSUME RaceTypeOK, NEW p \in Racer, RacerInv(p), At(p, "setup"), SetupDone(p),
         UNCHANGED <<opened, path>>, run[p].left = 2 => Variant(p).engine = "postgres",
         StoresKept(p), LeavesOthers(p),
         Followed(p)' =>
           /\ run[p].left = 3 => Table(p)' = Empty
           /\ run[p].left = 4 => Table(p)' = Filled
           /\ run[p].left = 5 => Table(p)' = Table(p)
  PROVE  RaceStepKeeps(p)
  <1>1. run'[p].sc = run[p].sc /\ run'[p].v = run[p].v
    BY SetupDoneFact
  <1>2. opened[p] # NoFile <=> run[p].left > 2 /\ Variant(p).engine = "duckdb"
    BY SetupPlace
  <1>3. \/ run[p].left = 1 \/ run[p].left = 2 \/ run[p].left = 3 \/ run[p].left = 4
        \/ run[p].left = 5
    BY SetupPlace
  <1>4. opened'[p] # NoFile <=> run[p].left # 1 /\ Variant(p).engine = "duckdb"
    BY <1>2, <1>3
  <1>5. \A q \in Racer \ {p} : opened'[p] # NoFile => opened[q] # opened'[p]
    BY DEF RacerInv, HasItsFile
  <1>6. opened' \in [Racer -> File \cup {NoFile}] /\ path' \in File \cup {NoFile}
    BY DEF RaceTypeOK
  <1>7. run[p].left = 5 /\ Followed(p)' => Followed(p)
    BY <1>1, FollowedBefore DEF HasTable, At, StoresKept
  <1>8. TableFollows(p)'
    BY <1>7, SetupTable
  <1>9. QED
    BY <1>4, <1>5, <1>6, <1>8, SetupEnds

(* A step of a setup that writes one table.                                *)
LEMMA SetupHolds ==
  ASSUME RaceTypeOK, NEW p \in Racer, RacerInv(p), At(p, "setup"), SetupDone(p),
         UNCHANGED <<opened, path>>, run[p].left = 2 => Variant(p).engine = "postgres",
         NEW t \in TableState, Store(p) # NoFile, Holds(p, t), run[p].left # 5,
         run[p].left = 3 => t = Empty, run[p].left = 4 /\ Followed(p) => t = Filled
  PROVE  RaceStepKeeps(p)
  <1>1. /\ \A q \in Racer \ {p} : run'[q] = run[q]
        /\ run'[p].sc = run[p].sc /\ run'[p].v = run[p].v
    BY SetupDoneFact
  <1>2. TableOf(p)' = TableOf(p) /\ Store(p)' = Store(p)
    BY <1>1, SameVariant
  <1>3. StoresKept(p) /\ LeavesOthers(p) /\ db'[Store(p)][TableOf(p)] = t
    BY <1>1, HoldsFact DEF RacerInv
  <1>4. Table(p)' = t
    BY <1>2, <1>3 DEF Table
  <1>5. run[p].left = 4 /\ Followed(p)' => Followed(p)
    BY <1>1, <1>3, FollowedBefore DEF HasTable, At, StoresKept
  <1>6. QED
    BY <1>3, <1>4, <1>5, SetupWrites

(* duckSetup begins: what has the names of the scratch file is removed.    *)
LEMMA SetupCleans ==
  ASSUME RaceTypeOK, NEW p \in Racer, RacerInv(p), At(p, "setup"), SetupDone(p),
         run[p].left = 1, CleanScratch
  PROVE  RaceStepKeeps(p)
  <1>1. \A q \in Racer \ {p} : run'[q] = run[q]
    BY SetupDoneFact
  <1>2. opened[p] = NoFile
    BY DEF RacerInv, HasItsFile, NeedsFile, At
  <1>3. /\ path' = NoFile /\ wal' = NoFile /\ UNCHANGED <<opened, disturbed>> /\ Files(db)
        /\ db \in [{Postgres} \cup File -> Tables]
    BY DEF CleanScratch, RaceTypeOK
  <1>4. StoresKept(p) /\ LeavesOthers(p)
    BY <1>1, <1>2, <1>3, FilesLeaveOthers
  <1>5. TableFollows(p)'
    BY SetupTable
  <1>6. opened' \in [Racer -> File \cup {NoFile}] /\ path' \in File \cup {NoFile}
    BY <1>3 DEF RaceTypeOK
  <1>7. QED
    BY <1>2, <1>3, <1>4, <1>5, <1>6, SetupEnds

(* What a scratch file starts from: nobody else has it open, whatever is   *)
(* done with the log that lies beside it.                                  *)
LEMMA OpenFact ==
  ASSUME RaceTypeOK, NEW p \in Racer, OpenScratch(p)
  PROVE  \E f \in File, d \in [{Postgres} \cup File -> Tables] :
           /\ \A q \in Racer : opened[q] # f
           /\ opened' = [opened EXCEPT ![p] = f] /\ path' = f /\ UNCHANGED disturbed
           /\ wal' \in {NoFile, f} /\ Files(d)
           /\ \A s \in {Postgres} \cup File : s # f => d[s] = db[s]
  <1> DEFINE f == IF path # NoFile THEN path
                  ELSE CHOOSE x \in File : x \notin {opened[q] : q \in Racer} \cup {wal}
             d == [db EXCEPT ![f] = db[wal]]
  <1>1. /\ path \notin {opened[q] : q \in Racer} \ {NoFile}
        /\ path' = f /\ opened' = [opened EXCEPT ![p] = f] /\ UNCHANGED disturbed
        /\ \/ wal' = NoFile /\ Files(db)
           \/ wal # NoFile /\ wal' \in {NoFile, f} /\ Files(d)
    BY DEF OpenScratch
  <1>2. f \in File /\ \A q \in Racer : opened[q] # f
    <2>1. CASE path # NoFile
      BY <1>1, <2>1 DEF RaceTypeOK
    <2>2. CASE path = NoFile
      <3>1. f \in File /\ f \notin {opened[q] : q \in Racer} \cup {wal}
        BY <2>2, FreshFile
      <3>2. QED
        BY <3>1
    <2>3. QED
      BY <2>1, <2>2
  <1> HIDE DEF f
  <1>3. db \in [{Postgres} \cup File -> Tables]
    BY DEF RaceTypeOK
  <1>4. ASSUME wal # NoFile
        PROVE  d \in [{Postgres} \cup File -> Tables] /\ \A s \in {Postgres} \cup File : s # f => d[s] = db[s]
    <2>1. db[wal] \in Tables
      BY <1>4 DEF RaceTypeOK
    <2>2. QED
      BY <1>2, <1>3, <2>1
  <1> HIDE DEF d
  <1>5. CASE wal' = NoFile /\ Files(db)
    BY <1>1, <1>2, <1>3, <1>5
  <1>6. CASE wal # NoFile /\ wal' \in {NoFile, f} /\ Files(d)
    BY <1>1, <1>2, <1>4, <1>6
  <1>7. QED
    BY <1>1, <1>5, <1>6

(* The scratch file is opened.                                             *)
LEMMA SetupOpens ==
  ASSUME RaceTypeOK, NEW p \in Racer, RacerInv(p), At(p, "setup"), SetupDone(p),
         run[p].left = 2, Variant(p).engine = "duckdb", OpenScratch(p)
  PROVE  RaceStepKeeps(p)
  <1>1. \A q \in Racer \ {p} : run'[q] = run[q]
    BY SetupDoneFact
  <1>2. PICK f \in File, d \in [{Postgres} \cup File -> Tables] :
          /\ \A q \in Racer : opened[q] # f
          /\ opened' = [opened EXCEPT ![p] = f] /\ path' = f /\ UNCHANGED disturbed
          /\ wal' \in {NoFile, f} /\ Files(d)
          /\ \A s \in {Postgres} \cup File : s # f => d[s] = db[s]
    BY OpenFact
  <1>3. /\ opened' \in [Racer -> File \cup {NoFile}] /\ path' \in File \cup {NoFile}
        /\ opened'[p] = f /\ \A q \in Racer \ {p} : opened'[q] = opened[q]
        /\ wal' \in File \cup {NoFile}
    BY <1>2 DEF RaceTypeOK
  <1>4. f # NoFile /\ f # Postgres
    BY DEF File, NoFile, Postgres
  <1>5. /\ d[Postgres] = db[Postgres]
        /\ \A q \in Racer \ {p} : opened[q] # NoFile => d[opened[q]] = db[opened[q]] /\ opened'[p] # opened[q]
    BY <1>2, <1>3, <1>4 DEF RaceTypeOK
  <1>6. StoresKept(p) /\ LeavesOthers(p)
    BY <1>1, <1>2, <1>3, <1>5, FilesLeaveOthers
  <1>7. TableFollows(p)'
    BY SetupTable
  <1>8. \A q \in Racer \ {p} : opened'[p] # NoFile => opened[q] # opened'[p]
    BY <1>2, <1>3
  <1>9. opened'[p] # NoFile <=> run[p].left # 1 /\ Variant(p).engine = "duckdb"
    BY <1>3, <1>4
  <1>10. QED
    BY <1>3, <1>6, <1>7, <1>8, <1>9, SetupEnds

(* VACUUM ANALYZE, CHECKPOINT: no row changes.                             *)
LEMMA SetupVacuums ==
  ASSUME RaceTypeOK, NEW p \in Racer, RacerInv(p), At(p, "setup"), SetupDone(p),
         run[p].left = 5, UNCHANGED <<opened, path, disturbed>>,
         IF Store(p) = Postgres THEN UNCHANGED <<db, wal>> ELSE Checkpoints
  PROVE  RaceStepKeeps(p)
  <1>1. /\ \A q \in Racer \ {p} : run'[q] = run[q]
        /\ run'[p].sc = run[p].sc /\ run'[p].v = run[p].v
    BY SetupDoneFact
  <1>2. TableOf(p)' = TableOf(p) /\ Store(p)' = Store(p)
    BY <1>1, SameVariant
  <1>3. db \in [{Postgres} \cup File -> Tables]
    BY DEF RaceTypeOK
  <1>4. \A q \in Racer \ {p} : opened[q] # NoFile => opened'[p] # opened[q]
    BY DEF RacerInv, HasItsFile
  <1>5. StoresKept(p) /\ LeavesOthers(p) /\ db'[Store(p)] = db[Store(p)]
    <2>1. CASE Store(p) = Postgres
      BY <1>1, <1>4, <2>1 DEF StoresKept, LeavesOthers, RaceTypeOK
    <2>2. CASE Store(p) # Postgres
      <3>1. wal' \in File \cup {NoFile} /\ Files(db)
        BY <2>2 DEF Checkpoints, RaceTypeOK
      <3>2. StoresKept(p) /\ LeavesOthers(p)
        BY <1>1, <1>3, <1>4, <3>1, FilesLeaveOthers
      <3>3. Variant(p).engine = "duckdb" /\ Store(p) = opened[p]
        BY <2>2, SetupPlace DEF Store, VariantRecord, Engine
      <3>4. opened[p] \in File
        BY <3>3, SetupPlace DEF RaceTypeOK
      <3>5. db'[opened[p]] = db[opened[p]]
        BY <1>3, <3>1, <3>4, FilesFact
      <3>6. QED
        BY <3>2, <3>3, <3>5
    <2>3. QED
      BY <2>1, <2>2
  <1>6. Table(p)' = Table(p)
    BY <1>2, <1>5 DEF Table
  <1>7. QED
    BY <1>5, <1>6, SetupWrites

(* Every step of a setup.                                                  *)
LEMMA SetupStepKeeps ==
  ASSUME RaceTypeOK, NEW p \in Racer, RacerInv(p), SetupStep(p)
  PROVE  RaceStepKeeps(p)
  <1> DEFINE step == Setup(p)[run[p].left]
  <1>1. At(p, "setup")
    BY DEF SetupStep
  <1>2. /\ run[p].pc = "setup" /\ Variant(p) \in VariantRecord
        /\ opened[p] # NoFile <=> run[p].left > 2 /\ Variant(p).engine = "duckdb"
    BY <1>1, SetupPlace
  <1>3. Store(p) # NoFile <=> Variant(p).engine = "postgres" \/ run[p].left > 2
    BY <1>2 DEF Store, VariantRecord, Engine, Postgres, NoFile
  <1>4. \/ run[p].left = 1 /\ step = IF Variant(p).engine = "postgres" THEN "schema" ELSE "clean"
        \/ run[p].left = 2 /\ step = IF Variant(p).engine = "postgres" THEN "drop" ELSE "open"
        \/ run[p].left = 3 /\ step = "create"
        \/ run[p].left = 4 /\ step = "fill"
        \/ run[p].left = 5 /\ step = "vacuum"
    BY <1>1, SetupPlace, SetupFact
  <1>5. \/ step = "schema" /\ SetupDone(p) /\ UNCHANGED <<db, opened, path, wal, disturbed>>
        \/ step = "drop" /\ SetupDone(p) /\ Holds(p, Gone) /\ UNCHANGED <<opened, path>>
        \/ step = "create" /\ SetupDone(p) /\ Holds(p, Empty) /\ UNCHANGED <<opened, path>>
        \/ /\ step = "fill" /\ SetupDone(p)
           /\ Holds(p, [Table(p) EXCEPT !.rows = 0..HotRows]) /\ UNCHANGED <<opened, path>>
        \/ /\ step = "vacuum" /\ SetupDone(p) /\ UNCHANGED <<opened, path, disturbed>>
           /\ IF Store(p) = Postgres THEN UNCHANGED <<db, wal>> ELSE Checkpoints
        \/ step = "clean" /\ SetupDone(p) /\ CleanScratch
        \/ step = "open" /\ SetupDone(p) /\ OpenScratch(p)
        \/ Fails(p) /\ UNCHANGED <<db, opened, path, wal, disturbed>>
    BY DEF SetupStep
  <1> HIDE DEF step
  <1>6. CASE step = "schema" /\ SetupDone(p) /\ UNCHANGED <<db, opened, path, wal, disturbed>>
    <2>1. run[p].left = 1
      BY <1>4, <1>6
    <2>2. StoresKept(p) /\ LeavesOthers(p)
      <3>1. \A q \in Racer \ {p} : run'[q] = run[q]
        BY <1>1, <1>6, SetupDoneFact
      <3>2. QED
        BY <1>6, <3>1 DEF StoresKept, LeavesOthers, RaceTypeOK, RacerInv, HasItsFile
    <2>3. QED
      BY <1>1, <1>6, <2>1, <2>2, SetupWrites
  <1>7. CASE step = "drop" /\ SetupDone(p) /\ Holds(p, Gone) /\ UNCHANGED <<opened, path>>
    <2>1. run[p].left = 2 /\ Variant(p).engine = "postgres"
      BY <1>4, <1>7
    <2>2. QED
      BY <1>1, <1>3, <1>7, <2>1, GoneType, SetupHolds
  <1>8. CASE step = "create" /\ SetupDone(p) /\ Holds(p, Empty) /\ UNCHANGED <<opened, path>>
    <2>1. run[p].left = 3
      BY <1>4, <1>8
    <2>2. Store(p) # NoFile
      BY <1>3, <2>1
    <2>3. QED
      BY <1>1, <1>8, <2>1, <2>2, GoneType, SetupHolds
  <1>9. CASE /\ step = "fill" /\ SetupDone(p)
             /\ Holds(p, [Table(p) EXCEPT !.rows = 0..HotRows]) /\ UNCHANGED <<opened, path>>
    <2> DEFINE t == [Table(p) EXCEPT !.rows = 0..HotRows]
    <2>1. run[p].left = 4
      BY <1>4, <1>9
    <2>2. Store(p) # NoFile
      BY <1>3, <2>1
    <2>3. t \in TableState
      <3>1. Table(p) \in TableState
        BY <2>2, TableType
      <3>2. 0..HotRows \in SUBSET Nat
        BY EngineRaceAssumption
      <3>3. QED
        BY <3>1, <3>2 DEF TableState
    <2>4. Followed(p) => t = Filled
      BY <1>1, <2>1 DEF RacerInv, TableFollows, Filled
    <2>5. Holds(p, t)
      BY <1>9
    <2> HIDE DEF t
    <2>6. QED
      BY <1>1, <1>9, <2>1, <2>2, <2>3, <2>4, <2>5, SetupHolds
  <1>10. CASE step = "clean" /\ SetupDone(p) /\ CleanScratch
    <2>1. run[p].left = 1
      BY <1>4, <1>10
    <2>2. QED
      BY <1>1, <1>10, <2>1, SetupCleans
  <1>11. CASE step = "open" /\ SetupDone(p) /\ OpenScratch(p)
    <2>1. run[p].left = 2 /\ Variant(p).engine = "duckdb"
      BY <1>2, <1>4, <1>11 DEF VariantRecord, Engine
    <2>2. QED
      BY <1>1, <1>11, <2>1, SetupOpens
  <1>12. CASE /\ step = "vacuum" /\ SetupDone(p) /\ UNCHANGED <<opened, path, disturbed>>
              /\ IF Store(p) = Postgres THEN UNCHANGED <<db, wal>> ELSE Checkpoints
    <2>1. run[p].left = 5
      BY <1>4, <1>12
    <2>2. QED
      BY <1>1, <1>12, <2>1, SetupVacuums
  <1>13. CASE Fails(p) /\ UNCHANGED <<db, opened, path, wal, disturbed>>
    BY <1>2, <1>13, FailsKeeps DEF Measuring
  <1>14. QED
    BY <1>5, <1>6, <1>7, <1>8, <1>9, <1>10, <1>11, <1>12, <1>13

(* A step of the work of a test: statement, bulk insert or update.         *)
LEMMA WorkKeeps ==
  ASSUME RaceTypeOK, NEW p \in Racer, RacerInv(p), run[p].pc \in {"loop", "bulk", "writers"},
         run' \in [Racer -> RunState], Moves(p, run[p].pc, run'[p].left),
         UNCHANGED <<opened, path>>, StoresKept(p), LeavesOthers(p),
         run'[p].left <= run[p].left, UpdatesAddUp(p)', TableFollows(p)'
  PROVE  RaceStepKeeps(p)
  <1>1. RaceTypeOK'
    BY DEF RaceTypeOK, StoresKept
  <1>2. run'[p].pc = run[p].pc /\ Variants(p)' = Variants(p) /\ Variant(p)' = Variant(p)
    BY SameVariant DEF Moves
  <1>3. InOrder(p)'
    BY InOrderKept DEF RacerInv, Measuring
  <1>4. DoesItsVariant(p)'
    <2>1. run[p].left \in Nat /\ run'[p].left \in Nat /\ Statements \in Nat
      BY EngineRaceAssumption DEF RaceTypeOK, RunState
    <2>2. run[p].left <= Statements => run'[p].left <= Statements
      BY <2>1
    <2>3. QED
      BY <1>2, <2>2 DEF DoesItsVariant, At, RacerInv
  <1>5. Rested(p)'
    BY <1>2 DEF Rested
  <1>6. NeedsFile(p)' <=> NeedsFile(p)
    BY <1>2 DEF NeedsFile, At
  <1>7. HasItsFile(p)'
    <2>1. \A q \in Racer \ {p} : opened'[q] = opened[q]
      BY DEF LeavesOthers
    <2>2. QED
      BY <1>6, <2>1 DEF HasItsFile, RacerInv
  <1>8. MeasuresRight(p)'
    BY <1>2 DEF MeasuresRight, Moves, RacerInv
  <1>9. QED
    BY <1>1, <1>3, <1>4, <1>5, <1>7, <1>8 DEF RaceStepKeeps, RacerInv

(* A racer at work has a database to work on.                              *)
LEMMA WorkFact ==
  ASSUME RaceTypeOK, NEW p \in Racer, RacerInv(p), run[p].pc \in {"loop", "bulk", "writers"}
  PROVE  /\ run[p] \in RunState /\ Variant(p) \in VariantRecord
         /\ opened[p] # NoFile <=> Variant(p).engine = "duckdb"
         /\ Store(p) # NoFile /\ Table(p) \in TableState /\ Store(p) \in {Postgres} \cup File
         /\ HasTable(p)
         /\ Followed(p) <=> Variant(p).engine = "duckdb" \/ p \notin disturbed
  <1>1. run[p] \in RunState /\ Variant(p) \in VariantRecord
    BY VariantFact DEF RaceTypeOK, RacerInv, Measuring
  <1>2. opened[p] # NoFile <=> Variant(p).engine = "duckdb"
    BY DEF RacerInv, HasItsFile, NeedsFile, At
  <1>3. Store(p) # NoFile
    BY <1>1, <1>2 DEF Store, VariantRecord, Engine, Postgres, NoFile
  <1>4. HasTable(p)
    BY DEF HasTable
  <1>5. Followed(p) <=> Variant(p).engine = "duckdb" \/ p \notin disturbed
    BY <1>1, <1>2, <1>4 DEF Followed, Undisturbed, VariantRecord, Engine
  <1>6. QED
    BY <1>1, <1>2, <1>3, <1>4, <1>5, TableType

(* A racer at work that follows its table has followed it so far.          *)
LEMMA WorkFollowed ==
  ASSUME RaceTypeOK, NEW p \in Racer, RacerInv(p), run[p].pc \in {"loop", "bulk", "writers"},
         UNCHANGED opened, StoresKept(p), run'[p].sc = run[p].sc, run'[p].v = run[p].v, Followed(p)'
  PROVE  Followed(p)
  BY WorkFact, FollowedBefore DEF StoresKept

(* What statements on rows n do to a table.                                *)
LEMMA ChangedFact ==
  ASSUME NEW p, NEW t \in TableState, NEW n \in SUBSET Nat, IsFiniteSet(n)
  PROVE  /\ Changed(p, t, n) \in TableState
         /\ Variant(p).exec = "inserts" => Changed(p, t, n).rows = t.rows \cup n
         /\ Variant(p).exec # "inserts" =>
              /\ Changed(p, t, n).rows = t.rows
              /\ TakenFrom(Changed(p, t, n)) = TakenFrom(t) + Cardinality(n)
         /\ TakenFrom(t) \in Nat
  <1>1. /\ HotRows \in Nat /\ IsFiniteSet(0..HotRows) /\ 0 \in 0..HotRows
        /\ Cardinality(n) \in Nat
        /\ t.taken \in [0..HotRows -> Nat] /\ DOMAIN t.taken = 0..HotRows
    <2>1. HotRows \in Nat /\ 0 \in 0..HotRows
      BY EngineRaceAssumption
    <2>2. IsFiniteSet(0..HotRows)
      BY <2>1, FS_Interval
    <2>3. Cardinality(n) \in Nat
      BY FS_CardinalityType
    <2>4. t.taken \in [0..HotRows -> Nat]
      BY DEF TableState
    <2>5. QED
      BY <2>1, <2>2, <2>3, <2>4
  <1>2. TakenFrom(t) \in Nat
    BY <1>1, UnitsFinite DEF TakenFrom
  <1>3. CASE Variant(p).exec = "inserts"
    <2> DEFINE u == [t EXCEPT !.rows = t.rows \cup n]
    <2>1. u \in TableState /\ u.rows = t.rows \cup n
      BY DEF TableState
    <2>2. Changed(p, t, n) = u
      BY <1>3 DEF Changed
    <2> HIDE DEF u
    <2>3. QED
      BY <1>2, <1>3, <2>1, <2>2
  <1>4. CASE Variant(p).exec # "inserts"
    <2> DEFINE taken == [t.taken EXCEPT ![0] = t.taken[0] + Cardinality(n)]
               u == [t EXCEPT !.taken = taken]
    <2>1. t.taken[0] + Cardinality(n) \in Nat
      BY <1>1
    <2>2. /\ taken \in [0..HotRows -> Nat] /\ taken[0] = t.taken[0] + Cardinality(n)
          /\ \A r \in (0..HotRows) \ {0} : taken[r] = t.taken[r]
      BY <1>1, <2>1
    <2>3. Changed(p, t, n) = u
      BY <1>4 DEF Changed
    <2> HIDE DEF taken
    <2>4. u \in TableState /\ u.rows = t.rows /\ u.taken = taken
      BY <2>2 DEF TableState
    <2> HIDE DEF u
    <2>5. Total(taken, 0..HotRows) = Total(t.taken, 0..HotRows) + taken[0] - t.taken[0]
      <3>1. /\ t.taken \in [0..HotRows -> Nat] /\ taken \in [0..HotRows -> Nat]
            /\ \A r \in 0..HotRows : r # 0 => taken[r] = t.taken[r]
        BY <1>1, <2>2
      <3>2. IsFiniteSet(0..HotRows) /\ 0 \in 0..HotRows
        BY <1>1
      <3>3. QED
        BY <3>1, <3>2, TotalChanged
    <2>6. DOMAIN taken = 0..HotRows
      BY <2>2
    <2>7. Total(taken, DOMAIN taken) = Total(t.taken, 0..HotRows) + Cardinality(n)
      <3>1. Total(t.taken, 0..HotRows) \in Nat /\ t.taken[0] \in Nat
        BY <1>1, <1>2 DEF TakenFrom
      <3>2. QED
        BY <1>1, <2>2, <2>5, <2>6, <3>1
    <2>8. TakenFrom(u) = TakenFrom(t) + Cardinality(n)
      BY <1>1, <2>4, <2>7 DEF TakenFrom
    <2>9. QED
      BY <1>2, <1>4, <2>3, <2>4, <2>8
  <1>5. QED
    BY <1>3, <1>4

(* One statement of a loop: with its file open, the table has one row or one*)
(* update more.                                                            *)
LEMMA LoopStepKeeps ==
  ASSUME RaceTypeOK, NEW p \in Racer, RacerInv(p), LoopStep(p)
  PROVE  RaceStepKeeps(p)
  <1> DEFINE id == Statements - run[p].left + 1
             new == Variant(p).exec = "inserts"
             hit == IF new \/ 0 \in Table(p).rows THEN {id} ELSE {}
             done == Statements - run[p].left
             one == Variant(p).oneTx
  <1>1. run[p].pc = "loop" /\ run[p].left > 0 /\ UNCHANGED <<opened, path>>
    BY DEF LoopStep, At
  <1>2. CASE Fails(p) /\ UNCHANGED <<db, wal, disturbed>>
    BY <1>1, <1>2, FailsKeeps DEF Measuring
  <1>3. CASE /\ run' = [run EXCEPT ![p].left = @ - 1, ![p].tx = Variant(p).oneTx,
                                   ![p].mine = IF Variant(p).oneTx THEN @ + Cardinality(hit) ELSE @]
             /\ IF Variant(p).oneTx THEN UNCHANGED <<db, wal, disturbed>>
                ELSE Holds(p, Changed(p, Table(p), hit))
    <2>1. /\ run[p] \in RunState /\ Variant(p) \in VariantRecord
          /\ opened[p] # NoFile <=> Variant(p).engine = "duckdb"
          /\ Store(p) # NoFile /\ Table(p) \in TableState
      BY <1>1, WorkFact
    <2>2. /\ run[p].left \in Nat /\ run[p].left <= Statements /\ run[p].mine \in Nat
          /\ Statements \in Nat /\ Variant(p).exec \in {"inserts", "updates"}
          /\ one \in BOOLEAN
      BY <1>1, <2>1, EngineRaceAssumption
      DEF RacerInv, DoesItsVariant, At, RunState, VariantRecord
    <2>3. /\ id \in Nat /\ run[p].left - 1 \in Nat /\ done \in Nat /\ id = done + 1
          /\ Statements - (run[p].left - 1) = done + 1
      BY <1>1, <2>2
    <2> HIDE DEF id, done
    <2>4. hit \in SUBSET Nat /\ IsFiniteSet(hit) /\ Cardinality(hit) \in Nat
          /\ (new \/ 0 \in Table(p).rows => hit = {id} /\ Cardinality(hit) = 1)
      BY <2>3, FS_Singleton, FS_EmptySet, FS_CardinalityType
    <2> HIDE DEF hit
    <2>5. PICK mine \in Nat : mine = IF one THEN run[p].mine + Cardinality(hit) ELSE run[p].mine
      BY <2>2, <2>4
    <2> DEFINE t == [run[p] EXCEPT !.left = run[p].left - 1, !.tx = one, !.mine = mine]
    <2>6. run' = [run EXCEPT ![p] = t]
      BY <1>3, <2>5
    <2> HIDE DEF one
    <2>7. t \in RunState
      BY <2>1, <2>2, <2>3 DEF RunState
    <2>8. /\ t.pc = "loop" /\ t.left = run[p].left - 1 /\ t.sc = run[p].sc /\ t.v = run[p].v
          /\ t.res = run[p].res /\ t.mine = mine
      BY <1>1, <2>1 DEF RunState
    <2> HIDE DEF t
    <2>9. /\ run' \in [Racer -> RunState] /\ run'[p] = t
          /\ \A q \in Racer \ {p} : run'[q] = run[q]
      BY <2>6, <2>7, RunUpdate
    <2>10. Moves(p, run[p].pc, run'[p].left) /\ run'[p].left <= run[p].left
      BY <1>1, <2>2, <2>8, <2>9 DEF Moves
    <2>11. /\ Variant(p)' = Variant(p) /\ TableOf(p)' = TableOf(p) /\ Store(p)' = Store(p)
      BY <1>1, <2>8, <2>9, SameVariant
    <2> DEFINE new_t == IF one THEN Table(p) ELSE Changed(p, Table(p), hit)
    <2>12. StoresKept(p) /\ LeavesOthers(p) /\ Table(p)' = new_t
      <3>1. CASE one
        <4>1. UNCHANGED <<db, wal, disturbed>>
          BY <1>3, <3>1 DEF one
        <4>2. LeavesOthers(p)
          BY <1>1, <2>9, <4>1 DEF LeavesOthers, RacerInv, HasItsFile
        <4>3. QED
          BY <2>11, <3>1, <4>1, <4>2 DEF RaceTypeOK, StoresKept, Table
      <3>2. CASE ~one
        <4>1. Holds(p, Changed(p, Table(p), hit))
          BY <1>3, <3>2 DEF one
        <4>2. Changed(p, Table(p), hit) \in TableState
          BY <2>1, <2>4, ChangedFact
        <4>3. /\ StoresKept(p) /\ LeavesOthers(p)
              /\ db'[Store(p)][TableOf(p)] = Changed(p, Table(p), hit)
          BY <1>1, <2>1, <2>9, <4>1, <4>2, HoldsFact DEF RacerInv
        <4>4. QED
          BY <2>11, <3>2, <4>3 DEF Table
      <3>3. QED
        BY <2>2, <3>1, <3>2
    <2> HIDE DEF new_t
    <2>13. UpdatesAddUp(p)'
      BY <2>8, <2>9 DEF UpdatesAddUp, At
    <2>14. TableFollows(p)'
      <3>1. CASE ~Followed(p)'
        BY <3>1 DEF TableFollows
      <3>2. CASE Followed(p)'
        <4>1. /\ run[p].mine = done - (IF one THEN 0 ELSE done)
              /\ new => Table(p).rows = 1..(IF one THEN 0 ELSE done)
              /\ Variant(p).exec = "updates" =>
                   Table(p).rows = 0..HotRows /\ TakenFrom(Table(p)) = IF one THEN 0 ELSE done
          <5>1. Followed(p)
            BY <1>1, <2>8, <2>9, <2>12, <3>2, WorkFollowed
          <5>2. QED
            BY <1>1, <5>1 DEF RacerInv, TableFollows, At, done, one
        <4>2. new \/ 0 \in Table(p).rows
          BY <2>2, <4>1, EngineRaceAssumption
        <4>3. hit = {id} /\ Cardinality(hit) = 1
          BY <2>4, <4>2
        <4>4. mine = (done + 1) - (IF one THEN 0 ELSE done + 1)
          BY <2>2, <2>3, <2>5, <4>1, <4>3
        <4>5. new => new_t.rows = 1..(IF one THEN 0 ELSE done + 1)
          <5>1. CASE one
            BY <4>1, <5>1 DEF new_t
          <5>2. CASE ~one
            <6>1. new => new_t.rows = Table(p).rows \cup {id}
              BY <2>1, <2>4, <4>3, <5>2, ChangedFact DEF new_t
            <6>2. (1..done) \cup {id} = 1..(done + 1)
              BY <2>3
            <6>3. QED
              BY <4>1, <5>2, <6>1, <6>2
          <5>3. QED
            BY <2>2, <5>1, <5>2
        <4>6. Variant(p).exec = "updates" =>
                new_t.rows = 0..HotRows /\ TakenFrom(new_t) = IF one THEN 0 ELSE done + 1
          <5>1. CASE one
            BY <4>1, <5>1 DEF new_t
          <5>2. CASE ~one
            <6>1. Variant(p).exec = "updates" =>
                    new_t.rows = Table(p).rows /\ TakenFrom(new_t) = TakenFrom(Table(p)) + 1
              BY <2>1, <2>4, <4>3, <5>2, ChangedFact DEF new_t
            <6>2. QED
              BY <4>1, <5>2, <6>1
          <5>3. QED
            BY <2>2, <5>1, <5>2
        <4>7. run'[p].pc = "loop" /\ Statements - run'[p].left = done + 1 /\ run'[p].mine = mine
          BY <2>3, <2>8, <2>9
        <4>8. Variant(p).oneTx = one
          BY DEF one
        <4>9. QED
          BY <2>11, <2>12, <4>4, <4>5, <4>6, <4>7, <4>8 DEF TableFollows, At
      <3>3. QED
        BY <3>1, <3>2
    <2>15. QED
      BY <1>1, <2>9, <2>10, <2>12, <2>13, <2>14, WorkKeeps
  <1>4. QED
    BY <1>2, <1>3 DEF LoopStep

(* A loop ends, and commits: the table has what all statements did.        *)
LEMMA LoopEndsKeeps ==
  ASSUME RaceTypeOK, NEW p \in Racer, RacerInv(p), LoopEnds(p)
  PROVE  RaceStepKeeps(p)
  <1> DEFINE n == 1..run[p].mine
             m == [err |-> FALSE, ops |-> Statements, errors |-> 0]
  <1>1. run[p].pc = "loop" /\ run[p].left = 0 /\ UNCHANGED <<opened, path>>
    BY DEF LoopEnds, At
  <1>2. CASE Fails(p) /\ UNCHANGED <<db, wal, disturbed>>
    BY <1>1, <1>2, FailsKeeps DEF Measuring
  <1>3. CASE Counts(p, Statements, 0) /\ Holds(p, Changed(p, Table(p), n))
    <2>1. /\ run[p] \in RunState /\ Variant(p) \in VariantRecord
          /\ opened[p] # NoFile <=> Variant(p).engine = "duckdb"
          /\ Store(p) # NoFile /\ Table(p) \in TableState
      BY <1>1, WorkFact
    <2>2. /\ run[p].mine \in Nat /\ Statements \in Nat /\ Statements - 0 = Statements
          /\ Variant(p).exec \in {"inserts", "updates"} /\ Variant(p).oneTx \in BOOLEAN
      BY <1>1, <2>1, EngineRaceAssumption
      DEF RacerInv, DoesItsVariant, At, RunState, VariantRecord
    <2>3. m \in Measurement /\ ~m.err /\ m.ops = Statements /\ Returns(p, m)
      BY <1>3, <2>2 DEF Measurement, Counts
    <2>4. n \in SUBSET Nat /\ IsFiniteSet(n) /\ Cardinality(n) = run[p].mine
      <3>1. 1 \in Int /\ run[p].mine \in Int
        BY <2>2
      <3>2. /\ IsFiniteSet(1..run[p].mine)
            /\ Cardinality(1..run[p].mine) = IF 1 > run[p].mine THEN 0 ELSE run[p].mine - 1 + 1
        BY <3>1, FS_Interval
      <3>3. n \in SUBSET Nat
        BY <2>2
      <3>4. QED
        BY <2>2, <3>2, <3>3
    <2> HIDE DEF m, n
    <2>5. \A q \in Racer \ {p} : run'[q] = run[q]
      BY <2>3, Returned
    <2> DEFINE t == Changed(p, Table(p), n)
    <2>6. /\ t \in TableState
          /\ Variant(p).exec = "inserts" => t.rows = Table(p).rows \cup n
          /\ Variant(p).exec = "updates" => TakenFrom(t) = TakenFrom(Table(p)) + run[p].mine
      <3>1. /\ t \in TableState
            /\ Variant(p).exec = "inserts" => t.rows = Table(p).rows \cup n
            /\ Variant(p).exec # "inserts" => TakenFrom(t) = TakenFrom(Table(p)) + Cardinality(n)
        BY <2>1, <2>4, ChangedFact
      <3>2. QED
        BY <2>4, <3>1
    <2>7. Holds(p, t)
      BY <1>3
    <2> HIDE DEF t
    <2>8. /\ StoresKept(p) /\ LeavesOthers(p)
          /\ db'[Store(p)][TableOf(p)] = t
      BY <1>1, <2>1, <2>5, <2>6, <2>7, HoldsFact DEF RacerInv
    <2>9. Right(Variant(p), m)
      BY <2>2 DEF Right
    <2>10. ASSUME opened[p] # NoFile \/ (Variant(p).engine = "postgres" /\ p \notin disturbed')
           PROVE  m.ops = IF Variant(p).exec = "inserts" THEN Cardinality(t.rows) ELSE TakenFrom(t)
      <3> DEFINE gone == IF Variant(p).oneTx THEN 0 ELSE Statements
      <3>1. /\ run[p].mine = Statements - gone
            /\ Variant(p).exec = "inserts" => Table(p).rows = 1..gone
            /\ Variant(p).exec = "updates" => TakenFrom(Table(p)) = gone
        <4>1. Followed(p)
          BY <1>1, <2>8, <2>10, WorkFact DEF StoresKept
        <4>2. QED
          BY <1>1, <2>2, <4>1 DEF RacerInv, TableFollows, At
      <3>2. gone = 0 \/ gone = Statements
        OBVIOUS
      <3> HIDE DEF gone
      <3>3. CASE Variant(p).exec = "inserts"
        <4>1. t.rows = (1..gone) \cup (1..(Statements - gone))
          BY <2>6, <3>1, <3>3 DEF n
        <4>2. t.rows = 1..Statements
          BY <2>2, <3>2, <4>1
        <4>3. Cardinality(1..Statements) = IF 1 > Statements THEN 0 ELSE Statements - 1 + 1
          <5>1. 1 \in Int /\ Statements \in Int
            BY <2>2
          <5>2. QED
            BY <5>1, FS_Interval
        <4>4. Cardinality(t.rows) = Statements
          BY <2>2, <4>2, <4>3
        <4>5. QED
          BY <2>3, <3>3, <4>4
      <3>4. CASE Variant(p).exec = "updates"
        <4>1. TakenFrom(t) = gone + (Statements - gone)
          BY <2>6, <3>1, <3>4
        <4>2. TakenFrom(t) = Statements
          BY <2>2, <3>2, <4>1
        <4>3. QED
          BY <2>3, <3>4, <4>2
      <3>5. QED
        BY <2>2, <3>3, <3>4
    <2>11. QED
      BY <1>1, <2>2, <2>3, <2>8, <2>9, <2>10, ReturnsKeeps DEF Measuring
  <1>4. QED
    BY <1>2, <1>3 DEF LoopEnds

(* The bulk insert, which nothing is counted for but itself.               *)
LEMMA BulkInsertKeeps ==
  ASSUME RaceTypeOK, NEW p \in Racer, RacerInv(p), BulkInsert(p)
  PROVE  RaceStepKeeps(p)
  <1> DEFINE m == [err |-> FALSE, ops |-> 1, errors |-> 0]
  <1>1. run[p].pc = "bulk" /\ UNCHANGED <<opened, path>>
    BY DEF BulkInsert, At
  <1>2. /\ run[p] \in RunState /\ Variant(p) \in VariantRecord
        /\ opened[p] # NoFile <=> Variant(p).engine = "duckdb"
        /\ Store(p) # NoFile /\ Table(p) \in TableState
    BY <1>1, WorkFact
  <1>3. Variant(p).exec = "bulk"
    BY <1>1 DEF RacerInv, DoesItsVariant, At
  <1>4. m \in Measurement /\ (Counts(p, 1, 0) => Returns(p, m))
    BY DEF Measurement, Counts
  <1> HIDE DEF m
  <1>5. CASE Fails(p) /\ UNCHANGED <<db, wal, disturbed>>
    BY <1>1, <1>5, FailsKeeps DEF Measuring
  <1>6. ASSUME NEW t \in TableState, Holds(p, t), Counts(p, 1, 0)
        PROVE  RaceStepKeeps(p)
    <2>1. Returns(p, m) /\ \A q \in Racer \ {p} : run'[q] = run[q]
      BY <1>4, <1>6, Returned
    <2>2. StoresKept(p) /\ LeavesOthers(p)
      BY <1>1, <1>2, <1>6, <2>1, HoldsFact DEF RacerInv
    <2>3. Right(Variant(p), m)
      BY <1>3 DEF Right
    <2>4. QED
      BY <1>1, <1>3, <1>4, <2>1, <2>2, <2>3, ReturnsKeeps DEF Measuring
  <1>7. [Table(p) EXCEPT !.rows = {1}] \in TableState
    BY <1>2 DEF TableState
  <1>8. CASE /\ run[p].left = 2 /\ Holds(p, [Table(p) EXCEPT !.rows = {1}])
             /\ Variant(p).engine = "postgres" /\ run' = [run EXCEPT ![p].left = 1]
    <2> DEFINE t == [run[p] EXCEPT !.left = 1]
    <2>1. /\ t \in RunState /\ t.pc = "bulk" /\ t.left = 1 /\ t.sc = run[p].sc
          /\ t.v = run[p].v /\ t.res = run[p].res
      BY <1>1, <1>2 DEF RunState
    <2>2. run' = [run EXCEPT ![p] = t]
      BY <1>8
    <2> HIDE DEF t
    <2>3. /\ run' \in [Racer -> RunState] /\ run'[p] = t
          /\ \A q \in Racer \ {p} : run'[q] = run[q]
      BY <2>1, <2>2, RunUpdate
    <2>4. Moves(p, run[p].pc, run'[p].left) /\ run'[p].left <= run[p].left
      BY <1>1, <1>8, <2>1, <2>3 DEF Moves
    <2>5. StoresKept(p) /\ LeavesOthers(p)
      BY <1>1, <1>2, <1>7, <1>8, <2>3, HoldsFact DEF RacerInv
    <2>6. UpdatesAddUp(p)'
      BY <2>1, <2>3 DEF UpdatesAddUp, At
    <2>7. TableFollows(p)'
      BY <2>1, <2>3 DEF TableFollows, At
    <2>8. QED
      BY <1>1, <2>3, <2>4, <2>5, <2>6, <2>7, WorkKeeps
  <1>9. CASE Holds(p, [Table(p) EXCEPT !.rows = {1}]) /\ Counts(p, 1, 0)
    BY <1>6, <1>7, <1>9
  <1>10. CASE Holds(p, Gone) /\ Counts(p, 1, 0)
    BY <1>6, <1>10, GoneType
  <1>11. QED
    BY <1>5, <1>8, <1>9, <1>10 DEF BulkInsert

-----------------------------------------------------------------------------
(* The writers.                                                            *)

(* One writer changes: its state, and maybe one of the counters.           *)
WriterStep(p, w, x, ok, failed, fatal) ==
  run' = [run EXCEPT ![p] = [run[p] EXCEPT !.writers = [run[p].writers EXCEPT ![w] = x],
                                           !.ok = ok, !.failed = failed, !.fatal = fatal]]

(* One step of one writer changes what is to do by its own share.          *)
LEMMA WriterMoves ==
  ASSUME RaceTypeOK, NEW p \in Racer, At(p, "writers"), NEW w \in Writer,
         NEW x \in WriterState, NEW ok \in Nat, NEW failed \in Nat, NEW fatal \in BOOLEAN,
         WriterStep(p, w, x, ok, failed, fatal)
  PROVE  /\ run' \in [Racer -> RunState] /\ \A q \in Racer \ {p} : run'[q] = run[q]
         /\ Moves(p, "writers", run[p].left) /\ run[p].left \in Nat
         /\ run'[p].ok = ok /\ run'[p].failed = failed /\ run'[p].fatal = fatal
         /\ run'[p].writers[w] = x
         /\ \A u \in Writer \ {w} : run'[p].writers[u] = run[p].writers[u]
         /\ ToDo(p)' = ToDo(p) + x.left - run[p].writers[w].left
         /\ ToDo(p) \in Nat
  <1> DEFINE ws == [run[p].writers EXCEPT ![w] = x]
             t == [run[p] EXCEPT !.writers = ws, !.ok = ok, !.failed = failed, !.fatal = fatal]
  <1>1. run[p] \in RunState /\ run[p].writers \in [Writer -> WriterState] /\ run[p].pc = "writers"
        /\ run[p].left \in Nat
    BY DEF RaceTypeOK, RunState, At
  <1>2. /\ ws \in [Writer -> WriterState] /\ ws[w] = x
        /\ \A u \in Writer \ {w} : ws[u] = run[p].writers[u]
    BY <1>1
  <1>3. run' = [run EXCEPT ![p] = t]
    BY DEF WriterStep
  <1> HIDE DEF ws
  <1>4. t \in RunState
    BY <1>1, <1>2 DEF RunState
  <1>5. /\ t.pc = "writers" /\ t.left = run[p].left /\ t.sc = run[p].sc /\ t.v = run[p].v
        /\ t.res = run[p].res /\ t.writers = ws
        /\ t.ok = ok /\ t.failed = failed /\ t.fatal = fatal
    BY <1>1 DEF RunState
  <1> HIDE DEF t
  <1>6. /\ run' \in [Racer -> RunState] /\ run'[p] = t
        /\ \A q \in Racer \ {p} : run'[q] = run[q]
    BY <1>3, <1>4, RunUpdate
  <1> DEFINE n == [u \in Writer |-> run[p].writers[u].left]
             k == [u \in Writer |-> ws[u].left]
  <1>7. ToDo(p) = Total(n, Writer) /\ ToDo(p)' = Total(k, Writer)
    <2> DEFINE l == [u \in Writer |-> run'[p].writers[u].left]
    <2>1. ToDo(p)' = Total(l, Writer) /\ ToDo(p) = Total(n, Writer)
      BY DEF ToDo
    <2>2. run'[p].writers = ws
      BY <1>5, <1>6
    <2>3. \A u \in Writer : l[u] = k[u]
      BY <2>2
    <2> HIDE DEF l, k
    <2>4. QED
      BY <2>1, <2>3, TotalSame
  <1>8. /\ n \in [Writer -> Nat] /\ k \in [Writer -> Nat]
        /\ \A u \in Writer : u # w => k[u] = n[u]
        /\ k[w] = x.left /\ n[w] = run[p].writers[w].left
    BY <1>1, <1>2 DEF WriterState
  <1>9. IsFiniteSet(Writer)
    BY EngineRaceAssumption
  <1> HIDE DEF n, k
  <1>10. Total(k, Writer) = Total(n, Writer) + k[w] - n[w] /\ Total(n, Writer) \in Nat
    BY <1>8, <1>9, TotalChanged
  <1>11. QED
    BY <1>1, <1>2, <1>5, <1>6, <1>7, <1>8, <1>10 DEF Moves

(* What holds of a writer and its racer before a step.                     *)
LEMMA WriterFact ==
  ASSUME RaceTypeOK, NEW p \in Racer, RacerInv(p), At(p, "writers"), NEW w \in Writer
  PROVE  /\ run[p] \in RunState /\ run[p].pc = "writers"
         /\ run[p].writers[w] \in WriterState /\ Me(p, w) = run[p].writers[w]
         /\ run[p].ok \in Nat /\ run[p].failed \in Nat /\ run[p].fatal \in BOOLEAN
         /\ Variant(p) \in VariantRecord /\ Variant(p).exec = "concurrent"
         /\ Store(p) # NoFile /\ Table(p) \in TableState
         /\ Followed(p) => Table(p).rows = 0..HotRows /\ TakenFrom(Table(p)) = run[p].ok
         /\ ~run[p].fatal =>
              run[p].ok + run[p].failed + ToDo(p) = Cardinality(Writer) * OpsPerWriter
         /\ Variant(p).engine = "postgres" => run[p].failed = 0
         /\ \A u \in Writer : run[p].writers[u].at # "next" =>
              run[p].writers[u].row \in 1..HotRows /\ run[p].writers[u].left > 0
  <1>1. run[p] \in RunState /\ run[p].pc = "writers"
    BY DEF RaceTypeOK, At
  <1>2. /\ Variant(p) \in VariantRecord /\ Store(p) # NoFile /\ Table(p) \in TableState
    BY <1>1, WorkFact
  <1>3. /\ run[p].writers[w] \in WriterState /\ Me(p, w) = run[p].writers[w]
        /\ run[p].ok \in Nat /\ run[p].failed \in Nat /\ run[p].fatal \in BOOLEAN
    BY <1>1 DEF RunState, Me
  <1>4. Variant(p).exec = "concurrent"
    BY DEF RacerInv, DoesItsVariant
  <1>5. Followed(p) => Table(p).rows = 0..HotRows /\ TakenFrom(Table(p)) = run[p].ok
    BY DEF RacerInv, TableFollows
  <1>6. QED
    BY <1>1, <1>2, <1>3, <1>4, <1>5 DEF RacerInv, UpdatesAddUp

(* A step of a writer that changes no table.                               *)
LEMMA WriterKeeps ==
  ASSUME RaceTypeOK, NEW p \in Racer, RacerInv(p), At(p, "writers"), NEW w \in Writer,
         NEW x \in WriterState, NEW failed \in Nat, NEW fatal \in BOOLEAN,
         WriterStep(p, w, x, run[p].ok, failed, fatal),
         UNCHANGED <<db, opened, path, wal, disturbed>>,
         x.at # "next" => x.row \in 1..HotRows /\ x.left > 0,
         ~fatal => ~run[p].fatal /\ failed + x.left = run[p].failed + run[p].writers[w].left,
         Variant(p).engine = "postgres" => failed = 0
  PROVE  RaceStepKeeps(p)
  <1>1. /\ run[p].pc = "writers" /\ run[p].ok \in Nat /\ run[p].failed \in Nat
        /\ run[p].writers[w] \in WriterState
        /\ Followed(p) => Table(p).rows = 0..HotRows /\ TakenFrom(Table(p)) = run[p].ok
        /\ ~run[p].fatal =>
             run[p].ok + run[p].failed + ToDo(p) = Cardinality(Writer) * OpsPerWriter
        /\ \A u \in Writer : run[p].writers[u].at # "next" =>
             run[p].writers[u].row \in 1..HotRows /\ run[p].writers[u].left > 0
    BY WriterFact
  <1>2. /\ run' \in [Racer -> RunState] /\ \A q \in Racer \ {p} : run'[q] = run[q]
        /\ Moves(p, "writers", run[p].left) /\ run[p].left \in Nat
        /\ run'[p].ok = run[p].ok /\ run'[p].failed = failed /\ run'[p].fatal = fatal
        /\ run'[p].writers[w] = x
        /\ \A u \in Writer \ {w} : run'[p].writers[u] = run[p].writers[u]
        /\ ToDo(p)' = ToDo(p) + x.left - run[p].writers[w].left
        /\ ToDo(p) \in Nat
    BY <1>1, WriterMoves
  <1>3. /\ Variant(p)' = Variant(p) /\ TableOf(p)' = TableOf(p) /\ Store(p)' = Store(p)
    BY <1>2, SameVariant DEF Moves
  <1>4. Table(p)' = Table(p)
    BY <1>3 DEF Table
  <1>5. LeavesOthers(p) /\ StoresKept(p)
    BY <1>2 DEF LeavesOthers, RacerInv, HasItsFile, RaceTypeOK, StoresKept
  <1>6. UpdatesAddUp(p)'
    <2>1. ~fatal => run'[p].ok + run'[p].failed + ToDo(p)' = Cardinality(Writer) * OpsPerWriter
      <3>1. x.left \in Nat /\ run[p].writers[w].left \in Nat
        BY <1>1 DEF WriterState
      <3> DEFINE all == Cardinality(Writer) * OpsPerWriter
                 todo == ToDo(p)
                 then == ToDo(p)'
      <3> HIDE DEF all, todo, then
      <3>2. SUFFICES ASSUME ~fatal PROVE run'[p].ok + run'[p].failed + then = all
        BY DEF all, then
      <3>3. /\ run[p].ok + run[p].failed + todo = all /\ todo \in Nat
            /\ then = todo + x.left - run[p].writers[w].left
            /\ failed + x.left = run[p].failed + run[p].writers[w].left
            /\ run'[p].ok = run[p].ok /\ run'[p].failed = failed
            /\ run[p].ok \in Nat /\ run[p].failed \in Nat
        BY <1>1, <1>2, <3>2 DEF all, todo, then
      <3>4. QED
        BY <3>1, <3>3
    <2>2. \A u \in Writer : run'[p].writers[u].at # "next" =>
            run'[p].writers[u].row \in 1..HotRows /\ run'[p].writers[u].left > 0
      BY <1>1, <1>2
    <2>3. QED
      BY <1>2, <1>3, <2>1, <2>2 DEF UpdatesAddUp
  <1>7. TableFollows(p)'
    <2>1. Followed(p)' => Followed(p)
      BY <1>1, <1>2, <1>5, WorkFollowed DEF Moves
    <2>2. QED
      BY <1>1, <1>2, <1>4, <2>1 DEF TableFollows, Moves, At
  <1>8. QED
    BY <1>1, <1>2, <1>5, <1>6, <1>7, WorkKeeps DEF Moves

(* The steps of the writers are steps of one writer.                       *)
LEMMA WriterStepIs ==
  ASSUME RaceTypeOK, NEW p \in Racer, NEW w \in Writer, NEW x \in WriterState
  PROVE  /\ run' = [run EXCEPT ![p].writers[w] = x] =>
              WriterStep(p, w, x, run[p].ok, run[p].failed, run[p].fatal)
         /\ run' = [run EXCEPT ![p].writers[w] = x, ![p].failed = @ + 1] =>
              WriterStep(p, w, x, run[p].ok, run[p].failed + 1, run[p].fatal)
         /\ run' = [run EXCEPT ![p].writers[w] = x, ![p].ok = @ + 1] =>
              WriterStep(p, w, x, run[p].ok + 1, run[p].failed, run[p].fatal)
         /\ run' = [run EXCEPT ![p].writers[w] = x, ![p].fatal = TRUE] =>
              WriterStep(p, w, x, run[p].ok, run[p].failed, TRUE)
  <1> DEFINE r == run[p]
             ws == [r.writers EXCEPT ![w] = x]
  <1>1. r \in RunState /\ ws \in [Writer -> WriterState]
    BY DEF RaceTypeOK, RunState
  <1>2. r.ok \in Nat /\ r.failed \in Nat /\ r.fatal \in BOOLEAN
        /\ r.ok + 1 \in Nat /\ r.failed + 1 \in Nat
    BY <1>1 DEF RunState
  <1> DEFINE t(ok, failed, fatal) ==
               [r EXCEPT !.writers = ws, !.ok = ok, !.failed = failed, !.fatal = fatal]
  <1>3. CASE run' = [run EXCEPT ![p].writers[w] = x]
    <2>1. run' = [run EXCEPT ![p] = [r EXCEPT !.writers = ws]]
      BY <1>3
    <2>2. [r EXCEPT !.writers = ws] = t(r.ok, r.failed, r.fatal)
      BY <1>1, <1>2 DEF RunState
    <2>3. QED
      BY <2>1, <2>2 DEF WriterStep
  <1>4. CASE run' = [run EXCEPT ![p].writers[w] = x, ![p].failed = @ + 1]
    <2>1. run' = [run EXCEPT ![p] = [r EXCEPT !.writers = ws, !.failed = r.failed + 1]]
      BY <1>4
    <2>2. [r EXCEPT !.writers = ws, !.failed = r.failed + 1] = t(r.ok, r.failed + 1, r.fatal)
      BY <1>1, <1>2 DEF RunState
    <2>3. QED
      BY <2>1, <2>2 DEF WriterStep
  <1>5. CASE run' = [run EXCEPT ![p].writers[w] = x, ![p].ok = @ + 1]
    <2>1. run' = [run EXCEPT ![p] = [r EXCEPT !.writers = ws, !.ok = r.ok + 1]]
      BY <1>5
    <2>2. [r EXCEPT !.writers = ws, !.ok = r.ok + 1] = t(r.ok + 1, r.failed, r.fatal)
      BY <1>1, <1>2 DEF RunState
    <2>3. QED
      BY <2>1, <2>2 DEF WriterStep
  <1>6. CASE run' = [run EXCEPT ![p].writers[w] = x, ![p].fatal = TRUE]
    <2>1. run' = [run EXCEPT ![p] = [r EXCEPT !.writers = ws, !.fatal = TRUE]]
      BY <1>6
    <2>2. [r EXCEPT !.writers = ws, !.fatal = TRUE] = t(r.ok, r.failed, TRUE)
      BY <1>1, <1>2 DEF RunState
    <2>3. QED
      BY <2>1, <2>2 DEF WriterStep
  <1>7. QED
    BY <1>3, <1>4, <1>5, <1>6

(* A writer begins an update of a hot row.                                 *)
LEMMA WriterBeginsKeeps ==
  ASSUME RaceTypeOK, NEW p \in Racer, RacerInv(p), NEW w \in Writer, WriterBegins(p, w)
  PROVE  RaceStepKeeps(p)
  <1>1. At(p, "writers") /\ Me(p, w).left > 0 /\ UNCHANGED <<db, opened, path, wal, disturbed>>
    BY DEF WriterBegins, Is
  <1>2. /\ run[p].writers[w] \in WriterState /\ Me(p, w) = run[p].writers[w]
        /\ run[p].failed \in Nat /\ run[p].fatal \in BOOLEAN
        /\ Table(p) \in TableState /\ (Variant(p).engine = "postgres" => run[p].failed = 0)
    BY <1>1, WriterFact
  <1> DEFINE snap(r) == IF Variant(p).engine = "postgres" THEN 0 ELSE Table(p).taken[r]
             x(r) == [at |-> "begun", row |-> r, left |-> Me(p, w).left, snap |-> snap(r)]
  <1>3. PICK r \in 1..HotRows : run' = [run EXCEPT ![p].writers[w] = x(r)]
    BY DEF WriterBegins
  <1>4. r \in 0..HotRows /\ snap(r) \in Nat
    BY <1>2, EngineRaceAssumption DEF TableState
  <1> HIDE DEF snap
  <1>5. x(r) \in WriterState /\ x(r).at = "begun" /\ x(r).row = r
        /\ x(r).left = run[p].writers[w].left
    BY <1>2, <1>4 DEF WriterState
  <1> HIDE DEF x
  <1>6. WriterStep(p, w, x(r), run[p].ok, run[p].failed, run[p].fatal)
    BY <1>3, <1>5, WriterStepIs
  <1>7. run[p].failed + x(r).left = run[p].failed + run[p].writers[w].left
    BY <1>5
  <1>8. CASE ~run[p].fatal
    BY <1>1, <1>2, <1>5, <1>6, <1>7, <1>8, WriterKeeps
  <1>9. CASE run[p].fatal
    BY <1>1, <1>2, <1>5, <1>6, <1>9, WriterKeeps
  <1>10. QED
    BY <1>8, <1>9

(* The state of a writer whose update is over.                             *)
LEMMA Next1Fact ==
  ASSUME RaceTypeOK, NEW p \in Racer, RacerInv(p), At(p, "writers"), NEW w \in Writer,
         Me(p, w).at # "next"
  PROVE  /\ Next1(p, w) \in WriterState /\ Next1(p, w).at = "next"
         /\ Next1(p, w).left = run[p].writers[w].left - 1
         /\ run[p].writers[w].left \in Nat /\ run[p].writers[w].left > 0
         /\ run[p].writers[w].row \in 1..HotRows
  <1>1. /\ run[p].writers[w] \in WriterState /\ Me(p, w) = run[p].writers[w]
        /\ run[p].writers[w].row \in 1..HotRows /\ run[p].writers[w].left > 0
    BY WriterFact
  <1>2. run[p].writers[w].left \in Nat /\ run[p].writers[w].left - 1 \in Nat
    BY <1>1 DEF WriterState
  <1>3. Resting[w] \in WriterState /\ Resting[w].at = "next"
    BY IdleType DEF Resting
  <1>4. QED
    BY <1>1, <1>2, <1>3 DEF Next1, WriterState

(* The update is made, or refused and counted as failed.                   *)
LEMMA WriterUpdatesKeeps ==
  ASSUME RaceTypeOK, NEW p \in Racer, RacerInv(p), NEW w \in Writer, WriterUpdates(p, w)
  PROVE  RaceStepKeeps(p)
  <1>1. At(p, "writers") /\ Me(p, w).at = "begun" /\ UNCHANGED <<db, opened, path, wal, disturbed>>
    BY DEF WriterUpdates, Is
  <1>2. /\ run[p].writers[w] \in WriterState /\ Me(p, w) = run[p].writers[w]
        /\ run[p].failed \in Nat /\ run[p].fatal \in BOOLEAN
        /\ Variant(p).engine = "postgres" => run[p].failed = 0
    BY <1>1, WriterFact
  <1>3. /\ Next1(p, w) \in WriterState /\ Next1(p, w).at = "next"
        /\ Next1(p, w).left = run[p].writers[w].left - 1
        /\ run[p].writers[w].left \in Nat /\ run[p].writers[w].left > 0
        /\ run[p].writers[w].row \in 1..HotRows
    BY <1>1, Next1Fact
  <1>4. CASE isConflict(p, w) /\ Refused(p, w)
    <2>1. run' = [run EXCEPT ![p].writers[w] = Next1(p, w), ![p].failed = @ + 1]
      BY <1>4 DEF Refused
    <2>2. WriterStep(p, w, Next1(p, w), run[p].ok, run[p].failed + 1, run[p].fatal)
      BY <1>3, <2>1, WriterStepIs
    <2>3. Variant(p).engine # "postgres"
      BY <1>4 DEF isConflict
    <2>4. /\ run[p].failed + 1 \in Nat
          /\ run[p].failed + 1 + Next1(p, w).left = run[p].failed + run[p].writers[w].left
      BY <1>2, <1>3
    <2>5. QED
      BY <1>1, <1>2, <1>3, <2>2, <2>3, <2>4, WriterKeeps
  <1>5. CASE run' = [run EXCEPT ![p].writers[w].at = "locked"]
    <2> DEFINE x == [run[p].writers[w] EXCEPT !.at = "locked"]
    <2>1. run' = [run EXCEPT ![p].writers[w] = x]
      BY <1>5
    <2>2. x \in WriterState /\ x.at = "locked" /\ x.row = run[p].writers[w].row
          /\ x.left = run[p].writers[w].left
      BY <1>2 DEF WriterState
    <2> HIDE DEF x
    <2>3. WriterStep(p, w, x, run[p].ok, run[p].failed, run[p].fatal)
      BY <2>1, <2>2, WriterStepIs
    <2>4. run[p].failed + x.left = run[p].failed + run[p].writers[w].left
      BY <2>2
    <2>5. x.row \in 1..HotRows /\ x.left > 0
      BY <1>3, <2>2
    <2>6. QED
      BY <1>1, <1>2, <2>2, <2>3, <2>4, <2>5, WriterKeeps
  <1>6. QED
    BY <1>4, <1>5 DEF WriterUpdates

(* An error that is no conflict ends the writer and spoils the measurement.*)
LEMMA WriterFailsKeeps ==
  ASSUME RaceTypeOK, NEW p \in Racer, RacerInv(p), NEW w \in Writer, WriterFails(p, w)
  PROVE  RaceStepKeeps(p)
  <1>1. /\ At(p, "writers") /\ UNCHANGED <<db, opened, path, wal, disturbed>>
        /\ run' = [run EXCEPT ![p].writers[w] = Resting[w], ![p].fatal = TRUE]
    BY DEF WriterFails
  <1>2. run[p].failed \in Nat /\ (Variant(p).engine = "postgres" => run[p].failed = 0)
    BY <1>1, WriterFact
  <1>3. Resting[w] \in WriterState /\ Resting[w].at = "next"
    BY IdleType DEF Resting
  <1>4. WriterStep(p, w, Resting[w], run[p].ok, run[p].failed, TRUE)
    BY <1>1, <1>3, WriterStepIs
  <1>5. QED
    BY <1>1, <1>2, <1>3, <1>4, WriterKeeps

(* A commit: the update is in the table, and counted.                      *)
LEMMA WriterCommitsKeeps ==
  ASSUME RaceTypeOK, NEW p \in Racer, RacerInv(p), NEW w \in Writer, WriterCommits(p, w)
  PROVE  RaceStepKeeps(p)
  <1> DEFINE r == Me(p, w).row
             taken == [Table(p).taken EXCEPT ![r] = Table(p).taken[r] + 1]
             u == [Table(p) EXCEPT !.taken = taken]
             t == IF r \in Table(p).rows THEN u ELSE Table(p)
  <1>1. /\ At(p, "writers") /\ Me(p, w).at = "locked" /\ UNCHANGED <<opened, path>>
        /\ Holds(p, t)
        /\ run' = [run EXCEPT ![p].writers[w] = Next1(p, w), ![p].ok = @ + 1]
    BY DEF WriterCommits, Is
  <1>2. /\ run[p] \in RunState /\ run[p].pc = "writers" /\ Me(p, w) = run[p].writers[w]
        /\ run[p].ok \in Nat /\ run[p].failed \in Nat /\ run[p].fatal \in BOOLEAN
        /\ Store(p) # NoFile /\ Table(p) \in TableState
        /\ Followed(p) => Table(p).rows = 0..HotRows /\ TakenFrom(Table(p)) = run[p].ok
        /\ ~run[p].fatal =>
             run[p].ok + run[p].failed + ToDo(p) = Cardinality(Writer) * OpsPerWriter
        /\ Variant(p).engine = "postgres" => run[p].failed = 0
        /\ \A v \in Writer : run[p].writers[v].at # "next" =>
             run[p].writers[v].row \in 1..HotRows /\ run[p].writers[v].left > 0
    BY <1>1, WriterFact
  <1>3. /\ Next1(p, w) \in WriterState /\ Next1(p, w).at = "next"
        /\ Next1(p, w).left = run[p].writers[w].left - 1
        /\ run[p].writers[w].left \in Nat /\ run[p].writers[w].left > 0
        /\ run[p].writers[w].row \in 1..HotRows
    BY <1>1, Next1Fact
  <1>4. run[p].ok + 1 \in Nat
    BY <1>2
  <1>5. WriterStep(p, w, Next1(p, w), run[p].ok + 1, run[p].failed, run[p].fatal)
    BY <1>1, <1>3, WriterStepIs
  <1>6. /\ run' \in [Racer -> RunState] /\ \A q \in Racer \ {p} : run'[q] = run[q]
        /\ Moves(p, "writers", run[p].left) /\ run[p].left \in Nat
        /\ run'[p].ok = run[p].ok + 1 /\ run'[p].failed = run[p].failed
        /\ run'[p].fatal = run[p].fatal
        /\ run'[p].writers[w] = Next1(p, w)
        /\ \A v \in Writer \ {w} : run'[p].writers[v] = run[p].writers[v]
        /\ ToDo(p)' = ToDo(p) + Next1(p, w).left - run[p].writers[w].left
        /\ ToDo(p) \in Nat
    <2> DEFINE x == Next1(p, w)
               ok == run[p].ok + 1
               failed == run[p].failed
               fatal == run[p].fatal
    <2>1. /\ At(p, "writers") /\ x \in WriterState /\ ok \in Nat /\ failed \in Nat
          /\ fatal \in BOOLEAN /\ WriterStep(p, w, x, ok, failed, fatal)
      BY <1>1, <1>2, <1>3, <1>4, <1>5
    <2> HIDE DEF x, ok, failed, fatal
    <2>2. /\ run' \in [Racer -> RunState] /\ \A q \in Racer \ {p} : run'[q] = run[q]
          /\ Moves(p, "writers", run[p].left) /\ run[p].left \in Nat
          /\ run'[p].ok = ok /\ run'[p].failed = failed /\ run'[p].fatal = fatal
          /\ run'[p].writers[w] = x
          /\ \A v \in Writer \ {w} : run'[p].writers[v] = run[p].writers[v]
          /\ ToDo(p)' = ToDo(p) + x.left - run[p].writers[w].left
          /\ ToDo(p) \in Nat
      BY <2>1, WriterMoves
    <2>3. QED
      BY <2>2 DEF x, ok, failed, fatal
  <1>7. r \in 0..HotRows /\ r \in 1..HotRows
    BY <1>2, <1>3, EngineRaceAssumption
  <1>8. /\ u \in TableState /\ u.rows = Table(p).rows /\ u.taken = taken
        /\ taken \in [0..HotRows -> Nat] /\ taken[r] = Table(p).taken[r] + 1
        /\ Table(p).taken \in [0..HotRows -> Nat]
        /\ \A y \in 0..HotRows : y # r => taken[y] = Table(p).taken[y]
    <2> HIDE DEF r
    <2>1. Table(p).taken \in [0..HotRows -> Nat] /\ Table(p).taken[r] + 1 \in Nat
      <3>1. Table(p).taken \in [0..HotRows -> Nat]
        BY <1>2 DEF TableState
      <3>2. Table(p).taken[r] \in Nat
        BY <1>7, <3>1
      <3>3. QED
        BY <3>1, <3>2
    <2>2. /\ taken \in [0..HotRows -> Nat] /\ taken[r] = Table(p).taken[r] + 1
          /\ \A y \in 0..HotRows : y # r => taken[y] = Table(p).taken[y]
      BY <1>7, <2>1
    <2> HIDE DEF taken
    <2>3. u \in TableState /\ u.rows = Table(p).rows /\ u.taken = taken
      BY <1>2, <2>2 DEF TableState
    <2>4. QED
      BY <2>1, <2>2, <2>3
  <1> HIDE DEF r, taken, u
  <1>9. t \in TableState
    BY <1>2, <1>8
  <1>10. Followed(p) => t.rows = 0..HotRows /\ TakenFrom(t) = run[p].ok + 1
    <2>1. SUFFICES ASSUME Followed(p)
                   PROVE  t.rows = 0..HotRows /\ TakenFrom(t) = run[p].ok + 1
      OBVIOUS
    <2>2. t = u
      BY <1>2, <1>7, <2>1
    <2>3. IsFiniteSet(0..HotRows)
      <3>1. HotRows \in Int /\ 0 \in Int
        BY EngineRaceAssumption
      <3>2. QED
        BY <3>1, FS_Interval
    <2>4. /\ Total(taken, 0..HotRows) =
             Total(Table(p).taken, 0..HotRows) + taken[r] - Table(p).taken[r]
          /\ Total(Table(p).taken, 0..HotRows) \in Nat
      <3> DEFINE n == Table(p).taken
      <3>1. /\ n \in [0..HotRows -> Nat] /\ taken \in [0..HotRows -> Nat]
            /\ r \in 0..HotRows /\ \A y \in 0..HotRows : y # r => taken[y] = n[y]
        BY <1>7, <1>8
      <3> HIDE DEF n
      <3>2. /\ Total(taken, 0..HotRows) = Total(n, 0..HotRows) + taken[r] - n[r]
            /\ Total(n, 0..HotRows) \in Nat
        BY <2>3, <3>1, TotalChanged
      <3>3. QED
        BY <3>2 DEF n
    <2>5. Table(p).taken[r] \in Nat
      BY <1>7, <1>8
    <2>6. TakenFrom(u) = Total(taken, 0..HotRows)
      BY <1>8 DEF TakenFrom
    <2>7. TakenFrom(Table(p)) = Total(Table(p).taken, 0..HotRows)
      BY <1>8 DEF TakenFrom
    <2>8. TakenFrom(u) = run[p].ok + 1
      BY <1>2, <1>8, <2>1, <2>4, <2>5, <2>6, <2>7
    <2>9. QED
      BY <1>2, <1>8, <2>1, <2>2, <2>8
  <1> HIDE DEF t
  <1>11. /\ StoresKept(p) /\ LeavesOthers(p)
         /\ db'[Store(p)][TableOf(p)] = t
    BY <1>1, <1>2, <1>6, <1>9, HoldsFact DEF RacerInv
  <1>12. /\ Variant(p)' = Variant(p) /\ TableOf(p)' = TableOf(p) /\ Store(p)' = Store(p)
    BY <1>1, <1>6, SameVariant DEF Moves
  <1>13. Table(p)' = t
    BY <1>11, <1>12 DEF Table
  <1>14. UpdatesAddUp(p)'
    <2> DEFINE all == Cardinality(Writer) * OpsPerWriter
               todo == ToDo(p)
               then == ToDo(p)'
    <2>1. ~run'[p].fatal => run'[p].ok + run'[p].failed + then = all
      <3> HIDE DEF all, todo, then
      <3>1. SUFFICES ASSUME ~run'[p].fatal PROVE run'[p].ok + run'[p].failed + then = all
        OBVIOUS
      <3>2. /\ run[p].ok + run[p].failed + todo = all /\ todo \in Nat
            /\ then = todo + (run[p].writers[w].left - 1) - run[p].writers[w].left
            /\ run'[p].ok = run[p].ok + 1 /\ run'[p].failed = run[p].failed
            /\ run[p].ok \in Nat /\ run[p].failed \in Nat /\ run[p].writers[w].left \in Nat
        BY <1>2, <1>3, <1>6, <3>1 DEF all, todo, then
      <3>3. QED
        BY <3>2
    <2>2. \A v \in Writer : run'[p].writers[v].at # "next" =>
            run'[p].writers[v].row \in 1..HotRows /\ run'[p].writers[v].left > 0
      BY <1>2, <1>3, <1>6
    <2>3. QED
      BY <1>2, <1>6, <1>12, <2>1, <2>2 DEF UpdatesAddUp
  <1>15. TableFollows(p)'
    <2>1. Followed(p)' => Followed(p)
      BY <1>1, <1>2, <1>6, <1>11, WorkFollowed DEF Moves
    <2>2. QED
      BY <1>1, <1>6, <1>10, <1>13, <2>1 DEF TableFollows, Moves, At
  <1>16. run'[p].left <= run[p].left /\ Moves(p, run[p].pc, run'[p].left)
    BY <1>2, <1>6 DEF Moves
  <1>17. QED
    BY <1>1, <1>2, <1>6, <1>11, <1>14, <1>15, <1>16, WorkKeeps

(* When the last writer is done, nothing is left to be done.               *)
LEMMA WritersEndKeeps ==
  ASSUME RaceTypeOK, NEW p \in Racer, RacerInv(p), WritersEnd(p)
  PROVE  RaceStepKeeps(p)
  <1>1. /\ At(p, "writers") /\ run[p].pc = "writers" /\ run[p].writers = Resting
        /\ UNCHANGED <<db, opened, path, wal, disturbed>>
    BY DEF WritersEnd, At
  <1>2. CASE Fails(p)
    BY <1>1, <1>2, FailsKeeps DEF Measuring
  <1>3. CASE ~run[p].fatal /\ Counts(p, run[p].ok, run[p].failed)
    <2> DEFINE m == [err |-> FALSE, ops |-> run[p].ok, errors |-> run[p].failed]
    <2>1. /\ run[p] \in RunState /\ Variant(p) \in VariantRecord
          /\ opened[p] # NoFile <=> Variant(p).engine = "duckdb"
          /\ Followed(p) <=> Variant(p).engine = "duckdb" \/ p \notin disturbed
      BY <1>1, WorkFact
    <2>2. m \in Measurement /\ m.ops = run[p].ok /\ m.errors = run[p].failed /\ Returns(p, m)
      BY <1>3, <2>1 DEF Measurement, RunState, Counts
    <2> HIDE DEF m
    <2>3. /\ Variant(p).exec = "concurrent"
          /\ Followed(p) => TakenFrom(Table(p)) = run[p].ok
          /\ run[p].ok + run[p].failed + ToDo(p) = Cardinality(Writer) * OpsPerWriter
          /\ Variant(p).engine = "postgres" => run[p].failed = 0
      BY <1>1, <1>3 DEF RacerInv, DoesItsVariant, TableFollows, UpdatesAddUp
    <2>4. ToDo(p) = 0
      <3> DEFINE n == [w \in Writer |-> run[p].writers[w].left]
      <3>1. \A w \in Writer : n[w] = 0
        BY <1>1 DEF Resting
      <3>2. IsFiniteSet(Writer) /\ Cardinality(Writer) \in Nat /\ 0 \in Nat
        BY EngineRaceAssumption, FS_CardinalityType
      <3>3. ToDo(p) = Total(n, Writer)
        BY DEF ToDo
      <3> HIDE DEF n
      <3>4. ToDo(p) = Cardinality(Writer) * 0
        BY <3>1, <3>2, <3>3, TotalAlike
      <3>5. QED
        BY <3>2, <3>4
    <2>5. Right(Variant(p), m)
      <3>1. run[p].ok + run[p].failed = Cardinality(Writer) * OpsPerWriter
        <4>1. run[p].ok \in Nat /\ run[p].failed \in Nat
          BY <2>1 DEF RunState
        <4> DEFINE all == Cardinality(Writer) * OpsPerWriter
        <4>2. run[p].ok + run[p].failed + 0 = all
          BY <2>3, <2>4
        <4> HIDE DEF all
        <4>3. run[p].ok + run[p].failed = all
          BY <4>1, <4>2
        <4>4. QED
          BY <4>3 DEF all
      <3>2. QED
        BY <2>2, <2>3, <3>1 DEF Right
    <2>6. \A q \in Racer \ {p} : run'[q] = run[q]
      BY <2>2, Returned
    <2>7. LeavesOthers(p) /\ StoresKept(p)
      BY <1>1, <2>6 DEF LeavesOthers, RacerInv, HasItsFile, RaceTypeOK, StoresKept
    <2>8. db'[Store(p)][TableOf(p)] = Table(p)
      BY <1>1 DEF Table
    <2>9. QED
      BY <1>1, <2>1, <2>2, <2>3, <2>5, <2>7, <2>8, ReturnsKeeps DEF Measuring
  <1>4. QED
    BY <1>2, <1>3 DEF WritersEnd

(* Every step of a race.                                                   *)
LEMMA RaceKeeps ==
  ASSUME RaceTypeOK, NEW p \in Racer, \A q \in Racer : RacerInv(q), Race(p)
  PROVE  RaceTypeOK' /\ LeavesOthers(p) /\ \A q \in Racer : RacerInv(q)'
  <1>1. RacerInv(p)
    OBVIOUS
  <1>2. RaceStepKeeps(p)
    <2>1. CASE ChooseArgs(p)
      BY <1>1, <2>1, ChooseArgsKeeps
    <2>2. CASE NextVariant(p)
      BY <1>1, <2>2, NextVariantKeeps
    <2>3. CASE EndVariant(p)
      BY <1>1, <2>3, EndVariantKeeps
    <2>4. CASE WarmUp(p)
      BY <1>1, <2>4, WarmUpKeeps
    <2>5. CASE TimedRun(p)
      BY <1>1, <2>5, TimedRunKeeps
    <2>6. CASE SetupStep(p)
      BY <1>1, <2>6, SetupStepKeeps
    <2>7. CASE LoopStep(p)
      BY <1>1, <2>7, LoopStepKeeps
    <2>8. CASE LoopEnds(p)
      BY <1>1, <2>8, LoopEndsKeeps
    <2>9. CASE BulkInsert(p)
      BY <1>1, <2>9, BulkInsertKeeps
    <2>10. ASSUME NEW w \in Writer, WriterBegins(p, w) PROVE RaceStepKeeps(p)
      BY <1>1, <2>10, WriterBeginsKeeps
    <2>11. ASSUME NEW w \in Writer, WriterUpdates(p, w) PROVE RaceStepKeeps(p)
      BY <1>1, <2>11, WriterUpdatesKeeps
    <2>12. ASSUME NEW w \in Writer, WriterCommits(p, w) PROVE RaceStepKeeps(p)
      BY <1>1, <2>12, WriterCommitsKeeps
    <2>13. ASSUME NEW w \in Writer, WriterFails(p, w) PROVE RaceStepKeeps(p)
      BY <1>1, <2>13, WriterFailsKeeps
    <2>14. CASE WritersEnd(p)
      BY <1>1, <2>14, WritersEndKeeps
    <2>15. CASE CloseScratch(p)
      BY <1>1, <2>15, CloseScratchKeeps
    <2>16. CASE RemoveScratch(p)
      BY <1>1, <2>16, RemoveScratchKeeps
    <2>17. QED
      BY <2>1, <2>2, <2>3, <2>4, <2>5, <2>6, <2>7, <2>8, <2>9, <2>10, <2>11, <2>12, <2>13,
         <2>14, <2>15, <2>16
      DEF Race
  <1>3. ASSUME NEW q \in Racer PROVE RacerInv(q)'
    <2>1. CASE q = p
      BY <1>2, <2>1 DEF RaceStepKeeps
    <2>2. CASE q # p
      BY <1>2, <2>2, RacerUntouched DEF RaceStepKeeps
    <2>3. QED
      BY <2>1, <2>2
  <1>4. QED
    BY <1>2, <1>3 DEF RaceStepKeeps

-----------------------------------------------------------------------------
(* Where a run begins, and how it is put away.                             *)

(* A racer keeps its question while it runs, and does not become idle.     *)
LEMMA RaceGoesOn ==
  ASSUME RaceTypeOK, NEW p \in Racer, Race(p)
  PROVE  run[p].pc # "idle" /\ run'[p].pc # "idle" /\ run'[p].sc = run[p].sc
  <1>1. run \in [Racer -> RunState] /\ run[p] \in RunState
    BY DEF RaceTypeOK
  <1>2. ASSUME NEW m, Returns(p, m) PROVE run'[p].pc # "idle" /\ run'[p].sc = run[p].sc
    <2> DEFINE t == [Idle EXCEPT !.pc = After(p), !.m = m, !.sc = run[p].sc,
                                 !.v = run[p].v, !.res = run[p].res]
    <2>1. run'[p] = t
      BY <1>1, <1>2 DEF Returns
    <2>2. t.pc = After(p) /\ t.sc = run[p].sc
      BY DEF Idle
    <2>3. QED
      BY <2>1, <2>2 DEF After
  <1>3. ASSUME Fails(p) PROVE run'[p].pc # "idle" /\ run'[p].sc = run[p].sc
    BY <1>2, <1>3 DEF Fails
  <1>4. ASSUME NEW a, NEW b, Counts(p, a, b) PROVE run'[p].pc # "idle" /\ run'[p].sc = run[p].sc
    BY <1>2, <1>4 DEF Counts
  <1>5. CASE ChooseArgs(p) \/ NextVariant(p) \/ EndVariant(p)
    <2>1. run[p].pc \in {"args", "variant", "measured"}
      BY <1>5 DEF ChooseArgs, NextVariant, EndVariant, At
    <2>2. CASE ChooseArgs(p)
      BY <1>1, <2>1, <2>2 DEF ChooseArgs, Goto, RunState
    <2>3. CASE NextVariant(p)
      BY <1>1, <2>1, <2>3 DEF NextVariant, Goto, RunState
    <2>4. CASE EndVariant(p)
      BY <1>1, <2>1, <2>4 DEF EndVariant, RunState
    <2>5. QED
      BY <1>5, <2>2, <2>3, <2>4
  <1>6. CASE WarmUp(p)
    BY <1>1, <1>3, <1>6 DEF WarmUp, At, RunState
  <1>7. CASE TimedRun(p)
    <2>1. run[p].pc = "timed"
      BY <1>7 DEF TimedRun, At
    <2>2. CASE run' = [run EXCEPT ![p].left = @ - 1]
      BY <1>1, <2>1, <2>2 DEF RunState
    <2>3. QED
      BY <1>3, <1>4, <1>7, <2>1, <2>2 DEF TimedRun
  <1>8. CASE SetupStep(p)
    <2>1. At(p, "setup") /\ run[p].pc = "setup" /\ (SetupDone(p) \/ Fails(p))
      BY <1>8 DEF SetupStep, At
    <2>2. CASE SetupDone(p)
      BY <2>1, <2>2, SetupDoneFact DEF WorkBegins
    <2>3. QED
      BY <1>3, <2>1, <2>2
  <1>9. CASE LoopStep(p)
    <2>1. run[p].pc = "loop"
      BY <1>9 DEF LoopStep, At
    <2>2. CASE Fails(p)
      BY <1>3, <2>1, <2>2
    <2>3. CASE \E left, tx, mine :
                 run' = [run EXCEPT ![p].left = left, ![p].tx = tx, ![p].mine = mine]
      <3>1. PICK left, tx, mine :
              run' = [run EXCEPT ![p].left = left, ![p].tx = tx, ![p].mine = mine]
        BY <2>3
      <3>2. QED
        BY <1>1, <2>1, <3>1 DEF RunState
    <2>4. Fails(p) \/ \E left, tx, mine :
            run' = [run EXCEPT ![p].left = left, ![p].tx = tx, ![p].mine = mine]
      BY <1>9 DEF LoopStep
    <2>5. QED
      BY <2>1, <2>2, <2>3, <2>4
  <1>10. CASE LoopEnds(p)
    BY <1>3, <1>4, <1>10 DEF LoopEnds, At
  <1>11. CASE BulkInsert(p)
    <2>1. run[p].pc = "bulk"
      BY <1>11 DEF BulkInsert, At
    <2>2. CASE run' = [run EXCEPT ![p].left = 1]
      BY <1>1, <2>1, <2>2 DEF RunState
    <2>3. QED
      BY <1>3, <1>4, <1>11, <2>1, <2>2 DEF BulkInsert
  <1>12. ASSUME NEW w \in Writer,
                \/ WriterBegins(p, w) \/ WriterUpdates(p, w)
                \/ WriterCommits(p, w) \/ WriterFails(p, w)
         PROVE  run[p].pc # "idle" /\ run'[p].pc # "idle" /\ run'[p].sc = run[p].sc
    <2>1. run[p].pc = "writers"
      BY <1>12 DEF WriterBegins, WriterUpdates, WriterCommits, WriterFails, Is, At
    <2>2. CASE WriterBegins(p, w)
      BY <1>1, <2>1, <2>2 DEF WriterBegins, RunState
    <2>3. CASE WriterUpdates(p, w)
      <3>1. Refused(p, w) \/ run' = [run EXCEPT ![p].writers[w].at = "locked"]
        BY <2>3 DEF WriterUpdates
      <3>2. CASE Refused(p, w)
        <4>1. run' = [run EXCEPT ![p].writers[w] = Next1(p, w), ![p].failed = @ + 1]
          BY <3>2 DEF Refused
        <4>2. QED
          BY <1>1, <2>1, <4>1 DEF RunState
      <3>3. CASE run' = [run EXCEPT ![p].writers[w].at = "locked"]
        BY <1>1, <2>1, <3>3 DEF RunState
      <3>4. QED
        BY <3>1, <3>2, <3>3
    <2>4. CASE WriterCommits(p, w)
      BY <1>1, <2>1, <2>4 DEF WriterCommits, RunState
    <2>5. CASE WriterFails(p, w)
      BY <1>1, <2>1, <2>5 DEF WriterFails, RunState
    <2>6. QED
      BY <1>12, <2>2, <2>3, <2>4, <2>5
  <1>13. CASE WritersEnd(p)
    BY <1>3, <1>4, <1>13 DEF WritersEnd, At
  <1>14. CASE CloseScratch(p) \/ RemoveScratch(p)
    BY <1>1, <1>14 DEF CloseScratch, RemoveScratch, Goto, At, RunState
  <1>15. QED
    BY <1>5, <1>6, <1>7, <1>8, <1>9, <1>10, <1>11, <1>12, <1>13, <1>14 DEF Race

(* The other racers keep their invariants.                                 *)
LEMMA OthersKept ==
  ASSUME RaceTypeOK, NEW p \in Racer, \A q \in Racer : RacerInv(q), RaceStepKeeps(p)
  PROVE  RaceTypeOK' /\ \A q \in Racer : RacerInv(q)'
  <1>1. RaceTypeOK' /\ RacerInv(p)' /\ LeavesOthers(p)
    BY DEF RaceStepKeeps
  <1>2. ASSUME NEW q \in Racer PROVE RacerInv(q)'
    <2>1. CASE q = p
      BY <1>1, <2>1
    <2>2. CASE q # p
      BY <1>1, <2>2, RacerUntouched
    <2>3. QED
      BY <2>1, <2>2
  <1>3. QED
    BY <1>1, <1>2

(* A run that is over is forgotten; a racer that is idle begins a new one. *)
LEMMA ResetKeeps ==
  ASSUME RaceTypeOK, NEW p \in Racer, \A q \in Racer : RacerInv(q),
         run[p].pc \in {"done", "failed", "panic"},
         run' = [run EXCEPT ![p] = Idle], UNCHANGED <<db, opened, path, wal>>,
         disturbed' \in {disturbed, disturbed \ {p}}
  PROVE  /\ RaceTypeOK' /\ \A q \in Racer : RacerInv(q)'
         /\ run'[p].pc = "idle" /\ \A q \in Racer \ {p} : run'[q] = run[q]
  <1> DEFINE t == Idle
  <1>1. /\ t \in RunState /\ t.pc = "idle" /\ ~t.tx /\ t.mine = 0 /\ t.ok = 0 /\ t.failed = 0
        /\ ~t.fatal /\ t.res = <<>>
    BY IdleType DEF Idle
  <1> HIDE DEF t
  <1>2. /\ run' \in [Racer -> RunState] /\ run'[p] = t
        /\ \A q \in Racer \ {p} : run'[q] = run[q]
    <2>1. run' = [run EXCEPT ![p] = t]
      BY DEF t
    <2>2. QED
      BY <1>1, <2>1, RunUpdate
  <1>3. opened[p] = NoFile /\ RacerInv(p)
    BY DEF RacerInv, HasItsFile, NeedsFile, At
  <1>4. InOrder(p)' /\ DoesItsVariant(p)' /\ MeasuresRight(p)'
    BY <1>1, <1>2 DEF InOrder, DoesItsVariant, MeasuresRight, At
  <1>5. RaceStepKeeps(p)
    BY <1>1, <1>2, <1>3, <1>4, NoFileKeeps
  <1>6. QED
    BY <1>1, <1>2, <1>5, OthersKept

(* A racer that is idle begins a run.                                      *)
LEMMA BeginKeeps ==
  ASSUME RaceTypeOK, NEW p \in Racer, \A q \in Racer : RacerInv(q), run[p].pc = "idle",
         NEW id \in DOMAIN scenarios, Begin(p, id), UNCHANGED <<db, opened, path, wal>>,
         disturbed' \in {disturbed, disturbed \ {p}}
  PROVE  /\ RaceTypeOK' /\ \A q \in Racer : RacerInv(q)'
         /\ run'[p].pc = "args" /\ run'[p].sc = id /\ \A q \in Racer \ {p} : run'[q] = run[q]
  <1> DEFINE t == [Idle EXCEPT !.pc = "args", !.sc = id]
  <1>1. /\ t \in RunState /\ t.pc = "args" /\ t.sc = id /\ t.v = 1 /\ t.res = <<>>
        /\ ~t.tx /\ t.mine = 0 /\ t.ok = 0 /\ t.failed = 0 /\ ~t.fatal
    <2>1. Idle \in RunState
      BY IdleType
    <2>2. t \in RunState
      BY <2>1 DEF RunState
    <2>3. QED
      BY <2>2 DEF Idle
  <1>2. run' = [run EXCEPT ![p] = t]
    BY DEF Begin
  <1> HIDE DEF t
  <1>3. /\ run' \in [Racer -> RunState] /\ run'[p] = t
        /\ \A q \in Racer \ {p} : run'[q] = run[q]
    BY <1>1, <1>2, RunUpdate
  <1>4. opened[p] = NoFile /\ RacerInv(p)
    BY DEF RacerInv, HasItsFile, NeedsFile, At
  <1>5. DoesItsVariant(p)' /\ MeasuresRight(p)'
    BY <1>1, <1>3 DEF DoesItsVariant, MeasuresRight, At
  <1>6. InOrder(p)'
    <2>1. Variants(p)' = scenarios[id].variants
      BY <1>1, <1>3 DEF Variants
    <2>2. Len(scenarios[id].variants) \in Nat
      BY ScenarioFact
    <2>3. 1 <= Len(scenarios[id].variants) + 1 /\ Len(<<>>) = 1 - 1
      BY <2>2
    <2>4. QED
      BY <1>1, <1>3, <2>1, <2>3 DEF InOrder, At
  <1>7. RaceStepKeeps(p)
    BY <1>1, <1>3, <1>4, <1>5, <1>6, NoFileKeeps
  <1>8. QED
    BY <1>1, <1>3, <1>7, OthersKept

(* The bench command is killed: its file stays, closed, and nobody else's  *)
(* is touched.                                                             *)
LEMMA KillKeeps ==
  ASSUME RaceTypeOK, NEW p \in Racer, \A q \in Racer : RacerInv(q),
         run' = [run EXCEPT ![p] = Idle], opened' = [opened EXCEPT ![p] = NoFile],
         UNCHANGED <<path, wal>>, Files(db), disturbed' = disturbed \ {p}
  PROVE  /\ RaceTypeOK' /\ \A q \in Racer : RacerInv(q)'
         /\ run'[p].pc = "idle" /\ \A q \in Racer \ {p} : run'[q] = run[q]
  <1> DEFINE t == Idle
  <1>1. /\ t \in RunState /\ t.pc = "idle" /\ ~t.tx /\ t.mine = 0 /\ t.ok = 0 /\ t.failed = 0
        /\ ~t.fatal /\ t.res = <<>>
    BY IdleType DEF Idle
  <1> HIDE DEF t
  <1>2. /\ run' \in [Racer -> RunState] /\ run'[p] = t
        /\ \A q \in Racer \ {p} : run'[q] = run[q]
    <2>1. run' = [run EXCEPT ![p] = t]
      BY DEF t
    <2>2. QED
      BY <1>1, <2>1, RunUpdate
  <1>3. /\ opened' \in [Racer -> File \cup {NoFile}] /\ opened'[p] = NoFile
        /\ \A q \in Racer \ {p} : opened'[q] = opened[q]
    BY DEF RaceTypeOK
  <1>4. /\ db' \in [{Postgres} \cup File -> Tables]
        /\ \A s \in {Postgres} \cup File :
             s = Postgres \/ (\E q \in Racer : opened'[q] = s) => db'[s] = db[s]
    BY FilesFact DEF RaceTypeOK
  <1>5. RaceTypeOK'
    BY <1>2, <1>3, <1>4 DEF RaceTypeOK
  <1>6. LeavesOthers(p)
    BY <1>2, <1>3, <1>4 DEF LeavesOthers, RaceTypeOK
  <1>7. /\ InOrder(p)' /\ DoesItsVariant(p)' /\ MeasuresRight(p)' /\ Rested(p)'
        /\ UpdatesAddUp(p)'
    BY <1>1, <1>2 DEF InOrder, DoesItsVariant, MeasuresRight, Rested, UpdatesAddUp, At
  <1>8. HasItsFile(p)' /\ TableFollows(p)'
    BY <1>1, <1>2, <1>3
    DEF HasItsFile, NeedsFile, TableFollows, Followed, Undisturbed, HasTable, At
  <1>9. RaceStepKeeps(p)
    BY <1>5, <1>6, <1>7, <1>8 DEF RaceStepKeeps, RacerInv
  <1>10. QED
    BY <1>1, <1>2, <1>9, OthersKept

-----------------------------------------------------------------------------
(* The requests: cookies, tokens and the logs kept under them.             *)

RacePart == RaceTypeOK /\ \A p \in Racer : RacerInv(p)
Owned == MeasuredAlone /\ RunsAreOwned
LogsKept ==
  /\ req \in [Request -> Handler] /\ jar \in [flash : Message, prevq : 0..count]
  /\ prev \in [kept : SUBSET (1..count), fresh : SUBSET (1..count)] /\ prev.fresh \subseteq prev.kept
  /\ count \in 0..MaxRequests /\ shown \in [1..MaxRequests -> Nat]
  /\ TokensAreUnique /\ ShownOnce
Page ==
  /\ running \in Message
  /\ DOMAIN results \subseteq DOMAIN scenarios
  /\ \A id \in DOMAIN results : results[id] \in Seq(Measurement)
  /\ ResultsAreWhole
  /\ command \in Nat

(* The invariant by what it is about: races, owners, cookies and pages.    *)
LEMMA Parts == ServerInv <=> RacePart /\ Owned /\ LogsKept /\ Page
  BY DEF ServerInv, TypeOK, RacePart, Owned, LogsKept, Page

(* The same of the next state.                                             *)
LEMMA PartsNext == ServerInv' <=> RacePart' /\ Owned' /\ LogsKept' /\ Page'
  BY DEF ServerInv, TypeOK, RacePart, Owned, LogsKept, Page

(* Nothing of the engine race changes.                                     *)
LEMMA RaceStays ==
  ASSUME RacePart, UNCHANGED raceVars
  PROVE  RacePart'
  <1>1. UNCHANGED <<run, db, opened, path, wal, disturbed>>
    BY DEF raceVars
  <1>2. RaceTypeOK'
    BY <1>1 DEF RacePart, RaceTypeOK
  <1>3. ASSUME NEW p \in Racer PROVE RacerInv(p)'
    <2>1. RacerInv(p)
      BY DEF RacePart
    <2>2. /\ Variants(p)' = Variants(p) /\ Variant(p)' = Variant(p) /\ TableOf(p)' = TableOf(p)
          /\ Setup(p)' = Setup(p) /\ Store(p)' = Store(p)
      BY <1>1, SameVariant
    <2>3. Table(p)' = Table(p)
      BY <1>1, <2>2 DEF Table
    <2>4. InOrder(p)' /\ DoesItsVariant(p)' /\ Rested(p)'
      BY <1>1, <2>1, <2>2 DEF RacerInv, InOrder, DoesItsVariant, Rested, At
    <2>5. HasItsFile(p)'
      BY <1>1, <2>1, <2>2 DEF RacerInv, HasItsFile, NeedsFile, At
    <2>6. UpdatesAddUp(p)' /\ MeasuresRight(p)'
      BY <1>1, <2>1, <2>2 DEF RacerInv, UpdatesAddUp, ToDo, MeasuresRight, At
    <2>7. TableFollows(p)'
      <3>1. (Followed(p)' <=> Followed(p)) /\ Done(p)' = Done(p)
        BY <1>1, <2>2, <2>3 DEF Followed, Undisturbed, HasTable, Done
      <3>2. QED
        BY <1>1, <2>1, <2>2, <2>3, <3>1 DEF RacerInv, TableFollows, At
    <2>8. QED
      BY <2>4, <2>5, <2>6, <2>7 DEF RacerInv
  <1>4. QED
    BY <1>2, <1>3 DEF RacePart

(* A request arrives: its number is new, and so is a token of that number. *)
LEMMA ArriveKeeps ==
  ASSUME ServerInv, NEW r \in Request, NEW handler \in {"race", "page", "post"},
         Arrive(r, handler), UNCHANGED <<raceVars, running, results, jar, prev, shown, command>>
  PROVE  ServerInv'
  <1> DEFINE new == [at |-> handler, id |-> count', flash |-> jar.flash, prevq |-> jar.prevq]
  <1>1. RacePart /\ Owned /\ LogsKept /\ Page
    BY Parts
  <1>2. /\ count \in 0..MaxRequests /\ MaxRequests \in Nat /\ count < MaxRequests
        /\ count' = count + 1 /\ req[r] = Free /\ req' = [req EXCEPT ![r] = new]
    BY <1>1, WebServerAssumption DEF Arrive, LogsKept
  <1>3. count' \in 0..MaxRequests /\ count' \in 1..MaxRequests /\ 0..count \subseteq 0..count'
        /\ 1..count \subseteq 1..count' /\ count' \notin 1..count /\ 0..count \subseteq Nat
    BY <1>2
  <1>4. new \in Handler /\ new.at = handler /\ new.id = count'
    BY <1>1, <1>3 DEF LogsKept, Handler
  <1> HIDE DEF new
  <1>5. /\ req' \in [Request -> Handler] /\ req'[r] = new
        /\ \A s \in Request \ {r} : req'[s] = req[s]
    BY <1>1, <1>2, <1>4 DEF LogsKept
  <1>6. req[r].at = "free" /\ req[r].id = 0
    BY <1>2 DEF Free
  <1>7. TokensAreUnique'
    <2>1. ASSUME NEW s \in Request
          PROVE  /\ IF req'[s].at = "free" THEN req'[s] = Free ELSE req'[s].id \in 1..count'
                 /\ req'[s].at = "post" => shown[req'[s].id] = 0 /\ req'[s].id \notin prev.kept
      <3>1. CASE s = r
        <4>1. prev.kept \subseteq 1..count
          BY <1>1 DEF LogsKept
        <4>2. shown[count'] = 0
          BY <1>1, <1>2, <1>3 DEF LogsKept, TokensAreUnique
        <4>3. QED
          BY <1>3, <1>4, <1>5, <3>1, <4>1, <4>2
      <3>2. CASE s # r
        BY <1>1, <1>3, <1>5, <3>2 DEF LogsKept, TokensAreUnique
      <3>3. QED
        BY <3>1, <3>2
    <2>2. ASSUME NEW s \in Request, NEW t \in Request, req'[s].at # "free", req'[s].id = req'[t].id
          PROVE  s = t
      <3>1. ASSUME NEW u \in Request, u # r PROVE req'[u].id # count'
        <4>1. req[u].at = "free" => req[u].id = 0
          BY <1>1 DEF LogsKept, TokensAreUnique, Free
        <4>2. req[u].at # "free" => req[u].id \in 1..count
          BY <1>1 DEF LogsKept, TokensAreUnique
        <4>3. QED
          BY <1>2, <1>3, <1>5, <3>1, <4>1, <4>2
      <3>2. CASE s = r \/ t = r
        BY <1>4, <1>5, <2>2, <3>1, <3>2
      <3>3. CASE s # r /\ t # r
        BY <1>1, <1>5, <2>2, <3>3 DEF LogsKept, TokensAreUnique
      <3>4. QED
        BY <3>2, <3>3
    <2>3. \A t \in 1..MaxRequests : t \in prev.kept \/ t > count' => shown[t] = 0
      BY <1>1, <1>2 DEF LogsKept, TokensAreUnique
    <2>4. QED
      BY <2>1, <2>2, <2>3 DEF TokensAreUnique
  <1>8. LogsKept'
    <2>1. jar' \in [flash : Message, prevq : 0..count']
      BY <1>1, <1>3 DEF LogsKept
    <2>2. prev' \in [kept : SUBSET (1..count'), fresh : SUBSET (1..count')]
      BY <1>1, <1>3 DEF LogsKept
    <2>3. QED
      BY <1>1, <1>3, <1>5, <1>7, <2>1, <2>2 DEF LogsKept, ShownOnce
  <1>9. run' = run /\ (\A s \in Request : req'[s].at = "racing" <=> req[s].at = "racing")
    BY <1>4, <1>5, <1>6 DEF raceVars
  <1>10. Owned'
    BY <1>1, <1>9 DEF Owned, MeasuredAlone, RunsAreOwned
  <1>11. RacePart'
    BY <1>1, RaceStays
  <1>12. Page'
    BY <1>1 DEF Page, ResultsAreWhole
  <1>13. QED
    BY <1>8, <1>10, <1>11, <1>12, PartsNext

(* A request is answered.  A log is shown only when it is thrown away, and *)
(* kept only by the request it belongs to.                                 *)
LEMMA AnswerKeeps ==
  ASSUME LogsKept, NEW r \in Request, Answered(r), UNCHANGED count,
         jar' \in [flash : Message, prevq : 0..count],
         prev' \in [kept : SUBSET (1..count), fresh : SUBSET (1..count)],
         prev'.fresh \subseteq prev'.kept, shown' \in [1..MaxRequests -> Nat],
         \A t \in 1..MaxRequests : shown'[t] # shown[t] =>
           t \in prev.kept /\ t \notin prev'.kept /\ shown'[t] = shown[t] + 1,
         \A t \in prev'.kept : t \in prev.kept \/ (req[r].at = "post" /\ t = req[r].id)
  PROVE  /\ LogsKept' /\ req'[r].at = "free"
         /\ \A s \in Request \ {r} : req'[s] = req[s]
  <1>1. Free \in Handler /\ Free.at = "free"
    BY WebServerAssumption DEF Free, Handler, Message
  <1>2. /\ req' \in [Request -> Handler] /\ req'[r] = Free
        /\ \A s \in Request \ {r} : req'[s] = req[s]
    BY <1>1 DEF LogsKept, Answered
  <1>3. /\ \A s \in Request : IF req[s].at = "free" THEN req[s] = Free ELSE req[s].id \in 1..count
        /\ \A s, t \in Request : req[s].at # "free" /\ req[s].id = req[t].id => s = t
        /\ \A s \in Request : req[s].at = "post" => shown[req[s].id] = 0 /\ req[s].id \notin prev.kept
        /\ \A t \in 1..MaxRequests : t \in prev.kept \/ t > count => shown[t] = 0
        /\ prev.kept \subseteq 1..count /\ count \in 0..MaxRequests /\ MaxRequests \in Nat
    BY WebServerAssumption DEF LogsKept, TokensAreUnique
  <1>4. 1..count \subseteq 1..MaxRequests /\ \A t \in 1..count : ~(t > count)
    BY <1>3
  <1>5. TokensAreUnique'
    <2>1. \A s \in Request : IF req'[s].at = "free" THEN req'[s] = Free ELSE req'[s].id \in 1..count
      BY <1>1, <1>2, <1>3
    <2>2. ASSUME NEW s \in Request, NEW t \in Request, req'[s].at # "free", req'[s].id = req'[t].id
          PROVE  s = t
      <3>1. s # r /\ req'[s] = req[s] /\ req[s].id \in 1..count
        BY <1>1, <1>2, <1>3, <2>2
      <3>2. t # r
        BY <1>2, <2>2, <3>1 DEF Free
      <3>3. QED
        BY <1>2, <1>3, <2>2, <3>1, <3>2
    <2>3. ASSUME NEW s \in Request, req'[s].at = "post"
          PROVE  shown'[req'[s].id] = 0 /\ req'[s].id \notin prev'.kept
      <3>1. s # r /\ req'[s] = req[s] /\ req[s].id \in 1..count
        BY <1>1, <1>2, <1>3, <2>3
      <3>2. shown[req[s].id] = 0 /\ req[s].id \notin prev.kept
        BY <1>3, <2>3, <3>1
      <3>3. req[s].id \notin prev'.kept
        BY <1>3, <2>3, <3>1, <3>2
      <3>4. QED
        BY <1>4, <3>1, <3>2, <3>3
    <2>4. \A t \in 1..MaxRequests : t \in prev'.kept \/ t > count => shown'[t] = 0
      BY <1>3, <1>4
    <2>5. QED
      BY <2>1, <2>2, <2>3, <2>4 DEF TokensAreUnique
  <1>6. ShownOnce'
    <2>1. ASSUME NEW t \in 1..MaxRequests PROVE shown'[t] <= 1
      <3>1. CASE shown'[t] = shown[t]
        BY <2>1, <3>1 DEF LogsKept, ShownOnce
      <3>2. CASE shown'[t] # shown[t]
        BY <1>3, <2>1, <3>2
      <3>3. QED
        BY <3>1, <3>2
    <2>2. QED
      BY <2>1 DEF ShownOnce
  <1>7. QED
    BY <1>1, <1>2, <1>5, <1>6 DEF LogsKept

(* A response sends a message of the page or none.                         *)
LEMMA FlashType ==
  ASSUME LogsKept, NEW r \in Request, NEW flash \in Message
  PROVE  FlashAfter(r, flash) \in Message
  BY DEF FlashAfter, LogsKept, Message

(* The three ways to answer: a redirect, a page, a panic.                  *)
LEMMA RedirectKeeps ==
  ASSUME LogsKept, NEW r \in Request, NEW flash \in Message, Redirect(r, flash, 0),
         UNCHANGED <<count, prev, shown>>
  PROVE  LogsKept' /\ req'[r].at = "free" /\ \A s \in Request \ {r} : req'[s] = req[s]
  <1>1. jar' \in [flash : Message, prevq : 0..count]
    BY FlashType DEF Redirect, LogsKept
  <1>2. Answered(r)
    BY DEF Redirect
  <1>3. /\ prev' \in [kept : SUBSET (1..count), fresh : SUBSET (1..count)]
        /\ prev'.fresh \subseteq prev'.kept /\ shown' \in [1..MaxRequests -> Nat]
    BY DEF LogsKept
  <1>4. QED
    BY <1>1, <1>2, <1>3, AnswerKeeps

(* A panic is answered.                                                    *)
LEMMA RecoverKeeps ==
  ASSUME LogsKept, NEW r \in Request, Recover(r), UNCHANGED <<count, prev, shown>>
  PROVE  LogsKept' /\ req'[r].at = "free" /\ \A s \in Request \ {r} : req'[s] = req[s]
  <1>1. None \in Message
    BY DEF Message
  <1>2. jar' \in [flash : Message, prevq : 0..count]
    BY <1>1, FlashType DEF Recover, LogsKept
  <1>3. Answered(r)
    BY DEF Recover
  <1>4. /\ prev' \in [kept : SUBSET (1..count), fresh : SUBSET (1..count)]
        /\ prev'.fresh \subseteq prev'.kept /\ shown' \in [1..MaxRequests -> Nat]
    BY DEF LogsKept
  <1>5. QED
    BY <1>2, <1>3, <1>4, AnswerKeeps

(* A page is shown: with the log the request has the token of, if it is    *)
(* still kept.                                                             *)
LEMMA RenderKeeps ==
  ASSUME LogsKept, NEW r \in Request, Render(r), UNCHANGED count
  PROVE  LogsKept' /\ req'[r].at = "free" /\ \A s \in Request \ {r} : req'[s] = req[s]
  <1> DEFINE token == req[r].prevq
  <1>1. None \in Message /\ count \in 0..MaxRequests /\ MaxRequests \in Nat
    BY WebServerAssumption DEF Message, LogsKept
  <1>2. jar' \in [flash : Message, prevq : 0..count]
    <2>1. FlashAfter(r, None) \in Message
      BY <1>1, FlashType
    <2>2. 0 \in 0..count /\ jar.prevq \in 0..count
      BY <1>1 DEF LogsKept
    <2>3. QED
      BY <2>1, <2>2 DEF Render
  <1>3. Answered(r) /\ take(token)
    BY DEF Render
  <1> HIDE DEF token
  <1>4. /\ prev' \in [kept : SUBSET (1..count), fresh : SUBSET (1..count)]
        /\ prev'.kept = prev.kept \ {token} /\ prev'.fresh = prev.fresh \ {token}
        /\ prev'.fresh \subseteq prev'.kept
    BY <1>3 DEF take, LogsKept
  <1>5. /\ shown' \in [1..MaxRequests -> Nat]
        /\ \A t \in 1..MaxRequests : shown'[t] # shown[t] =>
             t = token /\ t \in prev.kept /\ shown'[t] = shown[t] + 1
    <2>1. CASE token \in prev.kept
      <3>1. shown' = [shown EXCEPT ![token] = @ + 1] /\ token \in 1..count
        BY <1>3, <2>1 DEF take, LogsKept
      <3>2. token \in 1..MaxRequests /\ shown \in [1..MaxRequests -> Nat]
        BY <1>1, <3>1 DEF LogsKept
      <3>3. QED
        BY <2>1, <3>1, <3>2
    <2>2. CASE token \notin prev.kept
      BY <1>3, <2>2 DEF take, LogsKept
    <2>3. QED
      BY <2>1, <2>2
  <1>6. QED
    BY <1>2, <1>3, <1>4, <1>5, AnswerKeeps

(* A log is kept under the number of its request.                          *)
LEMMA PutKeeps ==
  ASSUME LogsKept, NEW r \in Request, req[r].at = "post", put(req[r].id),
         Redirect(r, None, req[r].id), UNCHANGED <<count, shown>>
  PROVE  LogsKept' /\ req'[r].at = "free" /\ \A s \in Request \ {r} : req'[s] = req[s]
  <1> DEFINE token == req[r].id
  <1>1. token \in 1..count /\ count \in 0..MaxRequests /\ MaxRequests \in Nat /\ None \in Message
    BY WebServerAssumption DEF LogsKept, TokensAreUnique, Message
  <1>2. /\ Answered(r) /\ prev' = [kept |-> prev.fresh \cup {token}, fresh |-> prev.fresh \cup {token}]
        /\ jar' = [flash |-> FlashAfter(r, None), prevq |-> IF token = 0 THEN jar.prevq ELSE token]
    BY DEF Redirect, put
  <1>3. jar' \in [flash : Message, prevq : 0..count]
    <2>1. FlashAfter(r, None) \in Message
      BY <1>1, FlashType
    <2>2. token \in 0..count /\ jar.prevq \in 0..count
      BY <1>1 DEF LogsKept
    <2>3. QED
      BY <1>2, <2>1, <2>2
  <1>4. /\ prev' \in [kept : SUBSET (1..count), fresh : SUBSET (1..count)]
        /\ prev'.fresh \subseteq prev'.kept
        /\ \A t \in prev'.kept : t \in prev.kept \/ t = token
    BY <1>1, <1>2 DEF LogsKept
  <1>5. shown' \in [1..MaxRequests -> Nat]
    BY DEF LogsKept
  <1>6. QED
    BY <1>2, <1>3, <1>4, <1>5, AnswerKeeps

-----------------------------------------------------------------------------
(* Each action keeps the invariant of the server.                          *)

(* A request that measured nothing is answered.                            *)
LEMMA OwnedStays ==
  ASSUME Owned, NEW r \in Request, req[r].at # "racing", req'[r].at = "free",
         \A s \in Request \ {r} : req'[s] = req[s], UNCHANGED <<run, running>>
  PROVE  Owned'
  <1>1. \A s \in Request : req'[s].at = "racing" <=> req[s].at = "racing"
    OBVIOUS
  <1>2. QED
    BY <1>1 DEF Owned, MeasuredAlone, RunsAreOwned

(* The one that measures is answered: nobody measures.                     *)
LEMMA OwnedEnds ==
  ASSUME Owned, NEW r \in Request, req[r].at = "racing", req'[r].at = "free",
         \A s \in Request \ {r} : req'[s] = req[s], run'[r].pc = "idle",
         \A s \in Racer \ {r} : run'[s] = run[s]
  PROVE  Owned'
  <1>1. \A s \in Request : req'[s].at # "racing"
    <2>1. \A s \in Request \ {r} : req[s].at # "racing"
      BY DEF Owned, MeasuredAlone
    <2>2. QED
      BY <2>1
  <1>2. ASSUME NEW s \in Request PROVE run'[s].pc = "idle"
    <2>1. Request \subseteq Racer
      BY WebServerAssumption
    <2>2. CASE s = r
      BY <2>2
    <2>3. CASE s # r
      <3>1. req[s].at # "racing" /\ run'[s] = run[s]
        BY <1>1, <2>1, <2>3
      <3>2. QED
        BY <3>1 DEF Owned, RunsAreOwned
    <2>4. QED
      BY <2>2, <2>3
  <1>3. QED
    BY <1>1, <1>2 DEF Owned, MeasuredAlone, RunsAreOwned

(* The results are not touched.                                            *)
LEMMA PageStays ==
  ASSUME Page, UNCHANGED <<running, results, command>>
  PROVE  Page'
  BY DEF Page, ResultsAreWhole

(* Neither requests nor cookies are touched.                               *)
LEMMA KeptStays ==
  ASSUME LogsKept, UNCHANGED <<req, jar, prev, count, shown>>
  PROVE  LogsKept'
  BY DEF LogsKept, TokensAreUnique, ShownOnce

(* The flag was not set, so nobody measures: one request begins to.        *)
LEMMA StartRaceKeeps ==
  ASSUME ServerInv, NEW r \in Request, StartRace(r)
  PROVE  ServerInv'
  <1>1. RacePart /\ Owned /\ LogsKept /\ Page /\ r \in Racer
    BY Parts, WebServerAssumption
  <1>2. /\ req[r].at = "race" /\ running = None
        /\ UNCHANGED <<db, opened, path, wal, disturbed, results, jar, prev, count, shown, command>>
        /\ req' = [req EXCEPT ![r].at = "racing"]
    BY DEF StartRace, MayStart
  <1>3. req[r].id \in 1..MaxRequests
    <2>1. req[r].id \in 1..count /\ count \in 0..MaxRequests /\ MaxRequests \in Nat
      BY <1>1, <1>2, WebServerAssumption DEF LogsKept, TokensAreUnique
    <2>2. QED
      BY <2>1
  <1>4. PICK id \in Offered[req[r].id] : running' = id /\ Begin(r, id)
    BY DEF StartRace
  <1>5. id \in DOMAIN scenarios
    BY <1>3, <1>4, WebServerAssumption
  <1>6. \A s \in Request : req[s].at # "racing"
    <2>1. ASSUME NEW s \in Request, req[s].at = "racing" PROVE FALSE
      <3>1. run[s].sc = None /\ run[s].pc # "idle" /\ s \in Racer
        BY <1>1, <1>2, <2>1, WebServerAssumption DEF Owned, MeasuredAlone, RunsAreOwned
      <3>2. run[s].sc \in DOMAIN scenarios
        BY <1>1, <3>1 DEF RacePart, RacerInv, InOrder
      <3>3. QED
        BY <3>1, <3>2, ScenarioFact DEF None
    <2>2. QED
      BY <2>1
  <1>7. run[r].pc = "idle"
    BY <1>1, <1>6 DEF Owned, RunsAreOwned
  <1>8. /\ RaceTypeOK' /\ \A q \in Racer : RacerInv(q)'
        /\ run'[r].pc = "args" /\ run'[r].sc = id /\ \A q \in Racer \ {r} : run'[q] = run[q]
    BY <1>1, <1>2, <1>4, <1>5, <1>7, BeginKeeps DEF RacePart
  <1>9. RacePart'
    BY <1>8 DEF RacePart
  <1> DEFINE new == [req[r] EXCEPT !.at = "racing"]
  <1>10. /\ new \in Handler /\ new.at = "racing" /\ new.id = req[r].id
         /\ new.flash = req[r].flash /\ new.prevq = req[r].prevq
    BY <1>1 DEF LogsKept, Handler
  <1>11. req' = [req EXCEPT ![r] = new]
    BY <1>2
  <1> HIDE DEF new
  <1>12. /\ req' \in [Request -> Handler] /\ req'[r] = new
         /\ \A s \in Request \ {r} : req'[s] = req[s]
    BY <1>1, <1>10, <1>11 DEF LogsKept
  <1>13. Owned'
    <2>1. \A s \in Request : req'[s].at = "racing" <=> s = r
      BY <1>6, <1>10, <1>12
    <2>2. \A s \in Request : run'[s].pc # "idle" <=> s = r
      BY <1>1, <1>6, <1>8, WebServerAssumption DEF Owned, RunsAreOwned
    <2>3. QED
      BY <1>4, <1>8, <2>1, <2>2 DEF Owned, MeasuredAlone, RunsAreOwned
  <1>14. LogsKept'
    <2>1. \A s \in Request : /\ req'[s].id = req[s].id
                             /\ req'[s].at = "free" <=> req[s].at = "free"
                             /\ req'[s].at = "post" <=> req[s].at = "post"
                             /\ req[s].at = "free" => req'[s] = req[s]
      BY <1>2, <1>10, <1>12
    <2>2. TokensAreUnique'
      BY <1>1, <1>2, <2>1 DEF LogsKept, TokensAreUnique
    <2>3. QED
      BY <1>1, <1>2, <1>12, <2>2 DEF LogsKept, ShownOnce
  <1>15. Page'
    BY <1>1, <1>2, <1>4, <1>5 DEF Page, ResultsAreWhole, Message
  <1>16. QED
    BY <1>9, <1>13, <1>14, <1>15, PartsNext

(* A second request is sent back with a message.                           *)
LEMMA RefuseRaceKeeps ==
  ASSUME ServerInv, NEW r \in Request, RefuseRace(r)
  PROVE  ServerInv'
  <1>1. RacePart /\ Owned /\ LogsKept /\ Page
    BY Parts
  <1>2. /\ req[r].at = "race" /\ Redirect(r, running, 0)
        /\ UNCHANGED <<raceVars, running, results, prev, count, shown, command>>
    BY DEF RefuseRace
  <1>3. running \in Message
    BY <1>1 DEF Page
  <1>4. LogsKept' /\ req'[r].at = "free" /\ \A s \in Request \ {r} : req'[s] = req[s]
    BY <1>1, <1>2, <1>3, RedirectKeeps
  <1>5. Owned'
    BY <1>1, <1>2, <1>4, OwnedStays DEF raceVars
  <1>6. RacePart' /\ Page'
    BY <1>1, <1>2, RaceStays, PageStays
  <1>7. QED
    BY <1>4, <1>5, <1>6, PartsNext

(* The results of a race that is done are those of all its variants.       *)
LEMMA PublishRaceKeeps ==
  ASSUME ServerInv, NEW r \in Request, PublishRace(r)
  PROVE  ServerInv'
  <1>1. RacePart /\ Owned /\ LogsKept /\ Page /\ r \in Racer
    BY Parts, WebServerAssumption
  <1>2. /\ req[r].at = "racing" /\ run[r].pc \in {"done", "failed"} /\ running' = None
        /\ run' = [run EXCEPT ![r] = Idle] /\ UNCHANGED <<db, opened, path, wal, disturbed, count, command>>
    BY DEF PublishRace, Clears
  <1>3. /\ RaceTypeOK' /\ \A q \in Racer : RacerInv(q)'
        /\ run'[r].pc = "idle" /\ \A q \in Racer \ {r} : run'[q] = run[q]
    BY <1>1, <1>2, ResetKeeps DEF RacePart
  <1>4. None \in Message
    BY DEF Message
  <1>5. CASE /\ At(r, "done") /\ Redirect(r, None, 0) /\ UNCHANGED <<prev, shown>>
             /\ results' = [id \in DOMAIN results \cup {run[r].sc} |->
                            IF id = run[r].sc THEN run[r].res ELSE results[id]]
    <2>1. LogsKept' /\ req'[r].at = "free" /\ \A s \in Request \ {r} : req'[s] = req[s]
      BY <1>1, <1>2, <1>4, <1>5, RedirectKeeps
    <2>2. /\ run[r].sc \in DOMAIN scenarios /\ run[r].res \in Seq(Measurement)
          /\ Len(run[r].res) = Len(scenarios[run[r].sc].variants)
      <3>1. /\ run[r] \in RunState /\ run[r].sc \in DOMAIN scenarios
            /\ Len(run[r].res) = run[r].v - 1 /\ run[r].v = Len(Variants(r)) + 1
        BY <1>1, <1>5 DEF RacePart, RaceTypeOK, RacerInv, InOrder, At
      <3>2. Len(scenarios[run[r].sc].variants) \in Nat
        BY <3>1, ScenarioFact
      <3>3. QED
        BY <3>1, <3>2 DEF Variants, RunState
    <2>3. Page'
      BY <1>1, <1>2, <1>4, <1>5, <2>2 DEF Page, ResultsAreWhole
    <2>4. Owned'
      BY <1>1, <1>2, <1>3, <2>1, OwnedEnds
    <2>5. QED
      BY <1>3, <2>1, <2>3, <2>4, PartsNext DEF RacePart
  <1>6. CASE At(r, "failed") /\ Render(r) /\ UNCHANGED results
    <2>1. LogsKept' /\ req'[r].at = "free" /\ \A s \in Request \ {r} : req'[s] = req[s]
      BY <1>1, <1>2, <1>6, RenderKeeps
    <2>2. Owned'
      BY <1>1, <1>2, <1>3, <2>1, OwnedEnds
    <2>3. Page'
      BY <1>1, <1>2, <1>4, <1>6 DEF Page, ResultsAreWhole
    <2>4. QED
      BY <1>3, <2>1, <2>2, <2>3, PartsNext DEF RacePart
  <1>7. QED
    BY <1>5, <1>6 DEF PublishRace

(* A race panics: nobody measures, and the flag stays set.                 *)
LEMMA RacePanicsKeeps ==
  ASSUME ServerInv, NEW r \in Request, RacePanics(r)
  PROVE  ServerInv'
  <1>1. RacePart /\ Owned /\ LogsKept /\ Page /\ r \in Racer
    BY Parts, WebServerAssumption
  <1>2. /\ req[r].at = "racing" /\ run[r].pc = "panic" /\ run' = [run EXCEPT ![r] = Idle]
        /\ Recover(r)
        /\ UNCHANGED <<db, opened, path, wal, disturbed, running, results, prev, count, shown, command>>
    BY DEF RacePanics, At
  <1>3. /\ RaceTypeOK' /\ \A q \in Racer : RacerInv(q)'
        /\ run'[r].pc = "idle" /\ \A q \in Racer \ {r} : run'[q] = run[q]
    BY <1>1, <1>2, ResetKeeps DEF RacePart
  <1>4. LogsKept' /\ req'[r].at = "free" /\ \A s \in Request \ {r} : req'[s] = req[s]
    BY <1>1, <1>2, RecoverKeeps
  <1>5. Owned' /\ Page'
    BY <1>1, <1>2, <1>3, <1>4, OwnedEnds, PageStays
  <1>6. QED
    BY <1>3, <1>4, <1>5, PartsNext DEF RacePart

(* A page arrives and is shown.                                            *)
LEMMA ShowPageKeeps ==
  ASSUME ServerInv, NEW r \in Request, ShowPage(r)
  PROVE  ServerInv'
  <1>1. RacePart /\ Owned /\ LogsKept /\ Page
    BY Parts
  <1>2. UNCHANGED <<raceVars, running, results, command>>
    BY DEF ShowPage
  <1>3. CASE Arrive(r, "page") /\ UNCHANGED <<jar, prev, shown>>
    BY <1>2, <1>3, ArriveKeeps
  <1>4. CASE req[r].at = "page" /\ Render(r) /\ UNCHANGED count
    <2>1. LogsKept' /\ req'[r].at = "free" /\ \A s \in Request \ {r} : req'[s] = req[s]
      BY <1>1, <1>4, RenderKeeps
    <2>2. Owned' /\ RacePart' /\ Page'
      BY <1>1, <1>2, <1>4, <2>1, OwnedStays, RaceStays, PageStays DEF raceVars
    <2>3. QED
      BY <2>1, <2>2, PartsNext
  <1>5. QED
    BY <1>3, <1>4 DEF ShowPage

(* A POST arrives, and is redirected with the token of its log or fails.   *)
LEMMA PostKeeps ==
  ASSUME ServerInv, NEW r \in Request, Post(r)
  PROVE  ServerInv'
  <1>1. RacePart /\ Owned /\ LogsKept /\ Page
    BY Parts
  <1>2. UNCHANGED <<raceVars, running, results, command>>
    BY DEF Post
  <1>3. CASE Arrive(r, "post") /\ UNCHANGED <<jar, prev, shown>>
    BY <1>2, <1>3, ArriveKeeps
  <1>4. ASSUME req[r].at = "post", LogsKept', req'[r].at = "free",
               \A s \in Request \ {r} : req'[s] = req[s]
        PROVE  ServerInv'
    <2>1. Owned' /\ RacePart' /\ Page'
      BY <1>1, <1>2, <1>4, OwnedStays, RaceStays, PageStays DEF raceVars
    <2>2. QED
      BY <1>4, <2>1, PartsNext
  <1>5. CASE /\ req[r].at = "post" /\ put(req[r].id) /\ Redirect(r, None, req[r].id)
             /\ UNCHANGED <<count, shown>>
    BY <1>1, <1>4, <1>5, PutKeeps
  <1>6. CASE req[r].at = "post" /\ Render(r) /\ UNCHANGED count
    BY <1>1, <1>4, <1>6, RenderKeeps
  <1>7. QED
    BY <1>3, <1>5, <1>6 DEF Post

(* A step of a race, of a request or of the command.                       *)
LEMMA ServeKeeps ==
  ASSUME ServerInv, NEW p \in Racer, Serve(p)
  PROVE  ServerInv'
  <1>1. RacePart /\ Owned /\ LogsKept /\ Page
    BY Parts
  <1>2. Race(p) /\ UNCHANGED <<running, results, req, jar, prev, count, shown, command>>
    BY DEF Serve, webVars
  <1>3. /\ RaceTypeOK' /\ LeavesOthers(p) /\ \A q \in Racer : RacerInv(q)'
        /\ run[p].pc # "idle" /\ run'[p].pc # "idle" /\ run'[p].sc = run[p].sc
    BY <1>1, <1>2, RaceKeeps, RaceGoesOn DEF RacePart
  <1>4. \A q \in Racer : /\ run'[q].sc = run[q].sc
                         /\ run'[q].pc = "idle" <=> run[q].pc = "idle"
    BY <1>3 DEF LeavesOthers
  <1>5. Request \subseteq Racer
    BY WebServerAssumption
  <1>6. Owned'
    BY <1>1, <1>2, <1>4, <1>5 DEF Owned, MeasuredAlone, RunsAreOwned
  <1>7. LogsKept' /\ Page'
    BY <1>1, <1>2, KeptStays, PageStays
  <1>8. QED
    BY <1>3, <1>6, <1>7, PartsNext DEF RacePart

(* The command is not a request: its runs concern nobody else.             *)
LEMMA CommandApart ==
  ASSUME Owned, \A q \in Racer \ {Command} : run'[q] = run[q], UNCHANGED <<req, running>>
  PROVE  Owned'
  <1>1. \A r \in Request : run'[r] = run[r]
    BY WebServerAssumption
  <1>2. QED
    BY <1>1 DEF Owned, MeasuredAlone, RunsAreOwned

(* The bench command begins a run, prints it or is killed.                 *)
LEMMA CommandKeeps ==
  ASSUME ServerInv, CommandRaces \/ CommandPrints \/ KillCommand
  PROVE  ServerInv'
  <1>1. RacePart /\ Owned /\ LogsKept /\ Page /\ Command \in Racer
    BY Parts, WebServerAssumption
  <1>2. CASE CommandRaces
    <2>1. /\ run[Command].pc = "idle" /\ command \in DOMAIN Asked /\ Begin(Command, Asked[command])
          /\ UNCHANGED <<db, opened, path, wal, disturbed, running, results, req, jar, prev, count, shown, command>>
      BY <1>2 DEF CommandRaces, At, webVars
    <2>2. Asked[command] \in DOMAIN scenarios
      BY <2>1, WebServerAssumption
    <2>3. /\ RaceTypeOK' /\ \A q \in Racer : RacerInv(q)'
          /\ \A q \in Racer \ {Command} : run'[q] = run[q]
      BY <1>1, <2>1, <2>2, BeginKeeps DEF RacePart
    <2>4. Owned' /\ LogsKept' /\ Page'
      BY <1>1, <2>1, <2>3, CommandApart, KeptStays, PageStays
    <2>5. QED
      BY <2>3, <2>4, PartsNext DEF RacePart
  <1>3. command + 1 \in Nat /\ Stopped \in Nat
    BY <1>1, WebServerAssumption DEF Page, Stopped
  <1>4. CASE CommandPrints
    <2>1. /\ run[Command].pc \in {"done", "failed", "panic"}
          /\ run' = [run EXCEPT ![Command] = Idle] /\ command' \in {command + 1, Stopped}
          /\ UNCHANGED <<db, opened, path, wal, disturbed, running, results, req, jar, prev, count, shown>>
      BY <1>4 DEF CommandPrints
    <2>2. /\ RaceTypeOK' /\ \A q \in Racer : RacerInv(q)'
          /\ \A q \in Racer \ {Command} : run'[q] = run[q]
      BY <1>1, <2>1, ResetKeeps DEF RacePart
    <2>3. Owned' /\ LogsKept'
      BY <1>1, <2>1, <2>2, CommandApart, KeptStays
    <2>4. Page'
      BY <1>1, <1>3, <2>1 DEF Page, ResultsAreWhole
    <2>5. QED
      BY <2>2, <2>3, <2>4, PartsNext DEF RacePart
  <1>5. CASE KillCommand
    <2>1. /\ run' = [run EXCEPT ![Command] = Idle] /\ command' = Stopped
          /\ opened' = [opened EXCEPT ![Command] = NoFile] /\ UNCHANGED <<path, wal>>
          /\ Files(db) /\ disturbed' = disturbed \ {Command}
          /\ UNCHANGED <<running, results, req, jar, prev, count, shown>>
      BY <1>5 DEF KillCommand
    <2>2. /\ RaceTypeOK' /\ \A q \in Racer : RacerInv(q)'
          /\ \A q \in Racer \ {Command} : run'[q] = run[q]
      BY <1>1, <2>1, KillKeeps DEF RacePart
    <2>3. Owned' /\ LogsKept'
      BY <1>1, <2>1, <2>2, CommandApart, KeptStays
    <2>4. Page'
      BY <1>1, <1>3, <2>1 DEF Page, ResultsAreWhole
    <2>5. QED
      BY <2>2, <2>3, <2>4, PartsNext DEF RacePart
  <1>6. QED
    BY <1>2, <1>4, <1>5

(* Cookies expire; a log is kept until the next one is put.                *)
LEMMA PauseKeeps ==
  ASSUME ServerInv, Pause
  PROVE  ServerInv'
  <1>1. RacePart /\ Owned /\ LogsKept /\ Page
    BY Parts
  <1>2. /\ jar' = NoCookies /\ prev' = [prev EXCEPT !.fresh = {}]
        /\ UNCHANGED <<raceVars, running, results, req, count, shown, command>>
    BY DEF Pause
  <1>3. jar' \in [flash : Message, prevq : 0..count]
    BY <1>1, <1>2, WebServerAssumption DEF NoCookies, Message, LogsKept
  <1>4. /\ prev' \in [kept : SUBSET (1..count), fresh : SUBSET (1..count)]
        /\ prev'.kept = prev.kept /\ prev'.fresh = {}
    BY <1>1, <1>2 DEF LogsKept
  <1>5. TokensAreUnique' /\ ShownOnce'
    BY <1>1, <1>2, <1>4 DEF LogsKept, TokensAreUnique, ShownOnce
  <1>6. LogsKept'
    BY <1>1, <1>2, <1>3, <1>4, <1>5 DEF LogsKept
  <1>7. Owned'
    BY <1>1, <1>2 DEF Owned, MeasuredAlone, RunsAreOwned, raceVars
  <1>8. RacePart' /\ Page'
    BY <1>1, <1>2, RaceStays, PageStays
  <1>9. QED
    BY <1>6, <1>7, <1>8, PartsNext

(* In the beginning all racers are idle and there is no file.              *)
LEMMA RaceBegins ==
  ASSUME RaceInit
  PROVE  RacePart
  <1>1. Idle \in RunState /\ NoTables \in Tables
    BY IdleType, GoneType
  <1>2. RaceTypeOK
    BY <1>1 DEF RaceInit, RaceTypeOK
  <1>3. ASSUME NEW p \in Racer PROVE RacerInv(p)
    <2>1. run[p] = Idle /\ opened[p] = NoFile
      BY DEF RaceInit
    <2>2. /\ Idle.pc = "idle" /\ ~Idle.tx /\ Idle.mine = 0 /\ Idle.ok = 0 /\ Idle.failed = 0
          /\ ~Idle.fatal /\ Idle.res = <<>>
      BY DEF Idle
    <2>3. /\ InOrder(p) /\ DoesItsVariant(p) /\ Rested(p) /\ UpdatesAddUp(p) /\ MeasuresRight(p)
      BY <2>1, <2>2 DEF InOrder, DoesItsVariant, Rested, UpdatesAddUp, MeasuresRight, At
    <2>4. HasItsFile(p) /\ TableFollows(p)
      BY <2>1, <2>2
      DEF HasItsFile, NeedsFile, TableFollows, Followed, Undisturbed, HasTable, At
    <2>5. QED
      BY <2>3, <2>4 DEF RacerInv
  <1>4. QED
    BY <1>2, <1>3 DEF RacePart

(* The invariant holds in the beginning ...                                *)
LEMMA InitServer == Init => ServerInv
  <1> SUFFICES ASSUME Init PROVE ServerInv
    OBVIOUS
  <1>1. RacePart
    BY RaceBegins DEF Init
  <1>2. /\ MaxRequests \in Nat /\ MaxBeside \in 0..MaxRequests /\ Request \subseteq Racer
        /\ Len(Asked) \in Nat
    BY WebServerAssumption
  <1>3. /\ running = None /\ results = [id \in {} |-> <<>>] /\ req = [r \in Request |-> Free]
        /\ jar = NoCookies /\ prev = [kept |-> {}, fresh |-> {}]
        /\ shown = [t \in 1..MaxRequests |-> 0]
        /\ count \in 0..MaxRequests /\ command \in Nat
    BY <1>2 DEF Init, Stopped
  <1>4. Owned
    BY <1>2, <1>3, IdleType DEF Owned, MeasuredAlone, RunsAreOwned, Free, Init, RaceInit, Idle
  <1>5. LogsKept
    <2>1. Free \in Handler /\ Free.at = "free"
      BY <1>2 DEF Free, Handler, Message
    <2>2. jar \in [flash : Message, prevq : 0..count]
      BY <1>2, <1>3 DEF NoCookies, Message
    <2>3. TokensAreUnique /\ ShownOnce
      BY <1>3, <2>1 DEF TokensAreUnique, ShownOnce
    <2>4. QED
      BY <1>3, <2>1, <2>2, <2>3 DEF LogsKept
  <1>6. Page
    BY <1>3 DEF Page, ResultsAreWhole, Message
  <1>7. QED
    BY <1>1, <1>4, <1>5, <1>6, Parts

(* ... and every step keeps it.                                            *)
LEMMA NextServer == ServerInv /\ [Next]_vars => ServerInv'
  <1> SUFFICES ASSUME ServerInv, [Next]_vars PROVE ServerInv'
    OBVIOUS
  <1>1. ASSUME NEW r \in Request, RaceArrives(r) PROVE ServerInv'
    BY <1>1, ArriveKeeps DEF RaceArrives
  <1>2. ASSUME NEW r \in Request, StartRace(r) PROVE ServerInv'
    BY <1>2, StartRaceKeeps
  <1>3. ASSUME NEW r \in Request, RefuseRace(r) PROVE ServerInv'
    BY <1>3, RefuseRaceKeeps
  <1>4. ASSUME NEW r \in Request, PublishRace(r) PROVE ServerInv'
    BY <1>4, PublishRaceKeeps
  <1>5. ASSUME NEW r \in Request, RacePanics(r) PROVE ServerInv'
    BY <1>5, RacePanicsKeeps
  <1>6. ASSUME NEW r \in Request, ShowPage(r) PROVE ServerInv'
    BY <1>6, ShowPageKeeps
  <1>7. ASSUME NEW r \in Request, Post(r) PROVE ServerInv'
    BY <1>7, PostKeeps
  <1>8. ASSUME NEW p \in Racer, Serve(p) PROVE ServerInv'
    BY <1>8, ServeKeeps
  <1>9. CASE CommandRaces \/ CommandPrints \/ KillCommand
    BY <1>9, CommandKeeps
  <1>10. CASE Pause
    BY <1>10, PauseKeeps
  <1>11. CASE UNCHANGED vars
    <2>1. RacePart /\ Owned /\ LogsKept /\ Page
      BY Parts
    <2>2. UNCHANGED <<raceVars, running, results, req, jar, prev, count, shown, command>>
      BY <1>11 DEF vars, webVars
    <2>3. RacePart' /\ LogsKept' /\ Page'
      BY <2>1, <2>2, RaceStays, KeptStays, PageStays
    <2>4. Owned'
      BY <2>1, <2>2 DEF Owned, MeasuredAlone, RunsAreOwned, raceVars
    <2>5. QED
      BY <2>3, <2>4, PartsNext
  <1>12. QED
    BY <1>1, <1>2, <1>3, <1>4, <1>5, <1>6, <1>7, <1>8, <1>9, <1>10, <1>11 DEF Next

-----------------------------------------------------------------------------
(* The invariant of the server, the races and their scratch files, however *)
(* many tabs, commands and writers there are (WebServer's ServerInv).      *)
THEOREM ServerInvHolds == Spec => []ServerInv
  <1>1. QED
    BY InitServer, NextServer, PTL DEF Spec

(* Whatever was cancelled or timed out, a result on the race page has one  *)
(* measurement for each variant, all of one run (raceRun, bench.Run).      *)
THEOREM WholeResults == Spec => []ResultsAreWhole
  <1>1. ServerInv => ResultsAreWhole
    BY DEF ServerInv
  <1>2. QED
    BY <1>1, ServerInvHolds, PTL

(* The measurements of a write test account for every update.  On DuckDB   *)
(* what they count as done is in the file the test has open, whatever the  *)
(* other process does with its names; on Postgres it is in the table of    *)
(* the test unless another racer wrote to it (concurrent, scratch).        *)
THEOREM TrueCounts == Spec => []CountsAreTrue
  <1>1. ServerInv => CountsAreTrue
    <2>1. SUFFICES ASSUME ServerInv PROVE CountsAreTrue
      OBVIOUS
    <2>2. RaceTypeOK /\ \A p \in Racer : RacerInv(p)
      BY <2>1 DEF ServerInv, TypeOK
    <2>3. EveryUpdateIsCounted
      BY <2>2 DEF EveryUpdateIsCounted, RacerInv, MeasuresRight
    <2>4. TablesHoldTheirOps
      <3>1. ASSUME NEW p \in Racer, At(p, "close") PROVE opened[p] # NoFile
        BY <2>2, <3>1 DEF RacerInv, HasItsFile, NeedsFile
      <3>2. ASSUME NEW p \in Racer, At(p, "close") \/ (At(p, "measured") /\ Undisturbed(p)),
                   ~run[p].m.err, Variant(p).exec \notin {"read", "bulk"}
            PROVE  Done(p) = run[p].m.ops
        <4>1. Followed(p) /\ run[p].pc \in {"close", "measured"}
          BY <3>1, <3>2 DEF Followed, At
        <4>2. QED
          BY <2>2, <3>2, <4>1 DEF RacerInv, TableFollows
      <3>3. QED
        BY <3>2 DEF TablesHoldTheirOps
    <2>5. QED
      BY <2>3, <2>4 DEF CountsAreTrue
  <1>2. QED
    BY <1>1, ServerInvHolds, PTL

(* A log of queries is shown on one page at most, whatever two tabs ask    *)
(* for at once (prevStore.take).                                           *)
THEOREM LogsShownOnce == Spec => []ShownOnce
  <1>1. ServerInv => ShownOnce
    BY DEF ServerInv
  <1>2. QED
    BY <1>1, ServerInvHolds, PTL

-----------------------------------------------------------------------------
(* A nonempty set of naturals has a least element.                         *)
LEMMA LeastNatural ==
  ASSUME NEW T \in SUBSET Nat, T # {}
  PROVE  \E x \in T : \A y \in T : x <= y
  <1> DEFINE R == {pair \in Nat \X Nat : pair[1] < pair[2]}
  <1>1. IsWellFoundedOn(R, Nat)
    BY NatLessThanWellFounded, Zenon DEF OpToRel
  <1> HIDE DEF R
  <1>2. \E x \in T : \A y \in T : <<y, x>> \notin R
    BY <1>1, WFMin, Zenon
  <1>3. \A x, y \in Nat : <<y, x>> \in R <=> y < x
    BY DEF R
  <1>4. PICK x \in T : \A y \in T : <<y, x>> \notin R
    BY <1>2
  <1>5. ASSUME NEW y \in T PROVE x <= y
    <2>1. x \in Nat /\ y \in Nat
      OBVIOUS
    <2>2. ~(y < x)
      BY <2>1, <1>3, <1>4
    <2>3. QED
      BY <2>1, <2>2
  <1>6. QED
    BY <1>5

(* Induction on a rank, for a set of good elements.                        *)
LEMMA RankInduction ==
  ASSUME NEW D, NEW rank \in [D -> Nat], NEW good,
         \A x \in D : (\A y \in D : rank[y] < rank[x] => y \in good) => x \in good
  PROVE  D \subseteq good
  <1> DEFINE T == {k \in Nat : \E x \in D : rank[x] = k /\ x \notin good}
  <1>1. SUFFICES ASSUME T # {} PROVE FALSE
    <2>1. ASSUME NEW x \in D, x \notin good PROVE rank[x] \in T
      BY <2>1
    <2>2. QED
      BY <2>1
  <1>2. PICK k \in T : \A l \in T : k <= l
    <2>1. T \in SUBSET Nat
      OBVIOUS
    <2> HIDE DEF T
    <2>2. QED
      BY <1>1, <2>1, LeastNatural
  <1>3. PICK x \in D : rank[x] = k /\ x \notin good
    BY <1>2
  <1>4. ASSUME NEW y \in D, rank[y] < rank[x] PROVE y \in good
    <2>1. SUFFICES ASSUME y \notin good PROVE FALSE
      OBVIOUS
    <2>2. rank[y] \in T /\ rank[y] \in Nat /\ rank[x] \in Nat
      BY <2>1
    <2>3. rank[x] <= rank[y]
      BY <1>2, <1>3, <2>2
    <2>4. QED
      BY <1>4, <2>2, <2>3
  <1>5. QED
    BY <1>3, <1>4

(* A function that is defined by recursion along a falling rank exists.    *)
Falls(D, Values, m, rank, last, base, next, step) ==
  /\ m \in Nat /\ rank \in [D -> 0..m]
  /\ base \in [D -> Values] /\ next \in [D -> D] /\ step \in [D -> [Values -> Values]]
  /\ \A x \in D : x \in last \/ rank[next[x]] < rank[x]

Unfolds(f, D, Values, last, base, next, step) ==
  /\ f \in [D -> Values]
  /\ \A x \in D : f[x] = IF x \in last THEN base[x] ELSE step[x][f[next[x]]]

LEMMA Recursion ==
  ASSUME NEW D, NEW Values, NEW m, NEW rank, NEW last, NEW base, NEW next, NEW step,
         Falls(D, Values, m, rank, last, base, next, step)
  PROVE  \E f : Unfolds(f, D, Values, last, base, next, step)
  <1> DEFINE Unfold(f, x) == f[x] = IF x \in last THEN base[x] ELSE step[x][f[next[x]]]
             upTo == {k \in Nat : \E f \in [D -> Values] : \A x \in D : rank[x] < k => Unfold(f, x)}
  <1> SUFFICES ASSUME m \in Nat, rank \in [D -> 0..m],
                      base \in [D -> Values], next \in [D -> D], step \in [D -> [Values -> Values]],
                      \A x \in D : x \in last \/ rank[next[x]] < rank[x]
               PROVE  \E f \in [D -> Values] : \A x \in D : Unfold(f, x)
    BY DEF Falls, Unfolds
  <1>1. ASSUME NEW k \in Nat, \A l \in Nat : l < k => l \in upTo PROVE k \in upTo
    <2>1. CASE k = 0
      <3>1. \A x \in D : ~(rank[x] < k)
        BY <2>1
      <3>2. QED
        BY <3>1
    <2>2. CASE k # 0
      <3>1. k - 1 \in Nat /\ k - 1 < k
        BY <2>2
      <3>2. k - 1 \in upTo
        BY <1>1, <3>1
      <3>3. PICK f \in [D -> Values] : \A x \in D : rank[x] < k - 1 => Unfold(f, x)
        BY <3>2
      <3> DEFINE g == [x \in D |-> IF rank[x] < k - 1 THEN f[x]
                                   ELSE IF x \in last THEN base[x] ELSE step[x][f[next[x]]]]
      <3>4. g \in [D -> Values]
        <4>1. ASSUME NEW x \in D PROVE base[x] \in Values /\ step[x][f[next[x]]] \in Values /\ f[x] \in Values
          <5>1. next[x] \in D /\ step[x] \in [Values -> Values]
            OBVIOUS
          <5>2. f[next[x]] \in Values
            BY <5>1
          <5>3. QED
            BY <5>1, <5>2
        <4>2. QED
          BY <4>1
      <3>5. ASSUME NEW x \in D, rank[x] < k PROVE Unfold(g, x)
        <4>1. rank[x] \in Int /\ rank[next[x]] \in Int /\ next[x] \in D
          <5>1. next[x] \in D
            OBVIOUS
          <5>2. QED
            BY <5>1
        <4>2. x \notin last => g[next[x]] = f[next[x]]
          BY <3>5, <4>1
        <4>3. CASE rank[x] < k - 1
          <5>1. g[x] = f[x] /\ Unfold(f, x)
            BY <3>3, <4>3
          <5>2. QED
            BY <4>2, <5>1
        <4>4. CASE ~(rank[x] < k - 1)
          <5>1. g[x] = IF x \in last THEN base[x] ELSE step[x][f[next[x]]]
            BY <4>4
          <5>2. QED
            BY <4>2, <5>1
        <4>5. QED
          BY <4>3, <4>4
      <3> HIDE DEF g
      <3>6. QED
        BY <3>4, <3>5
    <2>3. QED
      BY <2>1, <2>2
  <1> HIDE DEF upTo
  <1>2. Nat \subseteq upTo
    <2>1. SUFFICES ASSUME Nat \ upTo # {} PROVE FALSE
      OBVIOUS
    <2>2. PICK k \in Nat \ upTo : \A l \in Nat \ upTo : k <= l
      <3>1. Nat \ upTo \in SUBSET Nat
        OBVIOUS
      <3>2. QED
        BY <2>1, <3>1, LeastNatural
    <2>3. \A l \in Nat : l < k => l \in upTo
      BY <2>2
    <2>4. QED
      BY <1>1, <2>2, <2>3
  <1>3. m + 1 \in upTo
    BY <1>2
  <1>4. PICK f \in [D -> Values] : \A x \in D : rank[x] < m + 1 => Unfold(f, x)
    BY <1>3 DEF upTo
  <1>5. \A x \in D : rank[x] < m + 1
    OBVIOUS
  <1>6. QED
    BY <1>4, <1>5

-----------------------------------------------------------------------------
(* The splitter: every jump goes forward and stays in the script.          *)

(* Index finds nothing, or a place where the text fits.                    *)
LEMMA IndexFact ==
  ASSUME NEW s \in Seq(STRING), NEW sub, Len(sub) \in Nat \ {0}, NEW i \in Nat \ {0}
  PROVE  \/ Index(s, sub, i) = 0
         \/ Index(s, sub, i) \in i..(Len(s) - Len(sub) + 1)
  <1> DEFINE at == {k \in i..(Len(s) - Len(sub) + 1) : SubSeq(s, k, k + Len(sub) - 1) = sub}
  <1>1. CASE at = {}
    BY <1>1 DEF Index
  <1>2. CASE at # {}
    <2>1. at \in SUBSET Nat
      OBVIOUS
    <2>2. \E k \in at : \A l \in at : k <= l
      <3> HIDE DEF at
      <3>1. QED
        BY <1>2, <2>1, LeastNatural
    <2>3. (CHOOSE k \in at : \A l \in at : k <= l) \in at
      <3> HIDE DEF at
      <3>1. QED
        BY <2>2
    <2>4. Index(s, sub, i) \in at
      BY <1>2, <2>3 DEF Index
    <2>5. QED
      BY <2>4
  <1>3. QED
    BY <1>1, <1>2

LEMMA PastFact ==
  ASSUME NEW s \in Seq(STRING), NEW sub, Len(sub) \in Nat \ {0}, NEW i \in 1..(Len(s) + 1)
  PROVE  Past(s, sub, i) \in i..(Len(s) + 1)
  <1>1. Len(s) \in Nat /\ i \in Nat \ {0}
    OBVIOUS
  <1>2. \/ Index(s, sub, i) = 0
        \/ Index(s, sub, i) \in i..(Len(s) - Len(sub) + 1)
    BY <1>1, IndexFact
  <1>3. CASE Index(s, sub, i) = 0
    BY <1>1, <1>3 DEF Past
  <1>4. CASE Index(s, sub, i) \in i..(Len(s) - Len(sub) + 1)
    BY <1>1, <1>4 DEF Past
  <1>5. QED
    BY <1>2, <1>3, <1>4

LEMMA LineEndFact ==
  ASSUME NEW s \in Seq(STRING), NEW i \in 1..Len(s), s[i] # NewLine
  PROVE  LineEnd(s, i) \in (i + 1)..(Len(s) + 1)
  <1> DEFINE nl == <<NewLine>>
             at == {k \in i..(Len(s) - Len(nl) + 1) : SubSeq(s, k, k + Len(nl) - 1) = nl}
  <1>1. Len(nl) = 1 /\ Len(nl) \in Nat \ {0} /\ Len(s) \in Nat /\ i \in Nat \ {0}
    OBVIOUS
  <1>2. \/ Index(s, nl, i) = 0
        \/ Index(s, nl, i) \in i..(Len(s) - Len(nl) + 1)
    <2> HIDE DEF nl
    <2>1. QED
      BY <1>1, IndexFact
  <1>3. Index(s, nl, i) # i
    <2>1. SUFFICES ASSUME Index(s, nl, i) = i PROVE FALSE
      OBVIOUS
    <2>2. at # {}
      BY <1>1, <2>1 DEF Index
    <2>3. at \in SUBSET Nat
      OBVIOUS
    <2>4. \E k \in at : \A l \in at : k <= l
      <3> HIDE DEF at
      <3>1. QED
        BY <2>2, <2>3, LeastNatural
    <2>5. (CHOOSE k \in at : \A l \in at : k <= l) \in at
      <3> HIDE DEF at
      <3>1. QED
        BY <2>4
    <2>6. i \in at
      BY <2>1, <2>2, <2>5 DEF Index
    <2>7. SubSeq(s, i, i) = nl
      BY <1>1, <2>6
    <2>8. SubSeq(s, i, i)[1] = s[i]
      OBVIOUS
    <2>9. QED
      BY <2>7, <2>8
  <1>4. CASE Index(s, nl, i) = 0
    BY <1>1, <1>4 DEF LineEnd
  <1>5. CASE Index(s, nl, i) # 0
    BY <1>1, <1>2, <1>3, <1>5 DEF LineEnd
  <1>6. QED
    BY <1>4, <1>5

(* A string ends behind its opening quote.                                 *)
LEMMA skipQuotedFact ==
  ASSUME NEW s \in Seq(STRING), NEW i \in 1..Len(s)
  PROVE  skipQuoted(s, i) \in (i + 1)..(Len(s) + 1)
  <1> DEFINE n == Len(s)
             D == 1..(n + 1)
             quote == s[i]
             Doubled(j) == j < n /\ s[j + 1] = quote
             last == {j \in D : j > n \/ (s[j] = quote /\ ~Doubled(j))}
             base == [j \in D |-> IF j > n THEN j ELSE j + 1]
             next == [j \in D |-> IF j \in last THEN j ELSE IF s[j] # quote THEN j + 1 ELSE j + 2]
             step == [j \in D |-> [v \in Nat |-> v]]
             rank == [j \in D |-> n + 1 - j]
             Body(f) == [j \in D |->
               IF j > n THEN j
               ELSE IF s[j] # quote THEN f[j + 1]
               ELSE IF j < n /\ s[j + 1] = quote THEN f[j + 2]
               ELSE j + 1]
             end == CHOOSE f : f = Body(f)
  <1>1. n \in Nat /\ i \in Nat /\ n + 1 \in Nat
    OBVIOUS
  <1>2. \A j \in D : j \notin last => next[j] \in D /\ j < next[j]
    BY <1>1
  <1>3. \E f : f = Body(f)
    <2>1. base \in [D -> Nat] /\ step \in [D -> [Nat -> Nat]] /\ rank \in [D -> 0..(n + 1)]
      BY <1>1
    <2>2. next \in [D -> D]
      <3>1. \A j \in D : next[j] \in D
        BY <1>2
      <3>2. QED
        BY <3>1
    <2>3. \A j \in D : j \in last \/ rank[next[j]] < rank[j]
      BY <1>1, <1>2
    <2>4. \A j \in D : \A v \in Nat : step[j][v] = v
      OBVIOUS
    <2>5. PICK f \in [D -> Nat] : \A j \in D : f[j] = IF j \in last THEN base[j] ELSE step[j][f[next[j]]]
      <3>1. n + 1 \in Nat
        BY <1>1
      <3> HIDE DEF n, last, base, next, step, rank, D
      <3>2. Falls(D, Nat, n + 1, rank, last, base, next, step)
        BY <3>1, <2>1, <2>2, <2>3 DEF Falls
      <3>3. \E f : Unfolds(f, D, Nat, last, base, next, step)
        BY <3>2, Recursion
      <3>4. QED
        BY <3>3 DEF Unfolds
    <2>6. \A j \in D : f[j] = IF j \in last THEN base[j] ELSE f[next[j]]
      <3> HIDE DEF last, base, next, step, rank, D
      <3>1. QED
        BY <2>2, <2>4, <2>5
    <2>7. ASSUME NEW j \in D PROVE f[j] = Body(f)[j]
      BY <2>6
    <2>8. f = Body(f)
      BY <2>7
    <2>9. QED
      BY <2>8
  <1>4. end = Body(end)
    BY <1>3
  <1> HIDE DEF end
  <1>5. \A j \in D : end[j] = IF j \in last THEN base[j] ELSE end[next[j]]
    BY <1>4
  <1> DEFINE good == {j \in D : end[j] \in j..(n + 1)}
  <1>6. ASSUME NEW j \in D, \A k \in D : rank[k] < rank[j] => k \in good PROVE j \in good
    <2>1. CASE j \in last
      <3>1. end[j] = base[j]
        BY <1>5, <2>1
      <3>2. QED
        BY <1>1, <3>1
    <2>2. CASE j \notin last
      <3>1. next[j] \in D /\ j < next[j] /\ end[j] = end[next[j]]
        BY <1>2, <1>5, <2>2
      <3>2. rank[next[j]] < rank[j]
        BY <1>1, <3>1
      <3>3. end[next[j]] \in next[j]..(n + 1)
        BY <1>6, <3>1, <3>2
      <3>4. QED
        BY <1>1, <3>1, <3>3
    <2>3. QED
      BY <2>1, <2>2
  <1>7. D \subseteq good
    <2>1. rank \in [D -> Nat]
      BY <1>1
    <2>2. \A j \in D : (\A k \in D : rank[k] < rank[j] => k \in good) => j \in good
      BY <1>6
    <2> HIDE DEF D, rank, good
    <2>3. QED
      BY <2>1, <2>2, RankInduction
  <1>8. skipQuoted(s, i) = end[i + 1]
    BY DEF skipQuoted, Closing, end
  <1>9. QED
    BY <1>1, <1>7, <1>8

(* A dollar is skipped, with the string it may begin.                      *)
LEMMA skipDollarQuotedFact ==
  ASSUME NEW s \in Seq(STRING), NEW i \in 1..Len(s)
  PROVE  skipDollarQuoted(s, i) \in (i + 1)..(Len(s) + 1)
  <1> DEFINE In(j) == s[j] = Letter \/ (j > i + 1 /\ s[j] = Digit)
             stops == {j \in (i + 1)..Len(s) : ~In(j)}
             j0 == CHOOSE j \in stops : \A k \in stops : j <= k
             tag == SubSeq(s, i, j0)
  <1>1. Len(s) \in Nat /\ i \in Nat \ {0}
    OBVIOUS
  <1>2. skipDollarQuoted(s, i) = IF stops = {} \/ s[j0] # "$" THEN i + 1 ELSE Past(s, tag, j0 + 1)
    BY DEF skipDollarQuoted
  <1>3. CASE stops = {} \/ s[j0] # "$"
    BY <1>1, <1>2, <1>3
  <1>4. CASE ~(stops = {} \/ s[j0] # "$")
    <2>1. stops \in SUBSET Nat
      BY <1>1
    <2>2. j0 \in stops
      <3> HIDE DEF stops
      <3>1. QED
        BY <1>4, <2>1, LeastNatural
    <2>3. j0 \in (i + 1)..Len(s)
      BY <2>2
    <2> HIDE DEF j0
    <2>4. Len(tag) \in Nat \ {0} /\ j0 + 1 \in 1..(Len(s) + 1)
      BY <1>1, <2>3
    <2> HIDE DEF tag
    <2>5. Past(s, tag, j0 + 1) \in (j0 + 1)..(Len(s) + 1)
      BY <2>4, PastFact
    <2>6. QED
      BY <1>1, <1>2, <1>4, <2>3, <2>5
  <1>5. QED
    BY <1>3, <1>4

(* A piece of a script is one statement, or none.                          *)
LEMMA TrimSpaceFact ==
  ASSUME NEW s \in Seq(STRING)
  PROVE  TrimSpace(s) \in Seq(STRING)
  <1> DEFINE ink == {i \in DOMAIN s : s[i] \notin Blank}
             least == CHOOSE i \in ink : \A j \in ink : i <= j
             most == CHOOSE i \in ink : \A j \in ink : i >= j
  <1>1. CASE ink = {}
    BY <1>1 DEF TrimSpace
  <1>2. CASE ink # {}
    <2>1. ink \in SUBSET Nat /\ \A i \in ink : i \in 1..Len(s)
      OBVIOUS
    <2>2. least \in ink
      <3> HIDE DEF ink
      <3>1. QED
        BY <1>2, <2>1, LeastNatural
    <2>3. most \in ink
      <3> DEFINE far == {k \in Nat : \E i \in ink : k = Len(s) - i}
      <3> HIDE DEF ink
      <3>1. \A i \in ink : i \in Nat /\ Len(s) - i \in far
        BY <2>1
      <3>2. PICK k \in far : \A l \in far : k <= l
        <4>1. far \in SUBSET Nat /\ far # {}
          BY <1>2, <3>1
        <4> HIDE DEF far
        <4>2. QED
          BY <4>1, LeastNatural
      <3>3. PICK i \in ink : k = Len(s) - i
        BY <3>2
      <3>4. ASSUME NEW j \in ink PROVE i >= j
        <4> HIDE DEF far
        <4>1. Len(s) - j \in far /\ i \in Nat /\ j \in Nat /\ Len(s) \in Nat
          BY <3>1
        <4>2. Len(s) - i <= Len(s) - j
          BY <3>2, <3>3, <4>1
        <4>3. QED
          BY <4>1, <4>2
      <3>5. QED
        BY <3>3, <3>4
    <2>4. TrimSpace(s) = SubSeq(s, least, most)
      BY <1>2 DEF TrimSpace
    <2> HIDE DEF ink, least, most
    <2>5. QED
      BY <2>1, <2>2, <2>3, <2>4
  <1>3. QED
    BY <1>1, <1>2

LEMMA appendStatementFact ==
  ASSUME NEW piece \in Seq(STRING)
  PROVE  appendStatement(piece) \in Seq(Statement)
  <1> DEFINE lines == Lines(piece)
             code == {i \in DOMAIN lines : lines[i] # <<>> /\ ~StartsAt(lines[i], <<"-", "-">>, 1)}
             labels == {i \in DOMAIN lines : StartsAt(lines[i], <<"-", "-", Step>>, 1) /\ \A j \in code : i < j}
             st == [sql |-> TrimSpace(piece), labelled |-> labels # {}]
  <1>1. appendStatement(piece) \in {<<>>, <<st>>}
    BY DEF appendStatement
  <1> HIDE DEF lines, code, labels
  <1>2. st \in Statement
    BY TrimSpaceFact DEF Statement
  <1> HIDE DEF st
  <1>3. <<st>> \in Seq(Statement)
    BY <1>2
  <1>4. <<>> \in Seq(Statement)
    OBVIOUS
  <1>5. QED
    BY <1>1, <1>3, <1>4

(* Where the scan goes on from a character that does not end a statement.  *)
Jump(s, i) ==
  IF s[i] \in Quotes THEN skipQuoted(s, i)
  ELSE IF StartsAt(s, <<"-", "-">>, i) THEN LineEnd(s, i)
  ELSE IF StartsAt(s, <<"/", "*">>, i) THEN Past(s, <<"*", "/">>, i + 2)
  ELSE IF s[i] = "$" THEN skipDollarQuoted(s, i)
  ELSE i + 1

LEMMA JumpFact ==
  ASSUME NEW s \in Seq(STRING), NEW i \in 1..Len(s)
  PROVE  Jump(s, i) \in (i + 1)..(Len(s) + 1)
  <1>1. i \in Nat /\ Len(s) \in Nat
    OBVIOUS
  <1>2. i + 1 \in (i + 1)..(Len(s) + 1)
    BY <1>1
  <1>3. StartsAt(s, <<"-", "-">>, i) => LineEnd(s, i) \in (i + 1)..(Len(s) + 1)
    <2>1. SUFFICES ASSUME StartsAt(s, <<"-", "-">>, i) PROVE LineEnd(s, i) \in (i + 1)..(Len(s) + 1)
      OBVIOUS
    <2> DEFINE start == SubSeq(s, i, i + 1)
    <2>2. start = <<"-", "-">> /\ i + 1 <= Len(s)
      BY <1>1, <2>1 DEF StartsAt
    <2>3. start[1] = s[i]
      BY <1>1, <2>2
    <2> HIDE DEF start
    <2>4. s[i] = "-"
      BY <2>2, <2>3
    <2>5. s[i] # NewLine
      BY <2>4 DEF NewLine
    <2>6. QED
      BY <2>5, LineEndFact
  <1>4. StartsAt(s, <<"/", "*">>, i) => Past(s, <<"*", "/">>, i + 2) \in (i + 1)..(Len(s) + 1)
    <2>1. SUFFICES ASSUME StartsAt(s, <<"/", "*">>, i)
                   PROVE  Past(s, <<"*", "/">>, i + 2) \in (i + 1)..(Len(s) + 1)
      OBVIOUS
    <2> DEFINE sub == <<"*", "/">>
    <2>2. i + 2 \in 1..(Len(s) + 1) /\ Len(sub) \in Nat \ {0}
      BY <1>1, <2>1 DEF StartsAt
    <2> HIDE DEF sub
    <2>3. Past(s, sub, i + 2) \in (i + 2)..(Len(s) + 1)
      BY <2>2, PastFact
    <2>4. QED
      BY <1>1, <2>3 DEF sub
  <1>5. QED
    BY <1>2, <1>3, <1>4, skipQuotedFact, skipDollarQuotedFact DEF Jump

(* A script is split into a sequence of statements.                        *)
LEMMA SplitFact ==
  ASSUME NEW s \in Seq(STRING)
  PROVE  Split(s) \in Seq(Statement)
  <1> DEFINE n == Len(s)
             P == 1..(n + 1)
             D == P \X P
             Values == Seq(Statement)
             last == {x \in D : x[2] > n}
             Piece(x) == SubSeq(s, x[1], IF x[2] > n THEN n ELSE x[2] - 1)
             Cuts(i) == /\ s[i] \notin Quotes /\ ~StartsAt(s, <<"-", "-">>, i)
                        /\ ~StartsAt(s, <<"/", "*">>, i) /\ s[i] # "$" /\ s[i] = ";"
             base == [x \in D |-> appendStatement(Piece(x))]
             next == [x \in D |-> IF x[2] > n THEN x
                                  ELSE IF Cuts(x[2]) THEN <<x[2] + 1, x[2] + 1>>
                                  ELSE <<x[1], Jump(s, x[2])>>]
             step == [x \in D |-> [v \in Values |-> IF Cuts(x[2]) THEN appendStatement(Piece(x)) \o v ELSE v]]
             rank == [x \in D |-> n + 1 - x[2]]
             Body(f) == [at \in (1..(Len(s) + 1)) \X (1..(Len(s) + 1)) |->
               LET start == at[1]
                   i     == at[2]
               IN  IF i > Len(s) THEN appendStatement(SubSeq(s, start, Len(s)))
                   ELSE IF s[i] \in Quotes THEN f[<<start, skipQuoted(s, i)>>]
                   ELSE IF StartsAt(s, <<"-", "-">>, i) THEN f[<<start, LineEnd(s, i)>>]
                   ELSE IF StartsAt(s, <<"/", "*">>, i) THEN f[<<start, Past(s, <<"*", "/">>, i + 2)>>]
                   ELSE IF s[i] = "$" THEN f[<<start, skipDollarQuoted(s, i)>>]
                   ELSE IF s[i] = ";" THEN appendStatement(SubSeq(s, start, i - 1)) \o f[<<i + 1, i + 1>>]
                   ELSE f[<<start, i + 1>>]]
             scan == CHOOSE f : f = Body(f)
             Unfolded(f, x) == IF x[2] > n THEN appendStatement(Piece(x))
                            ELSE IF Cuts(x[2]) THEN appendStatement(Piece(x)) \o f[next[x]]
                            ELSE f[next[x]]
  <1>1. n \in Nat /\ n + 1 \in Nat /\ \A x \in D : x[1] \in P /\ x[2] \in P /\ x[1] \in Nat /\ x[2] \in Nat
    OBVIOUS
  <1>2. \A x \in D : appendStatement(Piece(x)) \in Values
    <2>1. ASSUME NEW x \in D PROVE Piece(x) \in Seq(STRING)
      <3>1. x[1] \in 1..(n + 1) /\ x[2] \in 1..(n + 1)
        BY <1>1
      <3> DEFINE to == IF x[2] > n THEN n ELSE x[2] - 1
      <3>2. to \in 0..n
        BY <1>1, <3>1
      <3> HIDE DEF to
      <3>3. SubSeq(s, x[1], to) \in Seq(STRING)
        BY <1>1, <3>1, <3>2
      <3>4. QED
        BY <3>3 DEF to
    <2> HIDE DEF Piece
    <2>2. QED
      BY <2>1, appendStatementFact
  <1>3. \A x \in D : next[x] \in D /\ (x[2] <= n => x[2] < next[x][2])
    <2>1. ASSUME NEW x \in D PROVE next[x] \in D /\ (x[2] <= n => x[2] < next[x][2])
      <3>1. CASE x[2] > n
        BY <1>1, <3>1
      <3>2. CASE x[2] <= n
        <4>1. x[2] \in 1..n
          BY <1>1, <3>2
        <4>2. Jump(s, x[2]) \in (x[2] + 1)..(n + 1)
          BY <4>1, JumpFact
        <4> DEFINE j == Jump(s, x[2])
        <4> HIDE DEF j
        <4>3. next[x] \in {<<x[2] + 1, x[2] + 1>>, <<x[1], j>>}
          <5> HIDE DEF Cuts
          <5>1. QED
            BY <1>1, <3>2 DEF j
        <4>4. j \in (x[2] + 1)..(n + 1)
          BY <4>2 DEF j
        <4>5. x[2] + 1 \in P /\ j \in P /\ x[2] < j /\ x[2] < x[2] + 1
          BY <1>1, <4>1, <4>4
        <4> HIDE DEF next, P
        <4>6. QED
          BY <1>1, <4>3, <4>5
      <3>3. n \in Nat /\ x[2] \in Nat
        BY <1>1
      <3> HIDE DEF D, next, n
      <3>4. QED
        BY <3>1, <3>2, <3>3
    <2>2. QED
      BY <2>1
  <1>4. \A v, w \in Values : v \o w \in Values
    OBVIOUS
  <1>5. Falls(D, Values, n + 1, rank, last, base, next, step)
    <2>1. rank \in [D -> 0..(n + 1)] /\ \A x \in D : x \in last \/ rank[next[x]] < rank[x]
      <3>1. \A x \in D : rank[x] = n + 1 - x[2] /\ rank[x] \in 0..(n + 1)
        BY <1>1
      <3> HIDE DEF next, D
      <3>2. ASSUME NEW x \in D, x \notin last PROVE rank[next[x]] < rank[x]
        <4>1. x[2] <= n
          BY <1>1, <3>2
        <4>2. next[x] \in D /\ x[2] < next[x][2]
          BY <1>3, <4>1
        <4>3. QED
          BY <1>1, <3>1, <4>2
      <3>3. QED
        BY <3>1, <3>2
    <2>2. base \in [D -> Values]
      <3> HIDE DEF Piece, D, Values
      <3>1. QED
        BY <1>2
    <2>3. next \in [D -> D]
      <3>1. \E e : next = [x \in D |-> e[x]]
        <4>1. next = [x \in D |-> next[x]]
          OBVIOUS
        <4>2. QED
          BY <4>1
      <3> HIDE DEF next, D
      <3>2. QED
        BY <1>3, <3>1
    <2>4. step \in [D -> [Values -> Values]]
      <3> HIDE DEF Piece, D, Values, Cuts
      <3>1. QED
        BY <1>2, <1>4
    <2> HIDE DEF D, Values, rank, last, base, next, step
    <2>5. QED
      BY <1>1, <2>1, <2>2, <2>3, <2>4 DEF Falls
  <1>6. PICK f : Unfolds(f, D, Values, last, base, next, step)
    <2> HIDE DEF D, Values, rank, last, base, next, step
    <2>1. QED
      BY <1>5, Recursion
  <1>7. ASSUME NEW g, NEW x \in D PROVE Body(g)[x] = Unfolded(g, x)
    <2>1. Body(g)[x] = LET start == x[1]
                           i     == x[2]
                       IN  IF i > n THEN appendStatement(SubSeq(s, start, n))
                           ELSE IF s[i] \in Quotes THEN g[<<start, skipQuoted(s, i)>>]
                           ELSE IF StartsAt(s, <<"-", "-">>, i) THEN g[<<start, LineEnd(s, i)>>]
                           ELSE IF StartsAt(s, <<"/", "*">>, i) THEN g[<<start, Past(s, <<"*", "/">>, i + 2)>>]
                           ELSE IF s[i] = "$" THEN g[<<start, skipDollarQuoted(s, i)>>]
                           ELSE IF s[i] = ";" THEN appendStatement(SubSeq(s, start, i - 1)) \o g[<<i + 1, i + 1>>]
                           ELSE g[<<start, i + 1>>]
      OBVIOUS
    <2> DEFINE a == x[1]
               i == x[2]
    <2>2. next[x] = IF i > n THEN x ELSE IF Cuts(i) THEN <<i + 1, i + 1>> ELSE <<a, Jump(s, i)>>
      OBVIOUS
    <2>3. CASE i > n
      BY <2>1, <2>3
    <2>4. CASE ~(i > n) /\ Cuts(i)
      BY <2>1, <2>2, <2>4
    <2>5. CASE ~(i > n) /\ ~Cuts(i)
      <3>1. Unfolded(g, x) = g[<<a, Jump(s, i)>>]
        BY <2>2, <2>5
      <3> HIDE DEF Unfolded, next, Body
      <3>2. Body(g)[x] = g[<<a, Jump(s, i)>>]
        BY <2>1, <2>5 DEF Jump
      <3>3. QED
        BY <3>1, <3>2
    <2>6. QED
      BY <2>3, <2>4, <2>5
  <1>8. scan = Body(scan)
    <2>1. ASSUME NEW x \in D PROVE f[x] = Unfolded(f, x)
      <3>1. /\ f \in [D -> Values]
            /\ f[x] = IF x \in last THEN base[x] ELSE step[x][f[next[x]]]
        <4> HIDE DEF D, Values, last, base, next, step
        <4>1. QED
          BY <1>6 DEF Unfolds
      <3>2. next[x] \in D
        BY <1>3
      <3>3. f[next[x]] \in Values
        <4> HIDE DEF D, Values, next
        <4>1. QED
          BY <3>1, <3>2
      <3>4. step[x][f[next[x]]] = IF Cuts(x[2]) THEN appendStatement(Piece(x)) \o f[next[x]] ELSE f[next[x]]
        <4> DEFINE v == f[next[x]]
        <4> HIDE DEF v, D, Values, Piece, Cuts
        <4>1. step[x][v] = IF Cuts(x[2]) THEN appendStatement(Piece(x)) \o v ELSE v
          BY <3>3 DEF v
        <4>2. QED
          BY <4>1 DEF v
      <3>5. base[x] = appendStatement(Piece(x)) /\ (x \in last <=> x[2] > n)
        <4> HIDE DEF D, Piece
        <4>1. QED
          OBVIOUS
      <3> HIDE DEF D, Values, last, base, next, step, Piece, Cuts
      <3>6. QED
        BY <3>1, <3>4, <3>5
    <2>2. DOMAIN f = D /\ f = [x \in D |-> f[x]]
      <3> HIDE DEF D, Values, last, base, next, step
      <3>1. QED
        BY <1>6 DEF Unfolds
    <2>3. \A g : Body(g) = [x \in D |-> Body(g)[x]]
      OBVIOUS
    <2>4. f = Body(f)
      <3> HIDE DEF D, Body, Unfolded
      <3>1. \A x \in D : f[x] = Body(f)[x]
        BY <1>7, <2>1
      <3>2. QED
        BY <2>2, <2>3, <3>1
    <2> HIDE DEF Body
    <2>5. QED
      BY <2>4
  <1>9. \A x \in D : scan[x] = Unfolded(scan, x)
    <2> HIDE DEF scan, Body, Unfolded, D
    <2>1. QED
      BY <1>7, <1>8
  <1> DEFINE good == {x \in D : scan[x] \in Values}
  <1>10. D \subseteq good
    <2>1. ASSUME NEW x \in D, \A y \in D : rank[y] < rank[x] => y \in good PROVE x \in good
      <3>1. scan[x] = Unfolded(scan, x)
        BY <1>9
      <3>2. appendStatement(Piece(x)) \in Values
        BY <1>2
      <3>3. x[2] > n \/ scan[next[x]] \in Values
        <4>1. x \in last \/ next[x] \in good
          <5> HIDE DEF D, Values, rank, last, base, next, step, good
          <5>1. QED
            BY <1>5, <2>1 DEF Falls
        <4> HIDE DEF D, Values, next
        <4>2. QED
          BY <4>1
      <3> HIDE DEF D, Values, scan, next, Piece, Cuts
      <3>4. QED
        BY <1>4, <3>1, <3>2, <3>3
    <2>2. rank \in [D -> Nat]
      <3>1. rank \in [D -> 0..(n + 1)] /\ n + 1 \in Nat
        <4> HIDE DEF D, Values, rank, last, base, next, step
        <4>1. QED
          BY <1>1, <1>5 DEF Falls
      <3> HIDE DEF rank, D
      <3>2. QED
        BY <3>1
    <2>3. \A x \in D : (\A y \in D : rank[y] < rank[x] => y \in good) => x \in good
      <3> HIDE DEF D, rank, good
      <3>1. QED
        BY <2>1
    <2> HIDE DEF D, rank, good
    <2>4. QED
      BY <2>2, <2>3, RankInduction
  <1>11. <<1, 1>> \in D
    BY <1>1
  <1>12. scan[<<1, 1>>] \in Values
    <2> HIDE DEF D, Values, scan
    <2>1. QED
      BY <1>10, <1>11
  <1>13. Split(s) = scan[<<1, 1>>]
    BY DEF Split
  <1>14. QED
    <2> HIDE DEF scan
    <2>1. QED
      BY <1>12, <1>13

-----------------------------------------------------------------------------

(* What a sequence is.                                                     *)
LEMMA SequenceIs ==
  ASSUME NEW S, NEW q \in Seq(S)
  PROVE  /\ Len(q) \in Nat /\ DOMAIN q = 1..Len(q) /\ q = [i \in 1..Len(q) |-> q[i]]
         /\ \A i \in DOMAIN q : q[i] \in S
  OBVIOUS

LEMMA SequenceOf ==
  ASSUME NEW S, NEW n \in Nat, NEW q, q = [i \in 1..n |-> q[i]], \A i \in 1..n : q[i] \in S
  PROVE  q \in Seq(S) /\ Len(q) = n /\ DOMAIN q = 1..n
  OBVIOUS

LEMMA Appended ==
  ASSUME NEW S, NEW q \in Seq(S), NEW e \in S
  PROVE  /\ Append(q, e) \in Seq(S) /\ Len(q) \in Nat /\ Len(Append(q, e)) = Len(q) + 1
         /\ Append(q, e)[Len(q) + 1] = e /\ \A i \in 1..Len(q) : Append(q, e)[i] = q[i]
  OBVIOUS

HonestResult ==
  {res \in Result : /\ res.rows <= MaxRows /\ res.rows <= res.count
                    /\ res.truncated <=> res.rows < res.count}

LEMMA AddFact ==
  ASSUME NEW res \in HonestResult
  PROVE  add(res) \in HonestResult
  <1>1. /\ res \in Result /\ res.rows <= MaxRows /\ res.rows <= res.count /\ MaxRows \in Nat
        /\ res.truncated <=> res.rows < res.count
    BY SqlConsoleAssumption DEF HonestResult
  <1>2. res.rows \in Nat /\ res.count \in Nat /\ res.truncated \in BOOLEAN
    BY <1>1 DEF Result
  <1>3. CASE res.rows >= MaxRows
    <2>1. add(res) = [res EXCEPT !.count = res.count + 1, !.truncated = TRUE]
      BY <1>3 DEF add
    <2>2. add(res).rows = res.rows /\ add(res).count = res.count + 1 /\ add(res).truncated = TRUE
      BY <1>1, <2>1 DEF Result
    <2>3. add(res) \in Result
      <3>1. res.count + 1 \in Nat /\ TRUE \in BOOLEAN
        BY <1>2
      <3>2. QED
        BY <1>1, <2>1, <3>1 DEF Result
    <2>4. add(res).rows < add(res).count
      BY <1>1, <1>2, <2>2
    <2>5. QED
      BY <1>1, <1>2, <2>2, <2>3, <2>4 DEF HonestResult
  <1>4. CASE ~(res.rows >= MaxRows)
    <2>1. add(res) = [res EXCEPT !.count = res.count + 1, !.rows = res.rows + 1]
      BY <1>4 DEF add
    <2>2. /\ add(res).rows = res.rows + 1 /\ add(res).count = res.count + 1
          /\ add(res).truncated = res.truncated
      BY <1>1, <2>1 DEF Result
    <2>6. add(res) \in Result
      <3>1. res.count + 1 \in Nat /\ res.rows + 1 \in Nat
        BY <1>2
      <3>2. QED
        BY <1>1, <2>1, <3>1 DEF Result
    <2>3. add(res).rows <= MaxRows /\ add(res).rows <= add(res).count
      BY <1>1, <1>2, <1>4, <2>2
    <2>4. add(res).truncated <=> add(res).rows < add(res).count
      BY <1>1, <1>2, <2>2
    <2>5. QED
      BY <2>2, <2>3, <2>4, <2>6 DEF HonestResult
  <1>5. QED
    BY <1>3, <1>4

(* However many rows a query fetched.                                      *)
LEMMA OutcomesFact ==
  ASSUME NEW res \in Outcomes
  PROVE  res \in HonestResult
  <1> DEFINE m == MaxFetched
             D == 0..m
             Values == HonestResult
             Body(f) == [k \in 0..MaxFetched |-> IF k = 0 THEN NoRows ELSE add(f[k - 1])]
             base == [k \in D |-> NoRows]
             next == [k \in D |-> IF k = 0 THEN 0 ELSE k - 1]
             step == [k \in D |-> [v \in Values |-> add(v)]]
             rank == [k \in D |-> k]
  <1>1. m \in Nat
    BY SqlConsoleAssumption
  <1>2. NoRows \in Values /\ [NoRows EXCEPT !.err = TRUE] \in Values
    <2>1. 0 \in Nat /\ 0 <= MaxRows
      BY SqlConsoleAssumption
    <2>2. ASSUME NEW e \in BOOLEAN
          PROVE  [err |-> e, rows |-> 0, count |-> 0, truncated |-> FALSE] \in HonestResult
      <3> DEFINE none == [err |-> e, rows |-> 0, count |-> 0, truncated |-> FALSE]
      <3>1. none \in Result
        BY <2>1 DEF Result
      <3>2. none.rows = 0 /\ none.count = 0 /\ none.truncated = FALSE
        OBVIOUS
      <3> HIDE DEF none
      <3>3. none \in HonestResult
        BY <2>1, <3>1, <3>2 DEF HonestResult
      <3>4. QED
        BY <3>3 DEF none
    <2>3. NoRows \in Values
      BY <2>2 DEF NoRows
    <2>4. [NoRows EXCEPT !.err = TRUE] \in Values
      <3> DEFINE none == [NoRows EXCEPT !.err = TRUE]
      <3>1. NoRows.rows = 0 /\ NoRows.count = 0 /\ NoRows.truncated = FALSE
        BY DEF NoRows
      <3>2. NoRows \in Result
        BY <2>3 DEF HonestResult
      <3>3. none \in Result
        BY <3>2 DEF Result
      <3>4. none.rows = NoRows.rows /\ none.count = NoRows.count /\ none.truncated = NoRows.truncated
        BY <3>2 DEF Result
      <3> HIDE DEF none
      <3>5. none \in HonestResult
        BY <2>1, <3>1, <3>3, <3>4 DEF HonestResult
      <3>6. QED
        BY <3>5 DEF none
    <2>5. QED
      BY <2>3, <2>4
  <1>3. Falls(D, Values, m, rank, {0}, base, next, step)
    <2>1. rank \in [D -> 0..m] /\ next \in [D -> D] /\ \A x \in D : x \in {0} \/ rank[next[x]] < rank[x]
      BY <1>1
    <2>2. base \in [D -> Values] /\ step \in [D -> [Values -> Values]]
      <3> HIDE DEF D, Values
      <3>1. \A v \in Values : add(v) \in Values
        BY AddFact DEF Values
      <3>2. QED
        BY <1>2, <3>1
    <2> HIDE DEF m, D, Values, rank, base, next, step
    <2>3. QED
      BY <1>1, <2>1, <2>2 DEF Falls
  <1>4. PICK f : Unfolds(f, D, Values, {0}, base, next, step)
    <2> HIDE DEF m, D, Values, rank, base, next, step
    <2>1. QED
      BY <1>3, Recursion
  <1>5. f = Body(f)
    <2>1. f \in [D -> Values] /\ \A k \in D : f[k] = IF k \in {0} THEN base[k] ELSE step[k][f[next[k]]]
      <3> HIDE DEF m, D, Values, rank, base, next, step
      <3>1. QED
        BY <1>4 DEF Unfolds
    <2>2. ASSUME NEW k \in D PROVE f[k] = IF k = 0 THEN NoRows ELSE add(f[k - 1])
      <3>1. next[k] \in D /\ (k # 0 => next[k] = k - 1)
        BY <1>1
      <3>2. f[next[k]] \in Values
        <4> HIDE DEF D, Values, next
        <4>1. QED
          BY <2>1, <3>1
      <3>3. step[k][f[next[k]]] = add(f[next[k]])
        <4> HIDE DEF D, Values, next
        <4>1. QED
          BY <3>2
      <3> HIDE DEF next, step, Values
      <3>4. QED
        BY <2>1, <3>1, <3>3
    <2> HIDE DEF Values
    <2>3. QED
      BY <2>1, <2>2
  <1>6. Fetched = Body(Fetched)
    <2>1. Fetched = CHOOSE g : g = Body(g)
      BY DEF Fetched
    <2> HIDE DEF Body
    <2>2. QED
      BY <1>5, <2>1
  <1> DEFINE good == {k \in D : Fetched[k] \in Values}
  <1>7. ASSUME NEW k \in D, \A l \in D : rank[l] < rank[k] => l \in good PROVE k \in good
    <2>1. Fetched[k] = IF k = 0 THEN NoRows ELSE add(Fetched[k - 1])
      BY <1>6
    <2>2. CASE k = 0
      BY <1>2, <2>1, <2>2
    <2>3. CASE k # 0
      <3>1. k - 1 \in D /\ rank[k - 1] < rank[k]
        BY <1>1, <2>3
      <3>2. Fetched[k - 1] \in Values
        BY <1>7, <3>1
      <3>3. add(Fetched[k - 1]) \in Values
        BY <3>2, AddFact
      <3>4. QED
        BY <2>1, <2>3, <3>3
    <2>4. QED
      BY <2>2, <2>3
  <1>8. D \subseteq good
    <2>1. rank \in [D -> Nat]
      BY <1>1
    <2> HIDE DEF D, rank, good
    <2>2. QED
      BY <1>7, <2>1, RankInduction
  <1>9. Failed \in Values
    BY <1>2 DEF Failed
  <1> HIDE DEF Values
  <1>10. \A k \in D : Fetched[k] \in Values
    BY <1>8
  <1>11. res \in Values
    BY <1>9, <1>10 DEF Outcomes
  <1>12. QED
    BY <1>11 DEF Values

(* What RunsInOrder and LogsWhatRan say, statement by statement.           *)
FollowsScript ==
  Len(out) <= Len(Split(script)) /\ \A i \in DOMAIN out : out[i].sql = Split(script)[i].sql

StopsAtAnError == \A i \in DOMAIN out : out[i].res.err => i = Len(out)

EndsOrFails ==
  page \in {"shown", "shown read-only", "printed"} => Len(out) = Len(Split(script)) \/ Last(out).res.err

LogFollows ==
  page \in {"duckdb", "shown"} => Len(log) = Len(out) /\ \A i \in DOMAIN out : log[i] = EntryOf(out[i])

ConsoleTypeOK ==
  /\ script \in Seq(STRING) /\ typed \in 0..MaxTyped
  /\ page \in {"typing", "connect", "failed", "duckdb", "postgres", "command", "shown",
              "shown read-only", "printed"}
  /\ out \in Seq([sql : Seq(STRING), res : HonestResult])
  /\ log \in Seq([sql : Sent, err : BOOLEAN])
  /\ roTx \in {"none", "begun", "limited"} /\ (roTx # "none" => page = "postgres" /\ Left)
  /\ conn \in Settings \cup {Closed} /\ (conn # Closed <=> page = "duckdb")
  /\ page \in {"typing", "connect", "failed"} => out = <<>> /\ log = <<>>

LEMMA ConsoleParts ==
  ConsoleInv <=>
    /\ ConsoleTypeOK /\ FollowsScript /\ StopsAtAnError /\ EndsOrFails /\ LogFollows /\ SentReadOnly /\ PoolIsClean
  <1> DEFINE Entry == [sql : Seq(STRING), res : Result]
             Honest == [sql : Seq(STRING), res : HonestResult]
             Logged == [sql : Sent, err : BOOLEAN]
             done == [i \in DOMAIN out |-> out[i].sql]
             all == [i \in DOMAIN Split(script) |-> Split(script)[i].sql]
             L == Len(out)
             N == Len(Split(script))
  <1>1. ASSUME out \in Seq(Entry), ResultsAreHonest, \A i \in DOMAIN out : out[i].res.rows <= out[i].res.count
        PROVE  out \in Seq(Honest)
    <2>1. L \in Nat /\ DOMAIN out = 1..L /\ out = [i \in 1..L |-> out[i]] /\ \A i \in DOMAIN out : out[i] \in Entry
      <3> HIDE DEF Entry
      <3>1. QED
        BY <1>1, SequenceIs
    <2>2. ASSUME NEW i \in DOMAIN out PROVE out[i] \in Honest
      <3>1. out[i] \in Entry
        BY <2>1
      <3>2. out[i].res \in HonestResult
        BY <1>1, <3>1 DEF ResultsAreHonest, HonestResult
      <3>3. QED
        BY <3>1, <3>2
    <2> HIDE DEF Honest, L
    <2>3. QED
      BY <2>1, <2>2, SequenceOf
  <1>2. ASSUME out \in Seq(Honest)
        PROVE  /\ out \in Seq(Entry) /\ ResultsAreHonest
               /\ \A i \in DOMAIN out : out[i].res.rows <= out[i].res.count
    <2>1. L \in Nat /\ DOMAIN out = 1..L /\ out = [i \in 1..L |-> out[i]] /\ \A i \in DOMAIN out : out[i] \in Honest
      <3> HIDE DEF Honest
      <3>1. QED
        BY <1>2, SequenceIs
    <2>2. ASSUME NEW i \in DOMAIN out
          PROVE  out[i] \in Entry /\ out[i].res \in HonestResult
      <3>1. out[i] \in Honest
        BY <2>1
      <3>2. QED
        BY <3>1 DEF HonestResult
    <2>3. out \in Seq(Entry)
      <3> HIDE DEF Entry, Honest, L
      <3>1. QED
        BY <2>1, <2>2, SequenceOf
    <2>4. QED
      BY <2>2, <2>3 DEF ResultsAreHonest, HonestResult
  <1>3. ASSUME script \in Seq(STRING), out \in Seq(Entry)
        PROVE  /\ IsPrefix(done, all) <=> FollowsScript
               /\ FollowsScript => (done = all <=> L = N)
    <2>1. L \in Nat /\ DOMAIN out = 1..L /\ \A i \in 1..L : out[i].sql \in Seq(STRING)
      <3>1. L \in Nat /\ DOMAIN out = 1..L /\ \A i \in DOMAIN out : out[i] \in Entry
        <4> HIDE DEF Entry
        <4>1. QED
          BY <1>3, SequenceIs
      <3>2. QED
        BY <3>1
    <2>2. N \in Nat /\ DOMAIN Split(script) = 1..N /\ \A i \in 1..N : Split(script)[i].sql \in Seq(STRING)
      <3>1. N \in Nat /\ DOMAIN Split(script) = 1..N /\ \A i \in DOMAIN Split(script) : Split(script)[i] \in Statement
        BY <1>3, SplitFact, SequenceIs
      <3>2. QED
        BY <3>1 DEF Statement
    <2> HIDE DEF L, N
    <2>3. /\ done = [i \in 1..L |-> done[i]] /\ \A i \in 1..L : done[i] = out[i].sql /\ done[i] \in Seq(STRING)
      BY <2>1
    <2>4. /\ all = [i \in 1..N |-> all[i]] /\ \A i \in 1..N : all[i] = Split(script)[i].sql /\ all[i] \in Seq(STRING)
      BY <2>2
    <2> HIDE DEF done, all
    <2>5. done \in Seq(Seq(STRING)) /\ Len(done) = L /\ DOMAIN done = 1..L
      BY <2>1, <2>3, SequenceOf
    <2>6. all \in Seq(Seq(STRING)) /\ Len(all) = N /\ DOMAIN all = 1..N
      BY <2>2, <2>4, SequenceOf
    <2>7. FollowsScript <=> L <= N /\ \A i \in 1..L : done[i] = all[i]
      <3>1. FollowsScript <=> L <= N /\ \A i \in 1..L : out[i].sql = Split(script)[i].sql
        BY <2>1 DEF FollowsScript, L, N
      <3>2. L <= N => \A i \in 1..L : i \in 1..N
        BY <2>1, <2>2
      <3>3. QED
        BY <2>3, <2>4, <3>1, <3>2
    <2>8. IsPrefix(done, all) <=> FollowsScript
      <3>1. IsPrefix(done, all) <=> L <= N /\ SubSeq(done, 1, L) = SubSeq(all, 1, L)
        BY <2>5, <2>6 DEF IsPrefix
      <3>2. ASSUME L <= N
            PROVE  SubSeq(done, 1, L) = [i \in 1..L |-> done[i]] /\ SubSeq(all, 1, L) = [i \in 1..L |-> all[i]]
        BY <2>1, <2>2, <2>5, <2>6, <3>2
      <3>3. QED
        BY <2>7, <3>1, <3>2
    <2>9. FollowsScript => (done = all <=> L = N)
      <3>1. done = all => L = N
        BY <2>5, <2>6
      <3>2. FollowsScript /\ L = N => done = all
        BY <2>3, <2>4, <2>7
      <3>3. QED
        BY <3>1, <3>2
    <2>10. QED
      BY <2>8, <2>9 DEF L, N
  <1>4. ASSUME out \in Seq(Entry), log \in Seq(Logged)
        PROVE  log = [i \in DOMAIN out |-> EntryOf(out[i])]
                 <=> Len(log) = L /\ \A i \in DOMAIN out : log[i] = EntryOf(out[i])
    <2>1. L \in Nat /\ DOMAIN out = 1..L
      <3> HIDE DEF Entry
      <3>1. QED
        BY <1>4, SequenceIs
    <2>2. Len(log) \in Nat /\ DOMAIN log = 1..Len(log) /\ log = [i \in 1..Len(log) |-> log[i]]
      <3> HIDE DEF Logged
      <3>1. QED
        BY <1>4, SequenceIs
    <2> DEFINE said(i) == EntryOf(out[i])
    <2> HIDE DEF said, L
    <2>3. log = [i \in 1..L |-> said(i)] <=> Len(log) = L /\ \A i \in 1..L : log[i] = said(i)
      <3>1. ASSUME log = [i \in 1..L |-> said(i)] PROVE Len(log) = L /\ \A i \in 1..L : log[i] = said(i)
        <4>1. DOMAIN log = 1..L
          BY <3>1
        <4>2. 1..L = 1..Len(log)
          BY <2>2, <4>1
        <4>3. Len(log) = L
          BY <2>1, <2>2, <4>2
        <4>4. QED
          BY <3>1, <4>3
      <3>2. ASSUME Len(log) = L, \A i \in 1..L : log[i] = said(i) PROVE log = [i \in 1..L |-> said(i)]
        BY <2>2, <3>2
      <3>3. QED
        BY <3>1, <3>2
    <2>4. QED
      BY <2>1, <2>3 DEF said, L
  <1>5. ConsoleInv => ConsoleTypeOK /\ FollowsScript /\ StopsAtAnError /\ EndsOrFails /\ LogFollows /\ SentReadOnly /\ PoolIsClean
    <2> SUFFICES ASSUME ConsoleInv
                 PROVE  ConsoleTypeOK /\ FollowsScript /\ StopsAtAnError /\ EndsOrFails /\ LogFollows /\ SentReadOnly /\ PoolIsClean
      OBVIOUS
    <2>1. ConsoleTypeOK
      BY <1>1 DEF ConsoleInv, PageIsHonest, ConsoleTypeOK
    <2>2. /\ RunsInOrder /\ LogsWhatRan /\ SentReadOnly /\ script \in Seq(STRING) /\ out \in Seq(Entry)
          /\ log \in Seq(Logged) /\ PoolIsClean
      BY DEF ConsoleInv, PageIsHonest
    <2>3. FollowsScript
      BY <1>3, <2>2 DEF RunsInOrder
    <2>4. StopsAtAnError /\ EndsOrFails
      BY <1>3, <2>2, <2>3 DEF RunsInOrder, StopsAtAnError, EndsOrFails
    <2>5. LogFollows
      BY <1>4, <2>2 DEF LogsWhatRan, LogFollows
    <2>6. QED
      BY <2>1, <2>2, <2>3, <2>4, <2>5
  <1>6. ConsoleTypeOK /\ FollowsScript /\ StopsAtAnError /\ EndsOrFails /\ LogFollows /\ SentReadOnly /\ PoolIsClean => ConsoleInv
    <2> SUFFICES ASSUME ConsoleTypeOK, FollowsScript, StopsAtAnError, EndsOrFails, LogFollows, SentReadOnly, PoolIsClean
                 PROVE  ConsoleInv
      OBVIOUS
    <2>1. /\ out \in Seq(Entry) /\ ResultsAreHonest /\ script \in Seq(STRING)
          /\ log \in Seq(Logged)
          /\ \A i \in DOMAIN out : out[i].res.rows <= out[i].res.count
      BY <1>2 DEF ConsoleTypeOK
    <2>2. IsPrefix(done, all) /\ (done = all <=> L = N)
      BY <1>3, <2>1
    <2>3. LogsWhatRan
      BY <1>4, <2>1 DEF LogFollows, LogsWhatRan
    <2>4. RunsInOrder
      BY <2>2 DEF RunsInOrder, StopsAtAnError, EndsOrFails
    <2>5. QED
      BY <2>1, <2>3, <2>4 DEF ConsoleInv, ConsoleTypeOK, PageIsHonest
  <1>7. QED
    BY <1>5, <1>6

ConsoleHolds ==
  /\ ConsoleTypeOK /\ FollowsScript /\ StopsAtAnError /\ EndsOrFails /\ LogFollows /\ SentReadOnly /\ PoolIsClean

LEMMA SplitLength ==
  ASSUME NEW s \in Seq(STRING)
  PROVE  /\ Len(Split(s)) \in Nat
         /\ \A i \in 1..Len(Split(s)) : Split(s)[i].sql \in Seq(STRING)
  <1>1. Len(Split(s)) \in Nat /\ \A i \in 1..Len(Split(s)) : Split(s)[i] \in Statement
    BY SplitFact, SequenceIs
  <1>2. QED
    BY <1>1 DEF Statement

LEMMA TypePreservesConsole ==
  ASSUME ConsoleHolds, Type
  PROVE  ConsoleHolds'
  <1>1. out = <<>> /\ Len(out) = 0 /\ DOMAIN out = {} /\ page = "typing" /\ roTx = "none"
    BY DEF ConsoleHolds, ConsoleTypeOK, Type
  <1>2. script' \in Seq(STRING)
    <2>1. PICK k \in Keys : script' = script \o k
      BY DEF Type
    <2>2. script \in Seq(STRING) /\ k \in Seq(STRING)
      BY SqlConsoleAssumption DEF ConsoleHolds, ConsoleTypeOK
    <2>3. QED
      BY <2>1, <2>2
  <1>3. typed' \in 0..MaxTyped
    BY SqlConsoleAssumption DEF ConsoleHolds, ConsoleTypeOK, Type
  <1>4. UNCHANGED <<page, out, log, roTx, conn, pool>>
    BY DEF Type
  <1>5. ConsoleTypeOK'
    BY <1>1, <1>2, <1>3, <1>4 DEF ConsoleHolds, ConsoleTypeOK
  <1>6. FollowsScript'
    <2>1. Len(Split(script')) \in Nat
      BY <1>2, SplitLength
    <2>2. Len(out') = 0 /\ DOMAIN out' = {}
      BY <1>1, <1>4
    <2>3. QED
      BY <2>1, <2>2 DEF FollowsScript
  <1>7. StopsAtAnError' /\ EndsOrFails' /\ LogFollows' /\ SentReadOnly' /\ PoolIsClean'
    BY <1>1, <1>4 DEF ConsoleHolds, StopsAtAnError, EndsOrFails, LogFollows, SentReadOnly, PoolIsClean
  <1>8. QED
    BY <1>5, <1>6, <1>7 DEF ConsoleHolds

(* A page on which nothing ran yet has nothing in its log.                 *)
LEMMA NothingSent ==
  ASSUME out = <<>>, log = <<>>, roTx = "none"
  PROVE  SentReadOnly
  <1>1. Len(out) = 0 /\ DOMAIN log = {} /\ Len(log) = 0 /\ Stage = 0
    BY DEF Stage
  <1>2. ~HasFailed
    BY DEF HasFailed
  <1>3. \A i \in 1..(Len(out) + 1) :
          3 * i - 2 \notin DOMAIN log /\ 3 * i - 1 \notin DOMAIN log /\ 3 * i \notin DOMAIN log
    BY <1>1
  <1>4. \A k \in DOMAIN log : log[k].err => k = Len(log) /\ HasFailed
    BY <1>1
  <1>5. Len(log) = 3 * Len(out) + Stage
    BY <1>1
  <1>6. QED
    BY <1>2, <1>3, <1>4, <1>5 DEF SentReadOnly

LEMMA SubmitPreservesConsole ==
  ASSUME ConsoleHolds, Submit
  PROVE  ConsoleHolds'
  <1>1. /\ page = "typing" /\ page' \in {"connect", "postgres", "command"}
        /\ UNCHANGED <<script, typed, out, log, roTx, conn, pool>>
    BY DEF Submit
  <1>2. out = <<>> /\ log = <<>> /\ roTx = "none"
    BY <1>1 DEF ConsoleHolds, ConsoleTypeOK
  <1>3. ConsoleTypeOK'
    BY <1>1, <1>2 DEF ConsoleHolds, ConsoleTypeOK
  <1>4. FollowsScript' /\ StopsAtAnError' /\ PoolIsClean'
    BY <1>1 DEF ConsoleHolds, FollowsScript, StopsAtAnError, PoolIsClean
  <1>5. EndsOrFails' /\ LogFollows'
    BY <1>1 DEF EndsOrFails, LogFollows
  <1>6. SentReadOnly'
    <2>1. out' = <<>> /\ log' = <<>> /\ roTx' = "none"
      BY <1>1, <1>2
    <2>2. Len(out') = 0 /\ DOMAIN log' = {} /\ Len(log') = 0 /\ Stage' = 0 /\ ~HasFailed'
      BY <2>1 DEF Stage, HasFailed
    <2>3. \A i \in 1..(Len(out') + 1) :
            3 * i - 2 \notin DOMAIN log' /\ 3 * i - 1 \notin DOMAIN log' /\ 3 * i \notin DOMAIN log'
      BY <2>2
    <2>4. \A k \in DOMAIN log' : log'[k].err => k = Len(log') /\ HasFailed'
      BY <2>2
    <2>5. Len(log') = 3 * Len(out') + Stage'
      BY <2>2
    <2>6. QED
      BY <2>2, <2>3, <2>4, <2>5 DEF SentReadOnly
  <1>7. QED
    BY <1>3, <1>4, <1>5, <1>6 DEF ConsoleHolds

LEMMA ConnectPreservesConsole ==
  ASSUME ConsoleHolds, Connect
  PROVE  ConsoleHolds'
  <1>1. /\ page = "connect" /\ conn = Closed /\ out = <<>> /\ log = <<>> /\ roTx = "none"
        /\ UNCHANGED <<script, typed, out, log, roTx>>
    BY DEF ConsoleHolds, ConsoleTypeOK, Connect
  <1>2. /\ pool' \subseteq {"default"}
        /\ \/ page' = "duckdb" /\ conn' = "default"
           \/ page' = "failed" /\ conn' = Closed
    BY <1>1 DEF ConsoleHolds, PoolIsClean, Connect
  <1>3. "default" # Closed /\ "default" \in Settings
    BY DEF Closed, Settings
  <1>4. ConsoleTypeOK'
    BY <1>1, <1>2, <1>3 DEF ConsoleHolds, ConsoleTypeOK
  <1>5. FollowsScript' /\ StopsAtAnError' /\ PoolIsClean'
    BY <1>1, <1>2 DEF ConsoleHolds, FollowsScript, StopsAtAnError, PoolIsClean
  <1>6. EndsOrFails' /\ LogFollows' /\ SentReadOnly'
    <2>1. Len(out') = 0 /\ DOMAIN out' = {} /\ Len(log') = 0
      BY <1>1
    <2>2. QED
      BY <1>2, <2>1 DEF EndsOrFails, LogFollows, SentReadOnly
  <1>7. QED
    BY <1>4, <1>5, <1>6 DEF ConsoleHolds

(* Nothing that ran before has failed: the next statement of the script is *)
(* the one whose result is shown.                                          *)
LEMMA ShowsKeeps ==
  ASSUME ConsoleHolds, Left, page \in {"duckdb", "postgres", "command"},
         NEW res \in HonestResult, Shows(res), UNCHANGED <<script, page>>
  PROVE  /\ Current \in Seq(STRING) /\ Len(out) \in Nat /\ DOMAIN out = 1..Len(out)
         /\ out' \in Seq([sql : Seq(STRING), res : HonestResult])
         /\ Len(out') = Len(out) + 1 /\ DOMAIN out' = 1..(Len(out) + 1)
         /\ out'[Len(out) + 1].sql = Current /\ out'[Len(out) + 1].res = res
         /\ \A i \in 1..Len(out) : out'[i] = out[i]
         /\ HasFailed' <=> res.err
         /\ FollowsScript' /\ StopsAtAnError' /\ EndsOrFails'
  <1> DEFINE L == Len(out)
             Honest == [sql : Seq(STRING), res : HonestResult]
             entry == [sql |-> Current, res |-> res]
  <1>1. ~HasFailed /\ L < Len(Split(script)) /\ script' = script /\ page' = page
    BY DEF Left
  <1>2. script \in Seq(STRING) /\ out \in Seq(Honest)
    BY DEF ConsoleHolds, ConsoleTypeOK
  <1>3. L \in Nat /\ DOMAIN out = 1..L
    <2> HIDE DEF Honest
    <2>1. QED
      BY <1>2, SequenceIs
  <1>4. Current \in Seq(STRING)
    <2>1. L + 1 \in 1..Len(Split(script))
      BY <1>1, <1>2, <1>3, SplitLength
    <2>2. QED
      BY <1>2, <2>1, SplitLength DEF Current
  <1>5. entry \in Honest /\ entry.sql = Current /\ entry.res = res
    BY <1>4
  <1>6. /\ out' \in Seq(Honest) /\ Len(out') = L + 1 /\ DOMAIN out' = 1..(L + 1)
        /\ out'[L + 1] = entry /\ \A i \in 1..L : out'[i] = out[i]
    <2>1. out' = Append(out, entry)
      BY DEF Shows
    <2> HIDE DEF entry, Honest
    <2>2. QED
      BY <1>2, <1>5, <2>1
  <1> HIDE DEF entry
  <1>7. HasFailed' <=> res.err
    <2>1. out' # <<>> /\ Last(out') = entry
      BY <1>3, <1>6 DEF Last
    <2>2. QED
      BY <1>5, <2>1 DEF HasFailed
  <1>8. FollowsScript'
    <2>1. Len(out') <= Len(Split(script'))
      BY <1>1, <1>2, <1>3, <1>6, SplitLength
    <2>2. ASSUME NEW i \in 1..(L + 1) PROVE out'[i].sql = Split(script')[i].sql
      <3>1. CASE i = L + 1
        BY <1>1, <1>5, <1>6, <3>1 DEF Current
      <3>2. CASE i # L + 1
        <4>1. i \in 1..L
          BY <1>3, <2>2, <3>2
        <4>2. out[i].sql = Split(script)[i].sql
          BY <1>3, <4>1 DEF ConsoleHolds, FollowsScript
        <4>3. QED
          BY <1>1, <1>6, <4>1, <4>2
      <3>3. QED
        BY <3>1, <3>2
    <2>3. QED
      BY <1>6, <2>1, <2>2 DEF FollowsScript
  <1>9. StopsAtAnError'
    <2>1. ASSUME NEW i \in 1..(L + 1), out'[i].res.err, i # L + 1 PROVE FALSE
      <3>1. i \in 1..L
        BY <1>3, <2>1
      <3>2. out[i].res.err /\ i = L
        BY <1>3, <1>6, <2>1, <3>1 DEF ConsoleHolds, StopsAtAnError
      <3>3. out # <<>> /\ Last(out) = out[L]
        BY <1>3, <3>1 DEF Last
      <3>4. QED
        BY <1>1, <3>2, <3>3 DEF HasFailed
    <2>2. QED
      BY <1>6, <2>1 DEF StopsAtAnError
  <1>10. EndsOrFails'
    BY <1>1 DEF EndsOrFails
  <1>11. QED
    BY <1>3, <1>4, <1>5, <1>6, <1>7, <1>8, <1>9, <1>10

LEMMA LogsKeeps ==
  ASSUME ConsoleHolds, NEW sql \in Sent, NEW err \in BOOLEAN, Logs(sql, err)
  PROVE  /\ log' \in Seq([sql : Sent, err : BOOLEAN])
         /\ Len(log) \in Nat /\ DOMAIN log = 1..Len(log)
         /\ Len(log') = Len(log) + 1 /\ DOMAIN log' = 1..(Len(log) + 1)
         /\ log'[Len(log) + 1] = [sql |-> sql, err |-> err]
         /\ \A k \in 1..Len(log) : log'[k] = log[k]
         /\ Last(log').err = err
  <1> DEFINE Logged == [sql : Sent, err : BOOLEAN]
             entry == [sql |-> sql, err |-> err]
  <1>1. entry \in Logged /\ entry.err = err
    OBVIOUS
  <1>2. log \in Seq(Logged)
    BY DEF ConsoleHolds, ConsoleTypeOK
  <1>3. log' = Append(log, entry)
    BY DEF Logs
  <1> HIDE DEF Logged, entry
  <1>4. /\ log' \in Seq(Logged) /\ Len(log) \in Nat /\ Len(log') = Len(log) + 1
        /\ log'[Len(log) + 1] = entry /\ \A k \in 1..Len(log) : log'[k] = log[k]
    BY <1>1, <1>2, <1>3, Appended
  <1>5. DOMAIN log = 1..Len(log) /\ DOMAIN log' = 1..(Len(log) + 1)
    BY <1>2, <1>4, SequenceIs
  <1>6. Last(log').err = err
    BY <1>1, <1>4 DEF Last
  <1>7. QED
    BY <1>4, <1>5, <1>6 DEF Logged, entry

LEMMA TextsAre == ReadOnly \in Sent /\ TimeLimit \in Sent /\ Seq(STRING) \subseteq Sent
  BY Zenon DEF Sent

LEMMA ExecutePreservesConsole ==
  ASSUME ConsoleHolds, Execute
  PROVE  ConsoleHolds'
  <1>1. page \in {"duckdb", "command"} /\ Left /\ UNCHANGED <<script, typed, page, roTx, pool>>
    BY DEF Execute
  <1>2. PICK res \in Outcomes :
          /\ Shows(res)
          /\ IF page = "duckdb" THEN Logs(Current, res.err) ELSE UNCHANGED log
          /\ conn' \in IF page = "duckdb" /\ ~res.err THEN {conn, "changed"} ELSE {conn}
    BY DEF Execute
  <1>3. res \in HonestResult /\ res.err \in BOOLEAN
    BY <1>2, OutcomesFact DEF HonestResult, Result
  <1> DEFINE L == Len(out)
  <1>4. /\ Current \in Seq(STRING) /\ L \in Nat /\ DOMAIN out = 1..L
        /\ out' \in Seq([sql : Seq(STRING), res : HonestResult])
        /\ Len(out') = L + 1 /\ DOMAIN out' = 1..(L + 1)
        /\ out'[L + 1].sql = Current /\ out'[L + 1].res = res
        /\ \A i \in 1..L : out'[i] = out[i]
        /\ FollowsScript' /\ StopsAtAnError' /\ EndsOrFails'
    BY <1>1, <1>2, <1>3, ShowsKeeps
  <1>5. roTx = "none" /\ roTx' = "none"
    BY <1>1 DEF ConsoleHolds, ConsoleTypeOK
  <1>6. log' \in Seq([sql : Sent, err : BOOLEAN])
    <2>1. CASE page = "duckdb"
      BY <1>2, <1>3, <1>4, <2>1, LogsKeeps, TextsAre
    <2>2. CASE page # "duckdb"
      BY <1>2, <2>2 DEF ConsoleHolds, ConsoleTypeOK
    <2>3. QED
      BY <2>1, <2>2
  <1>7. ConsoleTypeOK'
    <2>1. conn' \in Settings \cup {Closed} /\ (conn' # Closed <=> page' = "duckdb")
      BY <1>1, <1>2 DEF ConsoleHolds, ConsoleTypeOK, Settings, Closed
    <2>2. script' \in Seq(STRING) /\ typed' \in 0..MaxTyped /\ page' \in {"duckdb", "command"}
      BY <1>1 DEF ConsoleHolds, ConsoleTypeOK
    <2>3. QED
      BY <1>4, <1>5, <1>6, <2>1, <2>2 DEF ConsoleTypeOK
  <1>8. LogFollows'
    <2>1. SUFFICES ASSUME page = "duckdb"
                   PROVE  Len(log') = L + 1 /\ \A i \in 1..(L + 1) : log'[i] = EntryOf(out'[i])
      BY <1>1, <1>4 DEF LogFollows
    <2>2. Len(log) = L /\ \A i \in 1..L : log[i] = EntryOf(out[i])
      BY <1>4, <2>1 DEF ConsoleHolds, LogFollows
    <2>3. /\ Len(log') = L + 1 /\ log'[L + 1] = [sql |-> Current, err |-> res.err]
          /\ \A i \in 1..L : log'[i] = log[i]
      BY <1>2, <1>3, <1>4, <2>1, <2>2, LogsKeeps, TextsAre
    <2>4. ASSUME NEW i \in 1..(L + 1) PROVE log'[i] = EntryOf(out'[i])
      <3>1. CASE i = L + 1
        BY <1>4, <2>3, <3>1 DEF EntryOf
      <3>2. CASE i # L + 1
        <4>1. i \in 1..L
          BY <1>4, <2>4, <3>2
        <4>2. QED
          BY <1>4, <2>2, <2>3, <4>1
      <3>3. QED
        BY <3>1, <3>2
    <2>5. QED
      BY <2>3, <2>4
  <1>9. SentReadOnly' /\ PoolIsClean'
    BY <1>1 DEF ConsoleHolds, SentReadOnly, PoolIsClean
  <1>10. QED
    BY <1>4, <1>7, <1>8, <1>9 DEF ConsoleHolds

(* What is the same for the three statements of a read-only transaction:   *)
(* one that works is followed by the next, any other ends the transaction  *)
(* and is shown.                                                           *)
SendsNext(sql) ==
  /\ roTx \in {"none", "begun"} /\ Logs(sql, FALSE) /\ out' = out
  /\ roTx' = IF roTx = "none" THEN "begun" ELSE "limited"
SendsLast(sql, res) == Logs(sql, res.err) /\ roTx' = "none" /\ Shows(res) /\ (res.err \/ roTx = "limited")
InTurn(sql) ==
  sql = CASE roTx = "none" -> ReadOnly [] roTx = "begun" -> TimeLimit [] OTHER -> Current

(* While nothing failed, the log is as long as what was sent.              *)
LEMMA SentSoFar ==
  ASSUME ConsoleHolds, page = "postgres", Left
  PROVE  /\ Len(out) \in Nat /\ DOMAIN out = 1..Len(out) /\ ~HasFailed /\ Stage \in 0..2
         /\ Len(log) = 3 * Len(out) + Stage /\ DOMAIN log = 1..Len(log) /\ Len(log) \in Nat
         /\ \A k \in DOMAIN log : ~log[k].err
         /\ \A i \in 1..(Len(out) + 1) :
              /\ 3 * i - 2 \in DOMAIN log => log[3 * i - 2].sql = ReadOnly
              /\ 3 * i - 1 \in DOMAIN log => log[3 * i - 1].sql = TimeLimit
              /\ 3 * i \in DOMAIN log => i <= Len(out) /\ log[3 * i] = EntryOf(out[i])
  <1> DEFINE Honest == [sql : Seq(STRING), res : HonestResult]
             Logged == [sql : Sent, err : BOOLEAN]
  <1>1. out \in Seq(Honest) /\ log \in Seq(Logged) /\ roTx \in {"none", "begun", "limited"}
    BY DEF ConsoleHolds, ConsoleTypeOK
  <1>2. Len(out) \in Nat /\ DOMAIN out = 1..Len(out) /\ Len(log) \in Nat /\ DOMAIN log = 1..Len(log)
    <2> HIDE DEF Honest, Logged
    <2>1. QED
      BY <1>1, SequenceIs
  <1>3. Stage \in 0..2 /\ ~HasFailed
    BY <1>1 DEF Stage, Left
  <1>4. QED
    BY <1>2, <1>3 DEF ConsoleHolds, SentReadOnly

LEMMA SendsNextKeeps ==
  ASSUME ConsoleHolds, page = "postgres", Left, NEW sql \in Sent, InTurn(sql), SendsNext(sql),
         UNCHANGED <<script, typed, page, conn, pool>>
  PROVE  ConsoleHolds'
  <1> DEFINE L == Len(out)
             M == Len(log)
  <1>1. /\ L \in Nat /\ ~HasFailed /\ M = 3 * L + Stage /\ DOMAIN log = 1..M /\ M \in Nat
        /\ \A k \in DOMAIN log : ~log[k].err
        /\ \A i \in 1..(L + 1) :
             /\ 3 * i - 2 \in DOMAIN log => log[3 * i - 2].sql = ReadOnly
             /\ 3 * i - 1 \in DOMAIN log => log[3 * i - 1].sql = TimeLimit
             /\ 3 * i \in DOMAIN log => i <= L /\ log[3 * i] = EntryOf(out[i])
    BY SentSoFar
  <1>2. /\ log' \in Seq([sql : Sent, err : BOOLEAN])
        /\ Len(log') = M + 1 /\ DOMAIN log' = 1..(M + 1)
        /\ log'[M + 1] = [sql |-> sql, err |-> FALSE] /\ \A k \in 1..M : log'[k] = log[k]
    BY LogsKeeps DEF SendsNext
  <1>3. /\ out' = out /\ script' = script /\ page' = page /\ roTx \in {"none", "begun"}
        /\ roTx' = IF roTx = "none" THEN "begun" ELSE "limited"
    BY DEF SendsNext
  <1>4. Stage' = Stage + 1 /\ Stage \in {0, 1} /\ sql = IF Stage = 0 THEN ReadOnly ELSE TimeLimit
    BY <1>3 DEF Stage, InTurn
  <1>5. HasFailed' = HasFailed /\ Left' = Left
    BY <1>3 DEF HasFailed, Left
  <1>6. ConsoleTypeOK'
    BY <1>2, <1>3, <1>5 DEF ConsoleHolds, ConsoleTypeOK
  <1>7. FollowsScript' /\ StopsAtAnError' /\ EndsOrFails' /\ LogFollows' /\ PoolIsClean'
    BY <1>3 DEF ConsoleHolds, FollowsScript, StopsAtAnError, EndsOrFails, LogFollows, PoolIsClean
  <1>8. SentReadOnly'
    <2> HIDE DEF L, M
    <2>1. log'[M + 1].sql = sql /\ ~log'[M + 1].err
      BY <1>2
    <2>2. ASSUME NEW k \in 1..(M + 1) PROVE k = M + 1 \/ k \in 1..M
      BY <1>1
    <2>3. ASSUME NEW i \in 1..(L + 1)
          PROVE  /\ 3 * i - 2 \in 1..(M + 1) => log'[3 * i - 2].sql = ReadOnly
                 /\ 3 * i - 1 \in 1..(M + 1) => log'[3 * i - 1].sql = TimeLimit
                 /\ 3 * i \in 1..(M + 1) => i <= L /\ log'[3 * i] = EntryOf(out[i])
      <3>1. 3 * i - 2 = M + 1 => Stage = 0
        BY <1>1, <1>4
      <3>2. 3 * i - 1 = M + 1 => Stage = 1
        BY <1>1, <1>4
      <3>3. 3 * i # M + 1
        BY <1>1, <1>4
      <3>4. ASSUME 3 * i - 2 \in 1..(M + 1) PROVE log'[3 * i - 2].sql = ReadOnly
        <4>1. CASE 3 * i - 2 = M + 1
          BY <1>4, <2>1, <3>1, <4>1
        <4>2. CASE 3 * i - 2 # M + 1
          <5>1. 3 * i - 2 \in 1..M
            BY <2>2, <3>4, <4>2
          <5>2. QED
            BY <1>1, <1>2, <5>1
        <4>3. QED
          BY <4>1, <4>2
      <3>5. ASSUME 3 * i - 1 \in 1..(M + 1) PROVE log'[3 * i - 1].sql = TimeLimit
        <4>1. CASE 3 * i - 1 = M + 1
          BY <1>4, <2>1, <3>2, <4>1
        <4>2. CASE 3 * i - 1 # M + 1
          <5>1. 3 * i - 1 \in 1..M
            BY <2>2, <3>5, <4>2
          <5>2. QED
            BY <1>1, <1>2, <5>1
        <4>3. QED
          BY <4>1, <4>2
      <3>6. ASSUME 3 * i \in 1..(M + 1) PROVE i <= L /\ log'[3 * i] = EntryOf(out[i])
        <4>1. 3 * i \in 1..M
          BY <2>2, <3>3, <3>6
        <4>2. QED
          BY <1>1, <1>2, <4>1
      <3>7. QED
        BY <3>4, <3>5, <3>6
    <2>4. \A k \in DOMAIN log' : ~log'[k].err
      BY <1>1, <1>2, <2>1, <2>2
    <2>5. Len(log') = 3 * L + Stage'
      BY <1>1, <1>2, <1>4
    <2>6. ~HasFailed'
      BY <1>1, <1>5
    <2>7. Len(out') = L
      BY <1>3 DEF L
    <2>8. \A i \in 1..(Len(out') + 1) :
            /\ 3 * i - 2 \in DOMAIN log' => log'[3 * i - 2].sql = ReadOnly
            /\ 3 * i - 1 \in DOMAIN log' => log'[3 * i - 1].sql = TimeLimit
            /\ 3 * i \in DOMAIN log' => i <= Len(out') /\ log'[3 * i] = EntryOf(out'[i])
      BY <1>2, <1>3, <2>3, <2>7
    <2>9. QED
      BY <2>4, <2>5, <2>6, <2>7, <2>8 DEF SentReadOnly
  <1>9. QED
    BY <1>6, <1>7, <1>8 DEF ConsoleHolds

LEMMA SendsLastKeeps ==
  ASSUME ConsoleHolds, page = "postgres", Left, NEW sql \in Sent, InTurn(sql),
         NEW res \in HonestResult, SendsLast(sql, res), UNCHANGED <<script, typed, page, conn, pool>>
  PROVE  ConsoleHolds'
  <1> DEFINE L == Len(out)
             M == Len(log)
  <1>1. /\ L \in Nat /\ ~HasFailed /\ M = 3 * L + Stage /\ DOMAIN log = 1..M /\ M \in Nat /\ Stage \in 0..2
        /\ \A k \in DOMAIN log : ~log[k].err
        /\ \A i \in 1..(L + 1) :
             /\ 3 * i - 2 \in DOMAIN log => log[3 * i - 2].sql = ReadOnly
             /\ 3 * i - 1 \in DOMAIN log => log[3 * i - 1].sql = TimeLimit
             /\ 3 * i \in DOMAIN log => i <= L /\ log[3 * i] = EntryOf(out[i])
    BY SentSoFar
  <1>2. res.err \in BOOLEAN
    BY DEF HonestResult, Result
  <1>3. /\ log' \in Seq([sql : Sent, err : BOOLEAN])
        /\ Len(log') = M + 1 /\ DOMAIN log' = 1..(M + 1)
        /\ log'[M + 1] = [sql |-> sql, err |-> res.err] /\ \A k \in 1..M : log'[k] = log[k]
        /\ Last(log').err = res.err
    BY <1>2, LogsKeeps DEF SendsLast
  <1>4. /\ out' \in Seq([sql : Seq(STRING), res : HonestResult])
        /\ Len(out') = L + 1 /\ out'[L + 1].sql = Current /\ out'[L + 1].res = res
        /\ \A i \in 1..L : out'[i] = out[i]
        /\ HasFailed' <=> res.err
        /\ FollowsScript' /\ StopsAtAnError' /\ EndsOrFails'
    BY ShowsKeeps DEF SendsLast
  <1>5. roTx' = "none" /\ page' = page /\ (res.err \/ roTx = "limited") /\ roTx \in {"none", "begun", "limited"}
    BY DEF SendsLast, ConsoleHolds, ConsoleTypeOK
  <1>6. /\ Stage' = 0 /\ (res.err \/ Stage = 2)
        /\ sql = IF Stage = 0 THEN ReadOnly ELSE IF Stage = 1 THEN TimeLimit ELSE Current
    BY <1>5 DEF Stage, InTurn
  <1>7. ConsoleTypeOK'
    BY <1>3, <1>4, <1>5 DEF ConsoleHolds, ConsoleTypeOK
  <1>8. LogFollows' /\ PoolIsClean'
    BY <1>5 DEF ConsoleHolds, LogFollows, PoolIsClean
  <1>9. SentReadOnly'
    <2> HIDE DEF L, M
    <2>0. L \in Nat /\ M = 3 * L + Stage /\ M \in Nat /\ Stage \in 0..2
      BY <1>1
    <2>1. log'[M + 1].sql = sql /\ log'[M + 1].err = res.err
      BY <1>3
    <2>2. ASSUME NEW k \in 1..(M + 1) PROVE k = M + 1 \/ k \in 1..M
      BY <1>1
    <2>3. ASSUME NEW i \in 1..(L + 2)
          PROVE  /\ 3 * i - 2 \in 1..(M + 1) => log'[3 * i - 2].sql = ReadOnly
                 /\ 3 * i - 1 \in 1..(M + 1) => log'[3 * i - 1].sql = TimeLimit
                 /\ 3 * i \in 1..(M + 1) => i <= L + 1 /\ log'[3 * i] = EntryOf(out'[i])
      <3>1. CASE i = L + 2
        <4>1. 3 * i - 2 > M + 1 /\ 3 * i - 1 > M + 1 /\ 3 * i > M + 1
          BY <2>0, <3>1
        <4>2. 3 * i - 2 \notin 1..(M + 1) /\ 3 * i - 1 \notin 1..(M + 1) /\ 3 * i \notin 1..(M + 1)
          BY <2>0, <3>1, <4>1
        <4>3. QED
          BY <4>2, Zenon
      <3>2. CASE i # L + 2
        <4>1. i \in 1..(L + 1)
          BY <1>1, <2>3, <3>2
        <4>2. 3 * i - 2 = M + 1 => Stage = 0
          BY <2>0, <4>1
        <4>3. 3 * i - 1 = M + 1 => Stage = 1
          BY <2>0, <4>1
        <4>4. 3 * i = M + 1 => Stage = 2 /\ i = L + 1
          BY <2>0, <4>1
        <4>5. 3 * i - 2 \in 1..(M + 1) => log'[3 * i - 2].sql = ReadOnly
          BY <1>1, <1>3, <1>6, <2>1, <2>2, <4>1, <4>2
        <4>6. ASSUME 3 * i - 1 \in 1..(M + 1) PROVE log'[3 * i - 1].sql = TimeLimit
          <5>1. CASE 3 * i - 1 = M + 1
            BY <1>6, <2>1, <4>3, <5>1
          <5>2. CASE 3 * i - 1 # M + 1
            <6>1. 3 * i - 1 \in 1..M
              BY <2>2, <4>6, <5>2
            <6>2. QED
              BY <1>1, <1>3, <4>1, <6>1
          <5>3. QED
            BY <5>1, <5>2
        <4>7. ASSUME 3 * i = M + 1 PROVE log'[3 * i] = EntryOf(out'[i])
          BY <1>3, <1>4, <1>6, <4>4, <4>7 DEF EntryOf
        <4>8. ASSUME 3 * i \in 1..M PROVE log'[3 * i] = EntryOf(out'[i])
          <5>1. log[3 * i] = EntryOf(out[i]) /\ i \in 1..L
            BY <1>1, <4>1, <4>8
          <5>2. QED
            BY <1>3, <1>4, <4>8, <5>1
        <4>9. QED
          BY <1>1, <2>2, <4>1, <4>5, <4>6, <4>7, <4>8
      <3>3. QED
        BY <3>1, <3>2
    <2>4. ASSUME NEW k \in DOMAIN log', log'[k].err PROVE k = Len(log') /\ HasFailed'
      <3>1. k = M + 1
        BY <1>1, <1>3, <2>2, <2>4
      <3>2. QED
        BY <1>3, <1>4, <2>1, <2>4, <3>1
    <2>5. ~HasFailed' => Len(log') = 3 * Len(out') + Stage'
      BY <1>1, <1>3, <1>4, <1>6
    <2>6. HasFailed' => Len(log') \in (3 * Len(out') - 2)..(3 * Len(out')) /\ Last(log').err
      BY <1>1, <1>3, <1>4
    <2>7. \A i \in 1..(Len(out') + 1) :
            /\ 3 * i - 2 \in DOMAIN log' => log'[3 * i - 2].sql = ReadOnly
            /\ 3 * i - 1 \in DOMAIN log' => log'[3 * i - 1].sql = TimeLimit
            /\ 3 * i \in DOMAIN log' => i <= Len(out') /\ log'[3 * i] = EntryOf(out'[i])
      <3>1. Len(out') = L + 1 /\ 1..(Len(out') + 1) = 1..(L + 2)
        BY <1>1, <1>4
      <3>2. QED
        BY <1>3, <2>3, <3>1
    <2>8. QED
      BY <2>4, <2>5, <2>6, <2>7 DEF SentReadOnly
  <1>10. QED
    BY <1>4, <1>7, <1>8, <1>9 DEF ConsoleHolds

LEMMA FailedFact == Failed \in HonestResult /\ Failed.err
  <1>1. Failed \in Outcomes
    BY DEF Outcomes
  <1>2. Failed.err
    BY DEF Failed, NoRows
  <1>3. QED
    BY <1>1, <1>2, OutcomesFact

(* There is no connection for a statement: it is shown as failed, and the  *)
(* log ends with the statement before it.                                  *)
LEMMA UnsentKeeps ==
  ASSUME ConsoleHolds, page = "postgres", Left, roTx = "none", Shows(Failed),
         UNCHANGED <<script, typed, page, log, roTx, conn, pool>>
  PROVE  ConsoleHolds'
  <1> DEFINE L == Len(out)
             M == Len(log)
  <1>1. /\ L \in Nat /\ ~HasFailed /\ M = 3 * L + Stage /\ DOMAIN log = 1..M /\ M \in Nat
        /\ \A k \in DOMAIN log : ~log[k].err
        /\ \A i \in 1..(L + 1) :
             /\ 3 * i - 2 \in DOMAIN log => log[3 * i - 2].sql = ReadOnly
             /\ 3 * i - 1 \in DOMAIN log => log[3 * i - 1].sql = TimeLimit
             /\ 3 * i \in DOMAIN log => i <= L /\ log[3 * i] = EntryOf(out[i])
    BY SentSoFar
  <1>2. /\ out' \in Seq([sql : Seq(STRING), res : HonestResult])
        /\ Len(out') = L + 1 /\ \A i \in 1..L : out'[i] = out[i]
        /\ HasFailed'
        /\ FollowsScript' /\ StopsAtAnError' /\ EndsOrFails'
    BY ShowsKeeps, FailedFact
  <1>3. Stage = 0 /\ log' = log /\ page' = page /\ roTx' = "none"
    BY DEF Stage
  <1>4. ConsoleTypeOK'
    BY <1>2, <1>3 DEF ConsoleHolds, ConsoleTypeOK
  <1>5. LogFollows' /\ PoolIsClean'
    BY <1>3 DEF ConsoleHolds, LogFollows, PoolIsClean
  <1>6. SentReadOnly'
    <2> HIDE DEF L, M
    <2>0. L \in Nat /\ M = 3 * L /\ M \in Nat
      BY <1>1, <1>3
    <2>1. ASSUME NEW i \in 1..(L + 2)
          PROVE  /\ 3 * i - 2 \in 1..M => log[3 * i - 2].sql = ReadOnly
                 /\ 3 * i - 1 \in 1..M => log[3 * i - 1].sql = TimeLimit
                 /\ 3 * i \in 1..M => i <= L + 1 /\ log[3 * i] = EntryOf(out'[i])
      <3>1. CASE i = L + 2
        <4>1. 3 * i - 2 > M /\ 3 * i - 1 > M /\ 3 * i > M
          BY <2>0, <3>1
        <4>2. 3 * i - 2 \notin 1..M /\ 3 * i - 1 \notin 1..M /\ 3 * i \notin 1..M
          BY <2>0, <3>1, <4>1
        <4>3. QED
          BY <4>2, Zenon
      <3>2. CASE i # L + 2
        <4>1. i \in 1..(L + 1)
          BY <1>1, <2>1, <3>2
        <4>2. /\ 3 * i - 2 \in 1..M => log[3 * i - 2].sql = ReadOnly
              /\ 3 * i - 1 \in 1..M => log[3 * i - 1].sql = TimeLimit
              /\ 3 * i \in 1..M => i <= L /\ log[3 * i] = EntryOf(out[i])
          BY <1>1, <4>1
        <4>3. ASSUME 3 * i \in 1..M PROVE i <= L + 1 /\ log[3 * i] = EntryOf(out'[i])
          <5>1. i \in 1..L
            BY <1>1, <4>1, <4>2, <4>3
          <5>2. QED
            BY <1>1, <1>2, <4>2, <4>3, <5>1
        <4>4. QED
          BY <4>2, <4>3
      <3>3. QED
        BY <3>1, <3>2
    <2>2. Len(log') = 3 * Len(out') - 3 /\ Len(out') + 1 = L + 2
      BY <1>1, <1>2, <1>3 DEF M
    <2>3. \A k \in DOMAIN log' : ~log'[k].err
      BY <1>1, <1>3
    <2>4. \A i \in 1..(Len(out') + 1) :
            /\ 3 * i - 2 \in DOMAIN log' => log'[3 * i - 2].sql = ReadOnly
            /\ 3 * i - 1 \in DOMAIN log' => log'[3 * i - 1].sql = TimeLimit
            /\ 3 * i \in DOMAIN log' => i <= Len(out') /\ log'[3 * i] = EntryOf(out'[i])
      BY <1>1, <1>2, <1>3, <2>1, <2>2
    <2>5. QED
      BY <1>2, <2>2, <2>3, <2>4 DEF SentReadOnly
  <1>7. QED
    BY <1>2, <1>4, <1>5, <1>6 DEF ConsoleHolds

LEMMA BeginReadOnlyPreservesConsole ==
  ASSUME ConsoleHolds, BeginReadOnly
  PROVE  ConsoleHolds'
  <1>1. page = "postgres" /\ Left /\ roTx = "none" /\ UNCHANGED <<script, typed, page, conn, pool>>
    BY DEF BeginReadOnly
  <1>2. InTurn(ReadOnly)
    BY <1>1 DEF InTurn
  <1>3. CASE Logs(ReadOnly, FALSE) /\ roTx' = "begun" /\ UNCHANGED out
    <2>1. SendsNext(ReadOnly)
      BY <1>1, <1>3 DEF SendsNext
    <2>2. QED
      BY <1>1, <1>2, <2>1, TextsAre, SendsNextKeeps
  <1>4. CASE Logs(ReadOnly, TRUE) /\ Shows(Failed) /\ UNCHANGED roTx
    <2>1. SendsLast(ReadOnly, Failed)
      BY <1>1, <1>4 DEF SendsLast, Failed, NoRows
    <2>2. QED
      BY <1>1, <1>2, <2>1, TextsAre, FailedFact, SendsLastKeeps
  <1>5. CASE Shows(Failed) /\ UNCHANGED <<log, roTx>>
    BY <1>1, <1>5, UnsentKeeps
  <1>6. QED
    BY <1>3, <1>4, <1>5 DEF BeginReadOnly, Traced

LEMMA SetTimeLimitPreservesConsole ==
  ASSUME ConsoleHolds, SetTimeLimit
  PROVE  ConsoleHolds'
  <1>1. page = "postgres" /\ roTx = "begun" /\ Left /\ UNCHANGED <<script, typed, page, conn, pool>>
    BY DEF SetTimeLimit, ConsoleHolds, ConsoleTypeOK
  <1>2. InTurn(TimeLimit)
    BY <1>1 DEF InTurn
  <1>3. CASE Logs(TimeLimit, FALSE) /\ roTx' = "limited" /\ UNCHANGED out
    <2>1. SendsNext(TimeLimit)
      BY <1>1, <1>3 DEF SendsNext
    <2>2. QED
      BY <1>1, <1>2, <2>1, TextsAre, SendsNextKeeps
  <1>4. CASE Logs(TimeLimit, TRUE) /\ roTx' = "none" /\ Shows(Failed)
    <2>1. SendsLast(TimeLimit, Failed)
      BY <1>1, <1>4 DEF SendsLast, Failed, NoRows
    <2>2. QED
      BY <1>1, <1>2, <2>1, TextsAre, FailedFact, SendsLastKeeps
  <1>5. QED
    BY <1>3, <1>4 DEF SetTimeLimit, Traced

LEMMA QueryReadOnlyPreservesConsole ==
  ASSUME ConsoleHolds, QueryReadOnly
  PROVE  ConsoleHolds'
  <1>1. /\ page = "postgres" /\ roTx = "limited" /\ Left /\ roTx' = "none"
        /\ UNCHANGED <<script, typed, page, conn, pool>>
    BY DEF QueryReadOnly, ConsoleHolds, ConsoleTypeOK
  <1>2. PICK res \in Outcomes : Logs(Current, res.err) /\ Shows(res)
    BY DEF QueryReadOnly, Traced
  <1>3. res \in HonestResult
    BY OutcomesFact
  <1>4. Current \in Seq(STRING)
    BY <1>1, <1>2, <1>3, ShowsKeeps
  <1>5. InTurn(Current)
    BY <1>1 DEF InTurn
  <1>6. SendsLast(Current, res)
    BY <1>1, <1>2 DEF SendsLast
  <1>7. QED
    BY <1>1, <1>3, <1>4, <1>5, <1>6, TextsAre, SendsLastKeeps

LEMMA EndScriptPreservesConsole ==
  ASSUME ConsoleHolds, EndScript
  PROVE  ConsoleHolds'
  <1>1. /\ page \in {"duckdb", "postgres", "command"} /\ ~Left /\ conn' = Closed /\ pool' = pool
        /\ page' = CASE page = "duckdb" -> "shown" [] page = "postgres" -> "shown read-only" [] OTHER -> "printed"
        /\ UNCHANGED <<script, typed, out, log, roTx>>
    BY DEF EndScript, Discards
  <1>2. roTx = "none"
    BY <1>1 DEF ConsoleHolds, ConsoleTypeOK
  <1>3. page' \in {"shown", "shown read-only", "printed"}
    BY <1>1
  <1>4. ConsoleTypeOK'
    BY <1>1, <1>2, <1>3 DEF ConsoleHolds, ConsoleTypeOK, Settings, Closed
  <1>5. FollowsScript' /\ StopsAtAnError' /\ PoolIsClean'
    BY <1>1 DEF ConsoleHolds, FollowsScript, StopsAtAnError, PoolIsClean
  <1>6. EndsOrFails'
    <2>1. Len(out) \in Nat /\ Len(Split(script)) \in Nat
      <3>1. script \in Seq(STRING) /\ out \in Seq([sql : Seq(STRING), res : HonestResult])
        BY DEF ConsoleHolds, ConsoleTypeOK
      <3>2. QED
        BY <3>1, SplitLength
    <2>2. ~Left /\ Len(out) <= Len(Split(script))
      BY <1>1 DEF ConsoleHolds, FollowsScript
    <2>3. Len(out) = Len(Split(script)) \/ Last(out).res.err
      BY <2>1, <2>2 DEF Left, HasFailed
    <2>4. QED
      BY <1>1, <2>3 DEF EndsOrFails
  <1>7. LogFollows'
    BY <1>1 DEF ConsoleHolds, LogFollows
  <1>8. SentReadOnly'
    <2>1. CASE page = "postgres"
      <3>1. Stage' = Stage /\ HasFailed' = HasFailed
        BY <1>1 DEF Stage, HasFailed
      <3>2. QED
        BY <1>1, <2>1, <3>1 DEF ConsoleHolds, SentReadOnly
    <2>2. CASE page # "postgres"
      BY <1>1, <2>2 DEF SentReadOnly
    <2>3. QED
      BY <2>1, <2>2
  <1>9. QED
    BY <1>4, <1>5, <1>6, <1>7, <1>8 DEF ConsoleHolds

LEMMA DashboardPreservesConsole ==
  ASSUME ConsoleHolds, Dashboard
  PROVE  ConsoleHolds'
  <1>1. pool' = pool \cup {"default"} /\ UNCHANGED <<script, typed, page, out, log, roTx, conn>>
    BY DEF Dashboard
  <1>2. Left' = Left /\ HasFailed' = HasFailed /\ Stage' = Stage
    BY <1>1 DEF Left, HasFailed, Stage
  <1>3. ConsoleTypeOK' /\ SentReadOnly'
    BY <1>1, <1>2 DEF ConsoleHolds, ConsoleTypeOK, SentReadOnly
  <1>4. QED
    BY <1>1, <1>3 DEF ConsoleHolds, FollowsScript, StopsAtAnError, EndsOrFails, LogFollows, PoolIsClean

LEMMA ConsoleStarts ==
  ASSUME ConsoleInit
  PROVE  ConsoleHolds
  <1>1. /\ script = <<>> /\ typed = 0 /\ page = "typing"
        /\ out = <<>> /\ log = <<>> /\ roTx = "none" /\ conn = Closed /\ pool = {}
    BY DEF ConsoleInit
  <1>2. Len(out) = 0 /\ DOMAIN out = {} /\ Len(log) = 0 /\ script \in Seq(STRING)
    BY <1>1
  <1>3. ConsoleTypeOK
    BY <1>1, SqlConsoleAssumption DEF ConsoleTypeOK, Closed
  <1>4. FollowsScript
    <2>1. Len(Split(script)) \in Nat
      BY <1>2, SplitLength
    <2>2. QED
      BY <1>2, <2>1 DEF FollowsScript
  <1>5. StopsAtAnError /\ EndsOrFails /\ LogFollows /\ PoolIsClean
    BY <1>1, <1>2 DEF StopsAtAnError, EndsOrFails, LogFollows, PoolIsClean
  <1>6. SentReadOnly
    BY <1>1, NothingSent
  <1>7. QED
    BY <1>3, <1>4, <1>5, <1>6 DEF ConsoleHolds

LEMMA ConsoleStep ==
  ASSUME ConsoleHolds, [ConsoleNext]_consoleVars
  PROVE  ConsoleHolds'
  <1>1. CASE Type
    BY <1>1, TypePreservesConsole
  <1>2. CASE Submit
    BY <1>2, SubmitPreservesConsole
  <1>3. CASE Connect
    BY <1>3, ConnectPreservesConsole
  <1>4. CASE Execute
    BY <1>4, ExecutePreservesConsole
  <1>5. CASE EndScript
    BY <1>5, EndScriptPreservesConsole
  <1>6. CASE Dashboard
    BY <1>6, DashboardPreservesConsole
  <1>7. CASE BeginReadOnly
    BY <1>7, BeginReadOnlyPreservesConsole
  <1>8. CASE SetTimeLimit
    BY <1>8, SetTimeLimitPreservesConsole
  <1>9. CASE QueryReadOnly
    BY <1>9, QueryReadOnlyPreservesConsole
  <1>10. CASE UNCHANGED consoleVars
    <2>1. Left' = Left /\ HasFailed' = HasFailed /\ Stage' = Stage
      BY <1>10 DEF consoleVars, Left, HasFailed, Stage
    <2>2. ConsoleTypeOK' /\ SentReadOnly'
      BY <1>10, <2>1 DEF consoleVars, ConsoleHolds, ConsoleTypeOK, SentReadOnly
    <2>3. QED
      BY <1>10, <2>2 DEF consoleVars, ConsoleHolds, FollowsScript, StopsAtAnError, EndsOrFails,
                        LogFollows, PoolIsClean
  <1>11. QED
    BY <1>1, <1>2, <1>3, <1>4, <1>5, <1>6, <1>7, <1>8, <1>9, <1>10 DEF ConsoleNext

(* Whatever is typed, and whatever the databases answer, the console is in *)
(* a state its handlers expect (console.go, query.go, qlog.go).            *)
THEOREM ConsoleInvHolds == ConsoleSpec => []ConsoleInv
  <1>1. ConsoleInit => ConsoleHolds
    BY ConsoleStarts
  <1>2. ConsoleHolds /\ [ConsoleNext]_consoleVars => ConsoleHolds'
    BY ConsoleStep
  <1>3. ConsoleHolds => ConsoleInv
    BY ConsoleParts DEF ConsoleHolds
  <1>4. QED
    BY <1>1, <1>2, <1>3, PTL DEF ConsoleSpec

(* The page shows the statements of the script in their order, up to the   *)
(* first that failed, each with what the database returned.  Its log is    *)
(* the same list for DuckDB; for Postgres it is what was sent: a statement *)
(* only after its own BEGIN READ ONLY and time limit, and none that could  *)
(* not be sent (consoleDuckDB, PostgresReadOnly, pgTracer).                *)
THEOREM PageHonest == ConsoleSpec => []PageIsHonest
  <1>1. ConsoleInv => PageIsHonest
    BY DEF ConsoleInv
  <1>2. QED
    BY <1>1, ConsoleInvHolds, PTL

(* No setting that a script changed reaches the connections the dashboard  *)
(* uses (consoleDuckDB: driver.ErrBadConn).                                *)
THEOREM PoolClean == ConsoleSpec => []PoolIsClean
  <1>1. ConsoleInv => PoolIsClean
    BY DEF ConsoleInv
  <1>2. QED
    BY <1>1, ConsoleInvHolds, PTL
=============================================================================
