------------------------------ MODULE SeedStaff -----------------------------
(***************************************************************************)
(* Regions, warehouses and the employee hierarchy of the data generator    *)
(* (reference.go, buildWarehousesAndEmployees).  Names, titles and         *)
(* salaries are left out; an employee's id is its place in the sequence.   *)
(***************************************************************************)
EXTENDS Integers, SequencesExt, TLC

regions == <<"NA", "LatAm", "EU", "APAC">>

(* The countries customers live in, and the countries of the warehouses.   *)
regionOf ==
  [c \in {"US", "CA"} |-> "NA"] @@ [c \in {"MX", "BR", "CL"} |-> "LatAm"]
  @@ [c \in {"GB", "DE", "FR", "ES", "IT", "NL", "PT", "SE"} |-> "EU"]
  @@ [c \in {"JP", "AU", "IN", "SG"} |-> "APAC"]
warehouseDefs == <<"US", "US", "CA", "MX", "BR", "GB", "DE", "ES", "JP", "AU", "IN", "SG">>

whByCountry(c) == {w \in DOMAIN warehouseDefs : warehouseDefs[w] = c}
whByRegion(r) == {w \in DOMAIN warehouseDefs : regionOf[warehouseDefs[w]] = r}

(* The warehouse of an order: one of the customer's country; without any,  *)
(* one of its region.                                                      *)
OrderWarehouses_CountryOnly(c) == whByCountry(c)
OrderWarehouses(c) == IF whByCountry(c) # {} THEN whByCountry(c) ELSE whByRegion(regionOf[c])

(* add: below a manager as many of each level of the plan as it says, each *)
(* with its own people before the next of the level is hired; ids follow   *)
(* the order of hiring, and first is the next one.                         *)
NoWarehouse == 0
Many == 2    \* people per team, where the code hires more
Hire(manager, title, region, w) ==
  <<[manager |-> manager, title |-> title, region |-> region, warehouse |-> w]>>

Size(plan) == FoldRight(LAMBDA level, below : level[2] * (1 + below), plan, 0)

RECURSIVE Team(_, _, _, _, _)
Team(first, manager, plan, region, w) ==
  IF plan = <<>> THEN <<>>
  ELSE LET me(k) == first + (k - 1) * (1 + Size(Tail(plan)))
       IN FlattenSeq([k \in 1..plan[1][2] |->
            Hire(manager, plan[1][1], region, w) \o Team(me(k) + 1, me(k), Tail(plan), region, w)])

(* The people below the five officers, who are hired right after the chief *)
(* executive: sales and operations by region, then the other departments.  *)
Officers == <<"sales", "operations", "purchasing", "support", "finance">>
Board == Hire(0, "ceo", "", NoWarehouse)
         \o FlattenSeq([i \in DOMAIN Officers |-> Hire(1, Officers[i], "", NoWarehouse)])

SalesPlan == <<<<"director", 1>>, <<"sales manager", 2>>, <<"executive", Many>>>>
Sales(first, r) == Team(first, 2, SalesPlan, r, NoWarehouse)

WarehousePlan == <<<<"warehouse manager", 1>>, <<"supervisor", 1>>, <<"associate", Many>>>>
Operations(first, r) ==
  LET ws == SetToSortSeq(whByRegion(r), <)
  IN Hire(3, "director", r, NoWarehouse)
     \o FlattenSeq([i \in DOMAIN ws |->
          Team(first + 1 + (i - 1) * Size(WarehousePlan), first, WarehousePlan, r, ws[i])])

Department(first, officer, plan) == Team(first, officer, plan, "", NoWarehouse)

employees ==
  LET each(staff, f(_, _), args) == FoldLeft(LAMBDA s, x : s \o f(Len(s) + 1, x), staff, args)
      others == <<<<4, <<<<"purchasing manager", Many>>, <<"buyer", Many>>>>>>,
                  <<5, <<<<"support manager", Many>>, <<"lead", 1>>, <<"agent", Many>>>>>>,
                  <<6, <<<<"controller", 1>>, <<"accountant", Many>>>>>>>>
  IN each(each(each(Board, Sales, regions), Operations, regions),
          LAMBDA first, d : Department(first, d[1], d[2]), others)

accountExecs(r) == {e \in DOMAIN employees : employees[e].title = "executive" /\ employees[e].region = r}
whManagers(w) == {e \in DOMAIN employees : employees[e].title = "warehouse manager" /\ employees[e].warehouse = w}

-----------------------------------------------------------------------------
(* Everyone but the chief executive has a manager who was hired before, of *)
(* the same region if that one has a region at all; every warehouse has    *)
(* one manager, who works in it, under a director of its region; and a     *)
(* customer of any country finds an account executive and its order a      *)
(* warehouse (the generator draws from these lists and an empty one would  *)
(* stop it).                                                               *)
EveryCountryServed ==
  /\ \A e \in DOMAIN employees :
       LET p == employees[e] IN
       /\ p.manager < e /\ (p.manager = 0 <=> e = 1)
       /\ e > 1 => employees[p.manager].region \in {p.region, ""}
       /\ e > 1 => employees[p.manager].warehouse \in {p.warehouse, NoWarehouse}
  /\ \A w \in DOMAIN warehouseDefs :
       \E m \in whManagers(w) : /\ whManagers(w) = {m}
                                /\ employees[employees[m].manager].region = regionOf[warehouseDefs[w]]
  /\ \A c \in DOMAIN regionOf : accountExecs(regionOf[c]) # {} /\ OrderWarehouses(c) # {}
=============================================================================
