---------------------------- MODULE MCSeedCatalog ---------------------------
(* Category trees of two and three levels.                                  *)
EXTENDS SeedCatalog, SeedStaff

Node(name, ret, price, kids) == [name |-> name, ret |-> ret, price |-> price, kids |-> kids]
Leaf(name, price) == Node(name, 0, price, <<>>)

Flat  == <<Node("toys", 1, 5, <<Leaf("cars", 0), Leaf("dolls", 7)>>), Node("books", 2, 3, <<>>)>>
Deep  == <<Node("sport", 1, 5, <<Node("outdoor", 0, 6, <<Leaf("camping", 0), Leaf("ball", 9)>>)>>),
           Node("toys", 2, 4, <<Node("outdoor toys", 3, 0, <<Leaf("kites", 0)>>), Leaf("dolls", 8)>>)>>
AllTrees == {Flat, Deep}

AllDefinitions ==
  LET Level(defs) == defs \cup UNION {Range(def.kids) : def \in defs}
  IN Level(Level(UNION {Range(t) : t \in AllTrees}))

Campaigns == {{"toys"}, {"outdoor", "dolls"}}

(* When the catalog is there and customers and orders are made, whoever    *)
(* signs up finds an account executive, and whatever it orders a warehouse *)
(* with a manager (buildCustomers, emitOrder: a draw from an empty list    *)
(* would panic).                                                           *)
StaffServesEveryCountry == builder = "done" => EveryCountryServed
=============================================================================
