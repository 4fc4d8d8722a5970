----------------------------- MODULE SeedCatalog ----------------------------
(***************************************************************************)
(* The catalog the data generator builds in memory and copies: categories, *)
(* products with their price history, promotions, suppliers and stock      *)
(* (buildCategories, buildProducts, buildPromotions, copyReference).  Each *)
(* random number is an arbitrary choice; the random instants of the price  *)
(* changes are chosen in time order, as they are after the sort.           *)
(***************************************************************************)
EXTENDS SeedData

CONSTANTS
  Definition,     \* category definitions: [name, ret, price, kids], 0 is "not set"
  Trees,          \* category trees: sequences of top-level definitions
  PromoNames,     \* sets of category names promotions are made for
  PromoDays,      \* days a promotion lasts
  Supplier,       \* suppliers (or warehouses) to draw from
  HistoryStart, HistoryEnd,    \* history covers [HistoryStart, HistoryEnd)
  Gap,            \* no price changes that soon after the product's creation
  Margin,         \* no product is created that soon before the end
  MaxProducts, MaxChanges, MaxPromotions    \* bounds

ASSUME SeedCatalogAssumption ==
  /\ \A def \in Definition : def.ret \in Nat /\ def.price \in Nat /\ def.kids \in Seq(Definition)
  /\ Trees \subseteq Seq(Definition)
  /\ HistoryStart \in Nat /\ HistoryEnd \in Nat /\ HistoryStart < HistoryEnd
  /\ Gap \in Nat \ {0} /\ Margin \in Nat /\ PromoDays \subseteq Nat
  /\ {MaxProducts, MaxChanges, MaxPromotions} \subseteq Nat

VARIABLES
  tree,        \* the definition of the category tree
  builder,     \* which builder runs
  categories, products, promotions,
  up,          \* the category whose children the walk is at, Top at the top level
  done,        \* definitions each call of walk has stored, by category
  supplied     \* the suppliers drawn for the first product

catalogVars == <<tree, builder, categories, products, promotions, up, done, supplied>>

Top == 0

CatalogInit ==
  /\ tree \in Trees
  /\ builder = "categories"
  /\ categories = <<>> /\ products = <<>> /\ promotions = <<>> /\ supplied = <<>>
  /\ up = Top /\ done = [c \in {Top} |-> 0]

-----------------------------------------------------------------------------
(* buildCategories.  A call of walk loops over the children of up; the     *)
(* calls that wait for it are those of its ancestors.                      *)

Kids(c) == IF c = Top THEN tree ELSE categories[c].def.kids

(* What a category inherits; the top level inherits nothing.               *)
Above == IF up = Top THEN [top |-> done[up] + 1, depth |-> -1, ret |-> 0, price |-> 0] ELSE categories[up]

(* A category has the return rate and the price range it sets, or else     *)
(* those of its parent.                                                    *)
Own_Lost(own, inherited) == own
Own(own, inherited) == IF own > 0 THEN own ELSE inherited

VisitDefinition ==
  /\ builder = "categories" /\ done[up] < Len(Kids(up))
  /\ LET def == Kids(up)[done[up] + 1]
     IN categories' = Append(categories,
          [def |-> def, parent |-> up, top |-> Above.top, depth |-> Above.depth + 1,
           ret |-> Own(def.ret, Above.ret), price |-> Own(def.price, Above.price)])
  /\ up' = Len(categories) + 1
  /\ done' = [c \in 0..(Len(categories) + 1) |->
               IF c = up THEN done[c] + 1 ELSE IF c \in DOMAIN done THEN done[c] ELSE 0]
  /\ UNCHANGED <<tree, builder, products, promotions, supplied>>

(* A call of walk returns to the one that is at the parent of up.          *)
ReturnFromWalk ==
  /\ builder = "categories" /\ done[up] = Len(Kids(up))
  /\ IF up = Top THEN builder' = "products" /\ up' = up
                 ELSE builder' = builder /\ up' = categories[up].parent
  /\ UNCHANGED <<tree, categories, products, promotions, done, supplied>>

Leaves == {c \in DOMAIN categories : categories[c].def.kids = <<>>}

-----------------------------------------------------------------------------
(* buildProducts.                                                          *)

(* A product is created before or during the history, with its first price. *)
CreateProduct ==
  /\ builder = "products" /\ Len(products) < MaxProducts
  /\ \E leaf \in Leaves, created \in 0..(HistoryEnd - Margin - 1) :
       products' = Append(products, [cat |-> leaf, created |-> created,
                                     prices |-> <<[from |-> created, cents |-> 1]>>])
  /\ UNCHANGED <<tree, builder, categories, promotions, up, done, supplied>>

(* One more price from t on, unless the last one is from t, too.           *)
AddPoint_KeepsEqual(prices, t) == Append(prices, [from |-> t, cents |-> Len(prices) + 1])
AddPoint(prices, t) ==
  IF t = Last(prices).from THEN prices
  ELSE Append(prices, [from |-> t, cents |-> Len(prices) + 1])

(* The next price change of the product that is being made.  One that is   *)
(* too young keeps its first price.                                        *)
ChangePrice ==
  /\ builder = "products" /\ products # <<>>
  /\ LET n == Len(products)
         p == products[n]
     IN /\ HistoryEnd - p.created > 2 * Gap /\ Len(p.prices) <= MaxChanges
        /\ \E t \in (p.created + Gap)..(HistoryEnd - 1) :
             /\ t >= Last(p.prices).from
             /\ products' = [products EXCEPT ![n].prices = AddPoint(p.prices, t)]
  /\ UNCHANGED <<tree, builder, categories, promotions, up, done, supplied>>

-----------------------------------------------------------------------------
(* buildPromotions.                                                        *)

(* productsUnder: the categories with one of the names, then those below   *)
(* them, in one pass.                                                      *)
Named(cats, names) == {c \in DOMAIN cats : cats[c].def.name \in names}
Below_Children(cats, names) ==
  Named(cats, names) \cup {c \in DOMAIN cats : cats[c].parent \in Named(cats, names)}
Below(cats, names) ==
  LET want[i \in 0..Len(cats)] ==
        IF i = 0 THEN Named(cats, names)
        ELSE want[i - 1] \cup {c \in {i} : cats[c].parent \in want[i - 1]}
  IN want[Len(cats)]

ProductsUnder(names) == {p \in DOMAIN products : products[p].cat \in Below(categories, names)}

(* add: a promotion outside the history, or without products, is dropped.  *)
Kept_Always(starts, ends, set) == TRUE
Kept(starts, ends, set) == ends >= HistoryStart /\ starts < HistoryEnd /\ set # {}

(* A promotion of the products under some categories, or (no names) of a   *)
(* random share or of the products of a brand.                             *)
BuildPromotion ==
  /\ builder = "promotions" /\ Len(promotions) < MaxPromotions
  /\ \E names \in PromoNames \cup {{}}, starts \in 0..HistoryEnd, days \in PromoDays :
     \E set \in IF names = {} THEN SUBSET DOMAIN products ELSE {ProductsUnder(names)} :
       /\ Kept(starts, starts + days, set)
       /\ promotions' = Append(promotions, [starts |-> starts, ends |-> starts + days,
                                            names |-> names, set |-> set])
  /\ UNCHANGED <<tree, builder, categories, products, up, done, supplied>>

-----------------------------------------------------------------------------

(* copyReference, product_suppliers and inventory: a supplier that was     *)
(* drawn before is skipped.                                                *)
DrawSupplier ==
  /\ builder = "suppliers"
  /\ \E s \in Supplier : supplied' = Drawn(supplied, s)
  /\ UNCHANGED <<tree, builder, categories, products, promotions, up, done>>

(* One builder is done and the next one begins.                            *)
NextBuilder ==
  /\ \/ builder = "products" /\ Len(products) = MaxProducts /\ builder' = "promotions"
     \/ builder = "promotions" /\ builder' = "suppliers"
     \/ builder = "suppliers" /\ supplied # <<>> /\ builder' = "done"
  /\ UNCHANGED <<tree, categories, products, promotions, up, done, supplied>>

CatalogNext == \/ VisitDefinition \/ ReturnFromWalk \/ CreateProduct \/ ChangePrice
               \/ BuildPromotion \/ DrawSupplier \/ NextBuilder

CatalogSpec == CatalogInit /\ [][CatalogNext]_catalogVars

-----------------------------------------------------------------------------
(* Properties.                                                             *)

(* A category and the categories above it.                                 *)
Ancestry(cats, i) ==
  LET self[j \in 0..Len(cats)] == IF j = Top THEN {} ELSE {j} \cup self[cats[j].parent]
  IN self[i]

Children(cats, c) == {i \in DOMAIN cats : cats[i].parent = c}
Place(cats, i) == Cardinality({j \in Children(cats, cats[i].parent) : j <= i})

(* When the walk is over, the children of a category are its definition's, *)
(* one each and in their order, at every level.                            *)
EveryDefinitionStored ==
  builder # "categories" =>
    /\ \A c \in 0..Len(categories) : Cardinality(Children(categories, c)) = Len(Kids(c))
    /\ \A i \in DOMAIN categories : categories[i].def = Kids(categories[i].parent)[Place(categories, i)]

(* value is what the nearest category of the chain that sets one sets, own. *)
FromNearest(chain, own, value) ==
  LET givers == {c \in chain : own[c] > 0}
  IN \/ givers = {} /\ value = 0
     \/ \E c \in givers : value = own[c] /\ \A g \in givers : g <= c

(* Every category has the price range and the return rate of its nearest   *)
(* ancestor that sets one, and knows its root: buildProducts draws from    *)
(* that range, and from the brands of that root.                           *)
CategoriesInherit ==
  \A i \in DOMAIN categories : LET chain == Ancestry(categories, i) IN
    /\ FromNearest(chain, [c \in DOMAIN categories |-> categories[c].def.price], categories[i].price)
    /\ FromNearest(chain, [c \in DOMAIN categories |-> categories[c].def.ret], categories[i].ret)
    /\ categories[i].top \in DOMAIN tree
    /\ \E r \in chain : categories[r].parent = Top /\ categories[r].def = tree[categories[i].top]

(* Parents are stored before their children ("so one pass works"): the one *)
(* pass of productsUnder finds exactly the products at or below a name,    *)
(* however deep.                                                           *)
PromotionCoversSubtree ==
  \A i \in DOMAIN promotions : promotions[i].names # {} =>
    promotions[i].set =
      {p \in DOMAIN products :
        \E c \in Ancestry(categories, products[p].cat) : categories[c].def.name \in promotions[i].names}

(* Together: categories, products and promotions follow the tree.          *)
TreeIsFollowed == EveryDefinitionStored /\ CategoriesInherit /\ PromotionCoversSubtree

(* The seeded price history is one the store could have written: versions  *)
(* follow each other without gap or overlap, no two begin together, one is *)
(* open; and the price an order gets (priceAt) is the version that was     *)
(* valid, the one the warehouse joins it with.                             *)
HistoryIsGapless ==
  \A p \in DOMAIN products :
    LET rows == PriceRows(products[p].prices)
    IN /\ \A r \in rows : r.to = Nothing \/ r.from < r.to
       /\ \A t \in products[p].created..HistoryEnd :
            LET valid == {r \in rows : ValidAt(r, t)}
            IN /\ Cardinality(valid) = 1
               /\ \A r \in valid : r.cents = PriceAt(products[p].prices, t).cents

(* The rows pass the constraints that are added after the copy: a parent   *)
(* and a product's category are rows; a supplier that is drawn twice is    *)
(* one row, and the first draw stays the primary one; and a promotion has  *)
(* products and meets the history.                                         *)
RowsPassConstraints ==
  /\ \A i \in DOMAIN categories : categories[i].parent \in 0..(i - 1)
  /\ \A p \in DOMAIN products : products[p].cat \in Leaves
  /\ \A i, j \in DOMAIN supplied : supplied[i] = supplied[j] => i = j
  /\ \A i \in DOMAIN promotions :
       /\ promotions[i].set # {} /\ promotions[i].set \subseteq DOMAIN products
       /\ \E t \in HistoryStart..HistoryEnd : promotions[i].starts <= t /\ t <= promotions[i].ends
=============================================================================
