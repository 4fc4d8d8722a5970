SPECIFICATION CatalogSpec
CONSTANTS
  Definition <- AllDefinitions
  Trees <- AllTrees
  PromoNames <- Campaigns
  PromoDays = {1}
  Supplier = {s1, s2}
  HistoryStart = 2
  HistoryEnd = 4
  Gap = 1
  Margin = 1
  MaxProducts = 2
  MaxChanges = 2
  MaxPromotions = 1
CHECK_DEADLOCK FALSE
INVARIANTS TreeIsFollowed HistoryIsGapless RowsPassConstraints StaffServesEveryCountry
