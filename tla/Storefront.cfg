SPECIFICATION StorefrontSpec
CONSTANTS
  d1 = d1
  d2 = d2
  v1 = v1
  v2 = v2
  t1 = t1
  t2 = t2
  r1 = r1
  r2 = r2
  r3 = r3
  Events <- MCEvents
  Types <- MCTypes
  Hands <- Slots
  MaxFiles = 2
  MaxOrders = 1
  MaxEdits = 4
  Pictures <- MCPictures
  Albums = {"images", "features"}
  Curators <- Slots
  MaxCurations = 4
  Servers = {s1, s2}
  Servings <- Slots
  MaxChanges = 2
  OrderIds = {1, 2}
  EventIds = {g1, g2}
  Organiser <- MCOrganiser
  Category <- MCCategory
  City <- MCCity
  NoCity = NoCity
  Subtotal <- MCSubtotal
  Fees <- MCFees
  Processing <- MCProcessing
  Quantity <- MCQuantity
  RangeDays = 1
  WeekDays = 2
  MonthDays = 3
  TopLimit = 1
  LastDay = 2
  Joiners <- MCJoiners
  Handles = {h1}
  Screens <- Slots
  MaxSubmits = 2
  Entries <- MCTypes
  Pickers = {w1}
  Forms <- Slots
  MaxUpserts = 4
SYMMETRY Alike
CHECK_DEADLOCK FALSE
INVARIANTS  CatalogsExplained  GalleryExplained  
