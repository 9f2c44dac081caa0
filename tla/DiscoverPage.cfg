SPECIFICATION PageSpec
CONSTANTS
    c1 = c1
    c2 = c2
    Nil = Nil
    Items <- MC_Items
    Feeds <- MC_Feeds
    Categories <- MC_Categories
    CategoryOf <- MC_CategoryOf
    Interests <- MC_Interests
    None <- MC_None
    Score <- MC_Score
    PageSize = 1
    Calls <- MC_Calls
    Stamp <- MC_Stamp
    MaxClicks = 4
    MaxOther = 2
INVARIANTS PageTypeOK ListsSound SavedComplete
SYMMETRY MC_Symmetry
CHECK_DEADLOCK FALSE
