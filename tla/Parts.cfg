\* Each part with the bounds of its own; none of them shares a constant.
SPECIFICATION PartsSpec
CONSTANTS
    MaxHead = 8
    Chunk = 3
    Longest = 14
    PortModulus = 16
    Base = 9
    Count = 7
    Workers = {w1}
    Pollers = {p1, p2}
    MaxTicks = 3
    CounterModulus = 16
    Tabs = {t1, t2}
    MaxLoads = 3
    MaxRequests = 2
    HistoryTabs = {h1, h2}
    Items = {a, b, c, d}
    TakeTurns = TRUE
    FavoriteLimit = 3
    ShortLimit = 2
    LongLimit = 3
    pPage = pPage
    tablerPage = tablerPage
    indexPage = indexPage
    homeMenu = homeMenu
    refMenu = refMenu
    Pages <- MCPages
    Menus = {homeMenu, refMenu}
    Home = homeMenu
    MenuOf <- MCMenuOf
    Inside <- MCInside
    Terms = {x, y}
    Empty = Empty
    SiteTabs = {s1, s2}
INVARIANTS PartsTypeOK HeadIsRead PortIsOwn ExhaustedMeansFull
INVARIANTS NeverAnOlderSession ShownIsStored MenusFit
PROPERTIES SharesAreSound SavedIsKept
\* A head is read once, and a browser's loads and the ticks are bounded.
CHECK_DEADLOCK FALSE
