SPECIFICATION MCPageSpec
CONSTANTS
    Nil = Nil
    r1 = r1
    r2 = r2
    r3 = r3
    d1 = d1
    d2 = d2
    d3 = d3
    t1 = t1
    t2 = t2
    Lengths <- LengthsValue
    MaxRecords = 9
    NumbersLength = 7
    RowsObjects = {r1, r2, r3}
    RowsIds = {d1, d2, d3}
    RowsVals = {1, 2}
    RowsSearches = {"", "a", "ab"}
    RowsNoSearch = ""
    RowsColumnSearches = {"", "ab"}
    RowsMatches <- RowsMatchesValue
    RowsExtends <- RowsExtendsValue
    RowsPageLength = 2
    RowsNewIds = FALSE
    HeadingColumns = {1, 2, 3}
    HeadingRowCount = 3
    HeadingPageLength = 2
    HeadingLayouts <- HeadingLayoutsValue
    HeadingBSortCellsTop = FALSE
    SetupTables = {t1, t2}
    SetupIdOf <- SetupIdOfValue
    SetupOptions <- SetupOptionsValue
    SetupStarts = {2}
    SetupRowCount = 3
    SetupMaxInstances = 2
    OptionsNames <- OptionsNamesValue
    OptionsCompat <- OptionsCompatValue
    OptionsValues = {1, 2}
    OptionsDefault = 0
    OptionsHeadings = {1, 2}
    OptionsMarked = {2}
    OptionsTargets <- OptionsTargetsValue
    OptionsMaxDefs = 2
    OptionsMaxWrites = 2
    OrderColumns = {1, 2, 3}
    OrderSortable = {1, 2, 3}
    OrderMaxOrder = 3
    OrderAsSorting <- OrderAsSortingValue
    OrderDataSorts <- OrderDataSortsValue
    OrderFixedOrders <- OrderFixedOrdersValue
    CellsColumns = {1, 2}
    CellsMData <- CellsMDataValue
    CellsTexts = {"", "9", "ab"}
    CellsEmpty = ""
    CellsKind <- CellsKindValue
    CellsItems <- CellsItemsValue
    CellsRowSelectors <- CellsRowSelectorsValue
    CellsColumnSelectors <- CellsColumnSelectorsValue
    CellsMaxRows = 2
    FormFields = {"password", "email"}
    FormEmpty = "none"
    FormValues <- FormValuesValue
    FormFills <- FormFillsValue
    FormChecks <- FormChecksValue
    FormRejects <- FormRejectsValue
    FormOnChange = {"email"}
    FormRemoteField = "email"
    FormRemote = "remote"
    FormMaxAsks = 2
    FormMaxForms = 2
    FieldNames = {"min", "range", "trigger"}
    FieldRestricted = {"trigger"}
    FieldRegistered = {"min", "range"}
    FieldVersions = {1, 2}
    FieldAttributes <- FieldAttributesValue
    MessagesFiles <- MessagesFilesValue
    MessagesMaxLoads = 2
SYMMETRY RowSymmetry
INVARIANTS TypesOK PagerAgrees RowsAgree HeadingsAgree SetupOnce OptionsAndOrder FormChecked
PROPERTIES PlaceKept RowsKept SavedStateKept
CHECK_DEADLOCK FALSE
