SPECIFICATION FairSpec
CONSTANTS
    None = None
    Editors = {e1, e2}
    Readers = {d1}
    MaxRevision = 2
INVARIANTS CatalogTypeOK
PROPERTIES LifecycleOrder OldVersionsStayOutdated StaleListsDisappear
CHECK_DEADLOCK FALSE
