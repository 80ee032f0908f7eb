SPECIFICATION Spec
CONSTANTS
    NoCursor = NoCursor
    Ids = {1, 2, 3, 4, 5}
    Times = {1, 2}
    Limit = 2
INVARIANTS PagingTypeOK EachRowOnce NothingSkipped CursorLeadsOn
CHECK_DEADLOCK FALSE
