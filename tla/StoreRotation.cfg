SPECIFICATION Spec
CONSTANTS
    Tasks = {t1, t2}
    MaxDay = 2
    MaxIndex = 2
    MaxSession = 1
    MaxRow = 2
    OpenMayFail = TRUE
    InsertMayFail = FALSE
SYMMETRY TaskSymmetry
INVARIANTS RowsHangOnTheirSession SessionsEndOnce
PROPERTY RefinesSessionTable
