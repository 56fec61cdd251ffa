SPECIFICATION Spec
CONSTANTS
    Windows = {"assistant", "analysis"}
    Paths = {f1, f2}
    Limit = 2
    MaxQuestion = 2
    MaxLoad = 3
    MaxReport = 1
    MaxPiece = 2
CHECK_DEADLOCK FALSE
INVARIANTS AttachmentsFit
PROPERTIES FailedQuestionComesBack PiecesAppear
