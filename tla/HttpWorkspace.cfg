SPECIFICATION WorkspaceSpec
CONSTANTS
    Programs = {"windows", "macos"}
    Commands <- AllCommands
    Pieces <- AllPieces
    Bodies <- AllBodies
    Lines <- AllLines
    Methods <- AllMethods
    URLs <- AllURLs
    Files <- AllFiles
    MaxPieces = 3
    MaxEdits = 2
INVARIANTS
    TextMeansItsWords
    ImportIsSent
    GeneratedCommandIsTheRequest
