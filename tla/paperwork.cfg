SPECIFICATION Spec
CONSTANTS
    Blank = Blank
    Handlers = {r, q}
    RowIds = {1, 2, 3}
    Staff <- MCStaff
    Page = 2
    MaxHandlers = 2
    MaxRefused = 1
    NoRow = NoRow
    Incomplete = {"half"}
    Viewers <- MCViewers
    Forms <- MCForms
    Stages = {"planned", "done"}
    FolderIds = {1, 2, 3}
    FolderNames = {"North", "AMS", "4 AMS"}
    Papers = {p}
    Librarians = {r, q}
    MAX_FOLDER_DEPTH = 2
    Structure <- MCStructure
    normalise <- MCNormalise
    FolderViewers <- MCFolderViewers
    NoFolder = NoFolder
    Top = Top
    MaxLibraryCalls = 3
    MaxLibraryFaults = 1
    DocIds = {1, 2}
    Clerks = {r, q}
    Contents = {"k", "l"}
    Pdfs = {"l"}
    Paths = {1, 2, 3, 4, 5, 6, 7, 8, 9, 10, 11, 12}
    FileViewers <- MCFolderViewers
    NoDoc = NoDoc
    NoFile = NoFile
    MaxFileCalls = 3
    MaxFileFaults = 1
CHECK_DEADLOCK FALSE
SYMMETRY Symmetry
INVARIANTS ActionsAreOneSaves RevisionsHaveNoGaps SignedAndFiledIsKept LibraryIsATree NoFileIsLost
PROPERTIES AnswersShowTheSlice
