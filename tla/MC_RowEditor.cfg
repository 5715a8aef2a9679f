CONSTANTS
    r1 = r1
    r2 = r2
    NoRec = NoRec
    Recs <- MCRecs
    InitRows <- MCInitRows
    InitData <- MCInitData
    Cols <- MCCols
    NumberCols = {"quantity"}
    BlankOk = {"label"}
    Texts <- MCTexts
    NumberText <- MCNumberText
    AutoEncode = FALSE
    HtmlDecode <- MCCodec
    HtmlEncode <- MCCodec
    MaxTasks = 2
SPECIFICATION Spec
INVARIANT TypeOK
PROPERTIES
    RefinesEditSession
    NoInvalidCommit
    CommitTargetsEditedRecord
    DirtySessionKept
    CloseNotifiesOnce
    PollerSyncsSaveButton
    PollersStopWhenHidden
