CONSTANTS
    r1 = r1
    r2 = r2
    NoRec = NoRec
    Recs <- MCRecs
    InitRows <- MCInitRows
    InitData <- MCInitData
    Cols <- MCCols
    NumberCols = {"quantity"}
    BlankOk = {"label"}
    Texts <- MCTexts
    NumberText <- MCNumberText
    AutoEncode = FALSE
    HtmlDecode <- MCCodec
    HtmlEncode <- MCCodec
    MaxTasks = 2
    QuantityCol = "quantity"
    Quantity <- MCQuantity
    MaxAdded = 1
SPECIFICATION ColormapSpec
PROPERTY GridCloseNotifiesOnce
