CONSTANTS
    Letter = {"a"}
    BufSize = 3
    TextBuf = 3
    Texts <- MCTexts
    TextFiles <- MCFiles
    Rooms = {2, 3, 4, 5, 99}
    MaxRead = 4
    MaxText = 8
SPECIFICATION TextSpec
PROPERTIES
    TextLossReported
