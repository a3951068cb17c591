CONSTANTS
    Merchants <- Shop
    Dates <- Days
    Today = 2
    Chats <- Two
    Handlers = {h1, h2}
    Requests <- Desk_Requests
    Extractions <- Desk_Extractions
    Receipts <- Desk_Receipts
    Labels <- Food
    Provider = "ollama"
    Connections = 2
    Widest = 999
SPECIFICATION FairSpec
CHECK_DEADLOCK FALSE
INVARIANTS
    TypeOK
    NothingIsOrphaned
    PoolBalanced
    ReplyTellsTheTable
    BadTextKeepsAmount
    AloneFailsOnInput
PROPERTY HandlersEnd
