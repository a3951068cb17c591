CONSTANTS
    Merchants <- Shop
    Dates <- Days
    Today = 2
    Chats <- Two
    Handlers = {h1, h2, h3}
    Requests <- Salary_Requests
    Extractions <- Desk_Extractions
    Receipts <- Desk_Receipts
    Labels <- Food
    Provider = "ollama"
    Connections = 2
    Widest = 999
SPECIFICATION Spec
CHECK_DEADLOCK FALSE
INVARIANT TargetWithinExpected
