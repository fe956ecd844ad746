SPECIFICATION FairTalk
CONSTANTS
    chat = chat
    rest = rest
    Scripts <- MCScripts
    Api = api
    Capacity = 1
    Messages <- MCMessages
    SessionKeys = {chat, rest}
    SessionOf <- MCSessionOf
    ApiText = "text"
    Nothing = nothing
    MaxUpdates = 5
    MaxCrashes = 1
INVARIANTS
    AccountedOnce
    OneIssue
PROPERTY
    EventuallyHandled
CHECK_DEADLOCK FALSE
