CONSTANTS
    chat = chat
    web = web
    t1 = t1
    t2 = t2
    v1 = v1
    v2 = v2
    w1 = w1
    w2 = w2
    None = None
    Client <- Chats
    Bound <- Chats
    Patient <- Chats
    Turn <- OneTurn
    Conversation <- TwoConversations
    Text <- OneText
    MaxRequest = 3
    MaxMessages = 2
SPECIFICATION Spec
INVARIANT IndicesUnique
