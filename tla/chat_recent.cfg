SPECIFICATION ChatMCSpec
CONSTANTS
    w1 = w1  w2 = w2  u1 = u1  u2 = u2  v1 = v1  v2 = v2  NOBODY = NOBODY
    Talkers <- OneTalker
    Candidates <- OneCandidate
    Conversations <- OneConversation
    HistoryTake = 10
    NewestSkipped = 3
    TopK = 3
    ToolCalls = 0
    ClockSteps = {1}
    MaxMoment = 20
    ChatCalls = {"chat"}
    ChatBudget = 7
INVARIANT RecentTurnsInPrompt
CHECK_DEADLOCK FALSE
