\* Two turns of one session; or one turn and a second client of the tools;
\* or that client and staff at the incident desk.  Nobody need ask again: the system may stop.
SPECIFICATION AssistantSpec
CONSTANTS
    Turns = {t1, t2}
    Questions <- MCQuestions
    NoRef = ""
    Labels = {"Miami", "miami"}
    SamePlace <- MCSamePlace
    Suggestions <- MCSuggestions
    MaxAsked = 3
    MaxAges = 1
    MaxAgentFaults = 1
    Handlers = {w1, h1}
    SeedRows <- MCSeedRows
    IdText <- MCIdText
    ManualText <- MCManualText
    MaxIncidents = 2
    MaxPatches = 3
    Callers = {t1, t2, w1}
    Writers = {w1}
    Nobody = nobody
    MaxTokens = 2
    MaxToolFaults = 1
    MaxOtherCalls = 1
    Scenes <- MCScenes
CHECK_DEADLOCK FALSE
INVARIANTS
    
    MemoryIsApproved
PROPERTIES
    
    TokenDiscipline
    TicketAnswersTrue
    ClosedStaysClosed
