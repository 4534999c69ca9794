SPECIFICATION Spec
CONSTANTS
    interview = interview single = single scenario = scenario
    w1 = w1 w2 = w2 c1 = c1 c2 = c2 Nobody = Nobody
    Room = {interview, single, scenario}
    TypeOf <- MCTypeOf
    Questions <- MCQuestions
    Condition = {c1, c2}
    Required = {c1}
    MaxTurns = 3
    Limit = 3
    MaxMessages = 3
    Worker = {w1, w2}
SYMMETRY Symmetry
VIEW View
CONSTRAINT OneRoomAtATime
INVARIANTS OneReplyPerMessage QuestionsInOrder AwaitingEndIsEarned OneResult
PROPERTIES DismissedIsFinal KeepsConversation
CHECK_DEADLOCK FALSE
