SPECIFICATION LiveSpec
CONSTANTS
    Clients = {c1}
    NoTask = NoTask
    MaxTasks = 3
    MaxMessages = 3
    Replayed = 1
    Texts <- FewTexts
    FactSets <- OneWorld
    Plan <- TwoSteps
    Results = {"succeeded", "failed"}
INVARIANTS StepsInTurn NoGap
PROPERTIES OrdersNeedSync ReportMovesOrder
CHECK_DEADLOCK FALSE
