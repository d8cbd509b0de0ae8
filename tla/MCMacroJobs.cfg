SPECIFICATION JobsFairSpec
CONSTANTS
    j1 = j1
    N = 1
    Jobs = {j1}
    Asks <- AsksOf
    Watcher = Watcher
INVARIANTS QuestionHasAsker
   
CHECK_DEADLOCK FALSE
