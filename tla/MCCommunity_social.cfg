CONSTANTS
    Keys <- MCKeys
    Openings <- MCOpenings
    Texts = {1}
    Presses <- MCPresses
    Metrics <- MCMetrics
    Definitions <- MCDefinitions
    Scenarios <- MCScenarios
INIT Init
NEXT Next
INVARIANTS TypeOK ListsAreComplete CountsAreExact CompletionFollowsMetrics OverachieverIsOutOfReach  CannotFollowAgain
CHECK_DEADLOCK FALSE
