\* Two branches that resolve in every order and direction, under each predictor.
SPECIFICATION PredictorSpec
CONSTANTS
    PredictorTypes <- AllPredictorTypes
    historyBits = 2
    BranchPcs = {1, 2}
    MaxOutcomes = 7
CHECK_DEADLOCK FALSE
INVARIANTS
    PredictorTypeOK
    RecentOutcomesDecide
    HabitSurvivesAnException
