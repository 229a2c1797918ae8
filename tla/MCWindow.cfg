\* Two calls, and two questions of one pairing or of two, so that what is left of
\* one meets the next; two positions of each slider, away from where a knob's
\* value puts it.
CONSTANTS
    MaxCalls = 2
    MaxQuestions = 2
    LossPositions = {23, 94}
    RatePositions = {76, 324}
    MaxRows = 1
    MaxLives = 2
    MaxTurns = 2
SPECIFICATION WSpec
INVARIANTS
    AnswersStayWithTheirQuestion
    PanelTellsTheTruth
    EventsExplainRows
    ExportAgreesWithItself
PROPERTY HangUpFreesTheWindow
CHECK_DEADLOCK FALSE
