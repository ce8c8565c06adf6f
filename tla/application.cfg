\* Two tabs and one application, new or saved.
\* Nobody opens another page: CHECK_DEADLOCK FALSE, the users may have finished.
CHECK_DEADLOCK FALSE
SYMMETRY Symmetry
SPECIFICATION Spec
CONSTANTS
    Pages = {p1, p2}
    Apps = {a1}
    Records = {c1}
    NoApp = NoApp
    NoPage = NoPage
    MaxRows = 2
    MaxRequests = 2
    MaxOpenings = 2
INVARIANTS
    HiddenFormsAwaitAnAnswer
    SubmittedHasDocument
    OneRequestPerForm
    RemovedIsNotSentAgain
PROPERTIES
    UpToDateFormsMoveForward
