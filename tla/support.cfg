\* Three files for two places, a second inquiry that must not be made, two
\* calls at a time, and a form that is sent twice.
\* Nobody changes anything any more: CHECK_DEADLOCK FALSE, the user has finished.
CHECK_DEADLOCK FALSE
SYMMETRY Symmetry
SPECIFICATION Spec
CONSTANTS
    Inquiries = {q1, q2}
    Files = {f1, f2, f3}
    NoInquiry = NoInquiry
    MaxFiles = 2
    MaxCalls = 2
    MaxSubmissions = 2
INVARIANTS
    OneDraftPerForm
    ThanksAreEarned
PROPERTIES
    SubmittedHasItsFiles
    SubmittedSurvivesCleaning
