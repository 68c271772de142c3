CONSTANTS
    j1 = j1
    j2 = j2
    r1 = r1
    r2 = r2
    Caller = Caller
    NoFile = NoFile
    NoUser = NoUser
    NoReport = NoReport
    JobFiles <- MCJobFiles
    ResumeFiles <- MCResumeFiles
    MaxInFlight = 2
SPECIFICATION Spec
INVARIANTS TypeOK SingleRequest ReportRequiresIngestedJob
PROPERTIES LoadingReleased
