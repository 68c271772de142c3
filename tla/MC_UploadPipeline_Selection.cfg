CONSTANTS
    alice = alice
    bob = bob
    carol = carol
    j1 = j1
    j2 = j2
    r1 = r1
    r2 = r2
    NoFile = NoFile
    NoUser = NoUser
    NoReport = NoReport
    Accounts <- MCAccounts
    RoleOf <- MCRoleOf
    JobFiles <- MCJobFiles
    ResumeFiles <- MCResumeFiles
    MaxInFlight = 2
SPECIFICATION Spec
PROPERTY SelectionFrozenWhileLoading
