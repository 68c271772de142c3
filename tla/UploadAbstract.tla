--------------------------- MODULE UploadAbstract ---------------------------
(***************************************************************************)
(* What the upload workflow promises (spec 3 UploadState, 4.1), without    *)
(* files, requests, answers or the spinner: within a session of an account *)
(* allowed to recruit, a job can be ingested (again, any number of times)  *)
(* and, once one is, a ranking report for that account can be produced;   *)
(* a sign-out throws the workflow away, and so does an admin leaving the   *)
(* workflow's view for the console (spec 3: UploadState is destroyed when  *)
(* its hosting view unmounts).  Nothing else ever changes whether a job is *)
(* processed or which report is shown.  UploadPipeline is shown   *)
(* to implement this module with jobProcessed <- jobUploaded and           *)
(* report <- results.                                                      *)
(***************************************************************************)
CONSTANTS Accounts, RoleOf, NoUser, NoReport

VARIABLES session, jobProcessed, report

abstractVars == <<session, jobProcessed, report>>

(* spec 3: isRecruiter = user.role \in {recruiter, admin}.                 *)
MayRecruit(a) == a # NoUser /\ RoleOf[a] \in {"recruiter", "admin"}

Init ==
    /\ session = NoUser
    /\ jobProcessed = FALSE
    /\ report = NoReport

SignIn(a) ==
    /\ session = NoUser
    /\ session' = a
    /\ UNCHANGED <<jobProcessed, report>>

SignOut ==
    /\ session # NoUser
    /\ session' = NoUser
    /\ jobProcessed' = FALSE
    /\ report' = NoReport

(* Only an admin has another view to go to within a session.              *)
LeaveWorkflow ==
    /\ session # NoUser
    /\ RoleOf[session] = "admin"
    /\ jobProcessed' = FALSE
    /\ report' = NoReport
    /\ UNCHANGED session

IngestJob ==
    /\ MayRecruit(session)
    /\ jobProcessed' = TRUE
    /\ UNCHANGED <<session, report>>

Rank ==
    /\ MayRecruit(session)
    /\ jobProcessed
    /\ report' = [owner |-> session]
    /\ UNCHANGED <<session, jobProcessed>>

Next ==
    \/ \E a \in Accounts : SignIn(a)
    \/ SignOut
    \/ LeaveWorkflow
    \/ IngestJob
    \/ Rank

Spec == Init /\ [][Next]_abstractVars

=============================================================================
