------------------------------ MODULE LegacyApp ------------------------------
(***************************************************************************)
(* The single-page workflow of src/frontend/src/App.js: the same six hooks *)
(* and the same two handlers as Home.js, with no session, no role gate and *)
(* no Authorization header.  Its handlers are Home's line for line apart   *)
(* from the gate and the header, so the page is UploadPipeline instantiated *)
(* for one anonymous Caller whose gate is always open (App renders the     *)
(* workflow to everyone) and who never signs in or out (App has no         *)
(* navigation, so the page is never unmounted and every answer is live).   *)
(***************************************************************************)
EXTENDS Naturals

CONSTANTS Caller, JobFiles, ResumeFiles, NoFile, NoUser, NoReport, MaxInFlight

(* The sentinels stand apart from real values, as in UploadPipeline.       *)
ASSUME LegacyAssumption ==
    /\ NoFile \notin JobFiles
    /\ NoUser # Caller
    /\ NoReport \notin [owner : {Caller}]
    /\ MaxInFlight \in Nat \ {0}

VARIABLES
    caller,       \* who uses the page: always the anonymous Caller
    jobFile, resumeFiles, jobUploaded, results, loading, message, net

vars == <<caller, jobFile, resumeFiles, jobUploaded, results, loading,
          message, net>>

Page == INSTANCE UploadPipeline
            WITH session <- caller, Accounts <- {Caller},
                 RoleOf <- [a \in {Caller} |-> "recruiter"]

(* App.js lines 5-10; nothing is in flight when the page mounts.           *)
Init == caller = Caller /\ Page!HomeInit /\ net = {}

(* onChange of the job picker: setJobFile(e.target.files[0]).             *)
SelectJobFile(f) == Page!SelectJobFile(f)

(* onChange of the resume picker: setResumeFiles(Array.from(files)).       *)
SelectResumeFiles(s) == Page!SelectResumeFiles(s)

(* handleJobUpload up to its await, behind disabled={!jobFile || loading}. *)
HandleJobUpload == Page!HandleJobUpload

(* Mutants: the Rank button without its loading, or its jobUploaded, guard.*)
HandleResumeUploadIgnoringLoading == Page!HandleResumeUploadIgnoringLoading

HandleResumeUploadIgnoringJob == Page!HandleResumeUploadIgnoringJob

(* handleResumeUpload up to its await, behind                              *)
(* disabled={!jobUploaded || resumeFiles.length === 0 || loading}.         *)
HandleResumeUpload == Page!HandleResumeUpload

(* Mutant: setLoading(false) in the try, not in the finally.             *)
JobUploadFailsKeepingLoading(r) == Page!JobUploadFailsKeepingLoading(r)

(* The rest of each handler: the branch on response.ok, the catch and the *)
(* finally.                                                                *)
JobUploadSucceeds(r) == Page!JobUploadSucceeds(r)

JobUploadFails(r) == Page!JobUploadFails(r)

(* Mutant: setResults(response) instead of setResults(data.report).       *)
ResumeUploadSucceedsStoringResponse(r) ==
    Page!ResumeUploadSucceedsStoringResponse(r)

ResumeUploadSucceeds(r) == Page!ResumeUploadSucceeds(r)

ResumeUploadFails(r) == Page!ResumeUploadFails(r)

ServiceAnswers ==
    \E r \in net : \/ JobUploadSucceeds(r) \/ JobUploadFails(r)
                   \/ ResumeUploadSucceeds(r) \/ ResumeUploadFails(r)

Next ==
    \/ \E f \in JobFiles \cup {NoFile} : SelectJobFile(f)
    \/ \E s \in SUBSET ResumeFiles : SelectResumeFiles(s)
    \/ HandleJobUpload
    \/ HandleResumeUpload
    \/ ServiceAnswers

(* As for Home: the user owes nothing, the service eventually answers.     *)
Spec == Init /\ [][Next]_vars /\ WF_vars(ServiceAnswers)

-----------------------------------------------------------------------------
(* Properties.                                                             *)

TypeOK == Page!TypeOK

(* Spec 5 and 8, for App.js: at most one upload is in flight, and loading  *)
(* is set exactly while one is (the buttons' disabled conditions against   *)
(* the finally clauses).                                                   *)
SingleRequest == Page!SingleLiveRequest

(* Spec 8, for App.js: a ranking is shown only once a job was ingested;    *)
(* the Rank button, not handleResumeUpload, enforces it.                   *)
ReportRequiresIngestedJob == Page!ReportRequiresIngestedJob

(* Spec 5, for App.js: the Processing... spinner is always released.       *)
LoadingReleased == loading ~> ~loading

=============================================================================
