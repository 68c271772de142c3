--------------------------- MODULE LegacyAppProofs ---------------------------
(***************************************************************************)
(* Proofs about LegacyApp (App.js) for every set of files and every bound. *)
(* App.js's handlers are Home's, so the proofs reuse UploadPipelineProofs  *)
(* instantiated as LegacyApp instantiates UploadPipeline: every step of    *)
(* App.js is a step of that instance of Home, whose inductive invariant    *)
(* IInv is therefore kept.                                                 *)
(***************************************************************************)
EXTENDS LegacyApp, TLAPS

Home == INSTANCE UploadPipelineProofs
            WITH session <- caller, Accounts <- {Caller},
                 RoleOf <- [a \in {Caller} |-> "recruiter"]

(* The instance's constants satisfy Home's assumption.                     *)
LEMMA HomeAssumption == Home!ConstantsAssumption
  BY LegacyAssumption DEF Home!ConstantsAssumption, Home!Roles

(* Each action of App.js is the Home action it stands for.                 *)
LEMMA ActionsAreHome ==
    /\ \A f : SelectJobFile(f) => Home!SelectJobFile(f)
    /\ \A x : SelectResumeFiles(x) => Home!SelectResumeFiles(x)
    /\ HandleJobUpload => Home!HandleJobUpload
    /\ HandleResumeUpload => Home!HandleResumeUpload
    /\ \A r : JobUploadSucceeds(r) => Home!JobUploadSucceeds(r)
    /\ \A r : JobUploadFails(r) => Home!JobUploadFails(r)
    /\ \A r : ResumeUploadSucceeds(r) => Home!ResumeUploadSucceeds(r)
    /\ \A r : ResumeUploadFails(r) => Home!ResumeUploadFails(r)
<1> USE DEF Page!CanUseRecruitment, Home!CanUseRecruitment,
            Page!Cardinality, Home!Cardinality,
            Page!Roles, Home!Roles
<1>1. \A f : SelectJobFile(f) => Home!SelectJobFile(f)
  BY DEF SelectJobFile, Page!SelectJobFile, Home!SelectJobFile
<1>2. \A x : SelectResumeFiles(x) => Home!SelectResumeFiles(x)
  BY DEF SelectResumeFiles, Page!SelectResumeFiles, Home!SelectResumeFiles
<1>3. HandleJobUpload => Home!HandleJobUpload
  BY DEF HandleJobUpload, Page!HandleJobUpload, Home!HandleJobUpload
<1>4. HandleResumeUpload => Home!HandleResumeUpload
  BY DEF HandleResumeUpload, Page!HandleResumeUpload, Home!HandleResumeUpload
<1>5. \A r : JobUploadSucceeds(r) => Home!JobUploadSucceeds(r)
  BY DEF JobUploadSucceeds, Page!JobUploadSucceeds, Home!JobUploadSucceeds
<1>6. \A r : JobUploadFails(r) => Home!JobUploadFails(r)
  BY DEF JobUploadFails, Page!JobUploadFails, Home!JobUploadFails
<1>7. \A r : ResumeUploadSucceeds(r) => Home!ResumeUploadSucceeds(r)
  BY DEF ResumeUploadSucceeds, Page!ResumeUploadSucceeds,
         Home!ResumeUploadSucceeds
<1>8. \A r : ResumeUploadFails(r) => Home!ResumeUploadFails(r)
  BY DEF ResumeUploadFails, Page!ResumeUploadFails, Home!ResumeUploadFails
<1>9. QED
  BY <1>1, <1>2, <1>3, <1>4, <1>5, <1>6, <1>7, <1>8

(* Every step of App.js is a step of Home for the anonymous caller.        *)
LEMMA NextIsHomeNext == [Next]_vars => [Home!Next]_(Home!vars)
  BY ActionsAreHome DEF Next, vars, ServiceAnswers, Home!Next, Home!vars,
     Home!UserActs, Home!ServiceAnswers, Home!Answer

-----------------------------------------------------------------------------

(* App.js mounts in a state of Home's inductive invariant: nothing in      *)
(* flight, no job ingested, no report.                                     *)
LEMMA InitIInv == Init => Home!IInv
<1> SUFFICES ASSUME Init PROVE Home!IInv
  OBVIOUS
<1>1. Home!TypeOK
  BY LegacyAssumption DEF Init, Page!HomeInit, Home!TypeOK, Home!Messages
<1>2. QED
  BY <1>1 DEF Init, Page!HomeInit, Home!IInv, Home!SingleLiveRequest,
     Home!LiveOwned, Home!LiveResumesAfterJob, Home!ReportRequiresIngestedJob,
     Home!ReportBelongsToSession

(* App.js keeps Home's inductive invariant in every reachable state.       *)
LEMMA IInvAlways == Spec => []Home!IInv
<1>1. Home!IInv /\ [Next]_vars => Home!IInv'
  BY NextIsHomeNext, Home!IInvStep, HomeAssumption
<1>2. QED
  BY <1>1, InitIInv, PTL DEF Spec

(* Every reachable state of App.js is well typed (TypeOK).                  *)
THEOREM TypeCorrect == Spec => []TypeOK
<1>1. Home!IInv => TypeOK
  BY DEF Home!IInv, TypeOK, Page!TypeOK, Home!TypeOK, Page!Messages,
     Home!Messages, Page!Requests, Home!Requests, Page!Reports, Home!Reports
<1>2. QED
  BY <1>1, IInvAlways, PTL

(* App.js never has two uploads in flight, and its loading flag is set     *)
(* exactly while one is (SingleRequest): the disabled attributes of its    *)
(* two buttons and the finally of its two handlers.                         *)
THEOREM SingleRequestHolds == Spec => []SingleRequest
<1>1. Home!IInv => SingleRequest
  BY DEF Home!IInv, SingleRequest, Page!SingleLiveRequest,
     Home!SingleLiveRequest
<1>2. QED
  BY <1>1, IInvAlways, PTL

(* App.js shows a ranking only once a job was ingested                     *)
(* (ReportRequiresIngestedJob): the Rank button's !jobUploaded guard is     *)
(* the only check, since handleResumeUpload tests only resumeFiles.         *)
THEOREM ReportRequiresIngestedJobHolds == Spec => []ReportRequiresIngestedJob
<1>1. Home!IInv => ReportRequiresIngestedJob
  BY DEF Home!IInv, ReportRequiresIngestedJob, Page!ReportRequiresIngestedJob,
     Home!ReportRequiresIngestedJob
<1>2. QED
  BY <1>1, IInvAlways, PTL

=============================================================================
