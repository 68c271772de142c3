--------------------------- MODULE UploadPipeline ---------------------------
(***************************************************************************)
(* The recruitment workflow of the Home page (src/frontend/src/pages/      *)
(* Home.js): a recruiter selects a job description, has it ingested by the *)
(* ranking service (POST /upload-job), selects a batch of resumes and has  *)
(* them ranked (POST /upload-resumes).  The page is a React component: its *)
(* state is a set of useState hooks, its operations are the onChange and   *)
(* onClick handlers, and every fetch is an await that lets any other       *)
(* handler run before its answer is applied.                               *)
(*                                                                         *)
(* The session (AuthContext, not under src/) is modelled from the spec: a  *)
(* signed-in account or NoUser.  Signing out happens from the Navbar, whose*)
(* handler navigates to /signin and so unmounts Home: the page's state is  *)
(* discarded and the answers of its pending requests are applied to a dead *)
(* component, which React ignores.  Each request carries whether the Home  *)
(* instance that sent it is still mounted ("live").                         *)
(***************************************************************************)
EXTENDS Naturals, FiniteSets

CONSTANTS
    Accounts,     \* accounts that can sign in (model values)
    RoleOf,       \* the role of each account, as the backend reports it
    JobFiles,     \* files the job-description picker can return
    ResumeFiles,  \* files the resume picker can return
    NoFile,       \* e.target.files[0] when the picker is cancelled
    NoUser,       \* AuthContext user when signed out
    NoReport,     \* results === null
    MaxInFlight   \* bound on requests not yet answered (model bound)

Roles == {"candidate", "recruiter", "admin"}

ASSUME ConstantsAssumption ==
    /\ RoleOf \in [Accounts -> Roles]
    /\ NoFile \notin JobFiles
    /\ NoUser \notin Accounts
    /\ NoReport \notin [owner : Accounts]
    /\ MaxInFlight \in Nat \ {0}

VARIABLES
    session,      \* the signed-in account (useAuth().user), or NoUser
    jobFile,      \* useState jobFile
    resumeFiles,  \* useState resumeFiles, abstracted to the set selected
    jobUploaded,  \* useState jobUploaded
    results,      \* useState results: NoReport or the report shown
    loading,      \* useState loading
    message,      \* useState message, abstracted to its kind
    net           \* requests sent and not yet answered

vars == <<session, jobFile, resumeFiles, jobUploaded, results, loading,
          message, net>>

homeVars == <<jobFile, resumeFiles, jobUploaded, results, loading, message>>

Messages == {"none", "jobOk", "resumesOk", "error"}

(* A request: which endpoint, whose token it carries, and whether the Home *)
(* instance that awaits its answer is still mounted.                       *)
Requests == [kind : {"job", "resumes"}, owner : Accounts, live : BOOLEAN]

(* A ranking report, identified by the account whose request produced it. *)
Reports == [owner : Accounts]

(* Mutant: the workflow gated on isAuthenticated instead of isRecruiter.  *)
CanUseRecruitmentSignedIn ==
    session # NoUser

(* const canUseRecruitment = isRecruiter (Home.js:97), with isRecruiter    *)
(* true for recruiters and admins; the workflow is rendered only then.     *)
CanUseRecruitment ==
    /\ session # NoUser
    /\ RoleOf[session] \in {"recruiter", "admin"}

(* The state of a freshly mounted Home (the useState initial values).      *)
HomeInit ==
    /\ jobFile = NoFile
    /\ resumeFiles = {}
    /\ jobUploaded = FALSE
    /\ results = NoReport
    /\ loading = FALSE
    /\ message = "none"

Init ==
    /\ session = NoUser
    /\ HomeInit
    /\ net = {}

-----------------------------------------------------------------------------
(* Session: sign-in (spec-modelled) and the Navbar's links.                *)

Login(a) ==
    /\ session = NoUser
    /\ session' = a
    /\ UNCHANGED <<homeVars, net>>

(* Mutant: sign-out without the navigation, so Home stays mounted.        *)
LogoutWithoutNavigate ==
    /\ session # NoUser
    /\ session' = NoUser
    /\ UNCHANGED <<homeVars, net>>

(* Leaving the route "/" unmounts Home: its next mount starts from the    *)
(* useState initial values, and every answer it awaits will reach an       *)
(* unmounted component.                                                    *)
HomeUnmounts ==
    /\ jobFile' = NoFile
    /\ resumeFiles' = {}
    /\ jobUploaded' = FALSE
    /\ results' = NoReport
    /\ loading' = FALSE
    /\ message' = "none"
    /\ net' = {[r EXCEPT !.live = FALSE] : r \in net}

(* handleLogout: logout(); navigate('/signin').                            *)
Logout ==
    /\ session # NoUser
    /\ session' = NoUser
    /\ HomeUnmounts

(* The Navbar's Admin link, rendered only when isAdmin (Navbar.js:25-27),  *)
(* followed by its Home link: Home is unmounted for /admin and mounted     *)
(* afresh on the way back, in the same session.  While /admin is shown     *)
(* Home has no handlers and any answer is already stale, so the visit is   *)
(* one step.                                                               *)
VisitAdmin ==
    /\ session # NoUser
    /\ RoleOf[session] = "admin"
    /\ session' = session
    /\ HomeUnmounts

-----------------------------------------------------------------------------
(* Handlers of the Home page.                                              *)

(* onChange of the job picker: setJobFile(e.target.files[0]).  The input   *)
(* is not disabled while a request is pending.                             *)
SelectJobFile(f) ==
    /\ CanUseRecruitment
    /\ jobFile' = f
    /\ UNCHANGED <<session, resumeFiles, jobUploaded, results, loading,
                   message, net>>

(* onChange of the resume picker: setResumeFiles(Array.from(files)).       *)
SelectResumeFiles(s) ==
    /\ CanUseRecruitment
    /\ resumeFiles' = s
    /\ UNCHANGED <<session, jobFile, jobUploaded, results, loading,
                   message, net>>

(* handleJobUpload up to its await.  The button is disabled when           *)
(* !jobFile || loading, so the handler's own !jobFile early return is      *)
(* never reached by a click.                                               *)
HandleJobUpload ==
    /\ CanUseRecruitment
    /\ jobFile # NoFile
    /\ ~loading
    /\ Cardinality(net) < MaxInFlight
    /\ loading' = TRUE
    /\ message' = "none"
    /\ net' = net \cup {[kind |-> "job", owner |-> session, live |-> TRUE]}
    /\ UNCHANGED <<session, jobFile, resumeFiles, jobUploaded, results>>

(* Mutants: the resume button without its loading, or its jobUploaded,    *)
(* guard.                                                                  *)
HandleResumeUploadIgnoringLoading ==
    /\ CanUseRecruitment
    /\ jobUploaded
    /\ resumeFiles # {}
    /\ Cardinality(net) < MaxInFlight
    /\ loading' = TRUE
    /\ message' = "none"
    /\ net' = net \cup {[kind |-> "resumes", owner |-> session, live |-> TRUE]}
    /\ UNCHANGED <<session, jobFile, resumeFiles, jobUploaded, results>>

HandleResumeUploadIgnoringJob ==
    /\ CanUseRecruitment
    /\ resumeFiles # {}
    /\ ~loading
    /\ Cardinality(net) < MaxInFlight
    /\ loading' = TRUE
    /\ message' = "none"
    /\ net' = net \cup {[kind |-> "resumes", owner |-> session, live |-> TRUE]}
    /\ UNCHANGED <<session, jobFile, resumeFiles, jobUploaded, results>>

(* handleResumeUpload up to its await; the button is disabled when         *)
(* !jobUploaded || resumeFiles.length === 0 || loading.                    *)
HandleResumeUpload ==
    /\ CanUseRecruitment
    /\ jobUploaded
    /\ resumeFiles # {}
    /\ ~loading
    /\ Cardinality(net) < MaxInFlight
    /\ loading' = TRUE
    /\ message' = "none"
    /\ net' = net \cup {[kind |-> "resumes", owner |-> session, live |-> TRUE]}
    /\ UNCHANGED <<session, jobFile, resumeFiles, jobUploaded, results>>

(* The rest of handleJobUpload when response.ok and the body parses.       *)
JobUploadSucceeds(r) ==
    /\ r.kind = "job" /\ r.live
    /\ net' = net \ {r}
    /\ jobUploaded' = TRUE
    /\ message' = "jobOk"
    /\ loading' = FALSE
    /\ UNCHANGED <<session, jobFile, resumeFiles, results>>

(* Mutant: a failed job upload whose setLoading(false) sits in the try   *)
(* instead of the finally.                                                  *)
JobUploadFailsKeepingLoading(r) ==
    /\ r.kind = "job" /\ r.live
    /\ net' = net \ {r}
    /\ message' = "error"
    /\ UNCHANGED <<session, jobFile, resumeFiles, jobUploaded, results,
                   loading>>

(* The rest of handleJobUpload on a non-2xx answer, an unparsable body or  *)
(* a transport error: the else branch or the catch, then the finally.      *)
JobUploadFails(r) ==
    /\ r.kind = "job" /\ r.live
    /\ net' = net \ {r}
    /\ message' = "error"
    /\ loading' = FALSE
    /\ UNCHANGED <<session, jobFile, resumeFiles, jobUploaded, results>>

(* Mutant: setResults(data) instead of setResults(data.report).           *)
ResumeUploadSucceedsStoringResponse(r) ==
    /\ r.kind = "resumes" /\ r.live
    /\ net' = net \ {r}
    /\ results' = r
    /\ message' = "resumesOk"
    /\ loading' = FALSE
    /\ UNCHANGED <<session, jobFile, resumeFiles, jobUploaded>>

(* The rest of handleResumeUpload when response.ok: setResults(report).    *)
ResumeUploadSucceeds(r) ==
    /\ r.kind = "resumes" /\ r.live
    /\ net' = net \ {r}
    /\ results' = [owner |-> r.owner]
    /\ message' = "resumesOk"
    /\ loading' = FALSE
    /\ UNCHANGED <<session, jobFile, resumeFiles, jobUploaded>>

(* The rest of handleResumeUpload on failure: results are left as they are.*)
ResumeUploadFails(r) ==
    /\ r.kind = "resumes" /\ r.live
    /\ net' = net \ {r}
    /\ message' = "error"
    /\ loading' = FALSE
    /\ UNCHANGED <<session, jobFile, resumeFiles, jobUploaded, results>>

(* An answer awaited by an unmounted Home: its setState calls are no-ops.  *)
StaleAnswer(r) ==
    /\ ~r.live
    /\ net' = net \ {r}
    /\ UNCHANGED <<session, homeVars>>

Answer(r) ==
    \/ JobUploadSucceeds(r)
    \/ JobUploadFails(r)
    \/ ResumeUploadSucceeds(r)
    \/ ResumeUploadFails(r)
    \/ StaleAnswer(r)

(* The ranking service answers every request (no timeout in the code).    *)
ServiceAnswers == \E r \in net : Answer(r)

UserActs ==
    \/ \E a \in Accounts : Login(a)
    \/ Logout
    \/ VisitAdmin
    \/ \E f \in JobFiles \cup {NoFile} : SelectJobFile(f)
    \/ \E s \in SUBSET ResumeFiles : SelectResumeFiles(s)
    \/ HandleJobUpload
    \/ HandleResumeUpload

Next == UserActs \/ ServiceAnswers

(* The user owes nothing; the service is assumed to answer eventually.     *)
Spec == Init /\ [][Next]_vars /\ WF_vars(ServiceAnswers)

-----------------------------------------------------------------------------
(* Properties.                                                             *)

TypeOK ==
    /\ session \in Accounts \cup {NoUser}
    /\ jobFile \in JobFiles \cup {NoFile}
    /\ resumeFiles \in SUBSET ResumeFiles
    /\ jobUploaded \in BOOLEAN
    /\ results \in Reports \cup {NoReport}
    /\ loading \in BOOLEAN
    /\ message \in Messages
    /\ net \in SUBSET Requests

(* Spec 5: the page has at most one request in flight, and its loading     *)
(* flag is set exactly while one is: the disabled={... || loading} guards  *)
(* of both buttons and the finally { setLoading(false) } of both handlers  *)
(* together keep a job upload and a resume upload from overlapping.        *)
SingleLiveRequest ==
    /\ \A r1, r2 \in net : r1.live /\ r2.live => r1 = r2
    /\ loading = (\E r \in net : r.live)

(* Spec 4.1 and 8: a ranking report is shown only on a page that has had a *)
(* job description ingested: the resume button's !jobUploaded guard,       *)
(* across any interleaving of picks, failures and answers.                 *)
ReportRequiresIngestedJob ==
    results # NoReport => jobUploaded

(* A report on screen was produced by a request made with the token of the *)
(* account now signed in: an answer that arrives after a sign-out (and a   *)
(* sign-in by someone else) never reaches the new session's page.          *)
ReportBelongsToSession ==
    results # NoReport => session # NoUser /\ results.owner = session

(* Spec 5: the in-flight flag is always released: whatever the outcome of  *)
(* the request, a page that shows the spinner eventually stops showing it. *)
LoadingReleased == loading ~> ~loading

(* Spec 4.1: a job document may be selected only outside an in-flight      *)
(* upload.  Home.js leaves both file inputs enabled while loading, so a    *)
(* selection can change under a pending request.                           *)
SelectionFrozenWhileLoading ==
    [][loading /\ loading' => UNCHANGED <<jobFile, resumeFiles>>]_vars

(* Spec 3 and 4.1, as a refinement: seen through who is signed in, the    *)
(* jobUploaded flag and the report shown, every run of Home with its       *)
(* session is a run of UploadAbstract: a job becomes ingested and a        *)
(* report appears only for an account allowed to recruit, a report only   *)
(* after an ingested job and only the signed-in account's own, and only a  *)
(* sign-out or an admin's visit to the console clears them; late answers,  *)
(* failures and picks change nothing.                                      *)
Abstract == INSTANCE UploadAbstract
                WITH jobProcessed <- jobUploaded, report <- results

ImplementsUploadAbstract == Abstract!Spec

=============================================================================
