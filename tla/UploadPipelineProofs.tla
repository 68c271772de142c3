------------------------ MODULE UploadPipelineProofs ------------------------
(***************************************************************************)
(* Proofs about UploadPipeline for every value of the constants.           *)
(***************************************************************************)
EXTENDS UploadPipeline, TLAPS

(* A live request is one whose answer a mounted Home awaits.               *)
LiveRequests == {r \in net : r.live}

(* The inductive invariant.  SingleLiveRequest and the two properties      *)
(* about the report are not inductive alone: a report is set by the       *)
(* answer of a live resume request, so what holds of the report must       *)
(* already hold of every live request (it was sent by the session now      *)
(* signed in, and a resume request only after an ingested job).           *)
LiveOwned ==
    \A r \in net : r.live => session # NoUser /\ r.owner = session

LiveResumesAfterJob ==
    \A r \in net : r.live /\ r.kind = "resumes" => jobUploaded

IInv ==
    /\ TypeOK
    /\ SingleLiveRequest
    /\ LiveOwned
    /\ LiveResumesAfterJob
    /\ ReportRequiresIngestedJob
    /\ ReportBelongsToSession

-----------------------------------------------------------------------------

(* Every step of the specification keeps the variables well typed.        *)
LEMMA TypeStep == TypeOK /\ [Next]_vars => TypeOK'
<1> SUFFICES ASSUME TypeOK, [Next]_vars PROVE TypeOK'
  OBVIOUS
<1>1. ASSUME NEW a \in Accounts, Login(a) PROVE TypeOK'
  BY <1>1 DEF Login, TypeOK, homeVars
<1>2. CASE Logout \/ VisitAdmin
  BY <1>2 DEF Logout, VisitAdmin, HomeUnmounts, TypeOK, Requests, Messages
<1>3. ASSUME NEW f \in JobFiles \cup {NoFile}, SelectJobFile(f)
      PROVE TypeOK'
  BY <1>3 DEF SelectJobFile, TypeOK
<1>4. ASSUME NEW s \in SUBSET ResumeFiles, SelectResumeFiles(s)
      PROVE TypeOK'
  BY <1>4 DEF SelectResumeFiles, TypeOK
<1>5. CASE HandleJobUpload
  <2>1. session \in Accounts
    BY <1>5 DEF HandleJobUpload, CanUseRecruitment, TypeOK
  <2>2. [kind |-> "job", owner |-> session, live |-> TRUE] \in Requests
    BY <2>1 DEF Requests
  <2>3. QED
    BY <1>5, <2>2 DEF HandleJobUpload, TypeOK, Messages
<1>6. CASE HandleResumeUpload
  <2>1. session \in Accounts
    BY <1>6 DEF HandleResumeUpload, CanUseRecruitment, TypeOK
  <2>2. [kind |-> "resumes", owner |-> session, live |-> TRUE] \in Requests
    BY <2>1 DEF Requests
  <2>3. QED
    BY <1>6, <2>2 DEF HandleResumeUpload, TypeOK, Messages
<1>7. ASSUME NEW r \in net, Answer(r) PROVE TypeOK'
  <2>1. r \in Requests /\ [owner |-> r.owner] \in Reports
    BY DEF TypeOK, Requests, Reports
  <2>2. CASE JobUploadSucceeds(r)
    BY <2>2 DEF JobUploadSucceeds, TypeOK, Messages
  <2>3. CASE JobUploadFails(r)
    BY <2>3 DEF JobUploadFails, TypeOK, Messages
  <2>4. CASE ResumeUploadSucceeds(r)
    BY <2>1, <2>4 DEF ResumeUploadSucceeds, TypeOK, Messages
  <2>5. CASE ResumeUploadFails(r)
    BY <2>5 DEF ResumeUploadFails, TypeOK, Messages
  <2>6. CASE StaleAnswer(r)
    BY <2>6 DEF StaleAnswer, TypeOK, homeVars
  <2>7. QED
    BY <1>7, <2>2, <2>3, <2>4, <2>5, <2>6 DEF Answer
<1>8. CASE UNCHANGED vars
  BY <1>8 DEF vars, TypeOK
<1>9. QED
  BY <1>1, <1>2, <1>3, <1>4, <1>5, <1>6, <1>7, <1>8
     DEF Next, UserActs, ServiceAnswers

(* The specification keeps every variable in its type (TypeOK).           *)
THEOREM TypeCorrect == Spec => []TypeOK
<1>1. Init => TypeOK
  BY DEF Init, HomeInit, TypeOK, Messages
<1>2. QED
  BY <1>1, TypeStep, PTL DEF Spec

-----------------------------------------------------------------------------

(* The inductive invariant holds initially and is kept by every step.      *)
LEMMA IInvInit == Init => IInv
  BY DEF Init, HomeInit, IInv, TypeOK, Messages, SingleLiveRequest,
         LiveOwned, LiveResumesAfterJob, ReportRequiresIngestedJob,
         ReportBelongsToSession

(* Every step, of the user, of the service or a stutter, keeps IInv.      *)
LEMMA IInvStep == IInv /\ [Next]_vars => IInv'
<1> SUFFICES ASSUME IInv, [Next]_vars PROVE IInv'
  OBVIOUS
<1>0. TypeOK'
  BY TypeStep DEF IInv
<1> USE DEF IInv
<1>1. ASSUME NEW a \in Accounts, Login(a) PROVE IInv'
  <2>1. ~\E r \in net : r.live
    BY <1>1 DEF Login, LiveOwned
  <2>2. results = NoReport
    BY <1>1 DEF Login, ReportBelongsToSession
  <2>3. QED
    BY <1>0, <1>1, <2>1, <2>2
       DEF Login, homeVars, SingleLiveRequest, LiveOwned, LiveResumesAfterJob,
           ReportRequiresIngestedJob, ReportBelongsToSession
<1>2. CASE Logout \/ VisitAdmin
  <2>1. \A q \in net' : ~q.live
    BY <1>2 DEF Logout, VisitAdmin, HomeUnmounts, TypeOK, Requests
  <2>2. QED
    BY <1>0, <1>2, <2>1
       DEF Logout, VisitAdmin, HomeUnmounts, SingleLiveRequest, LiveOwned, LiveResumesAfterJob,
           ReportRequiresIngestedJob, ReportBelongsToSession
<1>3. ASSUME NEW f \in JobFiles \cup {NoFile}, SelectJobFile(f) PROVE IInv'
  BY <1>0, <1>3
     DEF SelectJobFile, SingleLiveRequest, LiveOwned, LiveResumesAfterJob,
         ReportRequiresIngestedJob, ReportBelongsToSession
<1>4. ASSUME NEW s \in SUBSET ResumeFiles, SelectResumeFiles(s) PROVE IInv'
  BY <1>0, <1>4
     DEF SelectResumeFiles, SingleLiveRequest, LiveOwned, LiveResumesAfterJob,
         ReportRequiresIngestedJob, ReportBelongsToSession
<1>5. CASE HandleJobUpload
  <2> DEFINE new == [kind |-> "job", owner |-> session, live |-> TRUE]
  <2>1. \A r \in net : ~r.live
    BY <1>5 DEF HandleJobUpload, SingleLiveRequest
  <2>2. net' = net \cup {new} /\ session # NoUser
    BY <1>5 DEF HandleJobUpload, CanUseRecruitment
  <2>3. SingleLiveRequest'
    <3>1. new.live /\ new \in net' /\ loading'
      BY <1>5, <2>2 DEF HandleJobUpload
    <3>2. \A r1, r2 \in net' : r1.live /\ r2.live => r1 = r2
      BY <2>1, <2>2
    <3>3. QED
      BY <3>1, <3>2 DEF SingleLiveRequest
  <2>4. LiveOwned' /\ LiveResumesAfterJob'
    BY <1>5, <2>1, <2>2 DEF HandleJobUpload, LiveOwned, LiveResumesAfterJob
  <2>5. QED
    BY <1>0, <1>5, <2>3, <2>4
       DEF HandleJobUpload, ReportRequiresIngestedJob, ReportBelongsToSession
<1>6. CASE HandleResumeUpload
  <2> DEFINE new == [kind |-> "resumes", owner |-> session, live |-> TRUE]
  <2>1. \A r \in net : ~r.live
    BY <1>6 DEF HandleResumeUpload, SingleLiveRequest
  <2>2. net' = net \cup {new} /\ session # NoUser /\ jobUploaded
    BY <1>6 DEF HandleResumeUpload, CanUseRecruitment
  <2>3. SingleLiveRequest'
    <3>1. new.live /\ new \in net' /\ loading'
      BY <1>6, <2>2 DEF HandleResumeUpload
    <3>2. \A r1, r2 \in net' : r1.live /\ r2.live => r1 = r2
      BY <2>1, <2>2
    <3>3. QED
      BY <3>1, <3>2 DEF SingleLiveRequest
  <2>4. LiveOwned' /\ LiveResumesAfterJob'
    BY <1>6, <2>1, <2>2 DEF HandleResumeUpload, LiveOwned, LiveResumesAfterJob
  <2>5. QED
    BY <1>0, <1>6, <2>3, <2>4
       DEF HandleResumeUpload, ReportRequiresIngestedJob, ReportBelongsToSession
<1>7. ASSUME NEW r \in net, Answer(r) PROVE IInv'
  <2>1. ASSUME r.live PROVE \A q \in net \ {r} : ~q.live
    BY <2>1 DEF SingleLiveRequest
  <2>2. CASE JobUploadSucceeds(r)
    BY <1>0, <2>1, <2>2
       DEF JobUploadSucceeds, SingleLiveRequest, LiveOwned, LiveResumesAfterJob,
           ReportRequiresIngestedJob, ReportBelongsToSession
  <2>3. CASE JobUploadFails(r)
    BY <1>0, <2>1, <2>3
       DEF JobUploadFails, SingleLiveRequest, LiveOwned, LiveResumesAfterJob,
           ReportRequiresIngestedJob, ReportBelongsToSession
  <2>4. CASE ResumeUploadSucceeds(r)
    <3>1. jobUploaded /\ session # NoUser /\ r.owner = session
      BY <2>4 DEF ResumeUploadSucceeds, LiveOwned, LiveResumesAfterJob
    <3>2. QED
      BY <1>0, <2>1, <2>4, <3>1
         DEF ResumeUploadSucceeds, SingleLiveRequest, LiveOwned,
             LiveResumesAfterJob, ReportRequiresIngestedJob,
             ReportBelongsToSession
  <2>5. CASE ResumeUploadFails(r)
    BY <1>0, <2>1, <2>5
       DEF ResumeUploadFails, SingleLiveRequest, LiveOwned, LiveResumesAfterJob,
           ReportRequiresIngestedJob, ReportBelongsToSession
  <2>6. CASE StaleAnswer(r)
    BY <1>0, <2>6
       DEF StaleAnswer, homeVars, SingleLiveRequest, LiveOwned,
           LiveResumesAfterJob, ReportRequiresIngestedJob,
           ReportBelongsToSession
  <2>7. QED
    BY <1>7, <2>2, <2>3, <2>4, <2>5, <2>6 DEF Answer
<1>8. CASE UNCHANGED vars
  BY <1>0, <1>8
     DEF vars, SingleLiveRequest, LiveOwned, LiveResumesAfterJob,
         ReportRequiresIngestedJob, ReportBelongsToSession
<1>9. QED
  BY <1>1, <1>2, <1>3, <1>4, <1>5, <1>6, <1>7, <1>8
     DEF Next, UserActs, ServiceAnswers

(* The page never has two requests in flight, and shows its spinner        *)
(* exactly while one is (Home.js buttons' disabled guards and finally).    *)
THEOREM SingleLiveRequestHolds == Spec => []SingleLiveRequest
<1>1. IInv => SingleLiveRequest
  BY DEF IInv
<1>2. QED
  BY <1>1, IInvInit, IInvStep, PTL DEF Spec

(* A ranking report is shown only after a job was ingested on that page.   *)
THEOREM ReportRequiresIngestedJobHolds == Spec => []ReportRequiresIngestedJob
<1>1. IInv => ReportRequiresIngestedJob
  BY DEF IInv
<1>2. QED
  BY <1>1, IInvInit, IInvStep, PTL DEF Spec

(* A report shown was requested with the token of the account signed in.   *)
THEOREM ReportBelongsToSessionHolds == Spec => []ReportBelongsToSession
<1>1. IInv => ReportBelongsToSession
  BY DEF IInv
<1>2. QED
  BY <1>1, IInvInit, IInvStep, PTL DEF Spec

-----------------------------------------------------------------------------
(* The refinement of UploadAbstract needs two more facts.  A live answer   *)
(* is applied for the account that sent it, and the gate was open then;    *)
(* as that account stays signed in while the request is live, the gate is *)
(* still open when the answer arrives (Gated).  Signing in starts from a   *)
(* clean workflow, because signing out unmounted Home (SignedOutClean).    *)
Gated == (\E r \in net : r.live) => CanUseRecruitment

SignedOutClean == session = NoUser => ~jobUploaded

RInv == IInv /\ Gated /\ SignedOutClean

LEMMA RInvInit == Init => RInv
  BY IInvInit DEF Init, HomeInit, RInv, Gated, SignedOutClean

(* Every step keeps RInv: IInv by IInvStep, the two new facts action by    *)
(* action.                                                                  *)
LEMMA RInvStep == RInv /\ [Next]_vars => RInv'
<1> SUFFICES ASSUME RInv, [Next]_vars PROVE RInv'
  OBVIOUS
<1>0. IInv'
  BY IInvStep DEF RInv
<1> USE DEF RInv
<1> DEFINE LiveIn(S) == \E r \in S : r.live
<1>1. ASSUME NEW a \in Accounts, Login(a) PROVE RInv'
  <2>1. ~LiveIn(net)
    BY <1>1 DEF Login, IInv, LiveOwned
  <2>2. QED
    BY <1>0, <1>1, <2>1, ConstantsAssumption
       DEF Login, homeVars, Gated, SignedOutClean
<1>2. CASE Logout \/ VisitAdmin
  <2>1. ~LiveIn(net')
    BY <1>2 DEF Logout, VisitAdmin, HomeUnmounts, IInv, TypeOK, Requests
  <2>2. QED
    BY <1>0, <1>2, <2>1 DEF Logout, VisitAdmin, HomeUnmounts, Gated,
       SignedOutClean
<1>3. ASSUME NEW f \in JobFiles \cup {NoFile}, SelectJobFile(f) PROVE RInv'
  BY <1>0, <1>3 DEF SelectJobFile, Gated, SignedOutClean, CanUseRecruitment
<1>4. ASSUME NEW x \in SUBSET ResumeFiles, SelectResumeFiles(x) PROVE RInv'
  BY <1>0, <1>4 DEF SelectResumeFiles, Gated, SignedOutClean,
     CanUseRecruitment
<1>5. CASE HandleJobUpload
  BY <1>0, <1>5 DEF HandleJobUpload, Gated, SignedOutClean, CanUseRecruitment
<1>6. CASE HandleResumeUpload
  BY <1>0, <1>6 DEF HandleResumeUpload, Gated, SignedOutClean,
     CanUseRecruitment
<1>7. ASSUME NEW r \in net, Answer(r) PROVE RInv'
  <2>1. net' = net \ {r} /\ session' = session
    BY <1>7 DEF Answer, JobUploadSucceeds, JobUploadFails,
       ResumeUploadSucceeds, ResumeUploadFails, StaleAnswer
  <2>2. Gated'
    BY <2>1 DEF Gated, CanUseRecruitment
  <2>3. jobUploaded' => jobUploaded \/ r.live
    BY <1>7 DEF Answer, JobUploadSucceeds, JobUploadFails,
       ResumeUploadSucceeds, ResumeUploadFails, StaleAnswer, homeVars
  <2>4. SignedOutClean'
    BY <2>1, <2>3 DEF SignedOutClean, IInv, LiveOwned
  <2>5. QED
    BY <1>0, <2>2, <2>4
<1>8. CASE UNCHANGED vars
  BY <1>0, <1>8 DEF vars, Gated, SignedOutClean, CanUseRecruitment
<1>9. QED
  BY <1>1, <1>2, <1>3, <1>4, <1>5, <1>6, <1>7, <1>8
     DEF Next, UserActs, ServiceAnswers

(* Every step of Home and its session is, on who is signed in, whether a  *)
(* job is ingested and which report is shown, a step of UploadAbstract or *)
(* leaves the three alone.                                                 *)
LEMMA RefinementStep ==
    RInv /\ [Next]_vars => [Abstract!Next]_(Abstract!abstractVars)
<1> SUFFICES ASSUME RInv, [Next]_vars
             PROVE  [Abstract!Next]_(Abstract!abstractVars)
  OBVIOUS
<1> USE DEF RInv
<1> DEFINE Same == UNCHANGED <<session, jobUploaded, results>>
<1>1. Same => [Abstract!Next]_(Abstract!abstractVars)
  BY DEF Abstract!abstractVars
<1>2. ASSUME NEW a \in Accounts, Login(a) PROVE Abstract!Next
  BY <1>2 DEF Login, homeVars, Abstract!Next, Abstract!SignIn
<1>3. CASE Logout
  BY <1>3 DEF Logout, HomeUnmounts, Abstract!Next, Abstract!SignOut
<1>10. CASE VisitAdmin
  BY <1>10 DEF VisitAdmin, HomeUnmounts, Abstract!Next,
     Abstract!LeaveWorkflow
<1>4. ASSUME NEW r \in net, r.live PROVE Abstract!MayRecruit(session)
  BY <1>4 DEF Gated, CanUseRecruitment, Abstract!MayRecruit
<1>5. ASSUME NEW r \in net, JobUploadSucceeds(r) PROVE Abstract!Next
  BY <1>4, <1>5 DEF JobUploadSucceeds, Abstract!Next, Abstract!IngestJob
<1>6. ASSUME NEW r \in net, ResumeUploadSucceeds(r) PROVE Abstract!Next
  <2>1. jobUploaded /\ r.owner = session
    BY <1>6 DEF ResumeUploadSucceeds, IInv, LiveOwned, LiveResumesAfterJob
  <2>2. QED
    BY <1>4, <1>6, <2>1 DEF ResumeUploadSucceeds, Abstract!Next,
       Abstract!Rank
<1>7. ASSUME NEW r \in net,
             JobUploadFails(r) \/ ResumeUploadFails(r) \/ StaleAnswer(r)
      PROVE  Same
  BY <1>7 DEF JobUploadFails, ResumeUploadFails, StaleAnswer, homeVars
<1>8. (\E f \in JobFiles \cup {NoFile} : SelectJobFile(f))
      \/ (\E x \in SUBSET ResumeFiles : SelectResumeFiles(x))
      \/ HandleJobUpload \/ HandleResumeUpload \/ UNCHANGED vars
      => Same
  BY DEF SelectJobFile, SelectResumeFiles, HandleJobUpload,
     HandleResumeUpload, vars
<1>9. QED
  BY <1>1, <1>2, <1>3, <1>5, <1>6, <1>7, <1>8, <1>10
     DEF Next, UserActs, ServiceAnswers, Answer

(* Home with its session implements UploadAbstract                         *)
(* (ImplementsUploadAbstract): a job is ingested and a report shown only   *)
(* for an account allowed to recruit, a report only after an ingested job *)
(* and only the signed-in account's own, and only the Navbar's sign-out,   *)
(* or an admin's visit to the console through its Admin link, clears them, *)
(* whatever picks, failures and late answers interleave.                   *)
THEOREM RefinementHolds == Spec => ImplementsUploadAbstract
<1>1. Init => Abstract!Init
  BY DEF Init, HomeInit, Abstract!Init
<1>2. QED
  BY <1>1, RInvInit, RInvStep, RefinementStep, PTL
     DEF Spec, ImplementsUploadAbstract, Abstract!Spec

=============================================================================
