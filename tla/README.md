# Formal model of the EAA Recruit frontend

TLA+ modules, TLC configurations and TLAPS proofs for the client-side
workflow logic in `src/frontend/src/` (React, ~730 lines). The system
ranks candidates in two stages: a job description is ingested, then a
batch of résumés is ranked against it. Access is gated by role. A second
page is an admin console for managing user roles.

## 1. Inventory

### Components

| Component | Source | State it keeps | Operations |
|---|---|---|---|
| Upload pipeline (Home page) | `pages/Home.js` | `jobFile`, `resumeFiles`, `jobUploaded`, `results`, `loading`, `message` (React `useState`) | pick a job file, pick résumé files, `handleJobUpload`, `handleResumeUpload` (each: send, await, then success / failure / `finally`) |
| Admin roster controller | `pages/Admin.js` | `users`, `loading`, `error`, `success`, `roleFilter` | `fetchUsers` (on mount, on filter change, on Refresh, after each successful mutation), `handleAssignRecruiter`, `handleRevokeRecruiter`, `handleDeleteUser` (after `window.confirm`) |
| Session and navigation | `components/Navbar.js`, plus `AuthContext` (not under `src/`) | the signed-in user, its token, and the flags `isAuthenticated`, `isRecruiter`, `isAdmin` | `handleLogout` (`logout()`, then `navigate('/signin')`); the Home link and, for admins only, the Admin link; sign-in |
| Legacy single-page workflow | `App.js` | the same hooks as Home | the same two handlers as Home, with no role gating and no bearer token |
| Result projection | render code in `Home.js`/`App.js` | none | shows the report: candidates in server order, the first five terms, `toFixed(3)` |
| Ranking service, user backend | not in this repository | the ingested job; the user accounts | the endpoints in spec §6 |

### How the components interact

- The session gates Home. Signed out, Home shows a sign-in prompt.
  Signed in as a candidate, it shows a notice. Only recruiters and
  admins get the workflow. Admin redirects anyone who is not an admin.
- Signing out from the Navbar navigates to `/signin`. That unmounts
  Home: its state is thrown away, and the answers to its pending
  requests are delivered to a dead component, where React ignores the
  `setState` calls.
- An admin can also leave Home without signing out: the Navbar's Admin
  link (rendered only when `isAdmin`, Navbar.js:25-27) routes to
  `/admin`, which unmounts Home, and its Home link mounts a fresh Home
  with every hook at its initial value. The workflow is lost within the
  same session. Spec §3 says `UploadState` is destroyed when its view
  unmounts. The Home link from `/` itself does not remount the page.
- Every handler `await`s a `fetch`. While a request is pending the page
  keeps working: any other handler can run before the answer is applied.
  Several requests can be pending at once, and their answers can arrive
  in any order.
- In Admin, a successful mutation calls `fetchUsers()`. That is the
  closure of the render where the button was clicked, so it lists with
  the filter selected at click time.

### What is hard here

- **Interleavings of user events and answers.** File pickers stay
  enabled during uploads. Refresh, the filter and row actions stay
  enabled while fetches or mutations are pending.
- **Answer ordering.** Admin does not guard `fetchUsers` with any flag,
  and the last answer to arrive wins.
- **Partial failure.** A mutation can succeed while its refetch fails.
  A 2xx answer can carry an unparsable body.
- **Stale state.** Stale closures capture an old filter. Row actions
  come from a roster that may be out of date. Answers can arrive after
  sign-out.
- **Liveness.** The spinner is released only in `finally`. Nothing has
  a timeout.

### Properties that make each component correct

- **Home:**
  - at most one request is in flight, and `loading` is set exactly while
    it is;
  - a report is shown only after a job was ingested on the page, and
    only to the account that requested it;
  - only a sign-out or an admin's visit to the console discards progress;
    a failure or a late answer never does;
  - the spinner is eventually released;
  - (spec §4.1) selections do not change during an upload.
- **Admin:**
  - admins are never deleted or demoted, even when answers are lost;
  - `loading` is eventually released;
  - (spec §3) the roster shown is the list for the current filter;
  - (spec §4.3) the error and success messages are mutually exclusive;
  - (spec §5) at most one mutation is in flight.

The hazards, each at the line where it bites, are listed in
`PROJECT.json` under `"hazards"`.

## 2. Plan

1. **`UploadPipeline`** (done): Home together with the session, with its
   proof module `UploadPipelineProofs`.
2. **`RosterController`** (done): Admin together with a backend
   modelled from the spec, including answers lost after the backend
   applied a mutation. Its proof module is `RosterControllerProofs`.
3. **`LegacyApp`** (done): App.js, as an `INSTANCE` of `UploadPipeline`
   with the role gate open.
4. **`UploadAbstract`** (done): the abstract upload workflow of spec
   §4.1. `UploadPipeline` implements it. TLC checks this and TLAPS
   proves it.
5. **`LegacyAppProofs`** (done): App.js's invariants, proved by reusing
   Home's proofs.
6. **Next:**
   - a ranking-service state for Home, so that an ingested job reported
     as failed (Home.js:40) and a report of a replaced job (Home.js:43)
     can be stated;
   - a property for spec §8's "the refetch after a mutation reflects
     it", once it is settled what it should mean under concurrent
     mutations.

## 3. Modules

### `UploadPipeline` (Home.js, Navbar.js)

- **State.** `session` is the signed-in account (or `NoUser`). The six
  Home hooks are the other state variables. `net` is the set of pending
  requests. Each request records its endpoint (`kind`), the account
  whose token it carries (`owner`), and `live`: whether the Home
  instance awaiting it is still mounted.
- **Actions.**
  - `Login` (AuthContext, modelled from the spec).
  - `HomeUnmounts`: what leaving the route `/` does to Home: every hook
    back to its initial value (the next mount), every pending request
    not live.
  - `Logout`: sign out, and Home unmounts.
  - `VisitAdmin`: for an admin, the Admin link and then the Home link,
    within the session; Home unmounts. It is one step because while
    `/admin` is shown Home has no handlers and every answer is already
    stale. Signing out from `/admin` is this step followed by `Logout`,
    with the same effect on Home.
  - `SelectJobFile`, `SelectResumeFiles`: the pickers' `onChange`.
    Cancelling the job picker gives `NoFile`.
  - `HandleJobUpload`, `HandleResumeUpload`: a handler up to its
    `await`, guarded by its button's `disabled` condition. Each click
    therefore has one answer.
  - `JobUploadSucceeds`, `JobUploadFails`, `ResumeUploadSucceeds`,
    `ResumeUploadFails`: the rest of each handler, including its
    `finally`.
  - `StaleAnswer`: an answer delivered to an unmounted page.
- **Abstraction.** Messages are reduced to their kind, and a report to
  the account that requested it.

### `RosterController` (Admin.js)

- **State.**
  - `server`: the backend's accounts, modelled from the spec.
  - `users`, `roleFilter`, `loading`, `error`, `success`: the page's
    hooks. Messages are reduced to "non-empty".
  - `net`: the pending requests. Each carries the filter of its
    handler's closure, a phase (`sent`, then `served`), the answer
    status, and the rows returned.
- **Actions.**
  - Page: `Refresh`, `ChangeFilter` (select plus effect),
    `HandleAssignRecruiter`, `HandleRevokeRecruiter`,
    `HandleDeleteUser`, `FetchUsersAnswered`, `MutationAnswered`.
  - Backend: `ServeList`, `ServeMutation`, `ServeFailure`, and
    `ServeAppliedAnswerLost`. The last one is the fault model: the
    backend commits the change, but the answer is lost. To the page
    that is indistinguishable from a failure.
- **Ordering.** Serving and answering are separate steps, so the
  backend can read or change accounts in any order relative to when the
  answers reach the page.

### `LegacyApp` (App.js)

- **State.** The same six hooks and `net` as Home, plus `caller`. That
  is a variable fixed to the anonymous `Caller`; it stands for Home's
  `session`, which App.js does not have.
- **Actions.** Each action is `Page!A` for the Home action `A`, where
  `Page == INSTANCE UploadPipeline WITH session <- caller, Accounts <-
  {Caller}, RoleOf <- [a \in {Caller} |-> "recruiter"]`.
  - The recruiter role makes `CanUseRecruitment` true. That models the
    missing gate: App.js renders the workflow to everyone.
  - There is no `Login`, `Logout` or `StaleAnswer`. App.js never
    navigates, so every answer reaches a mounted page.
- **Faithfulness.** App.js's handlers differ from Home's only by the
  Authorization header, which the model abstracts away.

### `UploadAbstract`

This is what the upload workflow promises (spec §3 `UploadState`,
§4.1). Its variables are `session`, `jobProcessed` and `report`. It has
five steps:

- `SignIn`;
- `SignOut`, which clears the workflow;
- `LeaveWorkflow`, which clears it within the session of an admin, the
  only role with another view to go to;
- `IngestJob`, for an account allowed to recruit;
- `Rank`, which produces the signed-in account's report once a job is
  processed.

`UploadPipeline` defines `Abstract == INSTANCE UploadAbstract WITH
jobProcessed <- jobUploaded, report <- results` and checks
`ImplementsUploadAbstract == Abstract!Spec`.

## 4. Runs

| Run | Checks | Result |
|---|---|---|
| `home_safety` (`MC_UploadPipeline.cfg`) | `TypeOK`, `SingleLiveRequest`, `ReportRequiresIngestedJob`, `ReportBelongsToSession`, `LoadingReleased`, `ImplementsUploadAbstract` | pass, 1,606 states |
| `home_selection_during_upload` | `SelectionFrozenWhileLoading` | violation: a file is picked while the job upload is pending (Home.js:137) |
| `legacy_app_safety` (`MC_LegacyApp.cfg`) | `TypeOK`, `SingleRequest`, `ReportRequiresIngestedJob`, `LoadingReleased` | pass, 144 states |
| `roster_safety` (`MC_RosterController.cfg`) | `TypeOK`, `AdminsSurvive`, `LoadingReleased` | pass, 668,796 states |
| `roster_stale_list` | `RosterMatchesFilterWhenIdle` | violation: filter changed during the mount fetch; the unfiltered list arrives last |
| `roster_messages` | `MessagesExclusive` | violation: a revoke succeeds, then a fetch fails |
| `roster_concurrent_mutations` | `SingleMutationInFlight` | violation: a revoke, then a second mutation, before either answers |

**Bounds.**

- Home uses three accounts: a recruiter, an admin and a candidate. This
  covers every branch of the gate and a sign-in by a different
  recruiter-capable account after a sign-out. It also uses two job
  files, two résumé files, and `MaxInFlight = 2`. Two is the least that
  allows a late answer from a previous mount to coexist with a live
  request.
- Admin uses the signed-in admin, one candidate and one recruiter. This
  gives every row action and every filter a non-empty answer. It also
  uses `MaxInFlight = 2`, the least that allows two fetches, or a fetch
  and a mutation, to race.
- App.js uses the same files and `MaxInFlight = 2`. It has no second
  account: the page has no session.
- Pending requests are a set, so two identical pending requests
  coincide. For Home this loses nothing, since at most one request is
  live and stale ones are ignored. For Admin two identical fetches, or
  a double click on one row action, count as one request; no passing
  property depends on how many copies are in flight, but the violation
  runs find their traces with distinct requests.

**Fairness.**

- No fairness is assumed for the user, who may stop at any time.
- Weak fairness is assumed for the ranking service and the backend
  answering (`ServiceAnswers`; `BackendServes`, `AnswerArrives`). The
  code has no timeout, so the liveness properties hold only if the
  network answers. Spec §5 makes the same assumption.

Each property of a passing run has a mutant in `PROJECT.json`: a
plausible bug that TLC finds. Examples include a resume button without
its `loading` guard, a `setLoading(false)` moved from `finally` into
`try`, a sign-out without the navigation, and a delete button offered
on every row.

## 5. Proofs (`UploadPipelineProofs`, checked by tlapm)

- `TypeCorrect`: `Spec => []TypeOK`, from the step lemma `TypeStep`.
- `SingleLiveRequestHolds`, `ReportRequiresIngestedJobHolds`,
  `ReportBelongsToSessionHolds`: `Spec => []P` for each of these
  invariants.

The three invariants are not inductive on their own. A report is set by
the answer to a live résumé request, so whatever must hold of the report
must already hold of that request. The inductive invariant `IInv`
therefore adds two conjuncts to `TypeOK` and the three properties:

- `LiveOwned`: every live request was sent by the account now signed
  in, and someone is signed in.
- `LiveResumesAfterJob`: a live résumé request exists only once
  `jobUploaded` is set.

`Login` keeps `IInv` because no request is live while signed out.
`Logout` and `VisitAdmin` keep it because they make every request
stale and remount Home empty. The send
actions keep it because they require that no request is live. The
proofs assume only `ConstantsAssumption`: `RoleOf` is a role map, and
the sentinels are distinct from real values.

- `RefinementHolds`: `Spec => ImplementsUploadAbstract`. Home's steps
  map onto the abstract steps as follows:
  - `Login` and `Logout` are `SignIn` and `SignOut`;
  - `VisitAdmin` is `LeaveWorkflow` (its guard is the Admin link's
    `isAdmin`);
  - `JobUploadSucceeds` is `IngestJob`;
  - `ResumeUploadSucceeds` is `Rank`;
  - every other step leaves `session`, `jobUploaded` and `results`
    alone.

  The lemma `RefinementStep` proves this under `RInv`, which adds two
  conjuncts to `IInv`:
  - `Gated`: while a request is live, the signed-in account may
    recruit. The gate was open at the click, and the account cannot
    change while the request is live. So `IngestJob`'s and `Rank`'s
    role guard holds when the answer arrives.
  - `SignedOutClean`: signed out, no job is ingested. So `SignIn`
    starts from a clean workflow.

  TLC checked `RInv` on the `home_safety` instance first.

## 5a. Proofs (`LegacyAppProofs`, checked by tlapm)

App.js's handlers are Home's. `LegacyAppProofs` instantiates
`UploadPipelineProofs` with the same substitution that `LegacyApp`
uses for `UploadPipeline`.

1. `ActionsAreHome` proves that each App.js action is the Home action
   it stands for. The two instances are unfolded down to their shared
   definitions, including `FiniteSets`' `Cardinality`.
2. `NextIsHomeNext` proves that every App.js step is a step of that
   Home.
3. `HomeAssumption` proves that Home's `ConstantsAssumption` follows
   from `LegacyAssumption`.
4. `InitIInv` proves that App.js mounts in a state of Home's `IInv`.
5. Home's `IInvStep` therefore gives `[]IInv` for App.js, and from it:
   - `TypeCorrect`;
   - `SingleRequestHolds`;
   - `ReportRequiresIngestedJobHolds`.

## 5b. Proofs (`RosterControllerProofs`, checked by tlapm)

- `TypeCorrect`: `Spec => []TypeOK`, from the step lemma `TypeStep`
  and shape lemmas for the requests the page builds and the backend
  serves.
- `AdminsSurviveHolds`: `Spec => []AdminsSurvive`.

`AdminsSurvive` is not inductive. The backend deletes whatever account
a delete names, so the proof needs to know that no delete in flight
names an admin. That in turn rests on what the rows show. `IInv` adds
three conjuncts:

- `NoNewAdmins`: no account that started as a non-admin becomes an
  admin.
- `AdminRowsFaithful`: in the roster shown, and in every list in
  flight, an admin appears as an admin or not at all. So the delete
  guard `users[u] # "admin"` excludes every admin, however stale the
  rows are.
- `MutationsSpareAdmins`: every mutation in flight names an account,
  and no delete names an admin.

TLC checked `IInv` as an invariant of `roster_safety` before it was
proved. The proofs assume only `ConstantsAssumption`.

**Left to TLC.**

- The liveness properties (`LoadingReleased` in every run) need
  fairness and `ENABLED`, which the prover does not handle. So they are
  model-checked only.
- The violation runs state what the spec asks and the code does not
  do. There is nothing to prove there.

Every other property of a passing run is stated by a theorem.

## 6. Not modelled

- Layout, styling, the wording of messages, and the routing table.
- The ranking algorithm and document parsing. These are external.
- AuthContext's token handling beyond who is signed in. It is not under
  `src/`.
- The result projection (report rendering) keeps and changes no state.
  What the spec asks of it, determinism and display order, holds by the
  shape of a pure render.
- The ranking service's own state. The job it holds is not modelled
  (see the hazards at Home.js:40 and Home.js:43).
