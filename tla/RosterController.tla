-------------------------- MODULE RosterController --------------------------
(***************************************************************************)
(* The admin console (src/frontend/src/pages/Admin.js): the signed-in     *)
(* admin Me lists the accounts (GET /admin/users?role=...), filters them   *)
(* by role, assigns or revokes the recruiter role and deletes accounts.    *)
(* Every handler awaits a fetch; the console keeps working meanwhile, so   *)
(* several requests can be in flight and their answers can arrive in any   *)
(* order.  A request goes through two steps: the backend serves it (reads *)
(* or changes the accounts) and later its answer reaches the page.  The    *)
(* backend is not under src/: its actions follow the spec's table of       *)
(* endpoints (spec 6).  The page is rendered only for an admin (isAdmin);  *)
(* a non-admin is redirected before any fetch, so the model starts on the  *)
(* admin's page.                                                           *)
(***************************************************************************)
EXTENDS Naturals, FiniteSets

CONSTANTS
    Users,        \* accounts known to the backend (model values)
    Me,           \* the signed-in admin (useAuth().user)
    InitRole,     \* the role of each account when the page mounts
    NoTarget,     \* target of a request that is about no single account
    MaxInFlight   \* bound on requests not yet answered (model bound)

Roles == {"candidate", "recruiter", "admin"}

(* A row of the roster: the account's role, or Absent when not listed.    *)
Absent == "absent"

Rows == [Users -> Roles \cup {Absent}]

(* The <select> options; "" (All Roles) is written "all".                 *)
Filters == {"all", "candidate", "recruiter", "admin"}

ASSUME ConstantsAssumption ==
    /\ Me \in Users
    /\ InitRole \in [Users -> Roles]
    /\ InitRole[Me] = "admin"
    /\ NoTarget \notin Users
    /\ MaxInFlight \in Nat \ {0}

VARIABLES
    server,       \* the backend's accounts: role, or Absent once deleted
    users,        \* useState users: the roster shown
    roleFilter,   \* useState roleFilter
    loading,      \* useState loading
    error,        \* useState error, abstracted to "is not empty"
    success,      \* useState success, abstracted to "is not empty"
    net           \* requests not yet answered

vars == <<server, users, roleFilter, loading, error, success, net>>

(* A request.  filter is the roleFilter its handler's closure saw; rows is *)
(* the list the backend answered with; ok whether the answer is 2xx.      *)
Requests == [kind   : {"list", "assign", "revoke", "delete"},
             filter : Filters,
             target : Users \cup {NoTarget},
             phase  : {"sent", "served"},
             ok     : BOOLEAN,
             rows   : Rows]

NoRows == [u \in Users |-> Absent]

(* What GET /admin/users?role=f returns: the accounts, of role f if given. *)
Listed(srv, f) ==
    [u \in Users |-> IF srv[u] # Absent /\ (f = "all" \/ srv[u] = f)
                        THEN srv[u] ELSE Absent]

ListRequest(f) ==
    [kind |-> "list", filter |-> f, target |-> NoTarget, phase |-> "sent",
     ok |-> FALSE, rows |-> NoRows]

MutationRequest(k, u) ==
    [kind |-> k, filter |-> roleFilter, target |-> u, phase |-> "sent",
     ok |-> FALSE, rows |-> NoRows]

(* The page mounts with loading = true and its effect calls fetchUsers()   *)
(* with the initial filter "".                                             *)
Init ==
    /\ server = InitRole
    /\ users = NoRows
    /\ roleFilter = "all"
    /\ loading = TRUE
    /\ error = FALSE
    /\ success = FALSE
    /\ net = {ListRequest("all")}

-----------------------------------------------------------------------------
(* Handlers of the page.  A handler that sends a request is bounded by    *)
(* MaxInFlight; the answer that sends the refetch is not.                  *)

(* fetchUsers() up to its await: setLoading(true); setError('').  It is    *)
(* not guarded by loading: the Refresh button is always enabled.           *)
FetchUsers(pending, f) ==
    /\ loading' = TRUE
    /\ error' = FALSE
    /\ net' = pending \cup {ListRequest(f)}

(* Refresh: onClick={fetchUsers}, the closure of the current render.       *)
Refresh ==
    /\ Cardinality(net) < MaxInFlight
    /\ FetchUsers(net, roleFilter)
    /\ UNCHANGED <<server, users, roleFilter, success>>

(* onChange of the <select>: setRoleFilter; the new fetchUsers identity    *)
(* re-runs the effect, which fetches with the new filter.                  *)
ChangeFilter(f) ==
    /\ f # roleFilter
    /\ Cardinality(net) < MaxInFlight
    /\ roleFilter' = f
    /\ FetchUsers(net, f)
    /\ UNCHANGED <<server, users, success>>

(* The actions of a row are rendered only when !loading, and only for the  *)
(* row's role: Assign Recruiter for a candidate, Revoke for a recruiter.   *)
HandleAssignRecruiter(u) ==
    /\ ~loading
    /\ users[u] = "candidate"
    /\ Cardinality(net) < MaxInFlight
    /\ error' = FALSE
    /\ success' = FALSE
    /\ net' = net \cup {MutationRequest("assign", u)}
    /\ UNCHANGED <<server, users, roleFilter, loading>>

HandleRevokeRecruiter(u) ==
    /\ ~loading
    /\ users[u] = "recruiter"
    /\ Cardinality(net) < MaxInFlight
    /\ error' = FALSE
    /\ success' = FALSE
    /\ net' = net \cup {MutationRequest("revoke", u)}
    /\ UNCHANGED <<server, users, roleFilter, loading>>

(* Mutant: the delete button rendered for every listed row.              *)
DeleteOfferedToAll(u) ==
    users[u] # Absent

(* Delete is offered when u.id !== user?.id && u.role !== 'admin'; the    *)
(* handler goes on only once window.confirm is accepted (a cancel changes  *)
(* nothing and is a stuttering step).                                      *)
DeleteOffered(u) ==
    /\ users[u] # Absent
    /\ u # Me
    /\ users[u] # "admin"

HandleDeleteUser(u) ==
    /\ ~loading
    /\ DeleteOffered(u)
    /\ Cardinality(net) < MaxInFlight
    /\ error' = FALSE
    /\ success' = FALSE
    /\ net' = net \cup {MutationRequest("delete", u)}
    /\ UNCHANGED <<server, users, roleFilter, loading>>

(* Mutant: setUsers(response) instead of setUsers(await response.json()). *)
FetchUsersAnsweredStoringBody(r) ==
    /\ r.kind = "list" /\ r.phase = "served"
    /\ net' = net \ {r}
    /\ IF r.ok THEN users' = r /\ error' = error
               ELSE users' = users /\ error' = TRUE
    /\ loading' = FALSE
    /\ UNCHANGED <<server, roleFilter, success>>

(* Mutant: setLoading(false) in the try, not in the finally.             *)
FetchUsersAnsweredKeepingLoading(r) ==
    /\ r.kind = "list" /\ r.phase = "served"
    /\ net' = net \ {r}
    /\ IF r.ok THEN users' = r.rows /\ error' = error /\ loading' = FALSE
               ELSE users' = users /\ error' = TRUE /\ loading' = loading
    /\ UNCHANGED <<server, roleFilter, success>>

(* The rest of fetchUsers: setUsers(data) or setError, then the finally.   *)
FetchUsersAnswered(r) ==
    /\ r.kind = "list" /\ r.phase = "served"
    /\ net' = net \ {r}
    /\ IF r.ok THEN users' = r.rows /\ error' = error
               ELSE users' = users /\ error' = TRUE
    /\ loading' = FALSE
    /\ UNCHANGED <<server, roleFilter, success>>

(* The rest of a mutation handler: on 2xx setSuccess and fetchUsers() of   *)
(* the handler's own render, hence with the filter it saw; otherwise the   *)
(* catch sets the error and nothing is refetched.                          *)
MutationAnswered(r) ==
    /\ r.kind # "list" /\ r.phase = "served"
    /\ IF r.ok
         THEN /\ success' = TRUE
              /\ FetchUsers(net \ {r}, r.filter)
         ELSE /\ error' = TRUE
              /\ net' = net \ {r}
              /\ UNCHANGED <<loading, success>>
    /\ UNCHANGED <<server, users, roleFilter>>

-----------------------------------------------------------------------------
(* The backend (spec-modelled).  A request is served once; a transport or *)
(* server failure answers non-2xx without touching the accounts.          *)

ServeList(r) ==
    /\ r.kind = "list" /\ r.phase = "sent"
    /\ net' = (net \ {r}) \cup
              {[r EXCEPT !.phase = "served", !.ok = TRUE,
                         !.rows = Listed(server, r.filter)]}
    /\ UNCHANGED <<server, users, roleFilter, loading, error, success>>

(* The role change or deletion a mutation asks for, and whether it applies:*)
(* assign needs a candidate, revoke a recruiter, delete an existing user.  *)
Applies(r) ==
    \/ r.kind = "assign" /\ server[r.target] = "candidate"
    \/ r.kind = "revoke" /\ server[r.target] = "recruiter"
    \/ r.kind = "delete" /\ server[r.target] # Absent

Effect(r) ==
    CASE r.kind = "assign" -> "recruiter"
      [] r.kind = "revoke" -> "candidate"
      [] r.kind = "delete" -> Absent

ServeMutation(r) ==
    /\ r.kind # "list" /\ r.phase = "sent"
    /\ IF Applies(r)
         THEN server' = [server EXCEPT ![r.target] = Effect(r)]
         ELSE server' = server
    /\ net' = (net \ {r}) \cup {[r EXCEPT !.phase = "served", !.ok = Applies(r)]}
    /\ UNCHANGED <<users, roleFilter, loading, error, success>>

ServeFailure(r) ==
    /\ r.phase = "sent"
    /\ net' = (net \ {r}) \cup {[r EXCEPT !.phase = "served", !.ok = FALSE]}
    /\ UNCHANGED <<server, users, roleFilter, loading, error, success>>

(* The fault the page cannot tell from ServeFailure: the backend commits   *)
(* the change, then the answer is lost (connection reset, gateway timeout) *)
(* and fetch rejects or reports non-2xx.                                   *)
ServeAppliedAnswerLost(r) ==
    /\ r.kind # "list" /\ r.phase = "sent"
    /\ Applies(r)
    /\ server' = [server EXCEPT ![r.target] = Effect(r)]
    /\ net' = (net \ {r}) \cup {[r EXCEPT !.phase = "served", !.ok = FALSE]}
    /\ UNCHANGED <<users, roleFilter, loading, error, success>>

-----------------------------------------------------------------------------

AdminActs ==
    \/ Refresh
    \/ \E f \in Filters : ChangeFilter(f)
    \/ \E u \in Users : HandleAssignRecruiter(u)
    \/ \E u \in Users : HandleRevokeRecruiter(u)
    \/ \E u \in Users : HandleDeleteUser(u)

BackendServes ==
    \E r \in net : \/ ServeList(r) \/ ServeMutation(r) \/ ServeFailure(r)
                   \/ ServeAppliedAnswerLost(r)

AnswerArrives ==
    \E r \in net : FetchUsersAnswered(r) \/ MutationAnswered(r)

Next == AdminActs \/ BackendServes \/ AnswerArrives

(* The admin owes nothing; every request is eventually served and its     *)
(* answer eventually applied (the code has no timeout: spec 5).            *)
Spec == Init /\ [][Next]_vars
             /\ WF_vars(BackendServes) /\ WF_vars(AnswerArrives)

-----------------------------------------------------------------------------
(* Properties.                                                             *)

TypeOK ==
    /\ server \in Rows
    /\ users \in Rows
    /\ roleFilter \in Filters
    /\ loading \in BOOLEAN
    /\ error \in BOOLEAN
    /\ success \in BOOLEAN
    /\ net \in SUBSET Requests

(* Spec 4.3 and 8: deleting the signed-in admin, or any admin, is never   *)
(* available, whatever the filter and however stale the roster shown: no *)
(* sequence of console actions removes or demotes an admin account.       *)
AdminsSurvive ==
    \A u \in Users : InitRole[u] = "admin" => server[u] = "admin"

(* Spec 5: the loading flag is always released: once the roster shows     *)
(* "Loading users...", it eventually shows the table again.               *)
LoadingReleased == loading ~> ~loading

(* Spec 3: the roster shown is the backend's list for the current filter: *)
(* once no request is in flight and the last fetch did not fail, users is *)
(* what GET /admin/users?role=roleFilter returns.                          *)
RosterMatchesFilterWhenIdle ==
    net = {} /\ ~error => users = Listed(server, roleFilter)

(* Spec 4.3: the error and success messages are mutually exclusive.       *)
MessagesExclusive == ~(error /\ success)

(* Spec 5: a fresh mutating action is not allowed while one is pending.   *)
SingleMutationInFlight ==
    \A r1, r2 \in net : r1.kind # "list" /\ r2.kind # "list" => r1 = r2

=============================================================================
