----------------------- MODULE RosterControllerProofs -----------------------
(***************************************************************************)
(* Proofs about RosterController for every set of accounts, every initial *)
(* roles and every bound on the requests in flight.                        *)
(***************************************************************************)
EXTENDS RosterController, TLAPS

USE ConstantsAssumption

(* The request kinds that change the accounts.                             *)
Mutations == {"assign", "revoke", "delete"}

(* Facts about the requests the page builds and the backend serves.        *)
LEMMA ListShapes ==
    ASSUME NEW f \in Filters, NEW srv \in Rows
    PROVE  /\ NoRows \in Rows
           /\ Listed(srv, f) \in Rows
           /\ ListRequest(f) \in Requests
  BY DEF Rows, NoRows, Listed, ListRequest, Requests, Roles, Absent

LEMMA MutationShape ==
    ASSUME NEW k \in Mutations, NEW u \in Users, roleFilter \in Filters
    PROVE  MutationRequest(k, u) \in Requests
  BY DEF Rows, NoRows, MutationRequest, Requests, Mutations, Roles, Absent

LEMMA ServedShapes ==
    ASSUME NEW r \in Requests, NEW ok \in BOOLEAN, NEW rows \in Rows
    PROVE  /\ [r EXCEPT !.phase = "served", !.ok = ok] \in Requests
           /\ [r EXCEPT !.phase = "served", !.ok = ok, !.rows = rows]
                \in Requests
  BY DEF Requests

(* A served mutation writes a role or Absent.                              *)
LEMMA EffectShape ==
    ASSUME NEW r \in Requests, r.kind # "list"
    PROVE  /\ Effect(r) \in Roles \cup {Absent}
           /\ Effect(r) # "admin"
  BY DEF Requests, Effect, Roles, Absent

-----------------------------------------------------------------------------

(* Every step of the console or the backend keeps the variables typed.    *)
LEMMA TypeStep == TypeOK /\ [Next]_vars => TypeOK'
<1> SUFFICES ASSUME TypeOK, [Next]_vars PROVE TypeOK'
  OBVIOUS
<1> USE DEF TypeOK
<1>1. CASE Refresh
  BY <1>1, ListShapes DEF Refresh, FetchUsers
<1>2. ASSUME NEW f \in Filters, ChangeFilter(f) PROVE TypeOK'
  BY <1>2, ListShapes DEF ChangeFilter, FetchUsers
<1>3. ASSUME NEW u \in Users, NEW k \in Mutations,
             /\ error' = FALSE /\ success' = FALSE
             /\ net' = net \cup {MutationRequest(k, u)}
             /\ UNCHANGED <<server, users, roleFilter, loading>>
      PROVE TypeOK'
  BY <1>3, MutationShape
<1>4. ASSUME NEW u \in Users, HandleAssignRecruiter(u) PROVE TypeOK'
  BY <1>4, <1>3 DEF HandleAssignRecruiter, Mutations
<1>5. ASSUME NEW u \in Users, HandleRevokeRecruiter(u) PROVE TypeOK'
  BY <1>5, <1>3 DEF HandleRevokeRecruiter, Mutations
<1>6. ASSUME NEW u \in Users, HandleDeleteUser(u) PROVE TypeOK'
  BY <1>6, <1>3 DEF HandleDeleteUser, Mutations
<1>7. ASSUME NEW r \in net, ServeList(r) PROVE TypeOK'
  <2>1. r \in Requests /\ r.filter \in Filters
    BY DEF Requests
  <2>2. Listed(server, r.filter) \in Rows
    BY <2>1, ListShapes
  <2>3. QED
    BY <1>7, <2>1, <2>2, ServedShapes DEF ServeList
<1>8. ASSUME NEW r \in net,
             ServeMutation(r) \/ ServeFailure(r) \/ ServeAppliedAnswerLost(r)
      PROVE TypeOK'
  <2>1. r \in Requests
    OBVIOUS
  <2>2. server' \in Rows
    BY <1>8, <2>1, EffectShape DEF ServeMutation, ServeFailure,
       ServeAppliedAnswerLost, Rows
  <2>3. net' \in SUBSET Requests
    BY <1>8, <2>1, ServedShapes DEF ServeMutation, ServeFailure,
       ServeAppliedAnswerLost, Applies
  <2>4. QED
    BY <1>8, <2>2, <2>3 DEF ServeMutation, ServeFailure,
       ServeAppliedAnswerLost
<1>9. ASSUME NEW r \in net, FetchUsersAnswered(r) PROVE TypeOK'
  BY <1>9 DEF FetchUsersAnswered, Requests
<1>10. ASSUME NEW r \in net, MutationAnswered(r) PROVE TypeOK'
  <2>1. r.filter \in Filters
    BY DEF Requests
  <2>2. ListRequest(r.filter) \in Requests
    BY <2>1, ListShapes
  <2>3. CASE r.ok
    BY <1>10, <2>2, <2>3 DEF MutationAnswered, FetchUsers
  <2>4. CASE ~r.ok
    BY <1>10, <2>4 DEF MutationAnswered
  <2>5. QED
    BY <2>3, <2>4
<1>11. CASE UNCHANGED vars
  BY <1>11 DEF vars
<1>12. QED
  BY <1>1, <1>2, <1>4, <1>5, <1>6, <1>7, <1>8, <1>9, <1>10, <1>11
     DEF Next, AdminActs, BackendServes, AnswerArrives

(* The specification keeps every variable in its type (TypeOK).           *)
THEOREM TypeCorrect == Spec => []TypeOK
<1>1. Init => TypeOK
  BY ListShapes DEF Init, TypeOK, Rows, Roles, Absent, Filters
<1>2. QED
  BY <1>1, TypeStep, PTL DEF Spec

-----------------------------------------------------------------------------
(* AdminsSurvive is not inductive: the backend deletes whatever account a *)
(* delete request names, so no delete in flight may name an admin, and     *)
(* that holds because the delete button is offered only on rows that do   *)
(* not show an admin, and no roster the page holds or will receive shows   *)
(* an admin as anything but an admin.  Assign and revoke need no such fact:*)
(* the backend applies them only to candidates and recruiters, and no      *)
(* account other than an admin ever becomes one.                           *)
NoNewAdmins ==
    \A u \in Users : InitRole[u] # "admin" => server[u] # "admin"

AdminRowsFaithful ==
    \A u \in Users : InitRole[u] = "admin" =>
        /\ users[u] \in {"admin", Absent}
        /\ \A r \in net : r.rows[u] \in {"admin", Absent}

MutationsSpareAdmins ==
    \A r \in net : r.kind # "list" =>
        /\ r.target \in Users
        /\ r.kind = "delete" => InitRole[r.target] # "admin"

IInv ==
    /\ TypeOK
    /\ AdminsSurvive
    /\ NoNewAdmins
    /\ AdminRowsFaithful
    /\ MutationsSpareAdmins

LEMMA IInvInit == Init => IInv
<1> SUFFICES ASSUME Init PROVE IInv
  OBVIOUS
<1>1. TypeOK
  BY TypeCorrect, ListShapes DEF Init, TypeOK, Rows, Roles, Absent, Filters
<1>2. QED
  BY <1>1 DEF Init, IInv, AdminsSurvive, NoNewAdmins, AdminRowsFaithful,
     MutationsSpareAdmins, NoRows, ListRequest

(* A list the backend serves shows each account with its role or not at  *)
(* all.                                                                     *)
LEMMA ListedRow ==
    ASSUME NEW srv, NEW f, NEW u \in Users
    PROVE  Listed(srv, f)[u] \in {srv[u], Absent}
  BY DEF Listed

(* The steps that do not touch the accounts, the roster shown or the      *)
(* requests' kinds, targets and rows keep the strengthening.               *)
LEMMA IInvStep == IInv /\ [Next]_vars => IInv'
<1> SUFFICES ASSUME IInv, [Next]_vars PROVE IInv'
  OBVIOUS
<1>0. TypeOK'
  BY TypeStep DEF IInv
<1> USE DEF IInv
<1> DEFINE Rest == NoNewAdmins /\ AdminRowsFaithful /\ MutationsSpareAdmins
<1>1. ASSUME NEW pending, NEW f,
             pending \subseteq net, FetchUsers(pending, f),
             UNCHANGED <<server, users>>
      PROVE  AdminsSurvive' /\ Rest'
  BY <1>1 DEF FetchUsers, ListRequest, NoRows, Absent, AdminsSurvive,
     NoNewAdmins, AdminRowsFaithful, MutationsSpareAdmins
<1>2. CASE Refresh
  BY <1>0, <1>1, <1>2 DEF Refresh
<1>3. ASSUME NEW f \in Filters, ChangeFilter(f) PROVE IInv'
  BY <1>0, <1>1, <1>3 DEF ChangeFilter
<1>4. ASSUME NEW u \in Users, NEW k \in Mutations,
             k = "delete" => InitRole[u] # "admin",
             net' = net \cup {MutationRequest(k, u)},
             UNCHANGED <<server, users>>
      PROVE  IInv'
  BY <1>0, <1>4 DEF MutationRequest, NoRows, Absent, AdminsSurvive,
     NoNewAdmins, AdminRowsFaithful, MutationsSpareAdmins
<1>5. ASSUME NEW u \in Users, HandleAssignRecruiter(u) PROVE IInv'
  BY <1>4, <1>5 DEF HandleAssignRecruiter, Mutations
<1>6. ASSUME NEW u \in Users, HandleRevokeRecruiter(u) PROVE IInv'
  BY <1>4, <1>6 DEF HandleRevokeRecruiter, Mutations
<1>7. ASSUME NEW u \in Users, HandleDeleteUser(u) PROVE IInv'
  <2>1. InitRole[u] # "admin"
    BY <1>7 DEF HandleDeleteUser, DeleteOffered, AdminRowsFaithful
  <2>2. QED
    BY <1>4, <1>7, <2>1 DEF HandleDeleteUser, Mutations
<1>8. ASSUME NEW r \in net, ServeList(r) PROVE IInv'
  <2>1. \A u \in Users : InitRole[u] = "admin" =>
          Listed(server, r.filter)[u] \in {"admin", Absent}
    BY ListedRow DEF AdminsSurvive
  <2> DEFINE s == [r EXCEPT !.phase = "served", !.ok = TRUE,
                             !.rows = Listed(server, r.filter)]
  <2>2. s.kind = r.kind /\ s.target = r.target
        /\ s.rows = Listed(server, r.filter)
    BY DEF TypeOK, Requests
  <2>3. net' = (net \ {r}) \cup {s} /\ UNCHANGED <<server, users>>
    BY <1>8 DEF ServeList
  <2>4. AdminRowsFaithful' /\ MutationsSpareAdmins'
    BY <2>1, <2>2, <2>3 DEF AdminRowsFaithful, MutationsSpareAdmins
  <2>5. QED
    BY <1>0, <2>3, <2>4 DEF AdminsSurvive, NoNewAdmins
<1>9. ASSUME NEW r \in net, ServeFailure(r) PROVE IInv'
  <2> DEFINE s == [r EXCEPT !.phase = "served", !.ok = FALSE]
  <2>1. s.kind = r.kind /\ s.target = r.target /\ s.rows = r.rows
    BY DEF TypeOK, Requests
  <2>2. net' = (net \ {r}) \cup {s} /\ UNCHANGED <<server, users>>
    BY <1>9 DEF ServeFailure
  <2>3. AdminRowsFaithful'
    BY <2>1, <2>2 DEF AdminRowsFaithful
  <2>4. MutationsSpareAdmins'
    BY <2>1, <2>2 DEF MutationsSpareAdmins
  <2>5. AdminsSurvive' /\ NoNewAdmins'
    BY <2>2 DEF AdminsSurvive, NoNewAdmins
  <2>6. QED
    BY <1>0, <2>3, <2>4, <2>5
<1>10. ASSUME NEW r \in net, r.kind # "list", Applies(r),
              server' = [server EXCEPT ![r.target] = Effect(r)]
       PROVE  AdminsSurvive' /\ NoNewAdmins'
  <2>1. r.target \in Users /\ r \in Requests
    BY <1>10 DEF MutationsSpareAdmins, TypeOK
  <2>2. InitRole[r.target] # "admin"
    <3>1. CASE r.kind = "delete"
      BY <1>10, <3>1 DEF MutationsSpareAdmins
    <3>2. CASE r.kind # "delete"
      BY <1>10, <2>1, <3>2 DEF Applies, AdminsSurvive
    <3>3. QED
      BY <3>1, <3>2
  <2>3. Effect(r) # "admin"
    BY <1>10, <2>1, EffectShape
  <2>4. QED
    BY <1>10, <2>1, <2>2, <2>3 DEF AdminsSurvive, NoNewAdmins, TypeOK,
       Rows
<1>11. ASSUME NEW r \in net, ServeMutation(r) \/ ServeAppliedAnswerLost(r)
       PROVE  IInv'
  <2>1. AdminsSurvive' /\ NoNewAdmins'
    <3>1. CASE Applies(r)
      BY <1>10, <1>11, <3>1 DEF ServeMutation, ServeAppliedAnswerLost
    <3>2. CASE ~Applies(r)
      BY <1>11, <3>2 DEF ServeMutation, ServeAppliedAnswerLost,
         AdminsSurvive, NoNewAdmins
    <3>3. QED
      BY <3>1, <3>2
  <2>2. AdminRowsFaithful' /\ MutationsSpareAdmins'
    <3>1. PICK ok \in BOOLEAN :
            net' = (net \ {r}) \cup {[r EXCEPT !.phase = "served", !.ok = ok]}
      BY <1>11 DEF ServeMutation, ServeAppliedAnswerLost, Applies
    <3> DEFINE s == [r EXCEPT !.phase = "served", !.ok = ok]
    <3>2. s.kind = r.kind /\ s.target = r.target /\ s.rows = r.rows
      BY DEF TypeOK, Requests
    <3>3. UNCHANGED users
      BY <1>11 DEF ServeMutation, ServeAppliedAnswerLost
    <3>4. QED
      BY <3>1, <3>2, <3>3 DEF AdminRowsFaithful, MutationsSpareAdmins
  <2>3. QED
    BY <1>0, <2>1, <2>2
<1>12. ASSUME NEW r \in net, FetchUsersAnswered(r) PROVE IInv'
  BY <1>0, <1>12 DEF FetchUsersAnswered, AdminsSurvive, NoNewAdmins,
     AdminRowsFaithful, MutationsSpareAdmins
<1>13. ASSUME NEW r \in net, MutationAnswered(r) PROVE IInv'
  <2>1. CASE r.ok
    BY <1>0, <1>1, <1>13, <2>1 DEF MutationAnswered
  <2>2. CASE ~r.ok
    BY <1>0, <1>13, <2>2 DEF MutationAnswered, AdminsSurvive, NoNewAdmins,
       AdminRowsFaithful, MutationsSpareAdmins
  <2>3. QED
    BY <2>1, <2>2
<1>14. CASE UNCHANGED vars
  BY <1>0, <1>14 DEF vars, AdminsSurvive, NoNewAdmins, AdminRowsFaithful,
     MutationsSpareAdmins
<1>15. QED
  BY <1>2, <1>3, <1>5, <1>6, <1>7, <1>8, <1>9, <1>11, <1>12, <1>13, <1>14
     DEF Next, AdminActs, BackendServes, AnswerArrives

-----------------------------------------------------------------------------

(* No run of the console, however stale its rows, closures and refetches, *)
(* and whatever answers are lost, demotes or deletes an admin account       *)
(* (AdminsSurvive; the delete button's guard at Admin.js 218-225).         *)
THEOREM AdminsSurviveHolds == Spec => []AdminsSurvive
<1>1. IInv => AdminsSurvive
  BY DEF IInv
<1>2. QED
  BY <1>1, IInvInit, IInvStep, PTL DEF Spec

=============================================================================
