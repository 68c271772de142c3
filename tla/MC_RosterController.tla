------------------------ MODULE MC_RosterController ------------------------
(* Small instance of RosterController: the signed-in admin, one candidate *)
(* and one recruiter.                                                      *)
EXTENDS RosterController

CONSTANTS me, cand, rec

MCUsers == {me, cand, rec}

MCInitRole == [u \in MCUsers |->
                  IF u = me THEN "admin"
                  ELSE IF u = rec THEN "recruiter" ELSE "candidate"]

=============================================================================
