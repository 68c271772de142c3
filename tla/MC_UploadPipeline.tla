------------------------- MODULE MC_UploadPipeline -------------------------
(* Small instance of UploadPipeline: a recruiter, an admin and a candidate *)
(* account, two job files and two resume files.                            *)
EXTENDS UploadPipeline

CONSTANTS alice, bob, carol, j1, j2, r1, r2

MCAccounts == {alice, bob, carol}

MCRoleOf == [a \in MCAccounts |->
                IF a = carol THEN "candidate"
                ELSE IF a = bob THEN "admin" ELSE "recruiter"]

MCJobFiles == {j1, j2}

MCResumeFiles == {r1, r2}

=============================================================================
