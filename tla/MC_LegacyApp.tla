---------------------------- MODULE MC_LegacyApp ----------------------------
(* Small instance of LegacyApp: two job files and two resume files.        *)
EXTENDS LegacyApp

CONSTANTS j1, j2, r1, r2

MCJobFiles == {j1, j2}

MCResumeFiles == {r1, r2}

=============================================================================
