----------------------------- MODULE MCStudioRuns -----------------------------
(* StudioRuns on a small instance.                                         *)
EXTENDS StudioRuns

CONSTANTS p1, m1, c1
=============================================================================
