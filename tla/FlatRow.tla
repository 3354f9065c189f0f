------------------------------ MODULE FlatRow ------------------------------
(***************************************************************************)
(* The spreadsheet row of a profile: to_flat (src/app/models/flat.py),     *)
(* with the positions only.                                                *)
(***************************************************************************)
EXTENDS Integers, Sequences, SequencesExt

CONSTANT MaxJobs  \* MAX_JOBS

\* The current position, if there is one, goes into the unnumbered columns.
Promoted(experience) ==
    LET current == SelectInSeq(experience, LAMBDA job : job.dates.current)
    IN IF current # 0 THEN <<experience[current]>>
       ELSE IF experience # <<>> THEN <<Head(experience)>> ELSE <<>>

Columns(experience) ==
    SubSeq(experience, 1, IF Len(experience) < MaxJobs THEN Len(experience) ELSE MaxJobs)

ToFlat(experience) ==
    [job |-> Promoted(experience), jobs |-> Columns(experience), count |-> Len(experience)]
=============================================================================
