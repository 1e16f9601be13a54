------------------------------- MODULE MCResults -------------------------------
(* Results with two PIs. A second export comes after at most one import and no
   setting, and is the last thing that happens besides reads. *)
EXTENDS Results

\* The first PI always has readings, the second not always; unit readings of all PIs, or of one.
SomeRounds == {<<{1, 2}, {1, 2}>>, <<{1}, {2}>>, <<{1}, {}>>}

Exported == Len(logs)
MCNext ==
  \/ Exported < 2 /\ Import
  \/ Exported < 2 /\ Set
  \/ (Exported = 1 => version <= 2 /\ setting = 0) /\ StartExport
  \/ Read \/ Check \/ Analyse \/ Hook \/ Wps \/ Return \/ WriteFile

MCSpec == Init /\ [][MCNext]_vars
=============================================================================
