--------------------------- MODULE CleanerClaims ---------------------------
(***************************************************************************)
(* What the command's help and its guide say of the cleaner, and what      *)
(* Cleaner shows the code not to guarantee.                                *)
(***************************************************************************)
EXTENDS Cleaner

\* docs/commands/cleanup.md:70-71: "The command will check if all jobs in that
\* run are completed before proceeding with deletion."  When GitHub gives no
\* answer the cleaner proceeds, and takes the instances of a running job.
SweepSparesRunningJob ==
  [][job = "running" /\ cleaner' # cleaner => live \subseteq live']_sweepVars

=============================================================================
