------------------------- MODULE MCProcessSupervisor -------------------------
(* Small instances of ProcessSupervisor. *)
EXTENDS ProcessSupervisor

\* Spawning may fail, and a worker may escape its job.
AnyOutcome == AllOutcomes
\* Every worker that starts is inside its job.
ContainedOutcomes == {"fails", "ok"}
\* Nothing goes wrong.
OkOutcome == {"ok"}

=============================================================================
