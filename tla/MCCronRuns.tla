----------------------------- MODULE MCCronRuns -----------------------------
(* Small instances of CronRuns for TLC. *)
EXTENDS CronRuns

\* A task that runs once, a recurring one that stops at its limit, and one
\* that has no limit within the bounds.
MCTasks ==
  {[kind |-> "once", maxRuns |-> 1, fixed |-> FALSE],
   [kind |-> "cron", maxRuns |-> 1, fixed |-> TRUE],
   [kind |-> "cron", maxRuns |-> 2, fixed |-> FALSE]}
=============================================================================
