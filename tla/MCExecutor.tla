----------------------------- MODULE MCExecutor -----------------------------
(* Two routes that compete for a dedup map of one entry, and two sends.     *)
EXTENDS Executor

CONSTANTS r1, r2

MCRoutes == {r1, r2}

\* Blind sends after a flip from DRY_RUN in JITO_ONLY mode and live on all
\* channels; the slow path live with and without JITO_ONLY.
MCConfigs == {[fast |-> TRUE, jitoOnly |-> TRUE, dry |-> TRUE],
              [fast |-> TRUE, jitoOnly |-> FALSE, dry |-> FALSE],
              [fast |-> FALSE, jitoOnly |-> TRUE, dry |-> FALSE],
              [fast |-> FALSE, jitoOnly |-> FALSE, dry |-> FALSE]}
=============================================================================
