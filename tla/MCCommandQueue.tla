--------------------------- MODULE MCCommandQueue ---------------------------
(* An instance of CommandQueue for TLC.                                    *)
EXTENDS CommandQueue

MCLanes == {"cron-nested", "hook-dispatch", "session:a"}
MCScoped == {"session:a"}
TwoPriorities == {0, 1}

\* Only the last entry chooses its priority.
OneUrgent ==
  \A e \in Entries \ {MaxEntries} : entry[e].state # "new" => entry[e].priority = 0
=============================================================================
