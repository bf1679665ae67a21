---------------------------- MODULE MCJobQueue -----------------------------
(* TLC instances of JobQueue: who owns the lanes, which bucket a job is in. *)
EXTENDS JobQueue

\* Lanes 1 and 2 are of one process, lane 3 of another; or each of its own.
SharedProcess == [l \in Lane |-> IF l = 3 THEN "q" ELSE "p"]
OwnProcess == [l \in Lane |-> IF l = 1 THEN "p" ELSE "q"]

DistinctKeys == [j \in Job |-> j]
\* Jobs 1 and 2 are duplicates of each other.
PairedKeys == [j \in Job |-> IF j = 2 THEN 1 ELSE j]
OneBucket == [j \in Job |-> IF j \in Recurring THEN "system" ELSE "workspace"]

-----------------------------------------------------------------------------
\* Finitely many requests: only recurring rows are purged and made again. A
\* stream of requests of higher priority may starve a job while it lasts.
OnceSpec == Init /\ [][Next /\ \A j \in Job \ Recurring : ~Purge(j)]_vars /\ Fairness

=============================================================================
