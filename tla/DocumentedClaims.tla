--------------------------- MODULE DocumentedClaims ---------------------------
(***************************************************************************)
(* Sentences of the repository's documents, docstrings and comments about  *)
(* the job system, as properties.  The code does not keep any of these;    *)
(* the run of each shows how.                                              *)
(***************************************************************************)
EXTENDS JobSystem

\* docs/ARCHITECTURE.md: shortz_jobs is the "Pending job queue (FIFO)": a job
\* leaves it only when no job submitted earlier is left behind.  The code
\* pushes and pops at the same end.
DrainsFifo ==
  [][\A j \in Range(queue) \ Range(queue'), k \in Range(queue') : j < k]_vars

\* generate(): "if active jobs already exist, returns them without creating
\* new ones".  A job that was active when the request came in and still is
\* can be overlooked: it moves from the list read second to the list read
\* first while the handler reads them.
NoCreateBesideActive ==
  [][\A h \in Handlers :
       req[h].code = "none" /\ req'[h].code = "created" /\ req'[h].count = 1
         => req[h].before \intersect ActiveJobs = {}]_vars
=============================================================================
