-------------------------- MODULE SparkAvailability --------------------------
(***************************************************************************)
(* spark_execution_availability.py: two files under .ai-workflow that all  *)
(* runs of a repository share.  One remembers that Spark needs the host    *)
(* environment, the other is a circuit breaker that holds the last Spark   *)
(* outcome of ONE mode.  Both are replaced atomically, read without a      *)
(* lock, and ignored once they are older than their time to live: a record *)
(* that is too old is NoFile here.                                         *)
(***************************************************************************)
CONSTANT Modes              \* Spark modes: task-card-audit, ...

VARIABLES hostCache,        \* spark-execution-availability.json
          circuit           \* spark-circuit-breaker.json

sparkVars == <<hostCache, circuit>>

NoFile == [status |-> "missing"]

\* preference(): every known state asks for the host, also the one that says
\* the host is suspected to be unavailable.
CachedHost == hostCache # NoFile

\* circuit(): a record of another mode does not open it.
CircuitOpen(mode) == circuit = [status |-> "open", mode |-> mode]

HostFile(status) == [status |-> status]
CircuitFile(mode, ok) == [status |-> IF ok THEN "closed" ELSE "open", mode |-> mode]

\* Time passes: a record outlives its time to live.
ExpireHost == hostCache # NoFile /\ hostCache' = NoFile /\ UNCHANGED circuit
ExpireCircuit == circuit # NoFile /\ circuit' = NoFile /\ UNCHANGED hostCache
=============================================================================
