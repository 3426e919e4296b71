------------------------------- MODULE Series -------------------------------
(***************************************************************************)
(* What the storage engine promises about one metric, without head block,  *)
(* log or chunks: a set of durable points that only grows, and, while the  *)
(* database is open, a set of points that a query can find.  A point can   *)
(* be found a moment before it is durable (and is gone if the process      *)
(* stops then); opening the database makes exactly the durable points      *)
(* available again.                                                        *)
(***************************************************************************)
EXTENDS FiniteSets

CONSTANT Points

VARIABLES
    stored,     \* the durable points
    open,       \* the database serves requests
    view        \* the points a query can find, {} when it is not open

seriesVars == <<stored, open, view>>

SeriesInit ==
    /\ stored = {}
    /\ open = FALSE
    /\ view = {}

\* A new point is applied in memory.  There is one such point at a time.
Apply(p) ==
    /\ open /\ view = stored
    /\ p \notin stored
    /\ view' = view \cup {p}
    /\ UNCHANGED <<stored, open>>

\* It becomes durable; only now is the PUT acknowledged.
Commit(p) ==
    /\ open
    /\ view = stored \cup {p}
    /\ stored' = stored \cup {p}
    /\ UNCHANGED <<open, view>>

Close ==
    /\ open
    /\ open' = FALSE /\ view' = {}
    /\ UNCHANGED stored

Open ==
    /\ ~ open
    /\ open' = TRUE /\ view' = stored
    /\ UNCHANGED stored

SeriesNext == Close \/ Open \/ \E p \in Points : Apply(p) \/ Commit(p)

SeriesSpec == SeriesInit /\ [][SeriesNext]_seriesVars
=============================================================================
