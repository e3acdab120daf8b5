------------------------- MODULE BulletinRefinement -------------------------
(* HealthMonitor seen as a Bulletin: between its message and the UPDATE of *)
(* the row, a check that found another status carries the news of it.      *)
EXTENDS HealthMonitor

ASSUME NoNews == None \notin [status : HealthStatus, heard : BOOLEAN]

News ==
    IF /\ check.pc \in {"record", "snapshot", "update"}
       /\ check.alerts # {}
       /\ check.status # health
    THEN [status |-> check.status, heard |-> ~check.lost]
    ELSE None

B == INSTANCE Bulletin WITH
        Statuses <- HealthStatus, First <- Green,
        row <- health, chat <- told, news <- News

\* The health checks, with their debounced and lost messages, failing writes,
\* skipped runs, restarts and the timers launches start over, implement the
\* Bulletin: no recovery, no debounced repeat and no restart between message
\* and UPDATE lets the row change in silence.
ImplementsBulletin == B!Spec

=============================================================================
