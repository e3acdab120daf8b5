-------------------------- MODULE MCBotLifecycle --------------------------
(* Instances of BotLifecycle for TLC: Init restricted to the tables that   *)
(* tell the properties apart.                                              *)
EXTENDS FleetRefinement, TLC

CONSTANTS s1, o1, x1

\* Rows an earlier run may have left: a running one whose order is live, a
\* paused one of a manual launch, a closed one whose order was cancelled.
OldBot(status, ext, health) ==
    [sym |-> s1, status |-> status, paused |-> status = "paused", ext |-> ext,
     health |-> health]

OldRows == {None, OldBot("running", x1, "GREEN"), OldBot("paused", None, "RED"),
            OldBot("closed", x1, "RED")}

\* At most one old row, and no order but its own.
OneOldRow ==
    /\ up = FALSE
    /\ \E b \in OldRows :
          /\ rows = [o \in Oids |-> IF o = o1 THEN b ELSE None]
          /\ orders = [x \in Orders |->
                IF b = None \/ x # b.ext THEN "absent"
                ELSE IF b.status = "closed" THEN "cancelled" ELSE "live"]
    /\ jobs = {}
    /\ tasks = [t \in Tasks |-> Idle]
    /\ placed = {}
    /\ unscheduled = {}

MCSpec == OneOldRow /\ [][Next]_vars
MCFairSpec == MCSpec /\ \A t \in Tasks : WF_vars(Step(t))

===========================================================================
