--------------------------- MODULE MigrationRoutes ---------------------------
(***************************************************************************)
(* The /api/v1/migration routes of one node, over the migration engine     *)
(* that they own.  Starting a migration asks for leadership; cancelling an *)
(* operation and looking at the operations does not.  Of the two handlers  *)
(* named getMigrationStatus the second one replaces the first, so that the *)
(* status of one migration is answered with the page about all of them.    *)
(***************************************************************************)
EXTENDS MigrationEngine, FiniteSets

CONSTANT NoOp  \* an id that no operation has

ASSUME RouteAssumption == NoOp \notin Op

VARIABLES
    leads,  \* the node accepts writes
    page,   \* the last status page
    answer  \* the last answer to a request about one operation

routes == <<leads, page, answer>>
routeVars == <<vars, routes>>

Tell(route, code, op) == answer' = [route |-> route, code |-> code, op |-> op]

-----------------------------------------------------------------------------
(* What the engine reports.                                                *)

Known == {o \in Op : status[o] # "none"}
CountIn(states) == Cardinality({o \in Op : status[o] \in states})

\* getStatistics; the rate of success is completed by total.
Statistics ==
    [total |-> Cardinality(Known), completed |-> CountIn({"completed"}),
     failed |-> CountIn({"failed"})]

\* Mutant: what waits for the last delay is not active any more.
ActiveBeforeCleanup == CountIn(InProgress \ {"cleaning_up"})

\* An operation that is cancelled is neither active nor completed nor failed.
Active == CountIn(InProgress)

Page == [status |-> IF Active > 0 THEN "active" ELSE "ready",
         active |-> Active, stats |-> Statistics]

InitRoutes ==
    /\ Init
    /\ leads = FALSE
    /\ page = Page
    /\ answer = [route |-> "none", code |-> 0, op |-> NoOp]

-----------------------------------------------------------------------------
(* Requests.                                                               *)

\* The route makes a plan of one shard, whose size it makes up, and executes
\* it: a repeated request is another operation.
StartMigration(o, size) ==
    /\ leads
    /\ status[o] = "none"
    /\ ExecuteMigrationPlan({o}, [x \in {o} |-> size])
    /\ Tell("start", 200, o)
    /\ UNCHANGED <<leads, page>>

\* The body lacks something, the node does not lead, or the engine is stopped.
RefuseStart ==
    /\ \/ Tell("start", 400, NoOp)
       \/ ~leads /\ Tell("start", 503, NoOp)
       \/ leads /\ ~isRunning /\ Tell("start", 500, NoOp)
    /\ UNCHANGED <<vars, leads, page>>

\* Mutant: only one cancellation is granted.
CancelOnce(o) ==
    /\ \/ status[o] # "cancelled" /\ CancelOperation(o) /\ Tell("cancel", 200, o)
       \/ /\ status[o] \in {"none", "completed", "failed", "cancelled"}
          /\ Tell("cancel", 400, IF o \in Known THEN o ELSE NoOp)
          /\ UNCHANGED vars
    /\ UNCHANGED <<leads, page>>

Cancel(o) ==
    /\ \/ CancelOperation(o) /\ Tell("cancel", 200, o)
       \/ /\ status[o] \in {"none", "completed", "failed"}
          /\ Tell("cancel", 400, IF o \in Known THEN o ELSE NoOp)
          /\ UNCHANGED vars
    /\ UNCHANGED <<leads, page>>

\* The cluster manager's cancelMigration, a placeholder, finds nothing.
CancelMigration ==
    /\ Tell("cancelMigration", IF leads THEN 404 ELSE 503, NoOp)
    /\ UNCHANGED <<vars, leads, page>>

GetOperation(o) ==
    /\ IF o \in Known THEN Tell("operation", 200, o) ELSE Tell("operation", 404, NoOp)
    /\ UNCHANGED <<vars, leads, page>>

GetMigrationStatus ==
    /\ page' = Page
    /\ UNCHANGED <<vars, leads, answer>>

-----------------------------------------------------------------------------
\* The node becomes the leader, as NodeServer has every started node do.
Lead == ~leads /\ leads' = TRUE /\ UNCHANGED <<vars, page, answer>>

\* What the engine does by itself, and through the methods no route calls.
EngineStep ==
    /\ \/ Start \/ Stop
       \/ \E new \in SUBSET (Op \ Known) : \E size \in [new -> Sizes] : ExecuteMigrationPlan(new, size)
       \/ \E o \in Op : DelayEnds(o)
    /\ UNCHANGED routes

RoutesNext ==
    \/ Lead \/ EngineStep
    \/ \E o \in Op :
        \/ \E size \in Sizes : StartMigration(o, size)
        \/ Cancel(o) \/ GetOperation(o)
    \/ RefuseStart \/ CancelMigration \/ GetMigrationStatus

RoutesSpec == InitRoutes /\ [][RoutesNext]_routeVars
FairRoutesSpec == RoutesSpec /\ \A o \in Op : WF_vars(DelayEnds(o))

-----------------------------------------------------------------------------
(* Properties.                                                             *)

\* The stages in which performMigration is at work on an operation.
AtWork == {o \in Op : stage[o] \in InProgress}

\* Between two delays the page can be asked for at any time: it counts as
\* completed the finished work and no other, and misses of the work under way
\* exactly what a client cancelled, for which "ready" may be said too early.
PageMissesOnlyTheCancelled ==
    /\ Statistics.completed = Cardinality({o \in Op : stage[o] = "completed"})
    /\ Active = Cardinality({o \in AtWork : status[o] # "cancelled"})
    /\ Page.status = "ready" => \A o \in AtWork : status[o] = "cancelled"

\* A cancellation of an operation is refused only when the work is done: who
\* retries it after an answer that was lost is granted it again, until then.
RefusedCancelMeansDone ==
    answer.route = "cancel" /\ answer.code = 400 /\ answer.op # NoOp
        => stage[answer.op] = "completed"
=============================================================================
