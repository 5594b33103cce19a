--------------------------- MODULE AccessInvariant ---------------------------
(***************************************************************************)
(* The inductive invariant behind NoNodeForgotten. That a node which       *)
(* differs is owed a sync depends on what handlers under way hold: a       *)
(* handler that looked up the nodes before its change must know every node *)
(* its change concerns, one that names an access row must not bring back a *)
(* row that is gone, and the user being created must be nobody else's.     *)
(***************************************************************************)
EXTENDS AccessHandlers

\* A request that is about to create its user, and one that names a user.
Creating(q) == q.op = "create" /\ q.pc \in {"node", "change"}

NamesUser(q) == q.pc # "idle" /\ q.op \notin {"syncNode", "syncAll"}

\* Ids are not used twice: nobody but its creator names a user that is being created.
IdsAreNew ==
    /\ \A u \in Users : user[u].exists => u \in issued
    /\ \A r \in Requests :
          /\ NamesUser(req[r]) => req[r].u \in issued
          /\ Creating(req[r]) =>
                /\ ~user[req[r].u].exists
                /\ \A p \in Requests \ {r} : NamesUser(req[p]) => req[p].u # req[r].u

\* Access rows belong to users that exist (a foreign key, on delete cascade).
RowsHaveUsers == \A u \in Users : ~user[u].exists => AccessDetailForUser(u) = {}

\* Where each handler can be; an access id names one row.
StepFits(q) ==
    /\ q.pc = "nodesBefore" => q.op = "delete" \/ (q.op = "update" /\ q.ui)
    /\ q.pc = "node" => q.op \in {"create", "assign", "syncNode"}
    /\ q.pc = "row" => q.op \in {"accessOn", "accessOff"} /\ \A m, n \in q.todo : m = n
    /\ q.pc = "change" => q.op \in ChangeOps
    /\ q.pc = "nodesAfter" => ReadsNodesAfter(q) \/ q.op \in {"syncUser", "syncAll"}

\* What a handler about to write knows: the nodes looked up before, but for those
\* assigned since, cover the rows of its user; an access id found is of a row that is
\* still there.
KnowsNodes(q) ==
    q.pc = "change" =>
        /\ q.op \in {"update", "delete"} /\ ~ReadsNodesAfter(q) =>
              AccessDetailForUser(q.u) \subseteq q.todo \cup q.late
        /\ q.op \in {"accessOn", "accessOff"} =>
              q.cur \subseteq q.todo /\ q.cur \subseteq AccessDetailForUser(q.u)

HandlersFit ==
    /\ IdsAreNew /\ RowsHaveUsers
    /\ \A r \in Requests : StepFits(req[r]) /\ KnowsNodes(req[r])

AccessInv == TypeOK /\ HandlersFit /\ NoNodeForgotten
=============================================================================
