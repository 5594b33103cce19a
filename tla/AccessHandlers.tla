---------------------------- MODULE AccessHandlers ----------------------------
(***************************************************************************)
(* The HTTP handlers that change who may use which node                    *)
(* (internal/http/handlers/handlers.go). A change is two things: rows in   *)
(* the database, and a sync of every node concerned. A handler does them   *)
(* one after the other, in several statements and calls, with other        *)
(* handlers in between; nothing records that a sync is still owed.         *)
(*                                                                         *)
(* Every statement and every SyncNode call is a step, except that the      *)
(* transaction that creates a user is one. Forms and JSON bodies are taken *)
(* as valid; what they say is chosen when the row is written. Credentials  *)
(* and the handlers that create, edit or delete nodes are left out, but    *)
(* for the switch that hides a node.                                       *)
(***************************************************************************)
EXTENDS UserPages

CONSTANTS
    Requests,      \* slots for requests
    Hidden,        \* nodes with enabled = false at first
    Planned,       \* nodes without an api_url
    MaxRequests,   \* bound: requests
    MaxEdits       \* bound: nodes switched on or off

ASSUME HandlersAssumption == MaxRequests \in Nat /\ MaxEdits \in Nat

VARIABLES
    req,           \* what each request is doing
    issued,        \* user ids given out; ids are random and never come back
    requested,     \* requests so far
    edits,         \* nodes switched so far
    behind         \* history: nodes that may differ from the rows, see Excuse

vars == <<now, user, access, host, serves, req, issued, requested, edits, behind>>

\* Changes of access, and syncs that an administrator asks for.
ChangeOps == {"create", "update", "delete", "enable", "disable",
              "assign", "unassign", "accessOn", "accessOff"}
SyncOps == {"syncUser", "syncNode", "syncAll"}

\* Those where the pages and the API do not take the same steps; a page stands for both in
\* the others, except that only pages have "delete", "accessOn" and "accessOff".
TwoHandlers == {"create", "update", "syncNode"}

\* Locals of a handler: the nodes still to be looked at, and those to be synced now. The
\* errors it collects for the answer are left out. "late" is history: nodes assigned to its
\* user between its lookup and its change.
Handlers == [pc: {"idle", "nodesBefore", "node", "row", "change", "nodesAfter", "sync"},
             op: ChangeOps \cup SyncOps, ui: BOOLEAN, u: Users,
             todo: SUBSET Nodes, cur: SUBSET Nodes, late: SUBSET Nodes]

TypeOK ==
    /\ UserAccessTypeOK
    /\ req \in [Requests -> Handlers]
    /\ issued \subseteq Users
    /\ requested \in 0..MaxRequests
    /\ edits \in 0..MaxEdits
    /\ behind \subseteq Nodes

At(r, step) == req[r].pc = step

Goto(r, state) == req' = [req EXCEPT ![r] = state]

\* Requests that have ended look alike, and syncs of nodes name no user.
AnyUser == CHOOSE u \in Users : TRUE

Idle == [pc |-> "idle", op |-> "syncAll", ui |-> TRUE, u |-> AnyUser,
         todo |-> {}, cur |-> {}, late |-> {}]

Answer(r) == Goto(r, Idle)

-----------------------------------------------------------------------------
(* What the nodes should serve, for the history variable *)

Granted(u, n) == user[u].exists /\ user[u].enabled /\ access[u][n] = "on"

\* Somebody is let in without a right to it, or kept out in spite of it. Users that have
\* expired are left to the expiry reconciler.
LetIn(u, n) == u \in serves[n] /\ ~Granted(u, n)
KeptOut(u, n) == u \notin serves[n] /\ Granted(u, n) /\ ~IsExpired(u)

Differs(n) == \E u \in Users : LetIn(u, n) \/ KeptOut(u, n)

\* Of the nodes S, those that differ from the rows after this step may do so until their
\* next sync. Five things are excused: the answer reports that a sync or a lookup failed;
\* the API drops the error of a lookup; the node is hidden; a user was assigned to it
\* between a handler's lookup and its change; the panel stopped.
Excuse(S) == behind' = behind \cup {n \in S : Differs(n)'}

\* A sync that worked ends all excuses.
Settle(n) == behind' = IF serves'[n] = ActiveAccessForNode(n) THEN behind \ {n} ELSE behind

-----------------------------------------------------------------------------
(* Arrival *)

\* Faulty variant: deleting and editing look up the nodes afterwards, like the others.
LookUpAfterChange(op, ui) ==
    CASE op \in {"create", "assign"} -> "node"
      [] op \in {"accessOn", "accessOff"} -> "row"
      [] op \in {"syncUser", "syncAll"} -> "nodesAfter"
      [] op = "syncNode" -> IF ui THEN "node" ELSE "sync"
      [] OTHER -> "change"

\* What a handler does first.
FirstStep(op, ui) ==
    CASE op = "delete" \/ (op = "update" /\ ui) -> "nodesBefore"
      [] op \in {"create", "assign"} -> "node"
      [] op \in {"accessOn", "accessOff"} -> "row"
      [] op \in {"syncUser", "syncAll"} -> "nodesAfter"
      [] op = "syncNode" -> IF ui THEN "node" ELSE "sync"
      [] OTHER -> "change"

\* The nodes a request names: node_ids of a new user, or one node.
NodesNamed(op) ==
    CASE op = "create" -> SUBSET Nodes
      [] op \in {"assign", "unassign", "accessOn", "accessOff", "syncNode"} -> {{n} : n \in Nodes}
      [] OTHER -> {{}}

Arrive(r) ==
    /\ At(r, "idle")
    /\ requested < MaxRequests
    /\ requested' = requested + 1
    /\ \E op \in ChangeOps \cup SyncOps, ui \in BOOLEAN, u \in Users :
          /\ op \notin TwoHandlers => ui
          /\ CASE op = "create" -> u \notin issued
               [] op \in {"syncNode", "syncAll"} -> u = AnyUser
               [] OTHER -> user[u].exists
          /\ issued' = IF op = "create" THEN issued \cup {u} ELSE issued
          /\ \E S \in NodesNamed(op) :
                LET direct == FirstStep(op, ui) = "sync"
                IN Goto(r, [pc |-> FirstStep(op, ui), op |-> op, ui |-> ui, u |-> u,
                            todo |-> IF direct THEN {} ELSE S,
                            cur |-> IF direct THEN S ELSE {}, late |-> {}])
    /\ UNCHANGED <<now, user, access, host, serves, edits, behind>>

-----------------------------------------------------------------------------
(* Before the change *)

\* userNodeIDs: all access rows, switched off or not.
ReadNodesBefore(r) ==
    /\ At(r, "nodesBefore")
    /\ \/ Goto(r, [req[r] EXCEPT !.todo = AccessDetailForUser(req[r].u), !.pc = "change"])
       \/ Answer(r)
    /\ UNCHANGED <<now, user, access, host, serves, issued, requested, edits, behind>>

\* The list of nodes for a new user, or the one node named. Without the list the API goes
\* on, and can create a user without nodes.
LookUpNode(r) ==
    /\ At(r, "node")
    /\ LET q == req[r]
           goesOn == IF q.op = "syncNode"
                     THEN [q EXCEPT !.pc = "sync", !.cur = q.todo, !.todo = {}]
                     ELSE [q EXCEPT !.pc = "change"]
       IN \/ Goto(r, goesOn)
          \/ IF q.op = "create" /\ ~q.ui /\ q.todo = {} THEN Goto(r, goesOn) ELSE Answer(r)
    /\ UNCHANGED <<now, user, access, host, serves, issued, requested, edits, behind>>

\* AccessByID: the row and its node; cur remembers that its id is known.
LookUpRow(r) ==
    /\ At(r, "row")
    /\ \/ /\ \E n \in req[r].todo : access[req[r].u][n] # "none"
          /\ Goto(r, [req[r] EXCEPT !.pc = "change", !.cur = req[r].todo])
       \/ Answer(r)
    /\ UNCHANGED <<now, user, access, host, serves, issued, requested, edits, behind>>
-----------------------------------------------------------------------------
(* The change *)

\* Faulty variant: no expiry is stored as the zero time.
CreateWithZeroTime(u, S) ==
    /\ \E enabled \in BOOLEAN, expires \in 0..MaxTime :
          user' = [user EXCEPT ![u] = [exists |-> TRUE, enabled |-> enabled,
                                       expires |-> expires, synced |-> 0]]
    /\ access' = [access EXCEPT ![u] = [n \in Nodes |-> IF n \in S THEN "on" ELSE "none"]]

\* One transaction: the user and its access rows.
CreateWithAssignments(u, S) ==
    /\ \E enabled \in BOOLEAN, expires \in 1..Never :
          user' = [user EXCEPT ![u] = [exists |-> TRUE, enabled |-> enabled,
                                       expires |-> expires, synced |-> 0]]
    /\ access' = [access EXCEPT ![u] = [n \in Nodes |-> IF n \in S THEN "on" ELSE "none"]]

\* Faulty variant: no foreign key keeps rows from users that are gone.
AssignNodeToAnyone(u, n) == SetAccess(u, n, "on") /\ user' = user

\* A row assigned again is switched on. It violates its foreign key when the user is gone.
AssignNode(u, n) == user[u].exists /\ SetAccess(u, n, "on") /\ user' = user

UnassignNode(u, n) == SetAccess(u, n, "none") /\ user' = user

\* The row is addressed by its id: one that was removed meanwhile, even if assigned
\* again, is not found, which is no error.
SetAccessEnabled(u, S, row) ==
    /\ \/ \E n \in S : SetAccess(u, n, row)
       \/ S = {} /\ access' = access
    /\ user' = user

WriteRows(q) ==
    CASE q.op = "create" -> CreateWithAssignments(q.u, q.todo)
      [] q.op = "update" -> /\ \E enabled \in BOOLEAN, expires \in 1..Never :
                                   UpdateUserRow(q.u, enabled, expires)
                            /\ access' = access
      [] q.op = "delete" -> DeleteUserRow(q.u)
      [] q.op = "enable" -> SetEnabled(q.u, TRUE) /\ access' = access
      [] q.op = "disable" -> SetEnabled(q.u, FALSE) /\ access' = access
      [] q.op = "assign" -> \E n \in q.todo : AssignNode(q.u, n)
      [] q.op = "unassign" -> \E n \in q.todo : UnassignNode(q.u, n)
      [] q.op = "accessOn" -> SetAccessEnabled(q.u, q.cur, "on")
      [] q.op = "accessOff" -> SetAccessEnabled(q.u, q.cur, "off")

ReadsNodesAfter(q) == q.op \in {"enable", "disable"} \/ (q.op = "update" /\ ~q.ui)

\* What the change of q does to a request p under way: the row it knows the id of is
\* gone, or a node it has not seen is assigned to its user.
Affected(p, q) ==
    [p EXCEPT !.cur = IF /\ p.pc = "change" /\ p.op \in {"accessOn", "accessOff"}
                         /\ \E n \in p.todo : access'[p.u][n] = "none"
                      THEN {} ELSE @,
              !.late = IF /\ p.pc = "change" /\ p.op \in {"update", "delete"} /\ p.u = q.u
                          /\ ~ReadsNodesAfter(p) /\ q.op = "assign"
                       THEN @ \cup (q.todo \ p.todo) ELSE @]

Change(r) ==
    /\ At(r, "change")
    /\ LET q == req[r]
           next == [q EXCEPT !.pc = IF ReadsNodesAfter(q) THEN "nodesAfter" ELSE "sync",
                             !.cur = {}, !.late = {}]
       IN /\ WriteRows(q)
          /\ req' = [p \in Requests |-> IF p = r THEN next ELSE Affected(req[p], q)]
          /\ UNCHANGED <<now, host, serves, issued, requested, edits>>
          /\ Excuse(q.late)

\* The statement fails, or the row to update is gone: nothing is synced.
ChangeFails(r) ==
    /\ At(r, "change")
    /\ Answer(r)
    /\ UNCHANGED <<now, user, access, host, serves, issued, requested, edits, behind>>

-----------------------------------------------------------------------------
(* After the change: syncNodesAfterChange, syncUserAssignments, SyncAllNodes *)

ReadNodesAfter(r) ==
    /\ At(r, "nodesAfter")
    /\ LET q == req[r]
       IN Goto(r, CASE q.op = "syncUser" ->
                         [q EXCEPT !.pc = "sync", !.cur = AccessDetailForUser(q.u)]
                    [] q.op = "syncAll" ->
                         [q EXCEPT !.pc = "sync", !.cur = {n \in Nodes : host[n].enabled}]
                    [] OTHER ->
                         [q EXCEPT !.pc = "sync", !.todo = AccessDetailForUser(q.u)])
    /\ UNCHANGED <<now, user, access, host, serves, issued, requested, edits, behind>>

\* A page reports the error. The API drops it, syncs nothing and answers that all is well.
ReadNodesAfterFails(r) ==
    /\ At(r, "nodesAfter")
    /\ Answer(r)
    /\ UNCHANGED <<now, user, access, host, serves, issued, requested, edits>>
    /\ Excuse(IF ReadsNodesAfter(req[r]) THEN AccessDetailForUser(req[r].u) ELSE {})

\* syncNodesAfterChange reads a node before it syncs it, and leaves hidden nodes alone.
GetNode(r) ==
    /\ At(r, "sync")
    /\ req[r].cur = {}
    /\ UNCHANGED <<now, user, access, host, serves, issued, requested, edits>>
    /\ \E n \in req[r].todo :
          LET rest == [req[r] EXCEPT !.todo = @ \ {n}]
          IN \/ /\ host[n].enabled
                /\ Goto(r, [rest EXCEPT !.cur = {n}])
                /\ behind' = behind
             \/ /\ ~host[n].enabled
                /\ Goto(r, rest)
                /\ Excuse({n})
             \/ Goto(r, rest) /\ Excuse({n})

\* The loop goes on after an error.
SyncOne(r) ==
    /\ At(r, "sync")
    /\ UNCHANGED <<now, user, access, host, issued, requested, edits>>
    /\ \E n \in req[r].cur, ok \in BOOLEAN :
          /\ SyncNode(n, ok)
          /\ Goto(r, [req[r] EXCEPT !.cur = @ \ {n}])
          /\ IF ok THEN Settle(n) ELSE Excuse({n})

\* The answer: saved and synced, or saved with an error per node.
Finish(r) ==
    /\ At(r, "sync")
    /\ req[r].todo = {} /\ req[r].cur = {}
    /\ Answer(r)
    /\ UNCHANGED <<now, user, access, host, serves, issued, requested, edits, behind>>

-----------------------------------------------------------------------------
(* Around the handlers *)

Tick ==
    /\ now < MaxTime
    /\ now' = now + 1
    /\ UNCHANGED <<user, access, host, serves, req, issued, requested, edits, behind>>

\* UpdateNode hides a node from subscriptions, or shows it again; it syncs nothing.
SwitchNode(n) ==
    /\ edits < MaxEdits
    /\ edits' = edits + 1
    /\ host' = [host EXCEPT ![n].enabled = ~@]
    /\ UNCHANGED <<now, user, access, serves, req, issued, requested, behind>>

\* The expiry reconciler syncs a node, or a handler for another user does.
OtherSync(n) ==
    /\ SyncNode(n, TRUE)
    /\ Settle(n)
    /\ UNCHANGED <<now, user, access, host, req, issued, requested, edits>>

\* What a request has changed and not synced yet.
Owes(q, n) ==
    \/ q.pc = "sync" /\ n \in q.todo \cup q.cur
    \/ q.pc = "nodesAfter" /\ ReadsNodesAfter(q) /\ n \in AccessDetailForUser(q.u)

Owed(n) == \E r \in Requests : Owes(req[r], n)

\* The panel stops and starts again: its requests are forgotten.
Restart ==
    /\ \E r \in Requests : ~At(r, "idle")
    /\ req' = [r \in Requests |-> Idle]
    /\ UNCHANGED <<now, user, access, host, serves, issued, requested, edits>>
    /\ Excuse({n \in Nodes : Owed(n)})

-----------------------------------------------------------------------------
(* Specification *)

NoRow == [exists |-> FALSE, enabled |-> FALSE, expires |-> Never, synced |-> 0]

\* At first every reachable node serves the users it must serve.
Init ==
    /\ now = 0
    /\ user \in [Users -> {row \in UserRows : row.synced = 0 /\ (~row.exists => row = NoRow)}]
    /\ access \in [Users -> [Nodes -> AccessRows]]
    /\ \A u \in Users : ~user[u].exists => AccessDetailForUser(u) = {}
    /\ host = [n \in Nodes |-> [enabled |-> n \notin Hidden, api |-> n \notin Planned]]
    /\ serves = [n \in Nodes |-> IF host[n].api THEN ActiveAccessForNode(n) ELSE {}]
    /\ req = [r \in Requests |-> Idle]
    /\ issued = {u \in Users : user[u].exists}
    /\ requested = 0
    /\ edits = 0
    /\ behind = {n \in Nodes : Differs(n)}

Step(r) ==
    \/ ReadNodesBefore(r) \/ LookUpNode(r) \/ LookUpRow(r)
    \/ Change(r) \/ ChangeFails(r)
    \/ ReadNodesAfter(r) \/ ReadNodesAfterFails(r)
    \/ GetNode(r) \/ SyncOne(r) \/ Finish(r)

Next ==
    \/ \E r \in Requests : Arrive(r) \/ Step(r)
    \/ \E n \in Nodes : SwitchNode(n) \/ OtherSync(n)
    \/ Tick \/ Restart

Spec == Init /\ [][Next]_vars

-----------------------------------------------------------------------------
(* Properties *)

\* No node is forgotten: a node that lets in a user without a right to it, or keeps one
\* out in spite of it, will be synced by a request under way, unless something has gone
\* wrong that Excuse names, each with its own cause in the code. However requests for
\* the same user and node interleave, rows come and go, syncs fail and nodes are hidden,
\* there is no other way. (the order of reads, changes and syncs in every handler)
NoNodeForgotten == \A n \in Nodes : Differs(n) => Owed(n) \/ n \in behind

\* README "Disabled or expired users do not receive a subscription response": no format
\* gives such a user an answer; and every node an answer lists lets the user in, with the
\* same exceptions as above, although the subscription reads the rows and the node was
\* told by whichever handler changed them. (BuildByToken, ActiveAccessForSubscription
\* and ActiveAccessForNode)
SubscriptionIsHonoured ==
    \A u \in Users, format \in Formats :
        LET answer == BuildByToken(u, format)
        IN /\ answer.ok => MustBeServed(u)
           /\ \A n \in answer.nodes : u \in serves[n] \/ Owed(n) \/ n \in behind
=============================================================================
