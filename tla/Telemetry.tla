------------------------------ MODULE Telemetry ------------------------------
(***************************************************************************)
(* A page with the sessions on the nodes: of all users, of one user or on  *)
(* one node (AllSessions, UserSessions, NodeSessions in                    *)
(* internal/telemetry/service.go). The page reads the database several     *)
(* times, while others change users and their names on the nodes; then a   *)
(* pool of workers asks the agents, under a timeout.                       *)
(*                                                                         *)
(* Every read, hand-over and answer is a step; a hand-over is one step of  *)
(* the loop and of a worker because the channel has no buffer. The result  *)
(* slots are one per node, so workers do not interfere otherwise.          *)
(***************************************************************************)
EXTENDS TelemetryPages, Sequences

CONSTANTS
    Concurrency,   \* the service's concurrency; 0 asks for the default
    Ready,         \* nodes that are set up; others are of any kind
    MaxChanges     \* bound: changes made while the page is put together

ASSUME TelemetryAssumption == Concurrency \in Nat /\ Ready \subseteq Nodes /\ MaxChanges \in Nat

VARIABLES
    users,       \* ids in table users
    nodes,       \* ids in table nodes
    name,        \* user_node_access.protocol_username
    kind,        \* what each node's row says about its agent
    page,        \* what the page has read
    left,        \* nodes not handed to a worker yet
    working,     \* nodes workers are busy with
    result,      \* the entry of each node
    ctxDone,     \* the page timed out, or the client has gone
    changes,     \* changes so far
    touched      \* history: nodes whose access rows changed since the page was asked for

db == <<users, nodes, name, kind, changes, touched>>
pool == <<left, working, result, ctxDone>>
vars == <<db, page, pool>>

NoName == "no name"

ASSUME NamesAssumption == NoName \notin Names

AnyUser == CHOOSE u \in Users : TRUE
AnyNode == CHOOSE n \in Nodes : TRUE

Holders(n) == [x \in Names |-> {u \in Users : name[u][n] = x}]

\* The reads of each page, in order.
Reads(what) ==
    CASE what = "node" -> <<"getNode", "listUsers", "nodeLookups">>
      [] what = "user" -> <<"getUser", "userLookups", "listNodes", "nodeLookups", "getUser">>
      [] what = "all"  -> <<"listNodes", "listUsers", "nodeLookups">>

Pages == [what: {"node", "user", "all"}, u: Users, n: Nodes,
          state: {"asking", "fetching", "returned", "failed"},
          todo: Seq({"getNode", "getUser", "userLookups", "listNodes", "listUsers", "nodeLookups"}),
          targets: SUBSET Nodes, userMap: SUBSET Users,
          index: [Nodes -> [Names -> SUBSET Users]]]

TypeOK ==
    /\ users \subseteq Users /\ nodes \subseteq Nodes
    /\ name \in [Users -> [Nodes -> Names \cup {NoName}]]
    /\ \A u \in Users, n \in Nodes : name[u][n] # NoName => u \in users /\ n \in nodes
    /\ kind \in [Nodes -> Kinds]
    /\ page \in Pages
    /\ left \subseteq page.targets /\ working \subseteq page.targets
    /\ result \in [Nodes -> Entries \cup {NoEntry}]
    /\ ctxDone \in BOOLEAN
    /\ changes \in 0..MaxChanges
    /\ touched \subseteq Nodes

-----------------------------------------------------------------------------
(* What others change meanwhile; once the page has read all it needs, changes are not seen *)

Changed(S) ==
    /\ page.state = "asking" /\ changes < MaxChanges
    /\ changes' = changes + 1
    /\ touched' = touched \cup S
    /\ UNCHANGED <<kind, page, pool>>

\* The user is created with its access rows.
CreateUser(u) ==
    /\ u \notin users
    /\ users' = users \cup {u}
    /\ \E row \in [nodes -> Names \cup {NoName}] :
          /\ name' = [name EXCEPT ![u] = [n \in Nodes |-> IF n \in nodes THEN row[n] ELSE NoName]]
          /\ Changed({n \in nodes : row[n] # NoName})
    /\ UNCHANGED nodes

DeleteUser(u) ==
    /\ u \in users
    /\ users' = users \ {u}
    /\ name' = [name EXCEPT ![u] = [n \in Nodes |-> NoName]]
    /\ Changed({n \in Nodes : name[u][n] # NoName})
    /\ UNCHANGED nodes

\* A user gets a node, or another name on it, or loses it.
AssignNode(u, n, x) ==
    /\ u \in users /\ n \in nodes /\ name[u][n] # x
    /\ name' = [name EXCEPT ![u][n] = x]
    /\ Changed({n})
    /\ UNCHANGED <<users, nodes>>

DeleteNode(n) ==
    /\ n \in nodes
    /\ nodes' = nodes \ {n}
    /\ name' = [u \in Users |-> [name[u] EXCEPT ![n] = NoName]]
    /\ Changed({n})
    /\ UNCHANGED users

-----------------------------------------------------------------------------
(* The reads *)

\* A read that ends with an error ends the page with it.
ReadFails ==
    /\ page.state = "asking"
    /\ page' = [page EXCEPT !.state = "failed"]
    /\ UNCHANGED <<db, pool>>

Read(statement) ==
    /\ page.state = "asking" /\ page.todo # <<>> /\ Head(page.todo) = statement
    /\ UNCHANGED <<db, pool>>

Got(p) == page' = [p EXCEPT !.todo = Tail(@)]

GotOne(found, p) == IF found THEN Got(p) ELSE page' = [page EXCEPT !.state = "failed"]

GetUser == Read("getUser") /\ GotOne(page.u \in users, [page EXCEPT !.userMap = {page.u}])

ListUsers == Read("listUsers") /\ Got([page EXCEPT !.userMap = users])

GetNode == Read("getNode") /\ GotOne(page.n \in nodes, [page EXCEPT !.targets = {page.n}])

SessionLookupForUser ==
    /\ Read("userLookups")
    /\ Got([page EXCEPT !.targets = {n \in Nodes : name[page.u][n] # NoName}])

\* A node that went after its lookup was read is passed over.
ListNodes ==
    /\ Read("listNodes")
    /\ Got([page EXCEPT !.targets = IF page.what = "user" THEN @ \cap nodes ELSE nodes])

\* Faulty variant: the names on all the nodes are put into one index.
IndexOfNames(targets) ==
    [n \in Nodes |-> [x \in Names |-> UNION {Holders(m)[x] : m \in targets}]]

\* buildFallbackIndex: who has a name, node by node.
BuildFallbackIndex(targets) ==
    [n \in Nodes |-> [x \in Names |-> IF n \in targets THEN Holders(n)[x] ELSE {}]]

SessionLookupForNodes ==
    /\ Read("nodeLookups")
    /\ Got([page EXCEPT !.index = BuildFallbackIndex(page.targets)])

-----------------------------------------------------------------------------
(* The pool: fetchNodes *)

DefaultConcurrency == 6

Smaller(i, j) == IF i < j THEN i ELSE j

SemSize == Smaller(IF Concurrency = 0 THEN DefaultConcurrency ELSE Concurrency,
                   Cardinality(page.targets))

\* A page about one node needs no pool.
StartFetch ==
    /\ page.state = "asking" /\ page.todo = <<>>
    /\ page' = [page EXCEPT !.state = "fetching"]
    /\ IF page.what = "node"
       THEN left' = {} /\ working' = page.targets
       ELSE left' = page.targets /\ working' = {}
    /\ UNCHANGED <<db, result, ctxDone>>

\* The page's ten seconds are over, or the client has gone.
TimeIsUp ==
    /\ page.state = "fetching" /\ ~ctxDone
    /\ ctxDone' = TRUE
    /\ UNCHANGED <<db, page, left, working, result>>

HandOver(n) ==
    /\ n \in left /\ Cardinality(working) < SemSize
    /\ left' = left \ {n}
    /\ working' = working \cup {n}
    /\ UNCHANGED <<db, page, result, ctxDone>>

\* Faulty variant: the slot is filled, but the node is offered to the workers all the same.
CancelAndOffer(n) ==
    /\ n \in left /\ ctxDone /\ result[n] = NoEntry
    /\ result' = [result EXCEPT ![n] = Canceled]
    /\ UNCHANGED <<db, page, left, working, ctxDone>>

\* When the time is up and a worker is waiting, select takes either case.
Cancel(n) ==
    /\ n \in left /\ ctxDone
    /\ left' = left \ {n}
    /\ result' = [result EXCEPT ![n] = Canceled]
    /\ UNCHANGED <<db, page, working, ctxDone>>

Fill(n, e) ==
    /\ n \in working
    /\ working' = working \ {n}
    /\ result' = [result EXCEPT ![n] = e]
    /\ UNCHANGED <<db, page, left, ctxDone>>

Skip(n) == kind[n] # "ready" /\ Fill(n, Skipped(kind[n]))

Answer(n) == kind[n] = "ready" /\ \E e \in AgentAnswers(n) : Fill(n, e)

\* Faulty variant: only the page has a timeout.
CallEndsWithPage(n) == kind[n] = "ready" /\ ctxDone /\ Fill(n, CallFailed)

\* The call fails, or its own timeout of five seconds ends it.
CallFails(n) == kind[n] = "ready" /\ Fill(n, CallFailed)

Return ==
    /\ page.state = "fetching"
    /\ left = {} /\ working = {}
    /\ page' = [page EXCEPT !.state = "returned"]
    /\ UNCHANGED <<db, pool>>

-----------------------------------------------------------------------------
(* Specification *)

Init ==
    /\ users \in SUBSET Users
    /\ nodes = Nodes
    /\ name \in [Users -> [Nodes -> Names \cup {NoName}]]
    /\ \A u \in Users \ users, n \in Nodes : name[u][n] = NoName
    /\ kind \in [Nodes -> Kinds]
    /\ \A n \in Ready : kind[n] = "ready"
    \* Any user will do: the others differ in nothing but the id.
    /\ page \in {p \in [what: {"node", "user", "all"}, u: Users, n: Nodes,
                        state: {"asking"}, todo: {Reads(what) : what \in {"node", "user", "all"}},
                        targets: {{}}, userMap: {{}}, index: {[n \in Nodes |-> [x \in Names |-> {}]]}] :
                   /\ p.todo = Reads(p.what)
                   /\ p.u = AnyUser
                   /\ p.what # "node" => p.n = AnyNode}
    /\ left = {} /\ working = {} /\ ctxDone = FALSE
    /\ result = [n \in Nodes |-> NoEntry]
    /\ changes = 0
    /\ touched = {}

Others ==
    \/ \E u \in Users : CreateUser(u) \/ DeleteUser(u)
    \/ \E u \in Users, n \in Nodes, x \in Names \cup {NoName} : AssignNode(u, n, x)
    \/ \E n \in Nodes : DeleteNode(n)

\* Steps the service takes on its own, and those that only end thanks to a timeout.
Proceed ==
    \/ GetUser \/ ListUsers \/ GetNode \/ SessionLookupForUser \/ ListNodes
    \/ SessionLookupForNodes \/ StartFetch \/ Return
    \/ \E n \in Nodes : HandOver(n) \/ Cancel(n) \/ Skip(n) \/ CallFails(n)

Next ==
    \/ Others \/ Proceed \/ ReadFails \/ TimeIsUp
    \/ \E n \in Nodes : Answer(n)

\* The service goes on while it can; a read ends, with an error at the worst; a call ends,
\* by its own timeout at the worst. Nothing is assumed of agents or of the page's timeout.
Spec == Init /\ [][Next]_vars /\ WF_vars(Proceed)

-----------------------------------------------------------------------------
(* Properties *)

Returned == page.state = "returned"

\* The user each reported session is shown for, if it is shown.
ShownFor(n, s) ==
    ResolveSessionUser(s, page.userMap, page.index[n], page.what = "user")

\* A page never shows a session for anyone but the user whose id the agent reports. Without
\* an id, a session is shown for a user exactly when that user alone has its name on that
\* node, provided that nobody changed the names on the node since the page was asked for,
\* although the page reads users, nodes and names at different moments. A page about one
\* user shows no other session. (the order of the reads, resolveSessionUser, the index)
SessionsAttributed ==
    Returned => \A n \in page.targets : \A s \in result[n].sessions :
        LET u == ShownFor(n, s)
            only == page.what = "user"
        IN /\ only => u \in {page.u, Excluded}
           /\ u \in Users => s.uid \in {u, ""}
           /\ n \notin touched /\ s.uid = "" =>
                 \A v \in IF only THEN {page.u} ELSE Users :
                     u = v <=> Holders(n)[s.name] = {v}

\* Every node of a page is accounted for once: as well, as planned or as having an issue;
\* and a node has a text under "issues" exactly when it is counted there, whatever mixture
\* of skipped nodes, cancelled, failed and partial answers the workers leave.
\* (buildSummary, NodeIssueCode and telemetryIssueText)
IssuesExplained ==
    Returned =>
        LET summary == Summary(result, page.targets)
            planned == {n \in page.targets : result[n].reason = "planned"}
        IN /\ summary.ok \cup summary.issues \cup planned = page.targets
           /\ Cardinality(summary.ok) + Cardinality(summary.issues) + Cardinality(planned)
                = Cardinality(page.targets)
           /\ \A n \in page.targets :
                 n \in summary.issues <=> TelemetryIssueText(result[n]) # ""

\* Whatever filter the sessions page is asked for, and whether past sessions are asked for
\* too, none is missing because the agents were not asked for it: what an agent has and the
\* filter lets through is reported. (Sessions in handlers.go, TelemetrySessions,
\* filterSessions)
FilterFindsAll ==
    Returned => \A n \in page.targets, status \in Filters, requested \in BOOLEAN :
        LET sessions == result[n].sessions
        IN FilterSessions(sessions, status)
             \subseteq Reported(sessions, IncludeRecent(status, requested))

\* The workers, the loop that feeds them, the timeouts and the reads before keep the promise
\* of TelemetryPromise: one entry per node, written once, and all of them there on return.
Promise ==
    INSTANCE TelemetryPromise WITH
        state <- page.state, asked <- page.targets,
        fits <- [n \in Nodes |-> Fitting(n, kind[n])], entry <- result

PagePromise == Promise!Spec

\* Every page is answered, even if no agent ever answers and the page never times out.
PageEnds == <>(page.state \in {"returned", "failed"})
=============================================================================
