-------------------------- MODULE ExpiryReconciler --------------------------
(***************************************************************************)
(* The expiry reconciler (internal/users/expiry_reconciler.go): it finds   *)
(* users whose expires_at has passed, syncs the nodes they are assigned    *)
(* to, and marks the users whose nodes were all synced. It runs from its   *)
(* own ticker and from RunOnce, called by HTTP handlers; an atomic flag    *)
(* keeps the runs apart. Around it the clock moves, administrators change  *)
(* users and other handlers sync nodes.                                    *)
(*                                                                         *)
(* Every database call and every SyncNode call is a step. The order in     *)
(* which a run visits users and nodes is left open.                        *)
(***************************************************************************)
EXTENDS UserAccess

CONSTANTS
    Ticker,        \* the caller that runs on the ticker
    Requests,      \* callers of RunOnce
    Hidden,        \* nodes with enabled = false
    Planned,       \* nodes without an api_url
    MaxChanges,    \* bound: changes by administrators
    MaxRequests    \* bound: calls of RunOnce

ASSUME ReconcilerAssumption ==
    /\ Ticker \notin Requests
    /\ MaxChanges \in Nat
    /\ MaxRequests \in Nat

VARIABLES
    running,       \* ExpiryReconciler.running
    run,           \* what each caller is doing
    changed,       \* changes made so far
    requested,     \* calls of RunOnce so far
    calm,          \* from now on nothing fails and nobody changes anything
    excused        \* history: users the reconciler may lose, see Excuse

vars == <<now, user, access, host, serves, running, run, changed, requested, calm, excused>>

Callers == {Ticker} \cup Requests

\* The locals of reconcile: users found and not looked up yet, users to be marked,
\* usersToNodes, nodes not synced yet, and nodeErrors.
Runs == [pc: {"idle", "list", "lookup", "sync", "mark"},
         todo: SUBSET Users, found: SUBSET Users,
         usersToNodes: [Users -> SUBSET Nodes],
         nodes: SUBSET Nodes, nodeErrors: SUBSET Nodes]

IdleRun == [pc |-> "idle", todo |-> {}, found |-> {},
            usersToNodes |-> [u \in Users |-> {}], nodes |-> {}, nodeErrors |-> {}]

TypeOK ==
    /\ UserAccessTypeOK
    /\ running \in BOOLEAN
    /\ run \in [Callers -> Runs]
    /\ changed \in 0..MaxChanges
    /\ requested \in 0..MaxRequests
    /\ calm \in BOOLEAN
    /\ excused \subseteq Users

At(c, step) == run[c].pc = step

Goto(c, state) == run' = [run EXCEPT ![c] = state]

\* The reconciler may stop working on a user too early when its nodes could not be
\* looked up, when its expiry is edited although it has been marked or is being worked
\* on, and when it is given access to a node after its expiry.
Excuse(u) == excused' = excused \cup {u}

-----------------------------------------------------------------------------
(* The reconciler *)

\* Faulty variant: the flag is set without looking at it.
TryAcquireAlways(c) ==
    /\ running' = TRUE
    /\ Goto(c, [IdleRun EXCEPT !.pc = "list"])

\* CompareAndSwap(false, true); when it fails the caller gives up at once.
TryAcquire(c) ==
    IF running
    THEN UNCHANGED <<running, run>>
    ELSE /\ running' = TRUE
         /\ Goto(c, [IdleRun EXCEPT !.pc = "list"])

TickerFires ==
    /\ At(Ticker, "idle")
    /\ TryAcquire(Ticker)
    /\ UNCHANGED <<now, user, access, host, serves, changed, requested, calm, excused>>

RunOnce(c) ==
    /\ At(c, "idle")
    /\ requested < MaxRequests
    /\ requested' = requested + 1
    /\ TryAcquire(c)
    /\ UNCHANGED <<now, user, access, host, serves, changed, calm, excused>>

\* Faulty variant: a run that ends early keeps the flag.
ReturnKeepingFlag(c) ==
    /\ running' = (run[c].pc = "list")
    /\ Goto(c, IdleRun)

\* Return from reconcile: the deferred release clears the flag.
Return(c) ==
    /\ running' = FALSE
    /\ Goto(c, IdleRun)

NeedsExpirySync(u) ==
    /\ user[u].enabled
    /\ IsExpired(u)
    /\ user[u].synced < user[u].expires

ListUsers(c) ==
    /\ At(c, "list")
    /\ LET found == {u \in UsersPendingExpiryReconcile : NeedsExpirySync(u)}
       IN IF found = {}
          THEN Return(c)
          ELSE /\ Goto(c, [run[c] EXCEPT !.pc = "lookup", !.todo = found, !.found = found])
               /\ running' = running
    /\ UNCHANGED <<now, user, access, host, serves, changed, requested, calm, excused>>

ListFails(c) ==
    /\ At(c, "list")
    /\ ~calm
    /\ Return(c)
    /\ UNCHANGED <<now, user, access, host, serves, changed, requested, calm, excused>>

\* After the last user the nodes to sync are known.
LookedUp(c, u, nodeIDs) ==
    Goto(c, [run[c] EXCEPT
               !.todo = @ \ {u},
               !.usersToNodes[u] = nodeIDs,
               !.nodes = @ \cup nodeIDs,
               !.pc = IF run[c].todo # {u} THEN "lookup"
                      ELSE IF run[c].nodes \cup nodeIDs = {} THEN "mark" ELSE "sync"])

LookUpNodes(c) ==
    /\ At(c, "lookup")
    /\ \E u \in run[c].todo : LookedUp(c, u, ActiveNodeIDsForExpiredUser(u))
    /\ UNCHANGED <<now, user, access, host, serves, running, changed, requested, calm, excused>>

\* The error is noted; the user keeps its place in userIDs, without nodes.
LookUpFails(c) ==
    /\ At(c, "lookup")
    /\ ~calm
    /\ \E u \in run[c].todo : LookedUp(c, u, {}) /\ Excuse(u)
    /\ UNCHANGED <<now, user, access, host, serves, running, changed, requested, calm>>

SyncOneNode(c) ==
    /\ At(c, "sync")
    /\ \E n \in run[c].nodes, ok \in BOOLEAN :
          /\ calm => ok
          /\ SyncNode(n, ok)
          /\ Goto(c, [run[c] EXCEPT
                        !.nodes = @ \ {n},
                        !.nodeErrors = IF ok THEN @ ELSE @ \cup {n},
                        !.pc = IF run[c].nodes = {n} THEN "mark" ELSE "sync"])
    /\ UNCHANGED <<now, user, access, host, running, changed, requested, calm, excused>>

\* Faulty variant: one node in step is enough.
AnySynced(c, u) ==
    run[c].usersToNodes[u] = {} \/ run[c].usersToNodes[u] \ run[c].nodeErrors # {}

AllSynced(c, u) == run[c].usersToNodes[u] \cap run[c].nodeErrors = {}

\* One turn of the last loop; the statement itself may fail.
MarkUser(c) ==
    /\ At(c, "mark")
    /\ \E u \in run[c].found :
          /\ IF AllSynced(c, u)
             THEN MarkExpirySynced(u) \/ (~calm /\ user' = user)
             ELSE user' = user
          /\ IF run[c].found = {u}
             THEN Return(c)
             ELSE Goto(c, [run[c] EXCEPT !.found = @ \ {u}]) /\ running' = running
    /\ UNCHANGED <<now, access, host, serves, changed, requested, calm, excused>>

-----------------------------------------------------------------------------
(* Around it *)

Tick ==
    /\ now < MaxTime
    /\ now' = now + 1
    /\ UNCHANGED <<user, access, host, serves, running, run, changed, requested, calm, excused>>

\* Administrators: enable, disable or delete a user, edit its expiry, switch or
\* remove an access row.
SetUserEnabled(u) ==
    /\ \E enabled \in BOOLEAN : SetEnabled(u, enabled)
    /\ UNCHANGED <<access, excused>>

EditUser(u) ==
    /\ \E enabled \in BOOLEAN, expires \in 1..Never : UpdateUserRow(u, enabled, expires)
    /\ IF user[u].synced > 0 \/ \E c \in Callers : u \in run[c].found
       THEN Excuse(u)
       ELSE excused' = excused
    /\ access' = access

DeleteUser(u) == DeleteUserRow(u) /\ excused' = excused

ChangeAccess(u) ==
    /\ user[u].exists
    /\ \E n \in Nodes, row \in AccessRows :
          /\ SetAccess(u, n, row)
          /\ IF row = "on" /\ IsExpired(u) THEN Excuse(u) ELSE excused' = excused
    /\ user' = user

Administer ==
    /\ ~calm
    /\ changed < MaxChanges
    /\ changed' = changed + 1
    /\ \E u \in Users :
          SetUserEnabled(u) \/ EditUser(u) \/ DeleteUser(u) \/ ChangeAccess(u)
    /\ UNCHANGED <<now, host, serves, running, run, requested, calm>>

\* Other handlers sync nodes too, whenever they like.
OtherSync ==
    /\ \E n \in Nodes, ok \in BOOLEAN : SyncNode(n, ok)
    /\ UNCHANGED <<now, user, access, host, running, run, changed, requested, calm, excused>>

\* The panel stops and starts again: its memory is lost, the database stays.
Restart ==
    /\ ~calm
    /\ running' = FALSE
    /\ run' = [c \in Callers |-> IdleRun]
    /\ UNCHANGED <<now, user, access, host, serves, changed, requested, calm, excused>>

CalmDown ==
    /\ ~calm
    /\ calm' = TRUE
    /\ UNCHANGED <<now, user, access, host, serves, running, run, changed, requested, excused>>

-----------------------------------------------------------------------------
(* Specification *)

\* At first every reachable node serves the users it must serve.
Init ==
    /\ now = 0
    /\ user \in [Users -> [exists: {TRUE}, enabled: {TRUE},
                           expires: 1..Never, synced: {0}]]
    /\ access \in [Users -> [Nodes -> {"none", "on"}]]
    /\ host = [n \in Nodes |-> [enabled |-> n \notin Hidden, api |-> n \notin Planned]]
    /\ serves = [n \in Nodes |-> IF host[n].api THEN ActiveAccessForNode(n) ELSE {}]
    /\ running = FALSE
    /\ run = [c \in Callers |-> IdleRun]
    /\ changed = 0
    /\ requested = 0
    /\ calm = FALSE
    /\ excused = {}

Step(c) ==
    ListUsers(c) \/ ListFails(c) \/ LookUpNodes(c) \/ LookUpFails(c)
        \/ SyncOneNode(c) \/ MarkUser(c)

Next ==
    \/ TickerFires
    \/ \E c \in Requests : RunOnce(c)
    \/ \E c \in Callers : Step(c)
    \/ Tick \/ Administer \/ OtherSync \/ Restart \/ CalmDown

Spec == Init /\ [][Next]_vars

\* The ticker keeps firing and every call a run makes returns.
Fairness == WF_vars(TickerFires) /\ \A c \in Callers : WF_vars(Step(c))

FairSpec == Spec /\ Fairness

-----------------------------------------------------------------------------
(* Properties *)

\* Overlapping callers never reconcile at the same time, and the flag is never left
\* set by a run that has ended, whichever way it ended.
OneRunAtATime ==
    /\ running <=> \E c \in Callers : ~At(c, "idle")
    /\ \A c, d \in Callers : ~At(c, "idle") /\ ~At(d, "idle") => c = d

\* A user that is no longer due for reconciling although its expiry has passed.
Reconciled(u) ==
    /\ user[u].exists /\ user[u].enabled /\ IsExpired(u)
    /\ u \notin UsersPendingExpiryReconcile

LetInAnywhere(u) == \E n \in Nodes : access[u][n] = "on" /\ u \in serves[n]

\* Once the reconciler has stopped working on an expired user, no node the user is
\* assigned to lets it in any more, although nodes fail one by one, runs end early and
\* other handlers sync at the same time. The excused users are the exceptions.
ReconciledMeansRevoked ==
    \A u \in Users \ excused : Reconciled(u) => ~LetInAnywhere(u)

\* Once nothing fails any more, an expired user is removed from every node it is
\* assigned to, nodes hidden from subscriptions included, whatever runs were skipped,
\* failed half-way or cut by a restart before.
ExpiredUserIsRevoked ==
    \A u \in Users, n \in Nodes :
        calm /\ IsExpired(u) /\ user[u].enabled /\ access[u][n] = "on" /\ u \notin excused
            ~> (user[u].exists => u \notin serves[n])

-----------------------------------------------------------------------------
(* What the documentation says and the code does not do *)

\* README "the expiry reconciler periodically syncs affected nodes", "Node Agent removes
\* expired credentials on the next successful sync": ReconciledMeansRevoked, without
\* exceptions.
RevocationIsComplete == \A u \in Users : Reconciled(u) => ~LetInAnywhere(u)
=============================================================================
