----------------------------- MODULE UserAccess -----------------------------
(***************************************************************************)
(* Users, their access to nodes, and who is served where: the rows of      *)
(* tables users and user_node_access, the part of table nodes that decides *)
(* who must be served, and the users each node agent has installed         *)
(* (internal/users/repository.go). The modules of the components that      *)
(* change or reconcile these rows extend this one.                         *)
(*                                                                         *)
(* Abstractions:                                                           *)
(*  - time is a counter; the panel and PostgreSQL read the same clock;     *)
(*  - names, tokens, credentials, quotas and notes are left out;           *)
(*  - a call of SyncNode takes effect in one step. NodeSync, which models  *)
(*    it in detail, shows why that is fair for ordinary syncs: what the    *)
(*    agent keeps after a successful one was read after that sync began.   *)
(***************************************************************************)
EXTENDS Integers, FiniteSets

CONSTANTS
    Users,     \* user ids
    Nodes,     \* node ids
    MaxTime    \* bound: the last instant of the clock

ASSUME TimeAssumption == MaxTime \in Nat

ASSUME UsersAssumption == IsFiniteSet(Users) /\ Users # {}

VARIABLES
    now,       \* the clock
    user,      \* table users
    access,    \* table user_node_access
    host,      \* table nodes
    serves     \* the users each node agent lets in

Never == MaxTime + 1          \* expires_at is null

UserRows == [exists: BOOLEAN, enabled: BOOLEAN,
             expires: 1..Never, synced: 0..MaxTime]   \* synced = 0 is null

AccessRows == {"none", "off", "on"}

\* A planned node may have no api_url yet: no agent can be reached.
Hosts == [enabled: BOOLEAN, api: BOOLEAN]

UserAccessTypeOK ==
    /\ now \in 0..MaxTime
    /\ user \in [Users -> UserRows]
    /\ access \in [Users -> [Nodes -> AccessRows]]
    /\ host \in [Nodes -> Hosts]
    /\ serves \in [Nodes -> SUBSET Users]

-----------------------------------------------------------------------------
(* Queries *)

IsExpired(u) == user[u].expires <= now

MustBeServed(u) == user[u].exists /\ user[u].enabled /\ ~IsExpired(u)

ActiveAccessForNode(n) == {u \in Users : access[u][n] = "on" /\ MustBeServed(u)}

UsersPendingExpiryReconcile ==
    {u \in Users : /\ user[u].exists /\ user[u].enabled
                   /\ IsExpired(u)
                   /\ user[u].synced < user[u].expires}

\* Faulty variant: nodes hidden from subscriptions are left out.
ActiveNodeIDsOfVisibleNodes(u) ==
    {n \in Nodes : access[u][n] = "on" /\ host[n].api /\ host[n].enabled}

ActiveNodeIDsForExpiredUser(u) == {n \in Nodes : access[u][n] = "on" /\ host[n].api}

-----------------------------------------------------------------------------
(* Statements, and the one outside effect *)

\* Faulty variant: the mark is dated one interval ahead.
MarkExpirySyncedAhead(u) ==
    user' = [user EXCEPT ![u].synced = IF user[u].exists THEN now + 1 ELSE @]

MarkExpirySynced(u) ==
    user' = [user EXCEPT ![u].synced = IF user[u].exists THEN now ELSE @]

SetEnabled(u, enabled) ==
    user' = [user EXCEPT ![u].enabled = IF user[u].exists THEN enabled ELSE @]

\* Update writes enabled and expires_at; it leaves expiry_synced_at as it is.
UpdateUserRow(u, enabled, expires) ==
    /\ user[u].exists
    /\ user' = [user EXCEPT ![u].enabled = enabled, ![u].expires = expires]

\* Access rows go with their user (on delete cascade).
DeleteUserRow(u) ==
    /\ user' = [user EXCEPT ![u].exists = FALSE]
    /\ access' = [access EXCEPT ![u] = [n \in Nodes |-> "none"]]

SetAccess(u, n, row) == access' = [access EXCEPT ![u][n] = row]

\* A successful sync has installed the users the node must serve; a failed one may
\* have installed them too, when only the answer was lost.
SyncNode(n, ok) ==
    LET installed == [serves EXCEPT ![n] = ActiveAccessForNode(n)]
    IN \/ host[n].api /\ serves' = installed
       \/ ~ok /\ serves' = serves
=============================================================================
