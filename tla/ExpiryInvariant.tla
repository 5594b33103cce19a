-------------------------- MODULE ExpiryInvariant --------------------------
(***************************************************************************)
(* The inductive invariant behind the safety properties of                 *)
(* ExpiryReconciler: what the locals of a run under way still say about    *)
(* the rows and the nodes, which may have changed since they were read.    *)
(***************************************************************************)
EXTENDS ExpiryReconciler

RunShape ==
    \A c \in Callers :
        /\ run[c].todo \subseteq run[c].found
        /\ run[c].pc \in {"idle", "list"} => run[c].found = {}
        /\ run[c].pc \in {"sync", "mark"} => run[c].todo = {}
        /\ run[c].pc = "mark" => run[c].nodes = {}

\* Users a run works on have stayed expired since they were listed.
ListedAreExpired ==
    \A c \in Callers : \A u \in run[c].found \ excused : IsExpired(u)

\* A node that still lets in a user that has been looked up is one the run has yet
\* to sync, or has failed to sync.
LeftoversAreKnown ==
    \A c \in Callers : \A u \in run[c].found \ (run[c].todo \cup excused) : \A n \in Nodes :
        access[u][n] = "on" /\ u \in serves[n] =>
            /\ n \in run[c].usersToNodes[u]
            /\ n \in run[c].nodes \cup run[c].nodeErrors

UnreachableServeNobody == \A n \in Nodes : ~host[n].api => serves[n] = {}

MarksArePast == \A u \in Users : user[u].synced <= now

\* Disabled users included: they may be enabled again.
MarkedAreRevoked ==
    \A u \in Users \ excused :
        user[u].exists /\ IsExpired(u) /\ user[u].expires <= user[u].synced
            => ~LetInAnywhere(u)

ExpiryInv ==
    /\ TypeOK
    /\ OneRunAtATime
    /\ RunShape
    /\ ListedAreExpired
    /\ LeftoversAreKnown
    /\ UnreachableServeNobody
    /\ MarksArePast
    /\ MarkedAreRevoked
=============================================================================
