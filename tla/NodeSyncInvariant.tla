-------------------------- MODULE NodeSyncInvariant --------------------------
(***************************************************************************)
(* The inductive invariant behind the safety properties of NodeSync. The   *)
(* properties are not inductive by themselves: they speak of the row and   *)
(* of what the agent has installed, and a step away from violating them is *)
(* a late answer, a request under way or a caller about to write. The      *)
(* invariant says what those still carry.                                  *)
(***************************************************************************)
EXTENDS NodeSync

\* Versions a caller reports about the agent are ones the agent has had: an applied
\* version it has installed, or, when none is given, a received one that what it
\* has installed since then has passed.
TrueOf(a, report) ==
    /\ report.applied <= report.current
    /\ report.current <= a.current
    /\ report.applied <= a.config.ver
    /\ report.applied = 0 => a.config.ver = 0 \/ report.current < a.config.ver

TrueReport(report) == TrueOf(agent, report)

ReportsAreTrue == \A p \in Procs : TrueReport(proc[p].told) /\ TrueReport(proc[p].reply)

\* An answer to /v1/sync is held from its arrival to the end of the attempt, and an
\* ok answer is about the version sent, which the agent has installed or passed.
ReplyMatches(state) ==
    /\ state.pc \notin {"log", "mark", "refresh", "rebump"} => state.reply.body = "none"
    /\ state.pc \in {"refresh", "rebump"} => state.reply.body = "stale_version"
    /\ state.reply.body = "ok" =>
          /\ state.reply.applied = state.payload.ver
          /\ state.payload.ver <= agent.config.ver
          /\ agent.config.origin # "foreign"

RepliesMatch == \A p \in Procs : ReplyMatches(proc[p])

\* Configurations on their way to the agent.
Pending == net \cup {proc[p].payload : p \in {q \in Procs : HasVersion(q)}}

\* Versions on their way were handed out by BumpVersion.
PendingIssued ==
    \A a \in Pending : 1 <= a.ver /\ a.ver <= node.desired /\ a.origin # "foreign"

AgentIssued ==
    /\ agent.config.ver <= agent.current
    /\ agent.config.origin # "foreign" =>
          1 <= agent.config.ver /\ agent.config.ver <= node.desired

RowIsTrue(n) ==
    /\ n.applied <= n.desired
    /\ n.applied <= agent.current
    /\ agent.config.ver > 0 => n.applied <= agent.config.ver

VersionInv ==
    TypeOK /\ ReportsAreTrue /\ RepliesMatch /\ PendingIssued /\ AgentIssued
           /\ RowIsTrue(node)

\* A caller that has not sent its request is the only one to know its version.
Unsent ==
    \A p \in Procs :
        proc[p].pc \in {"read", "send"} =>
            /\ \A m \in net : m.ver # proc[p].payload.ver
            /\ agent.config.origin # "foreign" => agent.config.ver # proc[p].payload.ver

UniqueInv == Unsent /\ VersionNamesOneConfig

\* No user list is newer than now, and none that is read is older than its floor.
GenerationsBounded ==
    /\ \A a \in Pending : a.floor <= gen /\ a.gen <= gen
    /\ \A m \in net : m.floor <= m.gen
    /\ \A p \in Procs :
          HasVersion(p) /\ ~At(p, "read") => proc[p].payload.floor <= proc[p].payload.gen
    /\ agent.config.floor <= gen /\ agent.config.gen <= gen
    /\ confirmed <= gen

\* A first attempt with a higher version began later than any attempt below it.
FloorsOrdered ==
    \A a \in Pending : \A b \in Pending \cup {agent.config} :
        b.origin = "first" /\ a.ver <= b.ver => a.floor <= b.floor

\* First attempts the agent would still accept carry what has been vouched for.
PendingFresh ==
    \A b \in Pending :
        b.origin = "first" /\ b.ver > agent.current => b.floor >= confirmed

InstalledFresh ==
    /\ agent.config.origin = "first" =>
          agent.config.floor <= agent.config.gen /\ agent.config.gen >= confirmed
    /\ agent.config.origin = "foreign" => confirmed = 0

FreshInv == GenerationsBounded /\ FloorsOrdered /\ PendingFresh /\ InstalledFresh

\* Callers of SyncNode that may still take a version, for the first attempt and for
\* the retry.
MayTakeFirst(state) ==
    \/ state.pc = "bump"
    \/ /\ state.op = "sync"
       /\ state.pc \notin {"idle", "read", "send", "wait", "log", "mark", "refresh", "rebump"}

MayTakeRetry(state) ==
    \/ MayTakeFirst(state)
    \/ state.pc \in {"refresh", "rebump"}
    \/ state.pc \in {"read", "send", "wait", "log", "mark"} /\ state.mayRetry

FirstDue == {p \in Procs : MayTakeFirst(proc[p])}

RetryDue == {p \in Procs : MayTakeRetry(proc[p])}

\* Versions that may still be taken are paid for by calls already made, and nothing
\* the agent can report is above what the calls so far explain.
BudgetInv ==
    /\ IsFiniteSet(FirstDue) /\ IsFiniteSet(RetryDue)
    /\ Cardinality(FirstDue) + Cardinality(RetryDue) <= 2 * calls
    /\ node.desired + Cardinality(FirstDue) + Cardinality(RetryDue) <= AgentStart + 2 * calls
    /\ agent.current <= AgentStart \/ agent.current <= node.desired

IInv == VersionInv /\ UniqueInv /\ FreshInv /\ BudgetInv
=============================================================================
