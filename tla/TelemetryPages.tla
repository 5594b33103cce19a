---------------------------- MODULE TelemetryPages ----------------------------
(***************************************************************************)
(* What the telemetry service and the panel's pages make of the answers of *)
(* the node agents: the entry of a node (internal/telemetry/service.go),   *)
(* the user a session is attributed to, the filter of the sessions page,   *)
(* the summary, and the text of an issue                                   *)
(* (internal/http/handlers/view_helpers.go). All are functions of what was *)
(* read and answered.                                                      *)
(*                                                                         *)
(* Abstractions: a session is the user id the agent reports, a protocol    *)
(* name and whether it is active; addresses, counters, times, capabilities *)
(* and the order of rows are left out, and so are the filters for protocol *)
(* and text, which look at one row at a time. Error texts and warnings are *)
(* there or blank.                                                         *)
(***************************************************************************)
EXTENDS Naturals, FiniteSets

CONSTANTS
    Users,     \* user ids
    Nodes,     \* node ids
    Names,     \* protocol names
    Busy       \* bound: the nodes that have sessions

\* Tables are finite, and user ids are UUIDs.
ASSUME IdsAssumption ==
    /\ IsFiniteSet(Users) /\ IsFiniteSet(Nodes)
    /\ Users \cap {"", "stranger", "excluded", "unknown"} = {}

\* What skipNode finds out about a node.
Kinds == {"ready", "planned", "missing_api_url", "missing_node_id", "missing_node_secret"}

\* Sessions agents know of. An old agent reports no user id (""), and some sessions belong to
\* users of another panel.
Sessions == [uid: Users \cup {"", "stranger"}, name: Names, active: BOOLEAN]

Statuses == {"ok", "partial", "disabled", "unavailable"}

\* NodeCollectorView. sessions are those the agent has, shown or not.
Entries == [status: Statuses, reason: Kinds \cup {""}, error: BOOLEAN,
            warnings: {"none", "blank", "some"}, sessions: SUBSET Sessions]

Entry(status, reason, error) ==
    [status |-> status, reason |-> reason, error |-> error, warnings |-> "none", sessions |-> {}]

NoEntry == [status |-> "none"]

-----------------------------------------------------------------------------
(* Entries: fetchNodes, fetchNodeView *)

Canceled == Entry("unavailable", "", TRUE)

Skipped(kind) == Entry("disabled", kind, FALSE)

CallFailed == Entry("unavailable", "", TRUE)

\* Faulty variant: what the agent says is taken over.
StatusAsReported(status) == status

\* The answers that are known, and any other.
NormalizedCollectorStatus(status) ==
    IF status \in {"ok", "partial", "disabled"} THEN status ELSE "unavailable"

Answered(status, warnings, sessions) ==
    [status |-> status, reason |-> "", error |-> FALSE, warnings |-> warnings, sessions |-> sessions]

\* What an agent can answer. Entries are looked at one by one, and so are the sessions in
\* one: a busy node is well and has at most one session, other nodes have all the statuses
\* and warnings.
AgentAnswers(n) ==
    IF n \in Busy
    THEN {Answered("ok", "none", S) : S \in {{}} \cup {{s} : s \in Sessions}}
    ELSE {Answered(NormalizedCollectorStatus(status), warnings, {}) :
            status \in {"ok", "partial", "disabled", "unavailable", "other"},
            warnings \in {"none", "blank", "some"}}

\* The entries that fit a node of a kind.
Fitting(n, kind) == {Canceled} \cup IF kind = "ready" THEN AgentAnswers(n) ELSE {Skipped(kind)}

-----------------------------------------------------------------------------
(* Attribution: resolveSessionUser *)

Excluded == "excluded"
Unknown == "unknown"

\* The user id decides if there is one; else the name, if one user alone has it on the node.
\* A page about one user excludes what it cannot attribute.
ResolveSessionUser(s, userMap, holders, strict) ==
    LET found == IF s.uid # "" THEN {s.uid}
                 ELSE IF Cardinality(holders[s.name]) = 1 THEN holders[s.name] ELSE {}
        matched == found \cap userMap
    IN IF matched # {} THEN CHOOSE u \in matched : TRUE
       ELSE IF strict THEN Excluded ELSE Unknown

-----------------------------------------------------------------------------
(* The sessions page: its filter and what it asks the agents for *)

Filters == {"active", "recent", "all"}

\* Faulty variant: past sessions are asked for only when the box is ticked.
IncludeAsRequested(status, requested) == requested

IncludeRecent(status, requested) == requested \/ status \in {"recent", "all"}

\* The sessions an agent reports.
Reported(sessions, includeRecent) == {s \in sessions : s.active \/ includeRecent}

FilterSessions(sessions, status) ==
    {s \in sessions : CASE status = "recent" -> ~s.active
                        [] status = "all" -> TRUE
                        [] OTHER -> s.active}

-----------------------------------------------------------------------------
(* Issues *)

NodeIssueCode(e) ==
    CASE e.reason = "planned" -> ""
      [] e.reason \in {"missing_api_url", "missing_node_id", "missing_node_secret"} -> e.reason
      [] OTHER -> IF e.error THEN "collector_unavailable"
                  ELSE IF e.warnings = "some" THEN "collector_warning"
                  ELSE IF e.status = "partial" THEN "collector_partial"
                  ELSE IF e.status = "unavailable" THEN "collector_unavailable"
                  ELSE IF e.status = "disabled" THEN "collector_disabled"
                  ELSE ""

NodeHasIssue(e) == NodeIssueCode(e) # ""

\* Faulty variant: there is a text for each kind of failure, but "disabled" is not thought one.
TextOfFailures(e) ==
    IF e.error THEN "error"
    ELSE IF e.warnings = "some" THEN "warnings"
    ELSE IF e.reason \in {"missing_api_url", "missing_node_id", "missing_node_secret"} THEN e.reason
    ELSE IF NodeIssueCode(e) \in {"collector_partial", "collector_unavailable"}
         THEN NodeIssueCode(e) ELSE ""

TelemetryIssueText(e) ==
    IF e.error THEN "error"
    ELSE IF e.warnings = "some" THEN "warnings"
    ELSE IF e.reason \in {"missing_api_url", "missing_node_id", "missing_node_secret"} THEN e.reason
    ELSE IF NodeIssueCode(e) \in {"collector_warning", "collector_partial",
                                  "collector_unavailable", "collector_disabled"}
         THEN NodeIssueCode(e) ELSE ""

\* buildSummary: the nodes counted as well and those counted as having issues.
Summary(views, S) ==
    [ok     |-> {n \in S : ~NodeHasIssue(views[n]) /\ views[n].status = "ok"},
     issues |-> {n \in S : NodeHasIssue(views[n])}]
=============================================================================
