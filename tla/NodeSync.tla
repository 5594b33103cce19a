------------------------------ MODULE NodeSync ------------------------------
(***************************************************************************)
(* One node of the panel: its row in the nodes table, the node agent that  *)
(* serves it, and the concurrent handlers of nodes.Manager that keep the   *)
(* two in step (internal/nodes/manager.go over internal/nodes/             *)
(* repository.go and internal/nodes/agent_client.go).                      *)
(*                                                                         *)
(* Every SQL statement is one atomic step and every agent call is a step   *)
(* of its own, so handlers interleave wherever the code leaves a gap: the  *)
(* /status answer is used after it is read, the version is bumped before   *)
(* the users are read, the sync answer is recorded in two statements.      *)
(*                                                                         *)
(* Abstractions:                                                           *)
(*  - the set ActiveAccessForNode returns is represented by its generation *)
(*    gen: every change to the users a node must serve (assign, unassign,  *)
(*    enable, disable, delete, expiry) starts a new generation;            *)
(*  - last_status is "ok" or "failed"; error texts and times are left out; *)
(*  - Get followed by BumpVersion is one step, since both fail exactly     *)
(*    when the row is gone and what Get reads is not modelled;             *)
(*  - a cancelled request context, a database error the handler looks at   *)
(*    and a crash of the panel are one thing to it: it stops (Abort).      *)
(* The agent is another program; it is modelled by what manager.go relies  *)
(* on: it installs only versions above the highest it has received,        *)
(* answers stale_version to the others, and reports its two versions.      *)
(***************************************************************************)
EXTENDS Integers, FiniteSets

CONSTANTS
    Procs,        \* concurrent callers: HTTP requests and the expiry reconciler
    Ops,          \* the handlers those callers may start
    MaxCalls,     \* bound: handlers started in a behaviour
    MaxGen,       \* bound: changes to the users the node must serve
    AgentStart    \* bound: version an agent may already have when it is adopted

AllOps == {"sync", "fetch", "health", "validate", "update", "adopt"}

ASSUME ConstantsAssumption ==
    /\ Ops \subseteq AllOps
    /\ MaxCalls \in Nat
    /\ MaxGen \in Nat
    /\ AgentStart \in Nat

VARIABLES
    node,         \* the row of table nodes
    events,       \* config_version of the rows of node_sync_events
    gen,          \* generation of what ActiveAccessForNode returns now
    agent,        \* the remote agent
    net,          \* /v1/sync requests the agent may still receive
    proc,         \* what each caller is doing
    calls,        \* handlers started so far
    confirmed     \* history: newest generation a successful sync vouched for

vars == <<node, events, gen, agent, net, proc, calls, confirmed>>

-----------------------------------------------------------------------------
(* Types *)

SetupStates == {"planned", "connected", "unreachable", "disabled"}

Nodes == [row: {"absent", "present", "deleted"}, enabled: BOOLEAN, setup: SetupStates,
          desired: Nat, applied: Nat, status: {"none", "ok", "failed"}]

\* A configuration: its version, the generation of the users in it, the
\* generation that was current when its sync began, and where it comes from.
Payloads == [ver: Nat, gen: Nat, floor: Nat, origin: {"foreign", "first", "retry"}]

NoPayload == [ver |-> 0, gen |-> 0, floor |-> 0, origin |-> "foreign"]

Agents == [current: Nat, config: Payloads]

\* The answer to /health ("healthy" or "error") or to /status.
StatusReplies == [kind: {"none", "error", "healthy", "notok", "ok"},
                  current: Nat, applied: Nat]

Told(kind) == [kind |-> kind, current |-> 0, applied |-> 0]

\* The answer to /v1/sync: "garbled" is a body that is not JSON (with any status: it
\* makes no difference), "mistyped" a JSON body that does not decode, "none" no answer.
SyncReplies == [http2xx: BOOLEAN,
                body: {"none", "garbled", "mistyped", "ok", "apply_failed", "stale_version"},
                current: Nat, applied: Nat]

NoReply == [http2xx |-> FALSE, body |-> "none", current |-> 0, applied |-> 0]

Steps == {"idle", "health", "healthmark", "status", "record", "reconcile", "update",
          "create", "remote", "bump", "read", "send", "wait", "log", "mark",
          "refresh", "rebump"}

ProcStates == [pc: Steps, op: AllOps \cup {"none"}, payload: Payloads, mayRetry: BOOLEAN,
               told: StatusReplies, reply: SyncReplies]

Idle == [pc |-> "idle", op |-> "none", payload |-> NoPayload, mayRetry |-> FALSE,
         told |-> Told("none"), reply |-> NoReply]

TypeOK ==
    /\ node \in Nodes
    /\ events \subseteq Nat
    /\ gen \in Nat
    /\ agent \in Agents
    /\ net \subseteq Payloads
    /\ proc \in [Procs -> ProcStates]
    /\ calls \in Nat
    /\ confirmed \in Nat

-----------------------------------------------------------------------------
(* Statements of nodes.Repository, as functions from the row to the new row. *)
(* An UPDATE of a row that is gone changes nothing and reports no error.     *)

Greatest(a, b) == IF a >= b THEN a ELSE b

Present(n) == n.row = "present"

Row(n, changed) == IF Present(n) THEN changed ELSE n

Create(n, adopt, enabled) ==
    [n EXCEPT !.row = "present", !.enabled = enabled,
              !.setup = IF ~enabled THEN "disabled"
                        ELSE IF adopt THEN "connected" ELSE "planned"]

Update(n, enabled) ==
    Row(n, [n EXCEPT !.enabled = enabled,
                     !.setup = IF ~enabled THEN "disabled"
                               ELSE IF @ = "disabled" THEN "planned" ELSE @])

\* Faulty variant: desired_config_version assigned instead of raised.
SyncRemoteStateAssignsDesired(n, current, applied) ==
    LET reported == IF applied <= 0 THEN current ELSE applied
    IN Row(n, [n EXCEPT !.desired = current, !.applied = Greatest(@, reported),
                        !.status = "ok", !.setup = "connected"])

\* Faulty variant: last_applied_version assigned instead of raised.
SyncRemoteStateAssignsApplied(n, current, applied) ==
    LET reported == IF applied <= 0 THEN current ELSE applied
    IN Row(n, [n EXCEPT !.desired = Greatest(@, current), !.applied = reported,
                        !.status = "ok", !.setup = "connected"])

\* Faulty variant: desired_config_version left alone.
SyncRemoteStateSkipsDesired(n, current, applied) ==
    LET reported == IF applied <= 0 THEN current ELSE applied
    IN Row(n, [n EXCEPT !.applied = Greatest(@, reported),
                        !.status = "ok", !.setup = "connected"])

\* Faulty variant: the counter is set to the version after the one the agent reports.
SyncRemoteStateSkipsAhead(n, current, applied) ==
    LET reported == IF applied <= 0 THEN current ELSE applied
    IN Row(n, [n EXCEPT !.desired = Greatest(@, current + 1),
                        !.applied = Greatest(@, reported),
                        !.status = "ok", !.setup = "connected"])

SyncRemoteState(n, current, applied) ==
    LET reported == IF applied <= 0 THEN current ELSE applied
    IN Row(n, [n EXCEPT !.desired = Greatest(@, current),
                        !.applied = Greatest(@, reported),
                        !.status = "ok", !.setup = "connected"])

Delete(n) == Row(n, [n EXCEPT !.row = "deleted"])

BumpVersion(n) == [n EXCEPT !.desired = @ + 1]

\* Faulty variant: a good answer does not restore setup_state.
MarkStatusKeepsSetup(n, ok) == Row(n, [n EXCEPT !.status = IF ok THEN "ok" ELSE "failed"])

MarkStatus(n, ok) ==
    Row(n, [n EXCEPT !.status = IF ok THEN "ok" ELSE "failed",
                     !.setup = IF ok THEN "connected" ELSE @])

\* Faulty variant: takes what was last requested for what was applied.
MarkSyncSuccessTrustsDesired(n, version) ==
    Row(n, [n EXCEPT !.applied = n.desired, !.status = "ok", !.setup = "connected"])

MarkSyncSuccess(n, version) ==
    Row(n, [n EXCEPT !.applied = version, !.status = "ok", !.setup = "connected"])

\* Faulty variant: the failure is written into setup_state.
MarkSyncFailureIntoSetup(n, status) ==
    Row(n, [n EXCEPT !.status = "failed", !.setup = status])

MarkSyncFailure(n, status) ==
    Row(n, [n EXCEPT !.status = "failed",
                     !.setup = IF status = "http_error" THEN "unreachable" ELSE @])

-----------------------------------------------------------------------------
(* Control of a caller *)

At(p, step) == proc[p].pc = step

Goto(p, state) == proc' = [proc EXCEPT ![p] = state]

Continue(p, step) == Goto(p, [proc[p] EXCEPT !.pc = step])

Return(p) == Goto(p, Idle)

\* A statement whose error the handler ignores.
Try(changed) == node' \in {node, changed}

Begin(p, op, step) ==
    /\ At(p, "idle")
    /\ op \in Ops
    /\ calls < MaxCalls
    /\ calls' = calls + 1
    /\ Goto(p, [Idle EXCEPT !.op = op, !.pc = step])
    /\ UNCHANGED <<node, events, gen, agent, net, confirmed>>

-----------------------------------------------------------------------------
(* Handlers, from their first Get to their return *)

StartSync(p) == Present(node) /\ Begin(p, "sync", "status")

StartFetchStatus(p) == Present(node) /\ Begin(p, "fetch", "status")

StartHealth(p) == Present(node) /\ Begin(p, "health", "health")

StartValidate(p) == Present(node) /\ Begin(p, "validate", "status")

\* UpdateNode asks the agent first when the node is connected and the submitted
\* fields are complete.
StartUpdate(p) ==
    /\ Present(node)
    /\ \E complete \in BOOLEAN :
          Begin(p, "update",
                IF node.setup = "connected" /\ complete THEN "status" ELSE "update")

StartAdopt(p) == node.row = "absent" /\ Begin(p, "adopt", "status")

CreatePlanned ==
    /\ node.row = "absent"
    /\ \E enabled \in BOOLEAN : node' = Create(node, FALSE, enabled)
    /\ UNCHANGED <<events, gen, agent, net, proc, calls, confirmed>>

DeleteNode ==
    /\ Present(node)
    /\ node' = Delete(node)
    /\ UNCHANGED <<events, gen, agent, net, proc, calls, confirmed>>

CallHealth(p) ==
    /\ At(p, "health")
    /\ \E kind \in {"healthy", "error"} :
          Goto(p, [proc[p] EXCEPT !.pc = "healthmark", !.told = Told(kind)])
    /\ UNCHANGED <<node, events, gen, agent, net, calls, confirmed>>

RecordHealth(p) ==
    /\ At(p, "healthmark")
    /\ Try(MarkStatus(node, proc[p].told.kind = "healthy"))
    /\ IF proc[p].told.kind = "healthy" THEN Continue(p, "status") ELSE Return(p)
    /\ UNCHANGED <<events, gen, agent, net, calls, confirmed>>

\* What /status may answer: an error or a timeout, ok=false (or an answer that
\* names another node), or the agent's two versions.
StatusAnswers ==
    {Told("error"), Told("notok"),
     [kind |-> "ok", current |-> agent.current, applied |-> agent.config.ver]}

\* Where each handler goes with the answer: validateNodeAgentConfig ends in an
\* error that changes nothing, fetchAndReconcileStatus records what it got.
CallStatus(p) ==
    /\ At(p, "status")
    /\ \E told \in StatusAnswers :
          IF proc[p].op \in {"sync", "fetch", "health"}
          THEN Goto(p, [proc[p] EXCEPT !.pc = "record", !.told = told])
          ELSE IF told.kind # "ok"
          THEN Return(p)
          ELSE Goto(p, [proc[p] EXCEPT !.told = told,
                                       !.pc = CASE proc[p].op = "update" -> "update"
                                                [] proc[p].op = "adopt"  -> "create"
                                                [] OTHER                 -> "remote"])
    /\ UNCHANGED <<node, events, gen, agent, net, calls, confirmed>>

RecordStatus(p) ==
    /\ At(p, "record")
    /\ Try(MarkStatus(node, proc[p].told.kind # "error"))
    /\ IF proc[p].told.kind = "error" THEN Return(p) ELSE Continue(p, "reconcile")
    /\ UNCHANGED <<events, gen, agent, net, calls, confirmed>>

Reconcile(p) ==
    /\ At(p, "reconcile")
    /\ IF proc[p].told.kind = "notok"
       THEN /\ Try(MarkStatus(node, FALSE))
            /\ Return(p)
       ELSE /\ node' = SyncRemoteState(node, proc[p].told.current, proc[p].told.applied)
            /\ IF proc[p].op = "sync"
               THEN Goto(p, [proc[p] EXCEPT !.pc = "bump", !.told = Told("none")])
               ELSE Return(p)
    /\ UNCHANGED <<events, gen, agent, net, calls, confirmed>>

UpdateRow(p) ==
    /\ At(p, "update")
    /\ \E enabled \in BOOLEAN : node' = Update(node, enabled)
    /\ IF ~Present(node) THEN Return(p)
       ELSE IF proc[p].told.kind = "ok" THEN Continue(p, "remote")
       ELSE Return(p)
    /\ UNCHANGED <<events, gen, agent, net, calls, confirmed>>

\* node_id is unique, so of two callers adopting the same node one fails.
CreateAdopted(p) ==
    /\ At(p, "create")
    /\ IF node.row = "absent"
       THEN /\ \E enabled \in BOOLEAN : node' = Create(node, TRUE, enabled)
            /\ Continue(p, "remote")
       ELSE node' = node /\ Return(p)
    /\ UNCHANGED <<events, gen, agent, net, calls, confirmed>>

RecordRemote(p) ==
    /\ At(p, "remote")
    /\ node' = SyncRemoteState(node, proc[p].told.current, proc[p].told.applied)
    /\ Return(p)
    /\ UNCHANGED <<events, gen, agent, net, calls, confirmed>>

-----------------------------------------------------------------------------
(* SyncNode after its /status check: bump, read, send, record the answer *)

Bump(p) ==
    /\ At(p, "bump")
    /\ IF Present(node)
       THEN /\ node' = BumpVersion(node)
            /\ Goto(p, [proc[p] EXCEPT
                          !.pc = "read", !.mayRetry = TRUE,
                          !.payload = [ver |-> node.desired + 1, gen |-> 0,
                                       floor |-> gen, origin |-> "first"]])
       ELSE node' = node /\ Return(p)
    /\ UNCHANGED <<events, gen, agent, net, calls, confirmed>>

ReadActiveAccess(p) ==
    /\ At(p, "read")
    /\ Goto(p, [proc[p] EXCEPT !.pc = "send", !.payload.gen = gen])
    /\ UNCHANGED <<node, events, gen, agent, net, calls, confirmed>>

Send(p) ==
    /\ At(p, "send")
    /\ net' = net \cup {proc[p].payload}
    /\ Continue(p, "wait")
    /\ UNCHANGED <<node, events, gen, agent, calls, confirmed>>

FailedReplies ==
    {NoReply,
     [NoReply EXCEPT !.body = "garbled"],
     [NoReply EXCEPT !.body = "mistyped", !.http2xx = TRUE]}

\* Faulty variant: a client without a time limit waits for a request under way.
CallFailsWhenLost(p) ==
    /\ At(p, "wait")
    /\ proc[p].payload \notin net
    /\ Goto(p, [proc[p] EXCEPT !.pc = "log", !.reply = NoReply])
    /\ UNCHANGED <<node, events, gen, agent, net, calls, confirmed>>

\* No usable answer: the 30 s limit passes, the connection fails, or something
\* else answers. The request may have been lost, or may still arrive.
CallFails(p) ==
    /\ At(p, "wait")
    /\ \E reply \in FailedReplies :
          Goto(p, [proc[p] EXCEPT !.pc = "log", !.reply = reply])
    /\ net' \in {net, net \ {proc[p].payload}}
    /\ UNCHANGED <<node, events, gen, agent, calls, confirmed>>

\* Faulty variant: any 2xx answer counts as success (ok=false is not looked at).
SyncStatusByHTTP(reply) == IF ~reply.http2xx THEN "http_error" ELSE "ok"

SyncStatus(reply) ==
    IF ~reply.http2xx THEN "http_error"
    ELSE IF reply.body \in {"garbled", "mistyped"} THEN "decode_error"
    ELSE reply.body

RetryAsked(p) == proc[p].mayRetry /\ proc[p].reply.body = "stale_version"

\* InsertSyncEvent: the row needs its node (a foreign key) and an answer that is
\* JSON or absent (response_json is jsonb); otherwise the handler returns at once.
InsertSyncEvent(p) ==
    /\ At(p, "log")
    /\ IF Present(node) /\ proc[p].reply.body # "garbled"
       THEN /\ events' = events \cup {proc[p].payload.ver}
            /\ Continue(p, "mark")
       ELSE events' = events /\ Return(p)
    /\ UNCHANGED <<node, gen, agent, net, calls, confirmed>>

\* The answer's applied_version, or the version sent when the agent leaves it out.
AppliedVersion(p) ==
    IF proc[p].reply.applied <= 0 THEN proc[p].payload.ver ELSE proc[p].reply.applied

RecordSuccess(p) ==
    /\ At(p, "mark")
    /\ SyncStatus(proc[p].reply) = "ok"
    /\ node' = MarkSyncSuccess(node, AppliedVersion(p))
    /\ confirmed' = Greatest(confirmed, proc[p].payload.floor)
    /\ Return(p)
    /\ UNCHANGED <<events, gen, agent, net, calls>>

RecordFailure(p) ==
    /\ At(p, "mark")
    /\ SyncStatus(proc[p].reply) # "ok"
    /\ IF RetryAsked(p)
       THEN /\ Try(MarkSyncFailure(node, "stale_version"))
            /\ Continue(p, "refresh")
       ELSE /\ Try(MarkSyncFailure(node, SyncStatus(proc[p].reply)))
            /\ Return(p)
    /\ UNCHANGED <<events, gen, agent, net, calls, confirmed>>

RefreshVersion(p) ==
    /\ At(p, "refresh")
    /\ node' = SyncRemoteState(node, proc[p].reply.current, proc[p].reply.applied)
    /\ Continue(p, "rebump")
    /\ UNCHANGED <<events, gen, agent, net, calls, confirmed>>

\* The retry sends the users read for the first attempt under a new version.
Rebump(p) ==
    /\ At(p, "rebump")
    /\ IF Present(node)
       THEN /\ node' = BumpVersion(node)
            /\ Goto(p, [proc[p] EXCEPT
                          !.pc = "send", !.mayRetry = FALSE, !.reply = NoReply,
                          !.payload.ver = node.desired + 1, !.payload.origin = "retry"])
       ELSE node' = node /\ Return(p)
    /\ UNCHANGED <<events, gen, agent, net, calls, confirmed>>

\* The request context is cancelled, a statement fails, or the panel stops.
Abort(p) ==
    /\ ~At(p, "idle")
    /\ Return(p)
    /\ UNCHANGED <<node, events, gen, agent, net, calls, confirmed>>

-----------------------------------------------------------------------------
(* The node agent, and the rest of the panel *)

\* An answer reaches the caller that waits for it, or is lost.
Answer(m, reply) ==
    \/ \E p \in Procs :
          /\ At(p, "wait")
          /\ proc[p].payload.ver = m.ver
          /\ Goto(p, [proc[p] EXCEPT !.pc = "log", !.reply = reply])
    \/ proc' = proc

Receive(m) ==
    /\ net' = net \ {m}
    /\ UNCHANGED <<node, events, gen, calls, confirmed>>

AgentApplies(m) ==
    /\ m.ver > agent.current
    /\ agent' = [current |-> m.ver, config |-> m]
    /\ Answer(m, [http2xx |-> TRUE, body |-> "ok", current |-> m.ver, applied |-> m.ver])
    /\ Receive(m)

\* A configuration that fails to apply may still count as received.
AgentFailsToApply(m) ==
    /\ m.ver > agent.current
    /\ \E received \in {agent.current, m.ver}, http2xx \in BOOLEAN :
          /\ agent' = [agent EXCEPT !.current = received]
          /\ Answer(m, [http2xx |-> http2xx, body |-> "apply_failed",
                        current |-> received, applied |-> agent.config.ver])
    /\ Receive(m)

AgentRefusesStale(m) ==
    /\ m.ver <= agent.current
    /\ \E http2xx \in BOOLEAN :
          Answer(m, [http2xx |-> http2xx, body |-> "stale_version",
                     current |-> agent.current, applied |-> agent.config.ver])
    /\ agent' = agent
    /\ Receive(m)

\* An administrator, or the clock, changes the users this node must serve.
AccessChange ==
    /\ gen < MaxGen
    /\ gen' = gen + 1
    /\ UNCHANGED <<node, events, agent, net, proc, calls, confirmed>>

-----------------------------------------------------------------------------
(* Specification *)

NoRow == [row |-> "absent", enabled |-> TRUE, setup |-> "planned",
          desired |-> 0, applied |-> 0, status |-> "none"]

Init ==
    /\ node = NoRow
    /\ events = {}
    /\ gen = 0
    /\ \E received \in 0..AgentStart : \E applied \in {0, received} :
          agent = [current |-> received, config |-> [NoPayload EXCEPT !.ver = applied]]
    /\ net = {}
    /\ proc = [p \in Procs |-> Idle]
    /\ calls = 0
    /\ confirmed = 0

Start(p) ==
    \/ StartSync(p) \/ StartFetchStatus(p) \/ StartHealth(p)
    \/ StartValidate(p) \/ StartUpdate(p) \/ StartAdopt(p)

\* A step the handler takes by itself; the time limits of agent_client.go make
\* a pending call end, so CallFails is one of them.
Step(p) ==
    \/ CallHealth(p) \/ RecordHealth(p) \/ CallStatus(p) \/ RecordStatus(p)
    \/ Reconcile(p) \/ UpdateRow(p) \/ CreateAdopted(p) \/ RecordRemote(p)
    \/ Bump(p) \/ ReadActiveAccess(p) \/ Send(p) \/ CallFails(p)
    \/ InsertSyncEvent(p) \/ RecordSuccess(p) \/ RecordFailure(p)
    \/ RefreshVersion(p) \/ Rebump(p)

AgentStep ==
    \E m \in net : AgentApplies(m) \/ AgentFailsToApply(m) \/ AgentRefusesStale(m)

Next ==
    \/ CreatePlanned \/ DeleteNode \/ AccessChange
    \/ \E p \in Procs : Start(p) \/ Step(p) \/ Abort(p)
    \/ AgentStep

Spec == Init /\ [][Next]_vars

Fairness == \A p \in Procs : WF_vars(Step(p))

FairSpec == Spec /\ Fairness

-----------------------------------------------------------------------------
(* Properties *)

HasVersion(p) ==
    proc[p].pc \in {"read", "send", "wait", "log", "mark", "refresh", "rebump"}

\* Every configuration that has been given a version and still matters.
Issued ==
    net \cup {proc[p].payload : p \in {q \in Procs : HasVersion(q) /\ ~At(q, "read")}}
        \cup {c \in {agent.config} : c.origin # "foreign"}

\* A version number names one configuration: concurrent syncs never send two
\* different user lists to the agent under the same config_version, whatever stale
\* /status answers are written to the row between two bumps.
VersionNamesOneConfig ==
    /\ \A a, b \in Issued : a.ver = b.ver => a = b
    /\ \A p, q \in Procs :
          HasVersion(p) /\ HasVersion(q) /\ proc[p].payload.ver = proc[q].payload.ver => p = q

\* last_applied_version never passes desired_config_version, although the two are
\* written by different statements from answers that may be late.
AppliedLeDesired == node.applied <= node.desired

\* The panel never shows a version as applied that the agent has not reached. Until
\* the agent has applied anything it reports no applied version and the panel takes
\* the received one (remoteAppliedVersionFromStatus).
PanelNeverOverclaims == agent.config.ver > 0 => node.applied <= agent.config.ver

\* Each SyncNode call uses at most two versions, its own and one for its retry, so
\* version numbers grow no faster than calls, however calls interleave and retry.
VersionBudget == node.desired <= AgentStart + 2 * calls

\* A sync that reported success is not undone: the agent keeps the users that were
\* current when that sync began, or newer ones, whatever slower syncs, late requests
\* and lost answers do. The retry after stale_version is the exception.
ConfirmedNotUndone == agent.config.origin # "retry" => agent.config.gen >= confirmed

\* A node shown as unreachable is not counted online (Count counts last_status='ok'),
\* although setup_state and last_status are written by racing handlers.
UnreachableNotOnline == node.setup = "unreachable" => node.status # "ok"

\* last_applied_version goes back only when the acknowledgement of an overtaken sync
\* is written late; answers to /status and stale answers never lower it.
AppliedRegressesOnlyByLateAck ==
    [][node'.applied < node.applied =>
          \E p \in Procs : /\ At(p, "mark")
                           /\ proc[p].reply.body = "ok"
                           /\ proc[p].payload.ver < agent.current]_vars

\* Every handler returns: with the time limits of the agent calls and a single
\* retry no handler waits for ever, even when every answer is lost.
HandlersReturn == \A p \in Procs : ~At(p, "idle") ~> At(p, "idle")

\* SyncNode implements the promise of SyncPromise.
Promise == INSTANCE SyncPromise
    WITH want <- gen, have <- agent.config.gen, vouched <- confirmed,
         overridden <- (agent.config.origin = "retry")

KeepsPromise == Promise!Spec

-----------------------------------------------------------------------------
(* What the documentation says and the code does not do *)

\* README "Disabled or expired users ... are excluded from node sync payloads": once
\* a sync that began after a change has succeeded, the agent never goes back to
\* users older than that change.
RevocationHolds == agent.config.gen >= confirmed

\* README "on failure it records `last_error` and a row in `node_sync_events`": when
\* the answer to /v1/sync is in and the node exists, its row is written.
SyncFailureIsRecorded ==
    [][\A p \in Procs :
          InsertSyncEvent(p) /\ Present(node) => proc[p].payload.ver \in events']_vars

\* README "`disabled`: node is intentionally disabled in the backend".
DisabledNodeIsShownDisabled == Present(node) /\ ~node.enabled => node.setup = "disabled"
=============================================================================
