--------------------------- MODULE NodeSyncProofs ---------------------------
(* Theorems about NodeSync, for every set of callers and every bound. *)
EXTENDS NodeSync, TLAPS

-----------------------------------------------------------------------------
(* Types *)

\* The statements of nodes.Repository keep the row well formed.
LEMMA RowTypes ==
    ASSUME NEW n \in Nodes, NEW a \in Nat, NEW b \in Nat, NEW flag \in BOOLEAN, NEW status
    PROVE  /\ Create(n, flag, TRUE) \in Nodes
           /\ Create(n, flag, FALSE) \in Nodes
           /\ Update(n, flag) \in Nodes
           /\ SyncRemoteState(n, a, b) \in Nodes
           /\ Delete(n) \in Nodes
           /\ BumpVersion(n) \in Nodes
           /\ MarkStatus(n, flag) \in Nodes
           /\ MarkSyncSuccess(n, a) \in Nodes
           /\ MarkSyncFailure(n, status) \in Nodes
<1> USE DEF Nodes, SetupStates, Row, Present
<1>1. Create(n, flag, TRUE) \in Nodes /\ Create(n, flag, FALSE) \in Nodes
      BY DEF Create
<1>2. Update(n, flag) \in Nodes
      BY DEF Update
<1>3. SyncRemoteState(n, a, b) \in Nodes
      BY DEF SyncRemoteState, Greatest
<1>4. Delete(n) \in Nodes /\ BumpVersion(n) \in Nodes
      BY DEF Delete, BumpVersion
<1>5. MarkStatus(n, flag) \in Nodes
      BY DEF MarkStatus
<1>6. MarkSyncSuccess(n, a) \in Nodes /\ MarkSyncFailure(n, status) \in Nodes
      BY DEF MarkSyncSuccess, MarkSyncFailure
<1>  QED BY <1>1, <1>2, <1>3, <1>4, <1>5, <1>6

LEMMA InitialTypes ==
    /\ NoPayload \in Payloads
    /\ NoReply \in SyncReplies
    /\ \A kind \in {"none", "error", "healthy", "notok", "ok"} : Told(kind) \in StatusReplies
    /\ Idle \in ProcStates
    /\ NoRow \in Nodes
BY DEF NoPayload, Payloads, NoReply, SyncReplies, Told, StatusReplies, Idle, ProcStates,
       Steps, AllOps, NoRow, Nodes, SetupStates

\* A caller that moves on, or returns, is still in a well formed state.
LEMMA GotoType ==
    ASSUME TypeOK, NEW p \in Procs, NEW state \in ProcStates, Goto(p, state)
    PROVE  proc' \in [Procs -> ProcStates]
BY DEF TypeOK, Goto

LEMMA ContinueType ==
    ASSUME TypeOK, NEW p \in Procs, NEW step \in Steps, Continue(p, step)
    PROVE  proc' \in [Procs -> ProcStates]
BY DEF TypeOK, Continue, Goto, ProcStates

LEMMA ReturnType ==
    ASSUME TypeOK, NEW p \in Procs, Return(p)
    PROVE  proc' \in [Procs -> ProcStates]
BY InitialTypes DEF TypeOK, Return, Goto

LEMMA BeginType ==
    ASSUME TypeOK, NEW p \in Procs, NEW op \in AllOps, NEW step \in Steps, Begin(p, op, step)
    PROVE  TypeOK'
<1>1. [Idle EXCEPT !.op = op, !.pc = step] \in ProcStates
      BY InitialTypes DEF ProcStates
<1>2. Goto(p, [Idle EXCEPT !.op = op, !.pc = step])
      BY DEF Begin
<1>3. proc' \in [Procs -> ProcStates]
      BY <1>1, <1>2, GotoType
<1>  QED BY <1>3 DEF Begin, TypeOK

\* An answer of the agent keeps its caller well formed.
LEMMA AnswerType ==
    ASSUME TypeOK, NEW m, NEW reply \in SyncReplies, Answer(m, reply)
    PROVE  proc' \in [Procs -> ProcStates]
<1>1. CASE proc' = proc
      BY <1>1 DEF TypeOK
<1>2. ASSUME NEW p \in Procs, Goto(p, [proc[p] EXCEPT !.pc = "log", !.reply = reply])
      PROVE  proc' \in [Procs -> ProcStates]
  <2>1. [proc[p] EXCEPT !.pc = "log", !.reply = reply] \in ProcStates
        BY DEF TypeOK, ProcStates, Steps
  <2>  QED BY <1>2, <2>1, GotoType
<1>  QED BY <1>1, <1>2 DEF Answer

LEMMA TypeInit == Init => TypeOK
BY InitialTypes, ConstantsAssumption
   DEF Init, TypeOK, Agents, Payloads, NoPayload

LEMMA TypeNext == TypeOK /\ [Next]_vars => TypeOK'
<1> SUFFICES ASSUME TypeOK, [Next]_vars PROVE TypeOK'
    OBVIOUS
<1> USE InitialTypes
<1>1. CASE CreatePlanned
      BY <1>1, RowTypes DEF CreatePlanned, TypeOK
<1>2. CASE DeleteNode
      BY <1>2, RowTypes DEF DeleteNode, TypeOK
<1>3. CASE AccessChange
      BY <1>3 DEF AccessChange, TypeOK
<1>4. ASSUME NEW p \in Procs, Start(p) PROVE TypeOK'
      BY <1>4, BeginType
      DEF Start, StartSync, StartFetchStatus, StartHealth, StartValidate, StartUpdate,
          StartAdopt, AllOps, Steps
<1>5. ASSUME NEW p \in Procs, Abort(p) PROVE TypeOK'
      BY <1>5, ReturnType DEF Abort, TypeOK
<1>6. ASSUME NEW p \in Procs, Step(p) PROVE TypeOK'
  <2>0. proc[p] \in ProcStates
        BY DEF TypeOK
  <2>1. CASE CallHealth(p)
    <3>1. PICK kind \in {"healthy", "error"} :
              Goto(p, [proc[p] EXCEPT !.pc = "healthmark", !.told = Told(kind)])
          BY <2>1 DEF CallHealth
    <3>2. [proc[p] EXCEPT !.pc = "healthmark", !.told = Told(kind)] \in ProcStates
          BY <2>0 DEF ProcStates, Steps
    <3>  QED BY <2>1, <3>1, <3>2, GotoType DEF CallHealth, TypeOK
  <2>2. CASE RecordHealth(p)
    <3>1. proc' \in [Procs -> ProcStates]
          BY <2>2, ReturnType, ContinueType DEF RecordHealth, Steps
    <3>  QED BY <2>2, <3>1, RowTypes DEF RecordHealth, Try, TypeOK
  <2>3. CASE CallStatus(p)
    <3>1. PICK told \in StatusAnswers :
             IF proc[p].op \in {"sync", "fetch", "health"}
             THEN Goto(p, [proc[p] EXCEPT !.pc = "record", !.told = told])
             ELSE IF told.kind # "ok"
             THEN Return(p)
             ELSE Goto(p, [proc[p] EXCEPT !.told = told,
                                          !.pc = CASE proc[p].op = "update" -> "update"
                                                   [] proc[p].op = "adopt"  -> "create"
                                                   [] OTHER                 -> "remote"])
          BY <2>3 DEF CallStatus
    <3>2. told \in StatusReplies
          BY DEF StatusAnswers, StatusReplies, TypeOK, Agents, Payloads
    <3>3. /\ [proc[p] EXCEPT !.pc = "record", !.told = told] \in ProcStates
          /\ \A step \in Steps : [proc[p] EXCEPT !.told = told, !.pc = step] \in ProcStates
          BY <2>0, <3>2 DEF ProcStates, Steps
    <3>4. (CASE proc[p].op = "update" -> "update"
             [] proc[p].op = "adopt"  -> "create"
             [] OTHER                 -> "remote") \in Steps
          BY DEF Steps
    <3>5. proc' \in [Procs -> ProcStates]
          BY <3>1, <3>3, <3>4, GotoType, ReturnType
    <3>  QED BY <2>3, <3>5 DEF CallStatus, TypeOK
  <2>4. CASE RecordStatus(p)
    <3>1. proc' \in [Procs -> ProcStates]
          BY <2>4, ReturnType, ContinueType DEF RecordStatus, Steps
    <3>  QED BY <2>4, <3>1, RowTypes DEF RecordStatus, Try, TypeOK
  <2>5. CASE Reconcile(p)
    <3>1. [proc[p] EXCEPT !.pc = "bump", !.told = Told("none")] \in ProcStates
          BY <2>0 DEF ProcStates, Steps
    <3>2. proc' \in [Procs -> ProcStates]
          BY <2>5, <3>1, ReturnType, GotoType DEF Reconcile
    <3>3. proc[p].told.current \in Nat /\ proc[p].told.applied \in Nat
          BY <2>0 DEF ProcStates, StatusReplies
    <3>  QED BY <2>5, <3>2, <3>3, RowTypes DEF Reconcile, Try, TypeOK
  <2>6. CASE UpdateRow(p)
    <3>1. proc' \in [Procs -> ProcStates]
          BY <2>6, ReturnType, ContinueType DEF UpdateRow, Steps
    <3>  QED BY <2>6, <3>1, RowTypes DEF UpdateRow, TypeOK
  <2>7. CASE CreateAdopted(p)
    <3>1. proc' \in [Procs -> ProcStates]
          BY <2>7, ReturnType, ContinueType DEF CreateAdopted, Steps
    <3>  QED BY <2>7, <3>1, RowTypes DEF CreateAdopted, TypeOK
  <2>8. CASE RecordRemote(p)
    <3>1. proc' \in [Procs -> ProcStates]
          BY <2>8, ReturnType DEF RecordRemote
    <3>2. proc[p].told.current \in Nat /\ proc[p].told.applied \in Nat
          BY <2>0 DEF ProcStates, StatusReplies
    <3>  QED BY <2>8, <3>1, <3>2, RowTypes DEF RecordRemote, TypeOK
  <2>9. CASE Bump(p)
    <3>0. [ver |-> node.desired + 1, gen |-> 0, floor |-> gen, origin |-> "first"]
              \in Payloads
          BY DEF Payloads, TypeOK, Nodes
    <3>1. [proc[p] EXCEPT !.pc = "read", !.mayRetry = TRUE,
                          !.payload = [ver |-> node.desired + 1, gen |-> 0,
                                       floor |-> gen, origin |-> "first"]] \in ProcStates
          BY <2>0, <3>0 DEF ProcStates, Steps
    <3>2. proc' \in [Procs -> ProcStates]
          BY <2>9, <3>1, ReturnType, GotoType DEF Bump
    <3>  QED BY <2>9, <3>2, RowTypes DEF Bump, TypeOK
  <2>10. CASE ReadActiveAccess(p)
    <3>1. [proc[p] EXCEPT !.pc = "send", !.payload.gen = gen] \in ProcStates
          BY <2>0 DEF ProcStates, Steps, Payloads, TypeOK
    <3>  QED BY <2>10, <3>1, GotoType DEF ReadActiveAccess, TypeOK
  <2>11. CASE Send(p)
    <3>1. proc[p].payload \in Payloads
          BY <2>0 DEF ProcStates
    <3>  QED BY <2>11, <3>1, ContinueType DEF Send, TypeOK, Steps
  <2>12. CASE CallFails(p)
    <3>1. PICK reply \in FailedReplies :
              Goto(p, [proc[p] EXCEPT !.pc = "log", !.reply = reply])
          BY <2>12 DEF CallFails
    <3>2. [proc[p] EXCEPT !.pc = "log", !.reply = reply] \in ProcStates
          BY <2>0 DEF ProcStates, Steps, FailedReplies, SyncReplies, NoReply
    <3>3. proc' \in [Procs -> ProcStates]
          BY <3>1, <3>2, GotoType
    <3>  QED BY <2>12, <3>3 DEF CallFails, TypeOK
  <2>13. CASE InsertSyncEvent(p)
    <3>1. proc' \in [Procs -> ProcStates]
          BY <2>13, ReturnType, ContinueType DEF InsertSyncEvent, Steps
    <3>2. proc[p].payload.ver \in Nat
          BY <2>0 DEF ProcStates, Payloads
    <3>  QED BY <2>13, <3>1, <3>2 DEF InsertSyncEvent, TypeOK
  <2>14. CASE RecordSuccess(p)
    <3>1. AppliedVersion(p) \in Nat /\ proc[p].payload.floor \in Nat
          BY <2>0 DEF AppliedVersion, ProcStates, SyncReplies, Payloads
    <3>2. Greatest(confirmed, proc[p].payload.floor) \in Nat
          BY <3>1 DEF Greatest, TypeOK
    <3>  QED BY <2>14, <3>1, <3>2, ReturnType, RowTypes DEF RecordSuccess, TypeOK
  <2>15. CASE RecordFailure(p)
    <3>1. proc' \in [Procs -> ProcStates]
          BY <2>15, ReturnType, ContinueType DEF RecordFailure, Steps
    <3>  QED BY <2>15, <3>1, RowTypes DEF RecordFailure, Try, TypeOK
  <2>16. CASE RefreshVersion(p)
    <3>1. proc[p].reply.current \in Nat /\ proc[p].reply.applied \in Nat
          BY <2>0 DEF ProcStates, SyncReplies
    <3>  QED BY <2>16, <3>1, ContinueType, RowTypes DEF RefreshVersion, TypeOK, Steps
  <2>17. CASE Rebump(p)
    <3>0. node.desired + 1 \in Nat
          BY DEF TypeOK, Nodes
    <3>1. [proc[p] EXCEPT !.pc = "send", !.mayRetry = FALSE, !.reply = NoReply,
                          !.payload.ver = node.desired + 1,
                          !.payload.origin = "retry"] \in ProcStates
          BY <2>0, <3>0 DEF ProcStates, Steps, Payloads
    <3>2. proc' \in [Procs -> ProcStates]
          BY <2>17, <3>1, ReturnType, GotoType DEF Rebump
    <3>  QED BY <2>17, <3>2, RowTypes DEF Rebump, TypeOK
  <2>  QED BY <1>6, <2>1, <2>2, <2>3, <2>4, <2>5, <2>6, <2>7, <2>8, <2>9, <2>10, <2>11,
              <2>12, <2>13, <2>14, <2>15, <2>16, <2>17 DEF Step
<1>7. ASSUME NEW m \in net,
             AgentApplies(m) \/ AgentFailsToApply(m) \/ AgentRefusesStale(m)
      PROVE  TypeOK'
  <2>0. m \in Payloads /\ m.ver \in Nat /\ agent.current \in Nat /\ agent.config.ver \in Nat
        BY DEF TypeOK, Payloads, Agents
  <2>1. CASE AgentApplies(m)
    <3>1. [http2xx |-> TRUE, body |-> "ok", current |-> m.ver, applied |-> m.ver]
              \in SyncReplies
          BY <2>0 DEF SyncReplies
    <3>  QED BY <2>0, <2>1, <3>1, AnswerType DEF AgentApplies, Receive, TypeOK, Agents
  <2>2. CASE AgentFailsToApply(m)
    <3>1. PICK received \in {agent.current, m.ver}, http2xx \in BOOLEAN :
             /\ agent' = [agent EXCEPT !.current = received]
             /\ Answer(m, [http2xx |-> http2xx, body |-> "apply_failed",
                           current |-> received, applied |-> agent.config.ver])
          BY <2>2 DEF AgentFailsToApply
    <3>2. [http2xx |-> http2xx, body |-> "apply_failed",
           current |-> received, applied |-> agent.config.ver] \in SyncReplies
          BY <2>0 DEF SyncReplies
    <3>3. agent' \in Agents
          BY <2>0, <3>1 DEF Agents, TypeOK
    <3>  QED BY <2>2, <3>1, <3>2, <3>3, AnswerType DEF AgentFailsToApply, Receive, TypeOK
  <2>3. CASE AgentRefusesStale(m)
    <3>1. PICK http2xx \in BOOLEAN :
             Answer(m, [http2xx |-> http2xx, body |-> "stale_version",
                        current |-> agent.current, applied |-> agent.config.ver])
          BY <2>3 DEF AgentRefusesStale
    <3>2. [http2xx |-> http2xx, body |-> "stale_version",
           current |-> agent.current, applied |-> agent.config.ver] \in SyncReplies
          BY <2>0 DEF SyncReplies
    <3>  QED BY <2>3, <3>1, <3>2, AnswerType DEF AgentRefusesStale, Receive, TypeOK
  <2>  QED BY <1>7, <2>1, <2>2, <2>3
<1>8. CASE UNCHANGED vars
      BY <1>8 DEF vars, TypeOK
<1>  QED BY <1>1, <1>2, <1>3, <1>4, <1>5, <1>6, <1>7, <1>8 DEF Next, AgentStep

\* Every reachable state is well typed, for every set of callers and every bound.
THEOREM TypeCorrect == Spec => []TypeOK
<1>1. Init => TypeOK
      BY TypeInit
<1>2. TypeOK /\ [Next]_vars => TypeOK'
      BY TypeNext
<1>  QED BY <1>1, <1>2, PTL DEF Spec

-----------------------------------------------------------------------------
(* Statements on the row *)

\* The statements that leave both versions alone, and those that write them.
KeepsVersions(n, n2) ==
    \/ n2 = n \/ n2 = Delete(n)
    \/ \E flag, other \in BOOLEAN :
          n2 = Create(n, flag, other) \/ n2 = Update(n, flag) \/ n2 = MarkStatus(n, flag)
    \/ \E status : n2 = MarkSyncFailure(n, status)

WritesReport(n, n2) ==
    \E p \in Procs : \E report \in {proc[p].told, proc[p].reply} :
        n2 = SyncRemoteState(n, report.current, report.applied)

\* What a step of the system is to the row.
LEMMA RowSteps ==
    ASSUME [Next]_vars
    PROVE  \/ KeepsVersions(node, node') \/ WritesReport(node, node')
           \/ \E p \in Procs : (Bump(p) \/ Rebump(p)) /\ node' = BumpVersion(node)
           \/ \E p \in Procs : RecordSuccess(p)
<1>1. CASE UNCHANGED vars
      BY <1>1 DEF vars, KeepsVersions
<1>2. CASE CreatePlanned
      BY <1>2 DEF CreatePlanned, KeepsVersions
<1>3. CASE DeleteNode \/ AccessChange
      BY <1>3 DEF DeleteNode, AccessChange, KeepsVersions
<1>4. CASE AgentStep
      BY <1>4 DEF AgentStep, AgentApplies, AgentFailsToApply, AgentRefusesStale, Receive,
                  KeepsVersions
<1>5. ASSUME NEW p \in Procs, Start(p) \/ Abort(p) PROVE KeepsVersions(node, node')
      BY <1>5 DEF Start, StartSync, StartFetchStatus, StartHealth, StartValidate, StartUpdate,
                  StartAdopt, Begin, Abort, KeepsVersions
<1>6. ASSUME NEW p \in Procs, Step(p), ~RecordSuccess(p)
      PROVE  \/ KeepsVersions(node, node') \/ WritesReport(node, node')
             \/ (Bump(p) \/ Rebump(p)) /\ node' = BumpVersion(node)
  <2>1. CASE CallHealth(p) \/ CallStatus(p) \/ ReadActiveAccess(p) \/ Send(p) \/ CallFails(p)
             \/ InsertSyncEvent(p)
        BY <2>1 DEF CallHealth, CallStatus, ReadActiveAccess, Send, CallFails, InsertSyncEvent,
                    KeepsVersions
  <2>2. CASE RecordHealth(p) \/ RecordStatus(p)
        BY <2>2 DEF RecordHealth, RecordStatus, Try, KeepsVersions
  <2>3. CASE Reconcile(p)
        BY <2>3 DEF Reconcile, Try, KeepsVersions, WritesReport
  <2>4. CASE UpdateRow(p) \/ CreateAdopted(p)
        BY <2>4 DEF UpdateRow, CreateAdopted, KeepsVersions
  <2>5. CASE RecordRemote(p) \/ RefreshVersion(p)
        BY <2>5 DEF RecordRemote, RefreshVersion, WritesReport
  <2>6. CASE Bump(p) \/ Rebump(p)
        BY <2>6 DEF Bump, Rebump, KeepsVersions
  <2>7. CASE RecordFailure(p)
        BY <2>7 DEF RecordFailure, Try, KeepsVersions
  <2>  QED BY <1>6, <2>1, <2>2, <2>3, <2>4, <2>5, <2>6, <2>7 DEF Step
<1>  QED BY <1>1, <1>2, <1>3, <1>4, <1>5, <1>6 DEF Next

\* Every statement writes setup_state and last_status so that a node shown as
\* unreachable is not counted online.
LEMMA ShownConsistently ==
    ASSUME NEW n \in Nodes, n.setup = "unreachable" => n.status # "ok",
           NEW n2,
           \/ KeepsVersions(n, n2) \/ WritesReport(n, n2) \/ n2 = BumpVersion(n)
           \/ \E version : n2 = MarkSyncSuccess(n, version)
    PROVE  n2.setup = "unreachable" => n2.status # "ok"
<1> USE DEF Nodes, Row
<1>1. CASE n2 = n
      BY <1>1
<1>2. CASE n2 = Delete(n) \/ n2 = BumpVersion(n)
      BY <1>2 DEF Delete, BumpVersion
<1>3. ASSUME NEW flag \in BOOLEAN, NEW other \in BOOLEAN, n2 = Create(n, flag, other)
      PROVE  n2.setup # "unreachable"
      BY <1>3 DEF Create
<1>4. ASSUME NEW flag \in BOOLEAN, n2 = Update(n, flag)
      PROVE  n2.setup = "unreachable" => n2.status # "ok"
      BY <1>4 DEF Update
<1>5. ASSUME NEW flag \in BOOLEAN, n2 = MarkStatus(n, flag)
      PROVE  n2.setup = "unreachable" => n2.status # "ok"
      BY <1>5 DEF MarkStatus
<1>6. ASSUME NEW status, n2 = MarkSyncFailure(n, status)
      PROVE  n2.setup = "unreachable" => n2.status # "ok"
      BY <1>6 DEF MarkSyncFailure
<1>7. ASSUME NEW current, NEW applied, n2 = SyncRemoteState(n, current, applied)
      PROVE  n2.setup = "unreachable" => n2.status # "ok"
      BY <1>7 DEF SyncRemoteState
<1>8. ASSUME NEW version, n2 = MarkSyncSuccess(n, version)
      PROVE  n2.setup = "unreachable" => n2.status # "ok"
      BY <1>8 DEF MarkSyncSuccess
<1>  QED BY <1>1, <1>2, <1>3, <1>4, <1>5, <1>6, <1>7, <1>8 DEF KeepsVersions, WritesReport

\* UnreachableNotOnline: whatever handlers race, the status page and the online count
\* do not contradict each other.
THEOREM UnreachableIsNotOnline == Spec => []UnreachableNotOnline
<1>1. Init => UnreachableNotOnline
      BY DEF Init, NoRow, UnreachableNotOnline
<1>2. TypeOK /\ UnreachableNotOnline /\ [Next]_vars => UnreachableNotOnline'
  <2> SUFFICES ASSUME TypeOK, UnreachableNotOnline, [Next]_vars PROVE UnreachableNotOnline'
      OBVIOUS
  <2>1. node \in Nodes
        BY DEF TypeOK
  <2>2. \A p \in Procs : RecordSuccess(p) => \E version : node' = MarkSyncSuccess(node, version)
        BY DEF RecordSuccess
  <2>  QED BY <2>1, <2>2, RowSteps, ShownConsistently DEF UnreachableNotOnline
<1>  QED BY <1>1, <1>2, TypeCorrect, PTL DEF Spec
=============================================================================
