------------------------ MODULE NodeSyncVersionProofs ------------------------
(* What the row says about versions, and how many of them are handed out:   *)
(* two parts of the inductive invariant.                                    *)
EXTENDS NodeSyncInvariant, NodeSyncProofs, FiniteSetTheorems

-----------------------------------------------------------------------------
(* Lemmas on single steps *)

\* A caller's step changes no other caller.
LEMMA Frame ==
    ASSUME TypeOK, NEW p \in Procs, NEW state, Goto(p, state)
    PROVE  proc'[p] = state /\ \A q \in Procs : q # p => proc'[q] = proc[q]
BY DEF TypeOK, Goto

\* A report without versions claims nothing.
LEMMA EmptyReport ==
    ASSUME TypeOK, NEW report, report.current = 0, report.applied = 0
    PROVE  TrueReport(report)
BY DEF TypeOK, Agents, Payloads, TrueReport, TrueOf

\* Writing a true report to the row keeps the row true.
LEMMA ReportKeepsRow ==
    ASSUME TypeOK, RowIsTrue(node), NEW report,
           report.current \in Nat, report.applied \in Nat, TrueReport(report)
    PROVE  /\ RowIsTrue(SyncRemoteState(node, report.current, report.applied))
           /\ SyncRemoteState(node, report.current, report.applied).desired >= node.desired
BY DEF TypeOK, Nodes, Agents, Payloads, RowIsTrue, TrueReport, TrueOf, SyncRemoteState,
       Row, Greatest

\* The other statements leave the two versions alone.
LEMMA VersionsLeftAlone ==
    ASSUME NEW n \in Nodes, NEW flag \in BOOLEAN, NEW other \in BOOLEAN, NEW status,
           NEW n2 \in {Create(n, flag, other), Update(n, flag), Delete(n),
                       MarkStatus(n, flag), MarkSyncFailure(n, status)}
    PROVE  n2.desired = n.desired /\ n2.applied = n.applied
<1> USE DEF Nodes, Row
<1>1. CASE n2 = Create(n, flag, other)
      BY <1>1 DEF Create
<1>2. CASE n2 = Update(n, flag)
      BY <1>2 DEF Update
<1>3. CASE n2 = Delete(n)
      BY <1>3 DEF Delete
<1>4. CASE n2 = MarkStatus(n, flag)
      BY <1>4 DEF MarkStatus
<1>5. CASE n2 = MarkSyncFailure(n, status)
      BY <1>5 DEF MarkSyncFailure
<1>  QED BY <1>1, <1>2, <1>3, <1>4, <1>5

\* What a caller's step can put on its way to the agent.
LEMMA PendingAfter ==
    ASSUME TypeOK, NEW p \in Procs, NEW state, Goto(p, state),
           net' \subseteq Pending
    PROVE  \A b \in Pending' : b \in Pending \/ (HasVersion(p)' /\ b = state.payload)
BY Frame DEF Pending, HasVersion

LEMMA OwnPending ==
    ASSUME NEW p \in Procs, HasVersion(p)
    PROVE  proc[p].payload \in Pending
BY DEF Pending

-----------------------------------------------------------------------------
(* VersionInv *)

LEMMA VersionInit == Init => VersionInv
<1> SUFFICES ASSUME Init PROVE VersionInv
    OBVIOUS
<1>1. TypeOK
      BY TypeInit
<1>2. proc = [p \in Procs |-> Idle] /\ net = {}
      BY DEF Init
<1>3. ReportsAreTrue /\ RepliesMatch
      BY <1>1, <1>2, EmptyReport
      DEF ReportsAreTrue, RepliesMatch, ReplyMatches, Idle, Told, NoReply
<1>4. Pending = {}
      BY <1>2 DEF Pending, HasVersion, Idle
<1>5. AgentIssued /\ RowIsTrue(node)
      BY ConstantsAssumption DEF Init, AgentIssued, RowIsTrue, NoRow, NoPayload
<1>  QED BY <1>1, <1>3, <1>4, <1>5 DEF VersionInv, PendingIssued

\* A caller's step that leaves the agent alone keeps VersionInv if what the caller
\* holds afterwards and what the row says afterwards are right.
LEMMA CallerKeepsVersions ==
    ASSUME VersionInv, TypeOK', NEW p \in Procs, NEW state, Goto(p, state),
           agent' = agent, net' \subseteq Pending,
           node'.desired >= node.desired, RowIsTrue(node'),
           TrueReport(state.told), TrueReport(state.reply), ReplyMatches(state),
           HasVersion(p)' => /\ 1 <= state.payload.ver
                             /\ state.payload.ver <= node'.desired
                             /\ state.payload.origin # "foreign"
    PROVE  VersionInv'
<1> USE DEF VersionInv
<1>1. ReportsAreTrue'
      BY Frame DEF ReportsAreTrue, TrueReport, TrueOf
<1>2. RepliesMatch'
      BY Frame DEF RepliesMatch, ReplyMatches
<1>3. PendingIssued'
  <2> SUFFICES ASSUME NEW b \in Pending'
               PROVE  1 <= b.ver /\ b.ver <= node'.desired /\ b.origin # "foreign"
      BY DEF PendingIssued
  <2>1. CASE b \in Pending
    <3>1. b.ver \in Nat /\ node.desired \in Nat /\ node'.desired \in Nat
          BY <2>1 DEF TypeOK, Pending, Payloads, Nodes, ProcStates
    <3>  QED BY <2>1, <3>1 DEF PendingIssued
  <2>2. CASE HasVersion(p)' /\ b = state.payload
        BY <2>2
  <2>  QED BY <2>1, <2>2, PendingAfter
<1>4. AgentIssued'
      BY DEF AgentIssued, TypeOK, Nodes, Agents, Payloads
<1>5. RowIsTrue(node)'
      BY DEF RowIsTrue
<1>  QED BY <1>1, <1>2, <1>3, <1>4, <1>5

\* Instances of the lemma above for what most steps do.
LEMMA SameRowStep ==
    ASSUME VersionInv, TypeOK', NEW p \in Procs, NEW state, Goto(p, state),
           agent' = agent, net' \subseteq Pending,
           node'.desired = node.desired, node'.applied = node.applied,
           TrueReport(state.told), TrueReport(state.reply), ReplyMatches(state),
           HasVersion(p)' => HasVersion(p) /\ state.payload.ver = proc[p].payload.ver
                                           /\ state.payload.origin = proc[p].payload.origin
    PROVE  VersionInv'
<1>1. RowIsTrue(node') /\ node'.desired >= node.desired
      BY DEF VersionInv, RowIsTrue, TypeOK, Nodes
<1>2. HasVersion(p)' => /\ 1 <= state.payload.ver
                        /\ state.payload.ver <= node'.desired
                        /\ state.payload.origin # "foreign"
      BY OwnPending DEF VersionInv, PendingIssued
<1>  QED BY <1>1, <1>2, CallerKeepsVersions

LEMMA IdleIsTrue ==
    ASSUME TypeOK
    PROVE  TrueReport(Idle.told) /\ TrueReport(Idle.reply) /\ ReplyMatches(Idle)
BY EmptyReport DEF Idle, Told, NoReply, ReplyMatches

\* A caller that returns.
LEMMA ReturnStep ==
    ASSUME VersionInv, TypeOK', NEW p \in Procs, Return(p),
           agent' = agent, net' = net,
           node'.desired >= node.desired, RowIsTrue(node')
    PROVE  VersionInv'
<1>1. Goto(p, Idle) /\ ~HasVersion(p)'
      BY Frame DEF Return, VersionInv, HasVersion, Idle
<1>2. net' \subseteq Pending
      BY DEF Pending
<1>  QED BY <1>1, <1>2, IdleIsTrue, CallerKeepsVersions DEF VersionInv

\* A caller that only moves on, between steps that hold an answer the same way.
LEMMA ContinueStep ==
    ASSUME VersionInv, TypeOK', NEW p \in Procs, NEW step, Continue(p, step),
           agent' = agent, net' \subseteq Pending,
           node'.desired >= node.desired, RowIsTrue(node'),
           ReplyMatches([proc[p] EXCEPT !.pc = step]),
           HasVersion(p)' => HasVersion(p)
    PROVE  VersionInv'
<1> DEFINE state == [proc[p] EXCEPT !.pc = step]
<1>1. Goto(p, state)
      BY DEF Continue
<1>2. state.told = proc[p].told /\ state.reply = proc[p].reply
      /\ state.payload = proc[p].payload
      BY DEF VersionInv, TypeOK, ProcStates
<1>3. TrueReport(state.told) /\ TrueReport(state.reply)
      BY <1>2 DEF VersionInv, ReportsAreTrue
<1>4. HasVersion(p)' => /\ 1 <= state.payload.ver
                        /\ state.payload.ver <= node'.desired
                        /\ state.payload.origin # "foreign"
  <2> SUFFICES ASSUME HasVersion(p)'
               PROVE  /\ 1 <= proc[p].payload.ver
                      /\ proc[p].payload.ver <= node'.desired
                      /\ proc[p].payload.origin # "foreign"
      BY <1>2
  <2>1. /\ 1 <= proc[p].payload.ver
        /\ proc[p].payload.ver <= node.desired
        /\ proc[p].payload.origin # "foreign"
        BY OwnPending DEF VersionInv, PendingIssued
  <2>2. proc[p].payload.ver \in Nat /\ node.desired \in Nat /\ node'.desired \in Nat
        BY DEF VersionInv, TypeOK, ProcStates, Payloads, Nodes
  <2>  QED BY <2>1, <2>2
<1>5. ReplyMatches(state)
      OBVIOUS
<1> HIDE DEF state
<1>  QED BY <1>1, <1>3, <1>4, <1>5, CallerKeepsVersions

LEMMA StatusAnswerIsTrue ==
    ASSUME VersionInv, NEW told \in StatusAnswers
    PROVE  TrueReport(told)
<1>1. CASE told \in {Told("error"), Told("notok")}
      BY <1>1, EmptyReport DEF VersionInv, Told
<1>2. CASE told = [kind |-> "ok", current |-> agent.current, applied |-> agent.config.ver]
  <2>1. told.current = agent.current /\ told.applied = agent.config.ver
        BY <1>2
  <2>2. agent.current \in Nat /\ agent.config.ver \in Nat
        BY DEF VersionInv, TypeOK, Agents, Payloads
  <2>  QED BY <2>1, <2>2 DEF VersionInv, AgentIssued, TrueReport, TrueOf
<1>  QED BY <1>1, <1>2 DEF StatusAnswers

\* What the steps below know of the caller and the row before them.
LEMMA BeforeStep ==
    ASSUME VersionInv, NEW p \in Procs
    PROVE  /\ proc[p] \in ProcStates
           /\ TrueReport(proc[p].told) /\ TrueReport(proc[p].reply) /\ ReplyMatches(proc[p])
           /\ RowIsTrue(node) /\ node.desired \in Nat /\ node.applied \in Nat
           /\ node \in Nodes /\ net \subseteq Pending
BY DEF VersionInv, TypeOK, ReportsAreTrue, RepliesMatch, Nodes, Pending

\* A statement that leaves the versions alone, then a return.
LEMMA QuietReturn ==
    ASSUME VersionInv, TypeOK', NEW p \in Procs, Return(p), agent' = agent, net' = net,
           node'.desired = node.desired, node'.applied = node.applied
    PROVE  VersionInv'
BY BeforeStep, ReturnStep DEF RowIsTrue

\* Writing a true report, then a return.
LEMMA ReportReturn ==
    ASSUME VersionInv, TypeOK', NEW p \in Procs, Return(p), agent' = agent, net' = net,
           NEW report \in {proc[p].told, proc[p].reply},
           node' = SyncRemoteState(node, report.current, report.applied)
    PROVE  VersionInv'
<1>1. report.current \in Nat /\ report.applied \in Nat /\ TrueReport(report)
      BY BeforeStep DEF ProcStates, StatusReplies, SyncReplies
<1>2. RowIsTrue(node') /\ node'.desired >= node.desired
      BY <1>1, BeforeStep, ReportKeepsRow DEF VersionInv
<1>  QED BY <1>2, ReturnStep

\* Moving on without a version, before anything has been sent.
LEMMA EarlyContinue ==
    ASSUME VersionInv, TypeOK', NEW p \in Procs,
           NEW step \in {"status", "reconcile", "remote"}, Continue(p, step),
           ~HasVersion(p), agent' = agent, net' = net,
           node'.desired = node.desired, node'.applied = node.applied
    PROVE  VersionInv'
<1>1. RowIsTrue(node') /\ node'.desired >= node.desired
      BY BeforeStep DEF RowIsTrue
<1>2. ReplyMatches([proc[p] EXCEPT !.pc = step])
      BY BeforeStep DEF ReplyMatches, ProcStates, HasVersion
<1>3. ~HasVersion(p)'
      BY BeforeStep, Frame DEF HasVersion, Continue, ProcStates, VersionInv
<1>  QED BY <1>1, <1>2, <1>3, BeforeStep, ContinueStep

\* The steps of a handler before SyncNode bumps the version.
LEMMA VersionStatusStep ==
    ASSUME VersionInv, TypeOK', NEW p \in Procs,
           \/ CallHealth(p) \/ RecordHealth(p) \/ CallStatus(p) \/ RecordStatus(p)
           \/ Reconcile(p) \/ UpdateRow(p) \/ CreateAdopted(p) \/ RecordRemote(p)
    PROVE  VersionInv'
<1>0. /\ proc[p] \in ProcStates
      /\ TrueReport(proc[p].told) /\ TrueReport(proc[p].reply) /\ ReplyMatches(proc[p])
      /\ RowIsTrue(node) /\ node.desired \in Nat /\ node.applied \in Nat
      /\ node \in Nodes /\ net \subseteq Pending
      BY BeforeStep
<1>1. ASSUME NEW told \in StatusReplies, TrueReport(told), ~HasVersion(p),
             NEW step \in {"healthmark", "record", "update", "create", "remote", "bump"},
             Goto(p, [proc[p] EXCEPT !.pc = step, !.told = told]),
             agent' = agent, net' = net,
             RowIsTrue(node'), node'.desired >= node.desired
      PROVE  VersionInv'
  <2> DEFINE state == [proc[p] EXCEPT !.pc = step, !.told = told]
  <2>1. /\ state.told = told /\ state.reply = proc[p].reply
        /\ state.pc = step /\ state.payload = proc[p].payload
        BY <1>0 DEF ProcStates
  <2>2. ReplyMatches(state)
        BY <1>0, <1>1, <2>1 DEF ReplyMatches, HasVersion
  <2>3. ~HasVersion(p)'
        BY <1>1, <2>1, Frame DEF HasVersion, VersionInv
  <2>4. Goto(p, state)
        BY <1>1
  <2> HIDE DEF state
  <2>  QED BY <1>0, <1>1, <2>1, <2>2, <2>3, <2>4, CallerKeepsVersions
<1>2. CASE CallHealth(p)
  <2>1. PICK kind \in {"healthy", "error"} :
            Goto(p, [proc[p] EXCEPT !.pc = "healthmark", !.told = Told(kind)])
        BY <1>2 DEF CallHealth
  <2>2. Told(kind) \in StatusReplies /\ TrueReport(Told(kind))
        BY EmptyReport DEF Told, StatusReplies, VersionInv
  <2>3. ~HasVersion(p) /\ RowIsTrue(node') /\ node'.desired >= node.desired
        BY <1>0, <1>2 DEF CallHealth, At, HasVersion
  <2>  QED BY <1>1, <1>2, <2>1, <2>2, <2>3 DEF CallHealth
<1>3. CASE RecordHealth(p)
  <2>1. node'.desired = node.desired /\ node'.applied = node.applied
        BY <1>0, <1>3, VersionsLeftAlone DEF RecordHealth, Try
  <2>2. ~HasVersion(p)
        BY <1>3 DEF RecordHealth, At, HasVersion
  <2>  QED BY <1>3, <2>1, <2>2, QuietReturn, EarlyContinue DEF RecordHealth
<1>4. CASE CallStatus(p)
  <2>0. At(p, "status") /\ node' = node
        BY <1>4 DEF CallStatus
  <2>1. ~HasVersion(p) /\ RowIsTrue(node') /\ node'.desired >= node.desired
        BY <1>0, <2>0 DEF At, HasVersion
  <2>2. PICK told \in StatusAnswers :
            \/ Return(p)
            \/ \E step \in {"record", "update", "create", "remote"} :
                  Goto(p, [proc[p] EXCEPT !.pc = step, !.told = told])
        BY <1>4 DEF CallStatus
  <2>3. told \in StatusReplies /\ TrueReport(told)
    <3>1. agent.current \in Nat /\ agent.config.ver \in Nat
          BY DEF VersionInv, TypeOK, Agents, Payloads
    <3>  QED BY <3>1, StatusAnswerIsTrue DEF StatusAnswers, StatusReplies, Told
  <2>  QED BY <1>1, <1>4, <2>1, <2>2, <2>3, QuietReturn DEF CallStatus
<1>5. CASE RecordStatus(p)
  <2>1. node'.desired = node.desired /\ node'.applied = node.applied
        BY <1>0, <1>5, VersionsLeftAlone DEF RecordStatus, Try
  <2>2. ~HasVersion(p)
        BY <1>5 DEF RecordStatus, At, HasVersion
  <2>  QED BY <1>5, <2>1, <2>2, QuietReturn, EarlyContinue DEF RecordStatus
<1>6. CASE Reconcile(p)
  <2>1. CASE proc[p].told.kind = "notok"
    <3>1. node'.desired = node.desired /\ node'.applied = node.applied
          BY <1>0, <1>6, <2>1, VersionsLeftAlone DEF Reconcile, Try
    <3>  QED BY <1>6, <2>1, <3>1, QuietReturn DEF Reconcile
  <2>2. CASE proc[p].told.kind # "notok" /\ proc[p].op # "sync"
        BY <1>6, <2>2, ReportReturn DEF Reconcile
  <2>3. CASE proc[p].told.kind # "notok" /\ proc[p].op = "sync"
    <3>1. proc[p].told.current \in Nat /\ proc[p].told.applied \in Nat
          BY <1>0 DEF ProcStates, StatusReplies
    <3>2. RowIsTrue(node') /\ node'.desired >= node.desired
          BY <1>0, <1>6, <2>3, <3>1, ReportKeepsRow DEF Reconcile, VersionInv
    <3>3. Told("none") \in StatusReplies /\ TrueReport(Told("none"))
          BY EmptyReport DEF Told, StatusReplies, VersionInv
    <3>4. ~HasVersion(p)
          BY <1>6 DEF Reconcile, At, HasVersion
    <3>  QED BY <1>1, <1>6, <2>3, <3>2, <3>3, <3>4 DEF Reconcile
  <2>  QED BY <2>1, <2>2, <2>3
<1>7. CASE UpdateRow(p)
  <2>1. node'.desired = node.desired /\ node'.applied = node.applied
        BY <1>0, <1>7, VersionsLeftAlone DEF UpdateRow
  <2>2. ~HasVersion(p)
        BY <1>7 DEF UpdateRow, At, HasVersion
  <2>  QED BY <1>7, <2>1, <2>2, QuietReturn, EarlyContinue DEF UpdateRow
<1>8. CASE CreateAdopted(p)
  <2>1. node'.desired = node.desired /\ node'.applied = node.applied
    <3>1. node' = node \/ \E enabled \in BOOLEAN : node' = Create(node, TRUE, enabled)
          BY <1>8 DEF CreateAdopted
    <3>2. CASE \E enabled \in BOOLEAN : node' = Create(node, TRUE, enabled)
          BY <1>0, <3>2 DEF Create, Nodes
    <3>  QED BY <3>1, <3>2
  <2>2. ~HasVersion(p)
        BY <1>8 DEF CreateAdopted, At, HasVersion
  <2>  QED BY <1>8, <2>1, <2>2, QuietReturn, EarlyContinue DEF CreateAdopted
<1>9. CASE RecordRemote(p)
      BY <1>9, ReportReturn DEF RecordRemote
<1>  QED BY <1>2, <1>3, <1>4, <1>5, <1>6, <1>7, <1>8, <1>9

\* The steps of SyncNode from the bump on.
LEMMA VersionSyncStep ==
    ASSUME VersionInv, TypeOK', NEW p \in Procs,
           \/ Bump(p) \/ ReadActiveAccess(p) \/ Send(p) \/ CallFails(p)
           \/ InsertSyncEvent(p) \/ RecordSuccess(p) \/ RecordFailure(p)
           \/ RefreshVersion(p) \/ Rebump(p)
    PROVE  VersionInv'
<1>0. /\ proc[p] \in ProcStates
      /\ TrueReport(proc[p].told) /\ TrueReport(proc[p].reply) /\ ReplyMatches(proc[p])
      /\ RowIsTrue(node) /\ node.desired \in Nat /\ node.applied \in Nat
      /\ node \in Nodes /\ net \subseteq Pending
      BY BeforeStep
<1>1. HasVersion(p) => /\ proc[p].payload \in Payloads
                       /\ 1 <= proc[p].payload.ver
                       /\ proc[p].payload.ver <= node.desired
                       /\ proc[p].payload.origin # "foreign"
      BY <1>0, OwnPending DEF VersionInv, PendingIssued, ProcStates
<1>2. ASSUME Present(node), node' = BumpVersion(node)
      PROVE  node'.desired = node.desired + 1 /\ RowIsTrue(node')
  <2>1. node'.desired = node.desired + 1 /\ node'.applied = node.applied
        BY <1>0, <1>2 DEF BumpVersion, Nodes
  <2>  QED BY <1>0, <2>1 DEF RowIsTrue
<1>3. CASE Bump(p)
  <2>1. CASE ~Present(node)
        BY <1>3, <2>1, QuietReturn DEF Bump
  <2>2. CASE Present(node)
    <3> DEFINE state == [proc[p] EXCEPT
                           !.pc = "read", !.mayRetry = TRUE,
                           !.payload = [ver |-> node.desired + 1, gen |-> 0,
                                        floor |-> gen, origin |-> "first"]]
    <3>1. Goto(p, state) /\ node' = BumpVersion(node) /\ agent' = agent /\ net' = net
          BY <1>3, <2>2 DEF Bump
    <3>2. /\ state.told = proc[p].told /\ state.reply = proc[p].reply /\ state.pc = "read"
          /\ state.payload.ver = node.desired + 1 /\ state.payload.origin = "first"
          BY <1>0 DEF ProcStates
    <3>3. proc[p].reply.body = "none"
          BY <1>0, <1>3 DEF Bump, At, ReplyMatches
    <3>4. ReplyMatches(state)
          BY <3>2, <3>3 DEF ReplyMatches
    <3> HIDE DEF state
    <3>  QED BY <1>0, <1>2, <2>2, <3>1, <3>2, <3>4, CallerKeepsVersions
  <2>  QED BY <2>1, <2>2
<1>4. CASE ReadActiveAccess(p)
  <2> DEFINE state == [proc[p] EXCEPT !.pc = "send", !.payload.gen = gen]
  <2>1. Goto(p, state) /\ node' = node /\ agent' = agent /\ net' = net /\ HasVersion(p)
        BY <1>4 DEF ReadActiveAccess, At, HasVersion
  <2>2. proc[p].payload \in Payloads
        BY <1>0 DEF ProcStates
  <2>3. /\ state.told = proc[p].told /\ state.reply = proc[p].reply /\ state.pc = "send"
        /\ state.payload.ver = proc[p].payload.ver
        /\ state.payload.origin = proc[p].payload.origin
        BY <1>0, <2>2 DEF ProcStates, Payloads
  <2>4. ReplyMatches(state)
        BY <1>0, <1>4, <2>3 DEF ReadActiveAccess, At, ReplyMatches
  <2> HIDE DEF state
  <2>  QED BY <1>0, <2>1, <2>3, <2>4, SameRowStep
<1>5. CASE Send(p)
  <2>1. net' \subseteq Pending /\ HasVersion(p)
        BY <1>0, <1>5, OwnPending DEF Send, At, HasVersion
  <2>2. ReplyMatches([proc[p] EXCEPT !.pc = "wait"])
        BY <1>0, <1>5 DEF Send, At, ReplyMatches, ProcStates
  <2>  QED BY <1>0, <1>5, <2>1, <2>2, ContinueStep DEF Send
<1>6. CASE CallFails(p)
  <2>1. PICK reply \in FailedReplies :
            Goto(p, [proc[p] EXCEPT !.pc = "log", !.reply = reply])
        BY <1>6 DEF CallFails
  <2> DEFINE state == [proc[p] EXCEPT !.pc = "log", !.reply = reply]
  <2>2. /\ reply.current = 0 /\ reply.applied = 0
        /\ reply.body \in {"none", "garbled", "mistyped"}
    <3>1. CASE reply = NoReply
          BY <3>1 DEF NoReply
    <3>2. CASE reply = [NoReply EXCEPT !.body = "garbled"]
          BY <3>2 DEF NoReply
    <3>3. CASE reply = [NoReply EXCEPT !.body = "mistyped", !.http2xx = TRUE]
          BY <3>3 DEF NoReply
    <3>  QED BY <3>1, <3>2, <3>3 DEF FailedReplies
  <2>3. /\ state.told = proc[p].told /\ state.reply = reply /\ state.pc = "log"
        /\ state.payload = proc[p].payload
        BY <1>0 DEF ProcStates
  <2>4. TrueReport(state.reply) /\ ReplyMatches(state)
        BY <2>2, <2>3, EmptyReport DEF ReplyMatches, VersionInv
  <2>5. At(p, "wait") /\ node' = node /\ agent' = agent /\ net' \subseteq net
        BY <1>6 DEF CallFails
  <2>6. HasVersion(p)
        BY <2>5 DEF At, HasVersion
  <2>7. net' \subseteq Pending
        BY <1>0, <2>5
  <2> HIDE DEF state
  <2>  QED BY <1>0, <2>1, <2>3, <2>4, <2>5, <2>6, <2>7, SameRowStep DEF state
<1>7. CASE InsertSyncEvent(p)
  <2>1. CASE Continue(p, "mark")
    <3>1. HasVersion(p)
          BY <1>7 DEF InsertSyncEvent, At, HasVersion
    <3>2. ReplyMatches([proc[p] EXCEPT !.pc = "mark"])
          BY <1>0, <1>7 DEF InsertSyncEvent, At, ReplyMatches, ProcStates
    <3>  QED BY <1>0, <1>7, <2>1, <3>1, <3>2, ContinueStep DEF InsertSyncEvent
  <2>2. CASE Return(p)
        BY <1>7, <2>2, QuietReturn DEF InsertSyncEvent
  <2>  QED BY <1>7, <2>1, <2>2 DEF InsertSyncEvent
<1>8. CASE RecordSuccess(p)
  <2>1. proc[p].reply.body = "ok" /\ At(p, "mark")
    <3>1. proc[p].reply.body \in {"none", "garbled", "mistyped", "ok",
                                  "apply_failed", "stale_version"}
          BY <1>0 DEF ProcStates, SyncReplies
    <3>  QED BY <1>8, <3>1 DEF RecordSuccess, SyncStatus
  <2>2. HasVersion(p)
        BY <2>1 DEF At, HasVersion
  <2>3. /\ AppliedVersion(p) = proc[p].payload.ver
        /\ proc[p].payload.ver <= agent.config.ver
        BY <1>0, <1>1, <2>1, <2>2 DEF AppliedVersion, ReplyMatches, Payloads
  <2>4. agent.config.ver <= agent.current /\ agent.current \in Nat /\ agent.config.ver \in Nat
        BY DEF VersionInv, AgentIssued, TypeOK, Agents, Payloads
  <2>5. /\ node'.desired = node.desired
        /\ node'.applied = node.applied \/ node'.applied = proc[p].payload.ver
        BY <1>0, <1>8, <2>3 DEF RecordSuccess, MarkSyncSuccess, Row, Nodes
  <2>6. RowIsTrue(node') /\ node'.desired >= node.desired
        BY <1>0, <1>1, <2>2, <2>3, <2>4, <2>5 DEF RowIsTrue, Payloads
  <2>  QED BY <1>8, <2>6, ReturnStep DEF RecordSuccess
<1>9. CASE RecordFailure(p)
  <2>1. node'.desired = node.desired /\ node'.applied = node.applied
        BY <1>0, <1>9 DEF RecordFailure, Try, MarkSyncFailure, Row, Nodes
  <2>2. CASE ~RetryAsked(p)
        BY <1>9, <2>1, <2>2, QuietReturn DEF RecordFailure
  <2>3. CASE RetryAsked(p)
    <3>1. HasVersion(p) /\ proc[p].reply.body = "stale_version"
          BY <1>9, <2>3 DEF RecordFailure, At, HasVersion, RetryAsked
    <3>2. ReplyMatches([proc[p] EXCEPT !.pc = "refresh"])
          BY <1>0, <3>1 DEF ReplyMatches, ProcStates
    <3>3. RowIsTrue(node') /\ node'.desired >= node.desired
          BY <1>0, <2>1 DEF RowIsTrue
    <3>  QED BY <1>0, <1>9, <2>3, <3>1, <3>2, <3>3, ContinueStep DEF RecordFailure
  <2>  QED BY <2>2, <2>3
<1>10. CASE RefreshVersion(p)
  <2>1. proc[p].reply.current \in Nat /\ proc[p].reply.applied \in Nat
        BY <1>0 DEF ProcStates, SyncReplies
  <2>2. RowIsTrue(node') /\ node'.desired >= node.desired
        BY <1>0, <1>10, <2>1, ReportKeepsRow DEF RefreshVersion, VersionInv
  <2>3. HasVersion(p)
        BY <1>10 DEF RefreshVersion, At, HasVersion
  <2>4. ReplyMatches([proc[p] EXCEPT !.pc = "rebump"])
        BY <1>0, <1>10 DEF RefreshVersion, At, ReplyMatches, ProcStates
  <2>  QED BY <1>0, <1>10, <2>2, <2>3, <2>4, ContinueStep DEF RefreshVersion
<1>11. CASE Rebump(p)
  <2>1. CASE ~Present(node)
        BY <1>11, <2>1, QuietReturn DEF Rebump
  <2>2. CASE Present(node)
    <3> DEFINE state == [proc[p] EXCEPT
                           !.pc = "send", !.mayRetry = FALSE, !.reply = NoReply,
                           !.payload.ver = node.desired + 1, !.payload.origin = "retry"]
    <3>1. Goto(p, state) /\ node' = BumpVersion(node) /\ agent' = agent /\ net' = net
          BY <1>11, <2>2 DEF Rebump
    <3>2. proc[p].payload \in Payloads
          BY <1>0 DEF ProcStates
    <3>3. /\ state.told = proc[p].told /\ state.reply = NoReply /\ state.pc = "send"
          /\ state.payload.ver = node.desired + 1 /\ state.payload.origin = "retry"
          BY <1>0, <3>2 DEF ProcStates, Payloads
    <3>4. TrueReport(state.reply) /\ ReplyMatches(state)
          BY <3>3, EmptyReport DEF NoReply, ReplyMatches, VersionInv
    <3> HIDE DEF state
    <3>  QED BY <1>0, <1>2, <2>2, <3>1, <3>3, <3>4, CallerKeepsVersions
  <2>  QED BY <2>1, <2>2
<1>  QED BY <1>3, <1>4, <1>5, <1>6, <1>7, <1>8, <1>9, <1>10, <1>11

\* An answer on its way changes only what the caller waiting for it holds.
LEMMA AnswerFrame ==
    ASSUME TypeOK, NEW m, NEW reply, Answer(m, reply), NEW q \in Procs
    PROVE  /\ proc'[q].told = proc[q].told /\ proc'[q].payload = proc[q].payload
           /\ HasVersion(q)' = HasVersion(q)
           /\ \/ proc'[q].reply = proc[q].reply /\ proc'[q].pc = proc[q].pc
              \/ /\ proc[q].pc = "wait" /\ proc'[q].pc = "log"
                 /\ proc'[q].reply = reply /\ proc[q].payload.ver = m.ver
<1>0. proc[q] \in ProcStates
      BY DEF TypeOK
<1>1. CASE proc' = proc
      BY <1>1 DEF HasVersion
<1>2. CASE proc' # proc
  <2>1. PICK p \in Procs : /\ At(p, "wait")
                           /\ proc[p].payload.ver = m.ver
                           /\ Goto(p, [proc[p] EXCEPT !.pc = "log", !.reply = reply])
        BY <1>2 DEF Answer
  <2>2. CASE q # p
        BY <2>1, <2>2, Frame DEF HasVersion
  <2>3. CASE q = p
    <3>1. proc'[q] = [proc[q] EXCEPT !.pc = "log", !.reply = reply]
          BY <2>1, <2>3, Frame
    <3>  QED BY <1>0, <2>1, <2>3, <3>1 DEF HasVersion, At, ProcStates
  <2>  QED BY <2>2, <2>3
<1>  QED BY <1>1, <1>2

\* A step of the agent keeps VersionInv if its versions only grow, what it installs
\* is the request it received, and its answer is true.
LEMMA AgentKeepsVersions ==
    ASSUME VersionInv, TypeOK', NEW m \in net, NEW reply, Answer(m, reply), Receive(m),
           agent.current <= agent'.current,
           agent'.config = agent.config \/ (agent.current < m.ver /\ agent'.config = m
                                            /\ agent'.current = m.ver),
           TrueOf(agent', reply), reply.body # "none",
           reply.body = "ok" => reply.applied = m.ver /\ agent'.config = m
    PROVE  VersionInv'
<1>0. /\ TypeOK /\ node' = node /\ net' \subseteq net
      /\ agent.current \in Nat /\ agent'.current \in Nat
      /\ agent.config.ver \in Nat /\ agent'.config.ver \in Nat
      /\ node.desired \in Nat /\ node.applied \in Nat
      BY DEF VersionInv, TypeOK, Agents, Payloads, Nodes, Receive
<1>1. /\ m.ver \in Nat /\ 1 <= m.ver /\ m.ver <= node.desired /\ m.origin # "foreign"
      BY <1>0 DEF VersionInv, PendingIssued, Pending, TypeOK, Payloads
<1>2. agent.config.ver <= agent.current /\ agent.config.ver <= agent'.config.ver
      BY <1>0, <1>1 DEF VersionInv, AgentIssued
<1>3. ASSUME NEW report, report.current \in Nat, report.applied \in Nat, TrueReport(report)
      PROVE  TrueOf(agent', report)
      BY <1>0, <1>1, <1>2, <1>3 DEF TrueReport, TrueOf
<1>4. ReportsAreTrue'
  <2> SUFFICES ASSUME NEW q \in Procs
               PROVE  TrueOf(agent', proc'[q].told) /\ TrueOf(agent', proc'[q].reply)
      BY DEF ReportsAreTrue, TrueReport
  <2>1. /\ TrueReport(proc[q].told) /\ TrueReport(proc[q].reply)
        /\ proc[q].told.current \in Nat /\ proc[q].told.applied \in Nat
        /\ proc[q].reply.current \in Nat /\ proc[q].reply.applied \in Nat
        BY DEF VersionInv, TypeOK, ReportsAreTrue, ProcStates, StatusReplies, SyncReplies
  <2>2. /\ proc'[q].told = proc[q].told
        /\ proc'[q].reply = proc[q].reply \/ proc'[q].reply = reply
        BY <1>0, AnswerFrame
  <2>  QED BY <1>3, <2>1, <2>2
<1>5. RepliesMatch'
  <2> SUFFICES ASSUME NEW q \in Procs
               PROVE  /\ proc'[q].pc \notin {"log", "mark", "refresh", "rebump"}
                            => proc'[q].reply.body = "none"
                      /\ proc'[q].pc \in {"refresh", "rebump"}
                            => proc'[q].reply.body = "stale_version"
                      /\ proc'[q].reply.body = "ok" =>
                            /\ proc'[q].reply.applied = proc'[q].payload.ver
                            /\ proc'[q].payload.ver <= agent'.config.ver
                            /\ agent'.config.origin # "foreign"
      BY DEF RepliesMatch, ReplyMatches
  <2>1. ReplyMatches(proc[q]) /\ proc[q].payload.ver \in Nat
        BY DEF VersionInv, RepliesMatch, TypeOK, ProcStates, Payloads
  <2>2. CASE proc'[q].reply = proc[q].reply /\ proc'[q].pc = proc[q].pc
        BY <1>0, <1>1, <1>2, <2>1, <2>2, AnswerFrame DEF ReplyMatches
  <2>3. CASE /\ proc'[q].pc = "log" /\ proc'[q].reply = reply
             /\ proc[q].payload.ver = m.ver
        BY <1>0, <1>1, <2>3, AnswerFrame
  <2>  QED BY <1>0, <2>2, <2>3, AnswerFrame
<1>6. Pending' \subseteq Pending
      BY <1>0, AnswerFrame DEF Pending
<1>7. PendingIssued'
      BY <1>0, <1>6 DEF PendingIssued, VersionInv
<1>8. AgentIssued'
      BY <1>0, <1>1 DEF AgentIssued, VersionInv
<1>9. RowIsTrue(node)'
      BY <1>0, <1>1, <1>2 DEF RowIsTrue, VersionInv
<1>  QED BY <1>4, <1>5, <1>7, <1>8, <1>9 DEF VersionInv

LEMMA VersionAgentStep ==
    ASSUME VersionInv, TypeOK', AgentStep
    PROVE  VersionInv'
<1>1. PICK m \in net : AgentApplies(m) \/ AgentFailsToApply(m) \/ AgentRefusesStale(m)
      BY DEF AgentStep
<1>2. /\ agent.current \in Nat /\ agent.config.ver \in Nat
      /\ agent.config.ver <= agent.current
      /\ m.ver \in Nat /\ 1 <= m.ver
      /\ agent \in Agents
      BY DEF VersionInv, AgentIssued, PendingIssued, Pending, TypeOK, Agents, Payloads
<1>3. CASE AgentApplies(m)
  <2> DEFINE reply == [http2xx |-> TRUE, body |-> "ok", current |-> m.ver, applied |-> m.ver]
  <2>1. /\ agent'.current = m.ver /\ agent'.config = m /\ agent.current < m.ver
        /\ Answer(m, reply) /\ Receive(m)
        BY <1>2, <1>3 DEF AgentApplies
  <2>2. TrueOf(agent', reply)
        BY <1>2, <2>1 DEF TrueReport, TrueOf
  <2>3. reply.body = "ok" /\ reply.applied = m.ver
        OBVIOUS
  <2> HIDE DEF reply
  <2>  QED BY <1>2, <2>1, <2>2, <2>3, AgentKeepsVersions
<1>4. CASE AgentFailsToApply(m)
  <2>1. PICK received \in {agent.current, m.ver}, http2xx \in BOOLEAN :
            /\ agent' = [agent EXCEPT !.current = received]
            /\ Answer(m, [http2xx |-> http2xx, body |-> "apply_failed",
                          current |-> received, applied |-> agent.config.ver])
        BY <1>4 DEF AgentFailsToApply
  <2> DEFINE reply == [http2xx |-> http2xx, body |-> "apply_failed",
                       current |-> received, applied |-> agent.config.ver]
  <2>2. agent'.current = received /\ agent'.config = agent.config /\ agent.current < m.ver
        BY <1>2, <1>4, <2>1 DEF Agents, AgentFailsToApply
  <2>3. TrueOf(agent', reply)
        BY <1>2, <2>1, <2>2 DEF TrueReport, TrueOf
  <2>4. reply.body = "apply_failed" /\ Answer(m, reply) /\ Receive(m)
        BY <1>4, <2>1 DEF AgentFailsToApply
  <2> HIDE DEF reply
  <2>  QED BY <1>2, <2>1, <2>2, <2>3, <2>4, AgentKeepsVersions
<1>5. CASE AgentRefusesStale(m)
  <2>1. PICK http2xx \in BOOLEAN :
            Answer(m, [http2xx |-> http2xx, body |-> "stale_version",
                       current |-> agent.current, applied |-> agent.config.ver])
        BY <1>5 DEF AgentRefusesStale
  <2> DEFINE reply == [http2xx |-> http2xx, body |-> "stale_version",
                       current |-> agent.current, applied |-> agent.config.ver]
  <2>2. agent' = agent /\ Receive(m)
        BY <1>5 DEF AgentRefusesStale
  <2>3. TrueOf(agent', reply)
        BY <1>2, <2>2 DEF TrueReport, TrueOf
  <2>4. reply.body = "stale_version" /\ Answer(m, reply)
        BY <2>1
  <2> HIDE DEF reply
  <2>  QED BY <1>2, <2>2, <2>3, <2>4, AgentKeepsVersions
<1>  QED BY <1>1, <1>3, <1>4, <1>5

\* Steps that touch neither the callers nor the agent.
LEMMA OthersKeepVersions ==
    ASSUME VersionInv, TypeOK', agent' = agent, net' = net, proc' = proc,
           node'.desired = node.desired, node'.applied = node.applied
    PROVE  VersionInv'
<1>1. Pending' = Pending
      BY DEF Pending, HasVersion
<1>  QED BY <1>1 DEF VersionInv, ReportsAreTrue, TrueReport, TrueOf, RepliesMatch, ReplyMatches,
                     PendingIssued, AgentIssued, RowIsTrue

LEMMA VersionStart ==
    ASSUME VersionInv, TypeOK', NEW p \in Procs, Start(p)
    PROVE  VersionInv'
<1>1. PICK op \in AllOps, step \in {"status", "health", "update"} : Begin(p, op, step)
      BY DEF Start, StartSync, StartFetchStatus, StartHealth, StartValidate, StartUpdate,
             StartAdopt, AllOps
<1> DEFINE state == [Idle EXCEPT !.op = op, !.pc = step]
<1>2. /\ state.told = Told("none") /\ state.reply = NoReply /\ state.pc = step
      BY DEF Idle
<1>3. TrueReport(state.told) /\ TrueReport(state.reply) /\ ReplyMatches(state)
      BY <1>2, EmptyReport DEF VersionInv, Told, NoReply, ReplyMatches
<1>4. /\ Goto(p, state) /\ node' = node /\ agent' = agent /\ net' = net
      BY <1>1 DEF Begin
<1>5. ~HasVersion(p)'
      BY <1>2, <1>4, Frame DEF VersionInv, HasVersion
<1>6. net' \subseteq Pending
      BY <1>4 DEF Pending
<1> HIDE DEF state
<1>  QED BY <1>2, <1>3, <1>4, <1>5, <1>6, SameRowStep

LEMMA VersionNext == VersionInv /\ [Next]_vars => VersionInv'
<1> SUFFICES ASSUME VersionInv, [Next]_vars PROVE VersionInv'
    OBVIOUS
<1>0. TypeOK' /\ node \in Nodes
      BY TypeNext DEF VersionInv, TypeOK
<1>1. CASE UNCHANGED vars
      BY <1>0, <1>1, OthersKeepVersions DEF vars
<1>2. CASE CreatePlanned
  <2>1. node'.desired = node.desired /\ node'.applied = node.applied
        BY <1>0, <1>2 DEF CreatePlanned, Create, Nodes
  <2>  QED BY <1>0, <1>2, <2>1, OthersKeepVersions DEF CreatePlanned
<1>3. CASE DeleteNode
  <2>1. node'.desired = node.desired /\ node'.applied = node.applied
        BY <1>0, <1>3 DEF DeleteNode, Delete, Row, Nodes
  <2>  QED BY <1>0, <1>3, <2>1, OthersKeepVersions DEF DeleteNode
<1>4. CASE AccessChange
      BY <1>0, <1>4, OthersKeepVersions DEF AccessChange
<1>5. ASSUME NEW p \in Procs, Start(p) PROVE VersionInv'
      BY <1>0, <1>5, VersionStart
<1>6. ASSUME NEW p \in Procs, Step(p) PROVE VersionInv'
      BY <1>0, <1>6, VersionStatusStep, VersionSyncStep DEF Step
<1>7. ASSUME NEW p \in Procs, Abort(p) PROVE VersionInv'
      BY <1>0, <1>7, QuietReturn DEF Abort
<1>8. CASE AgentStep
      BY <1>0, <1>8, VersionAgentStep
<1>  QED BY <1>1, <1>2, <1>3, <1>4, <1>5, <1>6, <1>7, <1>8 DEF Next

\* Whatever interleaves, versions on their way, in answers and in the row stay within
\* what BumpVersion handed out and what the agent has had.
THEOREM VersionsInvariant == Spec => []VersionInv
BY VersionInit, VersionNext, PTL DEF Spec

\* AppliedLeDesired: the two version columns of the row never cross.
THEOREM AppliedNeverPassesDesired == Spec => []AppliedLeDesired
<1>1. VersionInv => AppliedLeDesired
      BY DEF VersionInv, RowIsTrue, AppliedLeDesired
<1>  QED BY <1>1, VersionsInvariant, PTL

\* PanelNeverOverclaims: the row never claims an applied version the agent lacks.
THEOREM PanelIsHonest == Spec => []PanelNeverOverclaims
<1>1. VersionInv => PanelNeverOverclaims
      BY DEF VersionInv, RowIsTrue, PanelNeverOverclaims
<1>  QED BY <1>1, VersionsInvariant, PTL

\* A statement can lower last_applied_version only when it writes an acknowledgement.
LEMMA AppliedOnlyRaised ==
    ASSUME TypeOK, KeepsVersions(node, node') \/ WritesReport(node, node')
                   \/ node' = BumpVersion(node)
    PROVE  node'.applied >= node.applied
<1>0. node \in Nodes /\ node.applied \in Nat
      BY DEF TypeOK, Nodes
<1>1. CASE KeepsVersions(node, node')
  <2>1. ASSUME node' = node \/ node' = Delete(node)
        PROVE  node'.applied = node.applied
        BY <1>0, <2>1 DEF Delete, Nodes, Row
  <2>2. ASSUME NEW flag \in BOOLEAN, NEW other \in BOOLEAN,
               \/ node' = Create(node, flag, other) \/ node' = Update(node, flag)
               \/ node' = MarkStatus(node, flag)
        PROVE  node'.applied = node.applied
        BY <1>0, <2>2 DEF Create, Update, MarkStatus, Nodes, Row
  <2>3. ASSUME NEW status, node' = MarkSyncFailure(node, status)
        PROVE  node'.applied = node.applied
        BY <1>0, <2>3 DEF MarkSyncFailure, Nodes, Row
  <2>4. node'.applied = node.applied
        BY <1>1, <2>1, <2>2, <2>3 DEF KeepsVersions
  <2>  QED BY <1>0, <2>4
<1>2. CASE WritesReport(node, node')
  <2>1. PICK current \in Nat, applied \in Nat : node' = SyncRemoteState(node, current, applied)
        BY <1>2 DEF WritesReport, TypeOK, ProcStates, StatusReplies, SyncReplies
  <2>  QED BY <1>0, <2>1 DEF SyncRemoteState, Row, Greatest, Nodes
<1>3. CASE node' = BumpVersion(node)
      BY <1>0, <1>3 DEF BumpVersion, Nodes
<1>  QED BY <1>1, <1>2, <1>3

LEMMA RegressStep ==
    ASSUME VersionInv, [Next]_vars, node'.applied < node.applied
    PROVE  \E p \in Procs : /\ At(p, "mark")
                            /\ proc[p].reply.body = "ok"
                            /\ proc[p].payload.ver < agent.current
<1>0. TypeOK /\ node \in Nodes /\ node.applied \in Nat /\ node'.applied \in Nat
      /\ agent.current \in Nat
      BY TypeNext DEF VersionInv, TypeOK, Nodes, Agents
<1>1. PICK p \in Procs : RecordSuccess(p)
      BY <1>0, RowSteps, AppliedOnlyRaised
<1>2. At(p, "mark") /\ proc[p].reply.body = "ok" /\ proc[p].payload.ver \in Nat
      BY <1>0, <1>1 DEF RecordSuccess, SyncStatus, TypeOK, ProcStates, Payloads
<1>3. AppliedVersion(p) = proc[p].payload.ver
      BY <1>2 DEF AppliedVersion, VersionInv, RepliesMatch, ReplyMatches
<1>4. node'.applied = proc[p].payload.ver \/ node' = node
      BY <1>0, <1>1, <1>3 DEF RecordSuccess, MarkSyncSuccess, Row, Nodes
<1>5. node.applied <= agent.current
      BY DEF VersionInv, RowIsTrue
<1>  QED BY <1>0, <1>2, <1>4, <1>5

\* AppliedRegressesOnlyByLateAck: last_applied_version goes back only when the
\* acknowledgement of an overtaken sync is written late.
THEOREM AppliedRegressesOnlyLate == Spec => AppliedRegressesOnlyByLateAck
<1>1. VersionInv /\ [Next]_vars =>
        [node'.applied < node.applied =>
          \E p \in Procs : /\ At(p, "mark")
                           /\ proc[p].reply.body = "ok"
                           /\ proc[p].payload.ver < agent.current]_vars
      BY RegressStep
<1>  QED BY <1>1, VersionsInvariant, PTL DEF Spec, AppliedRegressesOnlyByLateAck

-----------------------------------------------------------------------------
(* BudgetInv *)

\* A step after which a caller may take no more versions than before.
KeepsDue == FirstDue' \subseteq FirstDue /\ RetryDue' \subseteq RetryDue

LEMMA GotoKeepsDue ==
    ASSUME TypeOK, NEW p \in Procs, NEW state, Goto(p, state),
           MayTakeFirst(state) => MayTakeFirst(proc[p]),
           MayTakeRetry(state) => MayTakeRetry(proc[p])
    PROVE  KeepsDue
BY Frame DEF KeepsDue, FirstDue, RetryDue

LEMMA ReturnKeepsDue ==
    ASSUME TypeOK, NEW p \in Procs, Return(p)
    PROVE  KeepsDue
<1>1. ~MayTakeFirst(Idle) /\ ~MayTakeRetry(Idle)
      BY DEF MayTakeFirst, MayTakeRetry, Idle
<1>  QED BY <1>1, GotoKeepsDue DEF Return

\* A caller on its way through an attempt takes nothing with it but its right to retry.
LEMMA AttemptKeepsDue ==
    ASSUME TypeOK, NEW p \in Procs, NEW state, Goto(p, state),
           proc[p].pc \in {"read", "send", "wait", "log", "mark"},
           state.pc \in {"send", "wait", "log", "mark"},
           state.mayRetry = proc[p].mayRetry
    PROVE  KeepsDue
BY GotoKeepsDue DEF MayTakeFirst, MayTakeRetry

\* The same for one that has not bumped yet.
LEMMA EarlyKeepsDue ==
    ASSUME TypeOK, NEW p \in Procs, NEW state, Goto(p, state),
           proc[p].pc \in {"health", "healthmark", "status", "record", "reconcile", "update",
                          "create", "remote"},
           state.pc \in {"healthmark", "status", "record", "reconcile", "update", "create",
                        "remote"},
           state.op = proc[p].op
    PROVE  KeepsDue
BY GotoKeepsDue DEF MayTakeFirst, MayTakeRetry

LEMMA AnswerKeepsDue ==
    ASSUME TypeOK, NEW m, NEW reply, Answer(m, reply)
    PROVE  KeepsDue
<1>1. CASE proc' = proc
      BY <1>1 DEF KeepsDue, FirstDue, RetryDue
<1>2. ASSUME NEW p \in Procs, At(p, "wait"),
             Goto(p, [proc[p] EXCEPT !.pc = "log", !.reply = reply])
      PROVE  KeepsDue
  <2> DEFINE state == [proc[p] EXCEPT !.pc = "log", !.reply = reply]
  <2>1. state.pc = "log" /\ state.mayRetry = proc[p].mayRetry
        BY DEF TypeOK, ProcStates
  <2> HIDE DEF state
  <2>2. Goto(p, state)
        BY <1>2 DEF state
  <2>  QED BY <1>2, <2>1, <2>2, AttemptKeepsDue DEF At
<1>  QED BY <1>1, <1>2 DEF Answer

\* Moving on, in the four ways the handlers do it.
LEMMA ContinueKeepsDue ==
    ASSUME TypeOK, NEW p \in Procs, NEW step, Continue(p, step),
           \/ /\ proc[p].pc \in {"healthmark", "record", "update", "create"}
              /\ step \in {"status", "reconcile", "remote"}
           \/ proc[p].pc \in {"send", "log"} /\ step \in {"wait", "mark"}
           \/ proc[p].pc = "mark" /\ proc[p].mayRetry /\ step = "refresh"
           \/ proc[p].pc = "refresh" /\ step = "rebump"
    PROVE  KeepsDue
<1> DEFINE state == [proc[p] EXCEPT !.pc = step]
<1>1. state.pc = step /\ state.op = proc[p].op /\ state.mayRetry = proc[p].mayRetry
      BY DEF TypeOK, ProcStates
<1> HIDE DEF state
<1>2. Goto(p, state)
      BY DEF state, Continue
<1>  QED BY <1>1, <1>2, EarlyKeepsDue, AttemptKeepsDue, GotoKeepsDue
     DEF MayTakeFirst, MayTakeRetry

LEMMA EarlyStepsDue ==
    ASSUME TypeOK, NEW p \in Procs,
           \/ CallHealth(p) \/ RecordHealth(p) \/ CallStatus(p) \/ RecordStatus(p)
           \/ Reconcile(p) \/ UpdateRow(p) \/ CreateAdopted(p) \/ RecordRemote(p)
    PROVE  KeepsDue /\ calls' = calls
<1>0. proc[p] \in ProcStates
      BY DEF TypeOK
<1>1. CASE CallHealth(p)
  <2>1. PICK kind \in {"healthy", "error"} :
            Goto(p, [proc[p] EXCEPT !.pc = "healthmark", !.told = Told(kind)])
        BY <1>1 DEF CallHealth
  <2> DEFINE state == [proc[p] EXCEPT !.pc = "healthmark", !.told = Told(kind)]
  <2>2. state.pc = "healthmark" /\ state.op = proc[p].op
        BY <1>0 DEF ProcStates
  <2> HIDE DEF state
  <2>3. Goto(p, state)
        BY <2>1 DEF state
  <2>  QED BY <1>1, <2>2, <2>3, EarlyKeepsDue DEF CallHealth, At
<1>2. CASE RecordHealth(p)
      BY <1>2, ContinueKeepsDue, ReturnKeepsDue DEF RecordHealth, At
<1>3. CASE CallStatus(p)
  <2>1. ASSUME NEW told, NEW step \in {"record", "update", "create", "remote"},
               Goto(p, [proc[p] EXCEPT !.pc = step, !.told = told])
        PROVE  KeepsDue
    <3> DEFINE state == [proc[p] EXCEPT !.pc = step, !.told = told]
    <3>1. state.pc = step /\ state.op = proc[p].op
          BY <1>0 DEF ProcStates
    <3> HIDE DEF state
    <3>2. Goto(p, state)
          BY <2>1 DEF state
    <3>  QED BY <1>3, <3>1, <3>2, EarlyKeepsDue DEF CallStatus, At
  <2>2. PICK told \in StatusAnswers :
            \/ Return(p)
            \/ \E step \in {"record", "update", "create", "remote"} :
                  Goto(p, [proc[p] EXCEPT !.pc = step, !.told = told])
        BY <1>3 DEF CallStatus
  <2>  QED BY <1>3, <2>1, <2>2, ReturnKeepsDue DEF CallStatus
<1>4. CASE RecordStatus(p)
      BY <1>4, ContinueKeepsDue, ReturnKeepsDue DEF RecordStatus, At
<1>5. CASE Reconcile(p)
  <2> DEFINE state == [proc[p] EXCEPT !.pc = "bump", !.told = Told("none")]
  <2>1. proc[p].op = "sync" => MayTakeFirst(proc[p]) /\ MayTakeRetry(proc[p])
        BY <1>5 DEF Reconcile, At, MayTakeFirst, MayTakeRetry
  <2> HIDE DEF state
  <2>2. Return(p) \/ (proc[p].op = "sync" /\ Goto(p, state))
        BY <1>5 DEF Reconcile, state
  <2>  QED BY <1>5, <2>1, <2>2, ReturnKeepsDue, GotoKeepsDue DEF Reconcile
<1>6. CASE UpdateRow(p)
      BY <1>6, ContinueKeepsDue, ReturnKeepsDue DEF UpdateRow, At
<1>7. CASE CreateAdopted(p)
      BY <1>7, ContinueKeepsDue, ReturnKeepsDue DEF CreateAdopted, At
<1>8. CASE RecordRemote(p)
      BY <1>8, ReturnKeepsDue DEF RecordRemote
<1>  QED BY <1>1, <1>2, <1>3, <1>4, <1>5, <1>6, <1>7, <1>8

LEMMA LateStepsDue ==
    ASSUME TypeOK, NEW p \in Procs,
           \/ ReadActiveAccess(p) \/ Send(p) \/ CallFails(p) \/ InsertSyncEvent(p)
           \/ RecordSuccess(p) \/ RecordFailure(p) \/ RefreshVersion(p)
    PROVE  KeepsDue /\ calls' = calls
<1>0. proc[p] \in ProcStates /\ proc[p].payload \in Payloads
      BY DEF TypeOK, ProcStates
<1>1. CASE ReadActiveAccess(p)
  <2> DEFINE state == [proc[p] EXCEPT !.pc = "send", !.payload.gen = gen]
  <2>1. state.pc = "send" /\ state.mayRetry = proc[p].mayRetry
        BY <1>0 DEF ProcStates
  <2>2. Goto(p, state)
        BY <1>1 DEF ReadActiveAccess
  <2> HIDE DEF state
  <2>  QED BY <1>1, <2>1, <2>2, AttemptKeepsDue DEF ReadActiveAccess, At
<1>2. CASE Send(p)
      BY <1>2, ContinueKeepsDue DEF Send, At
<1>3. CASE CallFails(p)
  <2>1. PICK reply \in FailedReplies :
            Goto(p, [proc[p] EXCEPT !.pc = "log", !.reply = reply])
        BY <1>3 DEF CallFails
  <2> DEFINE state == [proc[p] EXCEPT !.pc = "log", !.reply = reply]
  <2>2. state.pc = "log" /\ state.mayRetry = proc[p].mayRetry
        BY <1>0 DEF ProcStates
  <2> HIDE DEF state
  <2>3. Goto(p, state)
        BY <2>1 DEF state
  <2>  QED BY <1>3, <2>2, <2>3, AttemptKeepsDue DEF CallFails, At
<1>4. CASE InsertSyncEvent(p)
      BY <1>4, ContinueKeepsDue, ReturnKeepsDue DEF InsertSyncEvent, At
<1>5. CASE RecordSuccess(p)
      BY <1>5, ReturnKeepsDue DEF RecordSuccess
<1>6. CASE RecordFailure(p)
      BY <1>6, ContinueKeepsDue, ReturnKeepsDue DEF RecordFailure, RetryAsked, At
<1>7. CASE RefreshVersion(p)
      BY <1>7, ContinueKeepsDue DEF RefreshVersion, At
<1>  QED BY <1>1, <1>2, <1>3, <1>4, <1>5, <1>6, <1>7

\* A version is taken by a caller to whom one is due.
LEMMA BumpStepsDue ==
    ASSUME TypeOK, NEW p \in Procs, Bump(p) \/ Rebump(p)
    PROVE  /\ KeepsDue /\ calls' = calls
           /\ node' = node \/ (p \in FirstDue /\ p \notin FirstDue')
                           \/ (p \in RetryDue /\ p \notin RetryDue')
<1>0. proc[p] \in ProcStates
      BY DEF TypeOK
<1>1. CASE ~Present(node)
      BY <1>1, ReturnKeepsDue DEF Bump, Rebump
<1>2. CASE Present(node) /\ Bump(p)
  <2> DEFINE state == [proc[p] EXCEPT
                          !.pc = "read", !.mayRetry = TRUE,
                          !.payload = [ver |-> node.desired + 1, gen |-> 0,
                                       floor |-> gen, origin |-> "first"]]
  <2>1. Goto(p, state) /\ proc[p].pc = "bump"
        BY <1>2 DEF Bump, At
  <2>2. state.pc = "read"
        BY <1>0 DEF ProcStates
  <2> HIDE DEF state
  <2>3. MayTakeFirst(proc[p]) /\ MayTakeRetry(proc[p]) /\ ~MayTakeFirst(state)
        BY <2>1, <2>2 DEF MayTakeFirst, MayTakeRetry
  <2>4. KeepsDue /\ p \in FirstDue /\ p \notin FirstDue'
        BY <2>1, <2>3, GotoKeepsDue, Frame DEF FirstDue
  <2>  QED BY <1>2, <2>4 DEF Bump
<1>3. CASE Present(node) /\ Rebump(p)
  <2> DEFINE state == [proc[p] EXCEPT
                          !.pc = "send", !.mayRetry = FALSE, !.reply = NoReply,
                          !.payload.ver = node.desired + 1, !.payload.origin = "retry"]
  <2>1. Goto(p, state) /\ proc[p].pc = "rebump"
        BY <1>3 DEF Rebump, At
  <2>2. state.pc = "send" /\ state.mayRetry = FALSE
        BY <1>0 DEF ProcStates
  <2> HIDE DEF state
  <2>3. MayTakeRetry(proc[p]) /\ ~MayTakeFirst(state) /\ ~MayTakeRetry(state)
        BY <2>1, <2>2 DEF MayTakeFirst, MayTakeRetry
  <2>4. KeepsDue /\ p \in RetryDue /\ p \notin RetryDue'
        BY <2>1, <2>3, GotoKeepsDue, Frame DEF RetryDue
  <2>  QED BY <1>3, <2>4 DEF Rebump
<1>  QED BY <1>1, <1>2, <1>3

\* A call adds one caller to each.
LEMMA StartDue ==
    ASSUME TypeOK, NEW p \in Procs, Start(p)
    PROVE  /\ FirstDue' \subseteq FirstDue \cup {p}
           /\ RetryDue' \subseteq RetryDue \cup {p}
           /\ calls' = calls + 1 /\ node' = node /\ agent' = agent
<1>1. PICK op, step : Begin(p, op, step)
      BY DEF Start, StartSync, StartFetchStatus, StartHealth, StartValidate, StartUpdate,
             StartAdopt
<1>2. \A q \in Procs : q # p => proc'[q] = proc[q]
      BY <1>1, Frame DEF Begin
<1>  QED BY <1>1, <1>2 DEF Begin, FirstDue, RetryDue

\* What the row asks for grows to what the agent had received, or by one.
LEMMA DesiredAfter ==
    ASSUME VersionInv, KeepsVersions(node, node') \/ WritesReport(node, node')
    PROVE  /\ node'.desired >= node.desired
           /\ node'.desired <= Greatest(node.desired, agent.current)
<1>0. node \in Nodes /\ node.desired \in Nat /\ agent.current \in Nat
      BY DEF VersionInv, TypeOK, Nodes, Agents
<1>1. CASE KeepsVersions(node, node')
  <2>1. ASSUME node' = node \/ node' = Delete(node)
        PROVE  node'.desired = node.desired
        BY <1>0, <2>1 DEF Delete, Nodes, Row
  <2>2. ASSUME NEW flag \in BOOLEAN, NEW other \in BOOLEAN,
               \/ node' = Create(node, flag, other) \/ node' = Update(node, flag)
               \/ node' = MarkStatus(node, flag)
        PROVE  node'.desired = node.desired
        BY <1>0, <2>2 DEF Create, Update, MarkStatus, Nodes, Row
  <2>3. ASSUME NEW status, node' = MarkSyncFailure(node, status)
        PROVE  node'.desired = node.desired
        BY <1>0, <2>3 DEF MarkSyncFailure, Nodes, Row
  <2>4. node'.desired = node.desired
        BY <1>1, <2>1, <2>2, <2>3 DEF KeepsVersions
  <2>  QED BY <1>0, <2>4 DEF Greatest
<1>2. CASE WritesReport(node, node')
  <2>1. PICK p \in Procs : \E report \in {proc[p].told, proc[p].reply} :
            node' = SyncRemoteState(node, report.current, report.applied)
        BY <1>2 DEF WritesReport
  <2>  PICK report \in {proc[p].told, proc[p].reply} :
            node' = SyncRemoteState(node, report.current, report.applied)
        BY <2>1
  <2>2. report.current \in Nat /\ report.current <= agent.current
        BY <2>1 DEF VersionInv, TypeOK, ProcStates, StatusReplies, SyncReplies, ReportsAreTrue,
                    TrueReport, TrueOf
  <2>3. node'.desired \in {node.desired, Greatest(node.desired, report.current)}
        BY <1>0, <2>1 DEF SyncRemoteState, Row, Nodes
  <2>  QED BY <1>0, <2>2, <2>3 DEF Greatest
<1>  QED BY <1>1, <1>2

LEMMA BudgetInit == Init => BudgetInv
<1> SUFFICES ASSUME Init PROVE BudgetInv
    OBVIOUS
<1>1. ~MayTakeFirst(Idle) /\ ~MayTakeRetry(Idle)
      BY DEF MayTakeFirst, MayTakeRetry, Idle
<1>2. FirstDue = {} /\ RetryDue = {}
      BY <1>1 DEF Init, FirstDue, RetryDue
<1>3. /\ node.desired = 0 /\ calls = 0
      /\ agent.current \in 0..AgentStart
      BY DEF Init, NoRow
<1>4. IsFiniteSet({}) /\ Cardinality({}) = 0
      BY FS_EmptySet
<1>  QED BY <1>2, <1>3, <1>4, ConstantsAssumption DEF BudgetInv

\* Cardinalities of subsets, with one element less or more.
LEMMA FewerDue ==
    ASSUME NEW S, NEW T, IsFiniteSet(S), T \subseteq S
    PROVE  /\ IsFiniteSet(T) /\ Cardinality(T) \in Nat /\ Cardinality(S) \in Nat
           /\ Cardinality(T) <= Cardinality(S)
           /\ \A x \in S : x \notin T => Cardinality(T) <= Cardinality(S) - 1
<1>1. /\ IsFiniteSet(T) /\ Cardinality(T) \in Nat /\ Cardinality(S) \in Nat
      /\ Cardinality(T) <= Cardinality(S)
      BY FS_Subset, FS_CardinalityType
<1>2. ASSUME NEW x \in S, x \notin T PROVE Cardinality(T) <= Cardinality(S) - 1
  <2>1. IsFiniteSet(S \ {x}) /\ Cardinality(S \ {x}) = Cardinality(S) - 1
        BY FS_RemoveElement
  <2>2. T \in SUBSET (S \ {x})
        BY <1>2
  <2>  QED BY <2>1, <2>2, FS_Subset
<1>  QED BY <1>1, <1>2

LEMMA OneMoreDue ==
    ASSUME NEW S, NEW T, NEW x, IsFiniteSet(S), T \subseteq S \cup {x}
    PROVE  /\ IsFiniteSet(T) /\ Cardinality(T) \in Nat /\ Cardinality(S) \in Nat
           /\ Cardinality(T) <= Cardinality(S) + 1
<1>1. /\ IsFiniteSet(S \cup {x}) /\ Cardinality(S) \in Nat
      /\ Cardinality(S \cup {x}) \in {Cardinality(S), Cardinality(S) + 1}
      BY FS_AddElement, FS_CardinalityType
<1>2. IsFiniteSet(T) /\ Cardinality(T) \in Nat /\ Cardinality(T) <= Cardinality(S \cup {x})
      BY <1>1, FS_Subset, FS_CardinalityType
<1>  QED BY <1>1, <1>2

\* The sums of BudgetInv, for a step that takes at most what was due and for a call.
LEMMA FewerDueSum ==
    ASSUME NEW c \in Nat, NEW start \in Nat, NEW d \in Nat, NEW d2 \in Nat,
           NEW f \in Nat, NEW f2 \in Nat, NEW r \in Nat, NEW r2 \in Nat,
           f + r <= 2 * c, d + f + r <= start + 2 * c, f2 <= f, r2 <= r,
           d2 <= d \/ d2 <= start \/ (d2 = d + 1 /\ (f2 <= f - 1 \/ r2 <= r - 1))
    PROVE  f2 + r2 <= 2 * c /\ d2 + f2 + r2 <= start + 2 * c
OBVIOUS

LEMMA TwoMoreDue ==
    ASSUME NEW c \in Nat, NEW start \in Nat, NEW d \in Nat,
           NEW f \in Nat, NEW f2 \in Nat, NEW r \in Nat, NEW r2 \in Nat,
           f + r <= 2 * c, d + f + r <= start + 2 * c, f2 <= f + 1, r2 <= r + 1
    PROVE  f2 + r2 <= 2 * (c + 1) /\ d + f2 + r2 <= start + 2 * (c + 1)
OBVIOUS

\* The agent counts nothing as received but what it was sent.
LEMMA AgentReceives ==
    ASSUME TypeOK, AgentStep
    PROVE  \E m \in net : agent'.current \in {agent.current, m.ver}
<1>1. PICK m \in net : AgentApplies(m) \/ AgentFailsToApply(m) \/ AgentRefusesStale(m)
      BY DEF AgentStep
<1>2. CASE AgentFailsToApply(m)
  <2>1. PICK received \in {agent.current, m.ver} : agent' = [agent EXCEPT !.current = received]
        BY <1>2 DEF AgentFailsToApply
  <2>2. agent'.current = received
        BY <2>1 DEF TypeOK, Agents
  <2>  QED BY <2>1, <2>2
<1>3. CASE AgentApplies(m) \/ AgentRefusesStale(m)
      BY <1>3 DEF AgentApplies, AgentRefusesStale
<1>  QED BY <1>1, <1>2, <1>3

LEMMA BudgetNext == VersionInv /\ BudgetInv /\ [Next]_vars => BudgetInv'
<1> SUFFICES ASSUME VersionInv, BudgetInv, [Next]_vars PROVE BudgetInv'
    OBVIOUS
<1>0. /\ TypeOK /\ TypeOK' /\ node \in Nodes /\ node' \in Nodes
      /\ calls \in Nat /\ node.desired \in Nat /\ node'.desired \in Nat
      /\ agent.current \in Nat /\ agent'.current \in Nat /\ AgentStart \in Nat
      BY ConstantsAssumption, TypeNext DEF VersionInv, TypeOK, Nodes, Agents
<1>1. \/ KeepsDue /\ calls' = calls
      \/ \E p \in Procs : Start(p)
  <2>1. CASE UNCHANGED vars \/ CreatePlanned \/ DeleteNode \/ AccessChange
        BY <2>1 DEF vars, CreatePlanned, DeleteNode, AccessChange, KeepsDue, FirstDue, RetryDue
  <2>2. ASSUME NEW p \in Procs, Step(p) \/ Abort(p) PROVE KeepsDue /\ calls' = calls
        BY <1>0, <2>2, EarlyStepsDue, LateStepsDue, BumpStepsDue, ReturnKeepsDue
        DEF Step, Abort
  <2>3. CASE AgentStep
        BY <1>0, <2>3, AnswerKeepsDue
        DEF AgentStep, AgentApplies, AgentFailsToApply, AgentRefusesStale, Receive
  <2>  QED BY <2>1, <2>2, <2>3 DEF Next
<1>2. agent'.current <= AgentStart \/ agent'.current <= node'.desired
  <2>1. node'.desired >= node.desired
    <3>1. ASSUME NEW p \in Procs, RecordSuccess(p) PROVE node'.desired = node.desired
          BY <1>0, <3>1 DEF RecordSuccess, MarkSyncSuccess, Row, Nodes
    <3>2. ASSUME node' = BumpVersion(node) PROVE node'.desired = node.desired + 1
          BY <1>0, <3>2 DEF BumpVersion, Nodes
    <3>  QED BY <1>0, <3>1, <3>2, RowSteps, DesiredAfter
  <2>2. CASE AgentStep
    <3>1. \E m \in net : agent'.current \in {agent.current, m.ver}
          BY <1>0, <2>2, AgentReceives
    <3>2. \A m \in net : m.ver \in Nat /\ m.ver <= node.desired
          BY <1>0 DEF VersionInv, PendingIssued, Pending, TypeOK, Payloads
    <3>  QED BY <1>0, <2>1, <3>1, <3>2 DEF BudgetInv
  <2>3. CASE agent' = agent
        BY <1>0, <2>1, <2>3 DEF BudgetInv
  <2>4. AgentStep \/ agent' = agent
    <3>1. ASSUME NEW p \in Procs, Start(p) \/ Step(p) \/ Abort(p) PROVE agent' = agent
          BY <1>0, <3>1, StartDue
          DEF Step, Abort, CallHealth, RecordHealth, CallStatus, RecordStatus, Reconcile,
              UpdateRow, CreateAdopted, RecordRemote, Bump, ReadActiveAccess, Send, CallFails,
              InsertSyncEvent, RecordSuccess, RecordFailure, RefreshVersion, Rebump
    <3>  QED BY <3>1 DEF Next, vars, CreatePlanned, DeleteNode, AccessChange
  <2>  QED BY <2>2, <2>3, <2>4
<1>3. /\ IsFiniteSet(FirstDue) /\ IsFiniteSet(RetryDue)
      /\ Cardinality(FirstDue) + Cardinality(RetryDue) <= 2 * calls
      /\ node.desired + Cardinality(FirstDue) + Cardinality(RetryDue) <= AgentStart + 2 * calls
      /\ agent.current <= AgentStart \/ agent.current <= node.desired
      BY DEF BudgetInv
<1>4. ASSUME NEW p \in Procs, Start(p) PROVE BudgetInv'
  <2>1. /\ FirstDue' \subseteq FirstDue \cup {p} /\ RetryDue' \subseteq RetryDue \cup {p}
        /\ calls' = calls + 1 /\ node' = node
        BY <1>0, <1>4, StartDue
  <2>2. /\ IsFiniteSet(FirstDue')
        /\ Cardinality(FirstDue) \in Nat /\ Cardinality(FirstDue') \in Nat
        /\ Cardinality(FirstDue') <= Cardinality(FirstDue) + 1
        BY <1>3, <2>1, OneMoreDue
  <2>3. /\ IsFiniteSet(RetryDue')
        /\ Cardinality(RetryDue) \in Nat /\ Cardinality(RetryDue') \in Nat
        /\ Cardinality(RetryDue') <= Cardinality(RetryDue) + 1
        BY <1>3, <2>1, OneMoreDue
  <2>4. /\ Cardinality(FirstDue') + Cardinality(RetryDue') <= 2 * (calls + 1)
        /\ node.desired + Cardinality(FirstDue') + Cardinality(RetryDue')
                <= AgentStart + 2 * (calls + 1)
        BY <1>0, <1>3, <2>2, <2>3, TwoMoreDue
  <2>  QED BY <1>2, <2>1, <2>2, <2>3, <2>4 DEF BudgetInv
<1>5. ASSUME KeepsDue, calls' = calls PROVE BudgetInv'
  <2>1. /\ IsFiniteSet(FirstDue')
        /\ Cardinality(FirstDue) \in Nat /\ Cardinality(FirstDue') \in Nat
        /\ Cardinality(FirstDue') <= Cardinality(FirstDue)
        /\ \A x \in FirstDue : x \notin FirstDue' =>
               Cardinality(FirstDue') <= Cardinality(FirstDue) - 1
        BY <1>3, <1>5, FewerDue DEF KeepsDue
  <2>2. /\ IsFiniteSet(RetryDue')
        /\ Cardinality(RetryDue) \in Nat /\ Cardinality(RetryDue') \in Nat
        /\ Cardinality(RetryDue') <= Cardinality(RetryDue)
        /\ \A x \in RetryDue : x \notin RetryDue' =>
               Cardinality(RetryDue') <= Cardinality(RetryDue) - 1
        BY <1>3, <1>5, FewerDue DEF KeepsDue
  <2>3. \/ node'.desired <= node.desired \/ node'.desired <= AgentStart
        \/ /\ node'.desired = node.desired + 1
           /\ \/ Cardinality(FirstDue') <= Cardinality(FirstDue) - 1
              \/ Cardinality(RetryDue') <= Cardinality(RetryDue) - 1
    <3>1. CASE KeepsVersions(node, node') \/ WritesReport(node, node')
          BY <1>0, <1>3, <3>1, DesiredAfter DEF Greatest
    <3>2. CASE node' = node
          BY <1>0, <3>2
    <3>3. ASSUME NEW p \in Procs, Bump(p) \/ Rebump(p), node' = BumpVersion(node), node' # node
          PROVE  /\ node'.desired = node.desired + 1
                 /\ \/ Cardinality(FirstDue') <= Cardinality(FirstDue) - 1
                    \/ Cardinality(RetryDue') <= Cardinality(RetryDue) - 1
      <4>1. node'.desired = node.desired + 1
            BY <1>0, <3>3 DEF BumpVersion, Nodes
      <4>2. (p \in FirstDue /\ p \notin FirstDue') \/ (p \in RetryDue /\ p \notin RetryDue')
            BY <1>0, <3>3, BumpStepsDue
      <4>  QED BY <2>1, <2>2, <4>1, <4>2
    <3>4. ASSUME NEW p \in Procs, RecordSuccess(p) PROVE node'.desired <= node.desired
          BY <1>0, <3>4 DEF RecordSuccess, MarkSyncSuccess, Row, Nodes
    <3>  QED BY <3>1, <3>2, <3>3, <3>4, RowSteps
  <2>4. /\ Cardinality(FirstDue') + Cardinality(RetryDue') <= 2 * calls
        /\ node'.desired + Cardinality(FirstDue') + Cardinality(RetryDue')
                <= AgentStart + 2 * calls
        BY <1>0, <1>3, <2>1, <2>2, <2>3, FewerDueSum
  <2>  QED BY <1>2, <1>5, <2>1, <2>2, <2>4 DEF BudgetInv
<1>  QED BY <1>1, <1>4, <1>5

THEOREM BudgetInvariant == Spec => []BudgetInv
<1>1. VersionInv /\ BudgetInv /\ [Next]_vars => BudgetInv'
      BY BudgetNext
<1>  QED BY <1>1, BudgetInit, VersionsInvariant, PTL DEF Spec

\* VersionBudget: a SyncNode call uses at most two versions, however calls interleave,
\* retry and write stale reports to the row.
THEOREM VersionsAreBudgeted == Spec => []VersionBudget
<1>1. VersionInv /\ BudgetInv => VersionBudget
  <2> SUFFICES ASSUME VersionInv, BudgetInv PROVE node.desired <= AgentStart + 2 * calls
      BY DEF VersionBudget
  <2>1. Cardinality(FirstDue) \in Nat /\ Cardinality(RetryDue) \in Nat
        BY FS_CardinalityType DEF BudgetInv
  <2>2. node.desired \in Nat /\ calls \in Nat /\ AgentStart \in Nat
        BY ConstantsAssumption DEF VersionInv, TypeOK, Nodes
  <2>  QED BY <2>1, <2>2 DEF BudgetInv
<1>  QED BY <1>1, BudgetInvariant, VersionsInvariant, PTL
=============================================================================
