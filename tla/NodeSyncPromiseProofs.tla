------------------------ MODULE NodeSyncPromiseProofs ------------------------
(* A version names one configuration, what a successful sync vouched for is    *)
(* not undone, and NodeSync implements SyncPromise: the other two parts of the *)
(* inductive invariant, and what follows from it.                              *)
EXTENDS NodeSyncVersionProofs

-----------------------------------------------------------------------------
(* What a caller's step can do *)

\* Nothing is given a version, read or sent: what the caller has sent stays as it was,
\* or is given up.
QuietCaller(p) ==
    /\ \A q \in Procs : q # p => proc'[q] = proc[q]
    /\ agent' = agent /\ gen' = gen /\ net' \subseteq net
    /\ HasVersion(p)' => /\ HasVersion(p) /\ proc'[p].payload = proc[p].payload
                         /\ proc[p].pc \notin {"read"}
                         /\ proc'[p].pc \notin {"read", "send"}

\* The caller is given the next version, for a first attempt or for its retry.
TakesVersion(p) ==
    /\ \A q \in Procs : q # p => proc'[q] = proc[q]
    /\ node'.desired = node.desired + 1
    /\ UNCHANGED <<agent, gen, net, confirmed>>
    /\ proc'[p].payload.ver = node.desired + 1
    /\ \/ /\ proc'[p].pc = "read"
          /\ proc'[p].payload.origin = "first"
          /\ proc'[p].payload.floor = gen /\ proc'[p].payload.gen = 0
       \/ /\ HasVersion(p) /\ ~At(p, "read") /\ proc'[p].pc = "send"
          /\ proc'[p].payload.origin = "retry"
          /\ proc'[p].payload.floor = proc[p].payload.floor
          /\ proc'[p].payload.gen = proc[p].payload.gen

\* A caller that returns, or has no version, is quiet.
LEMMA ReturnIsQuiet ==
    ASSUME TypeOK, NEW p \in Procs, Return(p), UNCHANGED <<agent, gen>>, net' \subseteq net
    PROVE  QuietCaller(p)
BY Frame DEF QuietCaller, Return, Idle, HasVersion

LEMMA EarlyIsQuiet ==
    ASSUME TypeOK, NEW p \in Procs, NEW state, Goto(p, state), UNCHANGED <<agent, gen, net>>,
           state.pc \notin {"read", "send", "wait", "log", "mark", "refresh", "rebump"}
    PROVE  QuietCaller(p)
BY Frame DEF QuietCaller, HasVersion

\* One that waits for an answer or records it.
LEMMA LateIsQuiet ==
    ASSUME TypeOK, NEW p \in Procs, NEW state, Goto(p, state), UNCHANGED <<agent, gen>>,
           net' \subseteq net, HasVersion(p), ~At(p, "read"), state.payload = proc[p].payload,
           state.pc \notin {"read", "send"}
    PROVE  QuietCaller(p)
BY Frame DEF QuietCaller, At

\* The same for a caller that only moves on.
LEMMA ContinueIsQuiet ==
    ASSUME TypeOK, NEW p \in Procs, NEW step, Continue(p, step), UNCHANGED <<agent, gen, net>>,
           \/ step \notin {"read", "send", "wait", "log", "mark", "refresh", "rebump"}
           \/ HasVersion(p) /\ ~At(p, "read") /\ step \notin {"read", "send"}
    PROVE  QuietCaller(p)
<1> DEFINE state == [proc[p] EXCEPT !.pc = step]
<1>1. Goto(p, state) /\ state.pc = step /\ state.payload = proc[p].payload
      BY DEF Continue, TypeOK, ProcStates
<1> HIDE DEF state
<1>2. net' \subseteq net
      OBVIOUS
<1>  QED BY <1>1, <1>2, EarlyIsQuiet, LateIsQuiet

LEMMA EarlySteps ==
    ASSUME TypeOK, NEW p \in Procs,
           \/ CallHealth(p) \/ RecordHealth(p) \/ CallStatus(p) \/ RecordStatus(p)
           \/ Reconcile(p) \/ UpdateRow(p) \/ CreateAdopted(p) \/ RecordRemote(p)
    PROVE  QuietCaller(p) /\ confirmed' = confirmed
<1>0. proc[p] \in ProcStates
      BY DEF TypeOK
<1>1. CASE CallHealth(p)
  <2>1. PICK kind \in {"healthy", "error"} :
            Goto(p, [proc[p] EXCEPT !.pc = "healthmark", !.told = Told(kind)])
        BY <1>1 DEF CallHealth
  <2>2. [proc[p] EXCEPT !.pc = "healthmark", !.told = Told(kind)].pc = "healthmark"
        BY <1>0 DEF ProcStates
  <2>  QED BY <1>1, <2>1, <2>2, EarlyIsQuiet DEF CallHealth
<1>2. CASE RecordHealth(p)
      BY <1>2, ContinueIsQuiet, ReturnIsQuiet DEF RecordHealth
<1>3. CASE CallStatus(p)
  <2>1. PICK told \in StatusAnswers :
          IF proc[p].op \in {"sync", "fetch", "health"}
          THEN Goto(p, [proc[p] EXCEPT !.pc = "record", !.told = told])
          ELSE IF told.kind # "ok"
          THEN Return(p)
          ELSE Goto(p, [proc[p] EXCEPT !.told = told,
                                       !.pc = CASE proc[p].op = "update" -> "update"
                                                [] proc[p].op = "adopt"  -> "create"
                                                [] OTHER                 -> "remote"])
        BY <1>3 DEF CallStatus
  <2>2. [proc[p] EXCEPT !.pc = "record", !.told = told].pc = "record"
        BY <1>0 DEF ProcStates
  <2> DEFINE next == CASE proc[p].op = "update" -> "update"
                       [] proc[p].op = "adopt"  -> "create"
                       [] OTHER                 -> "remote"
  <2>3. next \in {"update", "create", "remote"}
        OBVIOUS
  <2>4. [proc[p] EXCEPT !.told = told, !.pc = next].pc = next
        BY <1>0 DEF ProcStates
  <2>5. UNCHANGED <<agent, gen, net, confirmed>>
        BY <1>3 DEF CallStatus
  <2>6. \/ Goto(p, [proc[p] EXCEPT !.pc = "record", !.told = told])
        \/ Return(p)
        \/ Goto(p, [proc[p] EXCEPT !.told = told, !.pc = next])
        BY <2>1
  <2> HIDE DEF next
  <2>7. CASE Goto(p, [proc[p] EXCEPT !.pc = "record", !.told = told])
        BY <2>2, <2>5, <2>7, EarlyIsQuiet
  <2>8. CASE Return(p)
        BY <2>5, <2>8, ReturnIsQuiet
  <2>9. CASE Goto(p, [proc[p] EXCEPT !.told = told, !.pc = next])
        BY <2>3, <2>4, <2>5, <2>9, EarlyIsQuiet
  <2>  QED BY <2>6, <2>7, <2>8, <2>9
<1>4. CASE RecordStatus(p)
      BY <1>4, ContinueIsQuiet, ReturnIsQuiet DEF RecordStatus
<1>5. CASE Reconcile(p)
  <2>1. [proc[p] EXCEPT !.pc = "bump", !.told = Told("none")].pc = "bump"
        BY <1>0 DEF ProcStates
  <2>  QED BY <1>5, <2>1, EarlyIsQuiet, ReturnIsQuiet DEF Reconcile
<1>6. CASE UpdateRow(p)
      BY <1>6, ContinueIsQuiet, ReturnIsQuiet DEF UpdateRow
<1>7. CASE CreateAdopted(p)
      BY <1>7, ContinueIsQuiet, ReturnIsQuiet DEF CreateAdopted
<1>8. CASE RecordRemote(p)
      BY <1>8, ReturnIsQuiet DEF RecordRemote
<1>  QED BY <1>1, <1>2, <1>3, <1>4, <1>5, <1>6, <1>7, <1>8

LEMMA LateSteps ==
    ASSUME TypeOK, NEW p \in Procs,
           \/ CallFails(p) \/ InsertSyncEvent(p) \/ RecordSuccess(p) \/ RecordFailure(p)
           \/ RefreshVersion(p)
    PROVE  QuietCaller(p) /\ (RecordSuccess(p) \/ confirmed' = confirmed)
<1>0. proc[p] \in ProcStates
      BY DEF TypeOK
<1>1. CASE CallFails(p)
  <2>1. PICK reply \in FailedReplies :
            Goto(p, [proc[p] EXCEPT !.pc = "log", !.reply = reply])
        BY <1>1 DEF CallFails
  <2> DEFINE state == [proc[p] EXCEPT !.pc = "log", !.reply = reply]
  <2>2. state.pc = "log" /\ state.payload = proc[p].payload
        BY <1>0 DEF ProcStates
  <2>3. /\ HasVersion(p) /\ ~At(p, "read")
        /\ net' \subseteq net /\ UNCHANGED <<agent, gen, confirmed>>
        BY <1>1 DEF CallFails, HasVersion, At
  <2> HIDE DEF state
  <2>4. Goto(p, state)
        BY <2>1 DEF state
  <2>  QED BY <2>2, <2>3, <2>4, LateIsQuiet
<1>2. CASE InsertSyncEvent(p)
  <2>1. HasVersion(p) /\ ~At(p, "read")
        BY <1>2 DEF InsertSyncEvent, HasVersion, At
  <2>  QED BY <1>2, <2>1, ContinueIsQuiet, ReturnIsQuiet DEF InsertSyncEvent
<1>3. CASE RecordSuccess(p)
      BY <1>3, ReturnIsQuiet DEF RecordSuccess
<1>4. CASE RecordFailure(p)
  <2>1. HasVersion(p) /\ ~At(p, "read")
        BY <1>4 DEF RecordFailure, HasVersion, At
  <2>  QED BY <1>4, <2>1, ContinueIsQuiet, ReturnIsQuiet DEF RecordFailure
<1>5. CASE RefreshVersion(p)
  <2>1. HasVersion(p) /\ ~At(p, "read")
        BY <1>5 DEF RefreshVersion, HasVersion, At
  <2>  QED BY <1>5, <2>1, ContinueIsQuiet DEF RefreshVersion
<1>  QED BY <1>1, <1>2, <1>3, <1>4, <1>5

LEMMA BumpSteps ==
    ASSUME TypeOK, NEW p \in Procs, Bump(p) \/ Rebump(p)
    PROVE  TakesVersion(p) \/ (QuietCaller(p) /\ confirmed' = confirmed)
<1>0. proc[p] \in ProcStates /\ proc[p].payload \in Payloads
      BY DEF TypeOK, ProcStates
<1>1. CASE ~Present(node)
      BY <1>1, ReturnIsQuiet DEF Bump, Rebump
<1>2. CASE Present(node)
  <2>0. node'.desired = node.desired + 1 /\ UNCHANGED <<agent, gen, net, confirmed>>
        BY <1>2 DEF Bump, Rebump, BumpVersion, TypeOK, Nodes
  <2>1. CASE Bump(p)
    <3> DEFINE state == [proc[p] EXCEPT
                          !.pc = "read", !.mayRetry = TRUE,
                          !.payload = [ver |-> node.desired + 1, gen |-> 0,
                                       floor |-> gen, origin |-> "first"]]
    <3>1. Goto(p, state)
          BY <1>2, <2>1 DEF Bump
    <3>2. /\ state.pc = "read" /\ state.payload.ver = node.desired + 1
          /\ state.payload.origin = "first" /\ state.payload.floor = gen
          /\ state.payload.gen = 0
          BY <1>0 DEF ProcStates
    <3> HIDE DEF state
    <3>  QED BY <2>0, <3>1, <3>2, Frame DEF TakesVersion
  <2>2. CASE Rebump(p)
    <3> DEFINE state == [proc[p] EXCEPT
                          !.pc = "send", !.mayRetry = FALSE, !.reply = NoReply,
                          !.payload.ver = node.desired + 1, !.payload.origin = "retry"]
    <3>1. Goto(p, state) /\ HasVersion(p) /\ ~At(p, "read")
          BY <1>2, <2>2 DEF Rebump, HasVersion, At
    <3>2. /\ state.pc = "send" /\ state.payload.ver = node.desired + 1
          /\ state.payload.origin = "retry" /\ state.payload.floor = proc[p].payload.floor
          /\ state.payload.gen = proc[p].payload.gen
          BY <1>0 DEF ProcStates, Payloads
    <3> HIDE DEF state
    <3>  QED BY <2>0, <3>1, <3>2, Frame DEF TakesVersion
  <2>  QED BY <2>1, <2>2
<1>  QED BY <1>1, <1>2

LEMMA StartIsQuiet ==
    ASSUME TypeOK, NEW p \in Procs, Start(p)
    PROVE  QuietCaller(p) /\ confirmed' = confirmed
<1>1. PICK op \in AllOps, step \in {"status", "health", "update"} : Begin(p, op, step)
      BY DEF Start, StartSync, StartFetchStatus, StartHealth, StartValidate, StartUpdate,
             StartAdopt, AllOps
<1>2. [Idle EXCEPT !.op = op, !.pc = step].pc = step
      BY DEF Idle
<1>  QED BY <1>1, <1>2, EarlyIsQuiet DEF Begin

\* All that a caller's step can be to what it and others have sent.
LEMMA CallerSteps ==
    ASSUME TypeOK, NEW p \in Procs, Start(p) \/ Step(p) \/ Abort(p)
    PROVE  \/ QuietCaller(p) /\ (RecordSuccess(p) \/ confirmed' = confirmed)
           \/ TakesVersion(p) \/ ReadActiveAccess(p) \/ Send(p)
<1>1. CASE Abort(p)
      BY <1>1, ReturnIsQuiet DEF Abort
<1>  QED BY <1>1, StartIsQuiet, EarlySteps, LateSteps, BumpSteps DEF Step

-----------------------------------------------------------------------------
(* A version names one configuration *)

\* Who can be behind an issued configuration.
LEMMA IssuedCases ==
    ASSUME NEW c \in Issued
    PROVE  \/ c \in net
           \/ \E q \in Procs : HasVersion(q) /\ ~At(q, "read") /\ c = proc[q].payload
           \/ c = agent.config /\ c.origin # "foreign"
BY DEF Issued

\* Versions handed out so far are at most the one in the row.
LEMMA IssuedVersions ==
    ASSUME VersionInv
    PROVE  /\ node.desired \in Nat
           /\ \A q \in Procs : HasVersion(q) => /\ proc[q].payload.ver \in Nat
                                               /\ proc[q].payload.ver <= node.desired
           /\ \A m \in net : m.ver \in Nat /\ m.ver <= node.desired
           /\ agent.config.origin # "foreign" =>
                 agent.config.ver \in Nat /\ agent.config.ver <= node.desired
BY DEF VersionInv, TypeOK, Nodes, Agents, ProcStates, Payloads, Pending, PendingIssued,
       AgentIssued

\* Steps that issue nothing keep UniqueInv.
LEMMA NothingIssued ==
    ASSUME UniqueInv, Issued' \subseteq Issued,
           \A q \in Procs : HasVersion(q)' =>
               HasVersion(q) /\ proc'[q].payload.ver = proc[q].payload.ver,
           Unsent'
    PROVE  UniqueInv'
BY DEF UniqueInv, VersionNamesOneConfig

LEMMA UniqueQuiet ==
    ASSUME UniqueInv, NEW p \in Procs, QuietCaller(p)
    PROVE  UniqueInv'
<1>1. \A q \in Procs : HasVersion(q)' =>
          HasVersion(q) /\ proc'[q].payload = proc[q].payload
      BY DEF QuietCaller, HasVersion
<1>2. \A q \in Procs : HasVersion(q)' /\ ~At(q, "read")' => ~At(q, "read")
      BY DEF QuietCaller, At
<1>3. Issued' \subseteq Issued
      BY <1>1, <1>2 DEF Issued, QuietCaller
<1>4. Unsent'
  <2>1. \A q \in Procs : proc'[q].pc \in {"read", "send"} =>
            proc[q].pc \in {"read", "send"} /\ proc'[q].payload = proc[q].payload
        BY DEF QuietCaller, HasVersion
  <2>  QED BY <2>1 DEF QuietCaller, UniqueInv, Unsent
<1>  QED BY <1>1, <1>3, <1>4, NothingIssued

LEMMA UniqueTakes ==
    ASSUME VersionInv, UniqueInv, NEW p \in Procs, TakesVersion(p)
    PROVE  UniqueInv'
<1>1. /\ \A q \in Procs : q # p => proc'[q] = proc[q]
      /\ agent' = agent /\ net' = net
      /\ proc'[p].payload.ver = node.desired + 1
      BY DEF TakesVersion
<1>2. \A c \in Issued : c.ver \in Nat /\ c.ver <= node.desired
      BY IssuedCases, IssuedVersions
<1>3. \A c \in Issued' : c \in Issued \/ c = proc'[p].payload
      BY <1>1 DEF Issued, HasVersion, At
<1>4. \A a, b \in Issued' : a.ver = b.ver => a = b
  <2> SUFFICES ASSUME NEW a \in Issued', NEW b \in Issued', a.ver = b.ver
               PROVE  a = b
      OBVIOUS
  <2>1. CASE a \in Issued /\ b \in Issued
        BY <2>1 DEF UniqueInv, VersionNamesOneConfig
  <2>2. CASE a = proc'[p].payload \/ b = proc'[p].payload
        BY <1>1, <1>2, <1>3, <2>2, IssuedVersions
  <2>  QED BY <1>3, <2>1, <2>2
<1>5. \A q \in Procs : q # p /\ HasVersion(q)' =>
          /\ HasVersion(q) /\ proc'[q].payload = proc[q].payload
          /\ proc'[q].payload.ver # proc'[p].payload.ver
      BY <1>1, IssuedVersions DEF HasVersion
<1>6. \A q, r \in Procs :
          HasVersion(q)' /\ HasVersion(r)' /\ proc'[q].payload.ver = proc'[r].payload.ver
              => q = r
      BY <1>5 DEF UniqueInv, VersionNamesOneConfig
<1>7. Unsent'
      BY <1>1, IssuedVersions DEF UniqueInv, Unsent
<1>  QED BY <1>4, <1>6, <1>7 DEF UniqueInv, VersionNamesOneConfig

LEMMA UniqueRead ==
    ASSUME TypeOK, UniqueInv, NEW p \in Procs, ReadActiveAccess(p)
    PROVE  UniqueInv'
<1>1. Goto(p, [proc[p] EXCEPT !.pc = "send", !.payload.gen = gen])
      BY DEF ReadActiveAccess
<1>2. /\ agent' = agent /\ net' = net /\ proc[p].pc = "read" /\ HasVersion(p)
      BY DEF ReadActiveAccess, At, HasVersion
<1>3. \A q \in Procs : q # p => proc'[q] = proc[q]
      BY <1>1, Frame
<1>4. proc'[p].payload.ver = proc[p].payload.ver /\ proc'[p].pc = "send"
  <2>1. proc'[p] = [proc[p] EXCEPT !.pc = "send", !.payload.gen = gen]
        BY <1>1, Frame
  <2>  QED BY <2>1 DEF TypeOK, ProcStates, Payloads
<1>5. \A c \in Issued : c.ver # proc[p].payload.ver
  <2> SUFFICES ASSUME NEW c \in Issued PROVE c.ver # proc[p].payload.ver
      OBVIOUS
  <2>1. \A q \in Procs : HasVersion(q) /\ ~At(q, "read") =>
            proc[q].payload.ver # proc[p].payload.ver
        BY <1>2 DEF UniqueInv, VersionNamesOneConfig, At
  <2>  QED BY <1>2, <2>1, IssuedCases DEF UniqueInv, Unsent
<1>6. \A c \in Issued' : c \in Issued \/ c = proc'[p].payload
      BY <1>2, <1>3 DEF Issued, HasVersion, At
<1>7. \A a, b \in Issued' : a.ver = b.ver => a = b
      BY <1>4, <1>5, <1>6 DEF UniqueInv, VersionNamesOneConfig
<1>8. \A q \in Procs : HasVersion(q)' =>
          HasVersion(q) /\ proc'[q].payload.ver = proc[q].payload.ver
      BY <1>2, <1>3, <1>4 DEF HasVersion
<1>9. Unsent'
      BY <1>2, <1>3, <1>4 DEF UniqueInv, Unsent
<1>  QED BY <1>7, <1>8, <1>9 DEF UniqueInv, VersionNamesOneConfig

LEMMA UniqueSend ==
    ASSUME TypeOK, UniqueInv, NEW p \in Procs, Send(p)
    PROVE  UniqueInv'
<1>1. Goto(p, [proc[p] EXCEPT !.pc = "wait"])
      BY DEF Send, Continue
<1>2. /\ agent' = agent /\ net' = net \cup {proc[p].payload}
      /\ HasVersion(p) /\ ~At(p, "read")
      BY DEF Send, At, HasVersion
<1>3. \A q \in Procs : q # p => proc'[q] = proc[q]
      BY <1>1, Frame
<1>4. proc'[p].payload = proc[p].payload /\ proc'[p].pc = "wait"
      BY <1>1, Frame DEF TypeOK, ProcStates
<1>5. Issued' \subseteq Issued
  <2>1. proc[p].payload \in Issued
        BY <1>2 DEF Issued
  <2>2. net' \subseteq Issued /\ net \subseteq Issued
        BY <1>2, <2>1 DEF Issued
  <2>3. \A q \in Procs : HasVersion(q)' /\ ~At(q, "read")' =>
            HasVersion(q) /\ ~At(q, "read") /\ proc'[q].payload = proc[q].payload
        BY <1>2, <1>3, <1>4 DEF HasVersion, At
  <2>  QED BY <1>2, <2>2, <2>3 DEF Issued
<1>6. \A q \in Procs : HasVersion(q)' => HasVersion(q) /\ proc'[q].payload = proc[q].payload
      BY <1>2, <1>3, <1>4 DEF HasVersion
<1>7. Unsent'
  <2> SUFFICES ASSUME NEW q \in Procs, proc'[q].pc \in {"read", "send"}
               PROVE  /\ \A m \in net' : m.ver # proc'[q].payload.ver
                      /\ agent'.config.origin # "foreign" =>
                            agent'.config.ver # proc'[q].payload.ver
      BY DEF Unsent
  <2>1. q # p /\ proc'[q] = proc[q] /\ HasVersion(q)
        BY <1>3, <1>4 DEF HasVersion
  <2>2. proc[p].payload.ver # proc[q].payload.ver
        BY <1>2, <2>1 DEF UniqueInv, VersionNamesOneConfig
  <2>  QED BY <1>2, <2>1, <2>2 DEF UniqueInv, Unsent
<1>  QED BY <1>5, <1>6, <1>7, NothingIssued

\* What a step of the agent is to what has been sent.
AgentTakes(m) ==
    /\ \E reply : Answer(m, reply)
    /\ net' = net \ {m}
    /\ UNCHANGED <<node, gen, calls, confirmed>>
    /\ agent'.current \in {agent.current, m.ver} /\ agent'.current >= agent.current
    /\ \/ m.ver > agent.current /\ agent'.current = m.ver /\ agent'.config = m
       \/ agent'.config = agent.config

LEMMA AgentSteps ==
    ASSUME TypeOK, AgentStep
    PROVE  \E m \in net : AgentTakes(m)
<1>1. PICK m \in net : AgentApplies(m) \/ AgentFailsToApply(m) \/ AgentRefusesStale(m)
      BY DEF AgentStep
<1>2. m.ver \in Nat /\ agent.current \in Nat /\ agent \in Agents
      BY DEF TypeOK, Payloads, Agents
<1>3. \E reply : Answer(m, reply)
      BY <1>1 DEF AgentApplies, AgentFailsToApply, AgentRefusesStale
<1>4. CASE AgentApplies(m)
      BY <1>2, <1>3, <1>4 DEF AgentApplies, AgentTakes, Receive
<1>5. CASE AgentFailsToApply(m)
  <2>1. PICK received \in {agent.current, m.ver} : agent' = [agent EXCEPT !.current = received]
        BY <1>5 DEF AgentFailsToApply
  <2>2. agent'.config = agent.config /\ agent'.current = received
        BY <1>2, <2>1 DEF Agents
  <2>  QED BY <1>2, <1>3, <1>5, <2>2 DEF AgentFailsToApply, AgentTakes, Receive
<1>6. CASE AgentRefusesStale(m)
      BY <1>2, <1>3, <1>6 DEF AgentRefusesStale, AgentTakes, Receive
<1>  QED BY <1>1, <1>4, <1>5, <1>6

LEMMA UniqueAgent ==
    ASSUME TypeOK, UniqueInv, NEW m \in net, AgentTakes(m)
    PROVE  UniqueInv'
<1>1. /\ net' \subseteq net
      /\ agent'.config = agent.config \/ agent'.config = m
      BY DEF AgentTakes
<1>2. \A q \in Procs : /\ proc'[q].payload = proc[q].payload
                       /\ HasVersion(q)' = HasVersion(q)
                       /\ proc'[q].pc = proc[q].pc
                             \/ (proc[q].pc = "wait" /\ proc'[q].pc = "log")
      BY AnswerFrame DEF AgentTakes
<1>3. Issued' \subseteq Issued
  <2>1. \A q \in Procs : HasVersion(q)' /\ ~At(q, "read")' => HasVersion(q) /\ ~At(q, "read")
        BY <1>2 DEF At
  <2>  QED BY <1>1, <1>2, <2>1 DEF Issued
<1>4. Unsent'
      BY <1>1, <1>2 DEF UniqueInv, Unsent
<1>  QED BY <1>2, <1>3, <1>4, NothingIssued

LEMMA UniqueOthers ==
    ASSUME UniqueInv, UNCHANGED <<agent, net, proc>>
    PROVE  UniqueInv'
<1>1. Issued' = Issued
      BY DEF Issued, HasVersion, At
<1>  QED BY <1>1 DEF UniqueInv, Unsent, VersionNamesOneConfig, HasVersion

LEMMA UniqueInit == Init => UniqueInv
<1> SUFFICES ASSUME Init PROVE UniqueInv
    OBVIOUS
<1>1. proc = [p \in Procs |-> Idle] /\ net = {} /\ agent.config.origin = "foreign"
      BY DEF Init, NoPayload
<1>2. \A p \in Procs : ~HasVersion(p) /\ proc[p].pc = "idle"
      BY <1>1 DEF HasVersion, Idle
<1>3. Issued = {}
      BY <1>1, <1>2 DEF Issued
<1>  QED BY <1>2, <1>3 DEF UniqueInv, Unsent, VersionNamesOneConfig

LEMMA UniqueNext == VersionInv /\ UniqueInv /\ [Next]_vars => UniqueInv'
<1> SUFFICES ASSUME VersionInv, UniqueInv, [Next]_vars PROVE UniqueInv'
    OBVIOUS
<1>0. TypeOK
      BY DEF VersionInv
<1>1. CASE UNCHANGED vars \/ CreatePlanned \/ DeleteNode \/ AccessChange
      BY <1>1, UniqueOthers DEF vars, CreatePlanned, DeleteNode, AccessChange
<1>2. ASSUME NEW p \in Procs, Start(p) \/ Step(p) \/ Abort(p) PROVE UniqueInv'
      BY <1>0, <1>2, CallerSteps, UniqueQuiet, UniqueTakes, UniqueRead, UniqueSend
<1>3. CASE AgentStep
      BY <1>0, <1>3, AgentSteps, UniqueAgent
<1>  QED BY <1>1, <1>2, <1>3 DEF Next

THEOREM UniqueInvariant == Spec => [](VersionInv /\ UniqueInv)
<1>1. Init => VersionInv /\ UniqueInv
      BY VersionInit, UniqueInit
<1>2. (VersionInv /\ UniqueInv) /\ [Next]_vars => (VersionInv /\ UniqueInv)'
      BY VersionNext, UniqueNext
<1>  QED BY <1>1, <1>2, PTL DEF Spec

\* VersionNamesOneConfig: two different user lists never travel under one version.
THEOREM VersionNamesOneUserList == Spec => []VersionNamesOneConfig
<1>1. UniqueInv => VersionNamesOneConfig
      BY DEF UniqueInv
<1>  QED BY <1>1, UniqueInvariant, PTL

-----------------------------------------------------------------------------
(* What has been vouched for *)

LEMMA FreshTypes ==
    ASSUME TypeOK
    PROVE  /\ gen \in Nat /\ confirmed \in Nat /\ node.desired \in Nat /\ agent.current \in Nat
           /\ agent.config \in Payloads
           /\ Pending \subseteq Payloads /\ net \subseteq Pending
           /\ \A q \in Procs : HasVersion(q) => proc[q].payload \in Pending
BY DEF TypeOK, Nodes, Agents, ProcStates, Pending

\* Steps of a caller that start nothing new and vouch for nothing.
LEMMA NothingFresh ==
    ASSUME TypeOK, FreshInv, UNCHANGED <<agent, gen, confirmed>>,
           \A c \in Pending' : \E d \in Pending :
               /\ c.ver = d.ver /\ c.floor = d.floor /\ c.origin = d.origin
               /\ c.gen = d.gen \/ c.gen = gen,
           \A m \in net' : m.floor <= m.gen,
           \A q \in Procs : HasVersion(q)' /\ ~At(q, "read")' =>
               proc'[q].payload.floor <= proc'[q].payload.gen
    PROVE  FreshInv'
<1> USE FreshTypes
<1>1. GenerationsBounded'
      BY DEF FreshInv, GenerationsBounded, Payloads
<1>2. FloorsOrdered'
      BY DEF FreshInv, FloorsOrdered
<1>3. PendingFresh'
      BY DEF FreshInv, PendingFresh
<1>4. InstalledFresh'
      BY DEF FreshInv, InstalledFresh
<1>  QED BY <1>1, <1>2, <1>3, <1>4 DEF FreshInv

LEMMA FreshQuiet ==
    ASSUME TypeOK, FreshInv, NEW p \in Procs, QuietCaller(p), confirmed' = confirmed
    PROVE  FreshInv'
<1>1. \A q \in Procs : HasVersion(q)' =>
          HasVersion(q) /\ proc'[q].payload = proc[q].payload
      BY DEF QuietCaller, HasVersion
<1>2. \A q \in Procs : HasVersion(q)' /\ ~At(q, "read")' => ~At(q, "read")
      BY DEF QuietCaller, At
<1>3. Pending' \subseteq Pending
      BY <1>1 DEF Pending, QuietCaller
<1>4. \A m \in net' : m.floor <= m.gen
      BY DEF QuietCaller, FreshInv, GenerationsBounded
<1>5. \A q \in Procs : HasVersion(q)' /\ ~At(q, "read")' =>
               proc'[q].payload.floor <= proc'[q].payload.gen
      BY <1>1, <1>2 DEF FreshInv, GenerationsBounded
<1>6. UNCHANGED <<agent, gen, confirmed>>
      BY DEF QuietCaller
<1>  QED BY <1>3, <1>4, <1>5, <1>6, NothingFresh

\* A successful sync is recorded only when the agent has its version or a later one,
\* so what it vouches for is installed, and first attempts above it began later.
LEMMA FreshSuccess ==
    ASSUME VersionInv, FreshInv, NEW p \in Procs, QuietCaller(p), RecordSuccess(p)
    PROVE  FreshInv'
<1> DEFINE own == proc[p].payload
<1>0. TypeOK
      BY DEF VersionInv
<1>1. /\ HasVersion(p) /\ ~At(p, "read") /\ proc[p].reply.body = "ok"
      /\ confirmed' = Greatest(confirmed, own.floor)
      BY DEF RecordSuccess, At, HasVersion, SyncStatus
<1>2. own.ver <= agent.config.ver /\ agent.config.origin # "foreign"
      BY <1>1 DEF VersionInv, RepliesMatch, ReplyMatches
<1>3. own \in Pending /\ own \in Payloads
      BY <1>0, <1>1, FreshTypes
<1>4. agent.config.ver <= agent.current
      BY DEF VersionInv, AgentIssued
<1> HIDE DEF own
<1>5. \A q \in Procs : HasVersion(q)' =>
          HasVersion(q) /\ proc'[q].payload = proc[q].payload
      BY DEF QuietCaller, HasVersion
<1>6. \A q \in Procs : HasVersion(q)' /\ ~At(q, "read")' => ~At(q, "read")
      BY DEF QuietCaller, At
<1>7. Pending' \subseteq Pending /\ net' \subseteq net /\ UNCHANGED <<agent, gen>>
      BY <1>5 DEF Pending, QuietCaller
<1>8. own.floor <= gen /\ own.floor \in Nat /\ own.ver \in Nat
      BY <1>3 DEF FreshInv, GenerationsBounded, Payloads
<1>9. confirmed' \in Nat /\ confirmed' <= gen
      BY <1>0, <1>1, <1>8, FreshTypes DEF FreshInv, GenerationsBounded, Greatest
<1>10. GenerationsBounded'
      BY <1>5, <1>6, <1>7, <1>9 DEF FreshInv, GenerationsBounded
<1>11. FloorsOrdered'
      BY <1>7 DEF FreshInv, FloorsOrdered
<1>12. PendingFresh'
  <2> SUFFICES ASSUME NEW b \in Pending, b.origin = "first", b.ver > agent.current
               PROVE  b.floor >= confirmed'
      BY <1>7 DEF PendingFresh
  <2>1. b.floor >= confirmed
        BY DEF FreshInv, PendingFresh
  <2>2. own.ver <= b.ver
        BY <1>0, <1>2, <1>4, <1>8, FreshTypes DEF Payloads
  <2>3. own.floor <= b.floor
        BY <1>3, <2>2 DEF FreshInv, FloorsOrdered
  <2>  QED BY <1>1, <2>1, <2>3 DEF Greatest
<1>13. InstalledFresh'
  <2>1. ASSUME agent.config.origin = "first"
        PROVE  agent.config.floor <= agent.config.gen /\ agent.config.gen >= confirmed'
    <3>1. own.floor <= agent.config.floor
          BY <1>2, <1>3, <2>1 DEF FreshInv, FloorsOrdered
    <3>2. agent.config.floor <= agent.config.gen /\ agent.config.gen >= confirmed
          BY <2>1 DEF FreshInv, InstalledFresh
    <3>  QED BY <1>0, <1>1, <1>8, <3>1, <3>2, FreshTypes DEF Greatest, Payloads
  <2>  QED BY <1>2, <1>7, <2>1 DEF InstalledFresh
<1>  QED BY <1>10, <1>11, <1>12, <1>13 DEF FreshInv

\* A new version is above all others, and a first attempt begins now.
LEMMA FreshTakes ==
    ASSUME VersionInv, FreshInv, NEW p \in Procs, TakesVersion(p)
    PROVE  FreshInv'
<1> DEFINE own == proc'[p].payload
<1>0. TypeOK
      BY DEF VersionInv
<1>1. /\ \A q \in Procs : q # p => proc'[q] = proc[q]
      /\ node'.desired = node.desired + 1
      /\ UNCHANGED <<agent, gen, net, confirmed>>
      /\ own.ver = node.desired + 1
      BY DEF TakesVersion
<1>2. \/ /\ proc'[p].pc = "read" /\ own.origin = "first" /\ own.floor = gen /\ own.gen = 0
      \/ /\ HasVersion(p) /\ ~At(p, "read") /\ own.origin = "retry"
         /\ own.floor = proc[p].payload.floor /\ own.gen = proc[p].payload.gen
      BY DEF TakesVersion
<1>3. own.floor \in Nat /\ own.floor <= gen /\ own.gen <= gen
      BY <1>0, <1>2, FreshTypes DEF FreshInv, GenerationsBounded, Payloads
<1>4. \A c \in Pending' : c \in Pending \/ c = own
      BY <1>1 DEF Pending, HasVersion
<1>5. \A c \in Pending : c.ver <= node.desired
      BY DEF VersionInv, PendingIssued
<1>6. \A q \in Procs : HasVersion(q)' /\ ~At(q, "read")' =>
               proc'[q].payload.floor <= proc'[q].payload.gen
  <2> SUFFICES ASSUME NEW q \in Procs, HasVersion(q)', ~At(q, "read")'
               PROVE  proc'[q].payload.floor <= proc'[q].payload.gen
      OBVIOUS
  <2>1. CASE q # p
        BY <1>1, <2>1 DEF FreshInv, GenerationsBounded, HasVersion, At
  <2>2. CASE q = p
        BY <1>2, <2>2 DEF FreshInv, GenerationsBounded, At
  <2>  QED BY <2>1, <2>2
<1> HIDE DEF own
<1>7. GenerationsBounded'
      BY <1>1, <1>3, <1>4, <1>6 DEF FreshInv, GenerationsBounded
<1>8. FloorsOrdered'
  <2> SUFFICES ASSUME NEW a \in Pending', NEW b \in Pending' \cup {agent.config},
                      b.origin = "first", a.ver <= b.ver
               PROVE  a.floor <= b.floor
      BY <1>1 DEF FloorsOrdered
  <2>1. CASE a = own
    <3>1. b = own
      <4>1. agent.config.origin # "foreign" => agent.config.ver <= node.desired
            BY DEF VersionInv, AgentIssued
      <4>2. b.ver \in Nat \/ b = own
            BY <1>0, <1>4, FreshTypes DEF Payloads
      <4>  QED BY <1>0, <1>1, <1>4, <1>5, <2>1, <4>1, <4>2, FreshTypes
    <3>  QED BY <1>3, <2>1, <3>1
  <2>2. CASE a \in Pending /\ b = own
    <3>1. own.floor = gen
          BY <1>2, <2>2 DEF own
    <3>  QED BY <2>2, <3>1 DEF FreshInv, GenerationsBounded
  <2>3. CASE a \in Pending /\ b \in Pending \cup {agent.config}
        BY <2>3 DEF FreshInv, FloorsOrdered
  <2>  QED BY <1>4, <2>1, <2>2, <2>3
<1>9. PendingFresh'
  <2> SUFFICES ASSUME NEW b \in Pending', b.origin = "first", b.ver > agent.current
               PROVE  b.floor >= confirmed
      BY <1>1 DEF PendingFresh
  <2>1. CASE b \in Pending
        BY <2>1 DEF FreshInv, PendingFresh
  <2>2. CASE b = own
    <3>1. own.floor = gen
          BY <1>2, <2>2 DEF own
    <3>  QED BY <2>2, <3>1, <1>0, FreshTypes DEF FreshInv, GenerationsBounded
  <2>  QED BY <1>4, <2>1, <2>2
<1>10. InstalledFresh'
      BY <1>1 DEF FreshInv, InstalledFresh
<1>  QED BY <1>7, <1>8, <1>9, <1>10 DEF FreshInv

LEMMA FreshRead ==
    ASSUME TypeOK, FreshInv, NEW p \in Procs, ReadActiveAccess(p)
    PROVE  FreshInv'
<1>1. Goto(p, [proc[p] EXCEPT !.pc = "send", !.payload.gen = gen])
      BY DEF ReadActiveAccess
<1>2. /\ UNCHANGED <<agent, gen, net, confirmed>> /\ HasVersion(p)
      BY DEF ReadActiveAccess, At, HasVersion
<1>3. \A q \in Procs : q # p => proc'[q] = proc[q]
      BY <1>1, Frame
<1>4. /\ proc'[p].payload.ver = proc[p].payload.ver
      /\ proc'[p].payload.floor = proc[p].payload.floor
      /\ proc'[p].payload.origin = proc[p].payload.origin
      /\ proc'[p].payload.gen = gen
  <2>1. proc'[p] = [proc[p] EXCEPT !.pc = "send", !.payload.gen = gen]
        BY <1>1, Frame
  <2>  QED BY <2>1 DEF TypeOK, ProcStates, Payloads
<1>5. proc[p].payload \in Pending
      BY <1>2, FreshTypes
<1>6. \A c \in Pending' : c \in Pending \/ c = proc'[p].payload
      BY <1>2, <1>3 DEF Pending, HasVersion
<1>7. \A c \in Pending' : \E d \in Pending :
          /\ c.ver = d.ver /\ c.floor = d.floor /\ c.origin = d.origin
          /\ c.gen = d.gen \/ c.gen = gen
      BY <1>4, <1>5, <1>6
<1>8. \A m \in net' : m.floor <= m.gen
      BY <1>2 DEF FreshInv, GenerationsBounded
<1>9. \A q \in Procs : HasVersion(q)' /\ ~At(q, "read")' =>
               proc'[q].payload.floor <= proc'[q].payload.gen
  <2>1. proc'[p].payload.floor <= proc'[p].payload.gen
        BY <1>4, <1>5 DEF FreshInv, GenerationsBounded
  <2>  QED BY <1>3, <2>1 DEF FreshInv, GenerationsBounded, HasVersion, At
<1>  QED BY <1>2, <1>7, <1>8, <1>9, NothingFresh

LEMMA FreshSend ==
    ASSUME TypeOK, FreshInv, NEW p \in Procs, Send(p)
    PROVE  FreshInv'
<1>1. Goto(p, [proc[p] EXCEPT !.pc = "wait"])
      BY DEF Send, Continue
<1>2. /\ UNCHANGED <<agent, gen, confirmed>> /\ net' = net \cup {proc[p].payload}
      /\ HasVersion(p) /\ ~At(p, "read")
      BY DEF Send, At, HasVersion
<1>3. \A q \in Procs : q # p => proc'[q] = proc[q]
      BY <1>1, Frame
<1>4. proc'[p].payload = proc[p].payload
      BY <1>1, Frame DEF TypeOK, ProcStates
<1>5. Pending' \subseteq Pending
  <2>1. proc[p].payload \in Pending
        BY <1>2, FreshTypes
  <2>2. \A q \in Procs : HasVersion(q)' => HasVersion(q) /\ proc'[q].payload = proc[q].payload
        BY <1>2, <1>3, <1>4 DEF HasVersion
  <2>  QED BY <1>2, <2>1, <2>2 DEF Pending
<1>6. proc[p].payload.floor <= proc[p].payload.gen
      BY <1>2 DEF FreshInv, GenerationsBounded
<1>7. \A m \in net' : m.floor <= m.gen
      BY <1>2, <1>6 DEF FreshInv, GenerationsBounded
<1>8. \A q \in Procs : HasVersion(q)' /\ ~At(q, "read")' =>
               proc'[q].payload.floor <= proc'[q].payload.gen
      BY <1>3, <1>4, <1>6 DEF FreshInv, GenerationsBounded, HasVersion, At
<1>  QED BY <1>2, <1>5, <1>7, <1>8, NothingFresh

\* What the agent installs it had been sent, above anything it has received.
LEMMA FreshAgent ==
    ASSUME VersionInv, FreshInv, NEW m \in net, AgentTakes(m)
    PROVE  FreshInv'
<1>0. TypeOK
      BY DEF VersionInv
<1>1. /\ net' \subseteq net /\ UNCHANGED <<gen, confirmed>>
      /\ agent'.current >= agent.current
      /\ agent'.config = agent.config \/ (agent'.config = m /\ m.ver > agent.current)
      /\ agent'.current \in {agent.current, m.ver}
      BY DEF AgentTakes
<1>2. \A q \in Procs : /\ proc'[q].payload = proc[q].payload
                       /\ HasVersion(q)' = HasVersion(q)
                       /\ proc'[q].pc = proc[q].pc
                             \/ (proc[q].pc = "wait" /\ proc'[q].pc = "log")
      BY <1>0, AnswerFrame DEF AgentTakes
<1>3. Pending' \subseteq Pending
      BY <1>1, <1>2 DEF Pending
<1>4. m \in Pending /\ m \in Payloads /\ m.origin # "foreign" /\ m.floor <= m.gen
      BY <1>0, FreshTypes DEF VersionInv, PendingIssued, FreshInv, GenerationsBounded
<1>5. GenerationsBounded'
  <2>1. \A q \in Procs : HasVersion(q)' /\ ~At(q, "read")' =>
               proc'[q].payload.floor <= proc'[q].payload.gen
        BY <1>2 DEF FreshInv, GenerationsBounded, At
  <2>  QED BY <1>1, <1>3, <1>4, <2>1 DEF FreshInv, GenerationsBounded
<1>6. FloorsOrdered'
      BY <1>1, <1>3, <1>4 DEF FreshInv, FloorsOrdered
<1>7. PendingFresh'
  <2> SUFFICES ASSUME NEW b \in Pending, b.origin = "first", b.ver > agent'.current
               PROVE  b.floor >= confirmed
      BY <1>1, <1>3 DEF PendingFresh
  <2>1. b.ver > agent.current
        BY <1>0, <1>1, <1>4, FreshTypes DEF Payloads
  <2>  QED BY <2>1 DEF FreshInv, PendingFresh
<1>8. InstalledFresh'
  <2>1. CASE agent'.config = agent.config
        BY <1>1, <2>1 DEF FreshInv, InstalledFresh
  <2>2. CASE agent'.config = m /\ m.ver > agent.current
    <3>1. m.origin = "first" => m.floor >= confirmed
          BY <1>4, <2>2 DEF FreshInv, PendingFresh
    <3>2. m.origin = "first" => m.gen >= confirmed
          BY <1>0, <1>4, <3>1, FreshTypes DEF Payloads
    <3>  QED BY <1>1, <1>4, <2>2, <3>2 DEF InstalledFresh
  <2>  QED BY <1>1, <2>1, <2>2
<1>  QED BY <1>5, <1>6, <1>7, <1>8 DEF FreshInv

LEMMA FreshOthers ==
    ASSUME TypeOK, FreshInv, UNCHANGED <<agent, net, proc, confirmed>>,
           gen' \in {gen, gen + 1}
    PROVE  FreshInv'
<1>1. Pending' = Pending
      BY DEF Pending, HasVersion
<1>2. GenerationsBounded'
      BY <1>1, FreshTypes DEF FreshInv, GenerationsBounded, Payloads, HasVersion, At
<1>  QED BY <1>1, <1>2 DEF FreshInv, FloorsOrdered, PendingFresh, InstalledFresh

LEMMA FreshInit == Init => FreshInv
<1> SUFFICES ASSUME Init PROVE FreshInv
    OBVIOUS
<1>1. /\ proc = [p \in Procs |-> Idle] /\ net = {} /\ gen = 0 /\ confirmed = 0
      /\ agent.config.origin = "foreign" /\ agent.config.gen = 0 /\ agent.config.floor = 0
      BY DEF Init, NoPayload
<1>2. \A p \in Procs : ~HasVersion(p)
      BY <1>1 DEF HasVersion, Idle
<1>3. Pending = {}
      BY <1>1, <1>2 DEF Pending
<1>  QED BY <1>1, <1>2, <1>3
     DEF FreshInv, GenerationsBounded, FloorsOrdered, PendingFresh, InstalledFresh

LEMMA FreshNext == VersionInv /\ FreshInv /\ [Next]_vars => FreshInv'
<1> SUFFICES ASSUME VersionInv, FreshInv, [Next]_vars PROVE FreshInv'
    OBVIOUS
<1>0. TypeOK
      BY DEF VersionInv
<1>1. CASE UNCHANGED vars \/ CreatePlanned \/ DeleteNode \/ AccessChange
      BY <1>0, <1>1, FreshOthers DEF vars, CreatePlanned, DeleteNode, AccessChange
<1>2. ASSUME NEW p \in Procs, Start(p) \/ Step(p) \/ Abort(p) PROVE FreshInv'
      BY <1>0, <1>2, CallerSteps, FreshQuiet, FreshSuccess, FreshTakes, FreshRead, FreshSend
<1>3. CASE AgentStep
      BY <1>0, <1>3, AgentSteps, FreshAgent
<1>  QED BY <1>1, <1>2, <1>3 DEF Next

\* The whole invariant: versions, their uniqueness, what they carry, and their number.
THEOREM Invariant == Spec => []IInv
<1>1. Init => IInv
      BY VersionInit, UniqueInit, FreshInit, BudgetInit DEF IInv
<1>2. IInv /\ [Next]_vars => IInv'
      BY VersionNext, UniqueNext, FreshNext, BudgetNext DEF IInv
<1>  QED BY <1>1, <1>2, PTL DEF Spec

\* ConfirmedNotUndone: what a successful sync vouched for stays installed, unless a
\* retry after stale_version overrides it.
THEOREM ConfirmedStays == Spec => []ConfirmedNotUndone
<1>1. IInv => ConfirmedNotUndone
  <2> SUFFICES ASSUME IInv, agent.config.origin # "retry"
               PROVE  agent.config.gen >= confirmed
      BY DEF ConfirmedNotUndone
  <2>1. agent.config \in Payloads
        BY DEF IInv, VersionInv, TypeOK, Agents
  <2>  QED BY <2>1 DEF IInv, FreshInv, InstalledFresh, Payloads
<1>  QED BY <1>1, Invariant, PTL

-----------------------------------------------------------------------------
(* NodeSync implements SyncPromise *)

LEMMA PromiseInit == Init => Promise!Init
BY DEF Init, NoPayload, Promise!Init

LEMMA PromiseQuiet ==
    ASSUME NEW p \in Procs, QuietCaller(p), confirmed' = confirmed
    PROVE  UNCHANGED <<gen, agent.config.gen, confirmed, (agent.config.origin = "retry")>>
BY DEF QuietCaller

\* Recording a success vouches for the generation its sync began with.
LEMMA PromiseSuccess ==
    ASSUME IInv, FreshInv', NEW p \in Procs, QuietCaller(p), RecordSuccess(p)
    PROVE  Promise!Vouch
<1>1. UNCHANGED <<agent, gen>>
      BY DEF QuietCaller
<1>2. TypeOK /\ proc[p].payload.floor \in Nat /\ HasVersion(p) /\ proc[p].reply.body = "ok"
      BY DEF IInv, VersionInv, TypeOK, ProcStates, Payloads, RecordSuccess, At, HasVersion,
             SyncStatus
<1>3. confirmed' \in confirmed..gen
      BY <1>1, <1>2, FreshTypes
      DEF RecordSuccess, Greatest, FreshInv, GenerationsBounded
<1>4. agent.config.origin # "foreign"
      BY <1>2 DEF IInv, VersionInv, RepliesMatch, ReplyMatches
<1>5. agent.config.origin = "retry" \/ confirmed' <= agent.config.gen
      BY <1>1, <1>2, <1>3, <1>4, FreshTypes DEF FreshInv, InstalledFresh, Payloads
<1>  QED BY <1>1, <1>3, <1>5 DEF Promise!Vouch

\* A configuration the agent installs is a first attempt, which keeps the promise, or
\* a retry, which overrides it.
LEMMA PromiseAgent ==
    ASSUME IInv, FreshInv', NEW m \in net, AgentTakes(m)
    PROVE  \/ Promise!Install \/ Promise!Override
           \/ UNCHANGED <<gen, agent.config.gen, confirmed, (agent.config.origin = "retry")>>
<1>1. UNCHANGED <<gen, confirmed>>
      BY DEF AgentTakes
<1>2. CASE agent'.config = agent.config
      BY <1>1, <1>2
<1>3. CASE agent'.config = m
  <2>1. m \in Payloads /\ m.origin # "foreign" /\ gen \in Nat /\ confirmed \in Nat /\ m.gen <= gen
        BY FreshTypes DEF IInv, VersionInv, PendingIssued, FreshInv, GenerationsBounded
  <2>2. CASE m.origin = "first"
    <3>1. m.gen >= confirmed
          BY <1>1, <1>3, <2>2 DEF FreshInv, InstalledFresh
    <3>  QED BY <1>1, <1>3, <2>1, <2>2, <3>1 DEF Promise!Install, Payloads
  <2>3. CASE m.origin = "retry"
        BY <1>1, <1>3, <2>1, <2>3 DEF Promise!Override, Payloads
  <2>  QED BY <2>1, <2>2, <2>3 DEF Payloads
<1>  QED BY <1>2, <1>3 DEF AgentTakes

LEMMA PromiseStep ==
    IInv /\ FreshInv' /\ [Next]_vars =>
        [Promise!Next]_<<gen, agent.config.gen, confirmed, (agent.config.origin = "retry")>>
<1> SUFFICES ASSUME IInv, FreshInv', [Next]_vars
             PROVE  \/ Promise!Next
                    \/ UNCHANGED <<gen, agent.config.gen, confirmed,
                                   (agent.config.origin = "retry")>>
    OBVIOUS
<1>0. TypeOK
      BY DEF IInv, VersionInv
<1>1. CASE UNCHANGED vars \/ CreatePlanned \/ DeleteNode
      BY <1>1 DEF vars, CreatePlanned, DeleteNode
<1>2. CASE AccessChange
      BY <1>2 DEF AccessChange, Promise!Next, Promise!Change
<1>3. ASSUME NEW p \in Procs, Start(p) \/ Step(p) \/ Abort(p)
      PROVE  \/ Promise!Next
             \/ UNCHANGED <<gen, agent.config.gen, confirmed, (agent.config.origin = "retry")>>
  <2>1. CASE TakesVersion(p)
        BY <2>1 DEF TakesVersion
  <2>2. CASE ReadActiveAccess(p) \/ Send(p)
        BY <2>2 DEF ReadActiveAccess, Send
  <2>  QED BY <1>0, <1>3, <2>1, <2>2, CallerSteps, PromiseQuiet, PromiseSuccess
           DEF Promise!Next
<1>4. CASE AgentStep
      BY <1>0, <1>4, AgentSteps, PromiseAgent DEF Promise!Next
<1>  QED BY <1>1, <1>2, <1>3, <1>4 DEF Next

\* KeepsPromise: seen from outside, SyncNode with its versions, statements, messages
\* and retries does what SyncPromise says.
THEOREM ImplementsPromise == Spec => KeepsPromise
<1>1. Init => Promise!Init
      BY PromiseInit
<1>2. IInv /\ IInv' /\ [Next]_vars =>
        [Promise!Next]_<<gen, agent.config.gen, confirmed, (agent.config.origin = "retry")>>
      BY PromiseStep DEF IInv
<1>  QED BY <1>1, <1>2, Invariant, PTL DEF Spec, KeepsPromise, Promise!Spec
=============================================================================
