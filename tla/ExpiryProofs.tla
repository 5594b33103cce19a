---------------------------- MODULE ExpiryProofs ----------------------------
(* ExpiryInv is an inductive invariant of ExpiryReconciler, for any users, nodes, *)
(* callers and bounds.                                                            *)
EXTENDS ExpiryInvariant, TLAPS

-----------------------------------------------------------------------------
(* Types *)

LEMMA RunFrame ==
    ASSUME TypeOK, NEW c \in Callers, NEW state, Goto(c, state)
    PROVE  run'[c] = state /\ \A d \in Callers : d # c => run'[d] = run[d]
BY DEF TypeOK, Goto

LEMMA IdleRunType == IdleRun \in Runs
BY DEF IdleRun, Runs

LEMMA ListRunType == [IdleRun EXCEPT !.pc = "list"] \in Runs
BY DEF IdleRun, Runs

LEMMA GotoType ==
    ASSUME TypeOK, NEW c \in Callers, NEW state \in Runs, Goto(c, state)
    PROVE  run' \in [Callers -> Runs]
BY DEF TypeOK, Goto

LEMMA SyncType ==
    ASSUME TypeOK, NEW n \in Nodes, NEW ok \in BOOLEAN, SyncNode(n, ok)
    PROVE  serves' \in [Nodes -> SUBSET Users]
BY DEF TypeOK, UserAccessTypeOK, SyncNode, ActiveAccessForNode

LEMMA TypeInit == Init => TypeOK
<1> SUFFICES ASSUME Init PROVE TypeOK
    OBVIOUS
<1>1. MaxTime \in Nat /\ MaxChanges \in Nat /\ MaxRequests \in Nat
      BY TimeAssumption, ReconcilerAssumption
<1>2. user \in [Users -> UserRows]
  <2>1. [exists: {TRUE}, enabled: {TRUE}, expires: 1..Never, synced: {0}] \subseteq UserRows
    <3>1. 0 \in 0..MaxTime
          BY <1>1
    <3>  QED BY <3>1 DEF UserRows
  <2>  QED BY <2>1 DEF Init
<1>3. access \in [Users -> [Nodes -> AccessRows]] /\ host \in [Nodes -> Hosts]
      BY DEF Init, AccessRows, Hosts
<1>4. serves \in [Nodes -> SUBSET Users]
      BY DEF Init, ActiveAccessForNode
<1>5. run \in [Callers -> Runs]
      BY IdleRunType DEF Init
<1>6. now \in 0..MaxTime /\ changed \in 0..MaxChanges /\ requested \in 0..MaxRequests
      BY <1>1 DEF Init
<1>7. running \in BOOLEAN /\ calm \in BOOLEAN /\ excused \subseteq Users
      BY DEF Init
<1>  QED BY <1>2, <1>3, <1>4, <1>5, <1>6, <1>7 DEF TypeOK, UserAccessTypeOK

\* A step of a run changes at most the flag, its locals, what a node serves, a user's
\* row and the history.
LEMMA StepType ==
    ASSUME TypeOK, NEW c \in Callers, Step(c)
    PROVE  TypeOK'
<1> USE DEF TypeOK
<1>0. run[c] \in Runs
      OBVIOUS
<1>1. CASE ListUsers(c)
  <2> DEFINE found == {u \in UsersPendingExpiryReconcile : NeedsExpirySync(u)}
  <2>1. [run[c] EXCEPT !.pc = "lookup", !.todo = found, !.found = found] \in Runs
        BY <1>0 DEF Runs, UsersPendingExpiryReconcile
  <2>2. running' \in BOOLEAN /\ run' \in [Callers -> Runs]
        BY <1>1, <2>1, IdleRunType, GotoType DEF ListUsers, Return
  <2>  QED BY <1>1, <2>2 DEF ListUsers, UserAccessTypeOK
<1>2. CASE ListFails(c)
  <2>1. running' \in BOOLEAN /\ run' \in [Callers -> Runs]
        BY <1>2, IdleRunType, GotoType DEF ListFails, Return
  <2>  QED BY <1>2, <2>1 DEF ListFails, UserAccessTypeOK
<1>3. ASSUME NEW u \in Users, NEW nodeIDs \in SUBSET Nodes, LookedUp(c, u, nodeIDs)
      PROVE  run' \in [Callers -> Runs]
  <2> DEFINE state == [run[c] EXCEPT
               !.todo = @ \ {u},
               !.usersToNodes[u] = nodeIDs,
               !.nodes = @ \cup nodeIDs,
               !.pc = IF run[c].todo # {u} THEN "lookup"
                      ELSE IF run[c].nodes \cup nodeIDs = {} THEN "mark" ELSE "sync"]
  <2>1. [run[c].usersToNodes EXCEPT ![u] = nodeIDs] \in [Users -> SUBSET Nodes]
        BY <1>0 DEF Runs
  <2>2. state \in Runs
        BY <1>0, <2>1 DEF Runs
  <2>  QED BY <1>3, <2>2, GotoType DEF LookedUp
<1>4. CASE LookUpNodes(c)
  <2>1. run' \in [Callers -> Runs]
        BY <1>0, <1>3, <1>4 DEF LookUpNodes, Runs, ActiveNodeIDsForExpiredUser
  <2>  QED BY <1>4, <2>1 DEF LookUpNodes, UserAccessTypeOK
<1>5. CASE LookUpFails(c)
  <2>1. run' \in [Callers -> Runs] /\ excused' \subseteq Users
        BY <1>0, <1>3, <1>5 DEF LookUpFails, Runs, Excuse
  <2>  QED BY <1>5, <2>1 DEF LookUpFails, UserAccessTypeOK
<1>6. CASE SyncOneNode(c)
  <2>1. PICK n \in run[c].nodes, ok \in BOOLEAN :
          /\ SyncNode(n, ok)
          /\ Goto(c, [run[c] EXCEPT
                        !.nodes = @ \ {n},
                        !.nodeErrors = IF ok THEN @ ELSE @ \cup {n},
                        !.pc = IF run[c].nodes = {n} THEN "mark" ELSE "sync"])
        BY <1>6 DEF SyncOneNode
  <2>2. n \in Nodes
        BY <1>0 DEF Runs
  <2>3. [run[c] EXCEPT !.nodes = @ \ {n},
                       !.nodeErrors = IF ok THEN @ ELSE @ \cup {n},
                       !.pc = IF run[c].nodes = {n} THEN "mark" ELSE "sync"] \in Runs
        BY <1>0, <2>2 DEF Runs
  <2>4. run' \in [Callers -> Runs] /\ serves' \in [Nodes -> SUBSET Users]
        BY <2>1, <2>2, <2>3, GotoType, SyncType
  <2>  QED BY <1>6, <2>4 DEF SyncOneNode, UserAccessTypeOK
<1>7. CASE MarkUser(c)
  <2>1. PICK u \in run[c].found :
          /\ MarkExpirySynced(u) \/ user' = user
          /\ \/ Return(c)
             \/ Goto(c, [run[c] EXCEPT !.found = @ \ {u}]) /\ running' = running
        BY <1>7 DEF MarkUser
  <2>2. u \in Users /\ user[u] \in UserRows /\ now \in 0..MaxTime
        BY <1>0 DEF Runs, UserAccessTypeOK
  <2>3. user' \in [Users -> UserRows]
        BY <2>1, <2>2 DEF MarkExpirySynced, UserRows, UserAccessTypeOK
  <2>4. [run[c] EXCEPT !.found = @ \ {u}] \in Runs
        BY <1>0 DEF Runs
  <2>5. running' \in BOOLEAN /\ run' \in [Callers -> Runs]
        BY <2>1, <2>4, IdleRunType, GotoType DEF Return
  <2>  QED BY <1>7, <2>3, <2>5 DEF MarkUser, UserAccessTypeOK
<1>  QED BY <1>1, <1>2, <1>4, <1>5, <1>6, <1>7 DEF Step

LEMMA AdministerType ==
    ASSUME TypeOK, Administer
    PROVE  TypeOK'
<1> USE DEF TypeOK, UserAccessTypeOK
<1>1. changed' \in 0..MaxChanges
      BY ReconcilerAssumption DEF Administer
<1>2. PICK u \in Users : SetUserEnabled(u) \/ EditUser(u) \/ DeleteUser(u) \/ ChangeAccess(u)
      BY DEF Administer
<1>3. user[u] \in UserRows
      OBVIOUS
<1>4. excused' \subseteq Users
      BY <1>2 DEF SetUserEnabled, EditUser, DeleteUser, ChangeAccess, Excuse
<1>5. user' \in [Users -> UserRows] /\ access' \in [Users -> [Nodes -> AccessRows]]
  <2>1. CASE SetUserEnabled(u)
        BY <1>3, <2>1 DEF SetUserEnabled, SetEnabled, UserRows
  <2>2. CASE EditUser(u)
    <3>1. PICK enabled \in BOOLEAN, expires \in 1..Never : UpdateUserRow(u, enabled, expires)
          BY <2>2 DEF EditUser
    <3>2. [user[u] EXCEPT !.enabled = enabled] \in UserRows
          BY <1>3 DEF UserRows
    <3>3. [[user[u] EXCEPT !.enabled = enabled] EXCEPT !.expires = expires] \in UserRows
          BY <3>2 DEF UserRows
    <3>4. user' \in [Users -> UserRows]
          BY <3>1, <3>2, <3>3 DEF UpdateUserRow
    <3>  QED BY <2>2, <3>4 DEF EditUser
  <2>3. CASE DeleteUser(u)
    <3>1. [n \in Nodes |-> "none"] \in [Nodes -> AccessRows]
          BY DEF AccessRows
    <3>2. [user[u] EXCEPT !.exists = FALSE] \in UserRows
          BY <1>3 DEF UserRows
    <3>  QED BY <2>3, <3>1, <3>2 DEF DeleteUser, DeleteUserRow
  <2>4. CASE ChangeAccess(u)
    <3>1. PICK n \in Nodes, row \in AccessRows : SetAccess(u, n, row)
          BY <2>4 DEF ChangeAccess
    <3>2. [access[u] EXCEPT ![n] = row] \in [Nodes -> AccessRows]
          BY <3>1
    <3>  QED BY <2>4, <3>1, <3>2 DEF ChangeAccess, SetAccess
  <2>  QED BY <1>2, <2>1, <2>2, <2>3, <2>4
<1>  QED BY <1>1, <1>4, <1>5 DEF Administer

LEMMA TypeNext == TypeOK /\ [Next]_vars => TypeOK'
<1> SUFFICES ASSUME TypeOK, [Next]_vars PROVE TypeOK'
    OBVIOUS
<1> USE DEF TypeOK, UserAccessTypeOK
<1>1. CASE UNCHANGED vars
      BY <1>1 DEF vars
<1>2. ASSUME NEW c \in Callers, TryAcquire(c)
      PROVE  running' \in BOOLEAN /\ run' \in [Callers -> Runs]
      BY <1>2, ListRunType, GotoType DEF TryAcquire
<1>3. CASE TickerFires
      BY <1>2, <1>3 DEF TickerFires, Callers
<1>4. ASSUME NEW c \in Requests, RunOnce(c) PROVE TypeOK'
      BY <1>2, <1>4, ReconcilerAssumption DEF RunOnce, Callers
<1>5. ASSUME NEW c \in Callers, Step(c) PROVE TypeOK'
      BY <1>5, StepType
<1>6. CASE Tick
      BY <1>6, TimeAssumption DEF Tick
<1>7. CASE Administer
      BY <1>7, AdministerType
<1>8. CASE OtherSync
      BY <1>8, SyncType DEF OtherSync
<1>9. CASE Restart
      BY <1>9, IdleRunType DEF Restart
<1>10. CASE CalmDown
      BY <1>10 DEF CalmDown
<1>  QED BY <1>1, <1>3, <1>4, <1>5, <1>6, <1>7, <1>8, <1>9, <1>10 DEF Next

\* TypeOK is an invariant.
THEOREM ExpiryTypeCorrect == Spec => []TypeOK
BY TypeInit, TypeNext, PTL DEF Spec

-----------------------------------------------------------------------------
(* The flag *)

LEMMA OneRunNext == TypeOK /\ OneRunAtATime /\ [Next]_vars => OneRunAtATime'
<1> SUFFICES ASSUME TypeOK, OneRunAtATime, [Next]_vars PROVE OneRunAtATime'
    OBVIOUS
<1> USE DEF OneRunAtATime, At
<1>1. ASSUME NEW c \in Callers, TryAcquire(c), At(c, "idle")
      PROVE  OneRunAtATime'
  <2>1. CASE running
        BY <1>1, <2>1 DEF TryAcquire
  <2>2. CASE ~running
    <3>1. run'[c].pc = "list" /\ \A d \in Callers : d # c => run'[d] = run[d]
      <4>1. [IdleRun EXCEPT !.pc = "list"].pc = "list"
            BY DEF IdleRun
      <4>  QED BY <1>1, <2>2, <4>1, RunFrame DEF TryAcquire
    <3>  QED BY <1>1, <2>2, <3>1 DEF TryAcquire
  <2>  QED BY <2>1, <2>2
<1>2. ASSUME NEW c \in Callers, Return(c), ~At(c, "idle")
      PROVE  OneRunAtATime'
  <2>1. run'[c].pc = "idle" /\ \A d \in Callers : d # c => run'[d] = run[d]
        BY <1>2, RunFrame DEF Return, IdleRun
  <2>  QED BY <1>2, <2>1 DEF Return
<1>3. ASSUME NEW c \in Callers, ~At(c, "idle"), running' = running,
             NEW state, Goto(c, state), state.pc # "idle"
      PROVE  OneRunAtATime'
      BY <1>3, RunFrame
<1>4. CASE UNCHANGED <<running, run>>
      BY <1>4
<1>5. CASE TickerFires
      BY <1>1, <1>5 DEF TickerFires, Callers
<1>6. ASSUME NEW c \in Requests, RunOnce(c) PROVE OneRunAtATime'
      BY <1>1, <1>6 DEF RunOnce, Callers
<1>7. ASSUME NEW c \in Callers, Step(c) PROVE OneRunAtATime'
  <2>0. run[c] \in Runs
        BY DEF TypeOK
  <2>1. CASE ListUsers(c)
    <3> DEFINE found == {u \in UsersPendingExpiryReconcile : NeedsExpirySync(u)}
    <3>1. [run[c] EXCEPT !.pc = "lookup", !.todo = found, !.found = found].pc # "idle"
          BY <2>0 DEF Runs
    <3>  QED BY <1>2, <1>3, <2>1, <3>1 DEF ListUsers
  <2>2. CASE ListFails(c)
        BY <1>2, <2>2 DEF ListFails
  <2>3. ASSUME NEW u, NEW nodeIDs, LookedUp(c, u, nodeIDs), ~At(c, "idle"),
               running' = running
        PROVE  OneRunAtATime'
    <3>1. [run[c] EXCEPT
               !.todo = @ \ {u},
               !.usersToNodes[u] = nodeIDs,
               !.nodes = @ \cup nodeIDs,
               !.pc = IF run[c].todo # {u} THEN "lookup"
                      ELSE IF run[c].nodes \cup nodeIDs = {} THEN "mark" ELSE "sync"].pc
             # "idle"
          BY <2>0 DEF Runs
    <3>  QED BY <1>3, <2>3, <3>1 DEF LookedUp
  <2>4. CASE LookUpNodes(c)
        BY <2>3, <2>4 DEF LookUpNodes
  <2>5. CASE LookUpFails(c)
        BY <2>3, <2>5 DEF LookUpFails
  <2>6. CASE SyncOneNode(c)
    <3>1. PICK n \in run[c].nodes, ok \in BOOLEAN :
            Goto(c, [run[c] EXCEPT
                        !.nodes = @ \ {n},
                        !.nodeErrors = IF ok THEN @ ELSE @ \cup {n},
                        !.pc = IF run[c].nodes = {n} THEN "mark" ELSE "sync"])
          BY <2>6 DEF SyncOneNode
    <3>2. [run[c] EXCEPT !.nodes = @ \ {n},
                         !.nodeErrors = IF ok THEN @ ELSE @ \cup {n},
                         !.pc = IF run[c].nodes = {n} THEN "mark" ELSE "sync"].pc # "idle"
          BY <2>0 DEF Runs
    <3>3. ~At(c, "idle") /\ running' = running
          BY <2>6 DEF SyncOneNode
    <3>  QED BY <1>3, <3>1, <3>2, <3>3
  <2>7. CASE MarkUser(c)
    <3>1. PICK u \in run[c].found :
            \/ Return(c)
            \/ Goto(c, [run[c] EXCEPT !.found = @ \ {u}]) /\ running' = running
          BY <2>7 DEF MarkUser
    <3>2. [run[c] EXCEPT !.found = @ \ {u}].pc = run[c].pc
          BY <2>0 DEF Runs
    <3>3. At(c, "mark")
          BY <2>7 DEF MarkUser
    <3>  QED BY <1>2, <1>3, <3>1, <3>2, <3>3
  <2>  QED BY <1>7, <2>1, <2>2, <2>4, <2>5, <2>6, <2>7 DEF Step
<1>8. CASE Restart
      BY <1>8 DEF Restart, IdleRun
<1>9. CASE Tick \/ Administer \/ OtherSync \/ CalmDown
      BY <1>4, <1>9 DEF Tick, Administer, OtherSync, CalmDown
<1>  QED BY <1>4, <1>5, <1>6, <1>7, <1>8, <1>9 DEF Next, vars

LEMMA OneRunInit == Init => OneRunAtATime
BY DEF Init, OneRunAtATime, At, IdleRun

\* OneRunAtATime: the flag keeps overlapping callers apart and is never left behind.
THEOREM RunsNeverOverlap == Spec => []OneRunAtATime
<1>1. TypeOK /\ OneRunAtATime /\ [Next]_vars => TypeOK' /\ OneRunAtATime'
      BY TypeNext, OneRunNext
<1>  QED BY <1>1, TypeInit, OneRunInit, PTL DEF Spec
=============================================================================
