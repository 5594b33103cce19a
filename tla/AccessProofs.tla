---------------------------- MODULE AccessProofs ----------------------------
(* Theorems about the handlers that change access and about what pages and  *)
(* subscriptions make of the rows, for every set of users, nodes and        *)
(* requests and every bound.                                                *)
EXTENDS AccessInvariant, FiniteSetTheorems, TLAPS

-----------------------------------------------------------------------------
(* Types *)

LEMMA IdleType == Idle \in Handlers
BY UsersAssumption DEF Idle, AnyUser, Handlers, SyncOps

LEMMA GotoTypes ==
    ASSUME TypeOK, NEW r \in Requests, NEW state \in Handlers, Goto(r, state)
    PROVE  req' \in [Requests -> Handlers]
BY DEF TypeOK, Goto

\* The fields a handler changes keep their types.
LEMMA FieldTypes ==
    ASSUME NEW q \in Handlers, NEW S \in SUBSET Nodes, NEW T \in SUBSET Nodes,
           NEW pc \in {"idle", "nodesBefore", "node", "row", "change", "nodesAfter", "sync"}
    PROVE  /\ [q EXCEPT !.pc = pc] \in Handlers
           /\ [q EXCEPT !.todo = S, !.pc = pc] \in Handlers
           /\ [q EXCEPT !.pc = pc, !.todo = S] \in Handlers
           /\ [q EXCEPT !.pc = pc, !.cur = S] \in Handlers
           /\ [q EXCEPT !.pc = pc, !.cur = S, !.todo = T] \in Handlers
           /\ [q EXCEPT !.pc = pc, !.cur = S, !.late = T] \in Handlers
           /\ [q EXCEPT !.cur = S, !.late = T] \in Handlers
           /\ [q EXCEPT !.cur = S] \in Handlers
           /\ [q EXCEPT !.todo = T] \in Handlers
           /\ [[q EXCEPT !.todo = T] EXCEPT !.cur = S] \in Handlers
BY DEF Handlers

LEMMA NeverType == Never \in Nat /\ Never \in 1..Never /\ MaxTime \in Nat /\ 0 \in 0..MaxTime
BY TimeAssumption DEF Never

LEMMA TypeInit == Init => TypeOK
<1> SUFFICES ASSUME Init PROVE TypeOK
    OBVIOUS
<1>1. UserAccessTypeOK
  <2>1. user \in [Users -> UserRows] /\ now \in 0..MaxTime
        BY NeverType DEF Init
  <2>2. access \in [Users -> [Nodes -> AccessRows]] /\ host \in [Nodes -> Hosts]
        BY DEF Init, Hosts
  <2>3. serves \in [Nodes -> SUBSET Users]
        BY DEF Init, ActiveAccessForNode
  <2>  QED BY <2>1, <2>2, <2>3 DEF UserAccessTypeOK
<1>2. req \in [Requests -> Handlers]
      BY IdleType DEF Init
<1>3. issued \subseteq Users /\ requested \in 0..MaxRequests /\ edits \in 0..MaxEdits
      /\ behind \subseteq Nodes
      BY HandlersAssumption DEF Init
<1>  QED BY <1>1, <1>2, <1>3 DEF TypeOK

\* The statements keep the rows well formed.
LEMMA StatementTypes ==
    ASSUME UserAccessTypeOK, NEW q \in Handlers, q.op \in ChangeOps, WriteRows(q)
    PROVE  user' \in [Users -> UserRows] /\ access' \in [Users -> [Nodes -> AccessRows]]
<1> USE NeverType DEF UserAccessTypeOK
<1>0. q.u \in Users /\ q.todo \subseteq Nodes /\ q.cur \subseteq Nodes
      BY DEF Handlers
<1>1. ASSUME NEW n \in Nodes, NEW row \in AccessRows, SetAccess(q.u, n, row)
      PROVE  access' \in [Users -> [Nodes -> AccessRows]]
      BY <1>0, <1>1 DEF SetAccess
<1>2. ASSUME NEW enabled \in BOOLEAN, SetEnabled(q.u, enabled)
      PROVE  user' \in [Users -> UserRows]
      BY <1>0, <1>2 DEF SetEnabled, UserRows
<1>3. CASE q.op = "create"
  <2>1. CreateWithAssignments(q.u, q.todo)
        BY <1>3 DEF WriteRows
  <2>2. \A enabled \in BOOLEAN, expires \in 1..Never :
            [exists |-> TRUE, enabled |-> enabled, expires |-> expires, synced |-> 0] \in UserRows
        BY DEF UserRows
  <2>3. user' \in [Users -> UserRows]
        BY <1>0, <2>1, <2>2 DEF CreateWithAssignments
  <2>4. [n \in Nodes |-> IF n \in q.todo THEN "on" ELSE "none"] \in [Nodes -> AccessRows]
        BY DEF AccessRows
  <2>5. access' \in [Users -> [Nodes -> AccessRows]]
        BY <1>0, <2>1, <2>4 DEF CreateWithAssignments
  <2>  QED BY <2>3, <2>5
<1>4. CASE q.op = "update"
  <2>1. access' = access /\ \E enabled \in BOOLEAN, expires \in 1..Never :
            UpdateUserRow(q.u, enabled, expires)
        BY <1>4 DEF WriteRows
  <2>2. ASSUME NEW enabled \in BOOLEAN, NEW expires \in 1..Never,
               UpdateUserRow(q.u, enabled, expires)
        PROVE  user' \in [Users -> UserRows]
    <3>1. user' = [user EXCEPT ![q.u] =
                     [[user[q.u] EXCEPT !.enabled = enabled] EXCEPT !.expires = expires]]
          BY <1>0, <2>2 DEF UpdateUserRow
    <3>2. [[user[q.u] EXCEPT !.enabled = enabled] EXCEPT !.expires = expires] \in UserRows
          BY <1>0 DEF UserRows
    <3>  QED BY <1>0, <3>1, <3>2
  <2>  QED BY <2>1, <2>2
<1>5. CASE q.op = "delete"
  <2>1. DeleteUserRow(q.u)
        BY <1>5 DEF WriteRows
  <2>2. user' \in [Users -> UserRows]
        BY <1>0, <2>1 DEF DeleteUserRow, UserRows
  <2>3. [n \in Nodes |-> "none"] \in [Nodes -> AccessRows]
        BY DEF AccessRows
  <2>4. access' \in [Users -> [Nodes -> AccessRows]]
        BY <1>0, <2>1, <2>3 DEF DeleteUserRow
  <2>  QED BY <2>2, <2>4
<1>6. CASE q.op \in {"enable", "disable"}
      BY <1>2, <1>6 DEF WriteRows
<1>7. CASE q.op \in {"assign", "unassign"}
      BY <1>0, <1>1, <1>7 DEF WriteRows, AssignNode, UnassignNode, AccessRows
<1>8. CASE q.op \in {"accessOn", "accessOff"}
      BY <1>0, <1>1, <1>8 DEF WriteRows, SetAccessEnabled, AccessRows
<1>  QED BY <1>3, <1>4, <1>5, <1>6, <1>7, <1>8 DEF ChangeOps

LEMMA AffectedType ==
    ASSUME NEW p \in Handlers, NEW q \in Handlers
    PROVE  Affected(p, q) \in Handlers
<1> DEFINE cur == IF /\ p.pc = "change" /\ p.op \in {"accessOn", "accessOff"}
                     /\ \E n \in p.todo : access'[p.u][n] = "none"
                  THEN {} ELSE p.cur
           late == IF /\ p.pc = "change" /\ p.op \in {"update", "delete"} /\ p.u = q.u
                      /\ ~ReadsNodesAfter(p) /\ q.op = "assign"
                   THEN p.late \cup (q.todo \ p.todo) ELSE p.late
<1>1. p.cur \subseteq Nodes /\ p.late \subseteq Nodes /\ q.todo \subseteq Nodes
      BY DEF Handlers
<1>2. cur \in SUBSET Nodes /\ late \in SUBSET Nodes
      BY <1>1
<1>3. Affected(p, q) = [p EXCEPT !.cur = cur, !.late = late]
      BY DEF Affected
<1> HIDE DEF cur, late
<1>  QED BY <1>2, <1>3 DEF Handlers

\* A step of request r that leaves the rows alone keeps the types.
LEMMA StepTypes ==
    ASSUME TypeOK, NEW r \in Requests, NEW state \in Handlers, Goto(r, state),
           UNCHANGED <<now, user, access, host, issued, requested, edits>>,
           serves' \in [Nodes -> SUBSET Users],
           behind' \subseteq Nodes
    PROVE  TypeOK'
BY GotoTypes DEF TypeOK, UserAccessTypeOK

LEMMA ExcuseType ==
    ASSUME TypeOK, NEW S \in SUBSET Nodes, Excuse(S)
    PROVE  behind' \subseteq Nodes
BY DEF TypeOK, Excuse

LEMMA SettleType ==
    ASSUME TypeOK, NEW n, Settle(n)
    PROVE  behind' \subseteq Nodes
BY DEF TypeOK, Settle

LEMMA SyncType ==
    ASSUME TypeOK, NEW n \in Nodes, NEW ok \in BOOLEAN, SyncNode(n, ok)
    PROVE  serves' \in [Nodes -> SUBSET Users]
<1>1. ActiveAccessForNode(n) \in SUBSET Users
      BY DEF ActiveAccessForNode
<1>  QED BY <1>1 DEF TypeOK, UserAccessTypeOK, SyncNode

LEMMA DetailType == \A u \in Users : AccessDetailForUser(u) \in SUBSET Nodes
BY DEF AccessDetailForUser

LEMMA ArriveType ==
    ASSUME TypeOK, NEW r \in Requests, Arrive(r)
    PROVE  TypeOK'
<1>1. requested' \in 0..MaxRequests
      BY HandlersAssumption DEF TypeOK, Arrive
<1>2. PICK op \in ChangeOps \cup SyncOps, ui \in BOOLEAN, u \in Users :
          /\ issued' = IF op = "create" THEN issued \cup {u} ELSE issued
          /\ \E S \in NodesNamed(op) :
                LET direct == FirstStep(op, ui) = "sync"
                IN Goto(r, [pc |-> FirstStep(op, ui), op |-> op, ui |-> ui, u |-> u,
                            todo |-> IF direct THEN {} ELSE S,
                            cur |-> IF direct THEN S ELSE {}, late |-> {}])
      BY DEF Arrive
<1>3. PICK S \in NodesNamed(op) :
          Goto(r, [pc |-> FirstStep(op, ui), op |-> op, ui |-> ui, u |-> u,
                   todo |-> IF FirstStep(op, ui) = "sync" THEN {} ELSE S,
                   cur |-> IF FirstStep(op, ui) = "sync" THEN S ELSE {}, late |-> {}])
      BY <1>2
<1>4. S \in SUBSET Nodes
      BY DEF NodesNamed
<1>5. FirstStep(op, ui) \in {"nodesBefore", "node", "row", "change", "nodesAfter", "sync"}
  <2>1. CASE op = "syncNode"
        BY <2>1 DEF FirstStep
  <2>2. CASE op # "syncNode"
        BY <2>2 DEF FirstStep
  <2>  QED BY <2>1, <2>2
<1>6. [pc |-> FirstStep(op, ui), op |-> op, ui |-> ui, u |-> u,
       todo |-> IF FirstStep(op, ui) = "sync" THEN {} ELSE S,
       cur |-> IF FirstStep(op, ui) = "sync" THEN S ELSE {}, late |-> {}] \in Handlers
      BY <1>4, <1>5 DEF Handlers
<1>7. req' \in [Requests -> Handlers] /\ issued' \subseteq Users
      BY <1>2, <1>3, <1>6, GotoTypes DEF TypeOK
<1>  QED BY <1>1, <1>7 DEF TypeOK, UserAccessTypeOK, Arrive

LEMMA ChangeType ==
    ASSUME TypeOK, NEW r \in Requests, Change(r), req[r].op \in ChangeOps
    PROVE  TypeOK'
<1>1. \A p \in Requests : req[p] \in Handlers
      BY DEF TypeOK
<1> DEFINE q == req[r]
           pc == IF ReadsNodesAfter(q) THEN "nodesAfter" ELSE "sync"
           next == [q EXCEPT !.pc = pc, !.cur = {}, !.late = {}]
<1>2. next \in Handlers
      BY <1>1 DEF Handlers
<1>3. req' = [p \in Requests |-> IF p = r THEN next ELSE Affected(req[p], q)]
      BY DEF Change
<1>4. WriteRows(q) /\ Excuse(q.late) /\ q.late \in SUBSET Nodes
      BY <1>1 DEF Change, Handlers
<1> HIDE DEF next
<1>5. req' \in [Requests -> Handlers]
      BY <1>1, <1>2, <1>3, AffectedType
<1>6. user' \in [Users -> UserRows] /\ access' \in [Users -> [Nodes -> AccessRows]]
      BY <1>1, <1>4, StatementTypes DEF TypeOK
<1>7. behind' \subseteq Nodes
      BY <1>4, ExcuseType
<1>  QED BY <1>5, <1>6, <1>7 DEF TypeOK, UserAccessTypeOK, Change

LEMMA StepType ==
    ASSUME TypeOK, NEW r \in Requests, Step(r), At(r, "change") => req[r].op \in ChangeOps
    PROVE  TypeOK'
<1> DEFINE q == req[r]
<1>0. q \in Handlers /\ q.u \in Users /\ q.todo \in SUBSET Nodes /\ q.cur \in SUBSET Nodes
      BY DEF TypeOK, Handlers
<1>00. serves \in [Nodes -> SUBSET Users] /\ behind \subseteq Nodes
      BY DEF TypeOK, UserAccessTypeOK
<1>1. CASE Answer(r) /\ behind' \subseteq Nodes
           /\ UNCHANGED <<now, user, access, host, serves, issued, requested, edits>>
      BY <1>00, <1>1, IdleType, StepTypes DEF Answer
<1>2. CASE ReadNodesBefore(r)
      BY <1>0, <1>00, <1>1, <1>2, FieldTypes, StepTypes, DetailType DEF ReadNodesBefore
<1>3. CASE LookUpNode(r)
  <2> DEFINE goesOn == IF q.op = "syncNode"
                       THEN [q EXCEPT !.pc = "sync", !.cur = q.todo, !.todo = {}]
                       ELSE [q EXCEPT !.pc = "change"]
  <2>1. goesOn \in Handlers
        BY <1>0 DEF Handlers
  <2>2. Goto(r, goesOn) \/ Answer(r)
        BY <1>3 DEF LookUpNode
  <2> HIDE DEF goesOn
  <2>  QED BY <1>00, <1>1, <1>3, <2>1, <2>2, StepTypes DEF LookUpNode
<1>4. CASE LookUpRow(r)
      BY <1>0, <1>00, <1>1, <1>4, FieldTypes, StepTypes DEF LookUpRow
<1>5. CASE Change(r)
      BY <1>5, ChangeType DEF Change
<1>6. CASE ChangeFails(r)
      BY <1>00, <1>1, <1>6 DEF ChangeFails
<1>7. CASE ReadNodesAfter(r)
  <2>1. \E pc \in {"sync"}, S \in SUBSET Nodes :
            \/ Goto(r, [q EXCEPT !.pc = pc, !.cur = S])
            \/ Goto(r, [q EXCEPT !.pc = pc, !.todo = S])
    <3>1. {n \in Nodes : host[n].enabled} \in SUBSET Nodes
          OBVIOUS
    <3>2. CASE q.op = "syncUser"
          BY <1>0, <1>7, <3>2, DetailType DEF ReadNodesAfter
    <3>3. CASE q.op = "syncAll"
          BY <1>0, <1>7, <3>1, <3>3 DEF ReadNodesAfter
    <3>4. CASE q.op # "syncUser" /\ q.op # "syncAll"
          BY <1>0, <1>7, <3>4, DetailType DEF ReadNodesAfter
    <3>  QED BY <3>2, <3>3, <3>4
  <2>  QED BY <1>0, <1>00, <1>7, <2>1, FieldTypes, StepTypes DEF ReadNodesAfter
<1>8. CASE ReadNodesAfterFails(r)
  <2>1. behind' \subseteq Nodes
        BY <1>0, <1>8, ExcuseType, DetailType DEF ReadNodesAfterFails
  <2>  QED BY <1>1, <1>8, <2>1 DEF ReadNodesAfterFails
<1>9. CASE GetNode(r)
  <2>1. PICK n \in q.todo :
          LET rest == [q EXCEPT !.todo = @ \ {n}]
          IN \/ /\ host[n].enabled
                /\ Goto(r, [rest EXCEPT !.cur = {n}])
                /\ behind' = behind
             \/ /\ ~host[n].enabled
                /\ Goto(r, rest)
                /\ Excuse({n})
             \/ Goto(r, rest) /\ Excuse({n})
        BY <1>9 DEF GetNode
  <2> DEFINE rest == [q EXCEPT !.todo = q.todo \ {n}]
             one == [rest EXCEPT !.cur = {n}]
  <2>2. n \in Nodes /\ rest \in Handlers /\ one \in Handlers
        BY <1>0 DEF Handlers
  <2>3. (Goto(r, one) /\ behind' = behind) \/ (Goto(r, rest) /\ Excuse({n}))
        BY <2>1
  <2>4. behind' \subseteq Nodes
        BY <1>00, <2>2, <2>3, ExcuseType
  <2> HIDE DEF rest, one
  <2>  QED BY <1>00, <1>9, <2>2, <2>3, <2>4, StepTypes DEF GetNode
<1>10. CASE SyncOne(r)
  <2>1. PICK n \in q.cur, ok \in BOOLEAN :
          /\ SyncNode(n, ok)
          /\ Goto(r, [q EXCEPT !.cur = q.cur \ {n}])
          /\ IF ok THEN Settle(n) ELSE Excuse({n})
        BY <1>10 DEF SyncOne
  <2>2. n \in Nodes /\ [q EXCEPT !.cur = q.cur \ {n}] \in Handlers
        BY <1>0 DEF Handlers
  <2>3. behind' \subseteq Nodes /\ serves' \in [Nodes -> SUBSET Users]
        BY <2>1, <2>2, ExcuseType, SettleType, SyncType
  <2>  QED BY <1>10, <2>1, <2>2, <2>3, StepTypes DEF SyncOne
<1>11. CASE Finish(r)
      BY <1>00, <1>1, <1>11 DEF Finish
<1>  QED BY <1>2, <1>3, <1>4, <1>5, <1>6, <1>7, <1>8, <1>9, <1>10, <1>11 DEF Step

LEMMA OtherTypes ==
    ASSUME TypeOK,
           \/ \E n \in Nodes : SwitchNode(n) \/ OtherSync(n)
           \/ Tick \/ Restart \/ UNCHANGED vars
    PROVE  TypeOK'
<1>1. ASSUME NEW n \in Nodes, SwitchNode(n) PROVE TypeOK'
  <2>1. edits' \in 0..MaxEdits
        BY <1>1, HandlersAssumption DEF TypeOK, SwitchNode
  <2>2. host' \in [Nodes -> Hosts]
        BY <1>1 DEF TypeOK, UserAccessTypeOK, SwitchNode, Hosts
  <2>  QED BY <1>1, <2>1, <2>2 DEF TypeOK, UserAccessTypeOK, SwitchNode
<1>2. ASSUME NEW n \in Nodes, OtherSync(n) PROVE TypeOK'
      BY <1>2, SyncType, SettleType DEF TypeOK, UserAccessTypeOK, OtherSync
<1>3. CASE Tick
      BY <1>3, NeverType DEF TypeOK, UserAccessTypeOK, Tick
<1>4. CASE Restart
  <2>1. req' \in [Requests -> Handlers]
        BY <1>4, IdleType DEF Restart
  <2>2. behind' \subseteq Nodes
        BY <1>4, ExcuseType DEF Restart
  <2>  QED BY <1>4, <2>1, <2>2 DEF TypeOK, UserAccessTypeOK, Restart
<1>5. CASE UNCHANGED vars
      BY <1>5 DEF vars, TypeOK, UserAccessTypeOK
<1>  QED BY <1>1, <1>2, <1>3, <1>4, <1>5

-----------------------------------------------------------------------------
(* What a change writes *)

LEMMA SetAccessWrites ==
    ASSUME UserAccessTypeOK, NEW u \in Users, NEW m \in Nodes, NEW row, SetAccess(u, m, row)
    PROVE  /\ access'[u][m] = row
           /\ \A n \in Nodes \ {m} : access'[u][n] = access[u][n]
           /\ \A v \in Users \ {u} : access'[v] = access[v]
BY DEF UserAccessTypeOK, SetAccess

LEMMA Written ==
    ASSUME UserAccessTypeOK, NEW q \in Handlers, q.op \in ChangeOps, WriteRows(q)
    PROVE  /\ \A v \in Users \ {q.u} : user'[v] = user[v] /\ access'[v] = access[v]
           /\ q.op \in {"update", "enable", "disable"} => access' = access
           /\ q.op \in {"assign", "unassign", "accessOn", "accessOff"} => user' = user
           /\ q.op = "create" => /\ user'[q.u].exists
                                /\ \A n \in Nodes \ q.todo : access'[q.u][n] = "none"
           /\ q.op = "delete" => /\ ~user'[q.u].exists
                                /\ \A n \in Nodes : access'[q.u][n] = "none"
           /\ q.op \in {"assign", "unassign"} =>
                 \A n \in Nodes \ q.todo : access'[q.u][n] = access[q.u][n]
           /\ q.op = "unassign" =>
                 \A n \in Nodes : access'[q.u][n] \in {access[q.u][n], "none"}
           /\ q.op \in {"accessOn", "accessOff"} =>
                 \A n \in Nodes \ q.cur : access'[q.u][n] = access[q.u][n]
           /\ q.op \in {"update", "assign"} => user[q.u].exists
           /\ q.op \in {"update", "enable", "disable"} => user'[q.u].exists = user[q.u].exists
<1> USE DEF UserAccessTypeOK
<1>0. q.u \in Users /\ q.todo \subseteq Nodes /\ q.cur \subseteq Nodes
      BY DEF Handlers
<1>1. CASE q.op = "create"
  <2>1. CreateWithAssignments(q.u, q.todo)
        BY <1>1 DEF WriteRows
  <2>2. PICK enabled \in BOOLEAN, expires \in 1..Never :
            user' = [user EXCEPT ![q.u] = [exists |-> TRUE, enabled |-> enabled,
                                           expires |-> expires, synced |-> 0]]
        BY <2>1 DEF CreateWithAssignments
  <2>3. user'[q.u].exists /\ \A v \in Users \ {q.u} : user'[v] = user[v]
        BY <1>0, <2>2
  <2>4. /\ \A n \in Nodes \ q.todo : access'[q.u][n] = "none"
        /\ \A v \in Users \ {q.u} : access'[v] = access[v]
        BY <1>0, <2>1 DEF CreateWithAssignments
  <2>  QED BY <1>1, <2>3, <2>4
<1>2. CASE q.op = "update"
  <2>1. access' = access /\ \E enabled \in BOOLEAN, expires \in 1..Never :
            UpdateUserRow(q.u, enabled, expires)
        BY <1>2 DEF WriteRows
  <2>2. PICK enabled \in BOOLEAN, expires \in 1..Never : UpdateUserRow(q.u, enabled, expires)
        BY <2>1
  <2>3. /\ user[q.u].exists
        /\ user' = [user EXCEPT ![q.u] =
                     [[user[q.u] EXCEPT !.enabled = enabled] EXCEPT !.expires = expires]]
        BY <1>0, <2>2 DEF UpdateUserRow
  <2>4. [[user[q.u] EXCEPT !.enabled = enabled] EXCEPT !.expires = expires].exists
            = user[q.u].exists
        BY <1>0 DEF UserRows
  <2>5. user'[q.u].exists = user[q.u].exists /\ \A v \in Users \ {q.u} : user'[v] = user[v]
        BY <1>0, <2>3, <2>4
  <2>  QED BY <1>2, <2>1, <2>3, <2>5
<1>3. CASE q.op = "delete"
  <2>1. DeleteUserRow(q.u)
        BY <1>3 DEF WriteRows
  <2>2. ~user'[q.u].exists /\ \A v \in Users \ {q.u} : user'[v] = user[v]
        BY <1>0, <2>1 DEF DeleteUserRow, UserRows
  <2>3. /\ \A n \in Nodes : access'[q.u][n] = "none"
        /\ \A v \in Users \ {q.u} : access'[v] = access[v]
        BY <1>0, <2>1 DEF DeleteUserRow
  <2>  QED BY <1>3, <2>2, <2>3
<1>4. CASE q.op \in {"enable", "disable"}
  <2>1. access' = access /\ \E enabled \in BOOLEAN : SetEnabled(q.u, enabled)
        BY <1>4 DEF WriteRows
  <2>2. user'[q.u].exists = user[q.u].exists /\ \A v \in Users \ {q.u} : user'[v] = user[v]
        BY <1>0, <2>1 DEF SetEnabled, UserRows
  <2>  QED BY <1>4, <2>1, <2>2
<1>5. CASE q.op = "assign"
  <2>1. PICK m \in q.todo : AssignNode(q.u, m)
        BY <1>5 DEF WriteRows
  <2>2. user[q.u].exists /\ user' = user /\ SetAccess(q.u, m, "on")
        BY <2>1 DEF AssignNode
  <2>3. /\ \A n \in Nodes \ q.todo : access'[q.u][n] = access[q.u][n]
        /\ \A v \in Users \ {q.u} : access'[v] = access[v]
        BY <1>0, <2>2, SetAccessWrites
  <2>  QED BY <1>5, <2>2, <2>3
<1>6. CASE q.op = "unassign"
  <2>1. PICK m \in q.todo : UnassignNode(q.u, m)
        BY <1>6 DEF WriteRows
  <2>2. user' = user /\ SetAccess(q.u, m, "none")
        BY <2>1 DEF UnassignNode
  <2>3. /\ \A n \in Nodes \ q.todo : access'[q.u][n] = access[q.u][n]
        /\ \A n \in Nodes : access'[q.u][n] \in {access[q.u][n], "none"}
        /\ \A v \in Users \ {q.u} : access'[v] = access[v]
    <3>1. m \in Nodes
          BY <1>0
    <3>2. /\ access'[q.u][m] = "none"
          /\ \A n \in Nodes \ {m} : access'[q.u][n] = access[q.u][n]
          /\ \A v \in Users \ {q.u} : access'[v] = access[v]
          BY <1>0, <2>2, <3>1, SetAccessWrites
    <3>  QED BY <3>2
  <2>  QED BY <1>6, <2>2, <2>3
<1>7. CASE q.op \in {"accessOn", "accessOff"}
  <2>1. PICK row : SetAccessEnabled(q.u, q.cur, row)
        BY <1>7 DEF WriteRows
  <2>2. user' = user /\ (access' = access \/ \E m \in q.cur : SetAccess(q.u, m, row))
        BY <2>1 DEF SetAccessEnabled
  <2>3. /\ \A n \in Nodes \ q.cur : access'[q.u][n] = access[q.u][n]
        /\ \A v \in Users \ {q.u} : access'[v] = access[v]
        BY <1>0, <2>2, SetAccessWrites
  <2>  QED BY <1>7, <2>2, <2>3
<1>  QED BY <1>1, <1>2, <1>3, <1>4, <1>5, <1>6, <1>7 DEF ChangeOps

-----------------------------------------------------------------------------
(* Handlers fit together *)

LEMMA QuietFits ==
    ASSUME TypeOK, HandlersFit, NEW r \in Requests, NEW state \in Handlers, Goto(r, state),
           UNCHANGED <<user, access, issued>>,
           StepFits(state), KnowsNodes(state),
           NamesUser(state) => NamesUser(req[r]) /\ state.u = req[r].u,
           Creating(state) => Creating(req[r]) /\ NamesUser(req[r]) /\ state.u = req[r].u
    PROVE  HandlersFit'
<1>1. /\ req'[r] = state
      /\ \A p \in Requests \ {r} : req'[p] = req[p]
      BY DEF TypeOK, Goto
<1>2. RowsHaveUsers'
      BY DEF HandlersFit, RowsHaveUsers, AccessDetailForUser
<1>3. \A p \in Requests : StepFits(req'[p]) /\ KnowsNodes(req'[p])
      BY <1>1 DEF HandlersFit
<1>4. \A p \in Requests : KnowsNodes(req[p])'
      BY <1>3 DEF KnowsNodes, AccessDetailForUser
<1>5. \A p \in Requests :
          /\ NamesUser(req'[p]) => NamesUser(req[p]) /\ req'[p].u = req[p].u
          /\ Creating(req'[p]) => Creating(req[p]) /\ req'[p].u = req[p].u
      BY <1>1
<1>6. IdsAreNew'
      BY <1>5 DEF HandlersFit, IdsAreNew
<1>  QED BY <1>2, <1>3, <1>4, <1>6 DEF HandlersFit

\* A request that has ended fits.
LEMMA AnswerFits ==
    ASSUME TypeOK, HandlersFit, NEW r \in Requests, Answer(r), UNCHANGED <<user, access, issued>>
    PROVE  HandlersFit'
<1>1. StepFits(Idle) /\ KnowsNodes(Idle) /\ ~NamesUser(Idle) /\ ~Creating(Idle)
      BY DEF StepFits, KnowsNodes, NamesUser, Creating, Idle
<1>  QED BY <1>1, IdleType, QuietFits DEF Answer

\* Every step of a request but its change: it moves on, and knows what it must know.
LEMMA StepFitsOn ==
    ASSUME TypeOK, HandlersFit, NEW r \in Requests, Step(r), ~Change(r)
    PROVE  HandlersFit'
<1> DEFINE q == req[r]
<1>0. q \in Handlers /\ q.u \in Users /\ q.todo \in SUBSET Nodes /\ q.cur \in SUBSET Nodes
      /\ StepFits(q) /\ KnowsNodes(q)
      BY DEF TypeOK, Handlers, HandlersFit
<1>1. ASSUME NEW state \in Handlers, Goto(r, state), UNCHANGED <<user, access, issued>>,
             state.pc \in {"sync", "change"}, state.op = q.op, state.u = q.u,
             NamesUser(q), state.pc = "change" => StepFits(state),
             KnowsNodes(state), Creating(state) => Creating(q)
      PROVE  HandlersFit'
  <2>1. StepFits(state)
        BY <1>1 DEF StepFits
  <2>  QED BY <1>1, <2>1, QuietFits
<1>2. CASE ReadNodesBefore(r)
  <2> DEFINE state == [q EXCEPT !.todo = AccessDetailForUser(q.u), !.pc = "change"]
  <2>1. /\ state \in Handlers /\ state.pc = "change" /\ state.op = q.op /\ state.u = q.u
        /\ state.todo = AccessDetailForUser(q.u) /\ state.ui = q.ui
        BY <1>0, DetailType DEF Handlers
  <2>2. q.pc = "nodesBefore" /\ q.op \in {"update", "delete"} /\ (Goto(r, state) \/ Answer(r))
        /\ UNCHANGED <<user, access, issued>>
        BY <1>0, <1>2 DEF ReadNodesBefore, At, StepFits
  <2> HIDE DEF state
  <2>3. StepFits(state) /\ KnowsNodes(state) /\ ~Creating(state) /\ NamesUser(q)
        BY <2>1, <2>2 DEF StepFits, KnowsNodes, Creating, NamesUser, ChangeOps
  <2>  QED BY <1>1, <2>1, <2>2, <2>3, AnswerFits
<1>3. CASE LookUpNode(r)
  <2> DEFINE change == [q EXCEPT !.pc = "change"]
             sync == [q EXCEPT !.pc = "sync", !.cur = q.todo, !.todo = {}]
  <2>1. /\ change \in Handlers /\ change.pc = "change" /\ change.op = q.op /\ change.u = q.u
        /\ sync \in Handlers /\ sync.pc = "sync" /\ sync.op = q.op /\ sync.u = q.u
        BY <1>0 DEF Handlers
  <2>2. /\ q.pc = "node" /\ q.op \in {"create", "assign", "syncNode"}
        /\ UNCHANGED <<user, access, issued>>
        BY <1>0, <1>3 DEF LookUpNode, At, StepFits
  <2>3. Answer(r) \/ Goto(r, IF q.op = "syncNode" THEN sync ELSE change)
        BY <1>3 DEF LookUpNode
  <2> HIDE DEF change, sync
  <2>4. CASE q.op = "syncNode" /\ Goto(r, sync)
    <3>1. StepFits(sync) /\ KnowsNodes(sync) /\ ~Creating(sync) /\ ~NamesUser(sync)
          BY <2>1, <2>4 DEF StepFits, KnowsNodes, Creating, NamesUser
    <3>  QED BY <2>1, <2>2, <2>4, <3>1, QuietFits
  <2>5. CASE q.op # "syncNode" /\ Goto(r, change)
    <3>1. StepFits(change) /\ KnowsNodes(change) /\ (Creating(change) => Creating(q))
          /\ NamesUser(q)
          BY <2>1, <2>2, <2>5 DEF StepFits, KnowsNodes, Creating, NamesUser, ChangeOps
    <3>  QED BY <1>1, <2>1, <2>2, <2>5, <3>1
  <2>  QED BY <2>2, <2>3, <2>4, <2>5, AnswerFits
<1>4. CASE LookUpRow(r)
  <2> DEFINE state == [q EXCEPT !.pc = "change", !.cur = q.todo]
  <2>1. /\ state \in Handlers /\ state.pc = "change" /\ state.op = q.op /\ state.u = q.u
        /\ state.todo = q.todo /\ state.cur = q.todo
        BY <1>0 DEF Handlers
  <2>2. q.pc = "row" /\ q.op \in {"accessOn", "accessOff"} /\ (\A m, n \in q.todo : m = n)
        /\ UNCHANGED <<user, access, issued>>
        BY <1>0, <1>4 DEF LookUpRow, At, StepFits
  <2>3. \/ Goto(r, state) /\ \E n \in q.todo : access[q.u][n] # "none"
        \/ Answer(r)
        BY <1>4 DEF LookUpRow
  <2> HIDE DEF state
  <2>4. CASE Goto(r, state) /\ \E n \in q.todo : access[q.u][n] # "none"
    <3>1. q.todo \subseteq AccessDetailForUser(q.u)
          BY <1>0, <2>2, <2>4 DEF AccessDetailForUser
    <3>2. StepFits(state) /\ KnowsNodes(state) /\ ~Creating(state) /\ NamesUser(q)
          BY <2>1, <2>2, <3>1 DEF StepFits, KnowsNodes, Creating, NamesUser, ChangeOps
    <3>  QED BY <1>1, <2>1, <2>2, <2>4, <3>2
  <2>  QED BY <2>2, <2>3, <2>4, AnswerFits
<1>5. CASE ChangeFails(r)
      BY <1>5, AnswerFits DEF ChangeFails
<1>6. CASE ReadNodesAfter(r)
  <2> DEFINE direct == [q EXCEPT !.pc = "sync", !.cur = AccessDetailForUser(q.u)]
             all == [q EXCEPT !.pc = "sync", !.cur = {n \in Nodes : host[n].enabled}]
             after == [q EXCEPT !.pc = "sync", !.todo = AccessDetailForUser(q.u)]
  <2>1. \A state \in {direct, all, after} :
            state \in Handlers /\ state.pc = "sync" /\ state.op = q.op /\ state.u = q.u
        BY <1>0, DetailType DEF Handlers
  <2>2. PICK state \in {direct, all, after} : Goto(r, state)
    <3>1. CASE q.op = "syncUser"
          BY <1>6, <3>1 DEF ReadNodesAfter
    <3>2. CASE q.op = "syncAll"
          BY <1>6, <3>2 DEF ReadNodesAfter
    <3>3. CASE q.op # "syncUser" /\ q.op # "syncAll"
          BY <1>6, <3>3 DEF ReadNodesAfter
    <3>  QED BY <3>1, <3>2, <3>3
  <2>3. q.pc = "nodesAfter" /\ UNCHANGED <<user, access, issued>>
        BY <1>6 DEF ReadNodesAfter, At
  <2> HIDE DEF direct, all, after
  <2>4. StepFits(state) /\ KnowsNodes(state) /\ ~Creating(state)
        /\ (NamesUser(state) => NamesUser(q))
        BY <2>1, <2>3 DEF StepFits, KnowsNodes, Creating, NamesUser
  <2>  QED BY <2>1, <2>2, <2>3, <2>4, QuietFits
<1>7. CASE ReadNodesAfterFails(r)
      BY <1>7, AnswerFits DEF ReadNodesAfterFails
<1>8. ASSUME NEW S \in SUBSET Nodes, NEW T \in SUBSET Nodes, q.pc = "sync",
             UNCHANGED <<user, access, issued>>,
             \/ Goto(r, [[q EXCEPT !.todo = T] EXCEPT !.cur = S])
             \/ Goto(r, [q EXCEPT !.todo = T]) \/ Goto(r, [q EXCEPT !.cur = S])
      PROVE  HandlersFit'
  <2>1. PICK state \in Handlers :
            /\ Goto(r, state) /\ state.pc = "sync" /\ state.op = q.op /\ state.u = q.u
    <3>1. \A state \in {[[q EXCEPT !.todo = T] EXCEPT !.cur = S], [q EXCEPT !.todo = T],
                         [q EXCEPT !.cur = S]} :
              state \in Handlers /\ state.pc = "sync" /\ state.op = q.op /\ state.u = q.u
          BY <1>0, <1>8 DEF Handlers
    <3>  QED BY <1>8, <3>1
  <2>2. StepFits(state) /\ KnowsNodes(state) /\ ~Creating(state)
        /\ (NamesUser(state) => NamesUser(q))
        BY <1>8, <2>1 DEF StepFits, KnowsNodes, Creating, NamesUser
  <2>  QED BY <1>8, <2>1, <2>2, QuietFits
<1>9. CASE GetNode(r)
  <2>1. PICK n \in q.todo :
            \/ Goto(r, [[q EXCEPT !.todo = q.todo \ {n}] EXCEPT !.cur = {n}])
            \/ Goto(r, [q EXCEPT !.todo = q.todo \ {n}])
        BY <1>9 DEF GetNode
  <2>2. q.todo \ {n} \in SUBSET Nodes /\ {n} \in SUBSET Nodes
        BY <1>0
  <2>  QED BY <1>8, <1>9, <2>1, <2>2 DEF GetNode, At
<1>10. CASE SyncOne(r)
  <2>1. PICK n \in q.cur : Goto(r, [q EXCEPT !.cur = q.cur \ {n}])
        BY <1>10 DEF SyncOne
  <2>2. q.cur \ {n} \in SUBSET Nodes
        BY <1>0
  <2>  QED BY <1>8, <1>10, <2>1, <2>2 DEF SyncOne, At
<1>11. CASE Finish(r)
      BY <1>11, AnswerFits DEF Finish
<1>  QED BY <1>2, <1>3, <1>4, <1>5, <1>6, <1>7, <1>9, <1>10, <1>11 DEF Step

\* A new request: its user exists or has an id that nobody was given.
LEMMA ArriveFits ==
    ASSUME TypeOK, HandlersFit, NEW r \in Requests, Arrive(r)
    PROVE  HandlersFit'
<1>1. PICK op \in ChangeOps \cup SyncOps, ui \in BOOLEAN, u \in Users :
          /\ op \notin TwoHandlers => ui
          /\ CASE op = "create" -> u \notin issued
               [] op \in {"syncNode", "syncAll"} -> u = AnyUser
               [] OTHER -> user[u].exists
          /\ issued' = IF op = "create" THEN issued \cup {u} ELSE issued
          /\ \E S \in NodesNamed(op) :
                LET direct == FirstStep(op, ui) = "sync"
                IN Goto(r, [pc |-> FirstStep(op, ui), op |-> op, ui |-> ui, u |-> u,
                            todo |-> IF direct THEN {} ELSE S,
                            cur |-> IF direct THEN S ELSE {}, late |-> {}])
      BY DEF Arrive
<1>2. PICK S \in NodesNamed(op) :
          Goto(r, [pc |-> FirstStep(op, ui), op |-> op, ui |-> ui, u |-> u,
                   todo |-> IF FirstStep(op, ui) = "sync" THEN {} ELSE S,
                   cur |-> IF FirstStep(op, ui) = "sync" THEN S ELSE {}, late |-> {}])
      BY <1>1
<1> DEFINE new == [pc |-> FirstStep(op, ui), op |-> op, ui |-> ui, u |-> u,
                   todo |-> IF FirstStep(op, ui) = "sync" THEN {} ELSE S,
                   cur |-> IF FirstStep(op, ui) = "sync" THEN S ELSE {}, late |-> {}]
<1>3. /\ new.pc = FirstStep(op, ui) /\ new.op = op /\ new.ui = ui /\ new.u = u
      /\ FirstStep(op, ui) # "sync" => new.todo = S /\ new.cur = {}
      OBVIOUS
<1>4. /\ req'[r] = new
      /\ \A p \in Requests \ {r} : req'[p] = req[p]
      BY <1>2 DEF TypeOK, Goto
<1> HIDE DEF new
<1>5. UNCHANGED <<user, access>>
      BY DEF Arrive
<1>6. StepFits(new)
  <2>1. CASE op \in {"accessOn", "accessOff"}
    <3>1. \A m, n \in S : m = n
          BY <2>1 DEF NodesNamed
    <3>  QED BY <1>3, <2>1, <3>1 DEF StepFits, FirstStep
  <2>2. CASE op = "update"
        BY <1>3, <2>2 DEF StepFits, FirstStep, ReadsNodesAfter, ChangeOps
  <2>3. CASE op = "syncNode"
        BY <1>3, <2>3 DEF StepFits, FirstStep
  <2>4. CASE op \in {"delete", "create", "assign", "enable", "disable", "unassign"}
        BY <1>3, <2>4 DEF StepFits, FirstStep, ChangeOps
  <2>5. CASE op \in {"syncUser", "syncAll"}
        BY <1>3, <2>5 DEF StepFits, FirstStep
  <2>  QED BY <2>1, <2>2, <2>3, <2>4, <2>5 DEF ChangeOps, SyncOps
<1>7. KnowsNodes(new)
  <2>1. CASE new.pc # "change"
        BY <2>1 DEF KnowsNodes
  <2>2. CASE new.pc = "change"
    <3>1. op \notin {"delete", "accessOn", "accessOff"} /\ (op = "update" => ~ui)
          BY <1>3, <2>2 DEF FirstStep
    <3>  QED BY <1>3, <3>1 DEF KnowsNodes, ReadsNodesAfter
  <2>  QED BY <2>1, <2>2
<1>8. \A p \in Requests : StepFits(req'[p]) /\ KnowsNodes(req'[p])
      BY <1>4, <1>6, <1>7 DEF HandlersFit
<1>9. \A p \in Requests : KnowsNodes(req[p])'
      BY <1>5, <1>8 DEF KnowsNodes, AccessDetailForUser
<1>10. RowsHaveUsers'
      BY <1>5 DEF HandlersFit, RowsHaveUsers, AccessDetailForUser
<1>11. IdsAreNew'
  <2>1. op # "create" /\ op \notin {"syncNode", "syncAll"} => user[u].exists /\ u \in issued
        BY <1>1 DEF HandlersFit, IdsAreNew
  <2>2. op = "create" => u \notin issued /\ ~user[u].exists
        BY <1>1 DEF HandlersFit, IdsAreNew
  <2>3. NamesUser(new) => new.u \in issued'
        BY <1>1, <1>3, <2>1 DEF NamesUser
  <2>4. issued \subseteq issued'
        BY <1>1
  <2>5. Creating(new) => op = "create"
        BY <1>3 DEF Creating
  <2>6. NamesUser(new) => op \notin {"syncNode", "syncAll"}
        BY <1>3 DEF NamesUser
  <2>7. \A v \in Users : user'[v].exists => v \in issued'
        BY <1>5, <2>4 DEF HandlersFit, IdsAreNew
  <2>8. \A p \in Requests : NamesUser(req'[p]) => req'[p].u \in issued'
        BY <1>4, <2>3, <2>4 DEF HandlersFit, IdsAreNew
  <2>9. ASSUME NEW p \in Requests, Creating(req'[p])
        PROVE  /\ ~user'[req'[p].u].exists
               /\ \A o \in Requests \ {p} : NamesUser(req'[o]) => req'[o].u # req'[p].u
    <3>1. CASE p = r
      <4>1. \A o \in Requests \ {r} : NamesUser(req'[o]) => req'[o].u \in issued
            BY <1>4 DEF HandlersFit, IdsAreNew
      <4>  QED BY <1>3, <1>4, <1>5, <2>2, <2>5, <2>9, <3>1, <4>1
    <3>2. CASE p # r
      <4>1. /\ Creating(req[p]) /\ NamesUser(req[p]) /\ req'[p] = req[p]
            /\ ~user[req[p].u].exists /\ req[p].u \in issued
            /\ \A o \in Requests \ {p} : NamesUser(req[o]) => req[o].u # req[p].u
            BY <1>4, <2>9, <3>2 DEF HandlersFit, IdsAreNew, Creating, NamesUser
      <4>2. NamesUser(new) => new.u # req[p].u
            BY <1>3, <2>1, <2>2, <2>6, <4>1
      <4>  QED BY <1>4, <1>5, <4>1, <4>2
    <3>  QED BY <3>1, <3>2
  <2>  QED BY <2>7, <2>8, <2>9 DEF IdsAreNew
<1>  QED BY <1>8, <1>9, <1>10, <1>11 DEF HandlersFit

LEMMA AffectedKeeps ==
    ASSUME NEW p \in Handlers, NEW q
    PROVE  LET a == Affected(p, q)
           IN /\ a.pc = p.pc /\ a.op = p.op /\ a.ui = p.ui /\ a.u = p.u /\ a.todo = p.todo
              /\ p.pc # "change" => a.cur = p.cur
              /\ a.cur \subseteq p.cur
              /\ p.late \subseteq a.late
              /\ (/\ p.pc = "change" /\ p.op \in {"accessOn", "accessOff"}
                  /\ \E n \in p.todo : access'[p.u][n] = "none") => a.cur = {}
              /\ (/\ p.pc = "change" /\ p.op \in {"update", "delete"} /\ p.u = q.u
                  /\ ~ReadsNodesAfter(p) /\ q.op = "assign") => q.todo \ p.todo \subseteq a.late
BY DEF Affected, Handlers

\* What a change makes of the request itself and of the others.
LEMMA ChangeSteps ==
    ASSUME TypeOK, HandlersFit, NEW r \in Requests, Change(r)
    PROVE  /\ req[r] \in Handlers /\ req[r].pc = "change" /\ req[r].op \in ChangeOps
           /\ StepFits(req[r]) /\ KnowsNodes(req[r]) /\ WriteRows(req[r])
           /\ req'[r].pc = IF ReadsNodesAfter(req[r]) THEN "nodesAfter" ELSE "sync"
           /\ req'[r].op = req[r].op /\ req'[r].ui = req[r].ui /\ req'[r].u = req[r].u
           /\ req'[r].todo = req[r].todo
           /\ \A p \in Requests \ {r} : req'[p] = Affected(req[p], req[r])
<1> DEFINE pc == IF ReadsNodesAfter(req[r]) THEN "nodesAfter" ELSE "sync"
           next == [req[r] EXCEPT !.pc = pc, !.cur = {}, !.late = {}]
<1>1. req[r] \in Handlers /\ req[r].pc = "change" /\ StepFits(req[r]) /\ KnowsNodes(req[r])
      BY DEF TypeOK, HandlersFit, Change, At
<1>2. req[r].op \in ChangeOps
      BY <1>1 DEF StepFits
<1>3. /\ WriteRows(req[r])
      /\ req' = [p \in Requests |-> IF p = r THEN next ELSE Affected(req[p], req[r])]
      BY DEF Change
<1>4. /\ next.pc = pc /\ next.op = req[r].op /\ next.ui = req[r].ui
      /\ next.u = req[r].u /\ next.todo = req[r].todo
      BY <1>1 DEF Handlers
<1> HIDE DEF next
<1>5. req'[r] = next /\ \A p \in Requests \ {r} : req'[p] = Affected(req[p], req[r])
      BY <1>3
<1>  QED BY <1>1, <1>2, <1>3, <1>4, <1>5

LEMMA ChangeFits ==
    ASSUME TypeOK, HandlersFit, NEW r \in Requests, Change(r)
    PROVE  HandlersFit'
<1> DEFINE q == req[r]
<1>0. /\ q \in Handlers /\ q.pc = "change" /\ q.op \in ChangeOps
      /\ StepFits(q) /\ KnowsNodes(q) /\ WriteRows(q)
      /\ req'[r].pc \in {"nodesAfter", "sync"}
      /\ req'[r].pc = "nodesAfter" => ReadsNodesAfter(q)
      /\ req'[r].op = q.op /\ req'[r].ui = q.ui /\ req'[r].u = q.u /\ req'[r].todo = q.todo
      /\ \A p \in Requests \ {r} : req'[p] = Affected(req[p], q)
      BY ChangeSteps
<1>1. /\ UserAccessTypeOK /\ \A p \in Requests : req[p] \in Handlers /\ req[p].u \in Users
      /\ IdsAreNew /\ RowsHaveUsers /\ \A p \in Requests : StepFits(req[p]) /\ KnowsNodes(req[p])
      BY DEF TypeOK, Handlers, HandlersFit
<1>2. issued' = issued
      BY DEF Change
<1>3. NamesUser(q) /\ q.u \in issued /\ q.u \in Users
      BY <1>0, <1>1 DEF NamesUser, ChangeOps, IdsAreNew
<1>4. \A v \in Users \ {q.u} : user'[v] = user[v] /\ access'[v] = access[v]
      BY <1>0, <1>1, Written
<1>5. ASSUME NEW p \in Requests \ {r}
      PROVE  /\ req'[p].pc = req[p].pc /\ req'[p].op = req[p].op /\ req'[p].ui = req[p].ui
             /\ req'[p].u = req[p].u /\ req'[p].todo = req[p].todo
             /\ req'[p].cur \subseteq req[p].cur /\ req[p].late \subseteq req'[p].late
             /\ (/\ req[p].pc = "change" /\ req[p].op \in {"accessOn", "accessOff"}
                 /\ \E n \in req[p].todo : access'[req[p].u][n] = "none") => req'[p].cur = {}
             /\ (/\ req[p].pc = "change" /\ req[p].op \in {"update", "delete"}
                 /\ req[p].u = q.u /\ ~ReadsNodesAfter(req[p]) /\ q.op = "assign")
                   => q.todo \ req[p].todo \subseteq req'[p].late
      BY <1>0, <1>1, <1>5, AffectedKeeps
<1>6. RowsHaveUsers'
  <2>1. ASSUME NEW v \in Users, ~user'[v].exists, NEW n \in Nodes
        PROVE  access'[v][n] = "none"
    <3>1. CASE v # q.u
          BY <1>1, <1>4, <2>1, <3>1 DEF RowsHaveUsers, AccessDetailForUser
    <3>2. CASE v = q.u /\ q.op = "create"
          BY <1>0, <1>1, <2>1, <3>2, Written
    <3>3. CASE v = q.u /\ q.op = "delete"
          BY <1>0, <1>1, <2>1, <3>3, Written
    <3>4. CASE v = q.u /\ q.op \in {"update", "enable", "disable"}
      <4>1. ~user[q.u].exists /\ access' = access
            BY <1>0, <1>1, <2>1, <3>4, Written
      <4>  QED BY <1>1, <1>3, <3>4, <4>1 DEF RowsHaveUsers, AccessDetailForUser
    <3>5. CASE v = q.u /\ q.op = "assign"
      <4>1. user' = user /\ user[q.u].exists
            BY <1>0, <1>1, <3>5, Written
      <4>  QED BY <2>1, <3>5, <4>1
    <3>6. CASE v = q.u /\ q.op = "unassign"
      <4>1. user' = user /\ access'[q.u][n] \in {access[q.u][n], "none"}
            BY <1>0, <1>1, <2>1, <3>6, Written
      <4>2. access[q.u][n] = "none"
            BY <1>1, <1>3, <2>1, <3>6, <4>1 DEF RowsHaveUsers, AccessDetailForUser
      <4>  QED BY <3>6, <4>1, <4>2
    <3>7. CASE v = q.u /\ q.op \in {"accessOn", "accessOff"}
      <4>1. user' = user /\ \A m \in Nodes \ q.cur : access'[q.u][m] = access[q.u][m]
            BY <1>0, <1>1, <3>7, Written
      <4>2. AccessDetailForUser(q.u) = {}
            BY <1>1, <1>3, <2>1, <3>7, <4>1 DEF RowsHaveUsers
      <4>3. q.cur = {}
            BY <1>0, <3>7, <4>2 DEF KnowsNodes
      <4>  QED BY <2>1, <3>7, <4>1, <4>2, <4>3 DEF AccessDetailForUser
    <3>  QED BY <1>0, <3>1, <3>2, <3>3, <3>4, <3>5, <3>6, <3>7 DEF ChangeOps
  <2>  QED BY <2>1 DEF RowsHaveUsers, AccessDetailForUser
<1>7. ASSUME NEW p \in Requests PROVE StepFits(req'[p])
  <2>1. CASE p = r
        BY <1>0, <2>1 DEF StepFits, ReadsNodesAfter
  <2>2. CASE p # r
        BY <1>1, <1>5, <2>2 DEF StepFits, ReadsNodesAfter
  <2>  QED BY <2>1, <2>2
<1>8. ASSUME NEW p \in Requests PROVE KnowsNodes(req[p])'
  <2> DEFINE a == req'[p]
  <2>1. CASE a.pc # "change"
        BY <2>1 DEF KnowsNodes
  <2>2. CASE p # r /\ req[p].pc = "change"
    <3> DEFINE b == req[p]
    <3>0. b.u \in Users /\ KnowsNodes(b)
          BY <1>1
    <3>1. /\ a.op = b.op /\ a.ui = b.ui /\ a.u = b.u /\ a.todo = b.todo
          /\ a.cur \subseteq b.cur /\ b.late \subseteq a.late
          BY <1>5, <2>2
    <3>2. ASSUME b.op \in {"update", "delete"}, ~ReadsNodesAfter(b),
                 NEW n \in Nodes, access'[b.u][n] # "none"
          PROVE  n \in a.todo \cup a.late
      <4>1. access[b.u][n] # "none" => n \in a.todo \cup a.late
            BY <2>2, <3>0, <3>1, <3>2 DEF KnowsNodes, AccessDetailForUser
      <4>2. CASE b.u # q.u
            BY <1>4, <3>0, <3>2, <4>1, <4>2
      <4>3. CASE b.u = q.u /\ q.op = "assign"
        <5>1. q.todo \ b.todo \subseteq a.late
              BY <1>5, <2>2, <3>2, <4>3
        <5>2. n \notin q.todo => access'[b.u][n] = access[b.u][n]
              BY <1>0, <1>1, <4>3, Written
        <5>  QED BY <3>1, <3>2, <4>1, <5>1, <5>2
      <4>4. CASE b.u = q.u /\ q.op = "create"
        <5>1. NamesUser(b) /\ Creating(q)
              BY <1>0, <2>2, <3>2, <4>4 DEF NamesUser, Creating
        <5>  QED BY <1>1, <2>2, <4>4, <5>1 DEF IdsAreNew
      <4>5. CASE b.u = q.u /\ q.op \in {"update", "enable", "disable"}
        <5>1. access' = access
              BY <1>0, <1>1, <4>5, Written
        <5>  QED BY <3>2, <4>1, <5>1
      <4>6. CASE b.u = q.u /\ q.op = "delete"
            BY <1>0, <1>1, <3>2, <4>6, Written
      <4>7. CASE b.u = q.u /\ q.op = "unassign"
        <5>1. access'[b.u][n] \in {access[b.u][n], "none"}
              BY <1>0, <1>1, <4>7, Written
        <5>  QED BY <3>2, <4>1, <5>1
      <4>8. CASE b.u = q.u /\ q.op \in {"accessOn", "accessOff"}
        <5>1. n \in q.cur \/ access'[b.u][n] = access[b.u][n]
              BY <1>0, <1>1, <4>8, Written
        <5>2. q.cur \subseteq AccessDetailForUser(b.u)
              BY <1>0, <4>8 DEF KnowsNodes
        <5>  QED BY <3>2, <4>1, <5>1, <5>2 DEF AccessDetailForUser
      <4>  QED BY <1>0, <4>2, <4>3, <4>4, <4>5, <4>6, <4>7, <4>8 DEF ChangeOps
    <3>3. ASSUME b.op \in {"accessOn", "accessOff"}
          PROVE  a.cur \subseteq a.todo /\ \A n \in a.cur : n \in Nodes /\ access'[b.u][n] # "none"
      <4>1. b.cur \subseteq b.todo /\ b.todo \subseteq Nodes
            BY <1>1, <2>2, <3>0, <3>3 DEF KnowsNodes, Handlers
      <4>2. (\E n \in b.todo : access'[b.u][n] = "none") => a.cur = {}
            BY <1>5, <2>2, <3>3
      <4>  QED BY <3>1, <4>1, <4>2
    <3>4. /\ a.op \in {"update", "delete"} /\ ~ReadsNodesAfter(a) =>
                \A n \in Nodes : access'[a.u][n] # "none" => n \in a.todo \cup a.late
          /\ a.op \in {"accessOn", "accessOff"} =>
                /\ a.cur \subseteq a.todo
                /\ \A n \in a.cur : n \in Nodes /\ access'[a.u][n] # "none"
          BY <3>1, <3>2, <3>3 DEF ReadsNodesAfter
    <3>  QED BY <3>4 DEF KnowsNodes, AccessDetailForUser
  <2>  QED BY <1>0, <1>5, <2>1, <2>2
<1>9. IdsAreNew'
  <2>1. \A p \in Requests :
            /\ NamesUser(req'[p]) => NamesUser(req[p])
            /\ Creating(req'[p]) => Creating(req[p]) /\ p # r
            /\ req'[p].u = req[p].u
        BY <1>0, <1>3, <1>5 DEF NamesUser, Creating
  <2>2. \A v \in Users : user'[v].exists => v \in issued
        BY <1>1, <1>3, <1>4 DEF IdsAreNew
  <2>3. ASSUME NEW p \in Requests, Creating(req'[p])
        PROVE  ~user'[req[p].u].exists
    <3>1. p # r /\ Creating(req[p])
          BY <2>1, <2>3
    <3>2. ~user[req[p].u].exists /\ q.u # req[p].u /\ req[p].u \in Users
          BY <1>1, <1>3, <3>1 DEF IdsAreNew
    <3>  QED BY <1>4, <3>2
  <2>  QED BY <1>1, <1>2, <2>1, <2>2, <2>3 DEF IdsAreNew
<1>  QED BY <1>6, <1>7, <1>8, <1>9 DEF HandlersFit

LEMMA OtherFits ==
    ASSUME TypeOK, HandlersFit,
           \/ \E n \in Nodes : SwitchNode(n) \/ OtherSync(n)
           \/ Tick \/ Restart \/ UNCHANGED vars
    PROVE  HandlersFit'
<1>1. UNCHANGED <<user, access, issued>>
      BY DEF SwitchNode, OtherSync, Tick, Restart, vars
<1>2. CASE req' = req
      BY <1>1, <1>2 DEF HandlersFit, IdsAreNew, RowsHaveUsers, KnowsNodes, AccessDetailForUser
<1>3. CASE Restart
  <2>1. \A r \in Requests : req'[r] = Idle
        BY <1>3 DEF Restart
  <2>2. StepFits(Idle) /\ ~NamesUser(Idle) /\ ~Creating(Idle) /\ Idle.pc = "idle"
        BY DEF StepFits, NamesUser, Creating, Idle
  <2>3. IdsAreNew' /\ RowsHaveUsers'
        BY <1>1, <2>1, <2>2 DEF HandlersFit, IdsAreNew, RowsHaveUsers, AccessDetailForUser
  <2>  QED BY <2>1, <2>2, <2>3 DEF HandlersFit, KnowsNodes
<1>  QED BY <1>2, <1>3 DEF SwitchNode, OtherSync, Tick, vars

-----------------------------------------------------------------------------
(* No node is forgotten *)

\* Whether a node differs from the rows depends on the rows of the users alone.
LEMMA SameRowsDiffer ==
    ASSUME NEW n \in Nodes, NEW u \in Users,
           \A v \in Users \ {u} : user'[v] = user[v] /\ access'[v] = access[v],
           access'[u][n] = access[u][n],
           user'[u] = user[u] \/ access[u][n] # "on",
           now' = now, serves' = serves
    PROVE  Differs(n)' => Differs(n)
<1>1. ASSUME NEW v \in Users
      PROVE  (LetIn(v, n)' => LetIn(v, n)) /\ (KeptOut(v, n)' => KeptOut(v, n))
  <2>1. CASE v # u \/ user'[u] = user[u]
        BY <1>1, <2>1 DEF LetIn, KeptOut, Granted, IsExpired
  <2>2. CASE v = u /\ access[u][n] # "on"
        BY <2>2 DEF LetIn, KeptOut, Granted
  <2>  QED BY <2>1, <2>2
<1>  QED BY <1>1 DEF Differs

LEMMA UnchangedDiffer ==
    ASSUME NEW n \in Nodes, UNCHANGED <<now, user, access>>, serves'[n] = serves[n]
    PROVE  Differs(n)' => Differs(n)
BY DEF Differs, LetIn, KeptOut, Granted, IsExpired

\* A node that was just synced does not differ.
LEMMA SyncedAgrees ==
    ASSUME NEW n \in Nodes, UNCHANGED <<now, user, access>>,
           serves'[n] = ActiveAccessForNode(n)
    PROVE  ~Differs(n)'
BY DEF Differs, LetIn, KeptOut, Granted, IsExpired, ActiveAccessForNode, MustBeServed

\* A step of one request that writes no row and syncs no node forgets none, when what the
\* request owed it still owes, or is excused.
LEMMA QuietForgets ==
    ASSUME TypeOK, NoNodeForgotten, NEW r \in Requests, NEW state, Goto(r, state),
           UNCHANGED <<now, user, access, serves>>, behind \subseteq behind',
           \A n \in Nodes : Owes(req[r], n) =>
               Owes(state, n) \/ (Differs(n)' => n \in behind')
    PROVE  NoNodeForgotten'
<1> SUFFICES ASSUME NEW n \in Nodes, Differs(n)', n \notin behind'
             PROVE  Owed(n)'
    BY DEF NoNodeForgotten
<1>1. Differs(n)
      BY UnchangedDiffer
<1>2. PICK p \in Requests : Owes(req[p], n)
      BY <1>1 DEF NoNodeForgotten, Owed
<1>3. req'[r] = state /\ (p # r => req'[p] = req[p])
      BY DEF TypeOK, Goto
<1>4. Owes(req'[p], n)
      BY <1>2, <1>3
<1>5. Owes(req[p], n)'
      BY <1>4 DEF Owes, AccessDetailForUser
<1>  QED BY <1>5 DEF Owed

LEMMA AnswerForgets ==
    ASSUME TypeOK, NoNodeForgotten, NEW r \in Requests, Answer(r),
           UNCHANGED <<now, user, access, serves>>, behind \subseteq behind',
           \A n \in Nodes : Owes(req[r], n) => (Differs(n)' => n \in behind')
    PROVE  NoNodeForgotten'
BY QuietForgets DEF Answer

\* A sync of node n, after which that node agrees or is excused.
LEMMA SyncForgets ==
    ASSUME TypeOK, NoNodeForgotten, NEW n \in Nodes, NEW ok \in BOOLEAN, SyncNode(n, ok),
           IF ok THEN Settle(n) ELSE Excuse({n}),
           UNCHANGED <<now, user, access>>,
           \A p \in Requests, m \in Nodes \ {n} : Owes(req[p], m) => Owes(req'[p], m)
    PROVE  NoNodeForgotten'
<1>1. \A m \in Nodes \ {n} : serves'[m] = serves[m]
      BY DEF TypeOK, UserAccessTypeOK, SyncNode
<1>2. Differs(n)' => n \in behind'
  <2>1. CASE ok
    <3>1. serves'[n] = ActiveAccessForNode(n)
          BY <2>1 DEF TypeOK, UserAccessTypeOK, SyncNode
    <3>  QED BY <3>1, SyncedAgrees
  <2>2. CASE ~ok
        BY <2>2 DEF Excuse
  <2>  QED BY <2>1, <2>2
<1>3. ASSUME NEW m \in Nodes \ {n}, Differs(m)', m \notin behind'
      PROVE  Owed(m)'
  <2>1. Differs(m) /\ m \notin behind
        BY <1>1, <1>3, UnchangedDiffer DEF Settle, Excuse
  <2>2. PICK p \in Requests : Owes(req[p], m)
        BY <2>1 DEF NoNodeForgotten, Owed
  <2>3. Owes(req'[p], m)
        BY <2>2
  <2>4. Owes(req[p], m)'
        BY <2>3 DEF Owes, AccessDetailForUser
  <2>  QED BY <2>4 DEF Owed
<1>  QED BY <1>2, <1>3 DEF NoNodeForgotten

LEMMA ArriveForgets ==
    ASSUME TypeOK, NoNodeForgotten, NEW r \in Requests, Arrive(r)
    PROVE  NoNodeForgotten'
<1>1. PICK state : Goto(r, state)
      BY DEF Arrive
<1>2. \A n \in Nodes : ~Owes(req[r], n)
      BY DEF Arrive, At, Owes
<1>  QED BY <1>1, <1>2, QuietForgets DEF Arrive

\* Every step of a request but its change.
LEMMA StepForgets ==
    ASSUME TypeOK, HandlersFit, NoNodeForgotten, NEW r \in Requests, Step(r), ~Change(r)
    PROVE  NoNodeForgotten'
<1> DEFINE q == req[r]
<1>0. q \in Handlers /\ q.u \in Users /\ q.todo \in SUBSET Nodes /\ q.cur \in SUBSET Nodes
      BY DEF TypeOK, Handlers
<1>1. ASSUME UNCHANGED <<now, user, access, serves, behind>>, \E state : Goto(r, state),
             \A n \in Nodes : ~Owes(q, n)
      PROVE  NoNodeForgotten'
      BY <1>1, QuietForgets
<1>2. CASE ReadNodesBefore(r) \/ LookUpNode(r) \/ LookUpRow(r) \/ ChangeFails(r)
  <2>1. \A n \in Nodes : ~Owes(q, n)
        BY <1>2 DEF ReadNodesBefore, LookUpNode, LookUpRow, ChangeFails, At, Owes
  <2>2. UNCHANGED <<now, user, access, serves, behind>> /\ \E state : Goto(r, state)
    <3>1. CASE ReadNodesBefore(r)
          BY <3>1 DEF ReadNodesBefore, Answer
    <3>2. CASE LookUpNode(r)
          BY <3>2 DEF LookUpNode, Answer
    <3>3. CASE LookUpRow(r)
          BY <3>3 DEF LookUpRow, Answer
    <3>4. CASE ChangeFails(r)
          BY <3>4 DEF ChangeFails, Answer
    <3>  QED BY <1>2, <3>1, <3>2, <3>3, <3>4
  <2>  QED BY <1>1, <2>1, <2>2
<1>3. CASE ReadNodesAfter(r)
  <2>1. UNCHANGED <<now, user, access, serves, behind>> /\ q.pc = "nodesAfter"
        BY <1>3 DEF ReadNodesAfter, At
  <2>2. CASE ~ReadsNodesAfter(q)
    <3>1. \E state : Goto(r, state)
      <4>1. CASE q.op = "syncUser"
            BY <1>3, <4>1 DEF ReadNodesAfter
      <4>2. CASE q.op = "syncAll"
            BY <1>3, <4>2 DEF ReadNodesAfter
      <4>3. CASE q.op # "syncUser" /\ q.op # "syncAll"
            BY <1>3, <4>3 DEF ReadNodesAfter
      <4>  QED BY <4>1, <4>2, <4>3
    <3>  QED BY <1>1, <2>1, <2>2, <3>1 DEF Owes
  <2>3. CASE ReadsNodesAfter(q)
    <3> DEFINE state == [q EXCEPT !.pc = "sync", !.todo = AccessDetailForUser(q.u)]
    <3>1. state.pc = "sync" /\ state.todo = AccessDetailForUser(q.u)
          BY <1>0 DEF Handlers
    <3>2. q.op # "syncUser" /\ q.op # "syncAll"
          BY <2>3 DEF ReadsNodesAfter
    <3>3. Goto(r, state)
          BY <1>3, <3>2 DEF ReadNodesAfter
    <3> HIDE DEF state
    <3>4. \A n \in Nodes : Owes(q, n) => Owes(state, n)
          BY <2>1, <3>1 DEF Owes
    <3>  QED BY <2>1, <3>3, <3>4, QuietForgets
  <2>  QED BY <2>2, <2>3
<1>4. CASE ReadNodesAfterFails(r)
  <2>1. /\ Answer(r) /\ UNCHANGED <<now, user, access, serves>> /\ q.pc = "nodesAfter"
        /\ Excuse(IF ReadsNodesAfter(q) THEN AccessDetailForUser(q.u) ELSE {})
        BY <1>4 DEF ReadNodesAfterFails, At
  <2>2. behind \subseteq behind' /\ \A n \in Nodes : Owes(q, n) => (Differs(n)' => n \in behind')
        BY <2>1 DEF Excuse, Owes
  <2>  QED BY <2>1, <2>2, AnswerForgets
<1>5. CASE GetNode(r)
  <2>1. PICK n \in q.todo :
          LET rest == [q EXCEPT !.todo = @ \ {n}]
          IN \/ /\ host[n].enabled
                /\ Goto(r, [rest EXCEPT !.cur = {n}])
                /\ behind' = behind
             \/ /\ ~host[n].enabled
                /\ Goto(r, rest)
                /\ Excuse({n})
             \/ Goto(r, rest) /\ Excuse({n})
        BY <1>5 DEF GetNode
  <2> DEFINE rest == [q EXCEPT !.todo = q.todo \ {n}]
             one == [rest EXCEPT !.cur = {n}]
  <2>2. /\ rest.pc = q.pc /\ rest.todo = q.todo \ {n} /\ rest.cur = q.cur
        /\ one.pc = q.pc /\ one.todo = q.todo \ {n} /\ one.cur = {n}
        BY <1>0 DEF Handlers
  <2>3. (Goto(r, one) /\ behind' = behind) \/ (Goto(r, rest) /\ Excuse({n}))
        BY <2>1
  <2>4. UNCHANGED <<now, user, access, serves>> /\ q.pc = "sync" /\ q.cur = {}
        BY <1>5 DEF GetNode, At
  <2> HIDE DEF rest, one
  <2>5. CASE Goto(r, one) /\ behind' = behind
    <3>1. \A m \in Nodes : Owes(q, m) => Owes(one, m)
          BY <2>2, <2>4 DEF Owes
    <3>  QED BY <2>4, <2>5, <3>1, QuietForgets
  <2>6. CASE Goto(r, rest) /\ Excuse({n})
    <3>1. behind \subseteq behind' /\ (Differs(n)' => n \in behind')
          BY <2>6 DEF Excuse
    <3>2. \A m \in Nodes : Owes(q, m) => Owes(rest, m) \/ m = n
          BY <2>2, <2>4 DEF Owes
    <3>  QED BY <2>4, <2>6, <3>1, <3>2, QuietForgets
  <2>  QED BY <2>3, <2>5, <2>6
<1>6. CASE SyncOne(r)
  <2>1. PICK n \in q.cur, ok \in BOOLEAN :
          /\ SyncNode(n, ok)
          /\ Goto(r, [q EXCEPT !.cur = q.cur \ {n}])
          /\ IF ok THEN Settle(n) ELSE Excuse({n})
        BY <1>6 DEF SyncOne
  <2> DEFINE rest == [q EXCEPT !.cur = q.cur \ {n}]
  <2>2. /\ n \in Nodes
        /\ rest.pc = q.pc /\ rest.todo = q.todo /\ rest.cur = q.cur \ {n}
        BY <1>0 DEF Handlers
  <2>3. UNCHANGED <<now, user, access>> /\ q.pc = "sync"
        BY <1>6 DEF SyncOne, At
  <2>4. req'[r] = rest /\ \A p \in Requests \ {r} : req'[p] = req[p]
        BY <2>1 DEF TypeOK, Goto
  <2> HIDE DEF rest
  <2>5. \A m \in Nodes \ {n} : Owes(q, m) => Owes(rest, m)
        BY <2>2, <2>3 DEF Owes
  <2>6. \A p \in Requests, m \in Nodes \ {n} : Owes(req[p], m) => Owes(req'[p], m)
        BY <2>4, <2>5
  <2>  QED BY <2>1, <2>2, <2>3, <2>6, SyncForgets
<1>7. CASE Finish(r)
  <2>1. \A n \in Nodes : ~Owes(q, n)
        BY <1>7 DEF Finish, At, Owes
  <2>  QED BY <1>1, <1>7, <2>1 DEF Finish, Answer
<1>  QED BY <1>2, <1>3, <1>4, <1>5, <1>6, <1>7 DEF Step

\* A change: the nodes it concerns are those the handler will look up, or looked up
\* before, or those that are excused.
LEMMA ChangeForgets ==
    ASSUME TypeOK, HandlersFit, NoNodeForgotten, NEW r \in Requests, Change(r)
    PROVE  NoNodeForgotten'
<1> DEFINE q == req[r]
<1>0. /\ q \in Handlers /\ q.pc = "change" /\ q.op \in ChangeOps
      /\ StepFits(q) /\ KnowsNodes(q) /\ WriteRows(q)
      /\ req'[r].pc = IF ReadsNodesAfter(q) THEN "nodesAfter" ELSE "sync"
      /\ req'[r].op = q.op /\ req'[r].ui = q.ui /\ req'[r].u = q.u /\ req'[r].todo = q.todo
      /\ \A p \in Requests \ {r} : req'[p] = Affected(req[p], q)
      BY ChangeSteps
<1>1. /\ UserAccessTypeOK /\ \A p \in Requests : req[p] \in Handlers /\ req[p].u \in Users
      /\ IdsAreNew /\ RowsHaveUsers
      BY DEF TypeOK, Handlers, HandlersFit
<1>2. q.u \in Users /\ q.todo \subseteq Nodes
      BY <1>0 DEF Handlers
<1>3. \A v \in Users \ {q.u} : user'[v] = user[v] /\ access'[v] = access[v]
      BY <1>0, <1>1, Written
<1>4. UNCHANGED <<now, serves>> /\ Excuse(q.late)
      BY DEF Change
<1>5. ASSUME NEW p \in Requests \ {r}, NEW n \in Nodes, Owes(req[p], n),
             access'[q.u][n] = access[q.u][n]
      PROVE  Owes(req[p], n)'
  <2>1. /\ req'[p].pc = req[p].pc /\ req'[p].op = req[p].op /\ req'[p].ui = req[p].ui
        /\ req'[p].u = req[p].u /\ req'[p].todo = req[p].todo
        /\ req[p].pc # "change" => req'[p].cur = req[p].cur
        BY <1>0, <1>1, <1>5, AffectedKeeps
  <2>2. access'[req[p].u][n] = access[req[p].u][n]
        BY <1>1, <1>3, <1>5
  <2>3. CASE req[p].pc = "sync"
        BY <1>5, <2>1, <2>3 DEF Owes
  <2>4. CASE req[p].pc = "nodesAfter"
        BY <1>5, <2>1, <2>2, <2>4 DEF Owes, ReadsNodesAfter, AccessDetailForUser
  <2>  QED BY <1>5, <2>3, <2>4 DEF Owes
<1> SUFFICES ASSUME NEW n \in Nodes, Differs(n)', n \notin behind'
             PROVE  \E p \in Requests : Owes(req[p], n)'
    BY DEF NoNodeForgotten, Owed
<1>6. n \notin behind /\ n \notin q.late
      BY <1>4 DEF Excuse
<1>7. ASSUME access'[q.u][n] = access[q.u][n], user'[q.u] = user[q.u] \/ access[q.u][n] # "on"
      PROVE  \E p \in Requests : Owes(req[p], n)'
  <2>1. Differs(n)
        BY <1>2, <1>3, <1>4, <1>7, SameRowsDiffer
  <2>2. PICK p \in Requests : Owes(req[p], n)
        BY <1>6, <2>1 DEF NoNodeForgotten, Owed
  <2>3. p # r
        BY <1>0, <2>2 DEF Owes
  <2>  QED BY <1>5, <1>7, <2>2, <2>3
<1>8. CASE ReadsNodesAfter(q)
  <2>1. access' = access
        BY <1>0, <1>1, <1>8, Written DEF ReadsNodesAfter
  <2>2. CASE access[q.u][n] = "none"
        BY <1>7, <2>1, <2>2
  <2>3. CASE access[q.u][n] # "none"
        BY <1>0, <1>8, <2>1, <2>3 DEF Owes, ReadsNodesAfter, AccessDetailForUser
  <2>  QED BY <2>2, <2>3
<1>9. CASE ~ReadsNodesAfter(q)
  <2>0. req'[r].pc = "sync"
        BY <1>0, <1>9
  <2>1. CASE n \in q.todo
        BY <1>0, <2>0, <2>1 DEF Owes
  <2>2. CASE n \notin q.todo
    <3>1. CASE q.op = "create"
      <4>1. access'[q.u][n] = "none"
            BY <1>0, <1>1, <2>2, <3>1, Written
      <4>2. ~user[q.u].exists
            BY <1>0, <1>1, <3>1 DEF IdsAreNew, Creating
      <4>3. access[q.u][n] = "none"
            BY <1>1, <1>2, <4>2 DEF RowsHaveUsers, AccessDetailForUser
      <4>  QED BY <1>7, <4>1, <4>3
    <3>2. CASE q.op \in {"update", "delete"}
      <4>1. access[q.u][n] = "none"
            BY <1>0, <1>6, <1>9, <2>2, <3>2 DEF KnowsNodes, AccessDetailForUser
      <4>2. access'[q.u][n] = "none"
        <5>1. CASE q.op = "update"
              BY <1>0, <1>1, <4>1, <5>1, Written
        <5>2. CASE q.op = "delete"
              BY <1>0, <1>1, <5>2, Written
        <5>  QED BY <3>2, <5>1, <5>2
      <4>  QED BY <1>7, <4>1, <4>2
    <3>3. CASE q.op \in {"assign", "unassign"}
      <4>1. user' = user /\ access'[q.u][n] = access[q.u][n]
            BY <1>0, <1>1, <2>2, <3>3, Written
      <4>  QED BY <1>7, <4>1
    <3>4. CASE q.op \in {"accessOn", "accessOff"}
      <4>1. n \notin q.cur
            BY <1>0, <2>2, <3>4 DEF KnowsNodes
      <4>2. user' = user /\ access'[q.u][n] = access[q.u][n]
            BY <1>0, <1>1, <3>4, <4>1, Written
      <4>  QED BY <1>7, <4>2
    <3>5. q.op \notin {"enable", "disable"}
          BY <1>9 DEF ReadsNodesAfter
    <3>  QED BY <1>0, <3>1, <3>2, <3>3, <3>4, <3>5 DEF ChangeOps
  <2>  QED BY <2>1, <2>2
<1>  QED BY <1>8, <1>9

LEMMA OtherForgets ==
    ASSUME TypeOK, NoNodeForgotten,
           \/ \E n \in Nodes : SwitchNode(n) \/ OtherSync(n)
           \/ Tick \/ Restart \/ UNCHANGED vars
    PROVE  NoNodeForgotten'
<1>1. ASSUME NEW n \in Nodes, OtherSync(n) PROVE NoNodeForgotten'
  <2>1. UNCHANGED <<now, user, access, req>> /\ SyncNode(n, TRUE) /\ Settle(n)
        BY <1>1 DEF OtherSync
  <2>  QED BY <2>1, SyncForgets
<1>2. CASE Restart
  <2>1. UNCHANGED <<now, user, access, serves>> /\ Excuse({n \in Nodes : Owed(n)})
        BY <1>2 DEF Restart
  <2>2. ASSUME NEW n \in Nodes, Differs(n)' PROVE n \in behind'
    <3>1. Differs(n)
          BY <2>1, <2>2, UnchangedDiffer
    <3>2. Owed(n) \/ n \in behind
          BY <3>1 DEF NoNodeForgotten
    <3>  QED BY <2>1, <2>2, <3>2 DEF Excuse
  <2>  QED BY <2>2 DEF NoNodeForgotten
<1>3. ASSUME UNCHANGED <<user, access, serves, req, behind>>, now' \in Int, now <= now'
      PROVE  NoNodeForgotten'
  <2>1. ASSUME NEW n \in Nodes, Differs(n)' PROVE Differs(n)
    <3>1. \A v \in Users : user[v].expires \in Int /\ now \in Int
          BY NeverType DEF TypeOK, UserAccessTypeOK, UserRows
    <3>2. \A v \in Users : (LetIn(v, n)' => LetIn(v, n)) /\ (KeptOut(v, n)' => KeptOut(v, n))
          BY <1>3, <3>1 DEF LetIn, KeptOut, Granted, IsExpired
    <3>  QED BY <2>1, <3>2 DEF Differs
  <2>2. ASSUME NEW n \in Nodes, Owed(n) PROVE Owed(n)'
        BY <1>3, <2>2 DEF Owed, Owes, AccessDetailForUser
  <2>  QED BY <1>3, <2>1, <2>2 DEF NoNodeForgotten
<1>4. now \in Int /\ now + 1 \in Int /\ now <= now + 1 /\ now <= now
      BY NeverType DEF TypeOK, UserAccessTypeOK
<1>5. CASE Tick
      BY <1>3, <1>4, <1>5 DEF Tick
<1>6. ASSUME NEW n \in Nodes, SwitchNode(n) PROVE NoNodeForgotten'
      BY <1>3, <1>4, <1>6 DEF SwitchNode
<1>7. CASE UNCHANGED vars
      BY <1>3, <1>4, <1>7 DEF vars
<1>  QED BY <1>1, <1>2, <1>5, <1>6, <1>7

-----------------------------------------------------------------------------
(* The theorems *)

LEMMA AccessInit == Init => AccessInv
<1> SUFFICES ASSUME Init PROVE AccessInv
    OBVIOUS
<1>1. TypeOK
      BY TypeInit
<1>2. \A r \in Requests : req[r] = Idle
      BY DEF Init
<1>3. StepFits(Idle) /\ KnowsNodes(Idle) /\ ~NamesUser(Idle) /\ ~Creating(Idle)
      BY DEF StepFits, KnowsNodes, NamesUser, Creating, Idle
<1>4. IdsAreNew
      BY <1>2, <1>3 DEF Init, IdsAreNew
<1>5. RowsHaveUsers
      BY DEF Init, RowsHaveUsers
<1>6. HandlersFit
      BY <1>2, <1>3, <1>4, <1>5 DEF HandlersFit
<1>7. NoNodeForgotten
      BY DEF Init, NoNodeForgotten
<1>  QED BY <1>1, <1>6, <1>7 DEF AccessInv

LEMMA AccessStep == AccessInv /\ [Next]_vars => AccessInv'
<1> SUFFICES ASSUME AccessInv, [Next]_vars PROVE AccessInv'
    OBVIOUS
<1>0. TypeOK /\ HandlersFit /\ NoNodeForgotten
      BY DEF AccessInv
<1>1. ASSUME NEW r \in Requests, Arrive(r) PROVE AccessInv'
      BY <1>0, <1>1, ArriveType, ArriveFits, ArriveForgets DEF AccessInv
<1>2. ASSUME NEW r \in Requests, Step(r), ~Change(r) PROVE AccessInv'
  <2>1. At(r, "change") => req[r].op \in ChangeOps
        BY <1>0 DEF HandlersFit, StepFits, At
  <2>  QED BY <1>0, <1>2, <2>1, StepType, StepFitsOn, StepForgets DEF AccessInv
<1>3. ASSUME NEW r \in Requests, Change(r) PROVE AccessInv'
  <2>1. req[r].op \in ChangeOps
        BY <1>0, <1>3, ChangeSteps
  <2>  QED BY <1>0, <1>3, <2>1, ChangeType, ChangeFits, ChangeForgets DEF AccessInv
<1>4. CASE \/ \E n \in Nodes : SwitchNode(n) \/ OtherSync(n)
           \/ Tick \/ Restart \/ UNCHANGED vars
      BY <1>0, <1>4, OtherTypes, OtherFits, OtherForgets DEF AccessInv
<1>  QED BY <1>1, <1>2, <1>3, <1>4 DEF Next

\* The invariant of the handlers holds however many requests there are and however they
\* interleave. (every handler that changes access)
THEOREM AccessInvariantHolds == Spec => []AccessInv
<1>  QED BY AccessInit, AccessStep, PTL DEF Spec

\* The rows and the handlers keep their types.
THEOREM AccessTypes == Spec => []TypeOK
<1>1. AccessInv => TypeOK
      BY DEF AccessInv
<1>  QED BY <1>1, AccessInvariantHolds, PTL

\* A node that lets in a user without a right to it, or keeps one out in spite of it, is
\* owed a sync by a request under way, or excused. (the order of reads, changes and syncs
\* in every handler)
THEOREM NobodyForgets == Spec => []NoNodeForgotten
<1>1. AccessInv => NoNodeForgotten
      BY DEF AccessInv
<1>  QED BY <1>1, AccessInvariantHolds, PTL

-----------------------------------------------------------------------------
(* Subscriptions *)

LEMMA ProtocolsShare ==
    ASSUME NEW S
    PROVE  /\ WithProtocol(S, "mieru") \cup WithProtocol(S, "naive") = S
           /\ WithProtocol(S, "mieru") \cap WithProtocol(S, "naive") = {}
           /\ WithProtocol(S, "mieru") \subseteq S /\ WithProtocol(S, "naive") \subseteq S
BY DEF WithProtocol

\* What each format makes of the list.
LEMMA FormatContents ==
    ASSUME NEW S \in SUBSET Nodes
    PROVE  /\ BuildSubscription(S, "hiddify") = Required(S)
           /\ BuildSubscription(S, "hiddify-json") = Document(S)
           /\ BuildSubscription(S, "mierus") = Required(WithProtocol(S, "mieru"))
           /\ BuildSubscription(S, "naive") = Required(WithProtocol(S, "naive"))
           /\ BuildSubscription(S, "raw") = Document(S)
           /\ \A format \in {"", "json", "karing", "sing-box", "unknown"} :
                 BuildSubscription(S, format) = Document(S)
<1>1. BuildSubscription(S, "hiddify") = BuildHiddifyAll(S)
      BY DEF BuildSubscription, NormalizeFormat
<1>2. BuildSubscription(S, "hiddify-json") = BuildHiddifyJSON(S)
      BY DEF BuildSubscription, NormalizeFormat
<1>3. BuildSubscription(S, "mierus") = BuildRawMieru(S)
      BY DEF BuildSubscription, NormalizeFormat
<1>4. BuildSubscription(S, "naive") = BuildRawNaive(S)
      BY DEF BuildSubscription, NormalizeFormat
<1>5. BuildSubscription(S, "raw") = BuildRawAll(S)
      BY DEF BuildSubscription, NormalizeFormat
<1>6. ASSUME NEW format \in {"", "json", "karing", "sing-box", "unknown"}
      PROVE  BuildSubscription(S, format) = BuildSingboxJSON(S)
      BY <1>6 DEF BuildSubscription, NormalizeFormat
<1>7. WithProtocol(S, "naive") \cup WithProtocol(S, "mieru") = S
      BY ProtocolsShare
<1>8. SingboxOutbounds(S) \ {"direct", "dns-out"} = S
      BY <1>7, TagAssumption DEF SingboxOutbounds
<1>  QED BY <1>1, <1>2, <1>3, <1>4, <1>5, <1>6, <1>7, <1>8, ProtocolsShare
     DEF BuildHiddifyAll, BuildHiddifyJSON, BuildRawMieru, BuildRawNaive, BuildRawAll,
         BuildSingboxJSON

LEMMA RequiredAnswers ==
    ASSUME NEW S
    PROVE  /\ Required(S).nodes = S /\ (Required(S).ok <=> S # {})
           /\ Document(S).nodes = S /\ Document(S).ok
<1>1. CASE S = {}
      BY <1>1 DEF Required, NoNodes, Document
<1>2. CASE S # {}
      BY <1>2 DEF Required, Document
<1>  QED BY <1>1, <1>2

LEMMA FormatsOfOneList == FormatsAgree
<1> SUFFICES ASSUME NEW u \in Users
             PROVE  LET S == ActiveAccessForSubscription(u)
                        In(format) == BuildSubscription(S, format)
                    IN /\ \A format \in Formats \ {"mierus", "naive"} : In(format).nodes = S
                       /\ In("mierus").nodes \cup In("naive").nodes = S
                       /\ In("mierus").nodes \cap In("naive").nodes = {}
                       /\ \A format \in Formats : ~In(format).ok => In(format).nodes = {}
                       /\ \A format \in {"hiddify", "mierus", "naive"} :
                             In(format).ok => In(format).nodes # {}
                       /\ SingboxSelector(S) # {} /\ SingboxSelector(S) \subseteq SingboxOutbounds(S)
                       /\ \A format \in Formats : ContentIsJSON(format) <=> FilenameIsJSON(format)
    BY DEF FormatsAgree
<1> DEFINE S == ActiveAccessForSubscription(u)
<1>1. S \in SUBSET Nodes
      BY DEF ActiveAccessForSubscription
<1>2. \A format \in Formats : ContentIsJSON(format) <=> FilenameIsJSON(format)
      BY DEF ContentIsJSON, FilenameIsJSON, NormalizeFormat, Formats
<1> HIDE DEF S
<1>3. SingboxSelector(S) # {} /\ SingboxSelector(S) \subseteq SingboxOutbounds(S)
      BY ProtocolsShare DEF SingboxSelector, SingboxOutbounds
<1>4. /\ BuildSubscription(S, "mierus").nodes = WithProtocol(S, "mieru")
      /\ BuildSubscription(S, "mierus").ok <=> WithProtocol(S, "mieru") # {}
      /\ BuildSubscription(S, "naive").nodes = WithProtocol(S, "naive")
      /\ BuildSubscription(S, "naive").ok <=> WithProtocol(S, "naive") # {}
      BY <1>1, FormatContents, RequiredAnswers
<1>5. /\ BuildSubscription(S, "hiddify").nodes = S
      /\ BuildSubscription(S, "hiddify").ok <=> S # {}
      BY <1>1, FormatContents, RequiredAnswers
<1>6. \A format \in {"", "json", "karing", "sing-box", "unknown", "raw", "hiddify-json"} :
          BuildSubscription(S, format).nodes = S /\ BuildSubscription(S, format).ok
  <2>1. ASSUME NEW format \in {"", "json", "karing", "sing-box", "unknown", "raw", "hiddify-json"}
        PROVE  BuildSubscription(S, format) = Document(S)
        BY <1>1, <2>1, FormatContents
  <2>  QED BY <2>1, RequiredAnswers
<1>7. \A format \in Formats : \/ format \in {"mierus", "naive", "hiddify"}
                               \/ format \in {"", "json", "karing", "sing-box", "unknown", "raw",
                                              "hiddify-json"}
      BY DEF Formats
<1>8. \A format \in Formats \ {"mierus", "naive"} : BuildSubscription(S, format).nodes = S
      BY <1>5, <1>6, <1>7
<1>9. \A format \in Formats :
          ~BuildSubscription(S, format).ok => BuildSubscription(S, format).nodes = {}
      BY <1>4, <1>5, <1>6, <1>7
<1>10. \A format \in {"hiddify", "mierus", "naive"} :
          BuildSubscription(S, format).ok => BuildSubscription(S, format).nodes # {}
      BY <1>4, <1>5
<1>  QED BY <1>2, <1>3, <1>4, <1>8, <1>9, <1>10, ProtocolsShare DEF S

\* The formats are views of one list, whatever the rows say. (BuildSubscriptionWithMetadata,
\* ContentDispositionFilename)
THEOREM FormatsAreViews == Spec => []FormatsAgree
<1>  QED BY FormatsOfOneList, PTL

LEMMA AnswersList ==
    ASSUME NEW u \in Users, NEW format \in Formats
    PROVE  LET answer == BuildByToken(u, format)
           IN /\ answer.ok => user[u].exists /\ Eligible(u)
              /\ answer.nodes # {} => user[u].exists /\ Eligible(u)
              /\ answer.nodes \subseteq ActiveAccessForSubscription(u)
<1> DEFINE S == ActiveAccessForSubscription(u)
<1>1. BuildSubscription(S, format).nodes \subseteq S
  <2>1. CASE format \in {"mierus", "naive"}
    <3>1. BuildSubscription(S, "mierus").nodes \cup BuildSubscription(S, "naive").nodes = S
          BY FormatsOfOneList DEF FormatsAgree
    <3>  QED BY <2>1, <3>1
  <2>2. CASE format \notin {"mierus", "naive"}
        BY <2>2, FormatsOfOneList DEF FormatsAgree
  <2>  QED BY <2>1, <2>2
<1> HIDE DEF S
<1>2. CASE user[u].exists /\ Eligible(u)
      BY <1>1, <1>2 DEF BuildByToken, S
<1>3. CASE ~(user[u].exists /\ Eligible(u))
      BY <1>3 DEF BuildByToken, NoNodes
<1>  QED BY <1>2, <1>3

\* Users without a right to it get no answer, and every node an answer lists lets the
\* user in, but for nodes that are owed a sync or excused. (BuildByToken,
\* ActiveAccessForSubscription and ActiveAccessForNode)
THEOREM SubscriptionsAreHonoured == Spec => []SubscriptionIsHonoured
<1>1. NoNodeForgotten => SubscriptionIsHonoured
  <2> SUFFICES ASSUME NoNodeForgotten, NEW u \in Users, NEW format \in Formats
               PROVE  LET answer == BuildByToken(u, format)
                      IN /\ answer.ok => MustBeServed(u)
                         /\ \A n \in answer.nodes : u \in serves[n] \/ Owed(n) \/ n \in behind
      BY DEF SubscriptionIsHonoured
  <2>1. BuildByToken(u, format).ok => MustBeServed(u)
        BY AnswersList DEF Eligible, MustBeServed
  <2>2. ASSUME NEW n \in BuildByToken(u, format).nodes
        PROVE  u \in serves[n] \/ Owed(n) \/ n \in behind
    <3>1. n \in Nodes /\ access[u][n] = "on" /\ user[u].exists /\ Eligible(u)
          BY <2>2, AnswersList DEF ActiveAccessForSubscription
    <3>2. u \notin serves[n] => Differs(n)
          BY <3>1 DEF Differs, KeptOut, Granted, Eligible
    <3>  QED BY <3>1, <3>2 DEF NoNodeForgotten
  <2>  QED BY <2>1, <2>2
<1>  QED BY <1>1, NobodyForgets, PTL

-----------------------------------------------------------------------------
(* Pages *)

\* The user page offers the link of one protocol exactly when it leads to nodes.
\* (UserDetail, hasDetailedProtocolAccess and BuildByToken)
THEOREM LinksLead == Spec => []LinksWork
<1>1. LinksWork
  <2> SUFFICES ASSUME NEW u \in Rows
               PROVE  \A format \in {"mierus", "naive"} :
                         format \in SubscriptionLinks(u)
                           <=> BuildSubscription(ActiveAccessForSubscription(u), format).ok
      BY DEF LinksWork
  <2> DEFINE S == ActiveAccessForSubscription(u)
  <2>1. S \in SUBSET Nodes
        BY DEF ActiveAccessForSubscription
  <2>2. /\ HasDetailedProtocolAccess(u, "mieru") <=> WithProtocol(S, "mieru") # {}
        /\ HasDetailedProtocolAccess(u, "naive") <=> WithProtocol(S, "naive") # {}
        BY DEF HasDetailedProtocolAccess, AccessDetailForUser, ActiveAccessForSubscription,
               WithProtocol
  <2> HIDE DEF S
  <2>3. /\ BuildSubscription(S, "mierus").ok <=> WithProtocol(S, "mieru") # {}
        /\ BuildSubscription(S, "naive").ok <=> WithProtocol(S, "naive") # {}
        BY <2>1, FormatContents, RequiredAnswers
  <2>4. /\ "mierus" \in SubscriptionLinks(u) <=> HasDetailedProtocolAccess(u, "mieru")
        /\ "naive" \in SubscriptionLinks(u) <=> HasDetailedProtocolAccess(u, "naive")
        BY DEF SubscriptionLinks
  <2>  QED BY <2>2, <2>3, <2>4 DEF S
<1>  QED BY <1>1, PTL

\* Users that are counted twice by no two of three disjoint sets.
LEMMA ThreeParts ==
    ASSUME NEW S, NEW A, NEW B, NEW C, IsFiniteSet(S), S = A \cup B \cup C,
           A \cap B = {}, A \cap C = {}, B \cap C = {}
    PROVE  Cardinality(S) = Cardinality(A) + Cardinality(B) + Cardinality(C)
<1>1. IsFiniteSet(A) /\ IsFiniteSet(B) /\ IsFiniteSet(C) /\ IsFiniteSet(A \cup B)
  <2>1. A \subseteq S /\ B \subseteq S /\ C \subseteq S /\ A \cup B \subseteq S
        OBVIOUS
  <2>  QED BY <2>1, FS_Subset
<1>2. /\ Cardinality(A) \in Nat /\ Cardinality(B) \in Nat /\ Cardinality(C) \in Nat
      /\ Cardinality(A \cup B) \in Nat
      BY <1>1, FS_CardinalityType
<1>3. Cardinality({}) = 0
      BY FS_EmptySet
<1>4. Cardinality(A \cup B) = Cardinality(A) + Cardinality(B) - Cardinality(A \cap B)
      BY <1>1, FS_Union
<1>5. Cardinality((A \cup B) \cup C)
        = Cardinality(A \cup B) + Cardinality(C) - Cardinality((A \cup B) \cap C)
      BY <1>1, FS_Union
<1>6. Cardinality(A \cap B) = 0 /\ Cardinality((A \cup B) \cap C) = 0
  <2>1. A \cap B = {} /\ (A \cup B) \cap C = {}
        OBVIOUS
  <2>  QED BY <1>3, <2>1
<1>7. Cardinality(A \cup B) = Cardinality(A) + Cardinality(B)
      BY <1>2, <1>4, <1>6
<1>8. Cardinality((A \cup B) \cup C) = Cardinality(A \cup B) + Cardinality(C)
      BY <1>2, <1>5, <1>6
<1>  QED BY <1>2, <1>7, <1>8

LEMMA StandingsOfRows ==
    ASSUME TypeOK
    PROVE  StandingsAgree
<1> DEFINE stats == DashboardStats
<1>1. \A u \in Rows : /\ user[u].expires \in 1..Never /\ user[u].enabled \in BOOLEAN
                      /\ u \in Users /\ user[u].exists
      BY DEF TypeOK, UserAccessTypeOK, UserRows, Rows
<1>2. now \in 0..MaxTime /\ now \in Int /\ now < Never /\ Never \in Int
      BY TimeAssumption DEF TypeOK, UserAccessTypeOK, Never
<1>3. \A u \in Rows : /\ user[u].expires \in Int
                      /\ IsExpired(u) <=> user[u].expires <= now
                      /\ Unlimited(u) => ~IsExpired(u)
      BY <1>1, <1>2 DEF IsExpired, Unlimited
<1>4. /\ stats.total = Rows
      /\ stats.active = {u \in Rows : user[u].enabled /\ ~IsExpired(u)}
      /\ stats.expired = {u \in Rows : user[u].enabled /\ IsExpired(u)}
      /\ stats.disabled = {u \in Rows : ~user[u].enabled}
      /\ stats.soon = {u \in Rows : /\ user[u].enabled /\ ~Unlimited(u) /\ ~IsExpired(u)
                                    /\ user[u].expires <= now + Soon}
      BY <1>2, <1>3 DEF DashboardStats
<1> HIDE DEF stats
<1>5. \A u \in Rows :
          UserStatus(u) = IF ~user[u].enabled THEN "disabled"
                          ELSE IF IsExpired(u) THEN "expired"
                          ELSE IF IsUserExpiringSoon(u) THEN "warning" ELSE "success"
      BY DEF UserStatus
<1>6. stats.total = stats.active \cup stats.expired \cup stats.disabled
      BY <1>4
<1>7. Cardinality(stats.total) = Cardinality(stats.active)
            + Cardinality(stats.expired) + Cardinality(stats.disabled)
  <2>1. IsFiniteSet(stats.total)
    <3>1. stats.total \subseteq Users
          BY <1>4 DEF Rows
    <3>  QED BY <3>1, UsersAssumption, FS_Subset
  <2>2. /\ stats.active \cap stats.expired = {} /\ stats.active \cap stats.disabled = {}
        /\ stats.expired \cap stats.disabled = {}
        BY <1>4
  <2>  QED BY <1>6, <2>1, <2>2, ThreeParts
<1>8. MatchesUserFilter("expired") = stats.expired
      BY <1>4, <1>5 DEF MatchesUserFilter
<1>9. MatchesUserFilter("disabled") = stats.disabled
      BY <1>4, <1>5 DEF MatchesUserFilter
<1>10. /\ MatchesUserFilter("active") = {u \in Rows : UserStatus(u) = "success"}
       /\ MatchesUserFilter("expires-soon") = {u \in Rows : UserStatus(u) = "warning"}
      BY DEF MatchesUserFilter
<1>11. MatchesUserFilter("active") \cup MatchesUserFilter("expires-soon") = stats.active
      BY <1>4, <1>5, <1>10
<1>12. MatchesUserFilter("expires-soon") = {u \in stats.soon : user[u].expires # now + Soon}
  <2>1. \A u \in Rows : ~IsExpired(u) =>
            (IsUserExpiringSoon(u) <=> /\ ~Unlimited(u) /\ user[u].expires <= now + Soon
                                       /\ user[u].expires # now + Soon)
        BY <1>2, <1>3, SoonAssumption DEF IsUserExpiringSoon
  <2>  QED BY <1>4, <1>5, <1>10, <2>1
<1>13. /\ stats.active = {u \in Rows : MustBeServed(u)}
       /\ stats.active = {u \in Rows : Eligible(u)}
      BY <1>1, <1>4 DEF MustBeServed, Eligible
<1>14. stats.soon \subseteq UpcomingExpirations /\ UpcomingExpirations \subseteq stats.active
      BY <1>2, <1>3, <1>4 DEF UpcomingExpirations
<1>15. UsersPendingExpiryReconcile \subseteq stats.expired
      BY <1>4 DEF UsersPendingExpiryReconcile, Rows
<1>  QED BY <1>6, <1>7, <1>8, <1>9, <1>11, <1>12, <1>13, <1>14, <1>15 DEF StandingsAgree, stats

\* The queries, the badge, the filter and the counters agree on every user at every
\* instant. (ActiveAccessForNode, userStatus, DashboardStats, UsersPendingExpiryReconcile)
THEOREM StandingsOfUsersAgree == Spec => []StandingsAgree
<1>1. TypeOK => StandingsAgree
      BY StandingsOfRows
<1>  QED BY <1>1, AccessTypes, PTL
=============================================================================
