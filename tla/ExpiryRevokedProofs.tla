------------------------ MODULE ExpiryRevokedProofs ------------------------
(* A user the reconciler has stopped working on is let in nowhere: the rest of   *)
(* ExpiryInv, and the theorem about ReconciledMeansRevoked.                      *)
EXTENDS ExpiryProofs

-----------------------------------------------------------------------------
(* Steps that mark nobody and let no expired user in anywhere *)

\* A user's expiry changes only while it has never been marked and no run works on it.
ExpiryKept(u) ==
    \/ user'[u].expires = user[u].expires
    \/ user[u].synced = 0 /\ \A c \in Callers : u \notin run[c].found

NotLetInAnew(u) ==
    IsExpired(u)' => \A n \in Nodes : access'[u][n] = "on" /\ u \in serves'[n]
                        => access[u][n] = "on" /\ u \in serves[n]

Quiet ==
    /\ host' = host /\ now <= now' /\ excused \subseteq excused'
    /\ \A u \in Users : user'[u].synced = user[u].synced
    /\ \A u \in Users \ excused' :
          (user'[u].exists => user[u].exists) /\ ExpiryKept(u) /\ NotLetInAnew(u)
    /\ UnreachableServeNobody'

RowsInv == UnreachableServeNobody /\ MarksArePast /\ MarkedAreRevoked

LocalsInv == RunShape /\ ListedAreExpired /\ LeftoversAreKnown

\* Numbers the rows are made of.
LEMMA RowNumbers ==
    ASSUME TypeOK, NEW u \in Users
    PROVE  now \in Nat /\ user[u].expires \in Nat /\ user[u].expires >= 1
           /\ user[u].synced \in Nat
BY TimeAssumption DEF TypeOK, UserAccessTypeOK, UserRows, Never

LEMMA QuietRows ==
    ASSUME ExpiryInv, TypeOK', Quiet
    PROVE  RowsInv'
<1>1. MarksArePast'
  <2> SUFFICES ASSUME NEW u \in Users PROVE user'[u].synced <= now'
      BY DEF MarksArePast
  <2>1. now' \in Nat
        BY TimeAssumption DEF TypeOK, UserAccessTypeOK
  <2>  QED BY <2>1, RowNumbers DEF ExpiryInv, MarksArePast, Quiet
<1>2. MarkedAreRevoked'
  <2> SUFFICES ASSUME NEW u \in Users \ excused', user'[u].exists, user'[u].expires <= now',
                      user'[u].expires <= user'[u].synced,
                      NEW n \in Nodes, access'[u][n] = "on", u \in serves'[n]
               PROVE  FALSE
      BY DEF MarkedAreRevoked, LetInAnywhere, IsExpired
  <2>1. user'[u].expires \in Nat /\ user'[u].expires >= 1
        BY TimeAssumption DEF TypeOK, UserAccessTypeOK, UserRows, Never
  <2>2. user'[u].synced = user[u].synced /\ u \notin excused /\ user[u].exists
        BY DEF Quiet
  <2>3. user'[u].expires = user[u].expires
        BY <2>1, <2>2 DEF Quiet, ExpiryKept
  <2>4. IsExpired(u)
        BY <2>2, <2>3, RowNumbers DEF ExpiryInv, MarksArePast, IsExpired
  <2>5. access[u][n] = "on" /\ u \in serves[n]
        BY DEF Quiet, NotLetInAnew, IsExpired
  <2>  QED BY <2>2, <2>3, <2>4, <2>5 DEF ExpiryInv, MarkedAreRevoked, LetInAnywhere
<1>  QED BY <1>1, <1>2 DEF RowsInv, Quiet

\* Users a run works on stay expired.
LEMMA QuietKeepsExpired ==
    ASSUME ExpiryInv, TypeOK', Quiet, NEW c \in Callers, NEW u \in run[c].found \ excused'
    PROVE  /\ u \in Users /\ IsExpired(u)'
           /\ \A n \in Nodes : access'[u][n] = "on" /\ u \in serves'[n]
                 => access[u][n] = "on" /\ u \in serves[n]
<1>1. u \in Users /\ u \notin excused
      BY DEF ExpiryInv, TypeOK, Runs, Quiet
<1>2. IsExpired(u) /\ user'[u].expires = user[u].expires
      BY <1>1 DEF ExpiryInv, ListedAreExpired, Quiet, ExpiryKept
<1>3. now' \in Nat
      BY TimeAssumption DEF TypeOK, UserAccessTypeOK
<1>4. IsExpired(u)'
      BY <1>1, <1>2, <1>3, RowNumbers DEF ExpiryInv, IsExpired, Quiet
<1>  QED BY <1>1, <1>4 DEF Quiet, NotLetInAnew

LEMMA QuietLocals ==
    ASSUME ExpiryInv, TypeOK', Quiet, run' = run
    PROVE  LocalsInv'
<1>1. RunShape'
      BY DEF ExpiryInv, RunShape
<1>2. ListedAreExpired'
      BY QuietKeepsExpired DEF ListedAreExpired
<1>3. LeftoversAreKnown'
  <2> SUFFICES ASSUME NEW c \in Callers,
                      NEW u \in run[c].found \ (run[c].todo \cup excused'),
                      NEW n \in Nodes, access'[u][n] = "on", u \in serves'[n]
               PROVE  n \in run[c].usersToNodes[u] /\ n \in run[c].nodes \cup run[c].nodeErrors
      BY DEF LeftoversAreKnown
  <2>1. u \notin excused /\ access[u][n] = "on" /\ u \in serves[n]
        BY QuietKeepsExpired DEF Quiet
  <2>  QED BY <2>1 DEF ExpiryInv, LeftoversAreKnown
<1>  QED BY <1>1, <1>2, <1>3 DEF LocalsInv

\* Rows and history as they were.
LEMMA UnchangedIsQuiet ==
    ASSUME ExpiryInv, host' = host, now' = now, user' = user, access' = access,
           serves' = serves, excused \subseteq excused'
    PROVE  Quiet
BY RowNumbers DEF Quiet, ExpiryKept, NotLetInAnew, ExpiryInv, UnreachableServeNobody,
                  TypeOK, UserAccessTypeOK

-----------------------------------------------------------------------------
(* The locals of a run *)

\* Only one caller has locals worth a word.
LEMMA OthersIdle ==
    ASSUME ExpiryInv, NEW c \in Callers, ~At(c, "idle"), NEW d \in Callers, d # c
    PROVE  run[d].found = {} /\ run[d].todo = {} /\ run[d].pc = "idle"
BY DEF ExpiryInv, OneRunAtATime, RunShape, At

LEMMA NobodyWorks ==
    ASSUME \A d \in Callers : /\ run'[d].found = {} /\ run'[d].todo = {}
                              /\ run'[d].pc \in {"idle", "list"}
    PROVE  LocalsInv'
BY DEF LocalsInv, RunShape, ListedAreExpired, LeftoversAreKnown

LEMMA ReturnLocals ==
    ASSUME ExpiryInv, NEW c \in Callers, ~At(c, "idle"), Return(c)
    PROVE  LocalsInv'
<1>1. run'[c] = IdleRun /\ \A d \in Callers : d # c => run'[d] = run[d]
      BY RunFrame DEF Return, ExpiryInv
<1>  QED BY <1>1, OthersIdle, NobodyWorks DEF IdleRun

\* What a run must know after its step.
LEMMA RunLocals ==
    ASSUME ExpiryInv, NEW c \in Callers, ~At(c, "idle"), NEW state, Goto(c, state),
           state.todo \subseteq state.found,
           state.pc \in {"lookup", "sync", "mark"},
           state.pc \in {"sync", "mark"} => state.todo = {},
           state.pc = "mark" => state.nodes = {},
           \A u \in state.found \ excused' : IsExpired(u)',
           \A u \in state.found \ (state.todo \cup excused') : \A n \in Nodes :
               access'[u][n] = "on" /\ u \in serves'[n] =>
                   n \in state.usersToNodes[u] /\ n \in state.nodes \cup state.nodeErrors
    PROVE  LocalsInv'
<1>1. run'[c] = state /\ \A d \in Callers : d # c => run'[d] = run[d]
      BY RunFrame DEF ExpiryInv
<1>2. RunShape'
      BY <1>1, OthersIdle DEF RunShape
<1>3. ListedAreExpired'
      BY <1>1, OthersIdle DEF ListedAreExpired
<1>4. LeftoversAreKnown'
      BY <1>1, OthersIdle DEF LeftoversAreKnown
<1>  QED BY <1>2, <1>3, <1>4 DEF LocalsInv

-----------------------------------------------------------------------------
(* The steps of a run *)

LEMMA ListStep ==
    ASSUME ExpiryInv, TypeOK', NEW c \in Callers, ListUsers(c) \/ ListFails(c)
    PROVE  RowsInv' /\ LocalsInv'
<1>1. Quiet /\ ~At(c, "idle")
      BY UnchangedIsQuiet DEF ListUsers, ListFails, At
<1>2. CASE Return(c)
      BY <1>1, <1>2, QuietRows, ReturnLocals
<1>3. CASE ListUsers(c) /\ ~Return(c)
  <2> DEFINE found == {u \in UsersPendingExpiryReconcile : NeedsExpirySync(u)}
             state == [run[c] EXCEPT !.pc = "lookup", !.todo = found, !.found = found]
  <2>1. Goto(c, state)
        BY <1>3 DEF ListUsers
  <2>2. state.pc = "lookup" /\ state.todo = found /\ state.found = found
        BY DEF ExpiryInv, TypeOK, Runs
  <2>3. \A u \in found : IsExpired(u)'
        BY <1>3 DEF ListUsers, NeedsExpirySync, IsExpired
  <2> HIDE DEF found, state
  <2>4. LocalsInv'
        BY <1>1, <2>1, <2>2, <2>3, RunLocals
  <2>  QED BY <1>1, <2>4, QuietRows
<1>  QED BY <1>2, <1>3 DEF ListFails

LEMMA LookUpStep ==
    ASSUME ExpiryInv, TypeOK', NEW c \in Callers, LookUpNodes(c) \/ LookUpFails(c)
    PROVE  RowsInv' /\ LocalsInv'
<1>1. PICK u \in run[c].todo, nodeIDs \in SUBSET Nodes :
          /\ LookedUp(c, u, nodeIDs)
          /\ nodeIDs = ActiveNodeIDsForExpiredUser(u) \/ u \in excused'
      BY DEF LookUpNodes, LookUpFails, Excuse, ActiveNodeIDsForExpiredUser
<1>2. /\ At(c, "lookup") /\ host' = host /\ now' = now /\ user' = user /\ access' = access
      /\ serves' = serves /\ excused \subseteq excused'
      BY DEF LookUpNodes, LookUpFails, Excuse
<1>3. Quiet /\ ~At(c, "idle")
      BY <1>2, UnchangedIsQuiet DEF At
<1> DEFINE state == [run[c] EXCEPT
               !.todo = @ \ {u},
               !.usersToNodes[u] = nodeIDs,
               !.nodes = @ \cup nodeIDs,
               !.pc = IF run[c].todo # {u} THEN "lookup"
                      ELSE IF run[c].nodes \cup nodeIDs = {} THEN "mark" ELSE "sync"]
<1>4. Goto(c, state)
      BY <1>1 DEF LookedUp
<1>5. run[c] \in Runs /\ run[c].todo \subseteq run[c].found
      BY DEF ExpiryInv, TypeOK, RunShape
<1>6. u \in Users
      BY <1>5 DEF Runs
<1>7. /\ state.todo = run[c].todo \ {u} /\ state.found = run[c].found
      /\ state.usersToNodes = [run[c].usersToNodes EXCEPT ![u] = nodeIDs]
      /\ state.nodes = run[c].nodes \cup nodeIDs /\ state.nodeErrors = run[c].nodeErrors
      /\ state.pc = IF run[c].todo # {u} THEN "lookup"
                    ELSE IF run[c].nodes \cup nodeIDs = {} THEN "mark" ELSE "sync"
      BY <1>5 DEF Runs
<1> HIDE DEF state
<1>8. \A v \in state.found \ excused' : IsExpired(v)'
      BY <1>3, <1>7, QuietKeepsExpired
<1>9. ASSUME NEW v \in state.found \ (state.todo \cup excused'), NEW n \in Nodes,
             access'[v][n] = "on", v \in serves'[n]
      PROVE  n \in state.usersToNodes[v] /\ n \in state.nodes \cup state.nodeErrors
  <2>1. v \in Users /\ v \notin excused
        BY <1>2, <1>5, <1>7 DEF Runs
  <2>2. CASE v = u
    <3>1. host[n].api
          BY <1>2, <1>9 DEF ExpiryInv, UnreachableServeNobody
    <3>2. n \in nodeIDs
          BY <1>1, <1>2, <1>9, <2>2, <3>1 DEF ActiveNodeIDsForExpiredUser
    <3>  QED BY <1>5, <1>6, <1>7, <2>2, <3>2 DEF Runs
  <2>3. CASE v # u
    <3>1. v \in run[c].found \ (run[c].todo \cup excused)
          BY <1>7, <2>1, <2>3
    <3>2. n \in run[c].usersToNodes[v] /\ n \in run[c].nodes \cup run[c].nodeErrors
          BY <1>2, <1>9, <3>1 DEF ExpiryInv, LeftoversAreKnown
    <3>  QED BY <1>5, <1>7, <2>1, <2>3, <3>2 DEF Runs
  <2>  QED BY <2>2, <2>3
<1>10. LocalsInv'
  <2>1. /\ state.todo \subseteq state.found
        /\ state.pc \in {"lookup", "sync", "mark"}
        /\ state.pc \in {"sync", "mark"} => state.todo = {}
        /\ state.pc = "mark" => state.nodes = {}
        BY <1>5, <1>7
  <2>  QED BY <1>3, <1>4, <1>8, <1>9, <2>1, RunLocals
<1>  QED BY <1>3, <1>10, QuietRows

\* A sync lets no expired user in, and a successful one lets the others out.
LEMMA SyncIsQuiet ==
    ASSUME ExpiryInv, NEW n \in Nodes, NEW ok \in BOOLEAN, SyncNode(n, ok),
           host' = host, now' = now, user' = user, access' = access, excused' = excused
    PROVE  /\ Quiet
           /\ ok => \A u \in Users : IsExpired(u) => u \notin serves'[n]
<1>1. serves \in [Nodes -> SUBSET Users] /\ now \in Nat
      BY TimeAssumption DEF ExpiryInv, TypeOK, UserAccessTypeOK
<1>2. CASE host[n].api /\ serves' = [serves EXCEPT ![n] = ActiveAccessForNode(n)]
  <2>1. \A m \in Nodes : serves'[m] = IF m = n THEN ActiveAccessForNode(n) ELSE serves[m]
        BY <1>1, <1>2
  <2>2. \A u \in Users : IsExpired(u) => u \notin ActiveAccessForNode(n)
        BY DEF ActiveAccessForNode, MustBeServed
  <2>3. \A u \in Users : NotLetInAnew(u)
        BY <2>1, <2>2 DEF NotLetInAnew, IsExpired
  <2>4. UnreachableServeNobody'
        BY <1>2, <2>1 DEF ExpiryInv, UnreachableServeNobody
  <2>5. Quiet
        BY <1>1, <2>3, <2>4 DEF Quiet, ExpiryKept
  <2>  QED BY <2>1, <2>2, <2>5
<1>3. CASE ~ok /\ serves' = serves
      BY <1>3, UnchangedIsQuiet
<1>  QED BY <1>2, <1>3 DEF SyncNode

LEMMA SyncStep ==
    ASSUME ExpiryInv, TypeOK', NEW c \in Callers, SyncOneNode(c)
    PROVE  RowsInv' /\ LocalsInv'
<1>1. PICK n \in run[c].nodes, ok \in BOOLEAN :
          /\ SyncNode(n, ok)
          /\ Goto(c, [run[c] EXCEPT
                        !.nodes = @ \ {n},
                        !.nodeErrors = IF ok THEN @ ELSE @ \cup {n},
                        !.pc = IF run[c].nodes = {n} THEN "mark" ELSE "sync"])
      BY DEF SyncOneNode
<1>2. /\ At(c, "sync") /\ host' = host /\ now' = now /\ user' = user /\ access' = access
      /\ excused' = excused
      BY DEF SyncOneNode
<1>3. run[c] \in Runs /\ n \in Nodes
      BY DEF ExpiryInv, TypeOK, Runs
<1>4. Quiet /\ (ok => \A u \in Users : IsExpired(u) => u \notin serves'[n])
      BY <1>1, <1>2, <1>3, SyncIsQuiet
<1> DEFINE state == [run[c] EXCEPT !.nodes = @ \ {n},
                       !.nodeErrors = IF ok THEN @ ELSE @ \cup {n},
                       !.pc = IF run[c].nodes = {n} THEN "mark" ELSE "sync"]
<1>5. /\ state.todo = run[c].todo /\ state.found = run[c].found
      /\ state.usersToNodes = run[c].usersToNodes
      /\ state.nodes = run[c].nodes \ {n}
      /\ state.nodeErrors = IF ok THEN run[c].nodeErrors ELSE run[c].nodeErrors \cup {n}
      /\ state.pc = IF run[c].nodes = {n} THEN "mark" ELSE "sync"
      BY <1>3 DEF Runs
<1>6. Goto(c, state)
      BY <1>1
<1> HIDE DEF state
<1>7. run[c].todo = {} /\ ~At(c, "idle")
      BY <1>2 DEF ExpiryInv, RunShape, At
<1>8. \A u \in state.found \ excused' : IsExpired(u)'
      BY <1>4, <1>5, QuietKeepsExpired
<1>9. ASSUME NEW u \in state.found \ (state.todo \cup excused'), NEW m \in Nodes,
             access'[u][m] = "on", u \in serves'[m]
      PROVE  m \in state.usersToNodes[u] /\ m \in state.nodes \cup state.nodeErrors
  <2>1. access[u][m] = "on" /\ u \in serves[m] /\ u \in Users
        BY <1>4, <1>5, <1>9, QuietKeepsExpired
  <2>2. m \in run[c].usersToNodes[u] /\ m \in run[c].nodes \cup run[c].nodeErrors
        BY <1>2, <1>5, <1>7, <1>9, <2>1 DEF ExpiryInv, LeftoversAreKnown
  <2>3. CASE m = n
    <3>1. IsExpired(u)
          BY <1>2, <1>5, <1>9 DEF ExpiryInv, ListedAreExpired
    <3>2. ~ok
          BY <1>4, <1>9, <2>1, <2>3, <3>1
    <3>  QED BY <1>5, <2>2, <2>3, <3>2
  <2>4. CASE m # n
        BY <1>5, <2>2, <2>4
  <2>  QED BY <2>3, <2>4
<1>10. LocalsInv'
  <2>1. /\ state.todo \subseteq state.found
        /\ state.pc \in {"lookup", "sync", "mark"}
        /\ state.pc \in {"sync", "mark"} => state.todo = {}
        /\ state.pc = "mark" => state.nodes = {}
        BY <1>5, <1>7
  <2>  QED BY <1>6, <1>7, <1>8, <1>9, <2>1, RunLocals
<1>  QED BY <1>4, <1>10, QuietRows

LEMMA MarkStep ==
    ASSUME ExpiryInv, TypeOK', NEW c \in Callers, MarkUser(c)
    PROVE  RowsInv' /\ LocalsInv'
<1>1. PICK u \in run[c].found :
          /\ (AllSynced(c, u) /\ MarkExpirySynced(u)) \/ user' = user
          /\ \/ Return(c)
             \/ Goto(c, [run[c] EXCEPT !.found = @ \ {u}])
      BY DEF MarkUser
<1>2. /\ At(c, "mark") /\ now' = now /\ access' = access /\ host' = host
      /\ serves' = serves /\ excused' = excused
      BY DEF MarkUser
<1>3. /\ run[c] \in Runs /\ u \in Users /\ ~At(c, "idle")
      /\ run[c].todo = {} /\ run[c].nodes = {}
      BY <1>2 DEF ExpiryInv, TypeOK, Runs, RunShape, At
<1>4. \A v \in Users : user'[v].expires = user[v].expires /\ user'[v].exists = user[v].exists
      BY <1>1, <1>3 DEF MarkExpirySynced, ExpiryInv, TypeOK, UserAccessTypeOK, UserRows
<1>5. LocalsInv'
  <2>1. CASE Return(c)
        BY <1>3, <2>1, ReturnLocals
  <2>2. CASE Goto(c, [run[c] EXCEPT !.found = @ \ {u}])
    <3> DEFINE state == [run[c] EXCEPT !.found = @ \ {u}]
    <3>1. /\ state.todo = {} /\ state.found = run[c].found \ {u} /\ state.pc = "mark"
          /\ state.usersToNodes = run[c].usersToNodes /\ state.nodes = {}
          /\ state.nodeErrors = run[c].nodeErrors
          BY <1>2, <1>3 DEF Runs, At
    <3>2. Goto(c, state)
          BY <2>2
    <3> HIDE DEF state
    <3>3. \A v \in state.found \ excused' : IsExpired(v)'
          BY <1>2, <1>3, <1>4, <3>1 DEF ExpiryInv, ListedAreExpired, IsExpired, Runs
    <3>4. \A v \in state.found \ (state.todo \cup excused') : \A n \in Nodes :
              access'[v][n] = "on" /\ v \in serves'[n] =>
                  n \in state.usersToNodes[v] /\ n \in state.nodes \cup state.nodeErrors
          BY <1>2, <1>3, <3>1 DEF ExpiryInv, LeftoversAreKnown
    <3>  QED BY <1>3, <3>1, <3>2, <3>3, <3>4, RunLocals
  <2>  QED BY <1>1, <2>1, <2>2
<1>6. RowsInv'
  <2>1. CASE user' = user
        BY <1>2, <2>1, UnchangedIsQuiet, QuietRows
  <2>2. CASE AllSynced(c, u) /\ MarkExpirySynced(u)
    <3>1. \A v \in Users : v # u => user'[v] = user[v]
          BY <2>2 DEF MarkExpirySynced, ExpiryInv, TypeOK, UserAccessTypeOK
    <3>2. user'[u].synced = now \/ user'[u].synced = user[u].synced
          BY <1>3, <2>2 DEF MarkExpirySynced, ExpiryInv, TypeOK, UserAccessTypeOK, UserRows
    <3>3. MarksArePast'
          BY <1>2, <3>1, <3>2, RowNumbers DEF ExpiryInv, MarksArePast
    <3>4. u \notin excused => ~LetInAnywhere(u)
          BY <1>3, <2>2 DEF ExpiryInv, LeftoversAreKnown, LetInAnywhere, AllSynced
    <3>5. MarkedAreRevoked'
          BY <1>2, <1>4, <3>1, <3>4 DEF ExpiryInv, MarkedAreRevoked, LetInAnywhere, IsExpired
    <3>6. UnreachableServeNobody'
          BY <1>2 DEF ExpiryInv, UnreachableServeNobody
    <3>  QED BY <3>3, <3>5, <3>6 DEF RowsInv
  <2>  QED BY <1>1, <2>1, <2>2
<1>  QED BY <1>5, <1>6

-----------------------------------------------------------------------------
(* The steps around it *)

LEMMA AdministerIsQuiet ==
    ASSUME ExpiryInv, Administer
    PROVE  Quiet
<1>1. PICK u \in Users : SetUserEnabled(u) \/ EditUser(u) \/ DeleteUser(u) \/ ChangeAccess(u)
      BY DEF Administer
<1>2. /\ user \in [Users -> UserRows] /\ access \in [Users -> [Nodes -> AccessRows]]
      /\ now \in Nat
      BY TimeAssumption DEF ExpiryInv, TypeOK, UserAccessTypeOK
<1>3. host' = host /\ now' = now /\ serves' = serves /\ UnreachableServeNobody'
      BY DEF Administer, ExpiryInv, UnreachableServeNobody
<1>4. ASSUME \A v \in Users : user'[v].synced = user[v].synced,
             excused \subseteq excused',
             \A v \in Users \ excused' : /\ user'[v].exists => user[v].exists
                                         /\ ExpiryKept(v) /\ NotLetInAnew(v)
      PROVE  Quiet
      BY <1>2, <1>3, <1>4 DEF Quiet
<1>5. ASSUME access' = access PROVE \A v \in Users : NotLetInAnew(v)
      BY <1>3, <1>5 DEF NotLetInAnew
<1>6. CASE SetUserEnabled(u)
  <2>1. \A v \in Users : /\ user'[v].synced = user[v].synced
                         /\ user'[v].expires = user[v].expires
                         /\ user'[v].exists = user[v].exists
        BY <1>2, <1>6 DEF SetUserEnabled, SetEnabled, UserRows
  <2>  QED BY <1>4, <1>5, <1>6, <2>1 DEF SetUserEnabled, ExpiryKept
<1>7. CASE EditUser(u)
  <2>1. PICK enabled \in BOOLEAN, expires \in 1..Never : UpdateUserRow(u, enabled, expires)
        BY <1>7 DEF EditUser
  <2>2. user'[u] = [user[u] EXCEPT !.enabled = enabled, !.expires = expires]
        BY <1>2, <2>1 DEF UpdateUserRow
  <2>3. \A v \in Users : v # u => user'[v] = user[v]
        BY <1>2, <2>1 DEF UpdateUserRow
  <2>4. user[u] \in UserRows
        BY <1>2
  <2>5. user'[u].synced = user[u].synced /\ user'[u].exists = user[u].exists
        BY <2>2, <2>4 DEF UserRows
  <2>6. excused \subseteq excused' /\ (u \notin excused' => ExpiryKept(u))
    <3>1. user[u].synced \in Nat
          BY RowNumbers DEF ExpiryInv
    <3>  QED BY <1>7, <3>1 DEF EditUser, Excuse, ExpiryKept
  <2>7. \A v \in Users \ excused' : ExpiryKept(v)
        BY <2>3, <2>6 DEF ExpiryKept
  <2>8. access' = access
        BY <1>7 DEF EditUser
  <2>  QED BY <1>4, <1>5, <2>3, <2>5, <2>6, <2>7, <2>8
<1>8. CASE DeleteUser(u)
  <2>1. \A v \in Users : /\ user'[v].synced = user[v].synced
                         /\ user'[v].expires = user[v].expires
                         /\ user'[v].exists => user[v].exists
        BY <1>2, <1>8 DEF DeleteUser, DeleteUserRow, UserRows
  <2>2. \A v \in Users, n \in Nodes : access'[v][n] = "on" => access[v][n] = "on"
        BY <1>2, <1>8 DEF DeleteUser, DeleteUserRow
  <2>3. \A v \in Users : NotLetInAnew(v)
        BY <1>3, <2>2 DEF NotLetInAnew
  <2>4. \A v \in Users : ExpiryKept(v)
        BY <2>1 DEF ExpiryKept
  <2>  QED BY <1>4, <1>8, <2>1, <2>3, <2>4 DEF DeleteUser
<1>9. CASE ChangeAccess(u)
  <2>1. PICK n \in Nodes, row \in AccessRows :
          /\ SetAccess(u, n, row)
          /\ IF row = "on" /\ IsExpired(u) THEN Excuse(u) ELSE excused' = excused
        BY <1>9 DEF ChangeAccess
  <2>2. user' = user
        BY <1>9 DEF ChangeAccess
  <2>3. \A v \in Users, m \in Nodes :
            access'[v][m] = IF v = u /\ m = n THEN row ELSE access[v][m]
        BY <1>2, <2>1 DEF SetAccess
  <2>4. excused \subseteq excused'
        BY <2>1 DEF Excuse
  <2>5. ASSUME NEW v \in Users \ excused' PROVE NotLetInAnew(v)
    <3>1. SUFFICES ASSUME user[v].expires <= now, NEW m \in Nodes, access'[v][m] = "on"
                   PROVE  access[v][m] = "on"
          BY <1>3, <2>2 DEF NotLetInAnew, IsExpired
    <3>2. ~(v = u /\ row = "on")
          BY <2>1, <3>1 DEF Excuse, IsExpired
    <3>  QED BY <2>3, <3>1, <3>2
  <2>  QED BY <1>4, <2>2, <2>4, <2>5 DEF ExpiryKept
<1>  QED BY <1>1, <1>6, <1>7, <1>8, <1>9

LEMMA TickIsQuiet ==
    ASSUME ExpiryInv, Tick
    PROVE  Quiet
<1>1. now \in Nat
      BY TimeAssumption DEF ExpiryInv, TypeOK, UserAccessTypeOK
<1>  QED BY <1>1 DEF Tick, Quiet, ExpiryKept, NotLetInAnew, ExpiryInv, UnreachableServeNobody

\* A run that has just begun knows nothing yet.
LEMMA AcquireStep ==
    ASSUME ExpiryInv, TypeOK', NEW c \in Callers, TryAcquire(c),
           host' = host, now' = now, user' = user, access' = access,
           serves' = serves, excused' = excused
    PROVE  RowsInv' /\ LocalsInv'
<1>1. Quiet
      BY UnchangedIsQuiet
<1>2. CASE running
      BY <1>1, <1>2, QuietRows, QuietLocals DEF TryAcquire
<1>3. CASE ~running
  <2>1. run'[c] = [IdleRun EXCEPT !.pc = "list"] /\ \A d \in Callers : d # c => run'[d] = run[d]
        BY <1>3, RunFrame DEF TryAcquire, ExpiryInv
  <2>2. \A d \in Callers : run[d].found = {} /\ run[d].todo = {} /\ run[d].pc = "idle"
        BY <1>3 DEF ExpiryInv, OneRunAtATime, RunShape, At
  <2>3. LocalsInv'
        BY <2>1, <2>2, NobodyWorks DEF IdleRun
  <2>  QED BY <1>1, <2>3, QuietRows
<1>  QED BY <1>2, <1>3

LEMMA ExpiryInvNext == ExpiryInv /\ [Next]_vars => ExpiryInv'
<1> SUFFICES ASSUME ExpiryInv, [Next]_vars PROVE ExpiryInv'
    OBVIOUS
<1>1. TypeOK' /\ OneRunAtATime'
      BY TypeNext, OneRunNext DEF ExpiryInv
<1>2. RowsInv' /\ LocalsInv'
  <2>1. ASSUME Quiet, run' = run PROVE RowsInv' /\ LocalsInv'
        BY <1>1, <2>1, QuietRows, QuietLocals
  <2>2. CASE UNCHANGED vars \/ CalmDown
    <3>1. Quiet /\ run' = run
          BY <2>2, UnchangedIsQuiet DEF vars, CalmDown
    <3>  QED BY <2>1, <3>1
  <2>3. CASE TickerFires
        BY <1>1, <2>3, AcquireStep DEF TickerFires, Callers
  <2>4. ASSUME NEW c \in Requests, RunOnce(c) PROVE RowsInv' /\ LocalsInv'
        BY <1>1, <2>4, AcquireStep DEF RunOnce, Callers
  <2>5. ASSUME NEW c \in Callers, Step(c) PROVE RowsInv' /\ LocalsInv'
        BY <1>1, <2>5, ListStep, LookUpStep, SyncStep, MarkStep DEF Step
  <2>6. CASE Tick
        BY <2>1, <2>6, TickIsQuiet DEF Tick
  <2>7. CASE Administer
        BY <2>1, <2>7, AdministerIsQuiet DEF Administer
  <2>8. CASE OtherSync
    <3>1. PICK n \in Nodes, ok \in BOOLEAN : SyncNode(n, ok)
          BY <2>8 DEF OtherSync
    <3>2. Quiet /\ run' = run
          BY <2>8, <3>1, SyncIsQuiet DEF OtherSync
    <3>  QED BY <2>1, <3>2
  <2>9. CASE Restart
    <3>1. Quiet
          BY <2>9, UnchangedIsQuiet DEF Restart
    <3>2. LocalsInv'
          BY <2>9, NobodyWorks DEF Restart, IdleRun
    <3>  QED BY <1>1, <3>1, <3>2, QuietRows
  <2>  QED BY <2>2, <2>3, <2>4, <2>5, <2>6, <2>7, <2>8, <2>9 DEF Next
<1>  QED BY <1>1, <1>2 DEF ExpiryInv, RowsInv, LocalsInv

LEMMA ExpiryInvInit == Init => ExpiryInv
<1> SUFFICES ASSUME Init PROVE ExpiryInv
    OBVIOUS
<1>1. TypeOK /\ OneRunAtATime
      BY TypeInit, OneRunInit
<1>2. RunShape /\ ListedAreExpired /\ LeftoversAreKnown
      BY DEF Init, IdleRun, RunShape, ListedAreExpired, LeftoversAreKnown
<1>3. UnreachableServeNobody
      BY DEF Init, UnreachableServeNobody
<1>4. \A u \in Users : user[u].synced = 0 /\ user[u].expires >= 1
      BY <1>1, RowNumbers DEF Init
<1>5. MarksArePast
  <2>1. now = 0
        BY DEF Init
  <2>2. ASSUME NEW u \in Users PROVE user[u].synced <= now
    <3>1. user[u].synced = 0
          BY <1>4
    <3>  QED BY <2>1, <3>1
  <2>  QED BY <2>2 DEF MarksArePast
<1>6. MarkedAreRevoked
      BY <1>1, <1>4, RowNumbers DEF MarkedAreRevoked
<1>  QED BY <1>1, <1>2, <1>3, <1>5, <1>6 DEF ExpiryInv

\* ExpiryInv: the inductive invariant, with what a run's locals say about the nodes.
THEOREM ExpiryInvariantHolds == Spec => []ExpiryInv
BY ExpiryInvInit, ExpiryInvNext, PTL DEF Spec

\* ReconciledMeansRevoked: a user the reconciler has stopped working on is let in by no
\* node it is assigned to.
THEOREM ReconciledUsersAreRevoked == Spec => []ReconciledMeansRevoked
<1>1. ASSUME ExpiryInv PROVE ReconciledMeansRevoked
  <2> SUFFICES ASSUME NEW u \in Users \ excused, Reconciled(u) PROVE ~LetInAnywhere(u)
      BY DEF ReconciledMeansRevoked
  <2>1. user[u].expires <= user[u].synced
        BY <1>1, RowNumbers DEF Reconciled, UsersPendingExpiryReconcile, ExpiryInv
  <2>  QED BY <1>1, <2>1 DEF ExpiryInv, MarkedAreRevoked, Reconciled
<1>  QED BY <1>1, ExpiryInvariantHolds, PTL
=============================================================================
