--------------------------- MODULE TelemetryProofs ---------------------------
(* PoolInv is an inductive invariant of Telemetry, and Telemetry implements *)
(* TelemetryPromise, for any users, nodes, names and any number of workers.      *)
EXTENDS TelemetryInvariant, FiniteSetTheorems, TLAPS

-----------------------------------------------------------------------------
(* Entries *)

LEMMA EntryIsWritten ==
    ASSUME NEW e \in Entries
    PROVE  e # NoEntry
<1>1. e.status # "none"
      BY DEF Entries, Statuses
<1>2. NoEntry.status = "none"
      BY DEF NoEntry
<1>  QED BY <1>1, <1>2

LEMMA EntryTyped ==
    ASSUME NEW status \in Statuses, NEW reason \in Kinds \cup {""}, NEW error \in BOOLEAN
    PROVE  Entry(status, reason, error) \in Entries
BY DEF Entry, Entries

LEMMA AnsweredTyped ==
    ASSUME NEW status \in Statuses, NEW w \in {"none", "blank", "some"}, NEW S \in SUBSET Sessions
    PROVE  Answered(status, w, S) \in Entries
BY DEF Answered, Entries

\* Whatever an agent answers, fits or not, makes an entry.
LEMMA AnswersAreEntries ==
    ASSUME NEW n \in Nodes
    PROVE  AgentAnswers(n) \subseteq Entries
<1>1. CASE n \in Busy
      BY <1>1, AnsweredTyped DEF AgentAnswers, Statuses
<1>2. CASE n \notin Busy
  <2>1. \A status : NormalizedCollectorStatus(status) \in Statuses
        BY DEF NormalizedCollectorStatus, Statuses
  <2>  QED BY <1>2, <2>1, AnsweredTyped DEF AgentAnswers
<1>  QED BY <1>1, <1>2

LEMMA CanceledFits ==
    ASSUME NEW n \in Nodes, NEW k \in Kinds
    PROVE  Canceled \in Fitting(n, k) /\ CallFailed \in Fitting(n, k) /\ Canceled \in Entries
<1>1. Canceled \in Entries
      BY EntryTyped DEF Canceled, Statuses
<1>  QED BY <1>1 DEF Fitting, Canceled, CallFailed

LEMMA FittingIsEntry ==
    ASSUME NEW n \in Nodes, NEW k \in Kinds
    PROVE  Fitting(n, k) \subseteq Entries
<1>1. Skipped(k) \in Entries
      BY EntryTyped DEF Skipped, Statuses
<1>  QED BY <1>1, CanceledFits, AnswersAreEntries DEF Fitting

-----------------------------------------------------------------------------
(* The initial state *)

LEMMA PoolInit == Init => PoolInv
<1> SUFFICES ASSUME Init PROVE PoolInv
    OBVIOUS
<1>1. page.what \in {"node", "user", "all"} /\ page.todo = Reads(page.what)
      BY DEF Init
<1>2. Reads(page.what) \in Seq({"getNode", "getUser", "userLookups", "listNodes", "listUsers",
                               "nodeLookups"})
  <2>1. CASE page.what = "node"
        BY <2>1 DEF Reads
  <2>2. CASE page.what = "user"
        BY <2>2 DEF Reads
  <2>3. CASE page.what = "all"
        BY <2>3 DEF Reads
  <2>  QED BY <1>1, <2>1, <2>2, <2>3
<1>3. page \in Pages /\ page.state = "asking" /\ page.targets = {}
      BY <1>1, <1>2 DEF Init, Pages
<1>4. \A u \in Users, n \in Nodes : name[u][n] # NoName => u \in users /\ n \in nodes
      BY DEF Init
<1>5. result \in [Nodes -> Entries \cup {NoEntry}]
      BY DEF Init
<1>6. changes \in 0..MaxChanges
      BY TelemetryAssumption DEF Init
<1>  QED BY <1>3, <1>4, <1>5, <1>6 DEF Init, PoolInv, TypeOK, SlotsShared

-----------------------------------------------------------------------------
(* What others change *)

\* A change of users, nodes and names leaves page and slots alone.
LEMMA ChangedKeepsInv ==
    ASSUME PoolInv, NEW S \in SUBSET Nodes, Changed(S),
           users' \subseteq Users, nodes' \subseteq Nodes,
           name' \in [Users -> [Nodes -> Names \cup {NoName}]],
           \A u \in Users, n \in Nodes : name'[u][n] # NoName => u \in users' /\ n \in nodes'
    PROVE  PoolInv'
<1> USE DEF PoolInv, Changed, pool
<1>1. changes' \in 0..MaxChanges
      BY TelemetryAssumption DEF TypeOK
<1>2. TypeOK'
      BY <1>1 DEF TypeOK
<1>3. SlotsShared'
      BY DEF SlotsShared
<1>  QED BY <1>2, <1>3

LEMMA CreateKeepsInv ==
    ASSUME PoolInv, NEW u \in Users, CreateUser(u)
    PROVE  PoolInv'
<1>1. PICK row \in [nodes -> Names \cup {NoName}] :
          /\ name' = [name EXCEPT ![u] = [n \in Nodes |-> IF n \in nodes THEN row[n] ELSE NoName]]
          /\ Changed({n \in nodes : row[n] # NoName})
      BY DEF CreateUser
<1>2. users' = users \cup {u} /\ nodes' = nodes
      BY DEF CreateUser
<1>3. [n \in Nodes |-> IF n \in nodes THEN row[n] ELSE NoName] \in [Nodes -> Names \cup {NoName}]
      OBVIOUS
<1>4. name' \in [Users -> [Nodes -> Names \cup {NoName}]]
      BY <1>1, <1>3 DEF PoolInv, TypeOK
<1>5. ASSUME NEW v \in Users, NEW n \in Nodes, name'[v][n] # NoName
      PROVE  v \in users' /\ n \in nodes'
  <2>1. CASE v = u
    <3>1. name'[u] = [m \in Nodes |-> IF m \in nodes THEN row[m] ELSE NoName]
          BY <1>1 DEF PoolInv, TypeOK
    <3>  QED BY <1>2, <1>5, <2>1, <3>1
  <2>2. CASE v # u
        BY <1>1, <1>2, <1>5, <2>2 DEF PoolInv, TypeOK
  <2>  QED BY <2>1, <2>2
<1>6. users' \subseteq Users /\ nodes' \subseteq Nodes /\ {n \in nodes : row[n] # NoName} \subseteq Nodes
      BY <1>2 DEF PoolInv, TypeOK
<1>  QED BY <1>1, <1>4, <1>5, <1>6, ChangedKeepsInv

LEMMA DeleteKeepsInv ==
    ASSUME PoolInv, NEW u \in Users, DeleteUser(u)
    PROVE  PoolInv'
<1>1. /\ name' = [name EXCEPT ![u] = [n \in Nodes |-> NoName]]
      /\ users' = users \ {u} /\ nodes' = nodes
      /\ Changed({n \in Nodes : name[u][n] # NoName})
      BY DEF DeleteUser
<1>2. name' \in [Users -> [Nodes -> Names \cup {NoName}]]
      BY <1>1 DEF PoolInv, TypeOK
<1>3. ASSUME NEW v \in Users, NEW n \in Nodes, name'[v][n] # NoName
      PROVE  v \in users' /\ n \in nodes'
  <2>1. v # u
        BY <1>1, <1>3 DEF PoolInv, TypeOK
  <2>  QED BY <1>1, <1>3, <2>1 DEF PoolInv, TypeOK
<1>4. users' \subseteq Users /\ nodes' \subseteq Nodes
      BY <1>1 DEF PoolInv, TypeOK
<1>  QED BY <1>1, <1>2, <1>3, <1>4, ChangedKeepsInv

LEMMA AssignKeepsInv ==
    ASSUME PoolInv, NEW u \in Users, NEW n \in Nodes, NEW x \in Names \cup {NoName},
           AssignNode(u, n, x)
    PROVE  PoolInv'
<1>1. /\ name' = [name EXCEPT ![u][n] = x] /\ u \in users /\ n \in nodes
      /\ users' = users /\ nodes' = nodes
      /\ Changed({n})
      BY DEF AssignNode
<1>2. name' \in [Users -> [Nodes -> Names \cup {NoName}]]
      BY <1>1 DEF PoolInv, TypeOK
<1>3. ASSUME NEW v \in Users, NEW m \in Nodes, name'[v][m] # NoName
      PROVE  v \in users' /\ m \in nodes'
      BY <1>1, <1>3 DEF PoolInv, TypeOK
<1>4. users' \subseteq Users /\ nodes' \subseteq Nodes
      BY <1>1 DEF PoolInv, TypeOK
<1>  QED BY <1>1, <1>2, <1>3, <1>4, ChangedKeepsInv

LEMMA DeleteNodeKeepsInv ==
    ASSUME PoolInv, NEW n \in Nodes, DeleteNode(n)
    PROVE  PoolInv'
<1>1. /\ name' = [u \in Users |-> [name[u] EXCEPT ![n] = NoName]]
      /\ users' = users /\ nodes' = nodes \ {n}
      /\ Changed({n})
      BY DEF DeleteNode
<1>2. name' \in [Users -> [Nodes -> Names \cup {NoName}]]
      BY <1>1 DEF PoolInv, TypeOK
<1>3. ASSUME NEW v \in Users, NEW m \in Nodes, name'[v][m] # NoName
      PROVE  v \in users' /\ m \in nodes'
      BY <1>1, <1>3 DEF PoolInv, TypeOK
<1>4. users' \subseteq Users /\ nodes' \subseteq Nodes
      BY <1>1 DEF PoolInv, TypeOK
<1>  QED BY <1>1, <1>2, <1>3, <1>4, ChangedKeepsInv

LEMMA OthersKeepInv ==
    ASSUME PoolInv, Others
    PROVE  PoolInv'
BY CreateKeepsInv, DeleteKeepsInv, AssignKeepsInv, DeleteNodeKeepsInv DEF Others

-----------------------------------------------------------------------------
(* The reads *)

\* While the page reads, it may turn to other nodes: no slot is in use.
LEMMA ReaderKeepsInv ==
    ASSUME PoolInv, page.state = "asking", UNCHANGED <<db, pool>>,
           page' \in Pages, page'.state \in {"asking", "failed"}
    PROVE  PoolInv'
<1> USE DEF PoolInv, db, pool
<1>1. left = {} /\ working = {}
      BY DEF SlotsShared
<1>2. TypeOK'
      BY <1>1 DEF TypeOK
<1>3. SlotsShared'
      BY <1>1 DEF SlotsShared
<1>  QED BY <1>2, <1>3

LEMMA FailedKeepsInv ==
    ASSUME PoolInv, page.state = "asking", UNCHANGED <<db, pool>>,
           page' = [page EXCEPT !.state = "failed"]
    PROVE  PoolInv' /\ page'.state = "failed" /\ page'.targets = page.targets
<1>1. page' \in Pages /\ page'.state = "failed" /\ page'.targets = page.targets
      BY DEF PoolInv, TypeOK, Pages
<1>  QED BY <1>1, ReaderKeepsInv

LEMMA GotKeepsInv ==
    ASSUME PoolInv, page.state = "asking", page.todo # <<>>, UNCHANGED <<db, pool>>,
           NEW p \in Pages, p.state = "asking", p.todo = page.todo, Got(p)
    PROVE  PoolInv' /\ page'.state = "asking" /\ page'.targets \in SUBSET Nodes
<1>1. Tail(p.todo) \in Seq({"getNode", "getUser", "userLookups", "listNodes", "listUsers",
                            "nodeLookups"})
      BY DEF Pages
<1>2. page' \in Pages /\ page'.state = "asking" /\ page'.targets = p.targets
      BY <1>1 DEF Got, Pages
<1>3. page'.targets \in SUBSET Nodes
      BY <1>2 DEF Pages
<1>  QED BY <1>2, <1>3, ReaderKeepsInv

\* A step that reads: the statements of a page, one by one.
ReadStep ==
    \/ GetUser \/ ListUsers \/ GetNode \/ SessionLookupForUser \/ ListNodes
    \/ SessionLookupForNodes

LEMMA ReadStepKeepsInv ==
    ASSUME PoolInv, ReadStep
    PROVE  /\ PoolInv' /\ page.state = "asking" /\ UNCHANGED <<db, pool>>
           /\ page'.state \in {"asking", "failed"} /\ page'.targets \in SUBSET Nodes
           /\ page'.state = "failed" => page'.targets = page.targets
<1> DEFINE Q == /\ PoolInv' /\ page.state = "asking" /\ UNCHANGED <<db, pool>>
                /\ page'.state \in {"asking", "failed"} /\ page'.targets \in SUBSET Nodes
                /\ page'.state = "failed" => page'.targets = page.targets
<1>0. page.state = "asking" /\ page.todo # <<>> /\ UNCHANGED <<db, pool>>
      BY DEF ReadStep, GetUser, ListUsers, GetNode, SessionLookupForUser, ListNodes,
             SessionLookupForNodes, Read
<1>t. page \in Pages /\ users \subseteq Users /\ nodes \subseteq Nodes
      BY DEF PoolInv, TypeOK
<1>f. ASSUME page' = [page EXCEPT !.state = "failed"] PROVE Q
  <2>1. page.targets \in SUBSET Nodes
        BY <1>t DEF Pages
  <2>  QED BY <1>0, <1>f, <2>1, FailedKeepsInv
<1>g. ASSUME NEW p \in Pages, p.state = "asking", p.todo = page.todo, Got(p) PROVE Q
      BY <1>0, <1>g, GotKeepsInv
<1>1. CASE GetUser
  <2>1. page.u \in Users
        BY <1>t DEF Pages
  <2>2. [page EXCEPT !.userMap = {page.u}] \in Pages
        BY <1>t, <2>1 DEF Pages
  <2>3. /\ [page EXCEPT !.userMap = {page.u}].state = "asking"
        /\ [page EXCEPT !.userMap = {page.u}].todo = page.todo
        BY <1>0, <1>t DEF Pages
  <2>  QED BY <1>1, <1>f, <1>g, <2>2, <2>3 DEF GetUser, GotOne
<1>2. CASE ListUsers
  <2>1. [page EXCEPT !.userMap = users] \in Pages
        BY <1>t DEF Pages
  <2>2. /\ [page EXCEPT !.userMap = users].state = "asking"
        /\ [page EXCEPT !.userMap = users].todo = page.todo
        BY <1>0, <1>t DEF Pages
  <2>  QED BY <1>2, <1>g, <2>1, <2>2 DEF ListUsers
<1>3. CASE GetNode
  <2>1. page.n \in Nodes
        BY <1>t DEF Pages
  <2>2. [page EXCEPT !.targets = {page.n}] \in Pages
        BY <1>t, <2>1 DEF Pages
  <2>3. /\ [page EXCEPT !.targets = {page.n}].state = "asking"
        /\ [page EXCEPT !.targets = {page.n}].todo = page.todo
        BY <1>0, <1>t DEF Pages
  <2>  QED BY <1>3, <1>f, <1>g, <2>2, <2>3 DEF GetNode, GotOne
<1>4. CASE SessionLookupForUser
  <2> DEFINE S == {n \in Nodes : name[page.u][n] # NoName}
  <2>1. S \in SUBSET Nodes
        OBVIOUS
  <2>g. Got([page EXCEPT !.targets = S])
        BY <1>4 DEF SessionLookupForUser
  <2> HIDE DEF S
  <2>2. [page EXCEPT !.targets = S] \in Pages
        BY <1>t, <2>1 DEF Pages
  <2>3. [page EXCEPT !.targets = S].state = "asking" /\ [page EXCEPT !.targets = S].todo = page.todo
        BY <1>0, <1>t DEF Pages
  <2>  QED BY <1>g, <2>g, <2>2, <2>3
<1>5. CASE ListNodes
  <2> DEFINE S == IF page.what = "user" THEN page.targets \cap nodes ELSE nodes
  <2>1. S \in SUBSET Nodes
        BY <1>t
  <2>g. Got([page EXCEPT !.targets = S])
        BY <1>5 DEF ListNodes
  <2> HIDE DEF S
  <2>2. [page EXCEPT !.targets = S] \in Pages
        BY <1>t, <2>1 DEF Pages
  <2>3. [page EXCEPT !.targets = S].state = "asking" /\ [page EXCEPT !.targets = S].todo = page.todo
        BY <1>0, <1>t DEF Pages
  <2>  QED BY <1>g, <2>g, <2>2, <2>3
<1>6. CASE SessionLookupForNodes
  <2> DEFINE ix == BuildFallbackIndex(page.targets)
  <2>1. ix \in [Nodes -> [Names -> SUBSET Users]]
        BY DEF BuildFallbackIndex, Holders
  <2>g. Got([page EXCEPT !.index = ix])
        BY <1>6 DEF SessionLookupForNodes
  <2> HIDE DEF ix
  <2>2. [page EXCEPT !.index = ix] \in Pages
        BY <1>t, <2>1 DEF Pages
  <2>3. [page EXCEPT !.index = ix].state = "asking" /\ [page EXCEPT !.index = ix].todo = page.todo
        BY <1>0, <1>t DEF Pages
  <2>  QED BY <1>g, <2>g, <2>2, <2>3
<1>  QED BY <1>1, <1>2, <1>3, <1>4, <1>5, <1>6 DEF ReadStep

-----------------------------------------------------------------------------
(* The pool *)

LEMMA StartKeepsInv ==
    ASSUME PoolInv, StartFetch
    PROVE  /\ PoolInv' /\ page.state = "asking" /\ page'.state = "fetching"
           /\ page'.targets = page.targets /\ result' = result /\ UNCHANGED db
<1> USE DEF PoolInv
<1>1. /\ page' = [page EXCEPT !.state = "fetching"] /\ page.state = "asking"
      /\ UNCHANGED <<users, nodes, name, kind, changes, touched, result, ctxDone>>
      BY DEF StartFetch, db
<1>2. page' \in Pages /\ page'.state = "fetching" /\ page'.targets = page.targets
      BY <1>1 DEF TypeOK, Pages
<1>3. left' \cup working' = page.targets /\ left' \cap working' = {}
      BY DEF StartFetch
<1>4. page.targets \subseteq Nodes
      BY DEF TypeOK, Pages
<1>5. TypeOK'
      BY <1>1, <1>2, <1>3 DEF TypeOK
<1>6. SlotsShared'
      BY <1>1, <1>2, <1>3, <1>4 DEF SlotsShared
<1>  QED BY <1>1, <1>2, <1>5, <1>6 DEF db

\* A slot in use belongs to a page that fetches and has not been written.
LEMMA SlotInUse ==
    ASSUME PoolInv, NEW n \in left \cup working
    PROVE  n \in Nodes /\ n \in page.targets /\ page.state = "fetching" /\ result[n] = NoEntry
BY DEF PoolInv, TypeOK, SlotsShared, Pages

\* A node leaves the pool as its slot is written.
LEMMA WriterKeepsInv ==
    ASSUME PoolInv, NEW n \in left \cup working, NEW e \in Fitting(n, kind[n]),
           result' = [result EXCEPT ![n] = e],
           left' = left \ {n}, working' = working \ {n},
           UNCHANGED <<db, page, ctxDone>>
    PROVE  PoolInv'
<1> USE DEF PoolInv, db
<1>1. n \in Nodes /\ kind[n] \in Kinds
      BY SlotInUse DEF TypeOK
<1>2. e \in Entries /\ e # NoEntry
      BY <1>1, FittingIsEntry, EntryIsWritten
<1>3. /\ result' \in [Nodes -> Entries \cup {NoEntry}]
      /\ result'[n] = e
      /\ \A m \in Nodes \ {n} : result'[m] = result[m]
      BY <1>1, <1>2 DEF TypeOK
<1>4. page.targets \subseteq Nodes /\ page.state = "fetching"
      BY SlotInUse DEF TypeOK, Pages
<1>5. TypeOK'
      BY <1>3 DEF TypeOK
<1>6. SlotsShared'
      BY <1>2, <1>3, <1>4 DEF SlotsShared
<1>  QED BY <1>5, <1>6

\* What Cancel and the three ends of a call have in common.
Wrote(n) ==
    /\ n \in left \cup working
    /\ \E e \in Fitting(n, kind[n]) : result' = [result EXCEPT ![n] = e]
    /\ left' = left \ {n} /\ working' = working \ {n}
    /\ UNCHANGED <<db, page, ctxDone>>

LEMMA CancelWrites ==
    ASSUME PoolInv, NEW n \in Nodes, Cancel(n)
    PROVE  Wrote(n)
<1>1. kind[n] \in Kinds /\ n \notin working
      BY DEF PoolInv, TypeOK, SlotsShared, Cancel
<1>2. Canceled \in Fitting(n, kind[n])
      BY <1>1, CanceledFits
<1>  QED BY <1>1, <1>2 DEF Cancel, Wrote

LEMMA CallWrites ==
    ASSUME PoolInv, NEW n \in Nodes, Skip(n) \/ Answer(n) \/ CallFails(n)
    PROVE  Wrote(n)
<1>1. kind[n] \in Kinds
      BY DEF PoolInv, TypeOK
<1>2. PICK e \in Fitting(n, kind[n]) : Fill(n, e)
  <2>1. CASE Skip(n)
        BY <2>1 DEF Skip, Fitting
  <2>2. CASE Answer(n)
        BY <2>2 DEF Answer, Fitting
  <2>3. CASE CallFails(n)
        BY <1>1, <2>3, CanceledFits DEF CallFails
  <2>  QED BY <2>1, <2>2, <2>3
<1>3. n \in working /\ n \notin left
      BY <1>2 DEF Fill, PoolInv, SlotsShared
<1>  QED BY <1>2, <1>3 DEF Fill, Wrote

LEMMA HandOverKeepsInv ==
    ASSUME PoolInv, NEW n \in Nodes, HandOver(n)
    PROVE  PoolInv'
<1> USE DEF PoolInv, HandOver, db
<1>1. page.state = "fetching"
      BY SlotInUse
<1>2. left' \cup working' = left \cup working /\ left' \cap working' = {}
      BY DEF SlotsShared
<1>3. TypeOK'
      BY <1>2 DEF TypeOK
<1>4. SlotsShared'
      BY <1>1, <1>2 DEF SlotsShared
<1>  QED BY <1>3, <1>4

LEMMA ReturnKeepsInv ==
    ASSUME PoolInv, Return
    PROVE  /\ PoolInv' /\ page'.state = "returned" /\ page'.targets = page.targets
           /\ \A n \in page.targets : result[n] # NoEntry
<1> USE DEF PoolInv, Return, db, pool
<1>1. page' \in Pages /\ page'.state = "returned" /\ page'.targets = page.targets
      BY DEF TypeOK, Pages
<1>2. TypeOK'
      BY <1>1 DEF TypeOK
<1>3. SlotsShared' /\ \A n \in page.targets : result[n] # NoEntry
      BY <1>1 DEF SlotsShared
<1>  QED BY <1>1, <1>2, <1>3

-----------------------------------------------------------------------------
(* The pool's invariant *)

\* Every step is one that reads, hands over, writes, returns, or is nothing to the page.
LEMMA StepCases ==
    ASSUME PoolInv, Next
    PROVE  \/ Others \/ ReadStep \/ StartFetch \/ Return \/ ReadFails \/ TimeIsUp
           \/ \E n \in Nodes : HandOver(n) \/ Wrote(n)
BY CancelWrites, CallWrites DEF Next, Proceed, ReadStep

LEMMA PoolStep == PoolInv /\ [Next]_vars => PoolInv'
<1> SUFFICES ASSUME PoolInv, [Next]_vars PROVE PoolInv'
    OBVIOUS
<1>1. CASE Others
      BY <1>1, OthersKeepInv
<1>2. CASE ReadStep
      BY <1>2, ReadStepKeepsInv
<1>3. CASE StartFetch
      BY <1>3, StartKeepsInv
<1>4. CASE Return
      BY <1>4, ReturnKeepsInv
<1>5. CASE ReadFails
      BY <1>5, FailedKeepsInv DEF ReadFails
<1>6. CASE TimeIsUp
      BY <1>6 DEF TimeIsUp, PoolInv, TypeOK, SlotsShared, db
<1>7. ASSUME NEW n \in Nodes, HandOver(n) \/ Wrote(n) PROVE PoolInv'
      BY <1>7, HandOverKeepsInv, WriterKeepsInv DEF Wrote
<1>8. CASE UNCHANGED vars
      BY <1>8 DEF vars, db, pool, PoolInv, TypeOK, SlotsShared
<1>  QED BY <1>1, <1>2, <1>3, <1>4, <1>5, <1>6, <1>7, <1>8, StepCases

-----------------------------------------------------------------------------
(* What the reads find out *)

LEMMA ReadsListed ==
    /\ Len(Reads("node")) = 3 /\ Reads("node")[1] = "getNode"
    /\ Reads("node")[2] = "listUsers" /\ Reads("node")[3] = "nodeLookups"
    /\ Len(Reads("all")) = 3 /\ Reads("all")[1] = "listNodes"
    /\ Reads("all")[2] = "listUsers" /\ Reads("all")[3] = "nodeLookups"
    /\ Len(Reads("user")) = 5 /\ Reads("user")[1] = "getUser"
    /\ Reads("user")[2] = "userLookups" /\ Reads("user")[3] = "listNodes"
    /\ Reads("user")[4] = "nodeLookups" /\ Reads("user")[5] = "getUser"
BY DEF Reads

\* The head of the last l of k reads.
LEMMA HeadOfRest ==
    ASSUME NEW all, NEW s, NEW l \in Nat, NEW k \in Nat, l >= 1,
           \A i \in 1..l : s[i] = all[k - l + i]
    PROVE  /\ l = 1 => s[1] = all[k]
           /\ l = 2 => s[1] = all[k - 1]
           /\ l = 3 => s[1] = all[k - 2]
           /\ l = 4 => s[1] = all[k - 3]
           /\ l = 5 => s[1] = all[k - 4]
<1>1. s[1] = all[k - l + 1]
  <2>1. 1 \in 1..l
        OBVIOUS
  <2>  QED BY <2>1
<1>2. /\ l = 1 => k - l + 1 = k
      /\ l = 2 => k - l + 1 = k - 1
      /\ l = 3 => k - l + 1 = k - 2
      /\ l = 4 => k - l + 1 = k - 3
      /\ l = 5 => k - l + 1 = k - 4
      OBVIOUS
<1>  QED BY <1>1, <1>2

\* The statement a page makes next says how far it is.
LEMMA WhichRead ==
    ASSUME page \in Pages, ReadsInOrder, page.todo # <<>>
    PROVE  LET st == Head(page.todo)
               l == Len(page.todo)
           IN /\ st = "getUser" => page.what = "user" /\ l \in {1, 5}
              /\ st = "listUsers" => page.what # "user" /\ l = 2
              /\ st \in {"getNode", "listNodes"} => l = 3
              /\ st = "userLookups" => page.what = "user" /\ l = 4
              /\ st = "nodeLookups" => l = IF page.what = "user" THEN 2 ELSE 1
<1> DEFINE l == Len(page.todo)
           k == Len(Reads(page.what))
<1>1. /\ l \in Nat /\ l >= 1 /\ Head(page.todo) = page.todo[1]
      /\ page.what \in {"node", "user", "all"}
      BY DEF Pages
<1>2. l <= k /\ \A i \in 1..l : page.todo[i] = Reads(page.what)[k - l + i]
      BY DEF ReadsInOrder
<1> HIDE DEF l, k
<1>3. CASE page.what = "node"
  <2>1. k = 3
        BY <1>3, ReadsListed DEF k
  <2>2. l \in {1, 2, 3}
        BY <1>1, <1>2, <2>1
  <2>3. /\ l = 1 => Head(page.todo) = "nodeLookups"
        /\ l = 2 => Head(page.todo) = "listUsers"
        /\ l = 3 => Head(page.todo) = "getNode"
        BY <1>1, <1>2, <1>3, <2>1, ReadsListed, HeadOfRest
  <2>  QED BY <1>3, <2>2, <2>3 DEF l
<1>4. CASE page.what = "all"
  <2>1. k = 3
        BY <1>4, ReadsListed DEF k
  <2>2. l \in {1, 2, 3}
        BY <1>1, <1>2, <2>1
  <2>3. /\ l = 1 => Head(page.todo) = "nodeLookups"
        /\ l = 2 => Head(page.todo) = "listUsers"
        /\ l = 3 => Head(page.todo) = "listNodes"
        BY <1>1, <1>2, <1>4, <2>1, ReadsListed, HeadOfRest
  <2>  QED BY <1>4, <2>2, <2>3 DEF l
<1>5. CASE page.what = "user"
  <2>1. k = 5
        BY <1>5, ReadsListed DEF k
  <2>2. l \in {1, 2, 3, 4, 5}
        BY <1>1, <1>2, <2>1
  <2>3. /\ l = 1 => Head(page.todo) = "getUser"
        /\ l = 2 => Head(page.todo) = "nodeLookups"
        /\ l = 3 => Head(page.todo) = "listNodes"
        /\ l = 4 => Head(page.todo) = "userLookups"
        /\ l = 5 => Head(page.todo) = "getUser"
        BY <1>1, <1>2, <1>5, <2>1, ReadsListed, HeadOfRest
  <2>  QED BY <1>5, <2>2, <2>3 DEF l
<1>  QED BY <1>1, <1>3, <1>4, <1>5

LEMMA OneLess ==
    ASSUME NEW l \in Nat, NEW m, m = l - 1
    PROVE  /\ l \in {3, 4} => l < 5 /\ m < 5 /\ ~(m < 2) /\ ~(m < 1)
           /\ l \in {1, 5} => (m < 2 => l < 2) /\ (m < 1 => l < 2)
           /\ l = 2 => l < 5 /\ m = 1
           /\ l = 1 => l < 2 /\ m = 0
OBVIOUS

\* A read that found something leaves the rest of the list to be read.
LEMMA OneReadOn ==
    ASSUME page \in Pages, ReadsInOrder, page.todo # <<>>, page.state = "asking",
           NEW p \in Pages, p.todo = page.todo, p.what = page.what, p.state = "asking", Got(p)
    PROVE  /\ ReadsInOrder'
           /\ Len(page'.todo) = Len(page.todo) - 1 /\ Len(page.todo) \in Nat
           /\ page'.what = p.what /\ page'.u = p.u /\ page'.targets = p.targets
           /\ page'.userMap = p.userMap /\ page'.index = p.index
<1>1. /\ page'.todo = Tail(page.todo) /\ page'.state = "asking"
      /\ page'.what = p.what /\ page'.u = p.u /\ page'.targets = p.targets
      /\ page'.userMap = p.userMap /\ page'.index = p.index
      BY DEF Got, Pages
<1>2. /\ Len(page.todo) \in Nat /\ Len(page.todo) >= 1
      /\ Len(Tail(page.todo)) = Len(page.todo) - 1
      /\ \A i \in 1..(Len(page.todo) - 1) : Tail(page.todo)[i] = page.todo[i + 1]
      BY DEF Pages
<1>3. Len(Reads(page.what)) \in Nat
      BY ReadsListed DEF Pages
<1>4. Len(page.todo) <= Len(Reads(page.what))
      BY DEF ReadsInOrder
<1>5. ASSUME NEW i \in 1..(Len(page.todo) - 1)
      PROVE  Tail(page.todo)[i]
               = Reads(page.what)[Len(Reads(page.what)) - (Len(page.todo) - 1) + i]
  <2>1. i + 1 \in 1..Len(page.todo)
        BY <1>2
  <2>2. page.todo[i + 1] = Reads(page.what)[Len(Reads(page.what)) - Len(page.todo) + (i + 1)]
        BY <2>1 DEF ReadsInOrder
  <2>3. Len(Reads(page.what)) - Len(page.todo) + (i + 1)
          = Len(Reads(page.what)) - (Len(page.todo) - 1) + i
        BY <1>2, <1>3
  <2>  QED BY <1>2, <2>2, <2>3
<1>6. /\ page'.what = page.what
      /\ Len(page'.todo) = Len(page.todo) - 1
      /\ Len(page.todo) - 1 <= Len(Reads(page.what))
      BY <1>1, <1>2, <1>3, <1>4
<1>7. \A i \in 1..(Len(page.todo) - 1) :
          page'.todo[i] = Reads(page.what)[Len(Reads(page.what)) - (Len(page.todo) - 1) + i]
      BY <1>1, <1>5
<1>8. ReadsInOrder'
  <2> DEFINE m == Len(page.todo) - 1
  <2> HIDE DEF m
  <2>1. /\ Len(page'.todo) = m /\ m <= Len(Reads(page.what))
        /\ \A i \in 1..m : page'.todo[i] = Reads(page.what)[Len(Reads(page.what)) - m + i]
        BY <1>6, <1>7 DEF m
  <2>  QED BY <1>1, <1>6, <2>1 DEF ReadsInOrder
<1>  QED BY <1>1, <1>2, <1>8

LEMMA ReadStepKnows ==
    ASSUME PoolInv, ReadsKnown, ReadStep
    PROVE  ReadsKnown'
<1>t. page \in Pages /\ ReadsInOrder /\ UsersKnown /\ IndexKnown
      BY DEF PoolInv, TypeOK, ReadsKnown
<1>0. page.state = "asking" /\ page.todo # <<>> /\ UNCHANGED <<users, nodes, name, touched>>
      BY DEF ReadStep, GetUser, ListUsers, GetNode, SessionLookupForUser, ListNodes,
             SessionLookupForNodes, Read, db
<1>n. \A u \in Users, n \in Nodes : name[u][n] # NoName => u \in users
      BY DEF PoolInv, TypeOK
<1>l. Len(page.todo) \in Nat
      BY <1>t DEF Pages
<1>f. ASSUME page' = [page EXCEPT !.state = "failed"] PROVE ReadsKnown'
  <2>1. /\ page'.state = "failed" /\ page'.todo = page.todo /\ page'.what = page.what
        /\ page'.u = page.u /\ page'.targets = page.targets /\ page'.userMap = page.userMap
        /\ page'.index = page.index
        BY <1>t, <1>f DEF Pages
  <2>2. ReadsInOrder'
        BY <1>t, <2>1 DEF ReadsInOrder
  <2>3. UsersKnown'
        BY <1>0, <1>t, <2>1 DEF UsersKnown
  <2>4. IndexKnown'
        BY <1>0, <1>t, <2>1 DEF IndexKnown, Holders
  <2>  QED BY <2>2, <2>3, <2>4 DEF ReadsKnown
\* Statements that find out something else.
<1>g. ASSUME NEW p \in Pages, Got(p), p.state = "asking", p.todo = page.todo, p.what = page.what,
             p.u = page.u, p.userMap = page.userMap, p.index = page.index,
             Len(page.todo) \in {3, 4}
      PROVE  ReadsKnown'
  <2>1. /\ ReadsInOrder' /\ Len(page'.todo) = Len(page.todo) - 1
        /\ page'.what = page.what /\ page'.u = page.u /\ page'.userMap = page.userMap
        BY <1>0, <1>t, <1>g, OneReadOn
  <2>2. /\ Len(page.todo) < 5 /\ Len(page'.todo) < 5
        /\ ~(Len(page'.todo) < 2) /\ ~(Len(page'.todo) < 1)
        BY <1>g, <1>l, <2>1, OneLess
  <2>3. UsersKnown'
        BY <1>t, <2>1, <2>2 DEF UsersKnown
  <2>4. IndexKnown'
        BY <2>1, <2>2 DEF IndexKnown
  <2>  QED BY <2>1, <2>3, <2>4 DEF ReadsKnown
<1>1. CASE GetUser
  <2> DEFINE p == [page EXCEPT !.userMap = {page.u}]
  <2>1. /\ p \in Pages /\ p.todo = page.todo /\ p.what = page.what /\ p.state = "asking"
        /\ p.u = page.u /\ p.userMap = {page.u} /\ p.index = page.index
        /\ p.targets = page.targets
        BY <1>0, <1>t DEF Pages
  <2>2. Got(p) \/ page' = [page EXCEPT !.state = "failed"]
        BY <1>1 DEF GetUser, GotOne
  <2>3. page.what = "user" /\ Len(page.todo) \in {1, 5}
        BY <1>0, <1>1, <1>t, WhichRead DEF GetUser, Read
  <2> HIDE DEF p
  <2>4. CASE Got(p)
    <3>1. /\ ReadsInOrder' /\ Len(page'.todo) = Len(page.todo) - 1
          /\ page'.what = "user" /\ page'.u = page.u /\ page'.userMap = {page.u}
          /\ page'.index = page.index /\ page'.targets = page.targets
          BY <1>0, <1>t, <2>1, <2>3, <2>4, OneReadOn
    <3>2. UsersKnown'
          BY <3>1 DEF UsersKnown
    <3>3. Len(page'.todo) < 2 => Len(page.todo) < 2
          BY <1>l, <2>3, <3>1, OneLess
    <3>4. IndexKnown'
          BY <1>0, <1>t, <2>3, <3>1, <3>3 DEF IndexKnown, Holders
    <3>  QED BY <3>1, <3>2, <3>4 DEF ReadsKnown
  <2>  QED BY <1>f, <2>2, <2>4
<1>2. CASE ListUsers
  <2> DEFINE p == [page EXCEPT !.userMap = users]
  <2>1. /\ p \in Pages /\ p.todo = page.todo /\ p.what = page.what /\ p.state = "asking"
        /\ p.u = page.u /\ p.userMap = users /\ p.index = page.index
        BY <1>0, <1>t DEF Pages, PoolInv, TypeOK
  <2>2. Got(p)
        BY <1>2 DEF ListUsers
  <2>3. page.what # "user" /\ Len(page.todo) = 2
        BY <1>0, <1>2, <1>t, WhichRead DEF ListUsers, Read
  <2> HIDE DEF p
  <2>4. /\ ReadsInOrder' /\ Len(page'.todo) = 1
        /\ page'.what # "user" /\ page'.userMap = users
        BY <1>0, <1>t, <2>1, <2>2, <2>3, OneReadOn
  <2>5. UsersKnown'
        BY <1>0, <1>n, <2>4 DEF UsersKnown
  <2>6. IndexKnown'
        BY <2>4 DEF IndexKnown
  <2>  QED BY <2>4, <2>5, <2>6 DEF ReadsKnown
<1>3. CASE GetNode
  <2> DEFINE p == [page EXCEPT !.targets = {page.n}]
  <2>1. /\ p \in Pages /\ p.todo = page.todo /\ p.what = page.what /\ p.state = "asking"
        /\ p.u = page.u /\ p.userMap = page.userMap /\ p.index = page.index
        BY <1>0, <1>t DEF Pages
  <2>2. Got(p) \/ page' = [page EXCEPT !.state = "failed"]
        BY <1>3 DEF GetNode, GotOne
  <2>3. Len(page.todo) = 3
        BY <1>0, <1>3, <1>t, WhichRead DEF GetNode, Read
  <2> HIDE DEF p
  <2>  QED BY <1>f, <1>g, <2>1, <2>2, <2>3
<1>4. CASE SessionLookupForUser
  <2> DEFINE S == {n \in Nodes : name[page.u][n] # NoName}
             p == [page EXCEPT !.targets = S]
  <2>1. S \in SUBSET Nodes
        OBVIOUS
  <2>2. Got(p)
        BY <1>4 DEF SessionLookupForUser
  <2> HIDE DEF S
  <2>3. /\ p \in Pages /\ p.todo = page.todo /\ p.what = page.what /\ p.state = "asking"
        /\ p.u = page.u /\ p.userMap = page.userMap /\ p.index = page.index
        BY <1>0, <1>t, <2>1 DEF Pages
  <2>4. Len(page.todo) = 4
        BY <1>0, <1>4, <1>t, WhichRead DEF SessionLookupForUser, Read
  <2> HIDE DEF p
  <2>  QED BY <1>g, <2>2, <2>3, <2>4
<1>5. CASE ListNodes
  <2> DEFINE S == IF page.what = "user" THEN page.targets \cap nodes ELSE nodes
             p == [page EXCEPT !.targets = S]
  <2>1. S \in SUBSET Nodes
        BY DEF PoolInv, TypeOK
  <2>2. Got(p)
        BY <1>5 DEF ListNodes
  <2> HIDE DEF S
  <2>3. /\ p \in Pages /\ p.todo = page.todo /\ p.what = page.what /\ p.state = "asking"
        /\ p.u = page.u /\ p.userMap = page.userMap /\ p.index = page.index
        BY <1>0, <1>t, <2>1 DEF Pages
  <2>4. Len(page.todo) = 3
        BY <1>0, <1>5, <1>t, WhichRead DEF ListNodes, Read
  <2> HIDE DEF p
  <2>  QED BY <1>g, <2>2, <2>3, <2>4
<1>6. CASE SessionLookupForNodes
  <2> DEFINE ix == BuildFallbackIndex(page.targets)
             p == [page EXCEPT !.index = ix]
  <2>1. ix \in [Nodes -> [Names -> SUBSET Users]]
        BY DEF BuildFallbackIndex, Holders
  <2>2. \A n \in page.targets : ix[n] = Holders(n)
    <3>1. \A n \in page.targets : n \in Nodes /\ ix[n] = [x \in Names |-> Holders(n)[x]]
          BY <1>t DEF BuildFallbackIndex, Pages
    <3>2. \A n \in Nodes : Holders(n) = [x \in Names |-> Holders(n)[x]]
          BY DEF Holders
    <3>  QED BY <3>1, <3>2
  <2>3. Got(p)
        BY <1>6 DEF SessionLookupForNodes
  <2> HIDE DEF ix
  <2>4. /\ p \in Pages /\ p.todo = page.todo /\ p.what = page.what /\ p.state = "asking"
        /\ p.u = page.u /\ p.userMap = page.userMap /\ p.index = ix /\ p.targets = page.targets
        BY <1>0, <1>t, <2>1 DEF Pages
  <2>5. Len(page.todo) = IF page.what = "user" THEN 2 ELSE 1
        BY <1>0, <1>6, <1>t, WhichRead DEF SessionLookupForNodes, Read
  <2> HIDE DEF p
  <2>6. /\ ReadsInOrder' /\ Len(page'.todo) = Len(page.todo) - 1
        /\ page'.what = page.what /\ page'.u = page.u /\ page'.userMap = page.userMap
        /\ page'.index = ix /\ page'.targets = page.targets
        BY <1>0, <1>t, <2>3, <2>4, OneReadOn
  <2>7. UsersKnown'
        BY <1>0, <1>t, <2>5, <2>6 DEF UsersKnown
  <2>8. \A n \in page'.targets : page'.index[n] = Holders(n)'
    <3> SUFFICES ASSUME NEW n \in page'.targets PROVE page'.index[n] = Holders(n)'
        OBVIOUS
    <3>1. page'.index[n] = Holders(n)
          BY <2>2, <2>6
    <3>2. Holders(n)' = Holders(n)
          BY <1>0 DEF Holders
    <3>  QED BY <3>1, <3>2
  <2>9. IndexKnown'
        BY <2>8 DEF IndexKnown
  <2>  QED BY <2>6, <2>7, <2>9 DEF ReadsKnown
<1>  QED BY <1>1, <1>2, <1>3, <1>4, <1>5, <1>6 DEF ReadStep

\* A node that a change does not touch keeps the names on it.
LEMMA OthersTouch ==
    ASSUME PoolInv, Others
    PROVE  /\ page.state = "asking" /\ UNCHANGED <<page, kind, result>>
           /\ touched \subseteq touched'
           /\ \A n \in Nodes \ touched', v \in Users : name'[v][n] = name[v][n]
<1> DEFINE Q == /\ page.state = "asking" /\ UNCHANGED <<page, kind, result>>
                /\ touched \subseteq touched'
                /\ \A n \in Nodes \ touched', v \in Users : name'[v][n] = name[v][n]
<1>t. /\ name \in [Users -> [Nodes -> Names \cup {NoName}]]
      /\ \A u \in Users, n \in Nodes : name[u][n] # NoName => u \in users /\ n \in nodes
      BY DEF PoolInv, TypeOK
<1>c. ASSUME NEW S, Changed(S)
      PROVE  /\ page.state = "asking" /\ UNCHANGED <<page, kind, result>>
             /\ touched' = touched \cup S
      BY <1>c DEF Changed, pool
<1>1. ASSUME NEW u \in Users, CreateUser(u) PROVE Q
  <2>1. PICK row \in [nodes -> Names \cup {NoName}] :
          /\ name' = [name EXCEPT ![u] = [n \in Nodes |-> IF n \in nodes THEN row[n] ELSE NoName]]
          /\ Changed({n \in nodes : row[n] # NoName})
        BY <1>1 DEF CreateUser
  <2>2. \A n \in Nodes : name[u][n] = NoName
        BY <1>1, <1>t DEF CreateUser
  <2>3. \A n \in Nodes \ touched' : name'[u][n] = NoName
        BY <1>c, <1>t, <2>1
  <2>4. \A n \in Nodes, v \in Users \ {u} : name'[v][n] = name[v][n]
        BY <1>t, <2>1
  <2>  QED BY <1>c, <2>1, <2>2, <2>3, <2>4
<1>2. ASSUME NEW u \in Users, DeleteUser(u) PROVE Q
  <2>1. /\ name' = [name EXCEPT ![u] = [n \in Nodes |-> NoName]]
        /\ Changed({n \in Nodes : name[u][n] # NoName})
        BY <1>2 DEF DeleteUser
  <2>2. \A n \in Nodes \ touched' : name'[u][n] = name[u][n]
        BY <1>c, <1>t, <2>1
  <2>3. \A n \in Nodes, v \in Users \ {u} : name'[v][n] = name[v][n]
        BY <1>t, <2>1
  <2>  QED BY <1>c, <2>1, <2>2, <2>3
<1>3. ASSUME NEW u \in Users, NEW n \in Nodes, NEW x \in Names \cup {NoName}, AssignNode(u, n, x)
      PROVE  Q
  <2>1. name' = [name EXCEPT ![u][n] = x] /\ Changed({n})
        BY <1>3 DEF AssignNode
  <2>2. \A m \in Nodes \ {n}, v \in Users : name'[v][m] = name[v][m]
        BY <1>t, <2>1
  <2>  QED BY <1>c, <2>1, <2>2
<1>4. ASSUME NEW n \in Nodes, DeleteNode(n) PROVE Q
  <2>1. name' = [u \in Users |-> [name[u] EXCEPT ![n] = NoName]] /\ Changed({n})
        BY <1>4 DEF DeleteNode
  <2>2. \A m \in Nodes \ {n}, v \in Users : name'[v][m] = name[v][m]
        BY <1>t, <2>1
  <2>  QED BY <1>c, <2>1, <2>2
<1>  QED BY <1>1, <1>2, <1>3, <1>4 DEF Others

\* What the page read about untouched nodes stays true while others change the rows.
LEMMA OthersKnow ==
    ASSUME PoolInv, ReadsKnown, Others
    PROVE  ReadsKnown'
<1>1. /\ page' = page /\ touched \subseteq touched'
      /\ \A n \in Nodes \ touched', v \in Users : name'[v][n] = name[v][n]
      BY OthersTouch
<1>2. page.targets \subseteq Nodes
      BY DEF PoolInv, TypeOK, Pages
<1>3. ReadsInOrder'
      BY <1>1 DEF ReadsKnown, ReadsInOrder
<1>4. UsersKnown'
      BY <1>1 DEF ReadsKnown, UsersKnown
<1>5. ASSUME NEW n \in page.targets \ touched'
      PROVE  Holders(n)' = Holders(n)
      BY <1>1, <1>2 DEF Holders
<1>6. IndexKnown'
  <2> SUFFICES ASSUME Len(page.todo) < (IF page.what = "user" THEN 2 ELSE 1),
                      NEW n \in page.targets \ touched'
               PROVE  page.index[n] = Holders(n)'
      BY <1>1 DEF IndexKnown
  <2>1. n \notin touched
        BY <1>1
  <2>2. page.index[n] = Holders(n)
        BY <2>1 DEF ReadsKnown, IndexKnown
  <2>  QED BY <1>5, <2>2
<1>  QED BY <1>3, <1>4, <1>6 DEF ReadsKnown

\* When the page turns to the agents, nothing it has read changes.
LEMMA StateMovesKnow ==
    ASSUME PoolInv, ReadsKnown, NEW state, page' = [page EXCEPT !.state = state],
           state \in {"fetching", "returned"} => page.todo = <<>>, UNCHANGED <<name, touched>>
    PROVE  ReadsKnown'
<1>1. /\ page'.state = state /\ page'.todo = page.todo /\ page'.what = page.what
      /\ page'.u = page.u /\ page'.targets = page.targets /\ page'.userMap = page.userMap
      /\ page'.index = page.index
      BY DEF PoolInv, TypeOK, Pages
<1>2. ReadsInOrder'
      BY <1>1 DEF ReadsKnown, ReadsInOrder
<1>3. UsersKnown'
      BY <1>1 DEF ReadsKnown, UsersKnown
<1>4. IndexKnown'
      BY <1>1 DEF ReadsKnown, IndexKnown, Holders
<1>  QED BY <1>2, <1>3, <1>4 DEF ReadsKnown

LEMMA SamePageKnows ==
    ASSUME ReadsKnown, UNCHANGED <<page, name, touched>>
    PROVE  ReadsKnown'
<1>1. ReadsInOrder' /\ UsersKnown'
      BY DEF ReadsKnown, ReadsInOrder, UsersKnown
<1>2. \A n : Holders(n)' = Holders(n)
      BY DEF Holders
<1>3. IndexKnown'
      BY <1>2 DEF ReadsKnown, IndexKnown
<1>  QED BY <1>1, <1>3 DEF ReadsKnown

LEMMA StepKnows ==
    ASSUME PoolInv, ReadsKnown, [Next]_vars
    PROVE  ReadsKnown'
<1>1. CASE StartFetch
      BY <1>1, StateMovesKnow DEF StartFetch, db
<1>2. CASE Return
  <2>1. page.todo = <<>>
        BY <1>2 DEF Return, ReadsKnown, ReadsInOrder
  <2>  QED BY <1>2, <2>1, StateMovesKnow DEF Return, db
<1>3. CASE ReadFails
      BY <1>3, StateMovesKnow DEF ReadFails, db
<1>4. CASE TimeIsUp \/ (\E n \in Nodes : HandOver(n) \/ Wrote(n)) \/ UNCHANGED vars
      BY <1>4, SamePageKnows DEF TimeIsUp, HandOver, Wrote, db, vars
<1>5. CASE Others \/ ReadStep
      BY <1>5, OthersKnow, ReadStepKnows
<1>6. CASE Next
      BY <1>1, <1>2, <1>3, <1>4, <1>5, <1>6, StepCases
<1>  QED BY <1>4, <1>6

-----------------------------------------------------------------------------
(* What the slots hold *)

LEMMA StepFits ==
    ASSUME PoolInv, EntriesFit, [Next]_vars
    PROVE  EntriesFit'
<1>1. ASSUME UNCHANGED <<kind, result>> PROVE EntriesFit'
      BY <1>1 DEF EntriesFit
<1>2. CASE Others
      BY <1>1, <1>2, OthersTouch
<1>3. CASE ReadStep
      BY <1>1, <1>3, ReadStepKeepsInv DEF db, pool
<1>4. CASE StartFetch \/ Return \/ ReadFails \/ TimeIsUp \/ UNCHANGED vars
      BY <1>1, <1>4 DEF StartFetch, Return, ReadFails, TimeIsUp, db, pool, vars
<1>5. ASSUME NEW n \in Nodes, HandOver(n) PROVE EntriesFit'
      BY <1>1, <1>5 DEF HandOver, db
<1>6. ASSUME NEW n \in Nodes, Wrote(n) PROVE EntriesFit'
  <2>1. PICK e \in Fitting(n, kind[n]) : result' = [result EXCEPT ![n] = e]
        BY <1>6 DEF Wrote
  <2>2. kind' = kind /\ result \in [Nodes -> Entries \cup {NoEntry}]
        BY <1>6 DEF Wrote, db, PoolInv, TypeOK
  <2>  QED BY <2>1, <2>2 DEF EntriesFit
<1>  QED BY <1>2, <1>3, <1>4, <1>5, <1>6, StepCases

-----------------------------------------------------------------------------
(* The theorems *)

LEMMA InitInv == Init => TelemetryInv
<1> SUFFICES ASSUME Init PROVE TelemetryInv
    OBVIOUS
<1>1. PoolInv
      BY PoolInit
<1>2. EntriesFit
      BY DEF Init, EntriesFit
<1>3. /\ page.todo = Reads(page.what) /\ page.state = "asking"
      /\ page.what \in {"node", "user", "all"}
      BY DEF Init
<1>4. ReadsInOrder
  <2>1. Len(Reads(page.what)) \in Nat
        BY <1>3, ReadsListed
  <2>2. \A i \in 1..Len(Reads(page.what)) : Len(Reads(page.what)) - Len(Reads(page.what)) + i = i
        BY <2>1
  <2>3. Len(Reads(page.what)) <= Len(Reads(page.what))
        BY <2>1
  <2>  QED BY <1>3, <2>2, <2>3 DEF ReadsInOrder
<1>5. /\ page.what = "user" => Len(page.todo) = 5
      /\ page.what # "user" => Len(page.todo) = 3
      BY <1>3, ReadsListed
<1>6. UsersKnown /\ IndexKnown
  <2>1. ~(5 < 5) /\ ~(3 < 2) /\ ~(5 < 2) /\ ~(3 < 1)
        OBVIOUS
  <2>  QED BY <1>5, <2>1 DEF UsersKnown, IndexKnown
<1>  QED BY <1>1, <1>2, <1>4, <1>6 DEF TelemetryInv, ReadsKnown

LEMMA StepKeepsInv == TelemetryInv /\ [Next]_vars => TelemetryInv'
BY PoolStep, StepFits, StepKnows DEF TelemetryInv

\* The inductive invariant holds for any number of nodes and workers. (fetchNodes and the
\* reads before it)
THEOREM TelemetryInvariantHolds == Spec => []TelemetryInv
BY InitInv, StepKeepsInv, PTL DEF Spec

\* Every variable keeps its type, whatever is read, answered or changed meanwhile.
THEOREM TelemetryTypeCorrect == Spec => []TypeOK
<1>1. TelemetryInv => TypeOK
      BY DEF TelemetryInv, PoolInv
<1>  QED BY <1>1, TelemetryInvariantHolds, PTL

LEMMA InitPromised == Init => Promise!Init
BY DEF Init, Promise!Init

\* Each step is one the promise allows, or shows nothing of itself.
LEMMA StepPromised ==
    PoolInv /\ [Next]_vars => [Promise!Next]_Promise!vars
<1> SUFFICES ASSUME PoolInv, [Next]_vars PROVE [Promise!Next]_Promise!vars
    OBVIOUS
<1> DEFINE fits == [n \in Nodes |-> Fitting(n, kind[n])]
<1>1. ASSUME UNCHANGED <<page, kind, result>> PROVE UNCHANGED Promise!vars
      BY <1>1 DEF Promise!vars
<1>2. CASE Others
      BY <1>1, <1>2 DEF Others, CreateUser, DeleteUser, AssignNode, DeleteNode, Changed, pool
<1>3. CASE ReadStep \/ ReadFails
  <2>1. /\ page.state = "asking" /\ UNCHANGED <<db, pool>>
        /\ page'.state \in {"asking", "failed"} /\ page'.targets \in SUBSET Nodes
        /\ page'.state = "failed" => page'.targets = page.targets
    <3>1. CASE ReadStep
          BY <3>1, ReadStepKeepsInv
    <3>2. CASE ReadFails
      <4>1. page.targets \in SUBSET Nodes
            BY DEF PoolInv, TypeOK, Pages
      <4>  QED BY <3>2, <4>1, FailedKeepsInv DEF ReadFails
    <3>  QED BY <1>3, <3>1, <3>2
  <2>2. UNCHANGED <<kind, result>>
        BY <2>1 DEF db, pool
  <2>3. CASE page'.state = "asking"
        BY <2>1, <2>2, <2>3 DEF Promise!Next, Promise!Ask
  <2>4. CASE page'.state = "failed"
        BY <2>1, <2>2, <2>4 DEF Promise!Next, Promise!Fail
  <2>  QED BY <2>1, <2>3, <2>4
<1>4. CASE StartFetch
  <2>1. /\ page.state = "asking" /\ page'.state = "fetching"
        /\ page'.targets = page.targets /\ UNCHANGED <<kind, result>>
        BY <1>4, StartKeepsInv DEF db
  <2>2. page.targets \in SUBSET Nodes
        BY DEF PoolInv, TypeOK, Pages
  <2>  QED BY <2>1, <2>2 DEF Promise!Next, Promise!Ask
<1>5. CASE Return
  <2>1. /\ page.state = "fetching" /\ page'.state = "returned" /\ page'.targets = page.targets
        /\ \A n \in page.targets : result[n] # NoEntry
        /\ UNCHANGED <<kind, result>>
        BY <1>5, ReturnKeepsInv DEF Return, db, pool
  <2>  QED BY <2>1 DEF Promise!Next, Promise!Return
<1>6. CASE TimeIsUp
      BY <1>1, <1>6 DEF TimeIsUp, db
<1>7. ASSUME NEW n \in Nodes, HandOver(n) PROVE UNCHANGED Promise!vars
      BY <1>1, <1>7 DEF HandOver, db
<1>8. ASSUME NEW n \in Nodes, Wrote(n) PROVE Promise!Next
  <2>1. page.state = "fetching" /\ n \in page.targets /\ result[n] = NoEntry
        BY <1>8, SlotInUse DEF Wrote
  <2>2. \E e \in fits[n] : result' = [result EXCEPT ![n] = e]
        BY <1>8 DEF Wrote
  <2>3. UNCHANGED <<page, kind>>
        BY <1>8 DEF Wrote, db
  <2>4. Promise!Write(n)
        BY <2>1, <2>2, <2>3 DEF Promise!Write
  <2>  QED BY <2>4 DEF Promise!Next
<1>9. CASE UNCHANGED vars
      BY <1>1, <1>9 DEF vars, db, pool
<1>  QED BY <1>2, <1>3, <1>4, <1>5, <1>6, <1>7, <1>8, <1>9, StepCases

\* The pool keeps the promise: one entry per node, written once and fitting the node, and all
\* of them there when the page is answered. (fetchNodes, fetchNodeView)
THEOREM PagesKeepPromise == Spec => PagePromise
<1>1. TelemetryInv => PoolInv
      BY DEF TelemetryInv
<1>  QED BY <1>1, InitPromised, StepPromised, TelemetryInvariantHolds, PTL
     DEF Spec, PagePromise, Promise!Spec

-----------------------------------------------------------------------------
(* Issues *)

\* A page that is returned has an entry for each of its nodes, one that fits it.
LEMMA ReturnedEntries ==
    ASSUME TelemetryInv, Returned, NEW n \in page.targets
    PROVE  n \in Nodes /\ kind[n] \in Kinds /\ result[n] \in Fitting(n, kind[n]) /\ result[n] \in Entries
<1>1. page.targets \subseteq Nodes /\ page.state = "returned" /\ kind \in [Nodes -> Kinds]
      BY DEF TelemetryInv, PoolInv, TypeOK, Pages, Returned
<1>2. left = {} /\ working = {}
      BY <1>1 DEF TelemetryInv, PoolInv, SlotsShared
<1>3. result[n] # NoEntry
      BY <1>1, <1>2 DEF TelemetryInv, PoolInv, SlotsShared
<1>4. result[n] \in Fitting(n, kind[n])
      BY <1>1, <1>3 DEF TelemetryInv, EntriesFit
<1>  QED BY <1>1, <1>4, FittingIsEntry

\* Only a node that was passed over has a reason, and its entry says nothing else.
LEMMA FittingShape ==
    ASSUME NEW n \in Nodes, NEW k \in Kinds, NEW e \in Fitting(n, k)
    PROVE  \/ e.reason = ""
           \/ /\ e.reason = k /\ k # "ready"
              /\ e.status = "disabled" /\ ~e.error /\ e.warnings = "none"
<1>1. CASE e = Canceled
      BY <1>1 DEF Canceled, Entry
<1>2. CASE k # "ready" /\ e = Skipped(k)
      BY <1>2 DEF Skipped, Entry
<1>3. CASE e \in AgentAnswers(n)
  <2>1. \E status, warnings, S : e = Answered(status, warnings, S)
    <3>1. CASE n \in Busy
          BY <1>3, <3>1 DEF AgentAnswers
    <3>2. CASE n \notin Busy
          BY <1>3, <3>2 DEF AgentAnswers
    <3>  QED BY <3>1, <3>2
  <2>2. \A status, warnings, S : Answered(status, warnings, S).reason = ""
        BY DEF Answered
  <2>  QED BY <2>1, <2>2
<1>  QED BY <1>1, <1>2, <1>3 DEF Fitting

LEMMA IssueOfEntry ==
    ASSUME NEW k \in Kinds, NEW e \in Entries,
           \/ e.reason = ""
           \/ /\ e.reason = k /\ k # "ready"
              /\ e.status = "disabled" /\ ~e.error /\ e.warnings = "none"
    PROVE  /\ NodeHasIssue(e) <=> TelemetryIssueText(e) # ""
           /\ e.reason = "planned" => ~NodeHasIssue(e) /\ e.status # "ok"
           /\ ~NodeHasIssue(e) => e.status = "ok" \/ e.reason = "planned"
<1>1. CASE e.reason = "planned"
  <2>1. NodeIssueCode(e) = ""
        BY <1>1 DEF NodeIssueCode
  <2>2. ~e.error /\ e.warnings = "none" /\ e.status = "disabled"
        BY <1>1
  <2>3. TelemetryIssueText(e) = ""
        BY <1>1, <2>1, <2>2 DEF TelemetryIssueText
  <2>  QED BY <1>1, <2>1, <2>2, <2>3 DEF NodeHasIssue
<1>2. CASE e.reason \in {"missing_api_url", "missing_node_id", "missing_node_secret"}
  <2>1. NodeIssueCode(e) = e.reason
        BY <1>2 DEF NodeIssueCode
  <2>2. ~e.error /\ e.warnings = "none"
        BY <1>2
  <2>3. TelemetryIssueText(e) = e.reason
        BY <1>2, <2>1, <2>2 DEF TelemetryIssueText
  <2>  QED BY <1>2, <2>1, <2>3 DEF NodeHasIssue
<1>3. CASE e.reason = ""
  <2>1. e.status \in Statuses /\ e.error \in BOOLEAN
        BY DEF Entries
  <2>2. NodeIssueCode(e) =
            IF e.error THEN "collector_unavailable"
            ELSE IF e.warnings = "some" THEN "collector_warning"
            ELSE IF e.status = "partial" THEN "collector_partial"
            ELSE IF e.status = "unavailable" THEN "collector_unavailable"
            ELSE IF e.status = "disabled" THEN "collector_disabled"
            ELSE ""
        BY <1>3 DEF NodeIssueCode
  <2>3. TelemetryIssueText(e) =
            IF e.error THEN "error"
            ELSE IF e.warnings = "some" THEN "warnings"
            ELSE NodeIssueCode(e)
        BY <1>3, <2>2 DEF TelemetryIssueText
  <2>4. NodeHasIssue(e) <=> TelemetryIssueText(e) # ""
        BY <2>2, <2>3 DEF NodeHasIssue
  <2>5. ~NodeHasIssue(e) => e.status = "ok"
        BY <2>1, <2>2 DEF NodeHasIssue, Statuses
  <2>  QED BY <1>3, <2>4, <2>5
<1>  QED BY <1>1, <1>2, <1>3 DEF Kinds

LEMMA ThreeParts ==
    ASSUME NEW S, NEW A, NEW B, NEW C, IsFiniteSet(S), S = A \cup B \cup C,
           A \cap B = {}, A \cap C = {}, B \cap C = {}
    PROVE  Cardinality(S) = Cardinality(A) + Cardinality(B) + Cardinality(C)
<1>1. IsFiniteSet(A) /\ IsFiniteSet(B) /\ IsFiniteSet(C) /\ IsFiniteSet(A \cup B)
  <2>1. A \subseteq S /\ B \subseteq S /\ C \subseteq S /\ A \cup B \subseteq S
        OBVIOUS
  <2>  QED BY <2>1, FS_Subset
<1>2. /\ Cardinality(A) \in Nat /\ Cardinality(B) \in Nat /\ Cardinality(C) \in Nat
      /\ Cardinality(A \cup B) \in Nat
      BY <1>1, FS_CardinalityType
<1>3. Cardinality({}) = 0
      BY FS_EmptySet
<1>4. Cardinality(A \cup B) = Cardinality(A) + Cardinality(B) - Cardinality(A \cap B)
      BY <1>1, FS_Union
<1>5. Cardinality((A \cup B) \cup C)
        = Cardinality(A \cup B) + Cardinality(C) - Cardinality((A \cup B) \cap C)
      BY <1>1, FS_Union
<1>6. Cardinality(A \cap B) = 0 /\ Cardinality((A \cup B) \cap C) = 0
  <2>1. A \cap B = {} /\ (A \cup B) \cap C = {}
        OBVIOUS
  <2>  QED BY <1>3, <2>1
<1>7. Cardinality(A \cup B) = Cardinality(A) + Cardinality(B)
      BY <1>2, <1>4, <1>6
<1>8. Cardinality((A \cup B) \cup C) = Cardinality(A \cup B) + Cardinality(C)
      BY <1>2, <1>5, <1>6
<1>  QED BY <1>2, <1>7, <1>8

\* Every node of a page is accounted for once, and has a text exactly when it is counted as
\* having an issue. (buildSummary, NodeIssueCode and telemetryIssueText)
THEOREM IssuesAreExplained == Spec => []IssuesExplained
<1>1. TelemetryInv => IssuesExplained
  <2> SUFFICES ASSUME TelemetryInv, Returned
               PROVE  LET summary == Summary(result, page.targets)
                          planned == {n \in page.targets : result[n].reason = "planned"}
                      IN /\ summary.ok \cup summary.issues \cup planned = page.targets
                         /\ Cardinality(summary.ok) + Cardinality(summary.issues) + Cardinality(planned)
                              = Cardinality(page.targets)
                         /\ \A n \in page.targets :
                               n \in summary.issues <=> TelemetryIssueText(result[n]) # ""
      BY DEF IssuesExplained
  <2> DEFINE ok == {n \in page.targets : ~NodeHasIssue(result[n]) /\ result[n].status = "ok"}
             issues == {n \in page.targets : NodeHasIssue(result[n])}
             planned == {n \in page.targets : result[n].reason = "planned"}
  <2>1. \A n \in page.targets :
            /\ NodeHasIssue(result[n]) <=> TelemetryIssueText(result[n]) # ""
            /\ result[n].reason = "planned" => ~NodeHasIssue(result[n]) /\ result[n].status # "ok"
            /\ ~NodeHasIssue(result[n]) =>
                  result[n].status = "ok" \/ result[n].reason = "planned"
    <3> SUFFICES ASSUME NEW n \in page.targets
                 PROVE  /\ NodeHasIssue(result[n]) <=> TelemetryIssueText(result[n]) # ""
                        /\ result[n].reason = "planned" =>
                              ~NodeHasIssue(result[n]) /\ result[n].status # "ok"
                        /\ ~NodeHasIssue(result[n]) =>
                              result[n].status = "ok" \/ result[n].reason = "planned"
        OBVIOUS
    <3>1. /\ n \in Nodes /\ kind[n] \in Kinds /\ result[n] \in Fitting(n, kind[n])
          /\ result[n] \in Entries
          BY ReturnedEntries
    <3>  QED BY <3>1, FittingShape, IssueOfEntry
  <2>2. page.targets = ok \cup issues \cup planned
        BY <2>1
  <2>3. ok \cap issues = {} /\ ok \cap planned = {} /\ issues \cap planned = {}
        BY <2>1
  <2>4. IsFiniteSet(page.targets)
    <3>1. page.targets \subseteq Nodes
          BY DEF TelemetryInv, PoolInv, TypeOK, Pages
    <3>  QED BY <3>1, IdsAssumption, FS_Subset
  <2>5. Cardinality(page.targets) = Cardinality(ok) + Cardinality(issues) + Cardinality(planned)
        BY <2>2, <2>3, <2>4, ThreeParts
  <2>6. Summary(result, page.targets).ok = ok /\ Summary(result, page.targets).issues = issues
        BY DEF Summary
  <2>7. \A n \in page.targets : n \in issues <=> TelemetryIssueText(result[n]) # ""
        BY <2>1
  <2> HIDE DEF ok, issues
  <2>  QED BY <2>2, <2>5, <2>6, <2>7
<1>  QED BY <1>1, TelemetryInvariantHolds, PTL

\* No session that the filter lets through is missing because it was not asked for.
\* (Sessions in handlers.go, TelemetrySessions, filterSessions)
THEOREM FilterLosesNone == Spec => []FilterFindsAll
<1>1. ASSUME NEW S, NEW status \in Filters, NEW requested \in BOOLEAN
      PROVE  FilterSessions(S, status) \subseteq Reported(S, IncludeRecent(status, requested))
  <2>1. CASE status = "active"
        BY <2>1 DEF FilterSessions, Reported
  <2>2. CASE status # "active"
        BY <2>2 DEF FilterSessions, Reported, IncludeRecent, Filters
  <2>  QED BY <2>1, <2>2
<1>2. FilterFindsAll
      BY <1>1 DEF FilterFindsAll
<1>  QED BY <1>2, PTL

-----------------------------------------------------------------------------
(* Attribution *)

\* Who a session is attributed to: a user that was read, by the id, or else as the only
\* holder of the name.
LEMMA Attribution ==
    ASSUME NEW n, NEW s \in Sessions, page.userMap \in SUBSET Users,
           page.index[n] \in [Names -> SUBSET Users]
    PROVE  LET u == ShownFor(n, s)
           IN /\ u \in Users => /\ u \in page.userMap
                                /\ s.uid # "" => s.uid = u
                                /\ s.uid = "" => page.index[n][s.name] = {u}
              /\ u \notin Users => u = IF page.what = "user" THEN Excluded ELSE Unknown
              /\ \A v \in page.userMap : s.uid = "" /\ page.index[n][s.name] = {v} => u = v
<1> DEFINE holders == page.index[n][s.name]
           found == IF s.uid # "" THEN {s.uid}
                    ELSE IF Cardinality(holders) = 1 THEN holders ELSE {}
           matched == found \cap page.userMap
           nobody == IF page.what = "user" THEN Excluded ELSE Unknown
           u == ShownFor(n, s)
<1>1. u = IF matched # {} THEN CHOOSE w \in matched : TRUE ELSE nobody
      BY DEF ShownFor, ResolveSessionUser
<1>2. s.uid = "" => (Cardinality(holders) = 1 <=> \E w : holders = {w})
  <2>1. holders \in SUBSET Users
        BY DEF Sessions
  <2>2. IsFiniteSet(holders)
        BY <2>1, IdsAssumption, FS_Subset
  <2>  QED BY <2>2, FS_Singleton
<1>3. nobody \notin Users
      BY IdsAssumption DEF Excluded, Unknown
<1> HIDE DEF u, nobody
<1>4. CASE matched = {}
  <2>1. u = nobody
        BY <1>1, <1>4
  <2>2. \A v \in page.userMap : ~(s.uid = "" /\ holders = {v})
        BY <1>2, <1>4
  <2>  QED BY <1>3, <2>1, <2>2 DEF u, nobody
<1>5. CASE matched # {}
  <2>1. u \in matched /\ u \in Users
        BY <1>1, <1>5
  <2>2. s.uid # "" => s.uid = u
        BY <2>1
  <2>3. s.uid = "" => holders = {u}
        BY <1>2, <2>1
  <2>  QED BY <2>1, <2>2, <2>3 DEF u
<1>  QED BY <1>4, <1>5

\* A page never shows a session for anyone but the user whose id the agent reports; without
\* an id, exactly for the user that alone has its name on that node, unless somebody
\* changed the names there meanwhile. (the order of the reads, resolveSessionUser, the
\* index)
THEOREM SessionsAreAttributed == Spec => []SessionsAttributed
<1>1. TelemetryInv => SessionsAttributed
  <2> SUFFICES ASSUME TelemetryInv, Returned, NEW n \in page.targets,
                      NEW s \in result[n].sessions
               PROVE  LET u == ShownFor(n, s)
                          only == page.what = "user"
                      IN /\ only => u \in {page.u, Excluded}
                         /\ u \in Users => s.uid \in {u, ""}
                         /\ n \notin touched /\ s.uid = "" =>
                               \A v \in IF only THEN {page.u} ELSE Users :
                                   u = v <=> Holders(n)[s.name] = {v}
      BY DEF SessionsAttributed
  <2> DEFINE u == ShownFor(n, s)
             only == page.what = "user"
  <2>1. /\ page \in Pages /\ page.targets \subseteq Nodes /\ page.userMap \in SUBSET Users
        /\ page.index \in [Nodes -> [Names -> SUBSET Users]] /\ page.u \in Users
        BY DEF TelemetryInv, PoolInv, TypeOK, Pages
  <2>2. s \in Sessions /\ s.name \in Names
    <3>1. result[n] \in Entries
          BY ReturnedEntries
    <3>  QED BY <3>1 DEF Entries, Sessions
  <2>3. page.index[n] \in [Names -> SUBSET Users]
        BY <2>1
  <2>4. /\ u \in Users => /\ u \in page.userMap
                          /\ s.uid # "" => s.uid = u
                          /\ s.uid = "" => page.index[n][s.name] = {u}
        /\ u \notin Users => u = IF only THEN Excluded ELSE Unknown
        /\ \A v \in page.userMap : s.uid = "" /\ page.index[n][s.name] = {v} => u = v
        BY <2>1, <2>2, <2>3, Attribution
  <2>5. /\ only => page.userMap = {page.u}
        /\ ~only => \A v \in Users, m \in Nodes \ touched :
                       name[v][m] # NoName => v \in page.userMap
        /\ \A m \in page.targets \ touched : page.index[m] = Holders(m)
    <3>1. page.todo = <<>> /\ Len(page.todo) = 0
          BY DEF TelemetryInv, ReadsKnown, ReadsInOrder, Returned
    <3>  QED BY <3>1 DEF TelemetryInv, ReadsKnown, UsersKnown, IndexKnown
  <2> HIDE DEF u
  <2>6. only => u \in {page.u, Excluded}
        BY <2>4, <2>5
  <2>7. u \in Users => s.uid \in {u, ""}
        BY <2>4
  <2>8. ASSUME n \notin touched, s.uid = "", NEW v \in IF only THEN {page.u} ELSE Users
        PROVE  u = v <=> Holders(n)[s.name] = {v}
    <3>1. v \in Users /\ page.index[n] = Holders(n) /\ n \in Nodes \ touched
          BY <2>1, <2>5, <2>8
    <3>2. u = v => Holders(n)[s.name] = {v}
          BY <2>4, <2>8, <3>1
    <3>3. ASSUME Holders(n)[s.name] = {v} PROVE u = v
      <4>1. v \in page.userMap
        <5>1. CASE only
              BY <2>5, <2>8, <5>1
        <5>2. CASE ~only
          <6>1. name[v][n] = s.name
                BY <2>2, <3>3 DEF Holders
          <6>2. name[v][n] # NoName
                BY <2>2, <6>1, NamesAssumption
          <6>  QED BY <2>5, <3>1, <5>2, <6>2
        <5>  QED BY <5>1, <5>2
      <4>  QED BY <2>4, <2>8, <3>1, <3>3, <4>1
    <3>  QED BY <3>2, <3>3
  <2>  QED BY <2>6, <2>7, <2>8 DEF u
<1>  QED BY <1>1, TelemetryInvariantHolds, PTL
=============================================================================
