-------------------------- MODULE TelemetryInvariant --------------------------
(* The inductive invariant of Telemetry: how the loop, the workers and the    *)
(* result slots share out the nodes of a page, and what the reads so far have *)
(* found out.                                                                 *)
EXTENDS Telemetry

\* A node waits, or is with one worker, or its slot is written; while the page still reads,
\* no slot is.
SlotsShared ==
    /\ left \cap working = {}
    /\ left \cup working # {} => page.state = "fetching"
    /\ \A n \in page.targets :
          page.state \in {"fetching", "returned"} =>
              (result[n] = NoEntry <=> n \in left \cup working)
    /\ page.state = "asking" => \A n \in Nodes : result[n] = NoEntry

PoolInv == TypeOK /\ SlotsShared

\* An entry that is written fits its node.
EntriesFit == \A n \in Nodes : result[n] # NoEntry => result[n] \in Fitting(n, kind[n])

\* The reads are made in order, and all of them before the agents are asked.
ReadsInOrder ==
    LET all == Reads(page.what)
    IN /\ Len(page.todo) <= Len(all)
       /\ \A i \in 1..Len(page.todo) : page.todo[i] = all[Len(all) - Len(page.todo) + i]
       /\ page.state \in {"fetching", "returned"} => page.todo = <<>>

\* Whoever has a name on a node that was not touched since is among the users read; so is
\* the user of a page about one.
UsersKnown ==
    IF page.what = "user"
    THEN Len(page.todo) < 5 => page.userMap = {page.u}
    ELSE Len(page.todo) < 2 =>
            \A u \in Users, n \in Nodes \ touched : name[u][n] # NoName => u \in page.userMap

\* The index says who has which name on the nodes that were not touched since.
IndexKnown ==
    Len(page.todo) < (IF page.what = "user" THEN 2 ELSE 1) =>
        \A n \in page.targets \ touched : page.index[n] = Holders(n)

ReadsKnown == ReadsInOrder /\ UsersKnown /\ IndexKnown

\* The invariant that the theorems about Telemetry follow from.
TelemetryInv == PoolInv /\ EntriesFit /\ ReadsKnown
=============================================================================
