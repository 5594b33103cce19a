--------------------------- MODULE TelemetryPromise ---------------------------
(***************************************************************************)
(* What the telemetry service promises a page, whatever its workers, the   *)
(* agents and the clock do: it answers once, with exactly one entry for    *)
(* each node it was asked about, each of a kind that fits the node, or it  *)
(* reports an error and no entry. Telemetry implements this.               *)
(***************************************************************************)
CONSTANTS
    Nodes,
    NoEntry     \* an entry that has not been written

VARIABLES
    state,      \* "asking", "fetching", "returned" or "failed"
    asked,      \* the nodes the page is about
    fits,       \* the entries that fit each node
    entry       \* the entries written

vars == <<state, asked, fits, entry>>

Init ==
    /\ state = "asking"
    /\ asked = {}
    /\ entry = [n \in Nodes |-> NoEntry]

\* A page may ask about several sets of nodes before it settles on one.
Ask(S) ==
    /\ state = "asking"
    /\ asked' = S
    /\ state' \in {"asking", "fetching"}
    /\ UNCHANGED <<fits, entry>>

Fail ==
    /\ state = "asking"
    /\ state' = "failed"
    /\ UNCHANGED <<asked, fits, entry>>

\* An entry is written once and stays.
Write(n) ==
    /\ state = "fetching"
    /\ n \in asked
    /\ entry[n] = NoEntry
    /\ \E answer \in fits[n] : entry' = [entry EXCEPT ![n] = answer]
    /\ UNCHANGED <<state, asked, fits>>

Return ==
    /\ state = "fetching"
    /\ \A n \in asked : entry[n] # NoEntry
    /\ state' = "returned"
    /\ UNCHANGED <<asked, fits, entry>>

Next ==
    \/ \E S \in SUBSET Nodes : Ask(S)
    \/ Fail
    \/ \E n \in Nodes : Write(n)
    \/ Return

Spec == Init /\ [][Next]_vars
=============================================================================
