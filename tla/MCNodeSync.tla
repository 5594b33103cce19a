----------------------------- MODULE MCNodeSync -----------------------------
(* Instances of NodeSync for TLC. *)
EXTENDS NodeSyncInvariant, TLC

\* Callers are interchangeable; used by the runs without liveness.
ProcSymmetry == Permutations(Procs)

\* node_sync_events is only ever written: no action reads it and, in the runs that use
\* this view, only the type invariant does.
WithoutEvents == <<node, gen, agent, net, proc, calls, confirmed>>

SyncOnly == {"sync"}

EveryHandler == AllOps
=============================================================================
