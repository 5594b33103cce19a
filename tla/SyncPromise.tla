----------------------------- MODULE SyncPromise -----------------------------
(***************************************************************************)
(* What SyncNode promises its callers about one node, without versions,    *)
(* statements or messages. The users a node must serve go through          *)
(* generations 0, 1, 2, ...; the node has one of them installed. A sync    *)
(* that reports success vouches for the generation that was current when   *)
(* it began: from then on the node has that generation or a later one.     *)
(*                                                                         *)
(* The one exception the code makes is Override: the retry after a         *)
(* stale_version answer installs whatever its first attempt had read. It   *)
(* suspends the promise until an ordinary sync is installed again.         *)
(***************************************************************************)
EXTENDS Integers

VARIABLES
    want,        \* current generation
    have,        \* generation the node has installed
    vouched,     \* newest generation a successful sync vouched for
    overridden   \* whether what is installed came from a retry

Init ==
    /\ want = 0
    /\ have = 0
    /\ vouched = 0
    /\ overridden = FALSE

Change ==
    /\ want' = want + 1
    /\ UNCHANGED <<have, vouched, overridden>>

Install ==
    /\ have' \in vouched..want
    /\ overridden' = FALSE
    /\ UNCHANGED <<want, vouched>>

Override ==
    /\ have' \in 0..want
    /\ overridden' = TRUE
    /\ UNCHANGED <<want, vouched>>

Vouch ==
    /\ vouched' \in vouched..want
    /\ overridden \/ vouched' <= have
    /\ UNCHANGED <<want, have, overridden>>

Next == Change \/ Install \/ Override \/ Vouch

Spec == Init /\ [][Next]_<<want, have, vouched, overridden>>
=============================================================================
