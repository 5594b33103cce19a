---------------------------- MODULE Subscriptions ----------------------------
(***************************************************************************)
(* What a subscription contains (internal/subscriptions/subscriptions.go): *)
(* which of a user's nodes are listed, and what each format makes of them. *)
(* It only reads, so an answer is a function of the rows and the clock.    *)
(*                                                                         *)
(* Abstractions: a node stands for the link, URI or outbound built for it; *)
(* hosts, ports, credentials, titles and the order of the entries are left *)
(* out, and nodes are taken to have tags of their own in sing-box JSON     *)
(* (outboundTag does not ensure that).                                     *)
(***************************************************************************)
EXTENDS UserAccess

CONSTANT Naive    \* the nodes with protocol naive; the others have mieru

ASSUME NaiveAssumption == Naive \subseteq Nodes

\* Tags of nodes begin with "node-": none is that of an outbound every configuration has.
ASSUME TagAssumption == Nodes \cap {"direct", "dns-out"} = {}

WithProtocol(S, protocol) == IF protocol = "naive" THEN S \cap Naive ELSE S \ Naive

\* Faulty variant: the access row's own switch is not looked at.
AssignedVisibleNodes(u) == {n \in Nodes : access[u][n] # "none" /\ host[n].enabled}

ActiveAccessForSubscription(u) == {n \in Nodes : access[u][n] = "on" /\ host[n].enabled}

\* BuildByToken goes on for these users only.
Eligible(u) == user[u].enabled /\ ~IsExpired(u)

-----------------------------------------------------------------------------
(* Formats *)

\* The formats a client can ask for; "unknown" stands for all other values.
Formats == {"", "json", "karing", "sing-box", "hiddify", "hiddify-json", "raw",
            "mierus", "naive", "unknown"}

\* Faulty variant: an unknown format is passed on as it is.
NormalizeKnownFormat(format) ==
    IF format \in {"", "karing", "sing-box"} THEN "json" ELSE format

NormalizeFormat(format) ==
    IF format \in {"hiddify", "hiddify-json", "raw", "mierus", "naive"}
    THEN format
    ELSE "json"

Document(S) == [ok |-> TRUE, nodes |-> S]

NoNodes == [ok |-> FALSE, nodes |-> {}]

\* Formats that make no sense without nodes answer with an error instead.
Required(S) == IF S = {} THEN NoNodes ELSE Document(S)

BuildRawMieru(S) == Required(WithProtocol(S, "mieru"))
BuildRawNaive(S) == Required(WithProtocol(S, "naive"))
BuildHiddifyAll(S) == Required(WithProtocol(S, "mieru") \cup WithProtocol(S, "naive"))
BuildRawAll(S) == Document(WithProtocol(S, "naive") \cup WithProtocol(S, "mieru"))
BuildHiddifyJSON(S) == Document(WithProtocol(S, "mieru") \cup WithProtocol(S, "naive"))

\* Outbounds of a sing-box configuration, and those the selector offers; "direct" is
\* always among the outbounds.
SingboxOutbounds(S) ==
    WithProtocol(S, "naive") \cup WithProtocol(S, "mieru") \cup {"direct", "dns-out"}

SingboxSelector(S) == IF S = {} THEN {"direct"} ELSE S

BuildSingboxJSON(S) == Document(SingboxOutbounds(S) \ {"direct", "dns-out"})

\* BuildSubscriptionWithMetadata
BuildSubscription(S, format) ==
    LET name == NormalizeFormat(format)
    IN CASE name = "hiddify" -> BuildHiddifyAll(S)
         [] name = "hiddify-json" -> BuildHiddifyJSON(S)
         [] name = "mierus" -> BuildRawMieru(S)
         [] name = "naive" -> BuildRawNaive(S)
         [] name = "raw" -> BuildRawAll(S)
         [] OTHER -> BuildSingboxJSON(S)

\* BuildByToken. The token, the user and the rows are read one after the other; here at
\* once.
BuildByToken(u, format) ==
    IF user[u].exists /\ Eligible(u)
    THEN BuildSubscription(ActiveAccessForSubscription(u), format)
    ELSE NoNodes

\* The content type BuildSubscriptionWithMetadata picks, and the name of the file the
\* handler gives the answer.
ContentIsJSON(format) ==
    NormalizeFormat(format) \notin {"hiddify", "mierus", "naive", "raw"}

FilenameIsJSON(format) == NormalizeFormat(format) \in {"json", "hiddify-json"}

-----------------------------------------------------------------------------
(* Properties *)

\* The formats are written one by one, but they are views of one list: a user gets the
\* same nodes whichever a client asks for, the two formats for one protocol share them
\* out, and a client is given an error instead of an empty list of links. A sing-box
\* selector is never empty and offers only outbounds that are defined. The file name
\* says what the content is. (BuildSubscriptionWithMetadata, ContentDispositionFilename)
FormatsAgree ==
    \A u \in Users :
        LET S == ActiveAccessForSubscription(u)
            In(format) == BuildSubscription(S, format)
        IN /\ \A format \in Formats \ {"mierus", "naive"} : In(format).nodes = S
           /\ In("mierus").nodes \cup In("naive").nodes = S
           /\ In("mierus").nodes \cap In("naive").nodes = {}
           /\ \A format \in Formats : ~In(format).ok => In(format).nodes = {}
           /\ \A format \in {"hiddify", "mierus", "naive"} :
                 In(format).ok => In(format).nodes # {}
           /\ SingboxSelector(S) # {} /\ SingboxSelector(S) \subseteq SingboxOutbounds(S)
           /\ \A format \in Formats : ContentIsJSON(format) <=> FilenameIsJSON(format)
=============================================================================
