------------------------------ MODULE UserPages ------------------------------
(***************************************************************************)
(* What the panel's pages say about users and nodes: the badge of a user,  *)
(* the counters of the dashboard, the list filter, the subscription links  *)
(* of the user page (internal/http/handlers/view_helpers.go, handlers.go)  *)
(* and the queries behind them (internal/users/ui_queries.go). A page is a *)
(* function of the rows and the clock.                                     *)
(***************************************************************************)
EXTENDS Subscriptions

CONSTANT Soon    \* how long before its expiry a user "expires soon" (72 hours)

ASSUME SoonAssumption == Soon \in Nat \ {0}

Rows == {u \in Users : user[u].exists}

Unlimited(u) == user[u].expires = Never

-----------------------------------------------------------------------------
(* Badges, computed by the panel *)

IsUserExpiringSoon(u) ==
    ~Unlimited(u) /\ user[u].expires > now /\ user[u].expires < now + Soon

\* Faulty variant: expiry is looked at before the switch.
UserStatusByExpiry(u) ==
    IF IsExpired(u) THEN "expired"
    ELSE IF ~user[u].enabled THEN "disabled"
    ELSE IF IsUserExpiringSoon(u) THEN "warning"
    ELSE "success"

UserStatus(u) ==
    IF ~user[u].enabled THEN "disabled"
    ELSE IF IsExpired(u) THEN "expired"
    ELSE IF IsUserExpiringSoon(u) THEN "warning"
    ELSE "success"

\* The users the list shows under a filter.
MatchesUserFilter(filter) ==
    LET tone == CASE filter = "active" -> "success"
                  [] filter = "expires-soon" -> "warning"
                  [] OTHER -> filter
    IN {u \in Rows : UserStatus(u) = tone}

-----------------------------------------------------------------------------
(* Counters, computed by the database *)

DashboardStats ==
    LET limited == {u \in Rows : user[u].enabled /\ ~Unlimited(u)}
    IN [total    |-> Rows,
        active   |-> {u \in Rows : user[u].enabled /\ (Unlimited(u) \/ user[u].expires > now)},
        expired  |-> {u \in limited : user[u].expires <= now},
        disabled |-> {u \in Rows : ~user[u].enabled},
        soon     |-> {u \in limited : user[u].expires > now /\ user[u].expires <= now + Soon}]

UpcomingExpirations ==
    {u \in Rows : user[u].enabled /\ ~Unlimited(u) /\ user[u].expires > now}

-----------------------------------------------------------------------------
(* The user page *)

AccessDetailForUser(u) == {n \in Nodes : access[u][n] # "none"}

HasDetailedProtocolAccess(u, protocol) ==
    \E n \in AccessDetailForUser(u) :
        n \in WithProtocol(Nodes, protocol) /\ access[u][n] = "on" /\ host[n].enabled

\* Faulty variant: the links for one protocol are always offered.
AllSubscriptionLinks(u) == {"hiddify", "hiddify-json", "", "json", "raw", "mierus", "naive"}

SubscriptionLinks(u) ==
    {"hiddify", "hiddify-json", "", "json", "raw"}
      \cup (IF HasDetailedProtocolAccess(u, "mieru") THEN {"mierus"} ELSE {})
      \cup (IF HasDetailedProtocolAccess(u, "naive") THEN {"naive"} ELSE {})

-----------------------------------------------------------------------------
(* Properties *)

\* Whether a user is let in is decided anew in many places: by the query a sync sends to
\* the nodes, the check of a subscription, the reconciler's query, the badge, the filter
\* of the list and the counters. They agree for every user at every instant, expiry
\* included, and every user is counted once. "Expires soon" is the one that differs: the
\* counter includes the user that expires exactly Soon from now, the badge does not.
StandingsAgree ==
    LET stats == DashboardStats
    IN /\ stats.total = stats.active \cup stats.expired \cup stats.disabled
       /\ Cardinality(stats.total) = Cardinality(stats.active)
            + Cardinality(stats.expired) + Cardinality(stats.disabled)
       /\ MatchesUserFilter("expired") = stats.expired
       /\ MatchesUserFilter("disabled") = stats.disabled
       /\ MatchesUserFilter("active") \cup MatchesUserFilter("expires-soon") = stats.active
       /\ MatchesUserFilter("expires-soon") =
            {u \in stats.soon : user[u].expires # now + Soon}
       /\ stats.active = {u \in Rows : MustBeServed(u)}
       /\ stats.active = {u \in Rows : Eligible(u)}
       /\ stats.soon \subseteq UpcomingExpirations /\ UpcomingExpirations \subseteq stats.active
       /\ UsersPendingExpiryReconcile \subseteq stats.expired

\* The user page offers the link of a single protocol exactly when the subscription
\* behind it has nodes to list, however access rows and nodes are switched on and off.
\* (UserDetail, hasDetailedProtocolAccess and BuildByToken)
LinksWork ==
    \A u \in Rows : \A format \in {"mierus", "naive"} :
        format \in SubscriptionLinks(u)
            <=> BuildSubscription(ActiveAccessForSubscription(u), format).ok
=============================================================================
