----------------------------- MODULE QueryTables -----------------------------
(***************************************************************************)
(* What the dashboard's hooks and pages (dashboard/src) read from the API, *)
(* under which query key, and which keys a mutation invalidates.  One      *)
(* definition per file.  A key is the sequence of its parts; "params" and  *)
(* "id" stand for the parameters and the id in it.  What is read and       *)
(* written are the tables behind the API's routes.                         *)
(***************************************************************************)
EXTENDS FiniteSets, SequencesExt

Q(key, reads) == [key |-> key, reads |-> reads]

\* A mutation that invalidates in onSettled: after an answer and after an error.
M(writes, keys) ==
    [writes |-> writes, invalidates |-> keys, settled |-> TRUE,
     cancels |-> {}, edits |-> {}, rewrites |-> {}, creates |-> {}]

\* One that invalidates after an answer only (onSuccess, or behind an await).
S(writes, keys) == [M(writes, keys) EXCEPT !.settled = FALSE]

\* An optimistic one: it cancels fetches, edits entries in place, rewrites
\* others unchanged, and creates an entry where there is none.
Optimistic(m, cancels, edits, rewrites, creates) ==
    [m EXCEPT !.cancels = cancels, !.edits = edits, !.rewrites = rewrites, !.creates = creates]

Hooks(queries, mutations) == [queries |-> queries, mutations |-> mutations]

-----------------------------------------------------------------------------
(* The customer's hooks.                                                   *)

useEndpoints == Hooks(
    {Q(<<"endpoints">>, {"endpoints"}), Q(<<"endpoint", "id">>, {"endpoints"})},
    {M({"endpoints"}, {<<"endpoints">>}),
     Optimistic(M({"endpoints"}, {<<"endpoint", "id">>, <<"endpoints">>, <<"stats">>}),
                {<<"endpoint", "id">>, <<"endpoints">>}, {<<"endpoint", "id">>, <<"endpoints">>},
                {}, {<<"endpoint", "id">>})})

useNotifications == Hooks(
    {Q(<<"notifications", "params">>, {"notifications"})},
    {Optimistic(M({"notifications"}, {<<"notifications">>}), {<<"notifications">>},
                {<<"notifications", "params">>}, {<<"notifications">>}, {}),
     M({"deliveries"}, {<<"delivery", "id">>, <<"delivery", "id", "attempts">>, <<"webhooks">>,
                        <<"delivery-logs">>, <<"stats">>})})

useUnreadCounts == Hooks({Q(<<"notifications", "unread-count">>, {"notifications"})}, {})

useBroadcasts == Hooks(
    {Q(<<"broadcasts", "active">>, {"broadcasts", "dismissals"}),
     Q(<<"broadcasts", "unread-count">>, {"broadcasts", "dismissals"})},
    {Optimistic(M({"dismissals"}, {<<"broadcasts">>}), {<<"broadcasts">>},
                {<<"broadcasts", "active">>}, {}, {<<"broadcasts", "active">>})})

useWebhooks == Hooks(
    {Q(<<"webhooks", "params">>, {"deliveries"}), Q(<<"delivery", "id">>, {"deliveries"}),
     Q(<<"delivery", "id", "attempts">>, {"deliveries"}), Q(<<"status-counts">>, {"deliveries"}),
     Q(<<"delivery-logs", "params">>, {"deliveries"})},
    {M({"deliveries"}, {<<"webhooks">>, <<"stats">>, <<"status-counts">>})})

useAnalytics == Hooks(
    {Q(<<"stats">>, {"deliveries", "endpoints"}), Q(<<"analytics", "delivery-trend", "params">>, {"deliveries"}),
     Q(<<"analytics", "success-rate", "params">>, {"deliveries"}),
     Q(<<"endpoint-health", "params">>, {"deliveries", "endpoints"}), Q(<<"latency-trend", "params">>, {"deliveries"})}, {})

useApiKeys == Hooks({Q(<<"api-keys">>, {"api_keys"})}, {M({"api_keys"}, {<<"api-keys">>})})

useServiceTokens == Hooks({Q(<<"service-tokens">>, {"service_tokens"})},
                          {M({"service_tokens"}, {<<"service-tokens">>})})

useRateLimits == Hooks({Q(<<"rate-limits">>, {"rate_limits"})}, {M({"rate_limits"}, {<<"rate-limits">>})})

useAlerts == Hooks({Q(<<"alerts">>, {"alert_rules"})}, {M({"alert_rules"}, {<<"alerts">>})})

useTransforms == Hooks({Q(<<"transforms", "params">>, {"transforms"})},
                       {M({"transforms"}, {<<"transforms", "params">>})})

useInboundConfigs == Hooks({Q(<<"inbound-configs">>, {"inbound_configs"})},
                           {M({"inbound_configs"}, {<<"inbound-configs">>})})

usePortal == Hooks(
    {Q(<<"portal-config">>, {"portal"}), Q(<<"portal-embed-code">>, {"customers"}),
     Q(<<"portal-profile">>, {"customers"}), Q(<<"portal-usage">>, {"customers", "deliveries"})},
    {M({"portal"}, {<<"portal-config">>})})

useBilling == Hooks(
    {Q(<<"billing", "usage">>, {"customers"}), Q(<<"billing", "invoices">>, {"invoices"}),
     Q(<<"billing", "subscription">>, {"customers"}), Q(<<"billing", "overage">>, {"overage_settings"})}, {})

useTeams == Hooks(
    {Q(<<"teams">>, {"teams", "team_members"}), Q(<<"teams", "params", "members">>, {"team_members"}),
     Q(<<"teams", "params", "detail">>, {"teams", "team_members", "team_invites"})},
    {M({"teams", "team_members"}, {<<"teams">>}), M({"team_members", "team_invites"}, {<<"teams">>}),
     M({"team_invites"}, {<<"teams">>}), M({"team_invites"}, {<<"teams", "params", "members">>}),
     M({"team_members"}, {<<"teams", "params", "members">>}),
     M({"teams", "team_members"}, {<<"teams">>, <<"teams", "params", "members">>})})

useTeamRole == Hooks(
    {Q(<<"teams">>, {"teams", "team_members"}), Q(<<"teams", "params", "members">>, {"team_members"})}, {})

\* The second hooks for the same data; all but the last share the keys above.
useCollections == Hooks(
    {Q(<<"endpoints">>, {"endpoints"}), Q(<<"webhooks", "params">>, {"deliveries"}),
     Q(<<"teams">>, {"teams", "team_members"}), Q(<<"api-keys">>, {"api_keys"}),
     Q(<<"notifications">>, {"notifications"}), Q(<<"alerts">>, {"alert_rules"}),
     Q(<<"service-tokens">>, {"service_tokens"}), Q(<<"transforms", "params">>, {"transforms"}),
     Q(<<"applications">>, {"applications"}), Q(<<"inboundConfigs">>, {"inbound_configs"})}, {})

useDashboardData == Hooks(
    {Q(<<"application", "id">>, {"applications", "endpoints", "deliveries"}), Q(<<"sso-config", "params">>, {"sso"}),
     Q(<<"audit-log", "params">>, {"audit_log"}), Q(<<"schemas">>, {"schemas"}),
     Q(<<"search", "params">>, {"deliveries"}), Q(<<"templates", "params">>, {"templates"})}, {})

-----------------------------------------------------------------------------
(* The administrator's hooks.                                              *)

User(part) == <<"admin", "user", "id", part>>

useAdminUserQueries == Hooks(
    {Q(<<"admin", "user", "id">>, {"customers", "endpoints", "deliveries"}), Q(User("analytics"), {"deliveries"}),
     Q(User("plan-history"), {"audit_log"}), Q(User("endpoints"), {"endpoints"}), Q(User("webhooks"), {"deliveries"}),
     Q(User("api-keys"), {"customers"}), Q(User("applications"), {"applications"}),
     Q(User("usage"), {"deliveries", "endpoints"})}, {})

useAdminUserRecords == Hooks(
    {Q(User("notes"), {"notes"}), Q(User("tags"), {"tags"}), Q(User("communications"), {"communications"}),
     Q(User("invoices"), {"invoices"}), Q(User("payments"), {"payments"}), Q(User("refunds"), {"refunds"}),
     Q(<<"admin", "delivery", "id">>, {"deliveries"}), Q(<<"admin", "delivery", "id", "attempts">>, {"deliveries"})}, {})

useAdminUserMutations == Hooks({},
    {M({"customers", "audit_log"}, {<<"admin", "users">>, <<"admin", "stats">>}),
     M({"customers"}, {<<"admin", "users">>}), M({"communications"}, {User("communications")}),
     M({"refunds", "invoices", "customers"}, {User("refunds"), User("invoices")}),
     M({"customers", "endpoints", "deliveries", "invoices", "payments", "refunds", "notes", "tags"},
       {<<"admin", "user", "id">>}),
     M({"notes"}, {User("notes")}), M({"tags"}, {User("tags")}),
     M({"deliveries"}, {User("webhooks"), <<"admin", "user", "id">>})})

useAdminSettings == Hooks(
    {Q(<<"admin", "feature-flags">>, {"feature_flags"}), Q(<<"feature-flags">>, {"feature_flags"}),
     Q(<<"admin", "settings">>, {"settings"}), Q(<<"admin", "broadcasts", "params">>, {"broadcasts"})},
    {M({"feature_flags"}, {<<"admin", "feature-flags">>, <<"feature-flags">>}), M({"settings"}, {<<"admin", "settings">>})})

useAdminSystem == Hooks(
    {Q(<<"admin", "system-health">>, {"health"}), Q(<<"admin", "queue-status">>, {"deliveries"}),
     Q(<<"admin", "failed-deliveries", "params">>, {"deliveries"}), Q(<<"admin", "dead-letters", "params">>, {"dead_letters"}),
     Q(<<"admin", "rate-limit-violations", "params">>, {"violations"}), Q(<<"admin", "api-latency", "params">>, {"latency"})},
    {M({"deliveries"}, {<<"admin", "failed-deliveries">>, <<"admin", "dead-letters">>, <<"admin", "queue-status">>})})

useAdminData == Hooks(
    {Q(<<"admin", "users", "params">>, {"customers"}), Q(<<"admin", "audit-logs", "params">>, {"audit_log"}),
     Q(<<"admin", "deploy-info">>, {"deploy"})}, {})

useAdminStats == Hooks(
    {Q(<<"admin", "stats">>, {"customers", "deliveries", "invoices", "endpoints"}), Q(<<"admin", "revenue">>, {"invoices"}),
     Q(<<"admin", "revenue-metrics">>, {"customers", "invoices"}),
     Q(<<"admin", "revenue-cohorts", "params">>, {"customers", "invoices"}),
     Q(<<"admin", "refunds", "params">>, {"refunds"}), Q(<<"admin", "churn">>, {"customers", "invoices"})}, {})

useAdminBatch == Hooks(
    {Q(<<"admin", "stats">>, {"customers", "deliveries", "invoices", "endpoints"}), Q(<<"admin", "revenue">>, {"invoices"}),
     Q(<<"admin", "queue-status">>, {"deliveries"}), Q(<<"admin", "failed-deliveries", "params">>, {"deliveries"}),
     Q(<<"admin", "audit-logs", "params">>, {"audit_log"}), Q(<<"admin", "feature-flags">>, {"feature_flags"}),
     Q(<<"admin", "deploy-info">>, {"deploy"}), Q(<<"admin", "rate-limit-violations", "params">>, {"violations"})}, {})

useAdminAlerts == Hooks({Q(<<"admin", "alerts">>, {"alert_rules"})}, {M({"alert_rules"}, {<<"admin", "alerts">>})})

-----------------------------------------------------------------------------
(* The pages that read or write without a hook of dashboard/src/hooks.     *)

EndpointsContent == Hooks({}, {S({"endpoints"}, {<<"endpoints">>})})

EndpointPage == Hooks({}, {S({"endpoints"}, {<<"endpoint", "id">>})})

SignatureCard == Hooks({}, {S({"endpoints"}, {<<"endpoint", "id">>})})

RoutingPage == Hooks({}, {S({"endpoints"}, {<<"endpoints">>})})

RetryPolicyPage == Hooks({}, {S({"endpoints"}, {<<"endpoints">>})})

\* Deleting and toggling go through useEndpoints' hooks and add these keys after an answer.
AppDetailContent == Hooks({}, {S({"endpoints"}, {<<"application", "id">>, <<"endpoints">>})})

ApplicationsPage == Hooks({}, {S({"applications"}, {<<"applications">>})})

OverageSettings == Hooks({}, {S({"overage_settings"}, {<<"billing", "overage">>})})

RefundRequestModal == Hooks({}, {S({"refund_requests"}, {<<"billing">>})})

StreamingContent == Hooks(
    {Q(<<"stream-channels">>, {"channels"}), Q(<<"stream-channel", "params">>, {"channels"}),
     Q(<<"stream-subscriptions">>, {"subscriptions"})},
    {S({"channels"}, {<<"stream-channels">>}), S({"subscriptions"}, {<<"stream-subscriptions">>})})

MessagePollerContent == Hooks({Q(<<"message-poller", "params">>, {"cursors"})},
                              {S({"cursors"}, {<<"message-poller">>})})

BackgroundTasksPage == Hooks({Q(<<"background-tasks">>, {"tasks"})}, {S({"tasks"}, {<<"background-tasks">>})})

IntegrationsContent == Hooks(
    {Q(<<"integrations">>, {"integrations"}), Q(<<"connector-configs">>, {"connector_configs"}),
     Q(<<"endpoints">>, {"endpoints"}), Q(<<"integration-events", "params">>, {"integration_events"}),
     Q(<<"integration-stats", "params">>, {"integration_events"})},
    {S({"integrations"}, {<<"integrations">>}), S({"integration_events"}, {<<"integration-events">>})})

ConnectorsContent == Hooks(
    {Q(<<"connectors">>, {"connectors"}), Q(<<"connector-configs">>, {"connector_configs"})},
    {S({"connector_configs"}, {<<"connector-configs">>})})

EnvironmentsContent == Hooks(
    {Q(<<"environments">>, {"environments", "variables"}), Q(<<"environment-variables", "params">>, {"variables"})},
    {S({"environments"}, {<<"environments">>}),
     S({"variables"}, {<<"environment-variables", "params">>, <<"environments">>})})

OperationalWebhooksList == Hooks(
    {Q(<<"op-webhooks">>, {"op_endpoints"}), Q(<<"op-webhooks", "params", "deliveries">>, {"op_deliveries"})},
    {S({"op_endpoints"}, {<<"op-webhooks">>})})

AdminBroadcasts == Hooks({}, {S({"broadcasts"}, {<<"admin", "broadcasts">>})})

AdminEmail == Hooks({}, {S({"broadcasts"}, {<<"admin", "broadcasts">>})})

AdminSecurity == Hooks(
    {Q(<<"admin", "security-stats">>, {"security_events"}), Q(<<"admin", "security-events", "params">>, {"security_events"}),
     Q(<<"admin", "ip-blocklist">>, {"ip_blocklist"})},
    {S({"security_events"}, {<<"admin", "security">>}), S({"ip_blocklist"}, {<<"admin", "ip-blocklist">>})})

-----------------------------------------------------------------------------
Customer == {useEndpoints, useNotifications, useUnreadCounts, useBroadcasts, useWebhooks, useAnalytics, useApiKeys,
             useServiceTokens, useRateLimits, useAlerts, useTransforms, useInboundConfigs, usePortal, useBilling,
             useTeams, useTeamRole, useCollections, useDashboardData, EndpointsContent, EndpointPage, SignatureCard,
             RoutingPage, RetryPolicyPage, AppDetailContent, ApplicationsPage, OverageSettings,
             RefundRequestModal, StreamingContent, MessagePollerContent, BackgroundTasksPage,
             IntegrationsContent, ConnectorsContent, EnvironmentsContent, OperationalWebhooksList}

Administrator == {useAdminUserQueries, useAdminUserRecords, useAdminUserMutations, useAdminSettings, useAdminSystem,
                  useAdminData, useAdminStats, useAdminBatch, useAdminAlerts, AdminBroadcasts, AdminEmail, AdminSecurity}

\* A mutation and a query of data it writes, on the same side of the dashboard.
PairsOf(side) ==
    LET ms == UNION {h.mutations : h \in side}
        qs == UNION {h.queries : h \in side}
    IN {pair \in ms \X qs : pair[1].writes \cap pair[2].reads # {}}

Pairs == PairsOf(Customer) \cup PairsOf(Administrator)

Matches(prefixes, key) == \E p \in prefixes : IsPrefix(p, key)

Covers(m, q) == Matches(m.invalidates, q.key)

\* The pairs in which the mutation does not invalidate what the query shows.
Gaps == {pair \in Pairs : ~Covers(pair[1], pair[2])}

\* What matters of a pair to the cache.
WayOf(m, q) ==
    [covers |-> Covers(m, q), settled |-> m.settled, cancels |-> Matches(m.cancels, q.key),
     edits |-> q.key \in m.edits, rewrites |-> Matches(m.rewrites, q.key),
     creates |-> q.key \in m.creates, turns |-> \E i \in DOMAIN q.key : q.key[i] = "params"]

Ways == {WayOf(pair[1], pair[2]) : pair \in Pairs}
=============================================================================
