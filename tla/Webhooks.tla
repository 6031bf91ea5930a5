------------------------------ MODULE Webhooks ------------------------------
(* A webhook route: its endpoints, and the requests it receives, which pass *)
(* the per-address rate limit, the signature check and the replay cache     *)
(* before they are published. The limiter and the cache are memory of one   *)
(* process: each process starts with both empty, and what one remembers no  *)
(* other knows. The clock is the processes', the timestamp of a signed      *)
(* request is the sender's.                                                 *)
EXTENDS Integers, FiniteSets

CONSTANTS
    Senders,       \* requests that may be under way at the same time
    Processes,     \* server processes, each from its start to its end
    Stamps,        \* timestamps that senders sign
    Tolerance,     \* how far a timestamp may be from the clock (5 minutes)
    Limit, Window, \* of the rate limit, for the route and one address
    MaxMoment, MaxReceived, MaxRouteSaves

ReplayTTL == 2 * Tolerance

ASSUME WebhookAssumption ==
    /\ Stamps \subseteq Nat /\ Tolerance \in Nat /\ Limit \in Nat \ {0} /\ Window \in Nat \ {0}
    /\ MaxMoment \in Nat /\ MaxReceived \in Nat /\ MaxRouteSaves \in Nat

VARIABLES
    moment,
    route,     \* the WebhookRoute row: [exists, enabled, secret]; secrets are numbered
    editor,    \* an update or regeneration under way, with the copy it read
    sender,    \* per request: how far it is, what it carries, the process that got it
    serving,   \* the processes that are running
    started,   \* the processes that were ever started
    entry,     \* of each process, the limiter's entry for the address: [start, count]
    seen,      \* of each process, the replay cache: <<secret, stamp>> -> time it expires, 0 if absent
    received, routeSaves,
    admitted,  \* history: of each process, the requests its limiter let through, with the window that counted them
    accepted   \* history: of each process, the moments at which it accepted a signed request

webhookVars == <<moment, route, editor, sender, serving, started, entry, seen,
                 received, routeSaves, admitted, accepted>>
processVars == <<serving, started, entry, seen, admitted, accepted>>

SecretNumbers == 1..(MaxRouteSaves + 1)
SignedKeys == SecretNumbers \X Stamps
NoEditor == [op |-> "none"]
Gone == [step |-> "none"]

WebhookInit ==
    /\ moment = 0
    /\ route = [exists |-> TRUE, enabled |-> TRUE, secret |-> 1]
    /\ editor = NoEditor
    /\ sender = [s \in Senders |-> Gone]
    /\ \E v \in Processes : serving = {v} /\ started = {v}
    /\ entry = [v \in Processes |-> [start |-> -1, count |-> 0]]
    /\ seen = [v \in Processes |-> [k \in SignedKeys |-> 0]]
    /\ received = 0 /\ routeSaves = 0
    /\ admitted = [v \in Processes |-> {}]
    /\ accepted = [v \in Processes |-> [k \in SignedKeys |-> {}]]

TimePasses ==
    /\ moment < MaxMoment /\ moment' = moment + 1
    /\ UNCHANGED <<route, editor, sender, processVars, received, routeSaves>>

\* A process starts with an empty limiter and an empty replay cache.
StartServer(v) ==
    /\ v \notin started
    /\ serving' = serving \cup {v} /\ started' = started \cup {v}
    /\ UNCHANGED <<moment, route, editor, sender, entry, seen, received, routeSaves, admitted, accepted>>

\* It ends, with the requests it had under way.
StopServer(v) ==
    /\ v \in serving /\ serving' = serving \ {v}
    /\ sender' = [s \in Senders |-> IF sender[s] # Gone /\ sender[s].by = v THEN Gone ELSE sender[s]]
    /\ UNCHANGED <<moment, route, editor, started, entry, seen, received, routeSaves, admitted, accepted>>

-----------------------------------------------------------------------------
(* The endpoints read the row, change the copy and save all of it.         *)

ReadWebhookRoute(op) ==
    /\ editor = NoEditor /\ route.exists /\ routeSaves < MaxRouteSaves
    /\ routeSaves' = routeSaves + 1
    /\ editor' = [op |-> op, copy |-> route]
    /\ UNCHANGED <<moment, route, sender, processVars, received>>

SaveWebhookRoute(row) ==
    /\ route' = row /\ editor' = NoEditor
    /\ UNCHANGED <<moment, sender, processVars, received, routeSaves>>

UpdateWebhookRoute(enabled) ==
    editor.op = "update" /\ SaveWebhookRoute([editor.copy EXCEPT !.enabled = enabled])

RegenerateWebhookSecret ==
    editor.op = "regenerate" /\ SaveWebhookRoute([editor.copy EXCEPT !.secret = routeSaves + 1])

CreateWebhookRoute(enabled) ==
    /\ ~route.exists /\ editor = NoEditor /\ routeSaves < MaxRouteSaves
    /\ routeSaves' = routeSaves + 1
    /\ route' = [exists |-> TRUE, enabled |-> enabled, secret |-> routeSaves' + 1]
    /\ UNCHANGED <<moment, editor, sender, processVars, received>>

DeleteWebhookRoute ==
    /\ route.exists
    /\ route' = [route EXCEPT !.exists = FALSE]
    /\ UNCHANGED <<moment, editor, sender, processVars, received, routeSaves>>

-----------------------------------------------------------------------------
(* A request.                                                              *)

Step(s, step) == sender' = [sender EXCEPT ![s].step = step]
Finished(s) == sender' = [sender EXCEPT ![s] = Gone]

\* GetWebhookRouteBySecret: an enabled route with that secret, or 404.
ReceiveWebhook(s, v, secret, stamp) ==
    /\ sender[s] = Gone /\ received < MaxReceived /\ v \in serving
    /\ route.exists /\ route.enabled /\ route.secret = secret
    /\ received' = received + 1
    /\ sender' = [sender EXCEPT ![s] = [step |-> "limit", key |-> <<secret, stamp>>, by |-> v]]
    /\ UNCHANGED <<moment, route, editor, processVars, routeSaves>>

\* A window begins with its first request, and not before the last one ended.
Counted(last, now) ==
    IF last.start = -1 \/ now - last.start >= Window
    THEN [start |-> now, count |-> 1]
    ELSE [last EXCEPT !.count = @ + 1]

Allow(s) ==
    /\ sender[s].step = "limit"
    /\ LET v == sender[s].by
           new == Counted(entry[v], moment)
       IN  /\ entry' = [entry EXCEPT ![v] = new]
           /\ IF new.count <= Limit
              THEN /\ Step(s, "verify")
                   /\ admitted' = [admitted EXCEPT ![v] = @ \cup
                                     {[number |-> Cardinality(admitted[v]), at |-> moment,
                                       start |-> new.start, count |-> new.count]}]
              ELSE Finished(s) /\ UNCHANGED admitted
    /\ UNCHANGED <<moment, route, editor, serving, started, seen, received, routeSaves, accepted>>

\* validWebhookSignature: the timestamp is near the clock.
Timely(stamp) == moment - stamp <= Tolerance /\ stamp - moment <= Tolerance

\* Mutant: the cache forgets a request as soon as its timestamp is reached.
RemembersShorter(v, key) == seen' = [seen EXCEPT ![v][key] = moment + Tolerance]

Remember(v, key) == seen' = [seen EXCEPT ![v][key] = moment + ReplayTTL]

Verify(s) ==
    /\ sender[s].step = "verify"
    /\ LET key == sender[s].key
           v == sender[s].by
       IN  IF Timely(key[2]) /\ ~(seen[v][key] > moment)
           THEN /\ Remember(v, key)
                /\ accepted' = [accepted EXCEPT ![v][key] = @ \cup {moment}]
                /\ Step(s, "publish")
           ELSE Finished(s) /\ UNCHANGED <<seen, accepted>>
    /\ UNCHANGED <<moment, route, editor, serving, started, entry, received, routeSaves, admitted>>

\* Routing rule, templates and Publish; whatever comes of it, the process
\* refuses a repetition of the same signed request.
PublishWebhook(s) ==
    /\ sender[s].step = "publish"
    /\ Finished(s)
    /\ UNCHANGED <<moment, route, editor, processVars, received, routeSaves>>

WebhookNext ==
    \/ TimePasses \/ RegenerateWebhookSecret \/ DeleteWebhookRoute
    \/ \E v \in Processes : StartServer(v) \/ StopServer(v)
    \/ \E op \in {"update", "regenerate"} : ReadWebhookRoute(op)
    \/ \E enabled \in BOOLEAN : CreateWebhookRoute(enabled) \/ UpdateWebhookRoute(enabled)
    \/ \E s \in Senders :
          \/ \E v \in Processes, secret \in SecretNumbers, stamp \in Stamps : ReceiveWebhook(s, v, secret, stamp)
          \/ Allow(s) \/ Verify(s) \/ PublishWebhook(s)

WebhookSpec == WebhookInit /\ [][WebhookNext]_webhookVars

-----------------------------------------------------------------------------
\* A process accepts a signed request once. The exception is the very end of
\* its life: accepted first at the earliest moment its timestamp allows, it is
\* accepted again at the latest, when the cache has just let it go
\* (security/replay.go Remember, api/automation.go validWebhookSignature).
SignedOnce ==
    \A v \in Processes : \A k \in SignedKeys : Cardinality(accepted[v][k]) > 1 =>
        accepted[v][k] = {k[2] - Tolerance, k[2] + Tolerance}

Span(v, t) == {a \in admitted[v] : a.at >= t /\ a.at < t + Window}

\* In any span as long as the window the limiter of a process admits at most
\* twice the limit, however requests fall around the end of a window
\* (security/ratelimit.go DynamicLimiter.Allow).
SpanBounded == \A v \in Processes : \A t \in 0..MaxMoment : Cardinality(Span(v, t)) <= 2 * Limit

\* What the webhook of one process lets through, whatever the others do. It is
\* no more than that: a restart or another process begins again from nothing,
\* so a signed request can pass once in each (api/automation.go ReceiveWebhook,
\* router/router.go, where limiter and cache are made).
WebhookSound == SignedOnce /\ SpanBounded
=============================================================================
