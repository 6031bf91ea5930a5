----------------------------- MODULE MCExternal -----------------------------
(* What the server deals with outside itself, for TLC: MQTT and Home        *)
(* Assistant, webhooks, the connectors, and the files of plugins, backups   *)
(* and updates. The parts share no state, so each is explored on its own: a *)
(* behaviour takes the steps of one of them.                                *)
EXTENDS Mqtt, HomeAssistant, Webhooks, Feeds, Syslog, SmtpReceiver,
        PluginFiles, PluginInstances, Restore, Updater, TLC

CONSTANTS p1, p2, p3, a1, a2, b1, x1, A, B

\* Two messages of quality 2 and one of quality 1.
Qualities == p1 :> 2 @@ p2 :> 2 @@ p3 :> 1

\* Two versions of one module, another module, and a file that does not load.
Contents == a1 :> A @@ a2 :> A @@ b1 :> B @@ x1 :> Broken

\* Where the monitor points at first, and the process that runs first.
FirstUrl == CHOOSE u \in Urls : TRUE
FirstProcess == CHOOSE v \in Processes : TRUE

VARIABLE part

inbound == <<mqttVars, homeVars, webhookVars>>
connectors == <<feedVars, syslogVars, smtpVars>>
extensions == <<pluginFileVars, pluginInstanceVars>>
starts == <<restoreVars, updateVars>>

vars == <<part, inbound, connectors, extensions, starts>>

Init ==
    /\ part \in {"mqtt", "home", "webhooks", "feeds", "syslog", "smtp", "files", "instances",
                "restore", "update"}
    /\ MqttInit /\ HomeInit /\ WebhookInit
    /\ FeedInit /\ SyslogInit /\ SmtpInit
    /\ PluginFileInit /\ PluginInstanceInit
    /\ RestoreInit /\ UpdateInit
    /\ monitor.url = FirstUrl /\ serving = {FirstProcess}
    \* the parts that do not move have one initial state
    /\ part # "feeds" => kind = "rss"
    /\ part # "syslog" => window = 0
    /\ part # "smtp" => ~smtpRoute.guarded /\ ~smtpRoute.picky

\* Edits of the route and a second process are explored apart: the processes
\* share the row and nothing else.
WebhookBound == routeSaves' + Cardinality(started') <= 2

InboundSteps ==
    /\ UNCHANGED <<connectors, extensions, starts>>
    /\ \/ part = "mqtt" /\ MqttNext /\ UNCHANGED <<homeVars, webhookVars>>
       \/ part = "home" /\ HomeNext /\ UNCHANGED <<mqttVars, webhookVars>>
       \/ part = "webhooks" /\ WebhookNext /\ WebhookBound /\ UNCHANGED <<mqttVars, homeVars>>

\* Failures and edits together are explored for RSS at its first feed, which
\* alone grows, and an edit that changes the URL changes nothing else.
FeedBound ==
    /\ kind = "ical" \/ monitor'.url # FirstUrl => failures' + monitorEdits' <= 1
    /\ \A u \in Urls \ {FirstUrl} : listed'[u] = 1
    /\ monitor'.url # monitor.url => monitor'.enabled /\ monitor'.wanted = Entries

ConnectorSteps ==
    /\ UNCHANGED <<inbound, extensions, starts>>
    /\ \/ part = "feeds" /\ FeedNext /\ FeedBound /\ UNCHANGED <<syslogVars, smtpVars>>
       \/ part = "syslog" /\ SyslogNext /\ UNCHANGED <<feedVars, smtpVars>>
       \/ part = "smtp" /\ SmtpNext /\ UNCHANGED <<feedVars, syslogVars>>

PluginSteps ==
    /\ UNCHANGED <<inbound, connectors, starts>>
    /\ \/ part = "files" /\ PluginFileNext /\ UNCHANGED pluginInstanceVars
       \/ part = "instances" /\ PluginInstanceNext /\ UNCHANGED pluginFileVars

StartSteps ==
    /\ UNCHANGED <<inbound, connectors, extensions>>
    /\ \/ part = "restore" /\ RestoreNext /\ UNCHANGED updateVars
       \/ part = "update" /\ UpdateNext /\ UNCHANGED restoreVars

Next == UNCHANGED part /\ (InboundSteps \/ ConnectorSteps \/ PluginSteps \/ StartSteps)

Spec == Init /\ [][Next]_vars

Symmetric == Permutations(Managers)
=============================================================================
