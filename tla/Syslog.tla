------------------------------- MODULE Syslog -------------------------------
(* The syslog receiver: a listener that several processes open in turn      *)
(* under a lease, and the handling of repeated lines with the duplicate     *)
(* window of their route. The SMTP receiver uses the same listener loop.    *)
EXTENDS Integers

CONSTANTS
    Hosts,       \* processes, each with its own listener
    ListenLease, \* life of the listener lease (30 seconds)
    WindowSizes, \* values of DeduplicateSeconds an administrator may set
    MaxSecond, MaxLines, MaxWindowEdits

ASSUME SyslogAssumption ==
    /\ ListenLease \in Nat /\ WindowSizes \subseteq Nat /\ WindowSizes # {}
    /\ MaxSecond \in Nat /\ MaxLines \in Nat /\ MaxWindowEdits \in Nat

VARIABLES
    second,
    listenLease, \* the lease row "syslog-receiver": [held, expires]
    listening,   \* hosts whose socket is open
    window,      \* DeduplicateSeconds of the syslog route
    line,        \* per host: the line being handled
    marked,      \* ConnectorSeenItem of the line: its seen_at, or Unseen
    lines, windowEdits,
    announced    \* history: the publications, with their time and window

syslogVars == <<second, listenLease, listening, window, line, marked, lines, windowEdits, announced>>

Unseen == -1
Idle == [step |-> "idle"]

SyslogInit ==
    /\ second = 0 /\ listenLease = [held |-> "nobody", expires |-> Unseen] /\ listening = {}
    /\ window \in WindowSizes
    /\ line = [h \in Hosts |-> Idle] /\ marked = Unseen
    /\ lines = 0 /\ windowEdits = 0 /\ announced = {}

SecondPasses ==
    /\ second < MaxSecond /\ second' = second + 1
    /\ UNCHANGED <<listenLease, listening, window, line, marked, lines, windowEdits, announced>>

UpdateSyslog(w) ==
    /\ windowEdits < MaxWindowEdits /\ windowEdits' = windowEdits + 1
    /\ window' = w
    /\ UNCHANGED <<second, listenLease, listening, line, marked, lines, announced>>

-----------------------------------------------------------------------------
(* The listener. The lease is renewed when no line came for ten seconds: a  *)
(* busy listener keeps its socket while the lease runs out.                 *)

Obtains(h) == listenLease.held = h \/ listenLease.expires <= second
Hold(h) == listenLease' = [held |-> h, expires |-> second + ListenLease]
Drop(h) == listenLease' = IF listenLease.held = h THEN [held |-> "nobody", expires |-> Unseen] ELSE listenLease

\* syslogListenerLoop: lease, then the socket, which may be taken.
OpenListener(h) ==
    /\ h \notin listening /\ Obtains(h)
    /\ \/ Hold(h) /\ listening' = listening \cup {h}
       \/ Drop(h) /\ UNCHANGED listening
    /\ UNCHANGED <<second, window, line, marked, lines, windowEdits, announced>>

ReadTimeout(h) ==
    /\ h \in listening /\ line[h] = Idle
    /\ IF Obtains(h) THEN Hold(h) /\ UNCHANGED listening
                     ELSE Drop(h) /\ listening' = listening \ {h}
    /\ UNCHANGED <<second, window, line, marked, lines, windowEdits, announced>>

\* handleSyslog for one route, with the time and the window it read; a window
\* of zero publishes every line.
ReceiveLine(h) ==
    /\ h \in listening /\ line[h] = Idle /\ lines < MaxLines
    /\ lines' = lines + 1
    /\ line' = [line EXCEPT ![h] = [step |-> IF window = 0 THEN "publish" ELSE "touch",
                                    at |-> second, window |-> window]]
    /\ UNCHANGED <<second, listenLease, listening, window, marked, windowEdits, announced>>

\* Mutant: the record is compared with the present, not with the cutoff.
OldAlways(at, w) == marked # Unseen

Old(at, w) == marked # Unseen /\ marked <= at - w

\* MarkConnectorItemSeenWithin, first statement: the record is old enough.
TouchRecord(h) ==
    /\ line[h].step = "touch"
    /\ IF Old(line[h].at, line[h].window)
       THEN marked' = line[h].at /\ line' = [line EXCEPT ![h].step = "publish"]
       ELSE line' = [line EXCEPT ![h].step = "insert"] /\ UNCHANGED marked
    /\ UNCHANGED <<second, listenLease, listening, window, lines, windowEdits, announced>>

\* Second statement: there is no record yet.
InsertRecord(h) ==
    /\ line[h].step = "insert"
    /\ IF marked = Unseen
       THEN marked' = line[h].at /\ line' = [line EXCEPT ![h].step = "publish"]
       ELSE line' = [line EXCEPT ![h] = Idle] /\ UNCHANGED marked
    /\ UNCHANGED <<second, listenLease, listening, window, lines, windowEdits, announced>>

PublishLine(h) ==
    /\ line[h].step = "publish"
    /\ announced' = announced \cup
          (IF line[h].window = 0 THEN {} ELSE {[id |-> lines, at |-> line[h].at, window |-> line[h].window, by |-> h]})
    /\ line' = [line EXCEPT ![h] = Idle]
    /\ UNCHANGED <<second, listenLease, listening, window, marked, lines, windowEdits>>

SyslogNext ==
    \/ SecondPasses
    \/ \E w \in WindowSizes : UpdateSyslog(w)
    \/ \E h \in Hosts : \/ OpenListener(h) \/ ReadTimeout(h) \/ ReceiveLine(h)
                        \/ TouchRecord(h) \/ InsertRecord(h) \/ PublishLine(h)

SyslogSpec == SyslogInit /\ [][SyslogNext]_syslogVars

-----------------------------------------------------------------------------
\* Two publications of the same line are as far apart as the window the later
\* one was handled with, also when two listeners handle it at the same time
\* (database/connectors.go MarkConnectorItemSeenWithin).
DuplicatesApart ==
    \A a, b \in announced : a # b => \/ b.at >= a.at + b.window
                                     \/ a.at >= b.at + a.window
=============================================================================
