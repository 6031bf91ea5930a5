--------------------------- MODULE InboundProofs ----------------------------
(* Proofs about what reaches the server from outside, for any number of     *)
(* processes and requests: mail, syslog lines, Home Assistant, plugins.     *)
EXTENDS SmtpReceiver, Syslog, HomeAssistant, PluginInstances, Feeds, Webhooks, FiniteSetTheorems, WellFoundedInduction, TLAPS

-----------------------------------------------------------------------------
(* Mail.                                                                   *)

Sessions == [user : {"none", "good", "wrong"}, recipient : BOOLEAN, sender : BOOLEAN, data : {"none", "reading"}]

\* A recipient of the session was cleared, and a mail is read for a recipient.
SessionSound ==
    /\ session \in Sessions /\ cleared \in BOOLEAN
    /\ session.recipient => cleared
    /\ session.data = "reading" => session.recipient
    /\ MailCleared

LEMMA SmtpInitial == SmtpInit => SessionSound
<1> SUFFICES ASSUME SmtpInit PROVE SessionSound
  OBVIOUS
<1>1. session = [user |-> "none", recipient |-> FALSE, sender |-> FALSE, data |-> "none"]
  BY DEF SmtpInit, NewSession
<1>2. session \in Sessions /\ session.recipient = FALSE /\ session.data = "none"
  BY <1>1 DEF Sessions
<1> QED  BY <1>2 DEF SmtpInit, SessionSound, MailCleared

LEMMA SmtpStep == SessionSound /\ [SmtpNext]_smtpVars => SessionSound'
<1> SUFFICES ASSUME SessionSound, [SmtpNext]_smtpVars PROVE SessionSound'
  OBVIOUS
<1>0. /\ session \in Sessions /\ cleared \in BOOLEAN /\ MailCleared
      /\ session.recipient => cleared
      /\ session.data = "reading" => session.recipient
      /\ NewSession \in Sessions /\ NewSession.recipient = FALSE /\ NewSession.data = "none"
  BY DEF SessionSound, Sessions, NewSession
<1>1. CASE UNCHANGED smtpVars
  BY <1>0, <1>1 DEF smtpVars, SessionSound, MailCleared
<1>2. ASSUME NEW row, UpdateSMTPRoute(row) PROVE SessionSound'
  BY <1>0, <1>2 DEF UpdateSMTPRoute, SessionSound, MailCleared
<1>3. ASSUME NEW user \in {"good", "wrong"}, Auth(user) PROVE SessionSound'
  BY <1>0, <1>3 DEF Auth, SessionSound, MailCleared, Sessions
<1>4. ASSUME NEW fits \in BOOLEAN, MailFrom(fits) PROVE SessionSound'
  BY <1>0, <1>4 DEF MailFrom, SessionSound, MailCleared, Sessions
<1>5. CASE RcptTo
  <2>1. PICK ok \in BOOLEAN : ok = ~Refused
    OBVIOUS
  <2>2. session' = [session EXCEPT !.recipient = ok] /\ cleared' = ok /\ session.data = "none" /\ delivered' = delivered
    BY <1>5, <2>1 DEF RcptTo
  <2> QED  BY <1>0, <2>2 DEF SessionSound, MailCleared, Sessions
<1>6. CASE BeginData
  <2>1. PICK d \in {"none", "reading"} : session' = [session EXCEPT !.data = d]
    BY <1>6 DEF BeginData
  <2>2. session.recipient /\ UNCHANGED <<cleared, delivered>>
    BY <1>6 DEF BeginData
  <2> QED  BY <1>0, <2>1, <2>2 DEF SessionSound, MailCleared, Sessions
<1>7. CASE EndData
  <2>1. session.recipient = TRUE /\ cleared = TRUE
    BY <1>0, <1>7 DEF EndData, Sessions
  <2>2. CASE session' = NewSession /\ cleared' = FALSE /\ UNCHANGED delivered
    BY <1>0, <2>2 DEF SessionSound, MailCleared
  <2>3. CASE session' = [session EXCEPT !.data = "none"] /\ UNCHANGED <<cleared, delivered>>
    BY <1>0, <2>3 DEF SessionSound, MailCleared, Sessions
  <2>4. CASE /\ session' = [session EXCEPT !.data = "none", !.recipient = FALSE]
             /\ cleared' = FALSE /\ UNCHANGED delivered
    BY <1>0, <2>4 DEF SessionSound, MailCleared, Sessions
  <2>5. CASE /\ session' = [session EXCEPT !.data = "none", !.recipient = FALSE, !.sender = FALSE]
             /\ delivered' = delivered \cup {cleared} /\ cleared' = FALSE
    <3>1. session' \in Sessions /\ session'.recipient = FALSE /\ session'.data = "none"
      BY <1>0, <2>5 DEF Sessions
    <3>2. MailCleared'
      BY <1>0, <2>1, <2>5 DEF MailCleared
    <3> QED  BY <2>5, <3>1, <3>2 DEF SessionSound
  <2> QED  BY <1>7, <2>2, <2>3, <2>4, <2>5 DEF EndData
<1>8. CASE Rset \/ Quit
  BY <1>0, <1>8 DEF Rset, Quit, SessionSound, MailCleared, Sessions
<1> QED  BY <1>1, <1>2, <1>3, <1>4, <1>5, <1>6, <1>7, <1>8 DEF SmtpNext

\* Every mail that is published went to a recipient that passed the checks of a
\* RCPT TO of its session, after the mail before it (handleSMTP).
THEOREM RecipientsCleared == SmtpSpec => []MailCleared
<1>1. SessionSound => MailCleared
  BY DEF SessionSound
<1> QED  BY <1>1, SmtpInitial, SmtpStep, PTL DEF SmtpSpec

-----------------------------------------------------------------------------
(* Syslog lines.                                                            *)

Lines == {Idle} \cup [step : {"touch", "insert", "publish"}, at : Nat, window : Nat]

\* The line of the host counts as a publication: it has the record's leave.
Claims(h) == line[h].step = "publish" /\ line[h].window # 0

Apart(t, v, s, w) == s >= t + w \/ t >= s + v

SyslogTyped ==
    /\ second \in Nat /\ window \in Nat /\ marked \in Nat \cup {Unseen}
    /\ line \in [Hosts -> Lines]
    /\ \A a \in announced : a.at \in Nat /\ a.window \in Nat

\* The record is as new as every publication that has its leave.
MarkedLast ==
    /\ \A h \in Hosts : Claims(h) => line[h].at <= marked
    /\ \A a \in announced : a.at <= marked

\* What was published and what is about to be are apart already.
ClaimsApart ==
    /\ \A h \in Hosts : Claims(h) => \A a \in announced : Apart(line[h].at, line[h].window, a.at, a.window)
    /\ \A h, g \in Hosts : Claims(h) /\ Claims(g) /\ h # g =>
          Apart(line[h].at, line[h].window, line[g].at, line[g].window)

SyslogSound == SyslogTyped /\ MarkedLast /\ ClaimsApart /\ DuplicatesApart

LEMMA SyslogInitial == SyslogInit => SyslogSound
<1> SUFFICES ASSUME SyslogInit PROVE SyslogSound
  OBVIOUS
<1>1. \A h \in Hosts : line[h] = Idle /\ Idle.step = "idle"
  BY DEF SyslogInit, Idle
<1>2. SyslogTyped
  BY SyslogAssumption DEF SyslogInit, SyslogTyped, Lines
<1> QED  BY <1>1, <1>2 DEF SyslogInit, SyslogSound, MarkedLast, ClaimsApart, DuplicatesApart, Claims

\* A line that takes the record is apart from every earlier publication.
LEMMA LeaveTaken ==
    ASSUME NEW h \in Hosts, NEW to, SyslogSound, SyslogTyped', line[h] # Idle,
           line[h].at \in Nat, line[h].window \in Nat,
           marked = Unseen \/ Old(line[h].at, line[h].window),
           line[h].step # "publish",
           to.step = "publish", to.at = line[h].at, to.window = line[h].window,
           line' = [line EXCEPT ![h] = to], marked' = line[h].at, UNCHANGED announced
    PROVE  SyslogSound'
<1>1. line \in [Hosts -> Lines] /\ line'[h] = to /\ \A g \in Hosts : g # h => line'[g] = line[g]
  BY DEF SyslogSound, SyslogTyped
<1>2. ~Claims(h)
  BY DEF Claims
<1>3. \A a \in announced : a.at \in Nat /\ a.window \in Nat /\ a.at <= marked
  BY DEF SyslogSound, SyslogTyped, MarkedLast
<1>4. \A g \in Hosts : Claims(g) => line[g].at \in Nat /\ line[g].window \in Nat /\ line[g].at <= marked
  <2> SUFFICES ASSUME NEW g \in Hosts, Claims(g) PROVE line[g].at \in Nat /\ line[g].window \in Nat /\ line[g].at <= marked
    OBVIOUS
  <2>1. line[g] \in Lines /\ line[g] # Idle
    BY <1>1 DEF Claims, Idle
  <2> QED  BY <2>1 DEF Lines, SyslogSound, MarkedLast
<1>5. \A t \in Nat : t <= marked => line[h].at >= t + line[h].window /\ t <= line[h].at
  BY DEF SyslogSound, SyslogTyped, Unseen, Old
<1>6. MarkedLast'
  BY <1>1, <1>3, <1>4, <1>5 DEF MarkedLast, Claims
<1>7. ClaimsApart'
  <2>1. \A g \in Hosts : g # h => (Claims(g)' <=> Claims(g))
    BY <1>1 DEF Claims
  <2>2. \A a \in announced : Apart(to.at, to.window, a.at, a.window)
    BY <1>3, <1>5 DEF Apart
  <2>3. \A g \in Hosts : Claims(g) => /\ Apart(to.at, to.window, line[g].at, line[g].window)
                                      /\ Apart(line[g].at, line[g].window, to.at, to.window)
    BY <1>4, <1>5 DEF Apart
  <2>4. \A g \in Hosts : Claims(g)' => \A a \in announced' : Apart(line[g].at, line[g].window, a.at, a.window)'
    BY <1>1, <2>1, <2>2 DEF SyslogSound, ClaimsApart, Apart
  <2>5. ASSUME NEW f \in Hosts, NEW g \in Hosts, Claims(f)', Claims(g)', f # g
        PROVE  Apart(line[f].at, line[f].window, line[g].at, line[g].window)'
    <3>1. CASE f = h
      BY <1>1, <2>1, <2>3, <2>5, <3>1 DEF Apart
    <3>2. CASE g = h
      BY <1>1, <2>1, <2>3, <2>5, <3>2 DEF Apart
    <3>3. CASE f # h /\ g # h
      BY <1>1, <2>1, <2>5, <3>3 DEF SyslogSound, ClaimsApart, Apart
    <3> QED  BY <3>1, <3>2, <3>3
  <2> QED  BY <2>4, <2>5 DEF ClaimsApart
<1> QED  BY <1>6, <1>7 DEF SyslogSound, DuplicatesApart

\* A line of one host that has no leave before or after the step.
LEMMA NoLeave ==
    ASSUME NEW h \in Hosts, NEW to \in Lines, SyslogSound, SyslogTyped',
           ~Claims(h), to.step = "publish" => to.window = 0,
           line' = [line EXCEPT ![h] = to], UNCHANGED <<marked, announced>>
    PROVE  SyslogSound'
<1>1. line \in [Hosts -> Lines] /\ line'[h] = to /\ \A g \in Hosts : g # h => line'[g] = line[g]
  BY DEF SyslogSound, SyslogTyped
<1>2. \A g \in Hosts : Claims(g)' => g # h /\ Claims(g)
  BY <1>1 DEF Claims
<1>3. MarkedLast'
  BY <1>1, <1>2 DEF SyslogSound, MarkedLast
<1>4. ClaimsApart'
  BY <1>1, <1>2 DEF SyslogSound, ClaimsApart, Apart
<1> QED  BY <1>3, <1>4 DEF SyslogSound, DuplicatesApart

LEMMA SyslogStep == SyslogSound /\ [SyslogNext]_syslogVars => SyslogSound'
<1> SUFFICES ASSUME SyslogSound, [SyslogNext]_syslogVars PROVE SyslogSound'
  OBVIOUS
<1>0. /\ SyslogTyped /\ MarkedLast /\ ClaimsApart /\ DuplicatesApart
      /\ line \in [Hosts -> Lines]
  BY DEF SyslogSound, SyslogTyped
<1>1. ASSUME UNCHANGED <<line, marked, announced>>, second' \in Nat, window' \in Nat PROVE SyslogSound'
  BY <1>0, <1>1 DEF SyslogSound, SyslogTyped, MarkedLast, ClaimsApart, DuplicatesApart, Claims, Apart
<1>2. CASE UNCHANGED syslogVars
  BY <1>0, <1>1, <1>2 DEF syslogVars, SyslogTyped
<1>3. CASE SecondPasses
  BY <1>0, <1>1, <1>3 DEF SecondPasses, SyslogTyped
<1>4. ASSUME NEW w \in WindowSizes, UpdateSyslog(w) PROVE SyslogSound'
  BY <1>0, <1>1, <1>4, SyslogAssumption DEF UpdateSyslog, SyslogTyped
<1>5. ASSUME NEW h \in Hosts, OpenListener(h) PROVE SyslogSound'
  BY <1>0, <1>1, <1>5 DEF OpenListener, SyslogTyped
<1>6. ASSUME NEW h \in Hosts, ReadTimeout(h) PROVE SyslogSound'
  BY <1>0, <1>1, <1>6 DEF ReadTimeout, SyslogTyped
<1>7. ASSUME NEW h \in Hosts, ReceiveLine(h) PROVE SyslogSound'
  <2>1. PICK to : to = [step |-> IF window = 0 THEN "publish" ELSE "touch", at |-> second, window |-> window]
    OBVIOUS
  <2>2. to \in Lines /\ (to.step = "publish" => to.window = 0)
    BY <1>0, <2>1 DEF Lines, SyslogTyped
  <2>3. line' = [line EXCEPT ![h] = to] /\ UNCHANGED <<marked, announced, second, window>> /\ ~Claims(h)
    BY <1>7, <2>1 DEF ReceiveLine, Claims, Idle
  <2>4. SyslogTyped'
    BY <1>0, <2>2, <2>3 DEF SyslogTyped
  <2> QED  BY <2>2, <2>3, <2>4, NoLeave
<1>8. ASSUME NEW h \in Hosts, TouchRecord(h) PROVE SyslogSound'
  <2>1. line[h] \in Lines /\ line[h] # Idle /\ line[h].step = "touch"
    BY <1>0, <1>8 DEF TouchRecord, Idle
  <2>2. line[h] \in [step : {"touch", "insert", "publish"}, at : Nat, window : Nat]
    BY <2>1 DEF Lines
  <2>3. CASE Old(line[h].at, line[h].window)
    <3>1. PICK to : to = [line[h] EXCEPT !.step = "publish"]
      OBVIOUS
    <3>2. to \in Lines /\ to.step = "publish" /\ to.at = line[h].at /\ to.window = line[h].window
      BY <2>2, <3>1 DEF Lines
    <3>3. line' = [line EXCEPT ![h] = to] /\ marked' = line[h].at /\ UNCHANGED <<announced, second, window>>
      BY <1>8, <2>3, <3>1 DEF TouchRecord
    <3>4. SyslogTyped'
      BY <1>0, <2>2, <3>2, <3>3 DEF SyslogTyped
    <3> QED  BY <2>1, <2>2, <2>3, <3>2, <3>3, <3>4, LeaveTaken
  <2>4. CASE ~Old(line[h].at, line[h].window)
    <3>1. PICK to : to = [line[h] EXCEPT !.step = "insert"]
      OBVIOUS
    <3>2. to \in Lines /\ to.step = "insert"
      BY <2>2, <3>1 DEF Lines
    <3>3. line' = [line EXCEPT ![h] = to] /\ UNCHANGED <<marked, announced, second, window>> /\ ~Claims(h)
      BY <1>8, <2>1, <2>4, <3>1 DEF TouchRecord, Claims
    <3>4. SyslogTyped'
      BY <1>0, <3>2, <3>3 DEF SyslogTyped
    <3> QED  BY <3>2, <3>3, <3>4, NoLeave
  <2> QED  BY <2>3, <2>4
<1>9. ASSUME NEW h \in Hosts, InsertRecord(h) PROVE SyslogSound'
  <2>1. line[h] \in Lines /\ line[h] # Idle /\ line[h].step = "insert"
    BY <1>0, <1>9 DEF InsertRecord, Idle
  <2>2. line[h] \in [step : {"touch", "insert", "publish"}, at : Nat, window : Nat]
    BY <2>1 DEF Lines
  <2>3. CASE marked = Unseen
    <3>1. PICK to : to = [line[h] EXCEPT !.step = "publish"]
      OBVIOUS
    <3>2. to \in Lines /\ to.step = "publish" /\ to.at = line[h].at /\ to.window = line[h].window
      BY <2>2, <3>1 DEF Lines
    <3>3. line' = [line EXCEPT ![h] = to] /\ marked' = line[h].at /\ UNCHANGED <<announced, second, window>>
      BY <1>9, <2>3, <3>1 DEF InsertRecord
    <3>4. SyslogTyped'
      BY <1>0, <2>2, <3>2, <3>3 DEF SyslogTyped
    <3> QED  BY <2>1, <2>2, <2>3, <3>2, <3>3, <3>4, LeaveTaken
  <2>4. CASE marked # Unseen
    <3>1. line' = [line EXCEPT ![h] = Idle] /\ UNCHANGED <<marked, announced, second, window>> /\ ~Claims(h)
      BY <1>9, <2>1, <2>4 DEF InsertRecord, Claims
    <3>2. Idle \in Lines /\ Idle.step # "publish"
      BY DEF Idle, Lines
    <3>3. SyslogTyped'
      BY <1>0, <3>1, <3>2 DEF SyslogTyped
    <3> QED  BY <3>1, <3>2, <3>3, NoLeave
  <2> QED  BY <2>3, <2>4
<1>10. ASSUME NEW h \in Hosts, PublishLine(h) PROVE SyslogSound'
  <2>1. line[h] \in Lines /\ line[h] # Idle /\ line[h].step = "publish"
    BY <1>0, <1>10 DEF PublishLine, Idle
  <2>2. line[h].at \in Nat /\ line[h].window \in Nat
    BY <2>1 DEF Lines
  <2>3. Idle \in Lines /\ Idle.step # "publish"
    BY DEF Idle, Lines
  <2>4. line' = [line EXCEPT ![h] = Idle] /\ UNCHANGED <<marked, second, window>>
    BY <1>10 DEF PublishLine
  <2>5. line'[h] = Idle /\ \A g \in Hosts : g # h => line'[g] = line[g]
    BY <1>0, <2>4
  <2>6. CASE line[h].window = 0
    <3>1. announced' = announced /\ ~Claims(h)
      BY <1>10, <2>6 DEF PublishLine, Claims
    <3>2. SyslogTyped'
      BY <1>0, <2>3, <2>4, <3>1 DEF SyslogTyped
    <3> QED  BY <2>3, <2>4, <3>1, <3>2, NoLeave
  <2>7. CASE line[h].window # 0
    <3>1. PICK n : n = [id |-> lines, at |-> line[h].at, window |-> line[h].window, by |-> h]
      OBVIOUS
    <3>2. n.at = line[h].at /\ n.window = line[h].window /\ announced' = announced \cup {n} /\ Claims(h)
      BY <1>10, <2>1, <2>7, <3>1 DEF PublishLine, Claims
    <3>3. \A g \in Hosts : Claims(g)' => g # h /\ Claims(g)
      BY <2>3, <2>5 DEF Claims
    <3>4. SyslogTyped'
      BY <1>0, <2>2, <2>3, <2>4, <3>2 DEF SyslogTyped
    <3>5. MarkedLast'
      BY <1>0, <2>4, <2>5, <3>2, <3>3 DEF MarkedLast
    <3>6. \A a \in announced : Apart(n.at, n.window, a.at, a.window)
      BY <1>0, <3>2 DEF ClaimsApart
    <3>7. \A g \in Hosts : Claims(g) /\ g # h => Apart(line[g].at, line[g].window, n.at, n.window)
      BY <1>0, <3>2 DEF ClaimsApart
    <3>8. ClaimsApart'
      BY <1>0, <2>5, <3>2, <3>3, <3>7 DEF ClaimsApart, Apart
    <3>9. DuplicatesApart'
      BY <1>0, <3>2, <3>6 DEF DuplicatesApart, Apart
    <3> QED  BY <3>4, <3>5, <3>8, <3>9 DEF SyslogSound
  <2> QED  BY <2>6, <2>7
<1> QED  BY <1>2, <1>3, <1>4, <1>5, <1>6, <1>7, <1>8, <1>9, <1>10 DEF SyslogNext

\* Two publications of one syslog line are apart by the duplicate window, with
\* any number of listeners handling it (MarkConnectorItemSeenWithin).
THEOREM LinesApart == SyslogSpec => []DuplicatesApart
<1>1. SyslogSound => DuplicatesApart
  BY DEF SyslogSound
<1> QED  BY <1>1, SyslogInitial, SyslogStep, PTL DEF SyslogSpec

-----------------------------------------------------------------------------
(* Home Assistant.                                                          *)

Secrets == 0..MaxSecrets
Bridges == [exists : BOOLEAN, mode : {"token", "integration"}, enabled : BOOLEAN, secret : Secrets, code : Secrets,
            status : {"", "pairing", "connected", "not_paired", "error", "repair_required"}]
Requested == [op : Ops, copy : Bridges]
Busy(r) == request[r] # Free
Held(row) == {row.secret, row.code} \ {None}

HomeTyped ==
    /\ bridge \in Bridges
    /\ request \in [Requests -> {Free} \cup Requested]
    /\ fresh \in Nat \ {0} /\ revoked \subseteq Nat \ {0}
    /\ pairings \in [Tokens -> Nat]

\* What exists was generated.
Generated ==
    /\ \A t \in Held(bridge) \cup revoked : t < fresh
    /\ \A r \in Requests : Busy(r) => \A t \in Held(request[r].copy) : t < fresh
    /\ \A c \in Tokens : pairings[c] > 0 => c < fresh

\* The row holds nothing that left it, unless a request held it meanwhile, and
\* what a request holds is in the row still or known to be raced.
RowFresh == \A t \in Held(bridge) : t \in revoked => t \in raced
CopiesKnown == \A r \in Requests : Busy(r) => \A t \in Held(request[r].copy) : t \in Held(bridge) \cup raced

\* A code that made a secret is gone from the row and from every request.
CodeGone(c) == bridge.code # c /\ \A r \in Requests : Busy(r) => request[r].copy.code # c

CodesSpent ==
    /\ \A r \in Requests : request[r].op = "pair" => request[r].copy.code # None
    /\ \A c \in Tokens : pairings[c] > 0 => c \in raced \/ CodeGone(c)
    /\ \A c \in Tokens : pairings[c] > 1 => c \in raced

\* A row that does not exist holds nothing, and requests read one that does.
AbsentEmpty ==
    /\ bridge.exists = FALSE => Held(bridge) = {}
    /\ \A r \in Requests : Busy(r) => request[r].copy.exists = TRUE

HomeSound == AbsentEmpty /\ HomeTyped /\ Generated /\ RowFresh /\ CopiesKnown /\ CodesSpent

LEMMA HeldSecrets ==
    ASSUME NEW row \in Bridges
    PROVE  Held(row) \subseteq Nat \ {0}
<1>1. Secrets \subseteq Nat
  BY DEF Secrets
<1>2. row.secret \in Secrets /\ row.code \in Secrets
  BY DEF Bridges
<1> QED  BY <1>1, <1>2 DEF Held, None

LEMMA HomeTakesOff == HomeSound => PairingSound
  BY DEF HomeSound, HomeTyped, PairingSound, CodesSpent, RowFresh, Held, None

LEMMA HomeInitial == HomeInit => HomeSound
<1> SUFFICES ASSUME HomeInit PROVE HomeSound
  OBVIOUS
<1>1. NoBridge \in Bridges /\ NoBridge.secret = None /\ NoBridge.code = None
  BY HomeAssistantAssumption DEF NoBridge, Bridges, Secrets, None
<1>2. \A r \in Requests : ~Busy(r) /\ request[r].op = "free"
  BY DEF HomeInit, Busy, Free
<1>3. HomeTyped
  BY <1>1 DEF HomeInit, HomeTyped
<1>4. Held(bridge) = {} /\ revoked = {} /\ \A c \in Tokens : pairings[c] = 0
  BY <1>1 DEF HomeInit, Held
<1> QED  BY <1>2, <1>3, <1>4 DEF HomeSound, AbsentEmpty, Generated, RowFresh, CopiesKnown, CodesSpent

\* What SaveHomeAssistantIntegration makes of the row and of what the requests
\* hold, when it writes only what the request had read, nothing, or a new secret.
LEMMA HomeSaved ==
    ASSUME NEW r \in Requests, NEW row \in Bridges, HomeSound, Busy(r), row.exists = TRUE,
           row.secret \in {None, request[r].copy.secret, fresh},
           row.code \in {None, request[r].copy.code, fresh},
           fresh' \in {fresh, fresh + 1}, fresh \in Held(row) => fresh' = fresh + 1,
           SaveHomeAssistantIntegration(r, row)
    PROVE  /\ bridge' = row /\ raced \subseteq raced'
           /\ request' \in [Requests -> {Free} \cup Requested]
           /\ request'[r] = Free /\ \A q \in Requests : q # r => request'[q] = request[q]
           /\ \A t \in Held(bridge) \cup revoked' : t < fresh'
           /\ \A t \in Held(row) : t < fresh'
           /\ revoked' \subseteq Nat \ {0}
           /\ RowFresh' /\ CopiesKnown'
           /\ \A q \in Requests : q # r /\ Busy(q) => \A t \in Held(request[q].copy) : t \in Held(row) \cup raced'
<1> DEFINE gone == Held(bridge) \ {row.secret, row.code}
<1>1. /\ request[r] \in Requested /\ request \in [Requests -> {Free} \cup Requested]
      /\ bridge \in Bridges /\ fresh \in Nat \ {0} /\ revoked \subseteq Nat \ {0}
      /\ Generated /\ RowFresh /\ CopiesKnown
  BY DEF HomeSound, HomeTyped, Busy
<1>2. /\ bridge' = row /\ request' = [request EXCEPT ![r] = Free]
      /\ revoked' = revoked \cup gone
      /\ raced \subseteq raced'
  BY DEF SaveHomeAssistantIntegration, Held
<1>3. request'[r] = Free /\ \A q \in Requests : q # r => request'[q] = request[q]
  BY <1>1, <1>2
<1>4. \A q \in Requests : \A t \in gone : q # r /\ Busy(q) /\ t \in Held(request[q].copy) => t \in raced'
  BY DEF SaveHomeAssistantIntegration, Held, Busy
<1>5. Held(row) \subseteq Held(request[r].copy) \cup {fresh}
  BY DEF Held
<1>6. Held(bridge) \subseteq Nat \ {0} /\ Held(request[r].copy) \subseteq Nat \ {0}
  <2>1. request[r].copy \in Bridges
    BY <1>1 DEF Requested
  <2> QED  BY <1>1, <2>1, HeldSecrets
<1>7. \A t \in Held(request[r].copy) : t \in Held(bridge) \cup raced /\ t < fresh
  BY <1>1 DEF CopiesKnown, Generated
<1>8. \A t \in Held(bridge) \cup revoked : t < fresh
  BY <1>1 DEF Generated
<1>9. \A t \in Held(row) : t < fresh'
  BY <1>1, <1>5, <1>6, <1>7
<1>10. \A t \in Held(bridge) \cup revoked' : t < fresh'
  <2> SUFFICES ASSUME NEW t \in Held(bridge) \cup revoked' PROVE t < fresh'
    OBVIOUS
  <2>1. t \in Held(bridge) \cup revoked
    BY <1>2
  <2>2. t \in Nat /\ t < fresh
    BY <1>1, <1>6, <1>8, <2>1
  <2> QED  BY <1>1, <2>2
<1>11. revoked' \subseteq Nat \ {0}
  BY <1>1, <1>2, <1>6
<1>12. RowFresh'
  <2> SUFFICES ASSUME NEW t \in Held(row), t \in revoked' PROVE t \in raced'
    BY <1>2 DEF RowFresh
  <2>1. t \in revoked
    BY <1>2 DEF Held
  <2>2. t # fresh
    BY <1>1, <1>8, <2>1
  <2>3. t \in Held(bridge) \cup raced
    BY <1>5, <1>7, <2>2
  <2> QED  BY <1>1, <1>2, <2>1, <2>3 DEF RowFresh
<1>13. ASSUME NEW q \in Requests, q # r, Busy(q), NEW t \in Held(request[q].copy) PROVE t \in Held(row) \cup raced'
  <2>1. t \in Held(bridge) \cup raced /\ t # None
    BY <1>1, <1>13 DEF CopiesKnown, Held
  <2>2. t \in Held(bridge) => t \in Held(row) \/ t \in gone
    BY <2>1 DEF Held
  <2> QED  BY <1>2, <1>4, <1>13, <2>1, <2>2
<1>14. CopiesKnown'
  <2>1. \A q \in Requests : Busy(q)' => q # r /\ Busy(q) /\ request'[q] = request[q]
    BY <1>3 DEF Busy
  <2> QED  BY <1>2, <1>13, <2>1 DEF CopiesKnown
<1>15. request' \in [Requests -> {Free} \cup Requested]
  BY <1>1, <1>2
<1> QED  BY <1>2, <1>3, <1>9, <1>10, <1>11, <1>12, <1>13, <1>14, <1>15

\* A save that makes no secret from a code.
LEMMA HomeSavedNoPair ==
    ASSUME NEW r \in Requests, NEW row \in Bridges, HomeSound, Busy(r), row.exists = TRUE,
           row.secret \in {None, request[r].copy.secret},
           row.code \in {None, request[r].copy.code, fresh},
           fresh' \in {fresh, fresh + 1}, fresh \in Held(row) => fresh' = fresh + 1,
           SaveHomeAssistantIntegration(r, row), pairings' = pairings
    PROVE  HomeSound'
<1>1. /\ bridge' = row /\ raced \subseteq raced'
      /\ request' \in [Requests -> {Free} \cup Requested]
      /\ request'[r] = Free /\ \A q \in Requests : q # r => request'[q] = request[q]
      /\ \A t \in Held(bridge) \cup revoked' : t < fresh'
      /\ \A t \in Held(row) : t < fresh'
      /\ revoked' \subseteq Nat \ {0}
      /\ RowFresh' /\ CopiesKnown'
  BY HomeSaved
<1>2. /\ fresh \in Nat \ {0} /\ pairings \in [Tokens -> Nat] /\ fresh' \in Nat \ {0} /\ fresh <= fresh'
      /\ Generated /\ CodesSpent /\ request[r] \in Requested
      /\ request \in [Requests -> {Free} \cup Requested]
  BY DEF HomeSound, HomeTyped, Busy
<1>3. HomeTyped'
  BY <1>1, <1>2 DEF HomeTyped
<1>4. \A q \in Requests : Busy(q)' => q # r /\ Busy(q) /\ request'[q] = request[q]
  BY <1>1 DEF Busy
<1>5. Generated'
  <2>1. \A q \in Requests : Busy(q)' => \A t \in Held(request'[q].copy) : t < fresh'
    <3> SUFFICES ASSUME NEW q \in Requests, Busy(q)', NEW t \in Held(request'[q].copy) PROVE t < fresh'
      OBVIOUS
    <3>1. Busy(q) /\ request'[q] = request[q] /\ request[q] \in Requested
      BY <1>2, <1>4 DEF Busy
    <3>2. request[q].copy \in Bridges
      BY <3>1 DEF Requested
    <3>3. t \in Held(request[q].copy) /\ t \in Nat
      BY <3>1, <3>2, HeldSecrets
    <3>4. t < fresh
      BY <1>2, <3>1, <3>3 DEF Generated
    <3> QED  BY <1>2, <3>3, <3>4
  <2>2. \A c \in Tokens : pairings'[c] > 0 => c < fresh'
    BY <1>2, HomeAssistantAssumption DEF Generated, Tokens
  <2> QED  BY <1>1, <2>1, <2>2 DEF Generated
<1>7. AbsentEmpty'
  BY <1>1, <1>4 DEF HomeSound, AbsentEmpty
<1>6. CodesSpent'
  <2>1. \A q \in Requests : request'[q].op = "pair" => request'[q].copy.code # None
    BY <1>1, <1>2 DEF CodesSpent, Free
  <2>2. ASSUME NEW c \in Tokens, pairings[c] > 0, c \notin raced' PROVE CodeGone(c)'
    <3>1. CodeGone(c) /\ c < fresh /\ c # None /\ c \in Nat
      BY <1>1, <1>2, <2>2, HomeAssistantAssumption DEF CodesSpent, Generated, Tokens, None
    <3>2. row.code # c
      BY <1>2, <3>1 DEF CodeGone, Busy
    <3> QED  BY <1>1, <1>4, <3>1, <3>2 DEF CodeGone
  <2> QED  BY <1>1, <1>2, <2>1, <2>2 DEF CodesSpent
<1> QED  BY <1>1, <1>3, <1>5, <1>6, <1>7 DEF HomeSound

\* A step that saves no copy: the row keeps what it holds, a request may begin
\* with a copy of the row or end.
LEMMA HomeUnsaved ==
    ASSUME HomeSound, bridge' \in Bridges, Held(bridge') = Held(bridge), bridge'.exists = bridge.exists, bridge'.code = bridge.code,
           request' \in [Requests -> {Free} \cup Requested],
           \A q \in Requests : \/ request'[q] = Free \/ request'[q] = request[q]
                               \/ /\ request'[q] # Free /\ request'[q].copy = bridge /\ bridge.exists = TRUE
                                  /\ request'[q].op = "pair" => bridge.code # None,
           UNCHANGED <<fresh, revoked, raced, pairings>>
    PROVE  HomeSound'
<1>1. /\ Generated /\ RowFresh /\ CopiesKnown /\ CodesSpent /\ HomeTyped /\ AbsentEmpty
  BY DEF HomeSound
<1>2. HomeTyped'
  BY <1>1 DEF HomeTyped
<1>3. \A q \in Requests : Busy(q)' => (request'[q] = request[q] /\ Busy(q)) \/ request'[q].copy = bridge
  BY DEF Busy
<1>4. Generated'
  <2>1. \A q \in Requests : Busy(q)' => \A t \in Held(request'[q].copy) : t < fresh
    BY <1>1, <1>3 DEF Generated
  <2> QED  BY <1>1, <2>1 DEF Generated
<1>5. RowFresh'
  BY <1>1 DEF RowFresh
<1>6. CopiesKnown'
  BY <1>1, <1>3 DEF CopiesKnown
<1>7. CodesSpent'
  <2>1. \A q \in Requests : request'[q].op = "pair" => request'[q].copy.code # None
    BY <1>1 DEF CodesSpent, Free
  <2>2. \A c \in Tokens : CodeGone(c) => CodeGone(c)'
    BY <1>3 DEF CodeGone
  <2> QED  BY <1>1, <2>1, <2>2 DEF CodesSpent
<1>8. AbsentEmpty'
  BY <1>3 DEF HomeSound, AbsentEmpty, Busy
<1> QED  BY <1>2, <1>4, <1>5, <1>6, <1>7, <1>8 DEF HomeSound

LEMMA HomeCreated ==
    ASSUME HomeSound, NEW mode \in {"token", "integration"}, CreateHomeAssistant(mode)
    PROVE  HomeSound'
<1>1. /\ Generated /\ RowFresh /\ CopiesKnown /\ CodesSpent /\ HomeTyped /\ AbsentEmpty
      /\ fresh \in Nat \ {0}
  BY DEF HomeSound, HomeTyped
<1>2. PICK code : code = IF mode = "integration" THEN fresh ELSE None
  OBVIOUS
<1>3. PICK status : status = IF mode = "integration" THEN "pairing" ELSE ""
  OBVIOUS
<1>4. PICK row : row = [NoBridge EXCEPT !.exists = TRUE, !.mode = mode, !.enabled = TRUE,
                                        !.code = code, !.status = status]
  OBVIOUS
<1>5. /\ bridge' = row /\ UNCHANGED <<request, revoked, pairings, raced>>
      /\ fresh' \in {fresh, fresh + 1} /\ (code = fresh => fresh' = fresh + 1)
      /\ code = fresh => fresh <= MaxSecrets
  BY <1>1, <1>2, <1>3, <1>4 DEF CreateHomeAssistant, None
<1>6. code \in Secrets /\ None \in Secrets
  BY <1>1, <1>2, <1>5, HomeAssistantAssumption DEF Secrets, None
<1>7. row \in Bridges /\ row.secret = None /\ row.code = code
  BY <1>2, <1>3, <1>4, <1>6 DEF Bridges, NoBridge
<1>8. bridge.exists = FALSE /\ bridge \in Bridges
  BY <1>1 DEF CreateHomeAssistant, HomeTyped, Bridges
<1>9. Held(bridge) = {} /\ Held(row) \subseteq {fresh}
  BY <1>1, <1>2, <1>7, <1>8 DEF AbsentEmpty, Held
<1>10. row.exists = TRUE
  BY <1>4 DEF NoBridge
<1>11. HomeTyped'
  BY <1>1, <1>5, <1>7 DEF HomeTyped
<1>12. AbsentEmpty'
  BY <1>1, <1>5, <1>10 DEF AbsentEmpty, Busy
<1>13. fresh \in Held(row) => fresh' = fresh + 1
  BY <1>1, <1>5, <1>7 DEF Held, None
<1>14. Generated'
  <2>1. \A t \in Nat : t < fresh => t < fresh'
    BY <1>1, <1>5
  <2>2. \A t \in revoked : t < fresh'
    BY <1>1, <2>1 DEF Generated, HomeTyped
  <2>3. \A t \in Held(row) : t < fresh'
    BY <1>1, <1>9, <1>13
  <2>4. \A r \in Requests : Busy(r) => \A t \in Held(request[r].copy) : t < fresh'
    <3> SUFFICES ASSUME NEW r \in Requests, Busy(r), NEW t \in Held(request[r].copy) PROVE t < fresh'
      OBVIOUS
    <3>1. request[r] \in Requested
      BY <1>1 DEF HomeTyped, Busy
    <3>2. request[r].copy \in Bridges
      BY <3>1 DEF Requested
    <3>3. t \in Nat
      BY <3>2, HeldSecrets
    <3>4. t < fresh
      BY <1>1 DEF Generated
    <3> QED  BY <2>1, <3>3, <3>4
  <2>5. \A c \in Tokens : pairings[c] > 0 => c < fresh'
    BY <1>1, <2>1, HomeAssistantAssumption DEF Generated, Tokens
  <2> QED  BY <1>5, <2>2, <2>3, <2>4, <2>5 DEF Generated, Busy
<1>15. RowFresh'
  BY <1>1, <1>5, <1>9 DEF RowFresh, Generated, HomeTyped
<1>16. CopiesKnown'
  BY <1>1, <1>5, <1>9 DEF CopiesKnown, Busy
<1>17. CodesSpent'
  <2>1. \A c \in Tokens : pairings[c] > 0 => c # fresh /\ c # None
    BY <1>1, HomeAssistantAssumption DEF Generated, Tokens, None
  <2>2. \A c \in Tokens : pairings[c] > 0 /\ CodeGone(c) => CodeGone(c)'
    BY <1>2, <1>5, <1>7, <2>1 DEF CodeGone, Busy
  <2> QED  BY <1>1, <1>5, <2>2 DEF CodesSpent
<1> QED  BY <1>11, <1>12, <1>14, <1>15, <1>16, <1>17 DEF HomeSound

LEMMA HomeRegenerated ==
    ASSUME HomeSound, NEW r \in Requests, RegenerateHomeAssistantPairing(r)
    PROVE  HomeSound'
<1>1. /\ fresh \in Nat \ {0} /\ request[r].op = "regenerate" /\ fresh <= MaxSecrets
      /\ fresh' = fresh + 1 /\ pairings' = pairings
      /\ request \in [Requests -> {Free} \cup Requested] /\ AbsentEmpty
  BY DEF HomeSound, HomeTyped, RegenerateHomeAssistantPairing
<1>2. Busy(r)
  BY <1>1 DEF Busy, Free
<1>3. request[r].copy \in Bridges /\ request[r].copy.exists = TRUE
  BY <1>1, <1>2 DEF Busy, Requested, AbsentEmpty
<1>4. PICK status : status = IF Paired(request[r].copy) THEN request[r].copy.status ELSE "pairing"
  OBVIOUS
<1>5. PICK row : row = [request[r].copy EXCEPT !.code = fresh, !.status = status]
  OBVIOUS
<1>6. SaveHomeAssistantIntegration(r, row)
  BY <1>3, <1>4, <1>5 DEF RegenerateHomeAssistantPairing, Bridges
<1>7. fresh \in Secrets
  BY <1>1, HomeAssistantAssumption DEF Secrets
<1>8. row \in Bridges /\ row.exists = TRUE /\ row.secret = request[r].copy.secret /\ row.code = fresh
  BY <1>3, <1>4, <1>5, <1>7 DEF Bridges
<1> QED  BY <1>1, <1>2, <1>6, <1>8, HomeSavedNoPair

LEMMA HomeUpdated ==
    ASSUME HomeSound, NEW r \in Requests, NEW mode \in {"token", "integration"}, NEW enabled \in BOOLEAN,
           UpdateHomeAssistant(r, mode, enabled)
    PROVE  HomeSound'
<1>1. /\ fresh \in Nat \ {0} /\ request[r].op = "update" /\ None \in Secrets
      /\ fresh' = fresh /\ pairings' = pairings
      /\ request \in [Requests -> {Free} \cup Requested] /\ AbsentEmpty /\ Generated
  BY HomeAssistantAssumption DEF HomeSound, HomeTyped, UpdateHomeAssistant, Secrets, None
<1>2. Busy(r)
  BY <1>1 DEF Busy, Free
<1>3. request[r].copy \in Bridges /\ request[r].copy.exists = TRUE
  BY <1>1, <1>2 DEF Busy, Requested, AbsentEmpty
<1>4. fresh \notin Held(request[r].copy)
  BY <1>1, <1>2 DEF Generated
<1>5. CASE mode = "token"
  <2>1. PICK row : row = [request[r].copy EXCEPT !.mode = mode, !.enabled = enabled, !.secret = None, !.code = None]
    OBVIOUS
  <2>2. SaveHomeAssistantIntegration(r, row)
    BY <1>5, <2>1 DEF UpdateHomeAssistant
  <2>3. row \in Bridges /\ row.exists = TRUE /\ row.secret = None /\ row.code = None
    BY <1>1, <1>3, <2>1 DEF Bridges
  <2>4. fresh \notin Held(row)
    BY <2>3 DEF Held
  <2> QED  BY <1>1, <1>2, <2>2, <2>3, <2>4, HomeSavedNoPair
<1>6. CASE mode # "token"
  <2>1. PICK row : row = [request[r].copy EXCEPT !.mode = mode, !.enabled = enabled]
    OBVIOUS
  <2>2. SaveHomeAssistantIntegration(r, row)
    BY <1>6, <2>1 DEF UpdateHomeAssistant
  <2>3. row \in Bridges /\ row.exists = TRUE /\ row.secret = request[r].copy.secret /\ row.code = request[r].copy.code
    BY <1>3, <2>1 DEF Bridges
  <2>4. fresh \notin Held(row)
    BY <1>4, <2>3 DEF Held
  <2> QED  BY <1>1, <1>2, <2>2, <2>3, <2>4, HomeSavedNoPair
<1> QED  BY <1>5, <1>6

LEMMA HomeRevoked ==
    ASSUME HomeSound, NEW r \in Requests, RevokeNativeHomeAssistant(r)
    PROVE  HomeSound'
<1>1. /\ fresh \in Nat \ {0} /\ request[r].op = "revoke" /\ None \in Secrets
      /\ fresh' = fresh /\ pairings' = pairings
      /\ request \in [Requests -> {Free} \cup Requested] /\ AbsentEmpty
  BY HomeAssistantAssumption DEF HomeSound, HomeTyped, RevokeNativeHomeAssistant, Secrets, None
<1>2. Busy(r)
  BY <1>1 DEF Busy, Free
<1>3. request[r].copy \in Bridges /\ request[r].copy.exists = TRUE
  BY <1>1, <1>2 DEF Busy, Requested, AbsentEmpty
<1>4. PICK row : row = [request[r].copy EXCEPT !.secret = None, !.code = None, !.status = "not_paired"]
  OBVIOUS
<1>5. SaveHomeAssistantIntegration(r, row)
  BY <1>4 DEF RevokeNativeHomeAssistant
<1>6. row \in Bridges /\ row.exists = TRUE /\ row.secret = None /\ row.code = None
  BY <1>1, <1>3, <1>4 DEF Bridges
<1>7. fresh \notin Held(row)
  BY <1>6 DEF Held
<1> QED  BY <1>1, <1>2, <1>5, <1>6, <1>7, HomeSavedNoPair

\* The code a request pairs with left the row and every other request that has it
\* is known to be raced: a second secret needs such a request.
LEMMA HomePaired ==
    ASSUME HomeSound, NEW r \in Requests, PairNativeHomeAssistant(r)
    PROVE  HomeSound'
<1> DEFINE code == request[r].copy.code
<1>1. /\ fresh \in Nat \ {0} /\ request[r].op = "pair" /\ None \in Secrets /\ fresh <= MaxSecrets
      /\ fresh' = fresh + 1 /\ pairings' = [pairings EXCEPT ![code] = @ + 1]
      /\ pairings \in [Tokens -> Nat]
      /\ request \in [Requests -> {Free} \cup Requested] /\ AbsentEmpty /\ Generated /\ CodesSpent /\ CopiesKnown
  BY HomeAssistantAssumption DEF HomeSound, HomeTyped, PairNativeHomeAssistant, Secrets, None
<1>2. Busy(r) /\ code # None
  BY <1>1 DEF Busy, Free, CodesSpent
<1>3. request[r].copy \in Bridges /\ request[r].copy.exists = TRUE
  BY <1>1, <1>2 DEF Busy, Requested, AbsentEmpty
<1>4. PICK row : row = [request[r].copy EXCEPT !.secret = fresh, !.code = None, !.status = "connected"]
  OBVIOUS
<1>5. SaveHomeAssistantIntegration(r, row)
  BY <1>4 DEF PairNativeHomeAssistant
<1>6. fresh \in Secrets
  BY <1>1, HomeAssistantAssumption DEF Secrets
<1>7. row \in Bridges /\ row.exists = TRUE /\ row.secret = fresh /\ row.code = None
  BY <1>1, <1>3, <1>4, <1>6 DEF Bridges
<1>8. /\ bridge' = row /\ raced \subseteq raced'
      /\ request' \in [Requests -> {Free} \cup Requested]
      /\ request'[r] = Free /\ \A q \in Requests : q # r => request'[q] = request[q]
      /\ \A t \in Held(bridge) \cup revoked' : t < fresh'
      /\ \A t \in Held(row) : t < fresh'
      /\ revoked' \subseteq Nat \ {0}
      /\ RowFresh' /\ CopiesKnown'
      /\ \A q \in Requests : q # r /\ Busy(q) => \A t \in Held(request[q].copy) : t \in Held(row) \cup raced'
  BY <1>1, <1>2, <1>5, <1>7, HomeSaved
<1>9. \A q \in Requests : Busy(q)' => q # r /\ Busy(q) /\ request'[q] = request[q]
  BY <1>8 DEF Busy
<1>10. code \in Tokens /\ code < fresh
  <2>1. code \in Secrets /\ code \in Held(request[r].copy)
    BY <1>2, <1>3 DEF Bridges, Held
  <2> QED  BY <1>1, <1>2, <2>1, HomeAssistantAssumption DEF Secrets, Tokens, None, Generated
<1>11. /\ pairings' \in [Tokens -> Nat] /\ pairings'[code] = pairings[code] + 1
       /\ \A c \in Tokens : c # code => pairings'[c] = pairings[c]
  BY <1>1, <1>10
<1>12. HomeTyped'
  BY <1>1, <1>7, <1>8, <1>11 DEF HomeTyped
<1>13. AbsentEmpty'
  BY <1>1, <1>7, <1>8, <1>9 DEF AbsentEmpty
<1>14. Generated'
  <2>1. \A q \in Requests : Busy(q)' => \A t \in Held(request'[q].copy) : t < fresh'
    <3> SUFFICES ASSUME NEW q \in Requests, Busy(q)', NEW t \in Held(request'[q].copy) PROVE t < fresh'
      OBVIOUS
    <3>1. Busy(q) /\ request'[q] = request[q] /\ request[q] \in Requested
      BY <1>1, <1>9 DEF Busy
    <3>2. request[q].copy \in Bridges
      BY <3>1 DEF Requested
    <3>3. t \in Held(request[q].copy) /\ t \in Nat
      BY <3>1, <3>2, HeldSecrets
    <3>4. t < fresh
      BY <1>1, <3>1, <3>3 DEF Generated
    <3> QED  BY <1>1, <3>3, <3>4
  <2>2. \A c \in Tokens : c < fresh => c < fresh'
    BY <1>1, HomeAssistantAssumption DEF Tokens
  <2>3. \A c \in Tokens : pairings'[c] > 0 => c < fresh'
    BY <1>1, <1>10, <1>11, <2>2 DEF Generated
  <2> QED  BY <1>8, <2>1, <2>3 DEF Generated
<1>15. CodesSpent'
  <2>1. \A q \in Requests : request'[q].op = "pair" => request'[q].copy.code # None
    BY <1>1, <1>8 DEF CodesSpent, Free
  <2>2. ASSUME NEW c \in Tokens, c < fresh, c \notin raced',
               CodeGone(c) \/ c = code
        PROVE  CodeGone(c)'
    <3>1. c # None /\ c # fresh
      BY <1>1, <2>2, HomeAssistantAssumption DEF Tokens, None
    <3>2. c \notin Held(row)
      BY <1>7, <3>1 DEF Held
    <3>3. \A q \in Requests : q # r /\ Busy(q) => request[q].copy.code # c
      BY <1>8, <2>2, <3>1, <3>2 DEF Held
    <3> QED  BY <1>7, <1>8, <1>9, <3>1, <3>3 DEF CodeGone
  <2>3. \A c \in Tokens : pairings'[c] > 0 => c \in raced' \/ CodeGone(c)'
    <3> SUFFICES ASSUME NEW c \in Tokens, pairings'[c] > 0, c \notin raced' PROVE CodeGone(c)'
      OBVIOUS
    <3>1. CASE c = code
      BY <1>10, <2>2, <3>1
    <3>2. CASE c # code
      <4>1. c < fresh /\ CodeGone(c)
        BY <1>1, <1>8, <1>11, <3>2 DEF Generated, CodesSpent
      <4> QED  BY <2>2, <4>1
    <3> QED  BY <3>1, <3>2
  <2>4. \A c \in Tokens : pairings'[c] > 1 => c \in raced'
    <3> SUFFICES ASSUME NEW c \in Tokens, pairings'[c] > 1 PROVE c \in raced'
      OBVIOUS
    <3>1. CASE c = code
      <4>1. pairings[c] > 0
        BY <1>1, <1>11, <3>1
      <4>2. ~CodeGone(c)
        BY <1>2, <3>1 DEF CodeGone
      <4> QED  BY <1>1, <1>8, <4>1, <4>2 DEF CodesSpent
    <3>2. CASE c # code
      BY <1>1, <1>8, <1>11, <3>2 DEF CodesSpent
    <3> QED  BY <3>1, <3>2
  <2> QED  BY <2>1, <2>3, <2>4 DEF CodesSpent
<1> QED  BY <1>8, <1>12, <1>13, <1>14, <1>15 DEF HomeSound

LEMMA HomeDeleted ==
    ASSUME HomeSound, DeleteHomeAssistant
    PROVE  HomeSound'
<1>1. /\ HomeTyped /\ AbsentEmpty /\ Generated /\ CopiesKnown /\ CodesSpent
      /\ bridge' = NoBridge /\ UNCHANGED <<request, fresh, pairings>>
      /\ revoked' = revoked \cup Held(bridge) /\ raced \subseteq raced'
      /\ \A q \in Requests : \A t \in Held(bridge) : Busy(q) /\ t \in Held(request[q].copy) => t \in raced'
  BY DEF HomeSound, DeleteHomeAssistant, Held, Busy
<1>2. /\ NoBridge \in Bridges /\ Held(NoBridge) = {} /\ NoBridge.code = None
  BY HomeAssistantAssumption DEF NoBridge, Bridges, Secrets, None, Held
<1>3. Held(bridge) \subseteq Nat \ {0}
  BY <1>1, HeldSecrets DEF HomeTyped
<1>4. HomeTyped'
  BY <1>1, <1>2, <1>3 DEF HomeTyped
<1>5. AbsentEmpty'
  BY <1>1, <1>2 DEF AbsentEmpty, Busy
<1>6. Generated'
  BY <1>1, <1>2 DEF Generated, Busy
<1>7. RowFresh'
  BY <1>1, <1>2 DEF RowFresh
<1>8. CopiesKnown'
  BY <1>1 DEF CopiesKnown, Busy
<1>9. CodesSpent'
  <2>1. \A c \in Tokens : c # None
    BY HomeAssistantAssumption DEF Tokens, None
  <2>2. \A c \in Tokens : CodeGone(c) => CodeGone(c)'
    BY <1>1, <1>2, <2>1 DEF CodeGone, Busy
  <2> QED  BY <1>1, <2>2 DEF CodesSpent
<1> QED  BY <1>4, <1>5, <1>6, <1>7, <1>8, <1>9 DEF HomeSound

LEMMA HomeStep == HomeSound /\ [HomeNext]_homeVars => HomeSound'
<1> SUFFICES ASSUME HomeSound, [HomeNext]_homeVars PROVE HomeSound'
  OBVIOUS
<1>0. /\ bridge \in Bridges /\ request \in [Requests -> {Free} \cup Requested]
  BY DEF HomeSound, HomeTyped
<1>1. CASE UNCHANGED homeVars
  BY <1>0, <1>1, HomeUnsaved DEF homeVars
<1>2. CASE CodeExpires
  BY <1>0, <1>2, HomeUnsaved DEF CodeExpires
<1>3. CASE DeleteHomeAssistant
  BY <1>3, HomeDeleted
<1>4. ASSUME NEW mode \in {"token", "integration"}, CreateHomeAssistant(mode) PROVE HomeSound'
  BY <1>4, HomeCreated
<1>5. ASSUME NEW answer \in {"connected", "error", "repair_required"}, SendHomeAssistantEvent(answer) PROVE HomeSound'
  <2>1. PICK row : row = [bridge EXCEPT !.status = answer]
    OBVIOUS
  <2>2. row \in Bridges /\ row.exists = bridge.exists /\ row.code = bridge.code /\ row.secret = bridge.secret
    BY <1>0, <2>1 DEF Bridges
  <2>3. bridge' = row /\ UNCHANGED <<request, fresh, revoked, raced, pairings>>
    BY <1>5, <2>1 DEF SendHomeAssistantEvent
  <2>4. Held(row) = Held(bridge)
    BY <2>2 DEF Held
  <2> QED  BY <1>0, <2>2, <2>3, <2>4, HomeUnsaved
<1>6. ASSUME NEW r \in Requests, NEW op \in Ops, NEW token \in 0..MaxSecrets, BeginRequest(r, op, token) PROVE HomeSound'
  <2>1. PICK new : new = [op |-> op, copy |-> bridge]
    OBVIOUS
  <2>2. new \in Requested /\ new.op = op /\ new.copy = bridge /\ op # "free"
    BY <1>0, <2>1 DEF Requested, Ops
  <2>3. new # Free
    BY <2>2 DEF Free
  <2>4. request' = [request EXCEPT ![r] = new] /\ UNCHANGED <<bridge, fresh, revoked, raced, pairings>>
    BY <1>6, <2>1 DEF BeginRequest
  <2>5. op = "pair" => bridge.code # None
    BY <1>6 DEF BeginRequest
  <2>6. bridge.exists = TRUE
    BY <1>0, <1>6 DEF BeginRequest, Bridges
  <2>7. request'[r] = new /\ \A q \in Requests : q # r => request'[q] = request[q]
    BY <1>0, <2>4
  <2>8. request' \in [Requests -> {Free} \cup Requested]
    BY <1>0, <2>2, <2>4
  <2> QED  BY <1>0, <2>2, <2>3, <2>4, <2>5, <2>6, <2>7, <2>8, HomeUnsaved
<1>7. ASSUME NEW r \in Requests, NEW mode \in {"token", "integration"}, NEW enabled \in BOOLEAN,
             UpdateHomeAssistant(r, mode, enabled)
      PROVE  HomeSound'
  BY <1>7, HomeUpdated
<1>8. ASSUME NEW r \in Requests, RegenerateHomeAssistantPairing(r) PROVE HomeSound'
  BY <1>8, HomeRegenerated
<1>9. ASSUME NEW r \in Requests, PairNativeHomeAssistant(r) PROVE HomeSound'
  BY <1>9, HomePaired
<1>10. ASSUME NEW r \in Requests, RevokeNativeHomeAssistant(r) PROVE HomeSound'
  BY <1>10, HomeRevoked
<1>11. ASSUME NEW r \in Requests, NEW matches \in BOOLEAN, ReceiveNativeHomeAssistantEvent(r, matches) PROVE HomeSound'
  <2>1. PICK row : row = [bridge EXCEPT !.status = "connected"]
    OBVIOUS
  <2>2. row \in Bridges /\ row.exists = bridge.exists /\ row.code = bridge.code /\ row.secret = bridge.secret
    BY <1>0, <2>1 DEF Bridges
  <2>3. request' = [request EXCEPT ![r] = Free] /\ UNCHANGED <<fresh, revoked, raced, pairings>>
    BY <1>11 DEF ReceiveNativeHomeAssistantEvent
  <2>4. bridge' = row \/ bridge' = bridge
    BY <1>11, <2>1 DEF ReceiveNativeHomeAssistantEvent
  <2>5. Held(row) = Held(bridge)
    BY <2>2 DEF Held
  <2>6. request'[r] = Free /\ \A q \in Requests : q # r => request'[q] = request[q]
    BY <1>0, <2>3
  <2>7. request' \in [Requests -> {Free} \cup Requested]
    BY <1>0, <2>3
  <2>8. bridge' \in Bridges /\ Held(bridge') = Held(bridge) /\ bridge'.exists = bridge.exists /\ bridge'.code = bridge.code
    BY <1>0, <2>2, <2>4, <2>5
  <2> QED  BY <2>3, <2>6, <2>7, <2>8, HomeUnsaved
<1> QED  BY <1>1, <1>2, <1>3, <1>4, <1>5, <1>6, <1>7, <1>8, <1>9, <1>10, <1>11 DEF HomeNext

\* A native secret that left the row is not accepted again and a pairing code
\* makes one secret, unless a request that read the row before brings them back
\* (PairNativeHomeAssistant, RevokeNativeHomeAssistant, UpdateHomeAssistant).
THEOREM PairingsHold == HomeSpec => []PairingSound
  BY HomeInitial, HomeStep, HomeTakesOff, PTL DEF HomeSpec

-----------------------------------------------------------------------------
(* Plugin instances.                                                        *)

Confs == [enabled : BOOLEAN, config : Nat, storage : Nat]
Served == [op : {"enable", "disable", "config", "store", "uninstall", "remove"},
           step : {"read", "again", "write", "drop"}, copy : Confs, value : Nat \ {0}]

Under(c) == call[c] # Ended
Removing(c) == call[c].op \in {"uninstall", "remove"}
Switching(c) == call[c].op \in {"enable", "disable"} /\ call[c].step \in {"again", "write"}
Configuring(c) == At(c, "config", "write")

InstanceTyped ==
    /\ conf \in Confs /\ call \in [Calls -> {Ended} \cup Served]
    /\ registered \in BOOLEAN /\ active \in BOOLEAN /\ overtaken \in BOOLEAN
    /\ pluginCalls \in Nat /\ unsaved \in SUBSET {"state", "config"}

\* The content a call brings is in no row and in no copy before it writes it.
ContentNew ==
    /\ conf.config <= pluginCalls
    /\ \A c \in Calls : Under(c) =>
          /\ call[c].value <= pluginCalls /\ call[c].copy.config <= pluginCalls
          /\ conf.config # call[c].value
          /\ \A d \in Calls : Under(d) =>
                /\ call[d].copy.config # call[c].value
                /\ d # c => call[d].value # call[c].value

LockHeld == \A c \in Calls : Switching(c) <=> lock = c

\* A removal is alone, its copy is the row until it drops the instance, and it
\* stopped the instance before it writes or drops, unless the row does not say
\* that the instance runs.
RemovalAlone ==
    \A c \in Calls : Removing(c) =>
       /\ \A d \in Calls : d # c => ~Under(d)
       /\ call[c].step \in {"read", "write"} => call[c].copy = conf
       /\ call[c].step # "read" /\ "state" \notin unsaved => active = FALSE

\* The instance runs as its row says, except between the switch and the write
\* and after a write that failed.
RunsAsWritten ==
    /\ \A c \in Calls : Under(c) /\ ~Removing(c) => registered
    /\ \A c \in Calls : Switching(c) => (active = TRUE <=> call[c].op = "enable")
    /\ ~registered /\ "state" \notin unsaved => active = FALSE
    /\ registered /\ "state" \notin unsaved /\ (\A c \in Calls : ~Switching(c) /\ (Removing(c) => call[c].step = "read")) =>
          active = conf.enabled

\* The instance has the configuration of the row or one that is about to be
\* written; a call whose copy is not stale is not the only reason for an older one.
AppliedKnown ==
    "config" \notin unsaved =>
    /\ registered => applied = conf.config \/ \E d \in Calls : Configuring(d) /\ applied = call[d].value
    /\ \A c \in Calls : Configuring(c) /\ call[c].copy.config = conf.config =>
          \E d \in Calls : Configuring(d) /\ applied = call[d].value

InstanceSound ==
    /\ InstanceTyped /\ ContentNew /\ LockHeld
    /\ ~overtaken => RemovalAlone /\ RunsAsWritten /\ AppliedKnown

LEMMA InstanceTakesOff == InstanceSound => RowMatchesInstance
<1> SUFFICES ASSUME InstanceSound, \A c \in Calls : call[c] = Ended, ~overtaken
             PROVE  /\ "state" \notin unsaved => active = (registered /\ conf.enabled)
                    /\ "config" \notin unsaved => (registered => applied = conf.config)
  BY DEF RowMatchesInstance
<1>1. \A c \in Calls : ~Switching(c) /\ ~Removing(c) /\ ~Configuring(c)
  BY DEF Switching, Removing, Configuring, At, Ended
<1>2. RunsAsWritten /\ AppliedKnown
  BY DEF InstanceSound
<1>3. registered \in BOOLEAN /\ conf.enabled \in BOOLEAN
  BY DEF InstanceSound, InstanceTyped, Confs
<1>4. "state" \notin unsaved /\ registered => active = conf.enabled
  BY <1>1, <1>2 DEF RunsAsWritten
<1>5. "state" \notin unsaved /\ ~registered => active = FALSE
  BY <1>2 DEF RunsAsWritten
<1>6. "config" \notin unsaved /\ registered => applied = conf.config
  BY <1>1, <1>2 DEF AppliedKnown
<1> QED  BY <1>3, <1>4, <1>5, <1>6

LEMMA InstanceInitial == PluginInstanceInit => InstanceSound
<1> SUFFICES ASSUME PluginInstanceInit PROVE InstanceSound
  OBVIOUS
<1>1. \A c \in Calls : call[c] = Ended /\ ~Under(c) /\ ~Switching(c) /\ ~Removing(c) /\ ~Configuring(c)
  BY DEF PluginInstanceInit, Under, Switching, Removing, Configuring, At, Ended
<1>2. conf \in Confs /\ conf.enabled = FALSE /\ conf.config = 0
  BY DEF PluginInstanceInit, NewConf, Confs
<1>3. InstanceTyped
  BY <1>2 DEF PluginInstanceInit, InstanceTyped
<1>4. ContentNew /\ RemovalAlone /\ AppliedKnown
  BY <1>1, <1>2 DEF PluginInstanceInit, ContentNew, RemovalAlone, AppliedKnown
<1>5. LockHeld
  BY <1>1, PluginInstanceAssumption DEF PluginInstanceInit, LockHeld
<1>6. RunsAsWritten
  BY <1>1, <1>2 DEF PluginInstanceInit, RunsAsWritten
<1> QED  BY <1>3, <1>4, <1>5, <1>6 DEF InstanceSound

\* What a call that is under way looks like.
LEMMA CallShape ==
    ASSUME InstanceSound, NEW c \in Calls
    PROVE  /\ Under(c) <=> call[c] \in Served
           /\ call[c].op # "none" => Under(c)
           /\ Switching(c) \/ Removing(c) \/ Configuring(c) => Under(c)
           /\ ~(Switching(c) /\ Removing(c)) /\ ~(Configuring(c) /\ Removing(c))
<1>1. call[c] \in {Ended} \cup Served /\ Ended.op = "none" /\ Ended \notin Served
  BY DEF InstanceSound, InstanceTyped, Ended, Served
<1> QED  BY <1>1 DEF Under, Switching, Removing, Configuring, At

\* One call changes; the others stay as they are.
LEMMA OneCall ==
    ASSUME InstanceSound, NEW c \in Calls, NEW new \in {Ended} \cup Served, call' = [call EXCEPT ![c] = new]
    PROVE  /\ call' \in [Calls -> {Ended} \cup Served]
           /\ call'[c] = new
           /\ \A d \in Calls : d # c => call'[d] = call[d]
           /\ \A d \in Calls : d # c => /\ Under(d)' <=> Under(d)
                                        /\ Switching(d)' <=> Switching(d)
                                        /\ Removing(d)' <=> Removing(d)
                                        /\ Configuring(d)' <=> Configuring(d)
           /\ Under(c)' <=> new # Ended
           /\ Switching(c)' <=> new.op \in {"enable", "disable"} /\ new.step \in {"again", "write"}
           /\ Removing(c)' <=> new.op \in {"uninstall", "remove"}
           /\ Configuring(c)' <=> new.op = "config" /\ new.step = "write"
<1>1. call \in [Calls -> {Ended} \cup Served]
  BY DEF InstanceSound, InstanceTyped
<1>2. call'[c] = new /\ \A d \in Calls : d # c => call'[d] = call[d]
  BY <1>1
<1>3. call' \in [Calls -> {Ended} \cup Served]
  BY <1>1
<1> QED  BY <1>2, <1>3 DEF Under, Switching, Removing, Configuring, At

LEMMA Stepped ==
    ASSUME NEW c \in Calls, call[c] \in Served, NEW step \in {"read", "again", "write", "drop"},
           NEW new, new = [call[c] EXCEPT !.step = step]
    PROVE  /\ new \in Served /\ new # Ended /\ new.op = call[c].op /\ new.step = step
           /\ new.copy = call[c].copy /\ new.value = call[c].value
<1>1. new \in Served /\ new.op = call[c].op /\ new.step = step /\ new.copy = call[c].copy /\ new.value = call[c].value
  BY DEF Served
<1>2. new.op # "none"
  BY <1>1 DEF Served
<1> QED  BY <1>1, <1>2 DEF Ended

LEMMA EndedIsNone ==
    Ended.op = "none" /\ Ended \in {Ended} \cup Served
  BY DEF Ended

LEMMA ContentKept ==
    ASSUME InstanceSound, NEW c \in Calls, Under(c), NEW new \in {Ended} \cup Served,
           call' = [call EXCEPT ![c] = new], pluginCalls' = pluginCalls, conf' \in Confs,
           conf'.config \in {0, conf.config, call[c].copy.config, call[c].value},
           new # Ended => /\ new.value = call[c].value
                          /\ new.copy.config \in {conf.config, call[c].copy.config}
                          /\ conf'.config \in {conf.config, call[c].copy.config}
    PROVE  ContentNew'
<1>1. /\ call'[c] = new
      /\ \A d \in Calls : d # c => call'[d] = call[d]
      /\ \A d \in Calls : d # c => (Under(d)' <=> Under(d))
      /\ Under(c)' <=> new # Ended
  BY OneCall
<1>2. /\ pluginCalls \in Nat /\ ContentNew
      /\ call[c].value \in Nat \ {0} /\ call[c].copy.config \in Nat /\ conf.config \in Nat
  BY CallShape DEF InstanceSound, InstanceTyped, Served, Confs
<1>3. conf'.config <= pluginCalls
  BY <1>2 DEF ContentNew
<1>4. ASSUME NEW d \in Calls, Under(d)'
      PROVE  /\ call'[d].value <= pluginCalls /\ call'[d].copy.config <= pluginCalls
             /\ call'[d].value \in Nat \ {0} /\ call'[d].value = call[d].value /\ Under(d)
             /\ call'[d].copy.config \in {conf.config, call[d].copy.config}
  <2>1. CASE d = c
    BY <1>1, <1>2, <1>4, <2>1 DEF ContentNew
  <2>2. CASE d # c
    BY <1>1, <1>2, <1>4, <2>2, CallShape DEF ContentNew, Served
  <2> QED  BY <2>1, <2>2
<1>5. ASSUME NEW d \in Calls, Under(d)' PROVE conf'.config # call'[d].value
  <2>1. CASE d = c
    BY <1>1, <1>2, <1>4, <1>5, <2>1 DEF ContentNew
  <2>2. CASE d # c
    BY <1>1, <1>2, <1>4, <1>5, <2>2 DEF ContentNew
  <2> QED  BY <2>1, <2>2
<1>6. ASSUME NEW d \in Calls, Under(d)', NEW e \in Calls, Under(e)'
      PROVE  /\ call'[e].copy.config # call'[d].value
             /\ e # d => call'[e].value # call'[d].value
  BY <1>2, <1>4, <1>6 DEF ContentNew
<1> QED  BY <1>3, <1>4, <1>5, <1>6 DEF ContentNew

LEMMA InstanceRead ==
    ASSUME InstanceSound, NEW c \in Calls,
           NEW op \in {"enable", "disable", "config", "store", "uninstall", "remove"},
           op \in {"uninstall", "remove"} \/ registered = TRUE, Read(c, op)
    PROVE  InstanceSound'
<1> DEFINE other == \E d \in Calls \ {c} : call[d] # Ended /\ {op, call[d].op} \cap {"uninstall", "remove"} # {}
<1>1. PICK new : new = [op |-> op, step |-> "read", copy |-> conf, value |-> pluginCalls + 1]
  OBVIOUS
<1>2. /\ InstanceTyped /\ ContentNew /\ LockHeld /\ pluginCalls \in Nat /\ conf \in Confs /\ overtaken \in BOOLEAN
      /\ ~overtaken => RemovalAlone /\ RunsAsWritten /\ AppliedKnown
  BY DEF InstanceSound, InstanceTyped
<1>3. /\ new \in Served /\ new.op = op /\ new.step = "read" /\ new.copy = conf /\ new.value = pluginCalls + 1
  BY <1>1, <1>2 DEF Served
<1>4. new # Ended
  BY <1>3 DEF Ended
<1>5. /\ call' = [call EXCEPT ![c] = new] /\ pluginCalls' = pluginCalls + 1
      /\ overtaken' = (overtaken \/ other)
      /\ UNCHANGED <<conf, registered, active, applied, lock, unsaved>> /\ ~Under(c)
  BY <1>1 DEF Read, Under
<1>6. /\ call' \in [Calls -> {Ended} \cup Served]
      /\ call'[c] = new
      /\ \A d \in Calls : d # c => call'[d] = call[d]
      /\ \A d \in Calls : d # c => /\ Under(d)' <=> Under(d)
                                   /\ Switching(d)' <=> Switching(d)
                                   /\ Removing(d)' <=> Removing(d)
                                   /\ Configuring(d)' <=> Configuring(d)
      /\ Under(c)' /\ ~Switching(c)' /\ ~Configuring(c)'
      /\ Removing(c)' <=> op \in {"uninstall", "remove"}
  BY <1>3, <1>4, <1>5, OneCall
<1>7. ~Switching(c) /\ ~Configuring(c) /\ ~Removing(c)
  BY <1>5, CallShape
<1>8. InstanceTyped'
  BY <1>2, <1>5, <1>6 DEF InstanceTyped
<1>9. LockHeld'
  BY <1>2, <1>5, <1>6, <1>7 DEF LockHeld
<1>10. ContentNew'
  <2>1. conf.config \in Nat /\ conf.config <= pluginCalls
    BY <1>2 DEF Confs, ContentNew
  <2>2. \A d \in Calls : Under(d) => /\ call[d].value \in Nat /\ call[d].copy.config \in Nat
                                     /\ call[d].value <= pluginCalls /\ call[d].copy.config <= pluginCalls
                                     /\ conf.config # call[d].value
    BY <1>2, CallShape DEF Served, Confs, ContentNew
  <2>3. ASSUME NEW d \in Calls, Under(d)'
        PROVE  call'[d].value <= pluginCalls + 1 /\ call'[d].copy.config <= pluginCalls + 1 /\ conf.config # call'[d].value
    <3>1. CASE d = c
      BY <1>2, <1>3, <1>6, <2>1, <3>1
    <3>2. CASE d # c
      BY <1>2, <1>6, <2>2, <2>3, <3>2
    <3> QED  BY <3>1, <3>2
  <2>4. ASSUME NEW d \in Calls, Under(d)', NEW e \in Calls, Under(e)'
        PROVE  call'[e].copy.config # call'[d].value /\ (e # d => call'[e].value # call'[d].value)
    <3>1. CASE d = c /\ e = c
      BY <1>2, <1>3, <1>6, <2>1, <3>1
    <3>2. CASE d = c /\ e # c
      BY <1>2, <1>3, <1>6, <2>2, <2>4, <3>2
    <3>3. CASE d # c /\ e = c
      BY <1>2, <1>3, <1>6, <2>2, <2>4, <3>3
    <3>4. CASE d # c /\ e # c
      BY <1>2, <1>6, <2>4, <3>4 DEF ContentNew
    <3> QED  BY <3>1, <3>2, <3>3, <3>4
  <2> QED  BY <1>2, <1>5, <2>1, <2>3, <2>4 DEF ContentNew
<1>11. ASSUME ~overtaken' PROVE RemovalAlone' /\ RunsAsWritten' /\ AppliedKnown'
  <2>1. RemovalAlone /\ RunsAsWritten /\ AppliedKnown
    BY <1>2, <1>5, <1>11
  <2>2. \A d \in Calls : d # c /\ Under(d) => ~Removing(d) /\ op \notin {"uninstall", "remove"}
    BY <1>5, <1>11 DEF Under, Removing
  <2>3. RemovalAlone'
    <3> SUFFICES ASSUME NEW d \in Calls, Removing(d)'
                 PROVE  /\ \A e \in Calls : e # d => ~Under(e)'
                        /\ call'[d].step \in {"read", "write"} => call'[d].copy = conf'
                        /\ call'[d].step # "read" /\ "state" \notin unsaved' => active' = FALSE
      BY DEF RemovalAlone
    <3>1. CASE d = c
      BY <1>3, <1>5, <1>6, <2>2, <3>1
    <3>2. CASE d # c
      BY <1>6, <2>2, <3>2, CallShape
    <3> QED  BY <3>1, <3>2
  <2>4. RunsAsWritten'
    <3>1. \A d \in Calls : Under(d)' /\ ~Removing(d)' => registered'
      BY <1>5, <1>6, <2>1 DEF RunsAsWritten
    <3>2. \A d \in Calls : Switching(d)' => (active' = TRUE <=> call'[d].op = "enable")
      BY <1>5, <1>6, <2>1 DEF RunsAsWritten
    <3>3. ASSUME registered, "state" \notin unsaved,
                 \A d \in Calls : ~Switching(d)' /\ (Removing(d)' => call'[d].step = "read")
          PROVE  active = conf.enabled
      BY <1>6, <1>7, <2>1, <3>3 DEF RunsAsWritten
    <3> QED  BY <1>5, <2>1, <3>1, <3>2, <3>3 DEF RunsAsWritten
  <2>5. AppliedKnown'
    <3>1. \A d \in Calls : Configuring(d)' => d # c /\ Configuring(d) /\ call'[d] = call[d]
      BY <1>6
    <3>2. \A d \in Calls : Configuring(d) => Configuring(d)' /\ call'[d] = call[d]
      BY <1>6, <1>7
    <3> QED  BY <1>5, <2>1, <3>1, <3>2 DEF AppliedKnown
  <2> QED  BY <2>3, <2>4, <2>5
<1> QED  BY <1>8, <1>9, <1>10, <1>11 DEF InstanceSound

\* A call ends at its first step and leaves everything as it was.
LEMMA InstanceRefused ==
    ASSUME InstanceSound, NEW c \in Calls, Under(c), call[c].step = "read", End(c),
           UNCHANGED <<conf, registered, active, applied, lock, pluginCalls, overtaken, unsaved>>
    PROVE  InstanceSound'
<1>1. /\ InstanceTyped /\ LockHeld /\ conf \in Confs
      /\ ~overtaken => RemovalAlone /\ RunsAsWritten /\ AppliedKnown
  BY DEF InstanceSound, InstanceTyped
<1>2. call' = [call EXCEPT ![c] = Ended]
  BY DEF End
<1>3. /\ call' \in [Calls -> {Ended} \cup Served]
      /\ \A d \in Calls : d # c => call'[d] = call[d]
      /\ \A d \in Calls : d # c => /\ Under(d)' <=> Under(d)
                                   /\ Switching(d)' <=> Switching(d)
                                   /\ Removing(d)' <=> Removing(d)
                                   /\ Configuring(d)' <=> Configuring(d)
      /\ ~Under(c)' /\ ~Switching(c)' /\ ~Configuring(c)' /\ ~Removing(c)'
  BY <1>2, OneCall, EndedIsNone
<1>4. ~Switching(c) /\ ~Configuring(c)
  BY DEF Switching, Configuring, At
<1>5. InstanceTyped'
  BY <1>1, <1>3 DEF InstanceTyped
<1>6. LockHeld'
  BY <1>1, <1>3, <1>4 DEF LockHeld
<1>7. ContentNew'
  BY <1>1, <1>2, EndedIsNone, ContentKept
<1>8. ASSUME ~overtaken' PROVE RemovalAlone' /\ RunsAsWritten' /\ AppliedKnown'
  <2>1. RemovalAlone /\ RunsAsWritten /\ AppliedKnown
    BY <1>1, <1>8
  <2>2. RemovalAlone'
    BY <1>3, <2>1 DEF RemovalAlone
  <2>3. RunsAsWritten'
    <3>1. ASSUME registered, "state" \notin unsaved,
                 \A d \in Calls : ~Switching(d)' /\ (Removing(d)' => call'[d].step = "read")
          PROVE  active = conf.enabled
      BY <1>3, <1>4, <2>1, <3>1 DEF RunsAsWritten
    <3> QED  BY <1>3, <2>1, <3>1 DEF RunsAsWritten
  <2>4. AppliedKnown'
    <3>1. \A d \in Calls : (Configuring(d)' <=> Configuring(d)) /\ (Configuring(d) => call'[d] = call[d])
      BY <1>3, <1>4
    <3> QED  BY <2>1, <3>1 DEF AppliedKnown
  <2> QED  BY <2>2, <2>3, <2>4
<1> QED  BY <1>5, <1>6, <1>7, <1>8 DEF InstanceSound

\* A call ends because its row could not be saved.
LEMMA InstanceUnsaved ==
    ASSUME InstanceSound, NEW c \in Calls, Under(c), End(c),
           NEW what \in SUBSET {"state", "config"}, unsaved' = unsaved \cup what,
           Switching(c) => lock' = NoHolder, ~Switching(c) => lock' = lock,
           Switching(c) \/ Removing(c) => "state" \in what,
           Configuring(c) => "config" \in what,
           UNCHANGED <<conf, registered, active, applied, pluginCalls, overtaken>>
    PROVE  InstanceSound'
<1>1. /\ InstanceTyped /\ LockHeld /\ conf \in Confs
      /\ ~overtaken => RemovalAlone /\ RunsAsWritten /\ AppliedKnown
  BY DEF InstanceSound, InstanceTyped
<1>2. call' = [call EXCEPT ![c] = Ended]
  BY DEF End
<1>3. /\ call' \in [Calls -> {Ended} \cup Served]
      /\ \A d \in Calls : d # c => call'[d] = call[d]
      /\ \A d \in Calls : d # c => /\ Under(d)' <=> Under(d)
                                   /\ Switching(d)' <=> Switching(d)
                                   /\ Removing(d)' <=> Removing(d)
                                   /\ Configuring(d)' <=> Configuring(d)
      /\ ~Under(c)' /\ ~Switching(c)' /\ ~Configuring(c)' /\ ~Removing(c)'
  BY <1>2, OneCall, EndedIsNone
<1>4. InstanceTyped'
  BY <1>1, <1>3 DEF InstanceTyped
<1>5. LockHeld'
  BY <1>1, <1>3, PluginInstanceAssumption DEF LockHeld
<1>6. ContentNew'
  BY <1>1, <1>2, EndedIsNone, ContentKept
<1>7. ASSUME ~overtaken' PROVE RemovalAlone' /\ RunsAsWritten' /\ AppliedKnown'
  <2>1. RemovalAlone /\ RunsAsWritten /\ AppliedKnown
    BY <1>1, <1>7
  <2>2. RemovalAlone'
    BY <1>3, <2>1 DEF RemovalAlone
  <2>3. RunsAsWritten'
    <3>1. ASSUME registered, "state" \notin unsaved',
                 \A d \in Calls : ~Switching(d)' /\ (Removing(d)' => call'[d].step = "read")
          PROVE  active = conf.enabled
      <4>1. ~Switching(c) /\ ~Removing(c) /\ "state" \notin unsaved
        BY <3>1
      <4>2. \A d \in Calls : ~Switching(d) /\ (Removing(d) => call[d].step = "read")
        BY <1>3, <3>1, <4>1
      <4> QED  BY <2>1, <3>1, <4>1, <4>2 DEF RunsAsWritten
    <3> QED  BY <1>3, <2>1, <3>1 DEF RunsAsWritten
  <2>4. AppliedKnown'
    <3>1. CASE "config" \in unsaved'
      BY <3>1 DEF AppliedKnown
    <3>2. CASE "config" \notin unsaved'
      <4>1. \A d \in Calls : (Configuring(d)' <=> Configuring(d)) /\ (Configuring(d) => call'[d] = call[d])
        BY <1>3, <3>2
      <4> QED  BY <2>1, <3>2, <4>1 DEF AppliedKnown
    <3> QED  BY <3>1, <3>2
  <2> QED  BY <2>2, <2>3, <2>4
<1> QED  BY <1>4, <1>5, <1>6, <1>7 DEF InstanceSound

\* The switch, under the lock, for which it waits.
LEMMA InstanceSwitched ==
    ASSUME InstanceSound, NEW c \in Calls, Switch(c)
    PROVE  InstanceSound'
<1>1. /\ InstanceTyped /\ LockHeld /\ conf \in Confs /\ lock = NoHolder
      /\ ~overtaken => RemovalAlone /\ RunsAsWritten /\ AppliedKnown
      /\ call[c].op \in {"enable", "disable"} /\ call[c].step = "read"
      /\ UNCHANGED <<conf, registered, applied, pluginCalls, overtaken, unsaved>>
  BY DEF InstanceSound, InstanceTyped, Switch
<1>2. Under(c) /\ call[c] \in Served /\ ~Removing(c) /\ ~Configuring(c) /\ ~Switching(c)
  BY <1>1, CallShape DEF Removing, Configuring, Switching, At
<1>3. CASE End(c) /\ UNCHANGED <<active, lock>>
  BY <1>1, <1>2, <1>3, InstanceRefused
<1>4. CASE active' = (call[c].op = "enable") /\ lock' = c /\ To(c, "again")
  <2>1. PICK new : new = [call[c] EXCEPT !.step = "again"]
    OBVIOUS
  <2>2. call' = [call EXCEPT ![c] = new]
    BY <1>4, <2>1 DEF To
  <2>3. /\ new \in Served /\ new # Ended /\ new.op = call[c].op /\ new.step = "again"
        /\ new.copy = call[c].copy /\ new.value = call[c].value
    BY <1>2, <2>1, Stepped
  <2>4. /\ call' \in [Calls -> {Ended} \cup Served]
        /\ call'[c] = new
        /\ \A d \in Calls : d # c => call'[d] = call[d]
        /\ \A d \in Calls : d # c => /\ Under(d)' <=> Under(d)
                                     /\ Switching(d)' <=> Switching(d)
                                     /\ Removing(d)' <=> Removing(d)
                                     /\ Configuring(d)' <=> Configuring(d)
        /\ Under(c)' /\ Switching(c)' /\ ~Configuring(c)' /\ ~Removing(c)'
    BY <1>1, <2>2, <2>3, OneCall
  <2>5. InstanceTyped'
    BY <1>1, <1>4, <2>4 DEF InstanceTyped
  <2>6. \A d \in Calls : ~Switching(d)
    BY <1>1, PluginInstanceAssumption DEF LockHeld
  <2>7. LockHeld'
    BY <1>4, <2>4, <2>6 DEF LockHeld
  <2>8. ContentNew'
    BY <1>1, <1>2, <2>2, <2>3, ContentKept
  <2>9. ASSUME ~overtaken' PROVE RemovalAlone' /\ RunsAsWritten' /\ AppliedKnown'
    <3>1. RemovalAlone /\ RunsAsWritten /\ AppliedKnown
      BY <1>1, <2>9
    <3>2. \A d \in Calls : ~Removing(d)
      BY <1>2, <3>1 DEF RemovalAlone
    <3>3. RemovalAlone'
      BY <2>4, <3>2 DEF RemovalAlone
    <3>4. RunsAsWritten'
      <4>1. \A d \in Calls : Under(d)' /\ ~Removing(d)' => registered
        BY <1>2, <2>4, <3>1 DEF RunsAsWritten
      <4>2. \A d \in Calls : Switching(d)' => d = c
        BY <2>4, <2>6
      <4>3. \A d \in Calls : Switching(d)' => (active' = TRUE <=> call'[d].op = "enable")
        BY <1>4, <2>3, <2>4, <4>2
      <4>4. registered
        BY <1>2, <3>1 DEF RunsAsWritten
      <4> QED  BY <1>1, <2>4, <4>1, <4>3, <4>4 DEF RunsAsWritten
    <3>5. AppliedKnown'
      <4>1. \A d \in Calls : (Configuring(d)' <=> Configuring(d)) /\ (Configuring(d) => call'[d] = call[d])
        BY <1>2, <2>4
      <4> QED  BY <1>1, <3>1, <4>1 DEF AppliedKnown
    <3> QED  BY <3>3, <3>4, <3>5
  <2> QED  BY <2>5, <2>7, <2>8, <2>9 DEF InstanceSound
<1> QED  BY <1>3, <1>4 DEF Switch

LEMMA InstanceReadAgain ==
    ASSUME InstanceSound, NEW c \in Calls, ReadAgain(c)
    PROVE  InstanceSound'
<1>1. /\ InstanceTyped /\ LockHeld /\ conf \in Confs
      /\ ~overtaken => RemovalAlone /\ RunsAsWritten /\ AppliedKnown
      /\ call[c].op \in {"enable", "disable"} /\ call[c].step = "again"
      /\ UNCHANGED <<conf, registered, active, applied, lock, pluginCalls, overtaken, unsaved>>
  BY DEF InstanceSound, InstanceTyped, ReadAgain
<1>2. Under(c) /\ call[c] \in Served /\ ~Removing(c) /\ ~Configuring(c) /\ Switching(c)
  BY <1>1, CallShape DEF Removing, Configuring, Switching, At
<1>3. PICK reread : reread = [call[c] EXCEPT !.step = "write", !.copy = conf]
  OBVIOUS
<1>4. PICK old : old = [call[c] EXCEPT !.step = "write"]
  OBVIOUS
<1>5. PICK new \in {reread, old} : call' = [call EXCEPT ![c] = new]
  <2>1. /\ call \in [Calls -> {Ended} \cup Served]
        /\ \/ call' = [call EXCEPT ![c].step = "write", ![c].copy = conf]
           \/ call' = [call EXCEPT ![c].step = "write"]
    BY <1>1 DEF ReadAgain, InstanceTyped, To
  <2> QED  BY <1>2, <1>3, <1>4, <2>1
<1>6. /\ new \in Served /\ new.op = call[c].op /\ new.step = "write" /\ new.value = call[c].value
      /\ new.copy \in {conf, call[c].copy}
  BY <1>1, <1>2, <1>3, <1>4, <1>5 DEF Served
<1>7. new # Ended
  BY <1>1, <1>6 DEF Ended
<1>8. /\ call' \in [Calls -> {Ended} \cup Served]
      /\ call'[c] = new
      /\ \A d \in Calls : d # c => call'[d] = call[d]
      /\ \A d \in Calls : d # c => /\ Under(d)' <=> Under(d)
                                   /\ Switching(d)' <=> Switching(d)
                                   /\ Removing(d)' <=> Removing(d)
                                   /\ Configuring(d)' <=> Configuring(d)
      /\ Under(c)' /\ Switching(c)' /\ ~Configuring(c)' /\ ~Removing(c)'
  BY <1>1, <1>5, <1>6, <1>7, OneCall
<1>9. InstanceTyped'
  BY <1>1, <1>8 DEF InstanceTyped
<1>10. LockHeld'
  BY <1>1, <1>2, <1>8 DEF LockHeld
<1>11. ContentNew'
  BY <1>1, <1>2, <1>5, <1>6, ContentKept
<1>12. ASSUME ~overtaken' PROVE RemovalAlone' /\ RunsAsWritten' /\ AppliedKnown'
  <2>1. RemovalAlone /\ RunsAsWritten /\ AppliedKnown
    BY <1>1, <1>12
  <2>2. \A d \in Calls : ~Removing(d)
    BY <1>2, <2>1 DEF RemovalAlone
  <2>3. RemovalAlone'
    BY <1>8, <2>2 DEF RemovalAlone
  <2>4. RunsAsWritten'
    <3>1. \A d \in Calls : (Switching(d)' <=> Switching(d)) /\ (Under(d)' <=> Under(d)) /\ call'[d].op = call[d].op
      BY <1>2, <1>6, <1>8
    <3>2. registered
      BY <1>2, <2>1 DEF RunsAsWritten
    <3>3. \A d \in Calls : Switching(d)' => (active = TRUE <=> call'[d].op = "enable")
      BY <2>1, <3>1 DEF RunsAsWritten
    <3> QED  BY <1>1, <1>8, <3>2, <3>3 DEF RunsAsWritten
  <2>5. AppliedKnown'
    <3>1. \A d \in Calls : (Configuring(d)' <=> Configuring(d)) /\ (Configuring(d) => call'[d] = call[d])
      BY <1>2, <1>8
    <3> QED  BY <1>1, <2>1, <3>1 DEF AppliedKnown
  <2> QED  BY <2>3, <2>4, <2>5
<1> QED  BY <1>9, <1>10, <1>11, <1>12 DEF InstanceSound

LEMMA InstanceWritten ==
    ASSUME InstanceSound, NEW c \in Calls,
           call[c].op \in {"enable", "disable"}, call[c].step = "write",
           UpdatePluginConf(c, [call[c].copy EXCEPT !.enabled = (call[c].op = "enable")]),
           unsaved' = unsaved \ {"state"}, lock' = NoHolder, End(c),
           UNCHANGED <<registered, active, applied, pluginCalls>>
    PROVE  InstanceSound'
<1>1. /\ InstanceTyped /\ LockHeld /\ conf \in Confs /\ overtaken \in BOOLEAN
      /\ ~overtaken => RemovalAlone /\ RunsAsWritten /\ AppliedKnown
      /\ call[c].op \in {"enable", "disable"} /\ call[c].step = "write"
      /\ UNCHANGED <<registered, active, applied, pluginCalls>> /\ lock' = NoHolder
      /\ unsaved' = unsaved \ {"state"}
  BY DEF InstanceSound, InstanceTyped
<1>2. Under(c) /\ call[c] \in Served /\ ~Removing(c) /\ ~Configuring(c) /\ Switching(c)
  BY <1>1, CallShape DEF Removing, Configuring, Switching, At
<1>3. PICK on \in BOOLEAN : on = (call[c].op = "enable")
  OBVIOUS
<1>4. PICK row : row = [call[c].copy EXCEPT !.enabled = on]
  OBVIOUS
<1>5. /\ call' = [call EXCEPT ![c] = Ended] /\ conf' = row
      /\ overtaken' = (overtaken \/ conf # call[c].copy)
  BY <1>3, <1>4 DEF UpdatePluginConf, End
<1>6. row \in Confs /\ row.enabled = on /\ row.config = call[c].copy.config
  BY <1>2, <1>4 DEF Served, Confs
<1>7. /\ call' \in [Calls -> {Ended} \cup Served]
      /\ \A d \in Calls : d # c => call'[d] = call[d]
      /\ \A d \in Calls : d # c => /\ Under(d)' <=> Under(d)
                                   /\ Switching(d)' <=> Switching(d)
                                   /\ Removing(d)' <=> Removing(d)
                                   /\ Configuring(d)' <=> Configuring(d)
      /\ ~Under(c)' /\ ~Switching(c)' /\ ~Configuring(c)' /\ ~Removing(c)'
  BY <1>5, OneCall, EndedIsNone
<1>8. InstanceTyped'
  BY <1>1, <1>5, <1>6, <1>7 DEF InstanceTyped
<1>9. LockHeld'
  BY <1>1, <1>2, <1>7, PluginInstanceAssumption DEF LockHeld
<1>10. ContentNew'
  BY <1>1, <1>2, <1>5, <1>6, EndedIsNone, ContentKept
<1>11. ASSUME ~overtaken' PROVE RemovalAlone' /\ RunsAsWritten' /\ AppliedKnown'
  <2>1. RemovalAlone /\ RunsAsWritten /\ AppliedKnown /\ call[c].copy = conf
    BY <1>1, <1>5, <1>11
  <2>2. \A d \in Calls : ~Removing(d)'
    BY <1>2, <1>7, <2>1 DEF RemovalAlone
  <2>3. RemovalAlone'
    BY <2>2 DEF RemovalAlone
  <2>4. RunsAsWritten'
    <3>1. registered /\ (active = TRUE <=> on = TRUE) /\ active \in BOOLEAN
      BY <1>1, <1>2, <1>3, <2>1 DEF RunsAsWritten, InstanceTyped
    <3>2. active = conf'.enabled
      BY <1>5, <1>6, <3>1
    <3>3. \A d \in Calls : ~Switching(d)'
      BY <1>2, <1>7, <1>1 DEF LockHeld
    <3> QED  BY <1>1, <3>1, <3>2, <3>3 DEF RunsAsWritten
  <2>5. AppliedKnown'
    <3>1. \A d \in Calls : (Configuring(d)' <=> Configuring(d)) /\ (Configuring(d) => call'[d] = call[d])
      BY <1>2, <1>7
    <3>2. conf'.config = conf.config
      BY <1>5, <1>6, <2>1
    <3> QED  BY <1>1, <2>1, <3>1, <3>2 DEF AppliedKnown
  <2> QED  BY <2>3, <2>4, <2>5
<1> QED  BY <1>8, <1>9, <1>10, <1>11 DEF InstanceSound

LEMMA InstanceConfigured ==
    ASSUME InstanceSound, NEW c \in Calls, ValidateAndSetConfig(c)
    PROVE  InstanceSound'
<1>1. /\ InstanceTyped /\ LockHeld /\ conf \in Confs
      /\ ~overtaken => RemovalAlone /\ RunsAsWritten /\ AppliedKnown
      /\ call[c].op = "config" /\ call[c].step = "read"
      /\ UNCHANGED <<conf, registered, active, lock, pluginCalls, overtaken, unsaved>>
  BY DEF InstanceSound, InstanceTyped, ValidateAndSetConfig, At
<1>2. Under(c) /\ call[c] \in Served /\ ~Removing(c) /\ ~Configuring(c) /\ ~Switching(c)
  BY <1>1, CallShape DEF Removing, Configuring, Switching, At
<1>3. CASE End(c) /\ UNCHANGED applied
  BY <1>1, <1>2, <1>3, InstanceRefused
<1>4. CASE applied' = call[c].value /\ To(c, "write")
  <2>1. PICK new : new = [call[c] EXCEPT !.step = "write"]
    OBVIOUS
  <2>2. call' = [call EXCEPT ![c] = new]
    BY <1>4, <2>1 DEF To
  <2>3. /\ new \in Served /\ new # Ended /\ new.op = call[c].op /\ new.step = "write"
        /\ new.copy = call[c].copy /\ new.value = call[c].value
    BY <1>2, <2>1, Stepped
  <2>4. /\ call' \in [Calls -> {Ended} \cup Served]
        /\ call'[c] = new
        /\ \A d \in Calls : d # c => call'[d] = call[d]
        /\ \A d \in Calls : d # c => /\ Under(d)' <=> Under(d)
                                     /\ Switching(d)' <=> Switching(d)
                                     /\ Removing(d)' <=> Removing(d)
                                     /\ Configuring(d)' <=> Configuring(d)
        /\ Under(c)' /\ ~Switching(c)' /\ Configuring(c)' /\ ~Removing(c)'
    <3>1. new.op = "config" /\ new.step = "write" /\ new # Ended /\ new \in {Ended} \cup Served
      BY <1>1, <2>3
    <3> QED  BY <2>2, <3>1, OneCall
  <2>5. InstanceTyped'
    BY <1>1, <2>4 DEF InstanceTyped
  <2>6. LockHeld'
    BY <1>1, <1>2, <2>4 DEF LockHeld
  <2>7. ContentNew'
    BY <1>1, <1>2, <2>2, <2>3, ContentKept
  <2>8. ASSUME ~overtaken' PROVE RemovalAlone' /\ RunsAsWritten' /\ AppliedKnown'
    <3>1. RemovalAlone /\ RunsAsWritten /\ AppliedKnown
      BY <1>1, <2>8
    <3>2. \A d \in Calls : ~Removing(d)
      BY <1>2, <3>1 DEF RemovalAlone
    <3>3. RemovalAlone'
      BY <2>4, <3>2 DEF RemovalAlone
    <3>4. RunsAsWritten'
      <4>1. \A d \in Calls : (Switching(d)' <=> Switching(d)) /\ (Under(d)' <=> Under(d)) /\ (Removing(d)' <=> Removing(d)) /\ (Switching(d) => call'[d] = call[d])
        BY <1>2, <2>4
      <4>2. ASSUME registered, "state" \notin unsaved, \A d \in Calls : ~Switching(d)' PROVE active = conf.enabled
        BY <3>1, <3>2, <4>1, <4>2 DEF RunsAsWritten
      <4> QED  BY <1>1, <3>1, <4>1, <4>2 DEF RunsAsWritten
    <3>5. AppliedKnown'
      <4>1. Configuring(c)' /\ applied' = call'[c].value
        BY <1>4, <2>3, <2>4
      <4> QED  BY <4>1 DEF AppliedKnown
    <3> QED  BY <3>3, <3>4, <3>5
  <2> QED  BY <2>5, <2>6, <2>7, <2>8 DEF InstanceSound
<1> QED  BY <1>3, <1>4 DEF ValidateAndSetConfig

\* A row that is written without the lock, by a call that is no switch and no
\* removal and ends, keeps what the row says of the switch.
LEMMA InstanceStored ==
    ASSUME InstanceSound, NEW c \in Calls, NEW row \in Confs, Under(c),
           call[c].op \in {"config", "store"},
           row.enabled = call[c].copy.enabled,
           (row.config = call[c].copy.config /\ ~Configuring(c)) \/ (row.config = call[c].value /\ Configuring(c)),
           End(c), UpdatePluginConf(c, row),
           UNCHANGED <<registered, active, applied, lock, pluginCalls, unsaved>>
    PROVE  InstanceSound'
<1>1. /\ InstanceTyped /\ LockHeld /\ conf \in Confs /\ overtaken \in BOOLEAN /\ ContentNew
      /\ ~overtaken => RemovalAlone /\ RunsAsWritten /\ AppliedKnown
  BY DEF InstanceSound, InstanceTyped
<1>2. call[c] \in Served /\ ~Removing(c) /\ ~Switching(c)
  BY CallShape DEF Removing, Switching
<1>3. /\ call' = [call EXCEPT ![c] = Ended] /\ conf' = row
      /\ overtaken' = (overtaken \/ conf # call[c].copy)
  BY DEF UpdatePluginConf, End
<1>4. /\ call' \in [Calls -> {Ended} \cup Served]
      /\ \A d \in Calls : d # c => call'[d] = call[d]
      /\ \A d \in Calls : d # c => /\ Under(d)' <=> Under(d)
                                   /\ Switching(d)' <=> Switching(d)
                                   /\ Removing(d)' <=> Removing(d)
                                   /\ Configuring(d)' <=> Configuring(d)
      /\ ~Under(c)' /\ ~Switching(c)' /\ ~Configuring(c)' /\ ~Removing(c)'
  BY <1>3, OneCall, EndedIsNone
<1>5. InstanceTyped'
  BY <1>1, <1>3, <1>4 DEF InstanceTyped
<1>6. LockHeld'
  BY <1>1, <1>2, <1>4 DEF LockHeld
<1>7. ContentNew'
  BY <1>1, <1>2, <1>3, EndedIsNone, ContentKept
<1>8. ASSUME ~overtaken' PROVE RemovalAlone' /\ RunsAsWritten' /\ AppliedKnown'
  <2>1. RemovalAlone /\ RunsAsWritten /\ AppliedKnown /\ call[c].copy = conf
    BY <1>1, <1>3, <1>8
  <2>2. \A d \in Calls : ~Removing(d)' /\ ~Removing(d)
    BY <1>2, <1>4, <2>1 DEF RemovalAlone
  <2>3. RemovalAlone'
    BY <2>2 DEF RemovalAlone
  <2>4. RunsAsWritten'
    <3>1. \A d \in Calls : (Switching(d)' <=> Switching(d)) /\ (Under(d)' => Under(d)) /\ (Switching(d) => call'[d] = call[d])
      BY <1>2, <1>4
    <3>2. conf'.enabled = conf.enabled
      BY <1>3, <2>1
    <3>3. ASSUME registered, "state" \notin unsaved, \A d \in Calls : ~Switching(d)' PROVE active = conf.enabled
      BY <2>1, <2>2, <3>1, <3>3 DEF RunsAsWritten
    <3> QED  BY <1>1, <2>1, <2>2, <3>1, <3>2, <3>3 DEF RunsAsWritten
  <2>5. AppliedKnown'
    <3>1. CASE ~Configuring(c)
      <4>1. \A d \in Calls : (Configuring(d)' <=> Configuring(d)) /\ (Configuring(d) => call'[d] = call[d])
        BY <1>4, <3>1
      <4>2. conf'.config = conf.config
        BY <1>3, <2>1, <3>1
      <4> QED  BY <1>1, <2>1, <4>1, <4>2 DEF AppliedKnown
    <3>2. CASE "config" \in unsaved
      BY <3>2 DEF AppliedKnown
    <3>3. CASE Configuring(c) /\ "config" \notin unsaved
      <4>1. conf'.config = call[c].value
        BY <1>3, <3>3
      <4>2. PICK d \in Calls : Configuring(d) /\ applied = call[d].value
        BY <2>1, <3>3 DEF AppliedKnown
      <4>3. applied = conf'.config \/ (Configuring(d)' /\ applied = call'[d].value)
        BY <1>4, <4>1, <4>2
      <4>4. \A e \in Calls : Configuring(e)' => call'[e].copy.config # conf'.config
        <5> SUFFICES ASSUME NEW e \in Calls, Configuring(e)' PROVE call'[e].copy.config # call[c].value
          BY <4>1
        <5>1. e # c /\ Configuring(e) /\ call'[e] = call[e]
          BY <1>4
        <5>2. Under(e)
          BY <5>1, CallShape
        <5> QED  BY <1>1, <5>1, <5>2 DEF ContentNew
      <4> QED  BY <4>3, <4>4 DEF AppliedKnown
    <3> QED  BY <3>1, <3>2, <3>3
  <2> QED  BY <2>3, <2>4, <2>5
<1> QED  BY <1>5, <1>6, <1>7, <1>8 DEF InstanceSound

LEMMA InstanceSaves ==
    ASSUME InstanceSound, NEW c \in Calls, WriteConfig(c) \/ SaveStorage(c)
    PROVE  InstanceSound'
<1>1. CASE WriteConfig(c)
  <2>1. call[c].op = "config" /\ call[c].step = "write" /\ Configuring(c)
    BY <1>1 DEF WriteConfig, At, Configuring
  <2>2. Under(c) /\ call[c] \in Served
    BY <2>1, CallShape
  <2>3. PICK row : row = [call[c].copy EXCEPT !.config = call[c].value]
    OBVIOUS
  <2>4. row \in Confs /\ row.enabled = call[c].copy.enabled /\ row.config = call[c].value
    BY <2>2, <2>3 DEF Served, Confs
  <2>5. End(c) /\ UNCHANGED <<registered, active, applied, lock, pluginCalls>>
    BY <1>1 DEF WriteConfig
  <2>6. CASE UpdatePluginConf(c, row) /\ UNCHANGED unsaved
    BY <2>1, <2>2, <2>4, <2>5, <2>6, InstanceStored
  <2>7. CASE NotSaved({"config"})
    <3>1. ~Switching(c) /\ ~Removing(c)
      BY <2>1 DEF Switching, Removing
    <3> QED  BY <2>2, <2>5, <2>7, <3>1, InstanceUnsaved DEF NotSaved
  <2> QED  BY <1>1, <2>3, <2>6, <2>7 DEF WriteConfig
<1>2. CASE SaveStorage(c)
  <2>1. call[c].op = "store" /\ ~Configuring(c)
    BY <1>2 DEF SaveStorage, At, Configuring
  <2>2. Under(c) /\ call[c] \in Served
    BY <2>1, CallShape
  <2>3. PICK row : row = [call[c].copy EXCEPT !.storage = call[c].value]
    OBVIOUS
  <2>4. row \in Confs /\ row.enabled = call[c].copy.enabled /\ row.config = call[c].copy.config
    BY <2>2, <2>3 DEF Served, Confs
  <2>5. End(c) /\ UNCHANGED <<registered, active, applied, lock, pluginCalls>>
    BY <1>2 DEF SaveStorage
  <2>6. CASE UpdatePluginConf(c, row) /\ UNCHANGED unsaved
    BY <2>1, <2>2, <2>4, <2>5, <2>6, InstanceStored
  <2>7. CASE NotSaved({})
    <3>1. ~Switching(c) /\ ~Removing(c)
      BY <2>1 DEF Switching, Removing
    <3> QED  BY <2>1, <2>2, <2>5, <2>7, <3>1, InstanceUnsaved DEF NotSaved
  <2> QED  BY <1>2, <2>3, <2>6, <2>7 DEF SaveStorage
<1> QED  BY <1>1, <1>2

\* A removal stops the instance its row calls enabled.
LEMMA InstanceStopped ==
    ASSUME InstanceSound, NEW c \in Calls, Removing(c), call[c].step = "read",
           NEW step \in {"write", "drop"}, To(c, step),
           active' \in BOOLEAN,
           registered /\ call[c].copy.enabled => active' = FALSE,
           ~(registered /\ call[c].copy.enabled) => active' = active,
           UNCHANGED <<conf, registered, applied, lock, pluginCalls, overtaken, unsaved>>
    PROVE  InstanceSound'
<1>1. /\ InstanceTyped /\ LockHeld /\ conf \in Confs
      /\ ~overtaken => RemovalAlone /\ RunsAsWritten /\ AppliedKnown
  BY DEF InstanceSound, InstanceTyped
<1>2. Under(c) /\ call[c] \in Served /\ ~Configuring(c) /\ ~Switching(c) /\ call[c].op \in {"uninstall", "remove"}
  BY CallShape DEF Removing
<1>3. PICK new : new = [call[c] EXCEPT !.step = step]
  OBVIOUS
<1>4. call' = [call EXCEPT ![c] = new]
  BY <1>3 DEF To
<1>5. /\ new \in Served /\ new # Ended /\ new.op = call[c].op /\ new.step = step
      /\ new.copy = call[c].copy /\ new.value = call[c].value
  BY <1>2, <1>3, Stepped
<1>6. /\ call' \in [Calls -> {Ended} \cup Served]
      /\ call'[c] = new
      /\ \A d \in Calls : d # c => call'[d] = call[d]
      /\ \A d \in Calls : d # c => /\ Under(d)' <=> Under(d)
                                   /\ Switching(d)' <=> Switching(d)
                                   /\ Removing(d)' <=> Removing(d)
                                   /\ Configuring(d)' <=> Configuring(d)
      /\ Under(c)' /\ ~Switching(c)' /\ ~Configuring(c)' /\ Removing(c)'
  <2>1. new.op \in {"uninstall", "remove"}
    BY <1>2, <1>5
  <2> QED  BY <1>4, <1>5, <2>1, OneCall
<1>7. InstanceTyped'
  BY <1>1, <1>6 DEF InstanceTyped
<1>8. LockHeld'
  BY <1>1, <1>2, <1>6 DEF LockHeld
<1>9. ContentNew'
  BY <1>1, <1>2, <1>4, <1>5, ContentKept
<1>10. ASSUME ~overtaken' PROVE RemovalAlone' /\ RunsAsWritten' /\ AppliedKnown'
  <2>1. RemovalAlone /\ RunsAsWritten /\ AppliedKnown
    BY <1>1, <1>10
  <2>2. (\A d \in Calls : d # c => ~Under(d)) /\ call[c].copy = conf
    BY <2>1 DEF RemovalAlone
  <2>3. \A d \in Calls : d # c => ~Switching(d) /\ ~Removing(d) /\ ~Configuring(d)
    BY <2>2, CallShape
  <2>4. "state" \notin unsaved => active' = FALSE
    <3>1. registered /\ "state" \notin unsaved => active = conf.enabled
      BY <1>2, <2>1, <2>3 DEF RunsAsWritten
    <3>2. ~registered /\ "state" \notin unsaved => active = FALSE
      BY <2>1 DEF RunsAsWritten
    <3>3. conf.enabled \in BOOLEAN
      BY <1>1 DEF Confs
    <3> QED  BY <2>2, <3>1, <3>2, <3>3
  <2>5. RemovalAlone'
    BY <1>1, <1>5, <1>6, <2>2, <2>3, <2>4 DEF RemovalAlone
  <2>6. RunsAsWritten'
    BY <1>1, <1>5, <1>6, <2>2, <2>3, <2>4 DEF RunsAsWritten
  <2>7. AppliedKnown'
    BY <1>1, <1>2, <1>6, <2>1, <2>3 DEF AppliedKnown
  <2> QED  BY <2>5, <2>6, <2>7
<1> QED  BY <1>7, <1>8, <1>9, <1>10 DEF InstanceSound

LEMMA InstanceUninstalls ==
    ASSUME InstanceSound, NEW c \in Calls, DisableForUninstall(c) \/ DisableForRemoval(c)
    PROVE  InstanceSound'
<1>1. /\ call[c].step = "read" /\ call[c].op \in {"uninstall", "remove"} /\ active \in BOOLEAN
      /\ UNCHANGED <<conf, registered, applied, lock, pluginCalls, overtaken, unsaved>>
  BY DEF DisableForUninstall, DisableForRemoval, At, InstanceSound, InstanceTyped
<1>2. Removing(c) /\ Under(c)
  BY <1>1, CallShape DEF Removing
<1>3. CASE End(c) /\ UNCHANGED active
  BY <1>1, <1>2, <1>3, InstanceRefused
<1>4. CASE registered /\ call[c].copy.enabled /\ active' = FALSE /\ To(c, "write")
  BY <1>1, <1>2, <1>4, InstanceStopped
<1>5. CASE ~(registered /\ call[c].copy.enabled) /\ active' = active /\ To(c, "write")
  BY <1>1, <1>2, <1>5, InstanceStopped
<1>6. CASE active' = (active /\ ~(registered /\ call[c].copy.enabled)) /\ To(c, "drop")
  <2>1. call[c].copy.enabled \in BOOLEAN /\ registered \in BOOLEAN
    BY <1>2, CallShape DEF Served, Confs, InstanceSound, InstanceTyped
  <2>2. active' \in BOOLEAN
    BY <1>6
  <2>3. registered /\ call[c].copy.enabled => active' = FALSE
    BY <1>6
  <2>4. ~(registered /\ call[c].copy.enabled) => active' = active
    BY <1>1, <1>6
  <2> QED  BY <1>1, <1>2, <1>6, <2>2, <2>3, <2>4, InstanceStopped
<1> QED  BY <1>3, <1>4, <1>5, <1>6 DEF DisableForUninstall, DisableForRemoval

LEMMA InstanceUninstalled ==
    ASSUME InstanceSound, NEW c \in Calls, At(c, "uninstall", "write"), To(c, "drop"),
           UpdatePluginConf(c, [call[c].copy EXCEPT !.enabled = FALSE]),
           UNCHANGED <<registered, active, applied, lock, pluginCalls, unsaved>>
    PROVE  InstanceSound'
<1>1. /\ InstanceTyped /\ LockHeld /\ conf \in Confs /\ overtaken \in BOOLEAN
      /\ ~overtaken => RemovalAlone /\ RunsAsWritten /\ AppliedKnown
      /\ call[c].op = "uninstall" /\ call[c].step = "write"
      /\ UNCHANGED <<registered, active, applied, lock, pluginCalls, unsaved>>
  BY DEF InstanceSound, InstanceTyped, At
<1>2. Removing(c)
  BY <1>1 DEF Removing
<1>3. Under(c) /\ call[c] \in Served /\ ~Configuring(c) /\ ~Switching(c)
  BY <1>2, CallShape
<1>4. PICK row : row = [call[c].copy EXCEPT !.enabled = FALSE]
  OBVIOUS
<1>5. row \in Confs /\ row.config = call[c].copy.config
  BY <1>3, <1>4 DEF Served, Confs
<1>6. PICK new : new = [call[c] EXCEPT !.step = "drop"]
  OBVIOUS
<1>7. call' = [call EXCEPT ![c] = new] /\ conf' = row /\ overtaken' = (overtaken \/ conf # call[c].copy)
  BY <1>4, <1>6 DEF To, UpdatePluginConf
<1>8. /\ new \in Served /\ new # Ended /\ new.op = call[c].op /\ new.step = "drop"
      /\ new.copy = call[c].copy /\ new.value = call[c].value
  BY <1>3, <1>6, Stepped
<1>9. /\ call' \in [Calls -> {Ended} \cup Served]
      /\ call'[c] = new
      /\ \A d \in Calls : d # c => call'[d] = call[d]
      /\ \A d \in Calls : d # c => /\ Under(d)' <=> Under(d)
                                   /\ Switching(d)' <=> Switching(d)
                                   /\ Removing(d)' <=> Removing(d)
                                   /\ Configuring(d)' <=> Configuring(d)
      /\ Under(c)' /\ ~Switching(c)' /\ ~Configuring(c)' /\ Removing(c)'
  <2>1. new.op = "uninstall"
    BY <1>1, <1>8
  <2> QED  BY <1>7, <1>8, <2>1, OneCall
<1>10. InstanceTyped'
  BY <1>1, <1>5, <1>7, <1>9 DEF InstanceTyped
<1>11. LockHeld'
  BY <1>1, <1>3, <1>9 DEF LockHeld
<1>12. ContentNew'
  BY <1>1, <1>3, <1>5, <1>7, <1>8, ContentKept
<1>13. ASSUME ~overtaken' PROVE RemovalAlone' /\ RunsAsWritten' /\ AppliedKnown'
  <2>1. RemovalAlone /\ RunsAsWritten /\ AppliedKnown /\ call[c].copy = conf
    BY <1>1, <1>7, <1>13
  <2>2. (\A d \in Calls : d # c => ~Under(d)) /\ ("state" \notin unsaved => active = FALSE)
    BY <1>1, <1>2, <2>1 DEF RemovalAlone
  <2>3. \A d \in Calls : d # c => ~Switching(d) /\ ~Removing(d) /\ ~Configuring(d)
    BY <2>2, CallShape
  <2>4. RemovalAlone'
    BY <1>1, <1>8, <1>9, <2>2, <2>3 DEF RemovalAlone
  <2>5. RunsAsWritten'
    BY <1>1, <1>8, <1>9, <2>2, <2>3 DEF RunsAsWritten
  <2>6. AppliedKnown'
    BY <1>1, <1>3, <1>5, <1>7, <1>9, <2>1, <2>3 DEF AppliedKnown
  <2> QED  BY <2>4, <2>5, <2>6
<1> QED  BY <1>10, <1>11, <1>12, <1>13 DEF InstanceSound

LEMMA InstanceDropped ==
    ASSUME InstanceSound, NEW c \in Calls, DropInstance(c)
    PROVE  InstanceSound'
<1>1. /\ InstanceTyped /\ LockHeld /\ conf \in Confs
      /\ ~overtaken => RemovalAlone /\ RunsAsWritten /\ AppliedKnown
      /\ call[c].op \in {"uninstall", "remove"} /\ call[c].step = "drop"
      /\ registered' = FALSE /\ call' = [call EXCEPT ![c] = Ended] /\ conf' \in {conf, NewConf}
      /\ UNCHANGED <<active, applied, lock, pluginCalls, overtaken, unsaved>>
  BY DEF InstanceSound, InstanceTyped, DropInstance, End
<1>2. Removing(c)
  BY <1>1 DEF Removing
<1>3. Under(c) /\ call[c] \in Served /\ ~Configuring(c) /\ ~Switching(c)
  BY <1>2, CallShape
<1>4. NewConf \in Confs /\ NewConf.config = 0
  BY DEF NewConf, Confs
<1>5. conf' \in Confs /\ conf'.config \in {0, conf.config}
  BY <1>1, <1>4
<1>6. /\ call' \in [Calls -> {Ended} \cup Served]
      /\ \A d \in Calls : d # c => /\ Under(d)' <=> Under(d)
                                   /\ Switching(d)' <=> Switching(d)
                                   /\ Removing(d)' <=> Removing(d)
                                   /\ Configuring(d)' <=> Configuring(d)
      /\ ~Under(c)' /\ ~Switching(c)' /\ ~Configuring(c)' /\ ~Removing(c)'
  BY <1>1, OneCall, EndedIsNone
<1>7. InstanceTyped'
  BY <1>1, <1>5, <1>6 DEF InstanceTyped
<1>8. LockHeld'
  BY <1>1, <1>3, <1>6 DEF LockHeld
<1>9. ContentNew'
  BY <1>1, <1>3, <1>5, EndedIsNone, ContentKept
<1>10. ASSUME ~overtaken' PROVE RemovalAlone' /\ RunsAsWritten' /\ AppliedKnown'
  <2>1. (\A d \in Calls : d # c => ~Under(d)) /\ ("state" \notin unsaved => active = FALSE)
    BY <1>1, <1>2, <1>10 DEF RemovalAlone
  <2>2. \A d \in Calls : ~Under(d)' /\ ~Switching(d)' /\ ~Removing(d)' /\ ~Configuring(d)'
    BY <1>6, <2>1, CallShape
  <2> QED  BY <1>1, <2>1, <2>2 DEF RemovalAlone, RunsAsWritten, AppliedKnown
<1> QED  BY <1>7, <1>8, <1>9, <1>10 DEF InstanceSound

\* The instance is made from the row and the row from it.
LEMMA InstanceInitialized ==
    ASSUME InstanceTyped, initializeSingleUserPlugin
    PROVE  /\ conf' \in Confs /\ conf'.config \in {0, conf.config}
           /\ registered' = TRUE /\ active' \in BOOLEAN /\ unsaved' \in SUBSET {"state", "config"}
           /\ "state" \notin unsaved' => active' = conf'.enabled
           /\ "config" \notin unsaved' => applied' = conf'.config
           /\ pluginCalls' = pluginCalls + 1
<1>1. conf \in Confs /\ conf.enabled \in BOOLEAN
  BY DEF InstanceTyped, Confs
<1>2. PICK off : off = Defaulted(conf)
  OBVIOUS
<1>3. off \in Confs /\ off.config = 0 /\ off.enabled = FALSE
  BY <1>1, <1>2 DEF Defaulted, Confs
<1>4. PICK failed : failed = EnableFails(conf)
  OBVIOUS
<1>5. failed \in Confs /\ failed.config = conf.config /\ failed.enabled = FALSE
  BY <1>1, <1>4 DEF EnableFails, Confs
<1>6. registered' = TRUE /\ pluginCalls' = pluginCalls + 1
  BY DEF initializeSingleUserPlugin
<1>7. CASE conf' = conf /\ active' = conf.enabled /\ applied' = conf.config /\ unsaved' = {}
  BY <1>1, <1>6, <1>7
<1>8. CASE PluginRefuses(off, {"state", "config"})
  BY <1>1, <1>3, <1>6, <1>8 DEF PluginRefuses
<1>9. CASE PluginRefuses(failed, {"state"})
  BY <1>1, <1>5, <1>6, <1>9 DEF PluginRefuses
<1> QED  BY <1>2, <1>4, <1>7, <1>8, <1>9 DEF initializeSingleUserPlugin

LEMMA InstanceStarts ==
    ASSUME InstanceSound, Initialize \/ StartAgain
    PROVE  InstanceSound'
<1>1. /\ InstanceTyped /\ LockHeld /\ ContentNew /\ pluginCalls \in Nat /\ conf.config \in Nat /\ overtaken \in BOOLEAN
      /\ call \in [Calls -> {Ended} \cup Served]
  BY DEF InstanceSound, InstanceTyped, Confs
<1>2. /\ conf' \in Confs /\ conf'.config \in {0, conf.config}
      /\ registered' = TRUE /\ active' \in BOOLEAN /\ unsaved' \in SUBSET {"state", "config"}
      /\ "state" \notin unsaved' => active' = conf'.enabled
      /\ "config" \notin unsaved' => applied' = conf'.config
      /\ pluginCalls' = pluginCalls + 1
  BY <1>1, InstanceInitialized DEF Initialize, StartAgain
<1>3. CASE Initialize
  <2>1. UNCHANGED <<call, lock>> /\ overtaken' = (overtaken \/ \E d \in Calls : Under(d))
    BY <1>3 DEF Initialize, Under
  <2>2. InstanceTyped'
    BY <1>1, <1>2, <2>1 DEF InstanceTyped
  <2>3. LockHeld'
    BY <1>1, <2>1 DEF LockHeld, Switching
  <2>4. ContentNew'
    <3>1. \A d \in Calls : Under(d) => /\ call[d].value \in Nat \ {0} /\ call[d].copy.config \in Nat
                                       /\ call[d].value <= pluginCalls /\ call[d].copy.config <= pluginCalls
      BY <1>1, CallShape DEF Served, Confs, ContentNew
    <3>2. conf'.config <= pluginCalls'
      BY <1>1, <1>2 DEF ContentNew
    <3>3. \A d \in Calls : Under(d) => /\ call[d].value <= pluginCalls' /\ call[d].copy.config <= pluginCalls'
                                       /\ conf'.config # call[d].value
      BY <1>1, <1>2, <3>1 DEF ContentNew
    <3> QED  BY <1>1, <2>1, <3>2, <3>3 DEF ContentNew, Under
  <2>5. ASSUME ~overtaken' PROVE RemovalAlone' /\ RunsAsWritten' /\ AppliedKnown'
    <3>1. \A d \in Calls : ~Under(d)
      BY <2>1, <2>5
    <3>2. \A d \in Calls : ~Under(d)' /\ ~Switching(d)' /\ ~Removing(d)' /\ ~Configuring(d)'
      BY <2>1, <3>1, CallShape DEF Under, Switching, Removing, Configuring, At
    <3> QED  BY <1>2, <3>2 DEF RemovalAlone, RunsAsWritten, AppliedKnown
  <2> QED  BY <2>2, <2>3, <2>4, <2>5 DEF InstanceSound
<1>4. CASE StartAgain
  <2>1. call' = [d \in Calls |-> Ended] /\ lock' = NoHolder /\ overtaken' = FALSE
    BY <1>4 DEF StartAgain
  <2>2. \A d \in Calls : ~Under(d)' /\ ~Switching(d)' /\ ~Removing(d)' /\ ~Configuring(d)'
    BY <2>1 DEF Under, Switching, Removing, Configuring, At, Ended
  <2>3. InstanceTyped'
    <3>1. call' \in [Calls -> {Ended} \cup Served]
      BY <2>1
    <3>2. pluginCalls' \in Nat
      BY <1>1, <1>2
    <3>3. registered' \in BOOLEAN /\ overtaken' \in BOOLEAN
      BY <1>2, <2>1
    <3> QED  BY <1>2, <3>1, <3>2, <3>3 DEF InstanceTyped
  <2>4. LockHeld'
    BY <2>1, <2>2, PluginInstanceAssumption DEF LockHeld
  <2>5. ContentNew'
    BY <1>1, <1>2, <2>2 DEF ContentNew
  <2>6. RemovalAlone' /\ RunsAsWritten' /\ AppliedKnown'
    BY <1>2, <2>2 DEF RemovalAlone, RunsAsWritten, AppliedKnown
  <2> QED  BY <2>3, <2>4, <2>5, <2>6 DEF InstanceSound
<1> QED  BY <1>3, <1>4

LEMMA InstanceStep == InstanceSound /\ [PluginInstanceNext]_pluginInstanceVars => InstanceSound'
<1> SUFFICES ASSUME InstanceSound, [PluginInstanceNext]_pluginInstanceVars PROVE InstanceSound'
  OBVIOUS
<1>1. ASSUME UNCHANGED <<conf, registered, active, applied, lock, call, pluginCalls, overtaken, unsaved>> PROVE InstanceSound'
  BY <1>1 DEF InstanceSound, InstanceTyped, ContentNew, LockHeld, RemovalAlone, RunsAsWritten, AppliedKnown,
              Under, Switching, Removing, Configuring, At
<1>2. CASE UNCHANGED pluginInstanceVars
  BY <1>1, <1>2 DEF pluginInstanceVars
<1>3. CASE SendMessage \/ DeliverMessage
  BY <1>1, <1>3 DEF SendMessage, DeliverMessage
<1>4. CASE Initialize \/ StartAgain
  BY <1>4, InstanceStarts
<1>5. ASSUME NEW c \in Calls,
             \/ EnablePlugin(c) \/ DisablePlugin(c) \/ UpdateConfig(c) \/ StoreData(c)
             \/ BeginUninstall(c) \/ BeginRemoveUser(c)
      PROVE  InstanceSound'
  <2>1. registered \in BOOLEAN
    BY DEF InstanceSound, InstanceTyped
  <2>2. PICK op \in {"enable", "disable", "config", "store", "uninstall", "remove"} :
           (op \in {"uninstall", "remove"} \/ registered = TRUE) /\ Read(c, op)
    BY <1>5, <2>1 DEF EnablePlugin, DisablePlugin, UpdateConfig, StoreData, BeginUninstall, BeginRemoveUser
  <2> QED  BY <2>2, InstanceRead
<1>6. ASSUME NEW c \in Calls, Switch(c) PROVE InstanceSound'
  BY <1>6, InstanceSwitched
<1>7. ASSUME NEW c \in Calls, ReadAgain(c) PROVE InstanceSound'
  BY <1>7, InstanceReadAgain
<1>8. ASSUME NEW c \in Calls, WriteEnabled(c) PROVE InstanceSound'
  <2>1. /\ call[c].op \in {"enable", "disable"} /\ call[c].step = "write"
        /\ lock' = NoHolder /\ End(c) /\ UNCHANGED <<registered, active, applied, pluginCalls>>
    BY <1>8 DEF WriteEnabled
  <2>2. CASE NotSaved({"state"})
    <3>1. Switching(c) /\ ~Configuring(c) /\ Under(c)
      BY <2>1, CallShape DEF Switching, Configuring, At
    <3> QED  BY <2>1, <2>2, <3>1, InstanceUnsaved DEF NotSaved
  <2> QED  BY <1>8, <2>1, <2>2, InstanceWritten DEF WriteEnabled
<1>9. ASSUME NEW c \in Calls, ValidateAndSetConfig(c) PROVE InstanceSound'
  BY <1>9, InstanceConfigured
<1>10. ASSUME NEW c \in Calls, WriteConfig(c) \/ SaveStorage(c) PROVE InstanceSound'
  BY <1>10, InstanceSaves
<1>11. ASSUME NEW c \in Calls, DisableForUninstall(c) \/ DisableForRemoval(c) PROVE InstanceSound'
  BY <1>11, InstanceUninstalls
<1>12. ASSUME NEW c \in Calls, WriteUninstalled(c) PROVE InstanceSound'
  <2>1. At(c, "uninstall", "write") /\ UNCHANGED <<registered, active, applied, lock, pluginCalls>>
    BY <1>12 DEF WriteUninstalled
  <2>2. CASE NotSaved({"state"}) /\ End(c)
    <3>1. Removing(c)
      BY <2>1 DEF Removing, At
    <3>2. ~Switching(c) /\ ~Configuring(c) /\ Under(c)
      BY <2>1, <3>1, CallShape DEF Switching, At
    <3> QED  BY <2>1, <2>2, <3>1, <3>2, InstanceUnsaved DEF NotSaved
  <2> QED  BY <1>12, <2>1, <2>2, InstanceUninstalled DEF WriteUninstalled
<1>13. ASSUME NEW c \in Calls, DropInstance(c) PROVE InstanceSound'
  BY <1>13, InstanceDropped
<1> QED  BY <1>2, <1>3, <1>4, <1>5, <1>6, <1>7, <1>8, <1>9, <1>10, <1>11, <1>12, <1>13 DEF PluginInstanceNext

\* Between calls the row tells the truth about the plugin's instance, for any
\* number of calls that overlap, as long as none wrote over a newer row
\* (SetPluginEnabled, UninstallPlugin, initializeSingleUserPlugin, UpdateConfig).
THEOREM RowIsTrue == PluginInstanceSpec => []RowMatchesInstance
  BY InstanceInitial, InstanceStep, InstanceTakesOff, PTL DEF PluginInstanceSpec

-----------------------------------------------------------------------------
(* Feeds.                                                                   *)

LEMMA LeastEntry ==
    ASSUME NEW S \in SUBSET Nat, S # {}
    PROVE  \E x \in S : \A y \in S : x <= y
<1> DEFINE R == OpToRel(<, Nat)
<1>1. IsWellFoundedOn(R, Nat)
  BY NatLessThanWellFounded, Zenon
<1>2. \A x, y \in Nat : x < y => <<x, y>> \in R
  BY Zenon DEF OpToRel
<1> HIDE DEF R
<1>3. PICK x \in S : \A y \in S : <<y, x>> \notin R
  BY <1>1, WFMin, Zenon
<1>4. \A y \in S : ~(y < x)
  BY <1>2, <1>3
<1> QED  BY <1>4

LEMMA OldestEntry ==
    ASSUME NEW todo \in SUBSET Entries, todo # {}
    PROVE  Oldest(todo) \in todo /\ Oldest(todo) \in Entries
<1>1. \A e \in Entries : e[2] \in Nat
  BY FeedAssumption DEF Entries
<1>2. {e[2] : e \in todo} \in SUBSET Nat /\ {e[2] : e \in todo} # {}
  BY <1>1
<1>3. \E x \in {e[2] : e \in todo} : \A y \in {e[2] : e \in todo} : x <= y
  BY <1>2, LeastEntry
<1>4. \E e \in todo : \A o \in todo : e[2] <= o[2]
  BY <1>3
<1> QED  BY <1>4 DEF Oldest

Monitors == [exists : BOOLEAN, enabled : BOOLEAN, url : Urls, checked : Int, tag : SUBSET Entries, wanted : SUBSET Entries]

Loaded == [pc : {"lease", "fetch", "cleanup"}, row : Monitors, at : Nat]
Reading == [pc : {"entries", "publish"}, row : Monitors, at : Nat, todo : SUBSET Entries, all : SUBSET Entries]
Leaving == [pc : {"release", "cleanup"}, at : Nat]
Polls == {NoPoll} \cup Loaded \cup Reading \cup Leaving

FeedTyped ==
    /\ minute \in Nat /\ listed \in [Urls -> 1..MaxEntries]
    /\ monitor \in Monitors
    /\ admin = NoAdmin \/ (admin.reading = TRUE /\ admin.row \in Monitors)
    /\ poller \in [Managers -> Polls]
    /\ \A m \in Managers : poller[m].pc = "publish" => poller[m].todo # {}
    /\ seenAt \in [Entries -> Int]
    /\ posted \in [Entries -> Nat] /\ forgotten \in [Entries -> Nat]

PublishersOf(e) == {m \in Managers : poller[m].pc = "publish" /\ Oldest(poller[m].todo) = e}
Records(e) == IF seenAt[e] = Never THEN 0 ELSE 1

\* Each publication, and each that is about to be made, has a record of its own:
\* the one that is there or one that was removed.
OnceCounted ==
    \A e \in Entries :
        /\ IsFiniteSet(PublishersOf(e))
        /\ posted[e] + Cardinality(PublishersOf(e)) <= forgotten[e] + Records(e)

Settled(e) == posted[e] > 0 \/ e \in excused \/ Publishing(e)

\* What a stored or a loaded tag covers, what is recorded and what a poll leaves
\* behind is settled.
LeftSettled ==
    /\ \A e \in offered \cup monitor.tag : Settled(e)
    /\ \A e \in Entries : seenAt[e] # Never => Settled(e)
    /\ admin # NoAdmin => \A e \in admin.row.tag : Settled(e)
    /\ \A m \in Managers : poller[m].pc \in {"lease", "fetch"} => \A e \in poller[m].row.tag : Settled(e)
    /\ \A m \in Managers : poller[m].pc \in {"entries", "publish"} =>
          \A e \in poller[m].all \cup poller[m].row.tag : Settled(e) \/ e \in poller[m].todo

FeedSound == FeedTyped /\ offered \subseteq Entries /\ OnceCounted /\ LeftSettled

LEMMA FeedTakesOff == FeedSound => EntriesSettled
<1> SUFFICES ASSUME FeedSound PROVE EntriesSettled
  OBVIOUS
<1>1. ASSUME NEW e \in Entries PROVE posted[e] <= 1 + forgotten[e]
  <2>1. /\ IsFiniteSet(PublishersOf(e)) /\ posted[e] + Cardinality(PublishersOf(e)) <= forgotten[e] + Records(e)
        /\ posted[e] \in Nat /\ forgotten[e] \in Nat
    BY DEF FeedSound, FeedTyped, OnceCounted
  <2>2. Cardinality(PublishersOf(e)) \in Nat /\ Records(e) \in {0, 1}
    BY <2>1, FS_CardinalityType DEF Records
  <2> QED  BY <2>1, <2>2
<1>2. NothingSkipped
  BY DEF FeedSound, LeftSettled, NothingSkipped, Settled
<1> QED  BY <1>1, <1>2 DEF EntriesSettled, OncePerEntry

LEMMA FeedInitial == FeedInit => FeedSound
<1> SUFFICES ASSUME FeedInit PROVE FeedSound
  OBVIOUS
<1>1. monitor \in Monitors /\ monitor.tag = {}
  BY FeedAssumption DEF FeedInit, Monitors, Never
<1>2. \A m \in Managers : poller[m] = NoPoll /\ poller[m].pc = "idle"
  BY DEF FeedInit, NoPoll
<1>3. poller \in [Managers -> Polls]
  BY DEF FeedInit, Polls
<1>4. FeedTyped
  BY <1>1, <1>2, <1>3, FeedAssumption DEF FeedInit, FeedTyped, Never
<1>5. OnceCounted
  <2> SUFFICES ASSUME NEW e \in Entries
               PROVE  IsFiniteSet(PublishersOf(e)) /\ posted[e] + Cardinality(PublishersOf(e)) <= forgotten[e] + Records(e)
    BY DEF OnceCounted
  <2>1. PublishersOf(e) = {}
    BY <1>2 DEF PublishersOf
  <2>2. posted[e] = 0 /\ forgotten[e] = 0 /\ Records(e) = 0
    BY DEF FeedInit, Records
  <2>3. IsFiniteSet({}) /\ Cardinality({}) = 0
    BY FS_EmptySet
  <2> QED  BY <2>1, <2>2, <2>3
<1>6. LeftSettled
  <2>1. offered = {} /\ monitor.tag = {} /\ admin = NoAdmin /\ \A e \in Entries : seenAt[e] = Never
    BY <1>1 DEF FeedInit
  <2> QED  BY <1>2, <2>1 DEF LeftSettled
<1>7. offered \subseteq Entries
  BY DEF FeedInit
<1> QED  BY <1>4, <1>5, <1>6, <1>7 DEF FeedSound

LEMMA PollShape ==
    ASSUME FeedTyped, NEW m \in Managers
    PROVE  /\ poller[m].pc \in {"lease", "fetch"} => poller[m] \in Loaded
           /\ poller[m].pc \in {"entries", "publish"} => poller[m] \in Reading
           /\ poller[m].pc = "cleanup" => poller[m] \in Loaded \cup Leaving
           /\ poller[m].pc = "release" => poller[m] \in Leaving
  BY DEF FeedTyped, Polls, Loaded, Reading, Leaving, NoPoll

LEMMA PollMoves ==
    ASSUME FeedTyped, NEW m \in Managers, NEW new \in Polls, poller' = [poller EXCEPT ![m] = new]
    PROVE  /\ poller' \in [Managers -> Polls]
           /\ poller'[m] = new /\ \A q \in Managers : q # m => poller'[q] = poller[q]
  BY DEF FeedTyped

LEMMA TagEntries ==
    ASSUME NEW row \in Monitors
    PROVE  row.tag \subseteq Entries
  BY DEF Monitors

\* A poll that neither marks nor publishes.
LEMMA NothingPublished ==
    ASSUME FeedSound, NEW m \in Managers, NEW new \in Polls, poller' = [poller EXCEPT ![m] = new],
           poller[m].pc # "publish", new.pc # "publish", UNCHANGED posted, excused \subseteq excused'
    PROVE  /\ \A e \in Entries : PublishersOf(e)' = PublishersOf(e)
           /\ \A e \in Entries : Settled(e) => Settled(e)'
           /\ \A q \in Managers : poller'[q].pc = "publish" => poller'[q].todo # {}
<1>1. FeedTyped
  BY DEF FeedSound
<1>2. poller'[m] = new /\ \A q \in Managers : q # m => poller'[q] = poller[q]
  BY <1>1, PollMoves
<1>3. \A e \in Entries : PublishersOf(e)' = PublishersOf(e)
  <2> SUFFICES ASSUME NEW e \in Entries PROVE PublishersOf(e)' = PublishersOf(e)
    OBVIOUS
  <2>1. \A q \in Managers : (poller'[q].pc = "publish" /\ Oldest(poller'[q].todo) = e)
                            <=> (poller[q].pc = "publish" /\ Oldest(poller[q].todo) = e)
    BY <1>2
  <2> QED  BY <2>1 DEF PublishersOf, Oldest
<1>4. \A e \in Entries : Publishing(e) => Publishing(e)'
  BY <1>2 DEF Publishing, Oldest
<1>5. \A q \in Managers : poller'[q].pc = "publish" => poller'[q].todo # {}
  BY <1>1, <1>2 DEF FeedTyped
<1> QED  BY <1>3, <1>4, <1>5 DEF Settled

LEMMA CountsKept ==
    ASSUME FeedSound, \A e \in Entries : PublishersOf(e)' = PublishersOf(e),
           UNCHANGED <<posted, forgotten, seenAt>>
    PROVE  OnceCounted'
  BY DEF FeedSound, OnceCounted, Records

LEMMA PollersSettled ==
    ASSUME FeedSound, NEW m \in Managers, NEW new \in Polls, poller' = [poller EXCEPT ![m] = new],
           \A e \in Entries : Settled(e) => Settled(e)',
           \A e \in Entries : seenAt'[e] # Never => seenAt[e] # Never \/ Settled(e)',
           new.pc \in {"lease", "fetch"} => \A e \in new.row.tag : Settled(e)',
           new.pc \in {"entries", "publish"} => \A e \in new.all \cup new.row.tag : Settled(e)' \/ e \in new.todo
    PROVE  /\ \A e \in Entries : seenAt'[e] # Never => Settled(e)'
           /\ \A q \in Managers : poller'[q].pc \in {"lease", "fetch"} => \A e \in poller'[q].row.tag : Settled(e)'
           /\ \A q \in Managers : poller'[q].pc \in {"entries", "publish"} =>
                 \A e \in poller'[q].all \cup poller'[q].row.tag : Settled(e)' \/ e \in poller'[q].todo
<1>1. FeedTyped /\ LeftSettled /\ offered \subseteq Entries
  BY DEF FeedSound
<1>2. poller'[m] = new /\ \A q \in Managers : q # m => poller'[q] = poller[q]
  BY <1>1, PollMoves
<1>4. \A e \in Entries : seenAt'[e] # Never => Settled(e)'
  BY <1>1 DEF LeftSettled
<1>6. ASSUME NEW q \in Managers, poller'[q].pc \in {"lease", "fetch"}, NEW e \in poller'[q].row.tag
      PROVE  Settled(e)'
  <2>1. CASE q = m
    BY <1>2, <1>6, <2>1
  <2>2. CASE q # m
    <3>1. poller'[q] = poller[q] /\ poller[q] \in Loaded
      BY <1>1, <1>2, <1>6, <2>2, PollShape
    <3>2. poller[q].row \in Monitors
      BY <3>1 DEF Loaded
    <3>3. e \in Entries
      BY <1>6, <3>1, <3>2, TagEntries
    <3> QED  BY <1>1, <1>6, <3>1, <3>3 DEF LeftSettled
  <2> QED  BY <2>1, <2>2
<1>7. ASSUME NEW q \in Managers, poller'[q].pc \in {"entries", "publish"},
             NEW e \in poller'[q].all \cup poller'[q].row.tag
      PROVE  Settled(e)' \/ e \in poller'[q].todo
  <2>1. CASE q = m
    BY <1>2, <1>7, <2>1
  <2>2. CASE q # m
    <3>1. poller'[q] = poller[q] /\ poller[q] \in Reading
      BY <1>1, <1>2, <1>7, <2>2, PollShape
    <3>2. poller[q].row \in Monitors /\ poller[q].all \subseteq Entries
      BY <3>1 DEF Reading
    <3>3. e \in Entries
      BY <1>7, <3>1, <3>2, TagEntries
    <3> QED  BY <1>1, <1>7, <3>1, <3>3 DEF LeftSettled
  <2> QED  BY <2>1, <2>2
<1> QED  BY <1>4, <1>6, <1>7

LEMMA PollKeepsSettled ==
    ASSUME FeedSound, NEW m \in Managers, NEW new \in Polls, poller' = [poller EXCEPT ![m] = new],
           UNCHANGED <<monitor, admin, offered>>,
           \A e \in Entries : Settled(e) => Settled(e)',
           \A e \in Entries : seenAt'[e] # Never => seenAt[e] # Never \/ Settled(e)',
           new.pc \in {"lease", "fetch"} => \A e \in new.row.tag : Settled(e)',
           new.pc \in {"entries", "publish"} => \A e \in new.all \cup new.row.tag : Settled(e)' \/ e \in new.todo
    PROVE  LeftSettled'
<1>1. FeedTyped /\ LeftSettled /\ offered \subseteq Entries
  BY DEF FeedSound
<1>3. \A e \in offered' \cup monitor'.tag : Settled(e)'
  BY <1>1, TagEntries DEF LeftSettled, FeedTyped
<1>5. admin' # NoAdmin => \A e \in admin'.row.tag : Settled(e)'
  BY <1>1, TagEntries DEF LeftSettled, FeedTyped
<1> QED  BY <1>3, <1>5, PollersSettled DEF LeftSettled

LEMMA FeedLoaded ==
    ASSUME FeedSound, NEW m \in Managers, LoadDueMonitors(m) \/ AcquirePollLease(m)
    PROVE  FeedSound'
<1>1. FeedTyped /\ LeftSettled /\ offered \subseteq Entries /\ minute \in Nat /\ monitor \in Monitors
  BY DEF FeedSound, FeedTyped
<1>2. PICK first : first = [pc |-> "lease", row |-> monitor, at |-> minute]
  OBVIOUS
<1>3. PICK after \in {"fetch", "cleanup"} :
         LoadDueMonitors(m) \/ poller' = [poller EXCEPT ![m].pc = after]
  BY DEF AcquirePollLease
<1>4. PICK next : next = [poller[m] EXCEPT !.pc = after]
  OBVIOUS
<1>5. poller \in [Managers -> Polls]
  BY <1>1 DEF FeedTyped
<1>6. /\ UNCHANGED <<minute, listed, monitor, admin, seenAt, posted, forgotten, offered, excused>>
      /\ poller[m].pc \in {"idle", "lease"}
  BY DEF LoadDueMonitors, AcquirePollLease, NoPoll
<1>7. PICK new \in Loaded : /\ poller' = [poller EXCEPT ![m] = new]
                            /\ new.pc \in {"lease", "fetch", "cleanup"} /\ \A e \in new.row.tag : Settled(e)
  <2>1. CASE LoadDueMonitors(m)
    <3>1. first \in Loaded /\ first.pc = "lease" /\ first.row = monitor
      BY <1>1, <1>2 DEF Loaded
    <3>2. poller' = [poller EXCEPT ![m] = first]
      BY <1>2, <2>1 DEF LoadDueMonitors
    <3> QED  BY <1>1, <3>1, <3>2 DEF LeftSettled
  <2>2. CASE AcquirePollLease(m) /\ ~LoadDueMonitors(m)
    <3>1. poller[m].pc = "lease" /\ poller[m] \in Loaded
      BY <1>1, <2>2, PollShape DEF AcquirePollLease
    <3>2. next \in Loaded /\ next.row = poller[m].row /\ next.pc = after
      BY <1>4, <3>1 DEF Loaded
    <3>3. poller' = [poller EXCEPT ![m] = next]
      BY <1>3, <1>4, <1>5, <2>2
    <3>4. \A e \in next.row.tag : Settled(e)
      BY <1>1, <3>1, <3>2 DEF LeftSettled
    <3> QED  BY <3>2, <3>3, <3>4
  <2> QED  BY <2>1, <2>2
<1>8. new \in Polls /\ new.row \in Monitors
  BY <1>7 DEF Polls, Loaded
<1>9. /\ \A e \in Entries : PublishersOf(e)' = PublishersOf(e)
      /\ \A e \in Entries : Settled(e) => Settled(e)'
      /\ \A q \in Managers : poller'[q].pc = "publish" => poller'[q].todo # {}
  BY <1>6, <1>7, <1>8, NothingPublished
<1>10. FeedTyped'
  BY <1>1, <1>6, <1>7, <1>8, <1>9, PollMoves DEF FeedTyped
<1>11. OnceCounted'
  BY <1>6, <1>9, CountsKept
<1>12. LeftSettled'
  <2>1. \A e \in new.row.tag : Settled(e)'
    BY <1>7, <1>8, <1>9, TagEntries
  <2> QED  BY <1>6, <1>7, <1>8, <1>9, <2>1, PollKeepsSettled
<1> QED  BY <1>1, <1>6, <1>10, <1>11, <1>12 DEF FeedSound

LEMMA FeedFetched ==
    ASSUME FeedSound, NEW m \in Managers, Fetch(m)
    PROVE  FeedSound'
<1>1. /\ FeedTyped /\ LeftSettled /\ offered \subseteq Entries /\ listed \in [Urls -> 1..MaxEntries]
      /\ poller[m].pc = "fetch" /\ poller \in [Managers -> Polls]
      /\ UNCHANGED <<minute, listed, monitor, admin, seenAt, posted, forgotten, offered>>
  BY DEF FeedSound, FeedTyped, Fetch
<1>2. poller[m] \in Loaded
  BY <1>1, PollShape
<1>3. poller[m].row \in Monitors /\ poller[m].at \in Nat
  BY <1>2 DEF Loaded
<1>4. PICK row : row = [poller[m].row EXCEPT !.checked = poller[m].at]
  OBVIOUS
<1>5. row \in Monitors /\ row.tag = poller[m].row.tag /\ row.url \in Urls
  BY <1>3, <1>4 DEF Monitors
<1>6. PICK page : page = Listed(row.url)
  OBVIOUS
<1>7. page \subseteq Entries
  <2>1. listed[row.url] \in 1..MaxEntries
    BY <1>1, <1>5
  <2>2. 1..listed[row.url] \subseteq 1..MaxEntries
    BY <2>1, FeedAssumption
  <2> QED  BY <1>5, <1>6, <2>2 DEF Listed, Entries
<1>8. PICK tagged : tagged = [row EXCEPT !.tag = page]
  OBVIOUS
<1>9. tagged \in Monitors /\ tagged.tag = page
  BY <1>5, <1>7, <1>8 DEF Monitors
<1>10. PICK soon : soon = Offers(row.url, poller[m].at)
  OBVIOUS
<1>11. kind = "ical" => soon \subseteq page
  BY <1>6, <1>10 DEF Offers
<1>12. \/ Turn(m, row, {}, {}) /\ excused' = excused
       \/ row.tag = page /\ Turn(m, row, {}, page) /\ excused' = excused
       \/ Turn(m, row, {}, page) /\ excused' = excused \cup page
       \/ Turn(m, tagged, {}, page) /\ excused' = excused \cup page
       \/ Turn(m, tagged, page, page) /\ excused' = excused
       \/ kind = "ical" /\ Turn(m, row, soon, soon) /\ excused' = excused
  BY <1>4, <1>6, <1>8, <1>10 DEF Fetch
<1>13. \A e \in row.tag : Settled(e) /\ e \in Entries
  BY <1>1, <1>3, <1>5, TagEntries DEF LeftSettled
<1>14. PICK r \in {row, tagged}, todo \in SUBSET Entries, all \in SUBSET Entries :
          /\ Turn(m, r, todo, all) /\ excused \subseteq excused'
          /\ \A e \in all \cup r.tag : Settled(e) \/ e \in excused' \/ e \in todo
  <2>1. CASE Turn(m, row, {}, {}) /\ excused' = excused
    BY <1>13, <2>1
  <2>2. CASE row.tag = page /\ Turn(m, row, {}, page) /\ excused' = excused
    BY <1>7, <1>13, <2>2
  <2>3. CASE Turn(m, row, {}, page) /\ excused' = excused \cup page
    BY <1>7, <1>13, <2>3
  <2>4. CASE Turn(m, tagged, {}, page) /\ excused' = excused \cup page
    BY <1>7, <1>9, <2>4
  <2>5. CASE Turn(m, tagged, page, page) /\ excused' = excused
    BY <1>7, <1>9, <2>5
  <2>6. CASE kind = "ical" /\ Turn(m, row, soon, soon) /\ excused' = excused
    <3>1. soon \in SUBSET Entries
      BY <1>7, <1>11, <2>6
    <3> QED  BY <1>13, <2>6, <3>1
  <2> QED  BY <1>12, <2>1, <2>2, <2>3, <2>4, <2>5, <2>6
<1>15. PICK new : new = [pc |-> "entries", row |-> r, at |-> poller[m].at, todo |-> todo, all |-> all]
  OBVIOUS
<1>16. r \in Monitors
  BY <1>5, <1>9, <1>14
<1>17. /\ new \in Reading /\ new.pc = "entries" /\ new.row = r /\ new.todo = todo /\ new.all = all
       /\ poller' = [poller EXCEPT ![m] = new]
  BY <1>3, <1>14, <1>15, <1>16 DEF Reading, Turn
<1>18. new \in Polls
  BY <1>17 DEF Polls
<1>19. /\ \A e \in Entries : PublishersOf(e)' = PublishersOf(e)
       /\ \A e \in Entries : Settled(e) => Settled(e)'
       /\ \A q \in Managers : poller'[q].pc = "publish" => poller'[q].todo # {}
  BY <1>1, <1>14, <1>17, <1>18, NothingPublished
<1>20. FeedTyped'
  BY <1>1, <1>17, <1>18, <1>19, PollMoves DEF FeedTyped
<1>21. OnceCounted'
  BY <1>1, <1>19, CountsKept
<1>22. LeftSettled'
  <2>1. \A e \in new.all \cup new.row.tag : e \in Entries
    BY <1>16, <1>17, TagEntries
  <2>2. \A e : e \in excused' => Settled(e)'
    BY DEF Settled
  <2>3. \A e \in new.all \cup new.row.tag : Settled(e)' \/ e \in new.todo
    BY <1>14, <1>17, <1>19, <2>1, <2>2
  <2>4. new.pc = "entries"
    BY <1>17
  <2> HIDE DEF Settled
  <2> QED  BY <1>1, <1>17, <1>18, <1>19, <2>3, <2>4, PollKeepsSettled
<1> QED  BY <1>1, <1>20, <1>21, <1>22 DEF FeedSound

\* An entry the poll is done with without a publication: filtered out, given
\* up, or recorded before.
LEMMA FeedPassed ==
    ASSUME FeedSound, NEW m \in Managers, poller[m].pc = "entries", poller[m].todo # {},
           poller' = [poller EXCEPT ![m].todo = @ \ {Oldest(@)}],
           excused \subseteq excused',
           Oldest(poller[m].todo) \in excused' \/ seenAt[Oldest(poller[m].todo)] # Never,
           UNCHANGED <<minute, listed, monitor, admin, seenAt, posted, forgotten, offered>>
    PROVE  FeedSound'
<1>1. FeedTyped /\ LeftSettled /\ offered \subseteq Entries /\ poller \in [Managers -> Polls] /\ poller[m] \in Reading
  BY PollShape DEF FeedSound, FeedTyped
<1>2. PICK e \in Entries : e = Oldest(poller[m].todo)
  <2>1. poller[m].todo \in SUBSET Entries
    BY <1>1 DEF Reading
  <2> QED  BY <2>1, OldestEntry
<1>3. PICK new : new = [poller[m] EXCEPT !.todo = @ \ {e}]
  OBVIOUS
<1>4. new \in Reading /\ new.pc = "entries" /\ new.row = poller[m].row /\ new.all = poller[m].all /\ new.todo = poller[m].todo \ {e}
  BY <1>1, <1>3 DEF Reading
<1>5. new \in Polls /\ poller' = [poller EXCEPT ![m] = new]
  BY <1>1, <1>2, <1>3, <1>4 DEF Polls
<1>6. /\ \A o \in Entries : PublishersOf(o)' = PublishersOf(o)
      /\ \A o \in Entries : Settled(o) => Settled(o)'
      /\ \A q \in Managers : poller'[q].pc = "publish" => poller'[q].todo # {}
  BY <1>4, <1>5, NothingPublished
<1>7. FeedTyped'
  BY <1>1, <1>5, <1>6, PollMoves DEF FeedTyped
<1>8. OnceCounted'
  BY <1>6, CountsKept
<1>9. Settled(e)'
  <2>1. CASE e \in excused'
    BY <2>1 DEF Settled
  <2>2. CASE seenAt[e] # Never
    BY <1>1, <1>6, <2>2 DEF LeftSettled
  <2> QED  BY <1>2, <2>1, <2>2
<1>10. LeftSettled'
  <2>1. poller[m].row \in Monitors /\ poller[m].all \subseteq Entries
    BY <1>1 DEF Reading
  <2>2. ASSUME NEW o \in new.all \cup new.row.tag PROVE Settled(o)' \/ o \in new.todo
    <3>1. o \in Entries /\ o \in poller[m].all \cup poller[m].row.tag
      BY <1>4, <2>1, TagEntries
    <3>2. Settled(o) \/ o \in poller[m].todo
      BY <1>1, <3>1 DEF LeftSettled
    <3>3. CASE o = e
      BY <1>9, <3>3
    <3>4. CASE o # e
      BY <1>4, <1>6, <3>1, <3>2, <3>4
    <3> QED  BY <3>3, <3>4
  <2> QED  BY <1>4, <1>5, <1>6, <2>2, PollKeepsSettled
<1> QED  BY <1>1, <1>7, <1>8, <1>10 DEF FeedSound

LEMMA FeedMarked ==
    ASSUME FeedSound, NEW m \in Managers, poller[m].pc = "entries", poller[m].todo # {},
           NEW e, e = Oldest(poller[m].todo), seenAt[e] = Never,
           seenAt' = [seenAt EXCEPT ![e] = poller[m].at],
           poller' = [poller EXCEPT ![m].pc = "publish"],
           UNCHANGED <<minute, listed, monitor, admin, posted, forgotten, offered, excused>>
    PROVE  FeedSound'
<1>1. /\ FeedTyped /\ LeftSettled /\ OnceCounted /\ offered \subseteq Entries
      /\ poller \in [Managers -> Polls] /\ poller[m] \in Reading /\ seenAt \in [Entries -> Int]
  BY PollShape DEF FeedSound, FeedTyped
<1>2. poller[m].todo \in SUBSET Entries /\ poller[m].at \in Nat /\ poller[m].row \in Monitors /\ poller[m].all \subseteq Entries
  BY <1>1 DEF Reading
<1>3. e \in Entries
  BY <1>2, OldestEntry
<1>4. PICK new : new = [poller[m] EXCEPT !.pc = "publish"]
  OBVIOUS
<1>5. new \in Reading /\ new.pc = "publish" /\ new.row = poller[m].row /\ new.all = poller[m].all /\ new.todo = poller[m].todo
  BY <1>1, <1>4 DEF Reading
<1>6. new \in Polls /\ poller' = [poller EXCEPT ![m] = new]
  BY <1>1, <1>4, <1>5 DEF Polls
<1>7. poller'[m] = new /\ \A q \in Managers : q # m => poller'[q] = poller[q]
  BY <1>1, <1>6, PollMoves
<1>8. seenAt' \in [Entries -> Int] /\ seenAt'[e] # Never /\ \A o \in Entries : o # e => seenAt'[o] = seenAt[o]
  BY <1>1, <1>2, <1>3 DEF Never
<1>9. FeedTyped'
  <2>1. \A q \in Managers : poller'[q].pc = "publish" => poller'[q].todo # {}
    BY <1>1, <1>5, <1>7 DEF FeedTyped
  <2> QED  BY <1>1, <1>6, <1>8, <2>1, PollMoves DEF FeedTyped
<1>10. Oldest(new.todo) = e
  BY <1>5
<1>11. PublishersOf(e)' = PublishersOf(e) \cup {m} /\ m \notin PublishersOf(e)
  <2>1. \A q \in Managers : (poller'[q].pc = "publish" /\ Oldest(poller'[q].todo) = e)
                            <=> (q = m \/ (poller[q].pc = "publish" /\ Oldest(poller[q].todo) = e))
    BY <1>5, <1>7, <1>10
  <2> QED  BY <2>1 DEF PublishersOf, Oldest
<1>12. \A o \in Entries : o # e => PublishersOf(o)' = PublishersOf(o)
  <2> SUFFICES ASSUME NEW o \in Entries, o # e PROVE PublishersOf(o)' = PublishersOf(o)
    OBVIOUS
  <2>1. \A q \in Managers : (poller'[q].pc = "publish" /\ Oldest(poller'[q].todo) = o)
                            <=> (poller[q].pc = "publish" /\ Oldest(poller[q].todo) = o)
    BY <1>5, <1>7, <1>10
  <2> QED  BY <2>1 DEF PublishersOf, Oldest
<1>13. OnceCounted'
  <2> SUFFICES ASSUME NEW o \in Entries
               PROVE  /\ IsFiniteSet(PublishersOf(o)')
                      /\ posted[o] + Cardinality(PublishersOf(o)') <= forgotten[o] + Records(o)'
    BY DEF OnceCounted
  <2>1. /\ IsFiniteSet(PublishersOf(o)) /\ posted[o] + Cardinality(PublishersOf(o)) <= forgotten[o] + Records(o)
        /\ posted[o] \in Nat /\ forgotten[o] \in Nat /\ Cardinality(PublishersOf(o)) \in Nat
    BY <1>1, FS_CardinalityType DEF OnceCounted, FeedTyped
  <2>2. CASE o = e
    <3>1. Records(e) = 0 /\ Records(e)' = 1
      BY <1>8 DEF Records
    <3>2. IsFiniteSet(PublishersOf(e) \cup {m}) /\ Cardinality(PublishersOf(e) \cup {m}) = Cardinality(PublishersOf(e)) + 1
      BY <1>11, <2>1, <2>2, FS_AddElement
    <3> QED  BY <1>11, <2>1, <2>2, <3>1, <3>2
  <2>3. CASE o # e
    <3>1. Records(o)' = Records(o)
      BY <1>8, <2>3 DEF Records
    <3> QED  BY <1>12, <2>1, <2>3, <3>1
  <2> QED  BY <2>2, <2>3
<1>14. \A o \in Entries : Settled(o) => Settled(o)'
  <2>1. \A o \in Entries : Publishing(o) => Publishing(o)'
    BY <1>7 DEF Publishing, Oldest
  <2> QED  BY <2>1 DEF Settled
<1>15. Settled(e)'
  BY <1>5, <1>7, <1>10 DEF Settled, Publishing, Oldest
<1>16. LeftSettled'
  <2>1. ASSUME NEW o \in new.all \cup new.row.tag PROVE Settled(o)' \/ o \in new.todo
    <3>1. o \in Entries /\ o \in poller[m].all \cup poller[m].row.tag
      BY <1>2, <1>5, TagEntries
    <3> QED  BY <1>1, <1>5, <1>14, <3>1 DEF LeftSettled
  <2>2. \A o \in Entries : seenAt'[o] # Never => seenAt[o] # Never \/ Settled(o)'
    BY <1>8, <1>15
  <2> QED  BY <1>5, <1>6, <1>14, <2>1, <2>2, PollKeepsSettled
<1> QED  BY <1>1, <1>9, <1>13, <1>16 DEF FeedSound

LEMMA FeedMarks ==
    ASSUME FeedSound, NEW m \in Managers, MarkEntry(m)
    PROVE  FeedSound'
<1>1. PICK e : e = Oldest(poller[m].todo)
  OBVIOUS
<1>2. /\ poller[m].pc = "entries" /\ poller[m].todo # {} /\ e = Oldest(poller[m].todo)
      /\ UNCHANGED <<minute, listed, monitor, admin, posted, forgotten, offered>>
  BY <1>1 DEF MarkEntry
<1>3. CASE excused' = excused \cup {e} /\ poller' = [poller EXCEPT ![m].todo = @ \ {e}] /\ UNCHANGED seenAt
  BY <1>2, <1>3, FeedPassed
<1>4. CASE ~NewItem(e) /\ Skip(m) /\ UNCHANGED <<seenAt, excused>>
  BY <1>2, <1>4, FeedPassed DEF NewItem, Skip
<1>5. CASE /\ NewItem(e) /\ seenAt' = [seenAt EXCEPT ![e] = poller[m].at]
           /\ poller' = [poller EXCEPT ![m].pc = "publish"] /\ UNCHANGED excused
  BY <1>2, <1>5, FeedMarked DEF NewItem
<1> QED  BY <1>1, <1>3, <1>4, <1>5 DEF MarkEntry

\* A manager that was about to publish is not any more.
LEMMA PublisherLeaves ==
    ASSUME FeedSound, NEW m \in Managers, poller[m].pc = "publish", NEW new \in Polls, new.pc # "publish",
           poller' = [poller EXCEPT ![m] = new], NEW e, e = Oldest(poller[m].todo)
    PROVE  /\ e \in Entries /\ e \in poller[m].todo /\ m \in PublishersOf(e)
           /\ PublishersOf(e)' = PublishersOf(e) \ {m}
           /\ \A o \in Entries : o # e => /\ PublishersOf(o)' = PublishersOf(o)
                                          /\ Publishing(o) => Publishing(o)'
           /\ \A q \in Managers : poller'[q].pc = "publish" => poller'[q].todo # {}
<1>1. FeedTyped /\ poller[m] \in Reading /\ poller[m].todo # {}
  BY PollShape DEF FeedSound, FeedTyped
<1>2. poller'[m] = new /\ \A q \in Managers : q # m => poller'[q] = poller[q]
  BY <1>1, PollMoves
<1>3. e \in Entries /\ e \in poller[m].todo
  <2>1. poller[m].todo \in SUBSET Entries
    BY <1>1 DEF Reading
  <2> QED  BY <1>1, <2>1, OldestEntry
<1>4. PublishersOf(e)' = PublishersOf(e) \ {m} /\ m \in PublishersOf(e)
  <2>1. \A q \in Managers : (poller'[q].pc = "publish" /\ Oldest(poller'[q].todo) = e)
                            <=> (q # m /\ poller[q].pc = "publish" /\ Oldest(poller[q].todo) = e)
    BY <1>2
  <2> QED  BY <2>1 DEF PublishersOf, Oldest
<1>5. ASSUME NEW o \in Entries, o # e
      PROVE  PublishersOf(o)' = PublishersOf(o) /\ (Publishing(o) => Publishing(o)')
  <2>1. \A q \in Managers : (poller'[q].pc = "publish" /\ Oldest(poller'[q].todo) = o)
                            <=> (poller[q].pc = "publish" /\ Oldest(poller[q].todo) = o)
    BY <1>2, <1>5
  <2> QED  BY <2>1 DEF PublishersOf, Publishing, Oldest
<1>6. \A q \in Managers : poller'[q].pc = "publish" => poller'[q].todo # {}
  BY <1>1, <1>2 DEF FeedTyped
<1> QED  BY <1>3, <1>4, <1>5, <1>6

\* It published, or the entry is excused.
LEMMA CountsPublished ==
    ASSUME FeedSound, NEW m \in Managers, NEW e \in Entries, m \in PublishersOf(e),
           PublishersOf(e)' = PublishersOf(e) \ {m},
           \A o \in Entries : o # e => PublishersOf(o)' = PublishersOf(o),
           posted' = posted \/ posted' = [posted EXCEPT ![e] = @ + 1],
           UNCHANGED <<seenAt, forgotten>>
    PROVE  OnceCounted' /\ posted' \in [Entries -> Nat] /\ \A o \in Entries : posted[o] > 0 => posted'[o] > 0
<1>1. /\ posted \in [Entries -> Nat] /\ forgotten \in [Entries -> Nat] /\ OnceCounted
  BY DEF FeedSound, FeedTyped
<1>2. posted' \in [Entries -> Nat] /\ posted'[e] <= posted[e] + 1 /\ posted'[e] >= posted[e] /\ \A o \in Entries : o # e => posted'[o] = posted[o]
  BY <1>1
<1>3. OnceCounted'
  <2> SUFFICES ASSUME NEW o \in Entries
               PROVE  /\ IsFiniteSet(PublishersOf(o)')
                      /\ posted'[o] + Cardinality(PublishersOf(o)') <= forgotten[o] + Records(o)
    BY DEF OnceCounted, Records
  <2>1. /\ IsFiniteSet(PublishersOf(o)) /\ posted[o] + Cardinality(PublishersOf(o)) <= forgotten[o] + Records(o)
        /\ posted[o] \in Nat /\ forgotten[o] \in Nat /\ Cardinality(PublishersOf(o)) \in Nat /\ Records(o) \in Nat
    BY <1>1, FS_CardinalityType DEF OnceCounted, Records
  <2>2. CASE o = e
    <3>1. IsFiniteSet(PublishersOf(e) \ {m}) /\ Cardinality(PublishersOf(e) \ {m}) = Cardinality(PublishersOf(e)) - 1
      BY <2>1, <2>2, FS_RemoveElement
    <3>2. posted'[e] \in Nat
      BY <1>2
    <3> QED  BY <1>2, <2>1, <2>2, <3>1, <3>2
  <2>3. CASE o # e
    BY <1>2, <2>1, <2>3
  <2> QED  BY <2>2, <2>3
<1>4. \A o \in Entries : posted[o] > 0 => posted'[o] > 0
  BY <1>1, <1>2
<1> QED  BY <1>2, <1>3, <1>4

LEMMA FeedPublished ==
    ASSUME FeedSound, NEW m \in Managers, PublishEntry(m)
    PROVE  FeedSound'
<1>1. /\ FeedTyped /\ LeftSettled /\ offered \subseteq Entries /\ poller \in [Managers -> Polls]
      /\ poller[m].pc = "publish" /\ posted \in [Entries -> Nat]
      /\ UNCHANGED <<minute, listed, monitor, admin, seenAt, forgotten, offered>>
  BY DEF FeedSound, FeedTyped, PublishEntry
<1>2. poller[m] \in Reading
  BY <1>1, PollShape
<1>3. PICK e : e = Oldest(poller[m].todo)
  OBVIOUS
<1>4. PICK new : new = [poller[m] EXCEPT !.pc = "entries", !.todo = @ \ {e}]
  OBVIOUS
<1>5. new \in Reading /\ new.pc = "entries" /\ new.row = poller[m].row /\ new.all = poller[m].all /\ new.todo = poller[m].todo \ {e}
  BY <1>2, <1>4 DEF Reading
<1>6. new \in Polls /\ poller' = [poller EXCEPT ![m] = new]
  <2>1. poller' = [poller EXCEPT ![m].pc = "entries", ![m].todo = @ \ {e}]
    BY <1>3 DEF PublishEntry
  <2> QED  BY <1>1, <1>2, <1>4, <1>5, <2>1 DEF Polls
<1>7. /\ e \in Entries /\ e \in poller[m].todo /\ m \in PublishersOf(e)
      /\ PublishersOf(e)' = PublishersOf(e) \ {m}
      /\ \A o \in Entries : o # e => /\ PublishersOf(o)' = PublishersOf(o)
                                     /\ Publishing(o) => Publishing(o)'
      /\ \A q \in Managers : poller'[q].pc = "publish" => poller'[q].todo # {}
  BY <1>1, <1>3, <1>5, <1>6, PublisherLeaves
<1>8. \/ posted' = [posted EXCEPT ![e] = @ + 1] /\ excused' = excused
      \/ excused' = excused \cup {e} /\ posted' = posted
  BY <1>3 DEF PublishEntry
<1>9. OnceCounted' /\ posted' \in [Entries -> Nat] /\ \A o \in Entries : posted[o] > 0 => posted'[o] > 0
  BY <1>1, <1>7, <1>8, CountsPublished
<1>10. FeedTyped'
  BY <1>1, <1>6, <1>7, <1>9, PollMoves DEF FeedTyped
<1>11. Settled(e)'
  <2>1. CASE posted' = [posted EXCEPT ![e] = @ + 1]
    <3>1. posted'[e] > 0
      BY <1>1, <1>7, <2>1
    <3> QED  BY <3>1 DEF Settled
  <2>2. CASE excused' = excused \cup {e}
    BY <2>2 DEF Settled
  <2> QED  BY <1>8, <2>1, <2>2
<1>12. \A o \in Entries : Settled(o) => Settled(o)'
  <2>1. excused \subseteq excused'
    BY <1>8
  <2> QED  BY <1>7, <1>9, <1>11, <2>1 DEF Settled
<1>13. LeftSettled'
  <2>1. poller[m].row \in Monitors /\ poller[m].all \subseteq Entries
    BY <1>2 DEF Reading
  <2>2. ASSUME NEW o \in new.all \cup new.row.tag PROVE Settled(o)' \/ o \in new.todo
    <3>1. o \in Entries /\ o \in poller[m].all \cup poller[m].row.tag
      BY <1>5, <2>1, TagEntries
    <3>2. Settled(o) \/ o \in poller[m].todo
      BY <1>1, <3>1 DEF LeftSettled
    <3>3. CASE o = e
      BY <1>11, <3>3
    <3>4. CASE o # e
      BY <1>5, <1>12, <3>1, <3>2, <3>4
    <3> QED  BY <3>3, <3>4
  <2> QED  BY <1>1, <1>5, <1>6, <1>12, <2>2, PollKeepsSettled
<1> QED  BY <1>1, <1>9, <1>10, <1>13 DEF FeedSound

LEMMA FeedSaved ==
    ASSUME FeedSound, NEW m \in Managers, SaveStatus(m)
    PROVE  FeedSound'
<1>1. /\ FeedTyped /\ LeftSettled /\ offered \subseteq Entries /\ poller \in [Managers -> Polls]
      /\ poller[m].pc = "entries" /\ poller[m].todo = {} /\ monitor \in Monitors
      /\ UNCHANGED <<minute, listed, admin, seenAt, posted, forgotten, excused>>
      /\ monitor' \in {monitor, poller[m].row} /\ offered' = offered \cup poller[m].all
  BY DEF FeedSound, FeedTyped, SaveStatus
<1>2. poller[m] \in Reading
  BY <1>1, PollShape
<1>3. poller[m].row \in Monitors /\ poller[m].all \subseteq Entries /\ poller[m].at \in Nat
  BY <1>2 DEF Reading
<1>4. PICK new : new = [pc |-> "release", at |-> poller[m].at]
  OBVIOUS
<1>5. new \in Leaving /\ new.pc = "release"
  BY <1>3, <1>4 DEF Leaving
<1>6. new \in Polls /\ poller' = [poller EXCEPT ![m] = new]
  BY <1>4, <1>5 DEF Polls, SaveStatus
<1>7. /\ \A e \in Entries : PublishersOf(e)' = PublishersOf(e)
      /\ \A e \in Entries : Settled(e) => Settled(e)'
      /\ \A q \in Managers : poller'[q].pc = "publish" => poller'[q].todo # {}
  BY <1>1, <1>5, <1>6, NothingPublished
<1>8. FeedTyped'
  BY <1>1, <1>3, <1>6, <1>7, PollMoves DEF FeedTyped
<1>9. OnceCounted'
  BY <1>1, <1>7, CountsKept
<1>10. \A e \in poller[m].all \cup poller[m].row.tag : Settled(e) /\ e \in Entries
  BY <1>1, <1>3, TagEntries DEF LeftSettled
<1>11. \A e \in offered' \cup monitor'.tag : Settled(e)'
  <2>1. \A e \in offered \cup monitor.tag : Settled(e) /\ e \in Entries
    BY <1>1, TagEntries DEF LeftSettled
  <2> QED  BY <1>1, <1>7, <1>10, <2>1
<1>12. admin' # NoAdmin => \A e \in admin'.row.tag : Settled(e)'
  BY <1>1, <1>7, TagEntries DEF LeftSettled, FeedTyped
<1>13. LeftSettled'
  BY <1>1, <1>5, <1>6, <1>7, <1>11, <1>12, PollersSettled DEF LeftSettled
<1> QED  BY <1>1, <1>3, <1>8, <1>9, <1>13 DEF FeedSound

\* Records that are removed are counted.
LEMMA Forgets ==
    ASSUME FeedSound, NEW gone \in SUBSET {e \in Entries : seenAt[e] # Never}, Forget(gone), UNCHANGED posted,
           \A e \in Entries : PublishersOf(e)' = PublishersOf(e)
    PROVE  /\ OnceCounted' /\ seenAt' \in [Entries -> Int] /\ forgotten' \in [Entries -> Nat]
           /\ \A e \in Entries : seenAt'[e] # Never => seenAt[e] # Never
<1>1. /\ posted \in [Entries -> Nat] /\ forgotten \in [Entries -> Nat] /\ OnceCounted /\ seenAt \in [Entries -> Int]
  BY DEF FeedSound, FeedTyped
<1>2. \A e \in Entries : /\ e \in gone => seenAt'[e] = Never /\ forgotten'[e] = forgotten[e] + 1
                         /\ e \notin gone => seenAt'[e] = seenAt[e] /\ forgotten'[e] = forgotten[e]
  BY <1>1 DEF Forget
<1>3. seenAt' \in [Entries -> Int] /\ forgotten' \in [Entries -> Nat]
  BY <1>1 DEF Forget, Never
<1>4. OnceCounted'
  <2> SUFFICES ASSUME NEW e \in Entries
               PROVE  /\ IsFiniteSet(PublishersOf(e))
                      /\ posted[e] + Cardinality(PublishersOf(e)) <= forgotten'[e] + Records(e)'
    BY DEF OnceCounted
  <2>1. /\ IsFiniteSet(PublishersOf(e)) /\ posted[e] + Cardinality(PublishersOf(e)) <= forgotten[e] + Records(e)
        /\ posted[e] \in Nat /\ forgotten[e] \in Nat /\ Cardinality(PublishersOf(e)) \in Nat
    BY <1>1, FS_CardinalityType DEF OnceCounted
  <2>2. CASE e \in gone
    <3>1. Records(e) = 1 /\ Records(e)' = 0 /\ forgotten'[e] = forgotten[e] + 1
      BY <1>2, <2>2 DEF Records
    <3> QED  BY <2>1, <3>1
  <2>3. CASE e \notin gone
    <3>1. Records(e)' = Records(e) /\ forgotten'[e] = forgotten[e]
      BY <1>2, <2>3 DEF Records
    <3> QED  BY <2>1, <3>1
  <2> QED  BY <2>2, <2>3
<1> QED  BY <1>2, <1>3, <1>4

LEMMA FeedCleaned ==
    ASSUME FeedSound, NEW m \in Managers, ReleasePollLease(m) \/ Cleanup(m)
    PROVE  FeedSound'
<1>1. /\ FeedTyped /\ LeftSettled /\ offered \subseteq Entries /\ poller \in [Managers -> Polls]
      /\ poller[m].pc \in {"release", "cleanup"}
      /\ UNCHANGED <<minute, listed, monitor, admin, posted, offered, excused>>
  BY DEF FeedSound, FeedTyped, ReleasePollLease, Cleanup
<1>2. PICK new \in Polls : new.pc \in {"idle", "cleanup"} /\ poller' = [poller EXCEPT ![m] = new]
  <2>1. CASE Cleanup(m)
    <3>1. NoPoll \in Polls /\ NoPoll.pc = "idle"
      BY DEF NoPoll, Polls
    <3> QED  BY <2>1, <3>1 DEF Cleanup
  <2>2. CASE ReleasePollLease(m)
    <3>1. poller[m] \in Leaving
      BY <1>1, <2>2, PollShape DEF ReleasePollLease
    <3>2. PICK next : next = [poller[m] EXCEPT !.pc = "cleanup"]
      OBVIOUS
    <3>3. next \in Leaving /\ next.pc = "cleanup"
      BY <3>1, <3>2 DEF Leaving
    <3>4. poller' = [poller EXCEPT ![m] = next]
      BY <1>1, <2>2, <3>2 DEF ReleasePollLease
    <3> QED  BY <3>3, <3>4 DEF Polls
  <2> QED  BY <2>1, <2>2
<1>3. /\ \A e \in Entries : PublishersOf(e)' = PublishersOf(e)
      /\ \A e \in Entries : Settled(e) => Settled(e)'
      /\ \A q \in Managers : poller'[q].pc = "publish" => poller'[q].todo # {}
  BY <1>1, <1>2, NothingPublished
<1>4. /\ OnceCounted' /\ seenAt' \in [Entries -> Int] /\ forgotten' \in [Entries -> Nat]
      /\ \A e \in Entries : seenAt'[e] # Never => seenAt[e] # Never
  <2>1. CASE ReleasePollLease(m)
    <3>1. UNCHANGED <<seenAt, forgotten>>
      BY <2>1 DEF ReleasePollLease
    <3> QED  BY <1>1, <1>3, <3>1, CountsKept DEF FeedTyped
  <2>2. CASE Cleanup(m)
    <3>1. PICK gone \in SUBSET {e \in Entries : seenAt[e] # Never} : Forget(gone)
      BY <2>2 DEF Cleanup
    <3> QED  BY <1>1, <1>3, <3>1, Forgets
  <2> QED  BY <2>1, <2>2
<1>5. FeedTyped'
  BY <1>1, <1>2, <1>3, <1>4, PollMoves DEF FeedTyped
<1>6. LeftSettled'
  BY <1>1, <1>2, <1>3, <1>4, PollKeepsSettled
<1> QED  BY <1>1, <1>4, <1>5, <1>6 DEF FeedSound

LEMMA FeedDies ==
    ASSUME FeedSound, NEW m \in Managers, Die(m)
    PROVE  FeedSound'
<1>1. /\ FeedTyped /\ LeftSettled /\ offered \subseteq Entries
      /\ poller' = [poller EXCEPT ![m] = NoPoll]
      /\ UNCHANGED <<minute, listed, monitor, admin, posted, offered, seenAt, forgotten>>
  BY DEF FeedSound, FeedTyped, Die
<1>2. NoPoll \in Polls /\ NoPoll.pc = "idle"
  BY DEF NoPoll, Polls
<1>3. /\ OnceCounted'
      /\ \A e \in Entries : Settled(e) => Settled(e)'
      /\ \A q \in Managers : poller'[q].pc = "publish" => poller'[q].todo # {}
  <2>1. CASE poller[m].pc = "publish"
    <3>1. PICK e : e = Oldest(poller[m].todo)
      OBVIOUS
    <3>2. excused' = excused \cup {e}
      BY <2>1, <3>1 DEF Die
    <3>3. /\ e \in Entries /\ m \in PublishersOf(e)
          /\ PublishersOf(e)' = PublishersOf(e) \ {m}
          /\ \A o \in Entries : o # e => /\ PublishersOf(o)' = PublishersOf(o)
                                         /\ Publishing(o) => Publishing(o)'
          /\ \A q \in Managers : poller'[q].pc = "publish" => poller'[q].todo # {}
      BY <1>1, <1>2, <2>1, <3>1, PublisherLeaves
    <3>4. OnceCounted'
      BY <1>1, <3>3, CountsPublished
    <3>5. \A o \in Entries : Settled(o) => Settled(o)'
      BY <1>1, <3>2, <3>3 DEF Settled
    <3> QED  BY <3>3, <3>4, <3>5
  <2>2. CASE poller[m].pc # "publish"
    <3>1. excused' = excused
      BY <2>2 DEF Die
    <3>2. /\ \A e \in Entries : PublishersOf(e)' = PublishersOf(e)
          /\ \A e \in Entries : Settled(e) => Settled(e)'
          /\ \A q \in Managers : poller'[q].pc = "publish" => poller'[q].todo # {}
      BY <1>1, <1>2, <2>2, <3>1, NothingPublished
    <3> QED  BY <1>1, <3>2, CountsKept
  <2> QED  BY <2>1, <2>2
<1>4. FeedTyped'
  BY <1>1, <1>2, <1>3, PollMoves DEF FeedTyped
<1>5. LeftSettled'
  BY <1>1, <1>2, <1>3, PollKeepsSettled
<1> QED  BY <1>1, <1>3, <1>4, <1>5 DEF FeedSound

\* The endpoints and the world outside leave the pollers alone.
LEMMA FeedAround ==
    ASSUME FeedSound, UNCHANGED <<poller, posted, offered, excused>>,
           minute' \in Nat, listed' \in [Urls -> 1..MaxEntries], monitor' \in Monitors,
           admin' = NoAdmin \/ (admin'.reading = TRUE /\ admin'.row \in Monitors),
           \A e \in monitor'.tag : Settled(e),
           admin' # NoAdmin => \A e \in admin'.row.tag : Settled(e),
           NEW gone \in SUBSET {e \in Entries : seenAt[e] # Never},
           Forget(gone) \/ UNCHANGED <<seenAt, forgotten>>
    PROVE  FeedSound'
<1>1. FeedTyped /\ LeftSettled /\ offered \subseteq Entries
  BY DEF FeedSound
<1>2. \A e : PublishersOf(e)' = PublishersOf(e) /\ (Settled(e)' <=> Settled(e))
  BY DEF PublishersOf, Settled, Publishing, Oldest
<1>3. /\ OnceCounted' /\ seenAt' \in [Entries -> Int] /\ forgotten' \in [Entries -> Nat]
      /\ \A e \in Entries : seenAt'[e] # Never => seenAt[e] # Never
  <2>1. CASE Forget(gone)
    BY <1>2, <2>1, Forgets
  <2>2. CASE UNCHANGED <<seenAt, forgotten>>
    BY <1>1, <1>2, <2>2, CountsKept DEF FeedTyped
  <2> QED  BY <2>1, <2>2
<1>4. FeedTyped'
  BY <1>1, <1>3 DEF FeedTyped
<1>5. LeftSettled'
  BY <1>1, <1>2, <1>3 DEF LeftSettled
<1> QED  BY <1>1, <1>3, <1>4, <1>5 DEF FeedSound

LEMMA FeedStep == FeedSound /\ [FeedNext]_feedVars => FeedSound'
<1> SUFFICES ASSUME FeedSound, [FeedNext]_feedVars PROVE FeedSound'
  OBVIOUS
<1>1. /\ FeedTyped /\ LeftSettled /\ minute \in Nat /\ listed \in [Urls -> 1..MaxEntries] /\ monitor \in Monitors
      /\ admin = NoAdmin \/ (admin.reading = TRUE /\ admin.row \in Monitors)
      /\ {} \in SUBSET {e \in Entries : seenAt[e] # Never}
  BY DEF FeedSound, FeedTyped
<1>2. /\ \A e \in monitor.tag : Settled(e)
      /\ admin # NoAdmin => \A e \in admin.row.tag : Settled(e)
  BY <1>1 DEF LeftSettled
<1>3. CASE UNCHANGED feedVars
  BY <1>1, <1>2, <1>3, FeedAround DEF feedVars
<1>4. CASE MinutePasses
  <2>1. minute' \in Nat /\ UNCHANGED <<poller, posted, offered, excused, listed, monitor, admin, seenAt, forgotten>>
    BY <1>1, <1>4 DEF MinutePasses
  <2> QED  BY <1>1, <1>2, <2>1, FeedAround
<1>5. ASSUME NEW u \in Urls, FeedGrows(u) PROVE FeedSound'
  <2>1. listed[u] \in 1..MaxEntries /\ listed[u] < MaxEntries /\ listed' = [listed EXCEPT ![u] = @ + 1]
    BY <1>1, <1>5 DEF FeedGrows
  <2>2. listed[u] + 1 \in 1..MaxEntries
    BY <2>1, FeedAssumption
  <2>3. listed' \in [Urls -> 1..MaxEntries]
    BY <1>1, <2>1, <2>2
  <2> QED  BY <1>1, <1>2, <1>5, <2>3, FeedAround DEF FeedGrows
<1>6. CASE ReadMonitor
  <2>1. PICK new : new = [reading |-> TRUE, row |-> monitor]
    OBVIOUS
  <2>2. new.reading = TRUE /\ new.row = monitor
    BY <2>1
  <2>3. admin' = new /\ UNCHANGED <<poller, posted, offered, excused, minute, listed, monitor, seenAt, forgotten>>
    BY <1>6, <2>1 DEF ReadMonitor
  <2> QED  BY <1>1, <1>2, <2>2, <2>3, FeedAround
<1>7. ASSUME NEW u \in Urls, NEW wanted \in {{}, Entries}, NEW enabled \in BOOLEAN,
             UpdateRSS(u, wanted, enabled) \/ UpdateCalendar(u, wanted, enabled)
      PROVE  FeedSound'
  <2>1. PICK row : row = [admin.row EXCEPT !.url = u, !.wanted = wanted, !.enabled = enabled]
    OBVIOUS
  <2>2. admin.reading /\ monitor' = row /\ admin' = NoAdmin
        /\ UNCHANGED <<poller, posted, offered, excused, minute, listed, seenAt, forgotten>>
    BY <1>7, <2>1 DEF UpdateRSS, UpdateCalendar, SaveMonitor
  <2>3. admin # NoAdmin /\ admin.row \in Monitors
    BY <1>1, <2>2 DEF NoAdmin
  <2>4. row \in Monitors /\ row.tag = admin.row.tag
    BY <2>1, <2>3 DEF Monitors
  <2> QED  BY <1>1, <1>2, <2>2, <2>3, <2>4, FeedAround
<1>8. CASE DeleteMonitor
  <2>1. PICK row : row = [monitor EXCEPT !.exists = FALSE]
    OBVIOUS
  <2>2. row \in Monitors /\ row.tag = monitor.tag
    BY <1>1, <2>1 DEF Monitors
  <2>3. monitor' = row /\ Forget({e \in Entries : seenAt[e] # Never})
        /\ UNCHANGED <<poller, posted, offered, excused, minute, listed, admin>>
    BY <1>8, <2>1 DEF DeleteMonitor
  <2> QED  BY <1>1, <1>2, <2>2, <2>3, FeedAround
<1>9. ASSUME NEW m \in Managers,
             \/ LoadDueMonitors(m) \/ AcquirePollLease(m) \/ Fetch(m) \/ MarkEntry(m) \/ PublishEntry(m)
             \/ SaveStatus(m) \/ ReleasePollLease(m) \/ Cleanup(m) \/ Die(m)
      PROVE  FeedSound'
  BY <1>9, FeedLoaded, FeedFetched, FeedMarks, FeedPublished, FeedSaved, FeedCleaned, FeedDies
<1> QED  BY <1>3, <1>4, <1>5, <1>6, <1>7, <1>8, <1>9 DEF FeedNext

\* An entry of a feed is published once for each record it had, and one that a
\* stored tag or a finished poll covers was dealt with or is one of those the
\* code gives up, for any number of processes and feeds and whatever their polls
\* overlap (pollRSS, pollCalendar, UpdateRSS).
THEOREM EntriesDealtWith == FeedSpec => []EntriesSettled
  BY FeedInitial, FeedStep, FeedTakesOff, PTL DEF FeedSpec

-----------------------------------------------------------------------------
(* Webhooks.                                                                *)

Sent == [step : {"limit", "verify", "publish"}, key : SignedKeys, by : Processes]

Windows == [start : Nat \cup {-1}, count : Nat]

WebhookTyped ==
    /\ moment \in Nat
    /\ sender \in [Senders -> {Gone} \cup Sent]
    /\ entry \in [Processes -> Windows]
    /\ seen \in [Processes -> [SignedKeys -> Nat]]
    /\ accepted \in [Processes -> [SignedKeys -> SUBSET Nat]]
    /\ DOMAIN admitted = Processes
    /\ \A v \in Processes : IsFiniteSet(admitted[v])
    /\ \A v \in Processes : \A a \in admitted[v] : a.at \in Nat /\ a.start \in Nat /\ a.count \in 1..Limit

\* A process accepted a signed request near its timestamp, and since its cache
\* let it go each time.
RememberedApart(cache, moments) ==
    \A k \in SignedKeys :
        /\ \A u \in moments[k] : u - k[2] <= Tolerance /\ k[2] - u <= Tolerance /\ u + ReplayTTL <= cache[k]
        /\ \A u, w \in moments[k] : u < w => u + ReplayTTL <= w

\* Each request a limiter let through is counted in a window that does not
\* overlap another one.
WindowsApart(last, passed) ==
    /\ last.start <= moment
    /\ \A a \in passed : /\ a.start <= a.at /\ a.at < a.start + Window /\ a.at <= moment
                         /\ a.start = last.start => a.count <= last.count
                         /\ a.start # last.start => a.start + Window <= last.start
    /\ \A a, b \in passed : /\ a.start < b.start => a.start + Window <= b.start
                            /\ a.start = b.start /\ a.count = b.count => a = b

WebhookKept ==
    /\ WebhookTyped
    /\ \A v \in Processes : RememberedApart(seen[v], accepted[v])
    /\ \A v \in Processes : WindowsApart(entry[v], admitted[v])

LEMMA WebhookInitial == WebhookInit => WebhookKept
<1> SUFFICES ASSUME WebhookInit PROVE WebhookKept
  OBVIOUS
<1>1. /\ seen = [v \in Processes |-> [k \in SignedKeys |-> 0]]
      /\ accepted = [v \in Processes |-> [k \in SignedKeys |-> {}]]
      /\ entry = [v \in Processes |-> [start |-> -1, count |-> 0]]
      /\ admitted = [v \in Processes |-> {}] /\ moment = 0
  BY DEF WebhookInit
<1>2. IsFiniteSet({})
  BY FS_EmptySet
<1>3. sender \in [Senders -> {Gone} \cup Sent]
  BY DEF WebhookInit
<1>4. \A v \in Processes : entry[v] = [start |-> -1, count |-> 0] /\ admitted[v] = {}
  BY <1>1
<1>5. \A v \in Processes : \A k \in SignedKeys : accepted[v][k] = {}
  BY <1>1
<1>6. seen \in [Processes -> [SignedKeys -> Nat]] /\ accepted \in [Processes -> [SignedKeys -> SUBSET Nat]]
  BY <1>1
<1>7. entry \in [Processes -> Windows]
  BY <1>1 DEF Windows
<1>8. WebhookTyped
  BY <1>1, <1>2, <1>3, <1>4, <1>6, <1>7 DEF WebhookTyped
<1>9. \A v \in Processes : RememberedApart(seen[v], accepted[v])
  BY <1>5 DEF RememberedApart
<1>10. \A v \in Processes : WindowsApart(entry[v], admitted[v])
  BY <1>1, <1>4 DEF WindowsApart
<1> QED  BY <1>8, <1>9, <1>10 DEF WebhookKept

\* Two acceptances are at the two ends of the life of the timestamp.
LEMMA SignedAtEnds == WebhookKept => SignedOnce
<1> SUFFICES ASSUME WebhookKept, NEW v \in Processes, NEW k \in SignedKeys, Cardinality(accepted[v][k]) > 1
             PROVE  accepted[v][k] = {k[2] - Tolerance, k[2] + Tolerance}
  BY DEF SignedOnce
<1>1. k[2] \in Nat /\ Tolerance \in Nat /\ ReplayTTL = 2 * Tolerance
  BY WebhookAssumption DEF SignedKeys, ReplayTTL
<1>2. /\ accepted[v][k] \subseteq Nat
      /\ \A u \in accepted[v][k] : u - k[2] <= Tolerance /\ k[2] - u <= Tolerance
      /\ \A u, w \in accepted[v][k] : u < w => u + ReplayTTL <= w
  BY DEF WebhookKept, WebhookTyped, RememberedApart
<1>3. \A u, w \in accepted[v][k] : u < w => u = k[2] - Tolerance /\ w = k[2] + Tolerance
  BY <1>1, <1>2
<1>4. PICK u \in accepted[v][k], w \in accepted[v][k] : u # w
  <2> SUFFICES ASSUME \A u, w \in accepted[v][k] : u = w PROVE FALSE
    OBVIOUS
  <2>1. CASE accepted[v][k] = {}
    BY <2>1, FS_EmptySet
  <2>2. CASE accepted[v][k] # {}
    <3>1. PICK u \in accepted[v][k] : TRUE
      BY <2>2
    <3>2. accepted[v][k] = {u}
      BY <3>1
    <3>3. Cardinality({u}) = 1
      BY FS_Singleton
    <3> QED  BY <3>2, <3>3
  <2> QED  BY <2>1, <2>2
<1>5. PICK x \in accepted[v][k], y \in accepted[v][k] : x < y
  BY <1>2, <1>4
<1>6. x = k[2] - Tolerance /\ y = k[2] + Tolerance
  BY <1>3, <1>5
<1>7. \A z \in accepted[v][k] : z = x \/ z = y
  BY <1>2, <1>3, <1>5, <1>6
<1> QED  BY <1>6, <1>7

\* A window lets no more through than the limit.
LEMMA WindowBounded ==
    ASSUME WebhookKept, NEW v \in Processes, NEW s
    PROVE  IsFiniteSet({a \in admitted[v] : a.start = s}) /\ Cardinality({a \in admitted[v] : a.start = s}) <= Limit
<1> DEFINE one == {a \in admitted[v] : a.start = s}
<1>1. Limit \in Nat /\ Limit > 0
  BY WebhookAssumption
<1>2. IsFiniteSet(1..Limit) /\ Cardinality(1..Limit) = Limit
  BY <1>1, FS_Interval
<1>3. \A a \in one : a.count \in 1..Limit
  BY DEF WebhookKept, WebhookTyped
<1>4. \A a, b \in one : a.count = b.count => a = b
  BY DEF WebhookKept, WindowsApart
<1> DEFINE f == [a \in one |-> a.count]
<1> HIDE DEF one
<1>5. f \in [one -> 1..Limit] /\ \A a, b \in one : f[a] = f[b] => a = b
  BY <1>3, <1>4
<1>6. f \in Injection(one, 1..Limit)
  BY <1>5 DEF Injection, IsInjective
<1> HIDE DEF f
<1>7. IsFiniteSet(one) /\ Cardinality(one) <= Cardinality(1..Limit)
  BY <1>2, <1>6, FS_Injection
<1> QED  BY <1>2, <1>7 DEF one

\* No span as long as the window meets three windows.
LEMMA SpanOfTwoWindows == WebhookKept => SpanBounded
<1> SUFFICES ASSUME WebhookKept, NEW v \in Processes, NEW t \in 0..MaxMoment PROVE Cardinality(Span(v, t)) <= 2 * Limit
  BY DEF SpanBounded
<1>1. Limit \in Nat /\ Window \in Nat /\ t \in Int
  BY WebhookAssumption
<1> DEFINE of(s) == {a \in admitted[v] : a.start = s}
<1>2. CASE Span(v, t) = {}
  BY <1>1, <1>2, FS_EmptySet
<1>3. CASE Span(v, t) # {}
  <2>1. PICK a \in Span(v, t) : TRUE
    BY <1>3
  <2>2. PICK b \in Span(v, t) : b.start # a.start \/ \A c \in Span(v, t) : c.start = a.start
    BY <2>1
  <2>3. \A c \in Span(v, t) : /\ c \in admitted[v] /\ c.start \in Nat /\ c.at \in Nat
                           /\ c.start < t + Window /\ t < c.start + Window
    BY <1>1 DEF Span, WebhookKept, WebhookTyped, WindowsApart
  <2>4. \A c \in Span(v, t) : c.start = a.start \/ c.start = b.start
    <3> SUFFICES ASSUME NEW c \in Span(v, t), c.start # a.start, c.start # b.start, b.start # a.start PROVE FALSE
      BY <2>1, <2>2
    <3>1. \A p, q \in {a, b, c} : p.start < q.start => p.start + Window <= q.start
      BY <2>1, <2>2, <2>3 DEF WebhookKept, WindowsApart
    <3>2. \A p \in {a, b, c} : p.start \in Nat /\ p.start < t + Window /\ t < p.start + Window
      BY <2>1, <2>2, <2>3
    <3> QED  BY <1>1, <2>2, <3>1, <3>2
  <2>5. Span(v, t) \subseteq of(a.start) \cup of(b.start)
    BY <2>3, <2>4
  <2>6. /\ IsFiniteSet(of(a.start)) /\ Cardinality(of(a.start)) <= Limit
        /\ IsFiniteSet(of(b.start)) /\ Cardinality(of(b.start)) <= Limit
    BY WindowBounded
  <2> HIDE DEF of
  <2>7. /\ IsFiniteSet(of(a.start) \cup of(b.start))
        /\ Cardinality(of(a.start) \cup of(b.start)) <= Cardinality(of(a.start)) + Cardinality(of(b.start))
    <3>1. IsFiniteSet(of(a.start) \cap of(b.start))
      BY <2>6, FS_Intersection
    <3>2. Cardinality(of(a.start) \cap of(b.start)) \in Nat
      BY <3>1, FS_CardinalityType
    <3>3. Cardinality(of(a.start)) \in Nat /\ Cardinality(of(b.start)) \in Nat
      BY <2>6, FS_CardinalityType
    <3>4. /\ IsFiniteSet(of(a.start) \cup of(b.start))
          /\ Cardinality(of(a.start) \cup of(b.start))
                = Cardinality(of(a.start)) + Cardinality(of(b.start)) - Cardinality(of(a.start) \cap of(b.start))
      BY <2>6, FS_Union
    <3> QED  BY <3>2, <3>3, <3>4
  <2>8. Cardinality(Span(v, t)) <= Cardinality(of(a.start) \cup of(b.start))
    BY <2>5, <2>7, FS_Subset
  <2>9. /\ Cardinality(of(a.start)) \in Nat /\ Cardinality(of(b.start)) \in Nat
        /\ Cardinality(of(a.start) \cup of(b.start)) \in Nat
    BY <2>6, <2>7, FS_CardinalityType
  <2>10. Cardinality(Span(v, t)) \in Nat
    <3>1. IsFiniteSet(Span(v, t))
      BY <2>5, <2>7, FS_Subset
    <3> QED  BY <3>1, FS_CardinalityType
  <2> QED  BY <1>1, <2>6, <2>7, <2>8, <2>9, <2>10
<1> QED  BY <1>2, <1>3

\* A step of a request moves it on or ends it.
LEMMA SenderMoves ==
    ASSUME WebhookTyped, NEW s \in Senders, sender[s] # Gone,
           \/ Finished(s)
           \/ \E step \in {"limit", "verify", "publish"} : Step(s, step)
    PROVE  sender' \in [Senders -> {Gone} \cup Sent]
<1>1. sender \in [Senders -> {Gone} \cup Sent] /\ sender[s] \in Sent
  BY DEF WebhookTyped
<1>2. CASE Finished(s)
  BY <1>1, <1>2 DEF Finished
<1>3. ASSUME NEW step \in {"limit", "verify", "publish"}, Step(s, step)
      PROVE  sender' \in [Senders -> {Gone} \cup Sent]
  <2>1. PICK moved : moved = [sender[s] EXCEPT !.step = step]
    OBVIOUS
  <2>2. moved \in Sent
    BY <1>1, <2>1 DEF Sent
  <2>3. sender' = [sender EXCEPT ![s] = moved]
    BY <1>1, <1>3, <2>1 DEF Step
  <2> QED  BY <1>1, <2>2, <2>3
<1> QED  BY <1>2, <1>3

\* What the limiter makes of a request: it begins a window after the last one,
\* or is one more in it.
LEMMA CountedOnce ==
    ASSUME WebhookKept, NEW v \in Processes
    PROVE  LET new == Counted(entry[v], moment)
           IN  /\ new.start \in Nat /\ new.count \in Nat /\ new.count >= 1 /\ new \in Windows
               /\ new.start <= moment /\ moment < new.start + Window
               /\ \/ new.start = moment /\ (entry[v].start = -1 \/ entry[v].start + Window <= moment)
                  \/ new.start = entry[v].start /\ new.count = entry[v].count + 1
<1>1. PICK last : last = entry[v]
  OBVIOUS
<1>2. last \in Windows /\ moment \in Nat /\ WindowsApart(last, admitted[v])
  BY <1>1 DEF WebhookKept, WebhookTyped
<1>3. last.start \in Nat \cup {-1} /\ last.count \in Nat /\ last.start <= moment
  BY <1>2 DEF Windows, WindowsApart
<1>4. Window \in Nat /\ Window > 0
  BY WebhookAssumption
<1>5. CASE last.start = -1 \/ moment - last.start >= Window
  <2>1. PICK new : new = [start |-> moment, count |-> 1]
    OBVIOUS
  <2>2. Counted(entry[v], moment) = new
    BY <1>1, <1>5, <2>1 DEF Counted
  <2>3. new \in Windows /\ new.start = moment /\ new.count = 1
    BY <1>2, <2>1 DEF Windows
  <2> QED  BY <1>1, <1>2, <1>3, <1>4, <1>5, <2>2, <2>3
<1>6. CASE ~(last.start = -1 \/ moment - last.start >= Window)
  <2>1. PICK new : new = [last EXCEPT !.count = @ + 1]
    OBVIOUS
  <2>2. Counted(entry[v], moment) = new
    BY <1>1, <1>6, <2>1 DEF Counted
  <2>3. new.start = last.start /\ new.count = last.count + 1 /\ new \in Windows
    BY <1>2, <1>3, <2>1 DEF Windows
  <2> QED  BY <1>1, <1>2, <1>3, <1>4, <1>6, <2>2, <2>3
<1> QED  BY <1>5, <1>6

\* The windows of a process with one more request counted, whether it passes.
LEMMA WindowsKept ==
    ASSUME NEW last \in Windows, NEW new \in Windows, NEW passed, NEW one, moment \in Nat, WindowsApart(last, passed),
           \A a \in passed : a.at \in Nat /\ a.start \in Nat /\ a.count \in 1..Limit,
           new.start \in Nat, new.start <= moment, moment < new.start + Window,
           \/ new.start = moment /\ (last.start = -1 \/ last.start + Window <= moment)
           \/ new.start = last.start /\ new.count = last.count + 1,
           one.at = moment, one.start = new.start, one.count = new.count
    PROVE  WindowsApart(new, passed) /\ WindowsApart(new, passed \cup {one})
<1>1. Limit \in Nat /\ Window \in Nat /\ Window > 0
  BY WebhookAssumption
<1>2. last.start \in Nat \cup {-1} /\ last.count \in Nat /\ new.count \in Nat
  BY DEF Windows
<1>3. \A a \in passed : /\ a.start <= a.at /\ a.at < a.start + Window /\ a.at <= moment
                        /\ a.start = last.start => a.count <= last.count
                        /\ a.start # last.start => a.start + Window <= last.start
  BY DEF WindowsApart
<1>4. \A a, b \in passed : /\ a.start < b.start => a.start + Window <= b.start
                           /\ a.start = b.start /\ a.count = b.count => a = b
  BY DEF WindowsApart
<1>5. \A a \in passed : /\ a.start = new.start => a.count < new.count
                        /\ a.start # new.start => a.start + Window <= new.start
  <2> SUFFICES ASSUME NEW a \in passed
               PROVE  /\ a.start = new.start => a.count < new.count
                      /\ a.start # new.start => a.start + Window <= new.start
    OBVIOUS
  <2>1. a.start \in Nat /\ a.count \in Nat
    BY <1>1
  <2> QED  BY <1>1, <1>2, <1>3, <2>1
<1>6. \A a \in passed : a.start = new.start => a.count <= new.count
  BY <1>1, <1>2, <1>5
<1>7. WindowsApart(new, passed)
  BY <1>3, <1>4, <1>5, <1>6 DEF WindowsApart
<1> DEFINE more == passed \cup {one}
<1>8. \A a \in more : /\ a.start <= a.at /\ a.at < a.start + Window /\ a.at <= moment
                      /\ a.start = new.start => a.count <= new.count
                      /\ a.start # new.start => a.start + Window <= new.start
  BY <1>2, <1>3, <1>5, <1>6
<1>9. \A a, b \in more : /\ a.start < b.start => a.start + Window <= b.start
                         /\ a.start = b.start /\ a.count = b.count => a = b
  <2> SUFFICES ASSUME NEW a \in more, NEW b \in more
               PROVE  /\ a.start < b.start => a.start + Window <= b.start
                      /\ a.start = b.start /\ a.count = b.count => a = b
    OBVIOUS
  <2>1. CASE a \in passed /\ b \in passed
    BY <1>4, <2>1
  <2>2. CASE a \in passed /\ b = one
    <3>1. a.start \in Nat /\ a.count \in Nat
      BY <1>1, <2>2
    <3> QED  BY <1>1, <1>2, <1>5, <2>2, <3>1
  <2>3. CASE a = one /\ b \in passed
    <3>1. b.start \in Nat /\ b.count \in Nat
      BY <1>1, <2>3
    <3> QED  BY <1>1, <1>2, <1>5, <2>3, <3>1
  <2>4. CASE a = one /\ b = one
    BY <1>2, <2>4
  <2> QED  BY <2>1, <2>2, <2>3, <2>4
<1> HIDE DEF more
<1>10. WindowsApart(new, more)
  BY <1>8, <1>9 DEF WindowsApart
<1> QED  BY <1>7, <1>10 DEF more

LEMMA WebhookAllowed ==
    ASSUME WebhookKept, NEW s \in Senders, Allow(s)
    PROVE  WebhookKept'
<1>1. /\ moment \in Nat /\ Limit \in Nat /\ Window \in Nat
      /\ entry \in [Processes -> Windows] /\ DOMAIN admitted = Processes
  BY WebhookAssumption DEF WebhookKept, WebhookTyped
<1>2. sender[s] \in Sent /\ sender[s] # Gone
  BY DEF Allow, WebhookKept, WebhookTyped, Gone
<1>3. PICK v \in Processes : v = sender[s].by
  BY <1>2 DEF Sent
<1>4. PICK new : new = Counted(entry[v], moment)
  OBVIOUS
<1>5. /\ new.start \in Nat /\ new.count \in Nat /\ new.count >= 1 /\ new \in Windows
      /\ new.start <= moment /\ moment < new.start + Window
      /\ \/ new.start = moment /\ (entry[v].start = -1 \/ entry[v].start + Window <= moment)
         \/ new.start = entry[v].start /\ new.count = entry[v].count + 1
  BY <1>4, CountedOnce
<1>6. PICK one : one = [number |-> Cardinality(admitted[v]), at |-> moment, start |-> new.start, count |-> new.count]
  OBVIOUS
<1>7. one.at = moment /\ one.start = new.start /\ one.count = new.count
  BY <1>6
<1>8. /\ entry' = [entry EXCEPT ![v] = new]
      /\ UNCHANGED <<moment, seen, accepted>>
      /\ \/ Step(s, "verify") /\ new.count <= Limit /\ admitted' = [admitted EXCEPT ![v] = @ \cup {one}]
         \/ Finished(s) /\ admitted' = admitted
  BY <1>3, <1>4, <1>6 DEF Allow
<1>9. sender' \in [Senders -> {Gone} \cup Sent]
  BY <1>2, <1>8, SenderMoves DEF WebhookKept
<1>10. entry' \in [Processes -> Windows] /\ entry'[v] = new /\ \A w \in Processes : w # v => entry'[w] = entry[w]
  BY <1>1, <1>5, <1>8
<1>11. /\ DOMAIN admitted' = Processes
       /\ \A w \in Processes : w # v => admitted'[w] = admitted[w]
       /\ \/ admitted'[v] = admitted[v]
          \/ admitted'[v] = admitted[v] \cup {one} /\ new.count <= Limit
  BY <1>1, <1>8
<1>12. \A w \in Processes : IsFiniteSet(admitted[w]) /\ \A a \in admitted[w] : a.at \in Nat /\ a.start \in Nat /\ a.count \in 1..Limit
  BY DEF WebhookKept, WebhookTyped
<1>13. IsFiniteSet(admitted'[v]) /\ \A a \in admitted'[v] : a.at \in Nat /\ a.start \in Nat /\ a.count \in 1..Limit
  <2>1. CASE admitted'[v] = admitted[v]
    BY <1>12, <2>1
  <2>2. CASE admitted'[v] = admitted[v] \cup {one} /\ new.count <= Limit
    <3>1. IsFiniteSet(admitted[v] \cup {one})
      BY <1>12, FS_AddElement
    <3>2. one.at \in Nat /\ one.start \in Nat /\ one.count \in 1..Limit
      BY <1>1, <1>5, <1>7, <2>2
    <3>3. \A a \in admitted[v] \cup {one} : a.at \in Nat /\ a.start \in Nat /\ a.count \in 1..Limit
      BY <1>12, <3>2
    <3> QED  BY <2>2, <3>1, <3>3
  <2> QED  BY <1>11, <2>1, <2>2
<1>14. WebhookTyped'
  BY <1>1, <1>8, <1>9, <1>10, <1>11, <1>12, <1>13 DEF WebhookKept, WebhookTyped
<1>15. WindowsApart(new, admitted[v]) /\ WindowsApart(new, admitted[v] \cup {one})
  BY <1>1, <1>5, <1>7, <1>12, WindowsKept DEF WebhookKept
<1>16. \A w \in Processes : WindowsApart(entry[w], admitted[w])'
  <2> SUFFICES ASSUME NEW w \in Processes PROVE WindowsApart(entry[w], admitted[w])'
    OBVIOUS
  <2>1. CASE w = v
    BY <1>8, <1>10, <1>11, <1>15, <2>1 DEF WindowsApart
  <2>2. CASE w # v
    BY <1>8, <1>10, <1>11, <2>2 DEF WebhookKept, WindowsApart
  <2> QED  BY <2>1, <2>2
<1>17. \A w \in Processes : RememberedApart(seen[w], accepted[w])'
  BY <1>8 DEF WebhookKept, RememberedApart
<1> QED  BY <1>14, <1>16, <1>17 DEF WebhookKept

LEMMA WebhookVerified ==
    ASSUME WebhookKept, NEW s \in Senders, Verify(s)
    PROVE  WebhookKept'
<1>1. moment \in Nat /\ Tolerance \in Nat /\ ReplayTTL = 2 * Tolerance /\ ReplayTTL \in Nat
  BY WebhookAssumption DEF WebhookKept, WebhookTyped, ReplayTTL
<1>2. UNCHANGED <<moment, entry, admitted>>
  BY DEF Verify
<1>3. sender[s] \in Sent /\ sender[s] # Gone
  BY DEF Verify, WebhookKept, WebhookTyped, Gone
<1>4. PICK key \in SignedKeys, v \in Processes : key = sender[s].key /\ v = sender[s].by
  BY <1>3 DEF Sent
<1>5. \A w \in Processes : WindowsApart(entry[w], admitted[w])'
  BY <1>2 DEF WebhookKept, WindowsApart
<1>6. sender' \in [Senders -> {Gone} \cup Sent]
  <2>1. Finished(s) \/ Step(s, "publish")
    BY DEF Verify
  <2> QED  BY <1>3, <2>1, SenderMoves DEF WebhookKept
<1>7. /\ seen \in [Processes -> [SignedKeys -> Nat]]
      /\ accepted \in [Processes -> [SignedKeys -> SUBSET Nat]]
  BY DEF WebhookKept, WebhookTyped
<1>8. CASE Timely(key[2]) /\ ~(seen[v][key] > moment)
  <2>1. seen' = [seen EXCEPT ![v][key] = moment + ReplayTTL]
        /\ accepted' = [accepted EXCEPT ![v][key] = @ \cup {moment}]
    BY <1>4, <1>8 DEF Verify, Remember
  <2>2. key[2] \in Nat
    BY WebhookAssumption DEF SignedKeys
  <2>3. moment - key[2] <= Tolerance /\ key[2] - moment <= Tolerance /\ seen[v][key] <= moment
    BY <1>1, <1>7, <1>8, <2>2 DEF Timely
  <2>4. moment + ReplayTTL \in Nat
    BY <1>1
  <2>5. seen' \in [Processes -> [SignedKeys -> Nat]] /\ accepted' \in [Processes -> [SignedKeys -> SUBSET Nat]]
    BY <1>1, <1>7, <2>1, <2>4
  <2>6. /\ seen'[v][key] = moment + ReplayTTL /\ accepted'[v][key] = accepted[v][key] \cup {moment}
        /\ \A k \in SignedKeys : k # key => seen'[v][k] = seen[v][k] /\ accepted'[v][k] = accepted[v][k]
        /\ \A w \in Processes : w # v => seen'[w] = seen[w] /\ accepted'[w] = accepted[w]
    BY <1>7, <2>1
  <2>7. RememberedApart(seen[v], accepted[v])
    BY DEF WebhookKept
  <2>8. \A u \in accepted[v][key] : u + ReplayTTL <= moment /\ u \in Nat
    BY <1>1, <1>7, <2>3, <2>7 DEF RememberedApart
  <2>9. \A k \in SignedKeys :
            /\ \A u \in accepted'[v][k] : u - k[2] <= Tolerance /\ k[2] - u <= Tolerance /\ u + ReplayTTL <= seen'[v][k]
            /\ \A u, w \in accepted'[v][k] : u < w => u + ReplayTTL <= w
    <3> SUFFICES ASSUME NEW k \in SignedKeys
                 PROVE  /\ \A u \in accepted'[v][k] : u - k[2] <= Tolerance /\ k[2] - u <= Tolerance /\ u + ReplayTTL <= seen'[v][k]
                        /\ \A u, w \in accepted'[v][k] : u < w => u + ReplayTTL <= w
      OBVIOUS
    <3>1. CASE k # key
      BY <2>6, <2>7, <3>1 DEF RememberedApart
    <3>2. CASE k = key
      <4>1. \A u \in accepted[v][key] : u - key[2] <= Tolerance /\ key[2] - u <= Tolerance
        BY <2>7 DEF RememberedApart
      <4>2. \A u, w \in accepted[v][key] : u < w => u + ReplayTTL <= w
        BY <2>7 DEF RememberedApart
      <4>3. \A u \in accepted[v][key] : u + ReplayTTL <= moment + ReplayTTL
        BY <1>1, <2>8
      <4>4. \A u \in accepted'[v][key] : u - key[2] <= Tolerance /\ key[2] - u <= Tolerance
                                         /\ u + ReplayTTL <= moment + ReplayTTL
        BY <1>1, <2>3, <2>6, <4>1, <4>3
      <4>5. \A u \in accepted[v][key] : ~(moment < u)
        BY <1>1, <2>8
      <4>6. \A u, w \in accepted'[v][key] : u < w => u + ReplayTTL <= w
        BY <1>1, <2>6, <2>8, <4>2, <4>5
      <4> QED  BY <2>6, <3>2, <4>4, <4>6
    <3> QED  BY <3>1, <3>2
  <2>10. \A w \in Processes : RememberedApart(seen[w], accepted[w])'
    <3> SUFFICES ASSUME NEW w \in Processes PROVE RememberedApart(seen[w], accepted[w])'
      OBVIOUS
    <3>1. CASE w = v
      BY <2>9, <3>1 DEF RememberedApart
    <3>2. CASE w # v
      BY <2>6, <3>2 DEF WebhookKept, RememberedApart
    <3> QED  BY <3>1, <3>2
  <2>11. WebhookTyped'
    BY <1>2, <1>6, <2>5 DEF WebhookKept, WebhookTyped
  <2> QED  BY <1>5, <2>10, <2>11 DEF WebhookKept
<1>9. CASE ~(Timely(key[2]) /\ ~(seen[v][key] > moment))
  <2>1. UNCHANGED <<seen, accepted>>
    BY <1>4, <1>9 DEF Verify
  <2>2. WebhookTyped' /\ \A w \in Processes : RememberedApart(seen[w], accepted[w])'
    BY <1>2, <1>6, <2>1 DEF WebhookKept, WebhookTyped, RememberedApart
  <2> QED  BY <1>5, <2>2 DEF WebhookKept
<1> QED  BY <1>8, <1>9

\* The steps that neither count nor accept a request.
LEMMA WebhookAround ==
    ASSUME WebhookKept, UNCHANGED <<entry, seen, admitted, accepted>>,
           moment' \in Nat, moment' >= moment,
           sender' \in [Senders -> {Gone} \cup Sent]
    PROVE  WebhookKept'
<1>1. WebhookTyped' /\ \A v \in Processes : RememberedApart(seen[v], accepted[v])'
  BY DEF WebhookKept, WebhookTyped, RememberedApart
<1>2. \A v \in Processes : WindowsApart(entry[v], admitted[v])'
  <2> SUFFICES ASSUME NEW v \in Processes PROVE WindowsApart(entry[v], admitted[v])'
    OBVIOUS
  <2>1. entry[v] \in Windows /\ moment \in Nat /\ \A a \in admitted[v] : a.at \in Nat
    BY DEF WebhookKept, WebhookTyped
  <2>2. entry[v].start \in Int
    BY <2>1 DEF Windows
  <2>3. WindowsApart(entry[v], admitted[v])
    BY DEF WebhookKept
  <2>4. entry[v].start <= moment' /\ \A a \in admitted[v] : a.at <= moment'
    BY <2>1, <2>2, <2>3 DEF WindowsApart
  <2> QED  BY <2>3, <2>4 DEF WindowsApart
<1> QED  BY <1>1, <1>2 DEF WebhookKept

LEMMA WebhookStep == WebhookKept /\ [WebhookNext]_webhookVars => WebhookKept'
<1> SUFFICES ASSUME WebhookKept, [WebhookNext]_webhookVars PROVE WebhookKept'
  OBVIOUS
<1>1. moment \in Nat /\ sender \in [Senders -> {Gone} \cup Sent]
  BY DEF WebhookKept, WebhookTyped
<1>2. CASE TimePasses
  <2>1. UNCHANGED <<entry, seen, admitted, accepted, sender>> /\ moment' = moment + 1
    BY <1>2 DEF TimePasses, processVars
  <2> QED  BY <1>1, <2>1, WebhookAround
<1>3. ASSUME \/ RegenerateWebhookSecret \/ DeleteWebhookRoute
             \/ \E op \in {"update", "regenerate"} : ReadWebhookRoute(op)
             \/ \E enabled \in BOOLEAN : CreateWebhookRoute(enabled) \/ UpdateWebhookRoute(enabled)
             \/ \E v \in Processes : StartServer(v)
             \/ UNCHANGED webhookVars
      PROVE  WebhookKept'
  <2>1. UNCHANGED <<entry, seen, admitted, accepted, sender, moment>>
    BY <1>3 DEF RegenerateWebhookSecret, DeleteWebhookRoute, ReadWebhookRoute, CreateWebhookRoute,
                UpdateWebhookRoute, SaveWebhookRoute, StartServer, processVars, webhookVars
  <2> QED  BY <1>1, <2>1, WebhookAround
<1>4. ASSUME NEW s \in Senders, NEW v \in Processes, NEW secret \in SecretNumbers, NEW stamp \in Stamps,
             ReceiveWebhook(s, v, secret, stamp)
      PROVE  WebhookKept'
  <2>1. PICK got : got = [step |-> "limit", key |-> <<secret, stamp>>, by |-> v]
    OBVIOUS
  <2>2. got \in Sent
    BY <2>1 DEF Sent, SignedKeys
  <2>3. UNCHANGED <<entry, seen, admitted, accepted, moment>> /\ sender' = [sender EXCEPT ![s] = got]
    BY <1>4, <2>1 DEF ReceiveWebhook, processVars
  <2>4. sender' \in [Senders -> {Gone} \cup Sent]
    BY <1>1, <2>2, <2>3
  <2> QED  BY <1>1, <2>3, <2>4, WebhookAround
<1>5. ASSUME NEW s \in Senders, PublishWebhook(s) PROVE WebhookKept'
  <2>1. UNCHANGED <<entry, seen, admitted, accepted, moment>> /\ Finished(s) /\ sender[s] # Gone
    BY <1>5 DEF PublishWebhook, processVars, Gone
  <2>2. sender' \in [Senders -> {Gone} \cup Sent]
    BY <2>1, SenderMoves DEF WebhookKept
  <2> QED  BY <1>1, <2>1, <2>2, WebhookAround
<1>6. ASSUME NEW v \in Processes, StopServer(v) PROVE WebhookKept'
  <2>1. UNCHANGED <<entry, seen, admitted, accepted, moment>>
    BY <1>6 DEF StopServer
  <2>2. sender' \in [Senders -> {Gone} \cup Sent]
    BY <1>1, <1>6 DEF StopServer
  <2> QED  BY <1>1, <2>1, <2>2, WebhookAround
<1> QED  BY <1>2, <1>3, <1>4, <1>5, <1>6, WebhookAllowed, WebhookVerified DEF WebhookNext

\* A process accepts a signed request once, but for the two ends of its life,
\* and its limiter lets through at most twice the limit in a span as long as
\* the window, for any number of requests under way, of processes and of
\* restarts (ReceiveWebhook, DynamicLimiter.Allow, Remember).
THEOREM RequestsBounded == WebhookSpec => []WebhookSound
  BY WebhookInitial, WebhookStep, SignedAtEnds, SpanOfTwoWindows, PTL DEF WebhookSpec, WebhookSound
=============================================================================
