---------------------------- MODULE SmtpReceiver ----------------------------
(* A session of the SMTP receiver, while administrators change the route of *)
(* its recipient.                                                           *)
EXTENDS Naturals

CONSTANTS MaxMails, MaxRouteEdits

ASSUME SmtpAssumption == MaxMails \in Nat /\ MaxRouteEdits \in Nat

VARIABLES
    smtpRoute,   \* the row: [enabled, guarded (has credentials), picky (has a sender filter)]
    session,     \* what handleSMTP keeps between two commands
    mails, routeEdits,
    cleared,     \* history: the recipient passed the checks of RCPT TO since the last mail
    delivered    \* history: for each mail published, whether its recipient was cleared

smtpVars == <<smtpRoute, session, mails, routeEdits, cleared, delivered>>

NewSession == [user |-> "none", recipient |-> FALSE, sender |-> FALSE, data |-> "none"]

SmtpInit ==
    /\ smtpRoute \in [enabled : {TRUE}, guarded : BOOLEAN, picky : BOOLEAN]
    /\ session = NewSession /\ mails = 0 /\ routeEdits = 0
    /\ cleared = FALSE /\ delivered = {}

UpdateSMTPRoute(row) ==
    /\ routeEdits < MaxRouteEdits /\ routeEdits' = routeEdits + 1
    /\ smtpRoute' = row
    /\ UNCHANGED <<session, mails, cleared, delivered>>

-----------------------------------------------------------------------------
(* The commands. Credentials are only compared at RCPT TO, against the   *)
(* route found then; DATA finds the route again.                            *)

\* AUTH PLAIN takes any credentials; "good" are those of the route.
Auth(user) ==
    /\ session.data = "none" /\ session' = [session EXCEPT !.user = user]
    /\ UNCHANGED <<smtpRoute, mails, routeEdits, cleared, delivered>>

MailFrom(fits) ==
    /\ session.data = "none" /\ session' = [session EXCEPT !.sender = fits]
    /\ UNCHANGED <<smtpRoute, mails, routeEdits, cleared, delivered>>

Refused == ~smtpRoute.enabled \/ (smtpRoute.guarded /\ session.user # "good")

\* Mutant: a refused recipient stays the recipient of the session.
RcptToKeeps ==
    /\ session.data = "none"
    /\ session' = [session EXCEPT !.recipient = TRUE]
    /\ cleared' = ~Refused
    /\ UNCHANGED <<smtpRoute, mails, routeEdits, delivered>>

\* Unknown recipients, addresses that are not allowed and missing or wrong
\* credentials clear the recipient.
RcptTo ==
    /\ session.data = "none"
    /\ session' = [session EXCEPT !.recipient = ~Refused]
    /\ cleared' = ~Refused
    /\ UNCHANGED <<smtpRoute, mails, routeEdits, delivered>>

\* Refusals after the 354 leave the recipient as it is.
BeginData ==
    /\ session.data = "none" /\ session.recipient /\ mails < MaxMails
    /\ mails' = mails + 1
    /\ session' = [session EXCEPT !.data =
          IF smtpRoute.enabled /\ (~smtpRoute.picky \/ session.sender) THEN "reading" ELSE "none"]
    /\ UNCHANGED <<smtpRoute, routeEdits, cleared, delivered>>

\* The message is too large or the connection is lost (the session ends), is
\* unreadable or cannot be published (the recipient stays), its subject is
\* refused (the recipient goes), or it is published.
EndData ==
    /\ session.data = "reading"
    /\ \/ session' = NewSession /\ cleared' = FALSE /\ UNCHANGED delivered
       \/ session' = [session EXCEPT !.data = "none"] /\ UNCHANGED <<cleared, delivered>>
       \/ session' = [session EXCEPT !.data = "none", !.recipient = FALSE]
          /\ cleared' = FALSE /\ UNCHANGED delivered
       \/ /\ session' = [session EXCEPT !.data = "none", !.recipient = FALSE, !.sender = FALSE]
          /\ delivered' = delivered \cup {cleared} /\ cleared' = FALSE
    /\ UNCHANGED <<smtpRoute, mails, routeEdits>>

Rset ==
    /\ session.data = "none"
    /\ session' = [session EXCEPT !.recipient = FALSE, !.sender = FALSE] /\ cleared' = FALSE
    /\ UNCHANGED <<smtpRoute, mails, routeEdits, delivered>>

Quit ==
    /\ session.data = "none"
    /\ session' = NewSession /\ cleared' = FALSE
    /\ UNCHANGED <<smtpRoute, mails, routeEdits, delivered>>

SmtpNext ==
    \/ \E row \in [enabled : BOOLEAN, guarded : BOOLEAN, picky : BOOLEAN] : UpdateSMTPRoute(row)
    \/ \E user \in {"good", "wrong"} : Auth(user)
    \/ \E fits \in BOOLEAN : MailFrom(fits)
    \/ RcptTo \/ BeginData \/ EndData \/ Rset \/ Quit

SmtpSpec == SmtpInit /\ [][SmtpNext]_smtpVars

-----------------------------------------------------------------------------
\* A mail is published only when its recipient passed the checks of a RCPT TO
\* of this session after the mail before it; refusals, failed publications and
\* RSET in between do not let one slip (connectors/manager.go handleSMTP).
MailCleared == FALSE \notin delivered
=============================================================================
