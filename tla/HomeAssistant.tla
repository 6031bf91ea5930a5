--------------------------- MODULE HomeAssistant ----------------------------
(* The native bridge of a Home Assistant connection: pairing codes, native  *)
(* secrets and the events sent under them. Every endpoint reads the row,    *)
(* changes its copy and saves the whole copy; two requests may overlap.     *)
EXTENDS Integers, FiniteSets

CONSTANTS
    Requests,      \* requests that may be under way at the same time
    MaxSecrets,    \* codes and secrets that may be generated
    MaxCalls

ASSUME HomeAssistantAssumption == MaxSecrets \in Nat /\ MaxCalls \in Nat

VARIABLES
    bridge,    \* the HomeAssistantIntegration row
    request,   \* per request: the endpoint and the copy it read
    fresh,     \* next code or secret
    calls,
    expired,   \* codes older than fifteen minutes
    events,    \* secrets under which an event was published
    revoked,   \* history: secrets taken out of the row
    pairings,  \* history: secrets made from a code
    raced      \* history: codes and secrets that another request still held when they left the row

homeVars == <<bridge, request, fresh, calls, expired, events, revoked, pairings, raced>>

None == 0
NoBridge == [exists |-> FALSE, mode |-> "token", enabled |-> FALSE, secret |-> None, code |-> None, status |-> ""]
Free == [op |-> "free"]
Tokens == 1..MaxSecrets

HomeInit ==
    /\ bridge = NoBridge
    /\ request = [r \in Requests |-> Free]
    /\ fresh = 1 /\ calls = 0
    /\ expired = {} /\ events = {} /\ revoked = {} /\ raced = {}
    /\ pairings = [c \in Tokens |-> 0]

Ops == {"update", "regenerate", "pair", "revoke", "event"}
Paired(row) == row.secret # None

CreateHomeAssistant(mode) ==
    /\ ~bridge.exists /\ calls < MaxCalls /\ calls' = calls + 1
    /\ mode = "integration" => fresh <= MaxSecrets
    /\ bridge' = [NoBridge EXCEPT !.exists = TRUE, !.mode = mode, !.enabled = TRUE,
                     !.code = IF mode = "integration" THEN fresh ELSE None,
                     !.status = IF mode = "integration" THEN "pairing" ELSE ""]
    /\ fresh' = IF mode = "integration" THEN fresh + 1 ELSE fresh
    /\ UNCHANGED <<request, events, revoked, pairings, raced, expired>>

\* GetHomeAssistantIntegrationByID, with what the caller presents: a pairing
\* code or a native secret it was given at some time.
BeginRequest(r, op, token) ==
    /\ request[r] = Free /\ bridge.exists /\ calls < MaxCalls
    /\ op \in {"regenerate", "pair", "revoke", "event"} => bridge.mode = "integration"
    /\ op = "pair" => bridge.code = token /\ token \notin expired \cup {None}
    /\ op \in {"revoke", "event"} => bridge.secret = token /\ token # None
    /\ op = "event" => bridge.enabled
    /\ op \in {"update", "regenerate"} => token = None
    /\ calls' = calls + 1
    /\ request' = [request EXCEPT ![r] = [op |-> op, copy |-> bridge]]
    /\ UNCHANGED <<bridge, fresh, events, revoked, pairings, raced, expired>>

\* SaveHomeAssistantIntegration writes every column, and inserts the row again
\* when it was deleted in the meantime.
SaveHomeAssistantIntegration(r, row) ==
    LET gone == ({bridge.secret, bridge.code} \ {row.secret, row.code}) \ {None}
        others == {request[q].copy : q \in {x \in Requests \ {r} : request[x] # Free}}
    IN  /\ bridge' = row
        /\ request' = [request EXCEPT ![r] = Free]
        /\ revoked' = revoked \cup gone
        /\ raced' = raced \cup {t \in gone : \E copy \in others : t \in {copy.secret, copy.code}}

\* Switching to a token ends the pairing.
UpdateHomeAssistant(r, mode, enabled) ==
    /\ request[r].op = "update"
    /\ SaveHomeAssistantIntegration(r,
           IF mode = "token"
           THEN [request[r].copy EXCEPT !.mode = mode, !.enabled = enabled, !.secret = None, !.code = None]
           ELSE [request[r].copy EXCEPT !.mode = mode, !.enabled = enabled])
    /\ UNCHANGED <<fresh, calls, events, pairings, expired>>

RegenerateHomeAssistantPairing(r) ==
    /\ request[r].op = "regenerate" /\ fresh <= MaxSecrets
    /\ SaveHomeAssistantIntegration(r,
           [request[r].copy EXCEPT !.code = fresh, !.status = IF Paired(request[r].copy) THEN @ ELSE "pairing"])
    /\ fresh' = fresh + 1
    /\ UNCHANGED <<calls, events, pairings, expired>>

\* Mutant: the code stays valid after it was used.
PairKeepsCode(r) ==
    /\ request[r].op = "pair" /\ fresh <= MaxSecrets
    /\ SaveHomeAssistantIntegration(r, [request[r].copy EXCEPT !.secret = fresh, !.status = "connected"])
    /\ pairings' = [pairings EXCEPT ![request[r].copy.code] = @ + 1]
    /\ fresh' = fresh + 1
    /\ UNCHANGED <<calls, events, expired>>

PairNativeHomeAssistant(r) ==
    /\ request[r].op = "pair" /\ fresh <= MaxSecrets
    /\ SaveHomeAssistantIntegration(r,
           [request[r].copy EXCEPT !.secret = fresh, !.code = None, !.status = "connected"])
    /\ pairings' = [pairings EXCEPT ![request[r].copy.code] = @ + 1]
    /\ fresh' = fresh + 1
    /\ UNCHANGED <<calls, events, expired>>

RevokeNativeHomeAssistant(r) ==
    /\ request[r].op = "revoke"
    /\ SaveHomeAssistantIntegration(r,
           [request[r].copy EXCEPT !.secret = None, !.code = None, !.status = "not_paired"])
    /\ UNCHANGED <<fresh, calls, events, pairings, expired>>

\* ReceiveHomeAssistantEvent reads the row again: a connection deleted, switched
\* off or switched to a token since takes no event. A filter may leave it out.
ReceiveNativeHomeAssistantEvent(r, matches) ==
    /\ request[r].op = "event"
    /\ request' = [request EXCEPT ![r] = Free]
    /\ IF bridge.exists /\ bridge.enabled /\ bridge.mode = "integration"
       THEN /\ bridge' = [bridge EXCEPT !.status = "connected"]
            /\ events' = IF matches THEN events \cup {request[r].copy.secret} ELSE events
       ELSE UNCHANGED <<bridge, events>>
    /\ UNCHANGED <<fresh, calls, revoked, pairings, raced, expired>>

\* The answer to an event sent to Home Assistant; 401 and 403 ask for a new
\* pairing. Only the status columns are updated.
SendHomeAssistantEvent(answer) ==
    /\ bridge.exists /\ bridge.mode = "integration" /\ Paired(bridge) /\ bridge.status # answer
    /\ bridge' = [bridge EXCEPT !.status = answer]
    /\ UNCHANGED <<request, fresh, calls, events, revoked, pairings, raced, expired>>

\* A code runs out after fifteen minutes.
CodeExpires ==
    /\ bridge.code \notin expired \cup {None}
    /\ expired' = expired \cup {bridge.code}
    /\ UNCHANGED <<bridge, request, fresh, calls, events, revoked, pairings, raced>>

DeleteHomeAssistant ==
    /\ bridge.exists /\ calls < MaxCalls /\ calls' = calls + 1
    /\ bridge' = NoBridge
    /\ LET gone == {bridge.secret, bridge.code} \ {None}
           held == {request[q].copy : q \in {x \in Requests : request[x] # Free}}
       IN  /\ revoked' = revoked \cup gone
           /\ raced' = raced \cup {t \in gone : \E copy \in held : t \in {copy.secret, copy.code}}
    /\ UNCHANGED <<request, fresh, expired, events, pairings>>

HomeNext ==
    \/ CodeExpires \/ DeleteHomeAssistant
    \/ \E mode \in {"token", "integration"} : CreateHomeAssistant(mode)
    \/ \E answer \in {"connected", "error", "repair_required"} : SendHomeAssistantEvent(answer)
    \/ \E r \in Requests :
          \/ \E op \in Ops, token \in 0..MaxSecrets : BeginRequest(r, op, token)
          \/ \E mode \in {"token", "integration"}, enabled \in BOOLEAN : UpdateHomeAssistant(r, mode, enabled)
          \/ RegenerateHomeAssistantPairing(r) \/ PairNativeHomeAssistant(r)
          \/ RevokeNativeHomeAssistant(r)
          \/ \E matches \in BOOLEAN : ReceiveNativeHomeAssistantEvent(r, matches)

HomeSpec == HomeInit /\ [][HomeNext]_homeVars

-----------------------------------------------------------------------------
\* A native secret that was revoked, replaced or deleted is never accepted
\* again, and a pairing code makes at most one secret: only a request that had
\* read the row before may bring them back when it saves its copy
\* (api/automation.go PairNativeHomeAssistant, RevokeNativeHomeAssistant,
\* UpdateHomeAssistant).
PairingSound ==
    /\ bridge.secret \in revoked => bridge.secret \in raced
    /\ \A c \in Tokens : pairings[c] > 1 => c \in raced
=============================================================================
