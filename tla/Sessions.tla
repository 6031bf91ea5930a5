------------------------------ MODULE Sessions ------------------------------
(***************************************************************************)
(* The clients of a user (model.Client: a token, its last use and the time *)
(* it expires), the requests that authenticate with them                   *)
(* (auth/authentication.go), the WebSocket connections they keep open, and *)
(* the four ways a client ends: DeleteClient and Logout (the hub is told,  *)
(* then the row is deleted), RevokeSession (the other way round), the      *)
(* deletion of the user, and the five-minute ticker of router.go, which    *)
(* refreshes the clients that are connected and removes the expired ones.  *)
(*                                                                         *)
(* One unit of time is five minutes, the age (RefreshAge) from which a     *)
(* request writes last_used again.  A request is a record: its operation,  *)
(* the row it read, and the next of its database or hub calls.             *)
(***************************************************************************)
EXTENDS Integers, FiniteSets

CONSTANTS Clients, Lifetimes, Calls, RefreshAge, ElevationTime,
          MaxTime,     \* bound: the clock
          MaxCalls,    \* bound: requests after the first
          MaxFailures  \* bound: database calls that fail

ASSUME SessionsAssumption ==
  /\ IsFiniteSet(Clients)
  /\ Lifetimes \subseteq Nat
  /\ {RefreshAge, ElevationTime, MaxTime, MaxCalls, MaxFailures} \subseteq Nat

VARIABLES
  row,      \* the clients table: a row, or NoClient
  sockets,  \* clients with a connection registered in the hub
  call,     \* the request each handler goroutine is serving
  round,    \* the ticker goroutine
  time, calls, failures,
  seen,     \* history: the last time the client was seen in use
  behind,  \* history: clients whose last_used was not brought forward, or set back
  slipped   \* history: connections registered after the hub was told to close them

sessionVars == <<row, sockets, call, round, time, calls, failures, seen, behind, slipped>>

NoClient == [state |-> "none"]
NoCall == [op |-> "none", clients |-> {}]
NoRound == [at |-> "waits"]

SessionInit ==
  /\ row = [c \in Clients |-> NoClient]
  /\ sockets = {}
  /\ call = [k \in Calls |-> NoCall]
  /\ round = NoRound
  /\ time = 0 /\ calls = 0 /\ failures = 0
  /\ seen = [c \in Clients |-> 0]
  /\ behind = {} /\ slipped = {}

Exists(c) == row[c] # NoClient

(* Client.PopulateExpiresAt; 0 stands for a client that never expires *)
calculateExpiresAt(life, used) == IF life = 0 THEN 0 ELSE used + life

Row(life, used, elevated) ==
  [state |-> "stored", life |-> life, used |-> used, elevated |-> elevated,
   expires |-> calculateExpiresAt(life, used)]

notExpired(c) == Exists(c) /\ (row[c].expires = 0 \/ row[c].expires > time)

(* History: a write of last_used that sets it back leaves the row behind its use. *)
Rewound(c, new) == Exists(c) /\ new.used < row[c].used

(* One of time t that is not older than its last use brings the row forward. *)
CatchesUp(c, t) == seen[c] <= t

(* the client a request is about, when it is about one *)
Client(k) == CHOOSE c \in call[k].clients : TRUE

BeginCall(k, record) ==
  /\ call[k] = NoCall
  /\ calls < MaxCalls
  /\ calls' = calls + 1
  /\ call' = [call EXCEPT ![k] = record]

End(k) == call' = [call EXCEPT ![k] = NoCall]

Goes(k, at) == call' = [call EXCEPT ![k].at = at]

-----------------------------------------------------------------------------
(* A token nothing refers to any more stands for a fresh one. *)
Fresh(c) ==
  /\ ~Exists(c) /\ c \notin sockets
  /\ \A k \in Calls : c \notin call[k].clients

(* POST /client and POST /auth/login *)
CreateClient(c, life) ==
  /\ Fresh(c)
  /\ calls < MaxCalls
  /\ calls' = calls + 1
  /\ row' = [row EXCEPT ![c] = Row(life, time, 0)]
  /\ seen' = [seen EXCEPT ![c] = time]
  /\ behind' = behind \ {c}
  /\ UNCHANGED <<sockets, call, round, time, failures, slipped>>

Login(c, life) ==
  /\ Fresh(c) /\ life > 0
  /\ calls < MaxCalls
  /\ calls' = calls + 1
  /\ row' = [row EXCEPT ![c] = Row(life, time, time + ElevationTime)]
  /\ seen' = [seen EXCEPT ![c] = time]
  /\ behind' = behind \ {c}
  /\ UNCHANGED <<sockets, call, round, time, failures, slipped>>

(* handleClient: the row of the token is read, then refreshed when old;    *)
(* the request that follows opens a connection.                            *)
handleClient(k, c) ==
  /\ notExpired(c)
  /\ BeginCall(k, [op |-> "stream", clients |-> {c}, at |-> "refresh",
               now |-> time, old |-> row[c].used + RefreshAge < time])
  /\ UNCHANGED <<row, sockets, round, time, failures, seen, behind, slipped>>

\* Mutant: the expiry is not moved with the last use.
KeepsExpiry(tokens, t) ==
  [c \in Clients |-> IF c \in tokens /\ Exists(c)
                     THEN [row[c] EXCEPT !.used = t] ELSE row[c]]

(* UpdateClientTokensLastUsedAndExpiresAt, one transaction over the rows that are there *)
UpdateClientTokens(tokens, t) ==
  [c \in Clients |-> IF c \in tokens /\ Exists(c)
                     THEN Row(row[c].life, t, row[c].elevated) ELSE row[c]]

RefreshLastUsed(k) ==
  LET c == Client(k)
      new == UpdateClientTokens({c}, call[k].now) IN
  /\ call[k].op = "stream" /\ call[k].at = "refresh"
  /\ row' = IF call[k].old THEN new ELSE row
  /\ behind' = IF ~call[k].old THEN behind
                ELSE IF Rewound(c, new[c]) THEN behind \cup {c}
                ELSE IF CatchesUp(c, call[k].now) THEN behind \ {c} ELSE behind
  /\ seen' = [seen EXCEPT ![c] = IF call[k].now > @ THEN call[k].now ELSE @]
  /\ Goes(k, "register")
  /\ UNCHANGED <<sockets, round, time, calls, failures, slipped>>

(* stream.API.Handle: upgrade and register.  The hub does not know whether *)
(* it was told meanwhile (see Stream.tla for its own steps).               *)
Register(k) ==
  LET c == Client(k) IN
  /\ call[k].op = "stream" /\ call[k].at = "register"
  /\ sockets' = sockets \cup {c}
  /\ slipped' = IF Exists(c) THEN slipped ELSE slipped \cup {c}
  /\ End(k)
  /\ UNCHANGED <<row, round, time, calls, failures, seen, behind>>

Disconnect(c) ==
  /\ c \in sockets
  /\ sockets' = sockets \ {c}
  /\ slipped' = slipped \ {c}
  /\ UNCHANGED <<row, call, round, time, calls, failures, seen, behind>>

-----------------------------------------------------------------------------
(* PUT /client/:id reads the row and saves all of it; gorm's Save inserts  *)
(* a row that is gone.                                                     *)
UpdateClient(k, c, life) ==
  /\ notExpired(c)
  /\ BeginCall(k, [op |-> "save", clients |-> {c}, new |-> Row(life, row[c].used, row[c].elevated)])
  /\ UNCHANGED <<row, sockets, round, time, failures, seen, behind, slipped>>

SaveClient(k) ==
  LET c == Client(k) IN
  /\ call[k].op = "save"
  /\ row' = [row EXCEPT ![c] = call[k].new]
  /\ behind' = IF ~Exists(c) \/ Rewound(c, call[k].new) THEN behind \cup {c} ELSE behind
  /\ End(k)
  /\ UNCHANGED <<sockets, round, time, calls, failures, seen, slipped>>

(* POST /client/:id/elevate writes one column *)
ElevateClient(k, c) ==
  /\ notExpired(c)
  /\ BeginCall(k, [op |-> "elevate", clients |-> {c}, until |-> time + ElevationTime])
  /\ UNCHANGED <<row, sockets, round, time, failures, seen, behind, slipped>>

UpdateClientElevatedUntil(k) ==
  LET c == Client(k) IN
  /\ call[k].op = "elevate"
  /\ row' = IF Exists(c) THEN [row EXCEPT ![c].elevated = call[k].until] ELSE row
  /\ End(k)
  /\ UNCHANGED <<sockets, round, time, calls, failures, seen, behind, slipped>>

(* checkClientElevated of the middleware before DeleteClient *)
checkClientElevated(c) == notExpired(c) /\ row[c].elevated > time

-----------------------------------------------------------------------------
(* The hub closes the connections of the clients it is told of *)
NotifyDeleted(clients) ==
  /\ sockets' = sockets \ clients
  /\ slipped' = slipped \ clients

(* DeleteClient (by an elevated client) and Logout: the hub first, ... *)
DeleteClient(k, c) ==
  /\ \E d \in Clients : checkClientElevated(d)
  /\ notExpired(c)
  /\ BeginCall(k, [op |-> "told", clients |-> {c}])
  /\ NotifyDeleted({c})
  /\ UNCHANGED <<row, round, time, failures, seen, behind>>

Logout(k, c) ==
  /\ notExpired(c)
  /\ BeginCall(k, [op |-> "told", clients |-> {c}])
  /\ NotifyDeleted({c})
  /\ UNCHANGED <<row, round, time, failures, seen, behind>>

(* ... and so the deletion of the user, whose rows go one by one *)
DeleteUserSessions(k) ==
  /\ BeginCall(k, [op |-> "told", clients |-> Clients])
  /\ NotifyDeleted(Clients)
  /\ UNCHANGED <<row, round, time, failures, seen, behind>>

Gone(clients) == [c \in Clients |-> IF c \in clients THEN NoClient ELSE row[c]]

(* The next of the clients, if there is one. *)
Remaining(k, c) ==
  call' = [call EXCEPT ![k] = IF @.clients = {c} THEN NoCall
                              ELSE [op |-> "told", clients |-> @.clients \ {c}]]

(* A connection registered between the two calls has slipped through. *)
DeleteClientByID(k) ==
  /\ call[k].op = "told"
  /\ \E c \in call[k].clients :
       /\ row' = Gone({c})
       /\ slipped' = slipped \cup (sockets \cap {c})
       /\ Remaining(k, c)
  /\ UNCHANGED <<sockets, round, time, calls, failures, seen, behind>>

(* The deletion of the user goes on after an error of one of its clients; *)
(* an error before them ends it.                                          *)
DeletionFails(k) ==
  /\ call[k].op = "told"
  /\ failures < MaxFailures
  /\ failures' = failures + 1
  /\ End(k) \/ \E c \in call[k].clients : Remaining(k, c)
  /\ UNCHANGED <<row, sockets, round, time, calls, seen, behind, slipped>>

(* RevokeSession of the administrator: the row first, then the hub *)
RevokeSession(k, c) ==
  /\ notExpired(c)
  /\ BeginCall(k, [op |-> "revoked", clients |-> {c}])
  /\ row' = Gone({c})
  /\ UNCHANGED <<sockets, round, time, failures, seen, behind, slipped>>

\* Mutant: the administrator's revocation leaves the connections open.
RevokesSilently(k) ==
  /\ call[k].op = "revoked"
  /\ End(k)
  /\ UNCHANGED <<row, sockets, round, time, calls, failures, seen, behind, slipped>>

NotifyRevoked(k) ==
  /\ call[k].op = "revoked"
  /\ NotifyDeleted(call[k].clients)
  /\ End(k)
  /\ UNCHANGED <<row, round, time, calls, failures, seen, behind>>

-----------------------------------------------------------------------------
(* The ticker: collect the connected tokens, ...                           *)
CollectConnectedClientTokens ==
  /\ round = NoRound
  /\ calls < MaxCalls
  /\ calls' = calls + 1
  /\ round' = [at |-> "update", now |-> time, tokens |-> sockets]
  /\ seen' = [c \in Clients |-> IF c \in sockets THEN time ELSE seen[c]]
  /\ UNCHANGED <<row, sockets, call, time, failures, behind, slipped>>

(* ... refresh them (an error is only logged), ...                         *)
UpdateConnected ==
  LET new == UpdateClientTokens(round.tokens, round.now) IN
  /\ round.at = "update"
  /\ row' = new
  /\ behind' = (behind \ {c \in round.tokens : CatchesUp(c, round.now)})
               \cup {c \in round.tokens : Rewound(c, new[c])}
  /\ round' = [round EXCEPT !.at = "find"]
  /\ UNCHANGED <<sockets, call, time, calls, failures, seen, slipped>>

UpdateConnectedFails ==
  /\ round.at = "update"
  /\ failures < MaxFailures
  /\ failures' = failures + 1
  /\ behind' = behind \cup round.tokens
  /\ round' = [round EXCEPT !.at = "find"]
  /\ UNCHANGED <<row, sockets, call, time, calls, seen, slipped>>

(* ... find the expired rows, delete them by id, ...                       *)
Expired(now) == {c \in Clients : Exists(c) /\ row[c].expires # 0 /\ row[c].expires <= now}

FindExpired ==
  /\ round.at = "find"
  /\ round' = [at |-> "delete", now |-> round.now, expired |-> Expired(round.now), rows |-> row]
  /\ UNCHANGED <<row, sockets, call, time, calls, failures, seen, behind, slipped>>

(* (the deletion fails: nothing is notified) *)
DeleteExpired ==
  /\ round.at = "delete"
  /\ \/ /\ row' = Gone(round.expired)
        /\ round' = [at |-> "notify", left |-> round.expired]
        /\ UNCHANGED failures
     \/ /\ failures < MaxFailures
        /\ failures' = failures + 1
        /\ round' = NoRound
        /\ UNCHANGED row
  /\ UNCHANGED <<sockets, call, time, calls, seen, behind, slipped>>

(* ... and tell the hub of each                                            *)
NotifyExpired(c) ==
  /\ round.at = "notify" /\ c \in round.left
  /\ NotifyDeleted({c})
  /\ round' = [round EXCEPT !.left = @ \ {c}]
  /\ UNCHANGED <<row, call, time, calls, failures, seen, behind>>

EndRound ==
  /\ round.at = "notify" /\ round.left = {}
  /\ round' = NoRound
  /\ UNCHANGED <<row, sockets, call, time, calls, failures, seen, behind, slipped>>

TimePasses ==
  /\ time < MaxTime
  /\ time' = time + 1
  /\ UNCHANGED <<row, sockets, call, round, calls, failures, seen, behind, slipped>>

(* The process stops: connections, requests and the round are gone. *)
RestartServer ==
  /\ failures < MaxFailures
  /\ failures' = failures + 1
  /\ sockets' = {} /\ slipped' = {}
  /\ call' = [k \in Calls |-> NoCall]
  /\ round' = NoRound
  /\ behind' = IF round.at = "update" THEN behind \cup round.tokens ELSE behind
  /\ UNCHANGED <<row, time, calls, seen>>

SessionNext ==
  \/ \E c \in Clients, life \in Lifetimes : CreateClient(c, life) \/ Login(c, life)
  \/ \E k \in Calls, c \in Clients :
       \/ handleClient(k, c) \/ ElevateClient(k, c)
       \/ DeleteClient(k, c) \/ Logout(k, c) \/ RevokeSession(k, c)
       \/ \E life \in Lifetimes : UpdateClient(k, c, life)
  \/ \E k \in Calls :
       \/ RefreshLastUsed(k) \/ Register(k) \/ SaveClient(k) \/ UpdateClientElevatedUntil(k)
       \/ DeleteUserSessions(k) \/ DeleteClientByID(k) \/ DeletionFails(k) \/ NotifyRevoked(k)
  \/ \E c \in Clients : Disconnect(c) \/ NotifyExpired(c)
  \/ CollectConnectedClientTokens \/ UpdateConnected \/ UpdateConnectedFails
  \/ FindExpired \/ DeleteExpired \/ EndRound
  \/ TimePasses \/ RestartServer

SessionSpec == SessionInit /\ [][SessionNext]_sessionVars

-----------------------------------------------------------------------------
(* Whoever removes a client (logout, deletion, revocation, the deletion of *)
(* the user, the ticker's cleanup) also closes its WebSocket connections:  *)
(* an open connection belongs to a client that exists, unless its closing  *)
(* is still to come or it registered while the client was being removed.   *)
NoLooseSocket ==
  \A c \in sockets :
    \/ Exists(c)
    \/ c \in slipped
    \/ \E k \in Calls : call[k].op = "revoked" /\ c \in call[k].clients
    \/ round.at = "notify" /\ c \in round.left

(* CleanupExpiredClients only removes clients that were idle for their     *)
(* lifetime, less the age from which a use is written down: not one that   *)
(* is connected or served requests (unless a refresh failed, last_used was *)
(* set back by a whole-row save or a late round, or the row was written    *)
(* between the cleanup's query and its deletion).                          *)
OnlyIdleRemoved ==
  round.at = "delete" =>
    \A c \in round.expired :
      \/ round.now - seen[c] >= round.rows[c].life - RefreshAge
      \/ c \in behind
      \/ row[c] # round.rows[c]
=============================================================================
