------------------------------- MODULE SignIn -------------------------------
(***************************************************************************)
(* The pending OIDC sign-ins (api/oidc.go) and the DecayMap that keeps     *)
(* them (decaymap/decaymap.go): two maps, one per generation of Period;    *)
(* an insert into a new generation empties the map it reuses.              *)
(*                                                                         *)
(* LoginHandler, ElevateHandler and ExternalAuthorizeHandler take the time *)
(* and then wait for the lock of the map; the callback and the external    *)
(* token request pop the state.  Answers of the provider arrive late,      *)
(* twice or never.  Which account a sign-in ends in is in Users.tla.       *)
(***************************************************************************)
EXTENDS Integers, FiniteSets

CONSTANTS States, Answers, Period,
          MaxClock,   \* bound: the clock
          MaxAnswers  \* bound: answers of the provider that arrive

ASSUME SignInAssumption ==
  /\ IsFiniteSet(States)
  /\ Period \in Nat \ {0}
  /\ {MaxClock, MaxAnswers} \subseteq Nat

VARIABLES
  maps,        \* DecayMap.maps: the states in the map of each parity
  generation, lastInsert,
  session,     \* the value of a state: its kind and the time it was created
  answer,      \* the provider's answers that are being handled
  clock, answers,
  accepted,    \* history: states inserted, not dropped as out of order
  taken,       \* history: states an answer has taken from the map
  redeemed     \* history: how often a state opened or elevated a session

signInVars == <<maps, generation, lastInsert, session, answer, clock, answers, accepted, taken, redeemed>>

Kinds == {"login", "elevate", "external"}
NoSession == [kind |-> "none"]
NoAnswer == [at |-> "none"]

SignInInit ==
  /\ maps = [g \in 0..1 |-> {}]
  /\ generation = 0 /\ lastInsert = 0
  /\ session = [s \in States |-> NoSession]
  /\ answer = [x \in Answers |-> NoAnswer]
  /\ clock = 0 /\ answers = 0
  /\ accepted = {} /\ taken = {}
  /\ redeemed = [s \in States |-> 0]

-----------------------------------------------------------------------------
(* LoginHandler, ElevateHandler and ExternalAuthorizeHandler: a fresh      *)
(* state, and time.Now() evaluated before Set takes the lock               *)
StartSignIn(s, kind) ==
  /\ session[s] = NoSession
  /\ session' = [session EXCEPT ![s] = [kind |-> kind, created |-> clock, at |-> "set"]]
  /\ UNCHANGED <<maps, generation, lastInsert, answer, clock, answers, accepted, taken, redeemed>>

\* Mutant: the map of the other generation is emptied.
ClearsOther(gen) ==
  CASE gen - generation >= 2 -> [g \in 0..1 |-> {}]
    [] gen - generation = 1 -> [maps EXCEPT ![(gen + 1) % 2] = {}]
    [] OTHER -> maps

(* The maps an insert of generation gen starts from *)
Cleared(gen) ==
  CASE gen - generation >= 2 -> [g \in 0..1 |-> {}]
    [] gen - generation = 1 -> [maps EXCEPT ![gen % 2] = {}]
    [] OTHER -> maps

Set(s) ==
  LET now == session[s].created
      gen == now \div Period IN
  /\ session[s].kind # "none" /\ session[s].at = "set"
  /\ session' = [session EXCEPT ![s].at = "sent"]
  /\ IF now < lastInsert
     THEN UNCHANGED <<maps, generation, lastInsert, accepted>>
     ELSE /\ lastInsert' = now
          /\ generation' = IF gen - generation >= 1 THEN gen ELSE generation
          /\ maps' = [Cleared(gen) EXCEPT ![gen % 2] = @ \cup {s},
                                          ![1 - (gen % 2)] = @ \ {s}]
          /\ accepted' = accepted \cup {s}
  /\ UNCHANGED <<answer, clock, answers, taken, redeemed>>

-----------------------------------------------------------------------------
Stored(s) == s \in maps[0] \cup maps[1]

(* DecayMap.Pop: the first map that has the key loses it *)
Pop(s) ==
  IF s \in maps[0] THEN [maps EXCEPT ![0] = @ \ {s}]
                   ELSE [maps EXCEPT ![1] = @ \ {s}]

(* popPendingSession: known, and younger than the period *)
Usable(s) == Stored(s) /\ clock - session[s].created < Period

ProviderAnswers(x, s, how) ==
  /\ answer[x] = NoAnswer
  /\ answers < MaxAnswers
  /\ session[s].kind # "none" /\ session[s].at = "sent"
  /\ answers' = answers + 1
  /\ answer' = [answer EXCEPT ![x] = [at |-> how, state |-> s]]
  /\ UNCHANGED <<maps, generation, lastInsert, session, clock, accepted, taken, redeemed>>

(* CallbackHandler resolves the user first (which may register or change   *)
(* an account) and ends there when that fails, ...                         *)
ResolveFirst(x) ==
  /\ answer[x].at = "callback"
  /\ answer' = [answer EXCEPT ![x].at = "pop"]
  /\ UNCHANGED <<maps, generation, lastInsert, session, clock, answers, accepted, taken, redeemed>>

(* ... then pops the state *)
PopCallback(x) ==
  LET s == answer[x].state IN
  /\ answer[x].at = "pop"
  /\ maps' = Pop(s)
  /\ answer' = [answer EXCEPT ![x] =
       IF ~Usable(s) THEN NoAnswer
       ELSE [@ EXCEPT !.at = IF session[s].kind = "elevate" THEN "elevate" ELSE "create"]]
  /\ taken' = IF Stored(s) THEN taken \cup {s} ELSE taken
  /\ UNCHANGED <<generation, lastInsert, session, clock, answers, accepted, redeemed>>

(* ExternalTokenHandler pops the state before the code is exchanged *)
PopExternal(x) ==
  LET s == answer[x].state IN
  /\ answer[x].at = "token"
  /\ maps' = Pop(s)
  /\ answer' = [answer EXCEPT ![x] = IF Usable(s) THEN [@ EXCEPT !.at = "exchange"] ELSE NoAnswer]
  /\ taken' = IF Stored(s) THEN taken \cup {s} ELSE taken
  /\ UNCHANGED <<generation, lastInsert, session, clock, answers, accepted, redeemed>>

ExchangeAndResolve(x) ==
  /\ answer[x].at = "exchange"
  /\ answer' = [answer EXCEPT ![x].at = "create"]
  /\ UNCHANGED <<maps, generation, lastInsert, session, clock, answers, accepted, taken, redeemed>>

(* The exchange, the provider or resolveUser refuses: no session *)
Refused(x) ==
  /\ answer[x].at \in {"callback", "exchange", "create", "elevate"}
  /\ answer' = [answer EXCEPT ![x] = NoAnswer]
  /\ UNCHANGED <<maps, generation, lastInsert, session, clock, answers, accepted, taken, redeemed>>

(* createClient *)
OpenSession(x) ==
  /\ answer[x].at = "create"
  /\ redeemed' = [redeemed EXCEPT ![answer[x].state] = @ + 1]
  /\ answer' = [answer EXCEPT ![x] = NoAnswer]
  /\ UNCHANGED <<maps, generation, lastInsert, session, clock, answers, accepted, taken>>

(* handleElevationCallback: the client exists and is the user's *)
handleElevationCallback(x) ==
  /\ answer[x].at = "elevate"
  /\ redeemed' = [redeemed EXCEPT ![answer[x].state] = @ + 1]
  /\ answer' = [answer EXCEPT ![x] = NoAnswer]
  /\ UNCHANGED <<maps, generation, lastInsert, session, clock, answers, accepted, taken>>

ClockTicks ==
  /\ clock < MaxClock
  /\ clock' = clock + 1
  /\ UNCHANGED <<maps, generation, lastInsert, session, answer, answers, accepted, taken, redeemed>>

SignInNext ==
  \/ \E s \in States : Set(s) \/ \E kind \in Kinds : StartSignIn(s, kind)
  \/ \E x \in Answers :
       \/ ResolveFirst(x) \/ PopCallback(x) \/ PopExternal(x) \/ ExchangeAndResolve(x)
       \/ Refused(x) \/ OpenSession(x) \/ handleElevationCallback(x)
       \/ \E s \in States, how \in {"callback", "token"} : ProviderAnswers(x, s, how)
  \/ ClockTicks

SignInSpec == SignInInit /\ [][SignInNext]_signInVars

-----------------------------------------------------------------------------
(* DecayMap holds what it accepted for a whole period and no entry for     *)
(* more than two: a state that was inserted and that no answer has taken   *)
(* can be popped until it is a period old, whatever was inserted after it  *)
(* and whichever generations were skipped; and no entry is two periods     *)
(* older than the last insert.                                             *)
PendingWindow ==
  /\ \A s \in accepted :
       \/ clock - session[s].created >= Period
       \/ Stored(s)
       \/ s \in taken
  /\ \A s \in States : Stored(s) => lastInsert - session[s].created < 2 * Period

(* A state opens or elevates one session, however often and along which    *)
(* way the provider's answer arrives.                                      *)
RedeemedOnce ==
  \A s \in States :
    redeemed[s] + Cardinality({x \in Answers : answer[x].at \in {"create", "elevate", "exchange"}
                                               /\ answer[x].state = s}) <= 1

(* The pending sign-ins between the request and the answers (api/oidc.go,  *)
(* decaymap/decaymap.go).                                                  *)
PendingSound == PendingWindow /\ RedeemedOnce
=============================================================================
