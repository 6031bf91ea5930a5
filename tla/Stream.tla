------------------------------- MODULE Stream -------------------------------
(***************************************************************************)
(* The WebSocket hub of api/stream: connection handlers that register a    *)
(* client, one reading and one writing goroutine per client, callers of    *)
(* Notify / NotifyMUEvent, and callers of NotifyDeletedUser,               *)
(* NotifyDeletedClient and Close.  They share the registry, its RWMutex,   *)
(* and, per client, the once flag, the socket, the closed channel and the  *)
(* bounded write channel.                                                  *)
(*                                                                         *)
(* A client of kind "message" is the code's client (write channel of one   *)
(* slot, Notify blocks on it); one of kind "event" is its muEventClient    *)
(* (EventCap slots, NotifyMUEvent drops when they are full).               *)
(***************************************************************************)
EXTENDS Naturals, Sequences, Functions

CONSTANTS
    Conns,      \* connection attempts; each is at most one client
    Users,
    Tokens,
    UserOf,     \* the authenticated user of a connection
    TokenOf,    \* the client token it was authenticated with
    KindOf,     \* "message" (GET /stream) or "event" (GET /api/mu/v1/events)
    Notifiers,  \* goroutines that call Notify or NotifyMUEvent
    Closers,    \* goroutines that call NotifyDeletedUser/Client or Close
    EventCap,   \* slots of an event client's write channel (8 in the code)
    MaxNotifies, \* bound: calls of Notify or NotifyMUEvent by one notifier
    MaxDeletions \* bound: calls one closer makes

ASSUME StreamAssumption ==
    /\ UserOf \in [Conns -> Users]
    /\ TokenOf \in [Conns -> Tokens]
    /\ KindOf \in [Conns -> {"message", "event"}]
    /\ EventCap \in Nat \ {0}
    /\ MaxNotifies \in Nat
    /\ MaxDeletions \in Nat

VARIABLES
    registered, \* API.clients and API.muClients: the clients in the maps
    announced,  \* the caller of lock.Lock() that excludes new readers
    rlocked,    \* the notifiers that hold lock.RLock()
    done,       \* once.done of each client
    connOpen,   \* the server side of each client's socket
    closed,     \* each client's closed channel has been closed
    buf,        \* each client's write channel
    inflight,   \* the message a writing goroutine has taken and not written
    hpc,        \* handler of each connection
    gpc,        \* reading and writing goroutine of each client
    npc, ncall, ntodo, ncount,        \* notifiers
    kpc, kcall, ktodo, kcur, kcount,  \* closers
    got,        \* history: what the peer of each client was sent, in order
    owed,       \* history: <<client, message>> a Notify call had to deliver
    apiClosed   \* history: a call of Close has returned

lockVars   == <<announced, rlocked>>
clientVars == <<done, connOpen, closed>>
dataVars   == <<buf, inflight, got>>
nVars      == <<npc, ncall, ntodo, ncount, owed>>
kVars      == <<kpc, kcall, ktodo, kcur, kcount, apiClosed>>
vars == <<registered, lockVars, clientVars, dataVars, hpc, gpc, nVars, kVars>>

(***************************************************************************)
(* Identities of the goroutines that take the write lock.                  *)
(***************************************************************************)
None       == <<"none">>
Handler(c) == <<"handler", c>>
Roles      == {"reader", "writer"}  \* goroutine <<r, c>> of client c
Closer(k)  == <<"closer", k>>
LockProcs  == ({"handler"} \cup Roles) \X Conns \cup {"closer"} \X Closers

\* Locals of a goroutine that is not in the call or the loop they belong to.
NoCall == [op |-> "none", kind |-> "none"]
NoConn == "none"

Cap(c) == IF KindOf[c] = "message" THEN 1 ELSE EventCap

Calls == [kind : {"message", "event"}, user : Users]

\* A message is named by the notifier that sends it and its call number.
Messages == [by : Notifiers, n : 1..MaxNotifies]
NoMessage == [by |-> "none", n |-> 0]

\* What NotifyDeletedUser, NotifyDeletedClient and Close select.
Targets == [op : {"user"}, user : Users]
             \cup [op : {"client"}, user : Users, token : Tokens]
             \cup {[op |-> "all"]}

Matches(t, c) ==
    \/ t.op = "all"
    \/ t.op = "user" /\ UserOf[c] = t.user
    \/ t.op = "client" /\ UserOf[c] = t.user /\ TokenOf[c] = t.token

-----------------------------------------------------------------------------
Init ==
    /\ registered = {}
    /\ announced = None
    /\ rlocked = {}
    /\ done = [c \in Conns |-> FALSE]
    /\ connOpen = [c \in Conns |-> FALSE]
    /\ closed = [c \in Conns |-> FALSE]
    /\ buf = [c \in Conns |-> <<>>]
    /\ inflight = [c \in Conns |-> NoMessage]
    /\ got = [c \in Conns |-> <<>>]
    /\ hpc = [c \in Conns |-> "idle"]
    /\ gpc = [r \in Roles |-> [c \in Conns |-> "off"]]
    /\ npc = [n \in Notifiers |-> "idle"]
    /\ ncall = [n \in Notifiers |-> NoCall]
    /\ ntodo = [n \in Notifiers |-> {}]
    /\ ncount = [n \in Notifiers |-> 0]
    /\ owed = {}
    /\ kpc = [k \in Closers |-> "idle"]
    /\ kcall = [k \in Closers |-> NoCall]
    /\ ktodo = [k \in Closers |-> {}]
    /\ kcur = [k \in Closers |-> NoConn]
    /\ kcount = [k \in Closers |-> 0]
    /\ apiClosed = FALSE

(***************************************************************************)
(* sync.RWMutex: Lock() first excludes other writers and new readers, then *)
(* waits for the readers that are inside; RLock() waits while a writer has *)
(* announced itself.                                                       *)
(***************************************************************************)
WantsLock(p) ==
    \/ \E c \in Conns : p = Handler(c) /\ hpc[c] = "lock"
    \/ \E r \in Roles, c \in Conns : p = <<r, c>> /\ gpc[r][c] = "lock"
    \/ \E k \in Closers : p = Closer(k) /\ kpc[k] = "lock"

Announce(p) ==
    /\ announced = None
    /\ WantsLock(p)
    /\ announced' = p
    /\ UNCHANGED <<registered, rlocked, clientVars, dataVars, hpc, gpc, nVars, kVars>>

HasLock(p) == announced = p /\ rlocked = {}

(***************************************************************************)
(* Handle and HandleMUEvents: upgrade, register under the lock, then start *)
(* the two goroutines.                                                     *)
(***************************************************************************)
Upgrade(c) ==
    /\ hpc[c] = "idle"
    /\ hpc' = [hpc EXCEPT ![c] = "lock"]
    /\ connOpen' = [connOpen EXCEPT ![c] = TRUE]
    /\ UNCHANGED <<registered, lockVars, done, closed, dataVars, gpc, nVars, kVars>>

register(c) ==
    /\ hpc[c] = "lock"
    /\ HasLock(Handler(c))
    /\ registered' = registered \cup {c}
    /\ announced' = None
    /\ hpc' = [hpc EXCEPT ![c] = "done"]
    /\ gpc' = [gpc EXCEPT !["reader"][c] = "read", !["writer"][c] = "select"]
    /\ UNCHANGED <<rlocked, clientVars, dataVars, nVars, kVars>>

(***************************************************************************)
(* once.Do returns at once when the flag is already set, whether or not    *)
(* the function it guards has finished; otherwise it sets the flag and     *)
(* runs the function.                                                      *)
(***************************************************************************)
OnceReturns(c) == done[c] /\ UNCHANGED done

\* Mutant: mayExecute without its second look at the flag.
OnceRunsUnchecked(c) == done' = [done EXCEPT ![c] = TRUE]

OnceRuns(c) == ~done[c] /\ done' = [done EXCEPT ![c] = TRUE]

Goto(r, c, l) == gpc' = [gpc EXCEPT ![r][c] = l]

(***************************************************************************)
(* The reading goroutine: NextReader fails when the socket is closed by    *)
(* this side, and at any time because of the peer or of the pong timeout.  *)
(***************************************************************************)
ReadError(c) ==
    /\ gpc["reader"][c] = "read"
    /\ Goto("reader", c, "once")
    /\ UNCHANGED <<registered, lockVars, clientVars, dataVars, hpc, nVars, kVars>>

(***************************************************************************)
(* The writing goroutine: a select over closed, write and the ping ticker; *)
(* every write ends, with an error, at the latest at its deadline.         *)
(***************************************************************************)
SelectClosed(c) ==
    /\ gpc["writer"][c] = "select"
    /\ closed[c]
    /\ Goto("writer", c, "once")
    /\ UNCHANGED <<registered, lockVars, clientVars, dataVars, hpc, nVars, kVars>>

SelectMessage(c) ==
    /\ gpc["writer"][c] = "select"
    /\ buf[c] # <<>>
    /\ inflight' = [inflight EXCEPT ![c] = Head(buf[c])]
    /\ buf' = [buf EXCEPT ![c] = Tail(buf[c])]
    /\ Goto("writer", c, "write")
    /\ UNCHANGED <<registered, lockVars, clientVars, got, hpc, nVars, kVars>>

PingError(c) ==
    /\ gpc["writer"][c] = "select"
    /\ Goto("writer", c, "once")
    /\ UNCHANGED <<registered, lockVars, clientVars, dataVars, hpc, nVars, kVars>>

WriteOK(c) ==
    /\ gpc["writer"][c] = "write"
    /\ connOpen[c]
    /\ got' = [got EXCEPT ![c] = Append(got[c], inflight[c])]
    /\ inflight' = [inflight EXCEPT ![c] = NoMessage]
    /\ Goto("writer", c, "select")
    /\ UNCHANGED <<registered, lockVars, clientVars, buf, hpc, nVars, kVars>>

\* Mutant: the writing goroutine goes on after a failed write.
WriteErrorIgnored(c) ==
    /\ gpc["writer"][c] = "write"
    /\ Goto("writer", c, "select")
    /\ UNCHANGED <<registered, lockVars, clientVars, dataVars, hpc, nVars, kVars>>

WriteError(c) ==
    /\ gpc["writer"][c] = "write"
    /\ Goto("writer", c, "once")
    /\ UNCHANGED <<registered, lockVars, clientVars, dataVars, hpc, nVars, kVars>>

(***************************************************************************)
(* NotifyClose, deferred by both goroutines: once { conn.Close();          *)
(* close(closed); onClose(c) }, where onClose is remove / removeMU.        *)
(***************************************************************************)
NotifyCloseAgain(r, c) ==
    /\ gpc[r][c] = "once"
    /\ OnceReturns(c)
    /\ Goto(r, c, "done")
    /\ UNCHANGED <<registered, lockVars, connOpen, closed, dataVars, hpc, nVars, kVars>>

NotifyClose(r, c) ==
    /\ gpc[r][c] = "once"
    /\ OnceRuns(c)
    /\ Goto(r, c, "closeConn")
    /\ UNCHANGED <<registered, lockVars, connOpen, closed, dataVars, hpc, nVars, kVars>>

CloseConn(r, c) ==
    /\ gpc[r][c] = "closeConn"
    /\ connOpen' = [connOpen EXCEPT ![c] = FALSE]
    /\ Goto(r, c, "closeChan")
    /\ UNCHANGED <<registered, lockVars, done, closed, dataVars, hpc, nVars, kVars>>

\* Mutant: NotifyClose without close(c.closed).
CloseChanForgotten(r, c) ==
    /\ gpc[r][c] = "closeChan"
    /\ Goto(r, c, "lock")
    /\ UNCHANGED <<registered, lockVars, clientVars, dataVars, hpc, nVars, kVars>>

CloseChan(r, c) ==
    /\ gpc[r][c] = "closeChan"
    /\ closed' = [closed EXCEPT ![c] = TRUE]
    /\ Goto(r, c, "lock")
    /\ UNCHANGED <<registered, lockVars, done, connOpen, dataVars, hpc, nVars, kVars>>

remove(r, c) ==
    /\ gpc[r][c] = "lock"
    /\ HasLock(<<r, c>>)
    /\ registered' = registered \ {c}
    /\ announced' = None
    /\ Goto(r, c, "done")
    /\ UNCHANGED <<rlocked, clientVars, dataVars, hpc, nVars, kVars>>

(***************************************************************************)
(* Notify and NotifyMUEvent: hold the read lock while every client of the  *)
(* user is offered the message.  Notify waits for a slot or for the closed *)
(* channel; NotifyMUEvent drops the event instead of waiting.              *)
(***************************************************************************)
Msg(n) == [by |-> n, n |-> ncount[n]]

NotifyCall(n, call) ==
    /\ npc[n] = "idle"
    /\ ncount[n] < MaxNotifies
    /\ npc' = [npc EXCEPT ![n] = "rlock"]
    /\ ncall' = [ncall EXCEPT ![n] = call]
    /\ ncount' = [ncount EXCEPT ![n] = @ + 1]
    /\ UNCHANGED <<registered, lockVars, clientVars, dataVars, hpc, gpc, ntodo, owed, kVars>>

ClientsOf(call) ==
    {c \in registered : UserOf[c] = call.user /\ KindOf[c] = call.kind}

RLock(n) ==
    /\ npc[n] = "rlock"
    /\ announced = None
    /\ rlocked' = rlocked \cup {n}
    /\ npc' = [npc EXCEPT ![n] = "send"]
    /\ ntodo' = [ntodo EXCEPT ![n] = ClientsOf(ncall[n])]
    /\ owed' = IF ncall[n].kind = "message"
               THEN owed \cup {<<c, Msg(n)>> : c \in ClientsOf(ncall[n])}
               ELSE owed
    /\ UNCHANGED <<registered, announced, clientVars, dataVars, hpc, gpc, ncall, ncount, kVars>>

\* case c.write <- msg
Send(n, c) ==
    /\ Len(buf[c]) < Cap(c)
    /\ buf' = [buf EXCEPT ![c] = Append(buf[c], Msg(n))]

\* case <-c.closed
SkipClosed(c) == closed[c] /\ UNCHANGED buf

\* default, in NotifyMUEvent only
DropEvent(c) ==
    /\ KindOf[c] = "event"
    /\ Len(buf[c]) = Cap(c)
    /\ ~closed[c]
    /\ UNCHANGED buf

Offer(n, c) ==
    /\ npc[n] = "send"
    /\ c \in ntodo[n]
    /\ Send(n, c) \/ SkipClosed(c) \/ DropEvent(c)
    /\ ntodo' = [ntodo EXCEPT ![n] = @ \ {c}]
    /\ UNCHANGED <<registered, lockVars, clientVars, inflight, got, hpc, gpc,
                   npc, ncall, ncount, owed, kVars>>

RUnlock(n) ==
    /\ npc[n] = "send"
    /\ ntodo[n] = {}
    /\ rlocked' = rlocked \ {n}
    /\ npc' = [npc EXCEPT ![n] = "idle"]
    /\ ncall' = [ncall EXCEPT ![n] = NoCall]
    /\ UNCHANGED <<registered, announced, clientVars, dataVars, hpc, gpc,
                   ntodo, ncount, owed, kVars>>

(***************************************************************************)
(* NotifyDeletedUser, NotifyDeletedClient and Close: under the write lock, *)
(* Close() every selected client and take it out of the registry.          *)
(***************************************************************************)
CloserCall(k, t) ==
    /\ kpc[k] = "idle"
    /\ kcount[k] < MaxDeletions
    /\ kpc' = [kpc EXCEPT ![k] = "lock"]
    /\ kcall' = [kcall EXCEPT ![k] = t]
    /\ kcount' = [kcount EXCEPT ![k] = @ + 1]
    /\ UNCHANGED <<registered, lockVars, clientVars, dataVars, hpc, gpc, nVars,
                   ktodo, kcur, apiClosed>>

CloserEnter(k) ==
    /\ kpc[k] = "lock"
    /\ HasLock(Closer(k))
    /\ kpc' = [kpc EXCEPT ![k] = "close"]
    /\ ktodo' = [ktodo EXCEPT ![k] = {c \in registered : Matches(kcall[k], c)}]
    /\ UNCHANGED <<registered, lockVars, clientVars, dataVars, hpc, gpc, nVars,
                   kcall, kcur, kcount, apiClosed>>

\* client.Close(): once { conn.Close(); close(closed) }
CloserSkip(k, c) ==
    /\ kpc[k] = "close"
    /\ c \in ktodo[k]
    /\ ktodo' = [ktodo EXCEPT ![k] = @ \ {c}]
    /\ OnceReturns(c)
    /\ UNCHANGED <<registered, lockVars, connOpen, closed, dataVars, hpc, gpc, nVars,
                   kpc, kcall, kcur, kcount, apiClosed>>

CloserClose(k, c) ==
    /\ kpc[k] = "close"
    /\ c \in ktodo[k]
    /\ ktodo' = [ktodo EXCEPT ![k] = @ \ {c}]
    /\ OnceRuns(c)
    /\ kcur' = [kcur EXCEPT ![k] = c]
    /\ kpc' = [kpc EXCEPT ![k] = "closeConn"]
    /\ UNCHANGED <<registered, lockVars, connOpen, closed, dataVars, hpc, gpc, nVars,
                   kcall, kcount, apiClosed>>

CloserCloseConn(k) ==
    /\ kpc[k] = "closeConn"
    /\ connOpen' = [connOpen EXCEPT ![kcur[k]] = FALSE]
    /\ kpc' = [kpc EXCEPT ![k] = "closeChan"]
    /\ UNCHANGED <<registered, lockVars, done, closed, dataVars, hpc, gpc, nVars,
                   kcall, ktodo, kcur, kcount, apiClosed>>

CloserCloseChan(k) ==
    /\ kpc[k] = "closeChan"
    /\ closed' = [closed EXCEPT ![kcur[k]] = TRUE]
    /\ kpc' = [kpc EXCEPT ![k] = "close"]
    /\ kcur' = [kcur EXCEPT ![k] = NoConn]
    /\ UNCHANGED <<registered, lockVars, done, connOpen, dataVars, hpc, gpc, nVars,
                   kcall, ktodo, kcount, apiClosed>>

\* Mutant: clients are closed but stay in the maps.
CloserLeaveKeeps(k) ==
    /\ kpc[k] = "close"
    /\ ktodo[k] = {}
    /\ announced' = None
    /\ kpc' = [kpc EXCEPT ![k] = "idle"]
    /\ apiClosed' = (apiClosed \/ kcall[k].op = "all")
    /\ kcall' = [kcall EXCEPT ![k] = NoCall]
    /\ UNCHANGED <<registered, rlocked, clientVars, dataVars, hpc, gpc, nVars,
                   ktodo, kcur, kcount>>

CloserLeave(k) ==
    /\ kpc[k] = "close"
    /\ ktodo[k] = {}
    /\ registered' = {c \in registered : ~Matches(kcall[k], c)}
    /\ announced' = None
    /\ kpc' = [kpc EXCEPT ![k] = "idle"]
    /\ apiClosed' = (apiClosed \/ kcall[k].op = "all")
    /\ kcall' = [kcall EXCEPT ![k] = NoCall]
    /\ UNCHANGED <<rlocked, clientVars, dataVars, hpc, gpc, nVars,
                   ktodo, kcur, kcount>>

-----------------------------------------------------------------------------
HandlerNext(c) == Upgrade(c) \/ register(c)

ReaderNext(c) == ReadError(c)

WriterNext(c) ==
    SelectClosed(c) \/ SelectMessage(c) \/ PingError(c) \/ WriteOK(c) \/ WriteError(c)

ClosingNext(r, c) ==
    \/ NotifyCloseAgain(r, c)
    \/ NotifyClose(r, c)
    \/ CloseConn(r, c)
    \/ CloseChan(r, c)
    \/ remove(r, c)

NotifierNext(n) ==
    \/ \E call \in Calls : NotifyCall(n, call)
    \/ RLock(n)
    \/ \E c \in Conns : Offer(n, c)
    \/ RUnlock(n)

CloserNext(k) ==
    \/ \E t \in Targets : CloserCall(k, t)
    \/ CloserEnter(k)
    \/ \E c \in Conns : CloserSkip(k, c) \/ CloserClose(k, c)
    \/ CloserCloseConn(k)
    \/ CloserCloseChan(k)
    \/ CloserLeave(k)

Next ==
    \/ \E p \in LockProcs : Announce(p)
    \/ \E c \in Conns : HandlerNext(c) \/ ReaderNext(c) \/ WriterNext(c)
    \/ \E r \in Roles, c \in Conns : ClosingNext(r, c)
    \/ \E n \in Notifiers : NotifierNext(n)
    \/ \E k \in Closers : CloserNext(k)

Spec == Init /\ [][Next]_vars

(***************************************************************************)
(* Fairness.  A goroutine that can run does run (weak fairness); whoever   *)
(* waits for the RWMutex gets it although it is taken and released in      *)
(* between (strong fairness: the runtime's mutex hands over to starving    *)
(* waiters, and an Unlock admits the readers that were waiting).  Nothing  *)
(* is assumed about the peer: a read need not fail while the socket is     *)
(* open, a ping need not fail, and nobody has to call anything.            *)
(***************************************************************************)
Fairness ==
    /\ \A p \in LockProcs : SF_vars(Announce(p))
    /\ \A c \in Conns :
         /\ WF_vars(register(c))
         /\ WF_vars(ReadError(c) /\ ~connOpen[c])
         /\ WF_vars(SelectClosed(c) \/ SelectMessage(c))
         /\ WF_vars(WriteOK(c) \/ WriteError(c))
         /\ \A r \in Roles : WF_vars(ClosingNext(r, c))
    /\ \A n \in Notifiers :
         /\ SF_vars(RLock(n))
         /\ WF_vars((\E c \in Conns : Offer(n, c)) \/ RUnlock(n))
    /\ \A k \in Closers :
         WF_vars(CloserEnter(k)
                   \/ (\E c \in Conns : CloserSkip(k, c) \/ CloserClose(k, c))
                   \/ CloserCloseConn(k) \/ CloserCloseChan(k) \/ CloserLeave(k))

FairSpec == Spec /\ Fairness

-----------------------------------------------------------------------------
GPcs == {"off", "read", "select", "write", "once", "closeConn", "closeChan", "lock", "done"}
KPcs == {"idle", "lock", "close", "closeConn", "closeChan"}

\* The state of the hub has the shape of the API and client structs.
TypeOK ==
    /\ registered \subseteq Conns
    /\ announced \in LockProcs \cup {None}
    /\ rlocked \subseteq Notifiers
    /\ done \in [Conns -> BOOLEAN]
    /\ connOpen \in [Conns -> BOOLEAN]
    /\ closed \in [Conns -> BOOLEAN]
    /\ buf \in [Conns -> Seq(Messages)]
    /\ inflight \in [Conns -> Messages \cup {NoMessage}]
    /\ got \in [Conns -> Seq(Messages)]
    /\ hpc \in [Conns -> {"idle", "lock", "done"}]
    /\ gpc \in [Roles -> [Conns -> GPcs]]
    /\ npc \in [Notifiers -> {"idle", "rlock", "send"}]
    /\ ncall \in [Notifiers -> Calls \cup {NoCall}]
    /\ ntodo \in [Notifiers -> SUBSET Conns]
    /\ ncount \in [Notifiers -> 0..MaxNotifies]
    /\ owed \subseteq Conns \X Messages
    /\ kpc \in [Closers -> KPcs]
    /\ kcall \in [Closers -> Targets \cup {NoCall}]
    /\ ktodo \in [Closers -> SUBSET Conns]
    /\ kcur \in [Closers -> Conns \cup {NoConn}]
    /\ kcount \in [Closers -> 0..MaxDeletions]
    /\ apiClosed \in BOOLEAN

InCritical(k) == kpc[k] \in {"close", "closeConn", "closeChan"}

\* The goroutine g is inside the function guarded by c's once.
ClosingRole(r, c) == gpc[r][c] \in {"closeConn", "closeChan"}
ClosingCloser(k, c) == kpc[k] \in {"closeConn", "closeChan"} /\ kcur[k] = c

(* NotifyDeletedUser, NotifyDeletedClient and Close walk and change the    *)
(* client maps while no Notify walks them, and one at a time (a concurrent *)
(* map write ends a Go process).                                           *)
ExclusiveRegistry ==
    /\ \A k \in Closers : InCritical(k) => rlocked = {}
    /\ \A k, l \in Closers : InCritical(k) /\ InCritical(l) => k = l

(* A client a Notify call still has to offer its message to is in the      *)
(* registry: nobody takes it out while the slice is walked.                *)
WalkedClientsRegistered ==
    \A n \in Notifiers : ntodo[n] \subseteq registered

(* The closed channel of a client is closed by one goroutine only, once:   *)
(* reader, writer and any deletion may race to it, and closing a closed    *)
(* channel panics.                                                         *)
ClosedOnce ==
    \A c \in Conns :
      /\ \A r, s \in Roles : ClosingRole(r, c) /\ ClosingRole(s, c) => r = s
      /\ \A k, l \in Closers : ClosingCloser(k, c) /\ ClosingCloser(l, c) => k = l
      /\ \A r \in Roles, k \in Closers : ~(ClosingRole(r, c) /\ ClosingCloser(k, c))
      /\ closed[c] => /\ \A r \in Roles : ~ClosingRole(r, c)
                      /\ \A k \in Closers : ~ClosingCloser(k, c)

(* No zombie: a client whose once has fired stays in the registry only     *)
(* while some goroutine is still on its way to take it out, so ended       *)
(* connections never pile up in the maps.                                  *)
NoZombieClient ==
    \A c \in registered :
      done[c] => \/ \E r \in Roles : gpc[r][c] \in {"closeConn", "closeChan", "lock"}
                 \/ \E k \in Closers : InCritical(k) /\ Matches(kcall[k], c)

\* Where message m for client c is while it is not lost.
Kept(c, m) ==
    \/ done[c]
    \/ m \in Range(got[c])
    \/ m \in Range(buf[c])
    \/ inflight[c] = m /\ gpc["writer"][c] \in {"write", "once"}
    \/ \E n \in Notifiers : npc[n] = "send" /\ m = Msg(n) /\ c \in ntodo[n]

(* Notify loses nothing: a message a client of the user was to get has     *)
(* been written, is in its channel or in its writer's hands, is still to   *)
(* be offered, or the client is being closed.                              *)
NoSilentLoss == \A e \in owed : Kept(e[1], e[2])

(* A call of Notify or NotifyMUEvent returns: a stalled or dying client    *)
(* never blocks it, or the lock it holds, for good.                        *)
NotifyReturns == \A n \in Notifiers : npc[n] # "idle" ~> npc[n] = "idle"

(* A call of NotifyDeletedUser, NotifyDeletedClient or Close returns,      *)
(* although it closes clients whose own goroutines wait for the lock it    *)
(* holds.                                                                  *)
DeletionReturns == \A k \in Closers : kpc[k] # "idle" ~> kpc[k] = "idle"

(* A client whose once has fired loses its socket, both its goroutines and *)
(* its place in the registry.                                              *)
ClientReleased ==
    \A c \in Conns :
      done[c] ~> /\ ~connOpen[c]
                 /\ \A r \in Roles : gpc[r][c] = "done"
                 /\ c \notin registered

(* Nothing that was begun hangs (stream.go Notify, NotifyDeletedUser,      *)
(* client.go Close).                                                       *)
NothingHangs == NotifyReturns /\ DeletionReturns /\ ClientReleased

(* The comment of Close (stream.go:252): "Close closes all client          *)
(* connections and stops answering new connections."                       *)
CloseStopsConnections == apiClosed => registered = {}

(***************************************************************************)
(* The strengthening that makes the safety properties inductive.           *)
(***************************************************************************)

\* Who holds which lock, and what only a lock holder has in its locals.
LockInv ==
    /\ \A k \in Closers : InCritical(k) => announced = Closer(k) /\ rlocked = {}
    /\ \A n \in Notifiers : n \in rlocked <=> npc[n] = "send"
    /\ \A n \in Notifiers : n \notin rlocked => ntodo[n] = {}
    /\ \A n \in Notifiers : npc[n] # "idle" => ncall[n] \in Calls /\ ncount[n] > 0
    /\ \A k \in Closers : InCritical(k) =>
         ktodo[k] \subseteq {c \in registered : Matches(kcall[k], c)}

\* The life of a client: registered, then its once fires, then one
\* goroutine closes its channel.
OnceInv ==
    /\ \A c \in Conns : hpc[c] # "done" =>
         /\ c \notin registered
         /\ ~done[c]
         /\ \A r \in Roles : gpc[r][c] = "off"
    /\ \A c \in Conns : closed[c] => done[c]
    /\ \A r \in Roles, c \in Conns : ClosingRole(r, c) => done[c]
    /\ \A k \in Closers, c \in Conns : ClosingCloser(k, c) => done[c]
    /\ \A k \in Closers : kpc[k] \in {"closeConn", "closeChan"} => kcur[k] \in Conns

\* What the queues hold.
DataInv ==
    /\ \A c \in Conns : gpc["writer"][c] = "write" => inflight[c] \in Messages
    /\ \A c \in Conns : gpc["writer"][c] \in {"closeConn", "closeChan", "lock", "done"}
         => done[c]
    /\ \A e \in owed : KindOf[e[1]] = "message"

IInv ==
    /\ TypeOK
    /\ LockInv
    /\ OnceInv
    /\ DataInv
    /\ WalkedClientsRegistered
    /\ ClosedOnce
    /\ NoZombieClient
    /\ NoSilentLoss
=============================================================================
