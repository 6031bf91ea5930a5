--------------------------- MODULE MessageProofs ---------------------------
(***************************************************************************)
(* Proofs about messages on their way to clients.                          *)
(*                                                                         *)
(* The hub of api/stream keeps its registry and its clients consistent,    *)
(* for any number of connections, users, notifiers and closers and for     *)
(* every capacity of the event channel.  The inductive invariant is IInv   *)
(* of module Stream; each of its parts has a lemma with one step per       *)
(* action.                                                                 *)
(*                                                                         *)
(* The history of a channel keeps its threads whole, and a client that     *)
(* pages through it misses nothing; the attachments of a message keep      *)
(* their files (second half of the module).                                *)
(***************************************************************************)
EXTENDS Stream, Messages, Collaboration, FiniteSetTheorems, TLAPS

-----------------------------------------------------------------------------
(* The hub.                                                                *)

(* The message a notifier inside a call sends is one of Messages.          *)
LEMMA MsgType ==
    ASSUME TypeOK, LockInv, NEW n \in Notifiers, npc[n] # "idle"
    PROVE  Msg(n) \in Messages
BY StreamAssumption DEF TypeOK, LockInv, Msg, Messages

(* Every step of the hub keeps the shape of its state. *)
LEMMA TypeStep ==
    TypeOK /\ LockInv /\ DataInv /\ [Next]_vars => TypeOK'
<1> SUFFICES ASSUME TypeOK /\ LockInv /\ DataInv, [Next]_vars
             PROVE  TypeOK'
    OBVIOUS
<1> USE DEF TypeOK, LockInv, DataInv, GPcs, KPcs, Roles, LockProcs, None,
        Handler, Closer, InCritical, vars, lockVars, clientVars, dataVars,
        nVars, kVars
<1>1. ASSUME NEW p \in LockProcs, Announce(p) PROVE TypeOK'
    BY <1>1 DEF Announce, WantsLock
<1>2. ASSUME NEW c \in Conns, Upgrade(c) PROVE TypeOK'
    BY <1>2 DEF Upgrade
<1>3. ASSUME NEW c \in Conns, register(c) PROVE TypeOK'
    BY <1>3 DEF register, HasLock
<1>4. ASSUME NEW c \in Conns, ReadError(c) PROVE TypeOK'
    BY <1>4 DEF ReadError, Goto
<1>5. ASSUME NEW c \in Conns, SelectClosed(c) PROVE TypeOK'
    BY <1>5 DEF SelectClosed, Goto
<1>6. ASSUME NEW c \in Conns, SelectMessage(c) PROVE TypeOK'
  <2>1. buf' \in [Conns -> Seq(Messages)]
    BY <1>6 DEF SelectMessage
  <2>2. inflight' \in [Conns -> Messages \cup {NoMessage}]
    BY <1>6 DEF SelectMessage
  <2>3. gpc' \in [Roles -> [Conns -> GPcs]]
    BY <1>6 DEF SelectMessage, Goto
  <2> QED
    BY <1>6, <2>1, <2>2, <2>3 DEF SelectMessage
<1>7. ASSUME NEW c \in Conns, PingError(c) PROVE TypeOK'
    BY <1>7 DEF PingError, Goto
<1>8. ASSUME NEW c \in Conns, WriteOK(c) PROVE TypeOK'
  <2>1. got' \in [Conns -> Seq(Messages)]
    BY <1>8 DEF WriteOK
  <2>2. inflight' \in [Conns -> Messages \cup {NoMessage}]
    BY <1>8 DEF WriteOK
  <2>3. gpc' \in [Roles -> [Conns -> GPcs]]
    BY <1>8 DEF WriteOK, Goto
  <2> QED
    BY <1>8, <2>1, <2>2, <2>3 DEF WriteOK
<1>9. ASSUME NEW c \in Conns, WriteError(c) PROVE TypeOK'
    BY <1>9 DEF WriteError, Goto
<1>10. ASSUME NEW r \in Roles, NEW c \in Conns, NotifyCloseAgain(r, c) PROVE TypeOK'
    BY <1>10 DEF NotifyCloseAgain, OnceReturns, Goto
<1>11. ASSUME NEW r \in Roles, NEW c \in Conns, NotifyClose(r, c) PROVE TypeOK'
    BY <1>11 DEF NotifyClose, OnceRuns, Goto
<1>12. ASSUME NEW r \in Roles, NEW c \in Conns, CloseConn(r, c) PROVE TypeOK'
    BY <1>12 DEF CloseConn, Goto
<1>13. ASSUME NEW r \in Roles, NEW c \in Conns, CloseChan(r, c) PROVE TypeOK'
    BY <1>13 DEF CloseChan, Goto
<1>14. ASSUME NEW r \in Roles, NEW c \in Conns, remove(r, c) PROVE TypeOK'
    BY <1>14 DEF remove, HasLock, Goto
<1>15. ASSUME NEW n \in Notifiers, NEW call \in Calls, NotifyCall(n, call)
      PROVE  TypeOK'
  <2>1. ncall' \in [Notifiers -> Calls \cup {NoCall}]
    BY <1>15 DEF NotifyCall
  <2>2. ncount' \in [Notifiers -> 0..MaxNotifies]
    BY <1>15, StreamAssumption DEF NotifyCall
  <2>3. npc' \in [Notifiers -> {"idle", "rlock", "send"}]
    BY <1>15 DEF NotifyCall
  <2> QED
    BY <1>15, <2>1, <2>2, <2>3 DEF NotifyCall
<1>16. ASSUME NEW n \in Notifiers, RLock(n) PROVE TypeOK'
  <2>1. owed' \subseteq Conns \X Messages
    BY <1>16, MsgType DEF RLock, ClientsOf
  <2>2. ntodo' \in [Notifiers -> SUBSET Conns]
    BY <1>16 DEF RLock, ClientsOf
  <2>3. npc' \in [Notifiers -> {"idle", "rlock", "send"}]
    BY <1>16 DEF RLock
  <2> QED
    BY <1>16, <2>1, <2>2, <2>3 DEF RLock
<1>17. ASSUME NEW n \in Notifiers, NEW c \in Conns, Offer(n, c) PROVE TypeOK'
  <2>1. Msg(n) \in Messages
    BY <1>17, MsgType DEF Offer
  <2>2. buf' = buf \/ buf' = [buf EXCEPT ![c] = Append(buf[c], Msg(n))]
    BY <1>17 DEF Offer, Send, SkipClosed, DropEvent
  <2>3. Append(buf[c], Msg(n)) \in Seq(Messages)
    BY <2>1
  <2>4. buf' \in [Conns -> Seq(Messages)]
    <3>1. CASE buf' = buf
      BY <3>1
    <3>2. CASE buf' = [buf EXCEPT ![c] = Append(buf[c], Msg(n))]
      BY <2>3, <3>2
    <3> QED
      BY <2>2, <3>1, <3>2
  <2>5. ntodo' \in [Notifiers -> SUBSET Conns]
    BY <1>17 DEF Offer
  <2> QED
    BY <1>17, <2>1, <2>2, <2>3, <2>4, <2>5 DEF Offer
<1>18. ASSUME NEW n \in Notifiers, RUnlock(n) PROVE TypeOK'
    BY <1>18 DEF RUnlock
<1>19. ASSUME NEW k \in Closers, NEW t \in Targets, CloserCall(k, t) PROVE TypeOK'
  <2>1. kcall' \in [Closers -> Targets \cup {NoCall}]
    BY <1>19 DEF CloserCall
  <2>2. kcount' \in [Closers -> 0..MaxDeletions]
    BY <1>19, StreamAssumption DEF CloserCall
  <2>3. kpc' \in [Closers -> KPcs]
    BY <1>19 DEF CloserCall
  <2> QED
    BY <1>19, <2>1, <2>2, <2>3 DEF CloserCall
<1>20. ASSUME NEW k \in Closers, CloserEnter(k) PROVE TypeOK'
    BY <1>20 DEF CloserEnter, HasLock
<1>21. ASSUME NEW k \in Closers, NEW c \in Conns, CloserSkip(k, c) PROVE TypeOK'
    BY <1>21 DEF CloserSkip, OnceReturns
<1>22. ASSUME NEW k \in Closers, NEW c \in Conns, CloserClose(k, c) PROVE TypeOK'
    BY <1>22 DEF CloserClose, OnceRuns
<1>23. ASSUME NEW k \in Closers, CloserCloseConn(k) PROVE TypeOK'
    BY <1>23 DEF CloserCloseConn
<1>24. ASSUME NEW k \in Closers, CloserCloseChan(k) PROVE TypeOK'
    BY <1>24 DEF CloserCloseChan
<1>25. ASSUME NEW k \in Closers, CloserLeave(k) PROVE TypeOK'
    BY <1>25 DEF CloserLeave
<1>26. CASE UNCHANGED vars
    BY <1>26
<1> HIDE DEF TypeOK, LockInv, DataInv, GPcs, KPcs, Roles, LockProcs, None, Handler,
        Closer, InCritical, vars, lockVars, clientVars, dataVars, nVars, kVars
<1> QED
    BY <1>1, <1>2, <1>3, <1>4, <1>5, <1>6, <1>7, <1>8, <1>9, <1>10, <1>11, <1>12, <1>13,
       <1>14, <1>15, <1>16, <1>17, <1>18, <1>19, <1>20, <1>21, <1>22, <1>23, <1>24, <1>25, <1>26
    DEF Next, HandlerNext, ReaderNext, WriterNext, ClosingNext, NotifierNext,
        CloserNext

(* Every step respects the RWMutex of the hub. *)
LEMMA LockStep ==
    TypeOK /\ LockInv /\ [Next]_vars => LockInv'
<1> SUFFICES ASSUME TypeOK /\ LockInv, [Next]_vars
             PROVE  LockInv'
    OBVIOUS
<1> USE DEF TypeOK, LockInv, Roles, None, Handler, Closer, InCritical, GPcs,
        KPcs, vars, lockVars, clientVars, dataVars, nVars, kVars
<1>1. ASSUME NEW p \in LockProcs, Announce(p) PROVE LockInv'
    BY <1>1 DEF Announce, WantsLock
<1>2. ASSUME NEW c \in Conns, Upgrade(c) PROVE LockInv'
    BY <1>2 DEF Upgrade
<1>3. ASSUME NEW c \in Conns, register(c) PROVE LockInv'
    BY <1>3 DEF register, HasLock
<1>4. ASSUME NEW c \in Conns, ReadError(c) PROVE LockInv'
    BY <1>4 DEF ReadError, Goto
<1>5. ASSUME NEW c \in Conns, SelectClosed(c) PROVE LockInv'
    BY <1>5 DEF SelectClosed, Goto
<1>6. ASSUME NEW c \in Conns, SelectMessage(c) PROVE LockInv'
    BY <1>6 DEF SelectMessage, Goto
<1>7. ASSUME NEW c \in Conns, PingError(c) PROVE LockInv'
    BY <1>7 DEF PingError, Goto
<1>8. ASSUME NEW c \in Conns, WriteOK(c) PROVE LockInv'
    BY <1>8 DEF WriteOK, Goto
<1>9. ASSUME NEW c \in Conns, WriteError(c) PROVE LockInv'
    BY <1>9 DEF WriteError, Goto
<1>10. ASSUME NEW r \in Roles, NEW c \in Conns, NotifyCloseAgain(r, c)
      PROVE  LockInv'
    BY <1>10 DEF NotifyCloseAgain, OnceReturns, Goto
<1>11. ASSUME NEW r \in Roles, NEW c \in Conns, NotifyClose(r, c) PROVE LockInv'
    BY <1>11 DEF NotifyClose, OnceRuns, Goto
<1>12. ASSUME NEW r \in Roles, NEW c \in Conns, CloseConn(r, c) PROVE LockInv'
    BY <1>12 DEF CloseConn, Goto
<1>13. ASSUME NEW r \in Roles, NEW c \in Conns, CloseChan(r, c) PROVE LockInv'
    BY <1>13 DEF CloseChan, Goto
<1>14. ASSUME NEW r \in Roles, NEW c \in Conns, remove(r, c) PROVE LockInv'
    BY <1>14 DEF remove, HasLock, Goto
<1>15. ASSUME NEW n \in Notifiers, NEW call \in Calls, NotifyCall(n, call)
      PROVE  LockInv'
    BY <1>15 DEF NotifyCall
<1>16. ASSUME NEW n \in Notifiers, RLock(n) PROVE LockInv'
    BY <1>16 DEF RLock, ClientsOf, Msg
<1>17. ASSUME NEW n \in Notifiers, NEW c \in Conns, Offer(n, c) PROVE LockInv'
    BY <1>17 DEF Offer, Send, SkipClosed, DropEvent, Msg
<1>18. ASSUME NEW n \in Notifiers, RUnlock(n) PROVE LockInv'
    BY <1>18 DEF RUnlock
<1>19. ASSUME NEW k \in Closers, NEW t \in Targets, CloserCall(k, t) PROVE LockInv'
    BY <1>19 DEF CloserCall
<1>20. ASSUME NEW k \in Closers, CloserEnter(k) PROVE LockInv'
    BY <1>20 DEF CloserEnter, HasLock
<1>21. ASSUME NEW k \in Closers, NEW c \in Conns, CloserSkip(k, c) PROVE LockInv'
    BY <1>21 DEF CloserSkip, OnceReturns
<1>22. ASSUME NEW k \in Closers, NEW c \in Conns, CloserClose(k, c) PROVE LockInv'
    BY <1>22 DEF CloserClose, OnceRuns
<1>23. ASSUME NEW k \in Closers, CloserCloseConn(k) PROVE LockInv'
    BY <1>23 DEF CloserCloseConn
<1>24. ASSUME NEW k \in Closers, CloserCloseChan(k) PROVE LockInv'
    BY <1>24 DEF CloserCloseChan
<1>25. ASSUME NEW k \in Closers, CloserLeave(k) PROVE LockInv'
    BY <1>25 DEF CloserLeave
<1>26. CASE UNCHANGED vars
    BY <1>26
<1> HIDE DEF TypeOK, LockInv, Roles, None, Handler, Closer, InCritical, GPcs, KPcs,
        vars, lockVars, clientVars, dataVars, nVars, kVars
<1> QED
    BY <1>1, <1>2, <1>3, <1>4, <1>5, <1>6, <1>7, <1>8, <1>9, <1>10, <1>11, <1>12, <1>13,
       <1>14, <1>15, <1>16, <1>17, <1>18, <1>19, <1>20, <1>21, <1>22, <1>23, <1>24, <1>25, <1>26
    DEF Next, HandlerNext, ReaderNext, WriterNext, ClosingNext, NotifierNext,
        CloserNext

(* A client's once fires after it was registered, before its channel closes. *)
LEMMA OnceStep ==
    TypeOK /\ LockInv /\ OnceInv /\ [Next]_vars => OnceInv'
<1> SUFFICES ASSUME TypeOK /\ LockInv /\ OnceInv, [Next]_vars
             PROVE  OnceInv'
    OBVIOUS
<1> USE DEF TypeOK, LockInv, Roles, None, Handler, Closer, InCritical, GPcs,
        KPcs, OnceInv, ClosingRole, ClosingCloser, vars, lockVars,
        clientVars, dataVars, nVars, kVars
<1>1. ASSUME NEW p \in LockProcs, Announce(p) PROVE OnceInv'
    BY <1>1 DEF Announce, WantsLock
<1>2. ASSUME NEW c \in Conns, Upgrade(c) PROVE OnceInv'
    BY <1>2 DEF Upgrade
<1>3. ASSUME NEW c \in Conns, register(c) PROVE OnceInv'
    BY <1>3 DEF register, HasLock
<1>4. ASSUME NEW c \in Conns, ReadError(c) PROVE OnceInv'
    BY <1>4 DEF ReadError, Goto
<1>5. ASSUME NEW c \in Conns, SelectClosed(c) PROVE OnceInv'
    BY <1>5 DEF SelectClosed, Goto
<1>6. ASSUME NEW c \in Conns, SelectMessage(c) PROVE OnceInv'
    BY <1>6 DEF SelectMessage, Goto
<1>7. ASSUME NEW c \in Conns, PingError(c) PROVE OnceInv'
    BY <1>7 DEF PingError, Goto
<1>8. ASSUME NEW c \in Conns, WriteOK(c) PROVE OnceInv'
    BY <1>8 DEF WriteOK, Goto
<1>9. ASSUME NEW c \in Conns, WriteError(c) PROVE OnceInv'
    BY <1>9 DEF WriteError, Goto
<1>10. ASSUME NEW r \in Roles, NEW c \in Conns, NotifyCloseAgain(r, c)
      PROVE  OnceInv'
    BY <1>10 DEF NotifyCloseAgain, OnceReturns, Goto
<1>11. ASSUME NEW r \in Roles, NEW c \in Conns, NotifyClose(r, c) PROVE OnceInv'
    BY <1>11 DEF NotifyClose, OnceRuns, Goto
<1>12. ASSUME NEW r \in Roles, NEW c \in Conns, CloseConn(r, c) PROVE OnceInv'
    BY <1>12 DEF CloseConn, Goto
<1>13. ASSUME NEW r \in Roles, NEW c \in Conns, CloseChan(r, c) PROVE OnceInv'
    BY <1>13 DEF CloseChan, Goto
<1>14. ASSUME NEW r \in Roles, NEW c \in Conns, remove(r, c) PROVE OnceInv'
    BY <1>14 DEF remove, HasLock, Goto
<1>15. ASSUME NEW n \in Notifiers, NEW call \in Calls, NotifyCall(n, call)
      PROVE  OnceInv'
    BY <1>15 DEF NotifyCall
<1>16. ASSUME NEW n \in Notifiers, RLock(n) PROVE OnceInv'
    BY <1>16 DEF RLock, ClientsOf, Msg
<1>17. ASSUME NEW n \in Notifiers, NEW c \in Conns, Offer(n, c) PROVE OnceInv'
    BY <1>17 DEF Offer, Send, SkipClosed, DropEvent, Msg
<1>18. ASSUME NEW n \in Notifiers, RUnlock(n) PROVE OnceInv'
    BY <1>18 DEF RUnlock
<1>19. ASSUME NEW k \in Closers, NEW t \in Targets, CloserCall(k, t) PROVE OnceInv'
    BY <1>19 DEF CloserCall
<1>20. ASSUME NEW k \in Closers, CloserEnter(k) PROVE OnceInv'
    BY <1>20 DEF CloserEnter, HasLock
<1>21. ASSUME NEW k \in Closers, NEW c \in Conns, CloserSkip(k, c) PROVE OnceInv'
    BY <1>21 DEF CloserSkip, OnceReturns
<1>22. ASSUME NEW k \in Closers, NEW c \in Conns, CloserClose(k, c) PROVE OnceInv'
    BY <1>22 DEF CloserClose, OnceRuns
<1>23. ASSUME NEW k \in Closers, CloserCloseConn(k) PROVE OnceInv'
    BY <1>23 DEF CloserCloseConn
<1>24. ASSUME NEW k \in Closers, CloserCloseChan(k) PROVE OnceInv'
    BY <1>24 DEF CloserCloseChan
<1>25. ASSUME NEW k \in Closers, CloserLeave(k) PROVE OnceInv'
    BY <1>25 DEF CloserLeave
<1>26. CASE UNCHANGED vars
    BY <1>26
<1> HIDE DEF TypeOK, LockInv, Roles, None, Handler, Closer, InCritical, GPcs, KPcs,
        OnceInv, ClosingRole, ClosingCloser, vars, lockVars, clientVars, dataVars,
        nVars, kVars
<1> QED
    BY <1>1, <1>2, <1>3, <1>4, <1>5, <1>6, <1>7, <1>8, <1>9, <1>10, <1>11, <1>12, <1>13,
       <1>14, <1>15, <1>16, <1>17, <1>18, <1>19, <1>20, <1>21, <1>22, <1>23, <1>24, <1>25, <1>26
    DEF Next, HandlerNext, ReaderNext, WriterNext, ClosingNext, NotifierNext,
        CloserNext

(* What the writers hold in their hands stays well-formed. *)
LEMMA DataStep ==
    TypeOK /\ LockInv /\ OnceInv /\ DataInv /\ [Next]_vars => DataInv'
<1> SUFFICES ASSUME TypeOK /\ LockInv /\ OnceInv /\ DataInv, [Next]_vars
             PROVE  DataInv'
    OBVIOUS
<1> USE DEF TypeOK, LockInv, Roles, None, Handler, Closer, InCritical, GPcs,
        KPcs, DataInv, OnceInv, ClosingRole, vars, lockVars, clientVars,
        dataVars, nVars, kVars
<1>1. ASSUME NEW p \in LockProcs, Announce(p) PROVE DataInv'
    BY <1>1 DEF Announce, WantsLock
<1>2. ASSUME NEW c \in Conns, Upgrade(c) PROVE DataInv'
    BY <1>2 DEF Upgrade
<1>3. ASSUME NEW c \in Conns, register(c) PROVE DataInv'
    BY <1>3 DEF register, HasLock
<1>4. ASSUME NEW c \in Conns, ReadError(c) PROVE DataInv'
    BY <1>4 DEF ReadError, Goto
<1>5. ASSUME NEW c \in Conns, SelectClosed(c) PROVE DataInv'
    BY <1>5 DEF SelectClosed, Goto
<1>6. ASSUME NEW c \in Conns, SelectMessage(c) PROVE DataInv'
    BY <1>6 DEF SelectMessage, Goto
<1>7. ASSUME NEW c \in Conns, PingError(c) PROVE DataInv'
    BY <1>7 DEF PingError, Goto
<1>8. ASSUME NEW c \in Conns, WriteOK(c) PROVE DataInv'
    BY <1>8 DEF WriteOK, Goto
<1>9. ASSUME NEW c \in Conns, WriteError(c) PROVE DataInv'
    BY <1>9 DEF WriteError, Goto
<1>10. ASSUME NEW r \in Roles, NEW c \in Conns, NotifyCloseAgain(r, c)
      PROVE  DataInv'
    BY <1>10 DEF NotifyCloseAgain, OnceReturns, Goto
<1>11. ASSUME NEW r \in Roles, NEW c \in Conns, NotifyClose(r, c) PROVE DataInv'
    BY <1>11 DEF NotifyClose, OnceRuns, Goto
<1>12. ASSUME NEW r \in Roles, NEW c \in Conns, CloseConn(r, c) PROVE DataInv'
    BY <1>12 DEF CloseConn, Goto
<1>13. ASSUME NEW r \in Roles, NEW c \in Conns, CloseChan(r, c) PROVE DataInv'
    BY <1>13 DEF CloseChan, Goto
<1>14. ASSUME NEW r \in Roles, NEW c \in Conns, remove(r, c) PROVE DataInv'
    BY <1>14 DEF remove, HasLock, Goto
<1>15. ASSUME NEW n \in Notifiers, NEW call \in Calls, NotifyCall(n, call)
      PROVE  DataInv'
    BY <1>15 DEF NotifyCall
<1>16. ASSUME NEW n \in Notifiers, RLock(n) PROVE DataInv'
    BY <1>16 DEF RLock, ClientsOf, Msg
<1>17. ASSUME NEW n \in Notifiers, NEW c \in Conns, Offer(n, c) PROVE DataInv'
    BY <1>17 DEF Offer, Send, SkipClosed, DropEvent, Msg
<1>18. ASSUME NEW n \in Notifiers, RUnlock(n) PROVE DataInv'
    BY <1>18 DEF RUnlock
<1>19. ASSUME NEW k \in Closers, NEW t \in Targets, CloserCall(k, t) PROVE DataInv'
    BY <1>19 DEF CloserCall
<1>20. ASSUME NEW k \in Closers, CloserEnter(k) PROVE DataInv'
    BY <1>20 DEF CloserEnter, HasLock
<1>21. ASSUME NEW k \in Closers, NEW c \in Conns, CloserSkip(k, c) PROVE DataInv'
    BY <1>21 DEF CloserSkip, OnceReturns
<1>22. ASSUME NEW k \in Closers, NEW c \in Conns, CloserClose(k, c) PROVE DataInv'
    BY <1>22 DEF CloserClose, OnceRuns
<1>23. ASSUME NEW k \in Closers, CloserCloseConn(k) PROVE DataInv'
    BY <1>23 DEF CloserCloseConn
<1>24. ASSUME NEW k \in Closers, CloserCloseChan(k) PROVE DataInv'
    BY <1>24 DEF CloserCloseChan
<1>25. ASSUME NEW k \in Closers, CloserLeave(k) PROVE DataInv'
    BY <1>25 DEF CloserLeave
<1>26. CASE UNCHANGED vars
    BY <1>26
<1> HIDE DEF TypeOK, LockInv, Roles, None, Handler, Closer, InCritical, GPcs, KPcs,
        DataInv, OnceInv, ClosingRole, vars, lockVars, clientVars, dataVars, nVars,
        kVars
<1> QED
    BY <1>1, <1>2, <1>3, <1>4, <1>5, <1>6, <1>7, <1>8, <1>9, <1>10, <1>11, <1>12, <1>13,
       <1>14, <1>15, <1>16, <1>17, <1>18, <1>19, <1>20, <1>21, <1>22, <1>23, <1>24, <1>25, <1>26
    DEF Next, HandlerNext, ReaderNext, WriterNext, ClosingNext, NotifierNext,
        CloserNext

(* No step takes a client out of the registry while a Notify walks it. *)
LEMMA WalkedStep ==
    TypeOK /\ LockInv /\ WalkedClientsRegistered /\ [Next]_vars => WalkedClientsRegistered'
<1> SUFFICES ASSUME TypeOK /\ LockInv /\ WalkedClientsRegistered, [Next]_vars
             PROVE  WalkedClientsRegistered'
    OBVIOUS
<1> USE DEF TypeOK, LockInv, Roles, None, Handler, Closer, InCritical, GPcs,
        KPcs, WalkedClientsRegistered, vars, lockVars, clientVars, dataVars,
        nVars, kVars
<1>1. ASSUME NEW p \in LockProcs, Announce(p) PROVE WalkedClientsRegistered'
    BY <1>1 DEF Announce, WantsLock
<1>2. ASSUME NEW c \in Conns, Upgrade(c) PROVE WalkedClientsRegistered'
    BY <1>2 DEF Upgrade
<1>3. ASSUME NEW c \in Conns, register(c) PROVE WalkedClientsRegistered'
    BY <1>3 DEF register, HasLock
<1>4. ASSUME NEW c \in Conns, ReadError(c) PROVE WalkedClientsRegistered'
    BY <1>4 DEF ReadError, Goto
<1>5. ASSUME NEW c \in Conns, SelectClosed(c) PROVE WalkedClientsRegistered'
    BY <1>5 DEF SelectClosed, Goto
<1>6. ASSUME NEW c \in Conns, SelectMessage(c) PROVE WalkedClientsRegistered'
    BY <1>6 DEF SelectMessage, Goto
<1>7. ASSUME NEW c \in Conns, PingError(c) PROVE WalkedClientsRegistered'
    BY <1>7 DEF PingError, Goto
<1>8. ASSUME NEW c \in Conns, WriteOK(c) PROVE WalkedClientsRegistered'
    BY <1>8 DEF WriteOK, Goto
<1>9. ASSUME NEW c \in Conns, WriteError(c) PROVE WalkedClientsRegistered'
    BY <1>9 DEF WriteError, Goto
<1>10. ASSUME NEW r \in Roles, NEW c \in Conns, NotifyCloseAgain(r, c)
      PROVE  WalkedClientsRegistered'
    BY <1>10 DEF NotifyCloseAgain, OnceReturns, Goto
<1>11. ASSUME NEW r \in Roles, NEW c \in Conns, NotifyClose(r, c)
      PROVE  WalkedClientsRegistered'
    BY <1>11 DEF NotifyClose, OnceRuns, Goto
<1>12. ASSUME NEW r \in Roles, NEW c \in Conns, CloseConn(r, c)
      PROVE  WalkedClientsRegistered'
    BY <1>12 DEF CloseConn, Goto
<1>13. ASSUME NEW r \in Roles, NEW c \in Conns, CloseChan(r, c)
      PROVE  WalkedClientsRegistered'
    BY <1>13 DEF CloseChan, Goto
<1>14. ASSUME NEW r \in Roles, NEW c \in Conns, remove(r, c)
      PROVE  WalkedClientsRegistered'
    BY <1>14 DEF remove, HasLock, Goto
<1>15. ASSUME NEW n \in Notifiers, NEW call \in Calls, NotifyCall(n, call)
      PROVE  WalkedClientsRegistered'
    BY <1>15 DEF NotifyCall
<1>16. ASSUME NEW n \in Notifiers, RLock(n) PROVE WalkedClientsRegistered'
    BY <1>16 DEF RLock, ClientsOf, Msg
<1>17. ASSUME NEW n \in Notifiers, NEW c \in Conns, Offer(n, c)
      PROVE  WalkedClientsRegistered'
    BY <1>17 DEF Offer, Send, SkipClosed, DropEvent, Msg
<1>18. ASSUME NEW n \in Notifiers, RUnlock(n) PROVE WalkedClientsRegistered'
    BY <1>18 DEF RUnlock
<1>19. ASSUME NEW k \in Closers, NEW t \in Targets, CloserCall(k, t)
      PROVE  WalkedClientsRegistered'
    BY <1>19 DEF CloserCall
<1>20. ASSUME NEW k \in Closers, CloserEnter(k) PROVE WalkedClientsRegistered'
    BY <1>20 DEF CloserEnter, HasLock
<1>21. ASSUME NEW k \in Closers, NEW c \in Conns, CloserSkip(k, c)
      PROVE  WalkedClientsRegistered'
    BY <1>21 DEF CloserSkip, OnceReturns
<1>22. ASSUME NEW k \in Closers, NEW c \in Conns, CloserClose(k, c)
      PROVE  WalkedClientsRegistered'
    BY <1>22 DEF CloserClose, OnceRuns
<1>23. ASSUME NEW k \in Closers, CloserCloseConn(k) PROVE WalkedClientsRegistered'
    BY <1>23 DEF CloserCloseConn
<1>24. ASSUME NEW k \in Closers, CloserCloseChan(k) PROVE WalkedClientsRegistered'
    BY <1>24 DEF CloserCloseChan
<1>25. ASSUME NEW k \in Closers, CloserLeave(k) PROVE WalkedClientsRegistered'
    BY <1>25 DEF CloserLeave
<1>26. CASE UNCHANGED vars
    BY <1>26
<1> HIDE DEF TypeOK, LockInv, Roles, None, Handler, Closer, InCritical, GPcs, KPcs,
        WalkedClientsRegistered, vars, lockVars, clientVars, dataVars, nVars, kVars
<1> QED
    BY <1>1, <1>2, <1>3, <1>4, <1>5, <1>6, <1>7, <1>8, <1>9, <1>10, <1>11, <1>12, <1>13,
       <1>14, <1>15, <1>16, <1>17, <1>18, <1>19, <1>20, <1>21, <1>22, <1>23, <1>24, <1>25, <1>26
    DEF Next, HandlerNext, ReaderNext, WriterNext, ClosingNext, NotifierNext,
        CloserNext

(* No step lets a second goroutine into a client's closing function. *)
LEMMA ClosedOnceStep ==
    TypeOK /\ OnceInv /\ ClosedOnce /\ [Next]_vars => ClosedOnce'
<1> SUFFICES ASSUME TypeOK /\ OnceInv /\ ClosedOnce, [Next]_vars
             PROVE  ClosedOnce'
    OBVIOUS
<1> USE DEF TypeOK, Roles, GPcs, KPcs, ClosedOnce, OnceInv, ClosingRole,
        ClosingCloser, vars, lockVars, clientVars, dataVars, nVars, kVars
<1>1. ASSUME NEW p \in LockProcs, Announce(p) PROVE ClosedOnce'
    BY <1>1 DEF Announce, WantsLock
<1>2. ASSUME NEW c \in Conns, Upgrade(c) PROVE ClosedOnce'
    BY <1>2 DEF Upgrade
<1>3. ASSUME NEW c \in Conns, register(c) PROVE ClosedOnce'
    BY <1>3 DEF register, HasLock
<1>4. ASSUME NEW c \in Conns, ReadError(c) PROVE ClosedOnce'
    BY <1>4 DEF ReadError, Goto
<1>5. ASSUME NEW c \in Conns, SelectClosed(c) PROVE ClosedOnce'
    BY <1>5 DEF SelectClosed, Goto
<1>6. ASSUME NEW c \in Conns, SelectMessage(c) PROVE ClosedOnce'
    BY <1>6 DEF SelectMessage, Goto
<1>7. ASSUME NEW c \in Conns, PingError(c) PROVE ClosedOnce'
    BY <1>7 DEF PingError, Goto
<1>8. ASSUME NEW c \in Conns, WriteOK(c) PROVE ClosedOnce'
    BY <1>8 DEF WriteOK, Goto
<1>9. ASSUME NEW c \in Conns, WriteError(c) PROVE ClosedOnce'
    BY <1>9 DEF WriteError, Goto
<1>10. ASSUME NEW r \in Roles, NEW c \in Conns, NotifyCloseAgain(r, c)
      PROVE  ClosedOnce'
    BY <1>10 DEF NotifyCloseAgain, OnceReturns, Goto
<1>11. ASSUME NEW r \in Roles, NEW c \in Conns, NotifyClose(r, c) PROVE ClosedOnce'
    BY <1>11 DEF NotifyClose, OnceRuns, Goto
<1>12. ASSUME NEW r \in Roles, NEW c \in Conns, CloseConn(r, c) PROVE ClosedOnce'
    BY <1>12 DEF CloseConn, Goto
<1>13. ASSUME NEW r \in Roles, NEW c \in Conns, CloseChan(r, c) PROVE ClosedOnce'
    BY <1>13 DEF CloseChan, Goto
<1>14. ASSUME NEW r \in Roles, NEW c \in Conns, remove(r, c) PROVE ClosedOnce'
    BY <1>14 DEF remove, HasLock, Goto
<1>15. ASSUME NEW n \in Notifiers, NEW call \in Calls, NotifyCall(n, call)
      PROVE  ClosedOnce'
    BY <1>15 DEF NotifyCall
<1>16. ASSUME NEW n \in Notifiers, RLock(n) PROVE ClosedOnce'
    BY <1>16 DEF RLock, ClientsOf, Msg
<1>17. ASSUME NEW n \in Notifiers, NEW c \in Conns, Offer(n, c) PROVE ClosedOnce'
    BY <1>17 DEF Offer, Send, SkipClosed, DropEvent, Msg
<1>18. ASSUME NEW n \in Notifiers, RUnlock(n) PROVE ClosedOnce'
    BY <1>18 DEF RUnlock
<1>19. ASSUME NEW k \in Closers, NEW t \in Targets, CloserCall(k, t)
      PROVE  ClosedOnce'
    BY <1>19 DEF CloserCall
<1>20. ASSUME NEW k \in Closers, CloserEnter(k) PROVE ClosedOnce'
    BY <1>20 DEF CloserEnter, HasLock
<1>21. ASSUME NEW k \in Closers, NEW c \in Conns, CloserSkip(k, c) PROVE ClosedOnce'
    BY <1>21 DEF CloserSkip, OnceReturns
<1>22. ASSUME NEW k \in Closers, NEW c \in Conns, CloserClose(k, c)
      PROVE  ClosedOnce'
    BY <1>22 DEF CloserClose, OnceRuns
<1>23. ASSUME NEW k \in Closers, CloserCloseConn(k) PROVE ClosedOnce'
    BY <1>23 DEF CloserCloseConn
<1>24. ASSUME NEW k \in Closers, CloserCloseChan(k) PROVE ClosedOnce'
    BY <1>24 DEF CloserCloseChan
<1>25. ASSUME NEW k \in Closers, CloserLeave(k) PROVE ClosedOnce'
    BY <1>25 DEF CloserLeave
<1>26. CASE UNCHANGED vars
    BY <1>26
<1> HIDE DEF TypeOK, Roles, GPcs, KPcs, ClosedOnce, OnceInv, ClosingRole,
        ClosingCloser, vars, lockVars, clientVars, dataVars, nVars, kVars
<1> QED
    BY <1>1, <1>2, <1>3, <1>4, <1>5, <1>6, <1>7, <1>8, <1>9, <1>10, <1>11, <1>12, <1>13,
       <1>14, <1>15, <1>16, <1>17, <1>18, <1>19, <1>20, <1>21, <1>22, <1>23, <1>24, <1>25, <1>26
    DEF Next, HandlerNext, ReaderNext, WriterNext, ClosingNext, NotifierNext,
        CloserNext

(* Every step leaves somebody on the way to remove a closed client. *)
LEMMA ZombieStep ==
    TypeOK /\ LockInv /\ OnceInv /\ NoZombieClient /\ [Next]_vars => NoZombieClient'
<1> SUFFICES ASSUME TypeOK /\ LockInv /\ OnceInv /\ NoZombieClient, [Next]_vars
             PROVE  NoZombieClient'
    OBVIOUS
<1> USE DEF TypeOK, LockInv, Roles, None, Handler, Closer, InCritical, GPcs,
        KPcs, NoZombieClient, OnceInv, vars, lockVars, clientVars, dataVars,
        nVars, kVars
<1>1. ASSUME NEW p \in LockProcs, Announce(p) PROVE NoZombieClient'
    BY <1>1 DEF Announce, WantsLock
<1>2. ASSUME NEW c \in Conns, Upgrade(c) PROVE NoZombieClient'
    BY <1>2 DEF Upgrade
<1>3. ASSUME NEW c \in Conns, register(c) PROVE NoZombieClient'
    BY <1>3 DEF register, HasLock
<1>4. ASSUME NEW c \in Conns, ReadError(c) PROVE NoZombieClient'
    BY <1>4 DEF ReadError, Goto
<1>5. ASSUME NEW c \in Conns, SelectClosed(c) PROVE NoZombieClient'
    BY <1>5 DEF SelectClosed, Goto
<1>6. ASSUME NEW c \in Conns, SelectMessage(c) PROVE NoZombieClient'
    BY <1>6 DEF SelectMessage, Goto
<1>7. ASSUME NEW c \in Conns, PingError(c) PROVE NoZombieClient'
    BY <1>7 DEF PingError, Goto
<1>8. ASSUME NEW c \in Conns, WriteOK(c) PROVE NoZombieClient'
    BY <1>8 DEF WriteOK, Goto
<1>9. ASSUME NEW c \in Conns, WriteError(c) PROVE NoZombieClient'
    BY <1>9 DEF WriteError, Goto
<1>10. ASSUME NEW r \in Roles, NEW c \in Conns, NotifyCloseAgain(r, c)
      PROVE  NoZombieClient'
    BY <1>10 DEF NotifyCloseAgain, OnceReturns, Goto
<1>11. ASSUME NEW r \in Roles, NEW c \in Conns, NotifyClose(r, c)
      PROVE  NoZombieClient'
    BY <1>11 DEF NotifyClose, OnceRuns, Goto
<1>12. ASSUME NEW r \in Roles, NEW c \in Conns, CloseConn(r, c)
      PROVE  NoZombieClient'
    BY <1>12 DEF CloseConn, Goto
<1>13. ASSUME NEW r \in Roles, NEW c \in Conns, CloseChan(r, c)
      PROVE  NoZombieClient'
    BY <1>13 DEF CloseChan, Goto
<1>14. ASSUME NEW r \in Roles, NEW c \in Conns, remove(r, c) PROVE NoZombieClient'
    BY <1>14 DEF remove, HasLock, Goto
<1>15. ASSUME NEW n \in Notifiers, NEW call \in Calls, NotifyCall(n, call)
      PROVE  NoZombieClient'
    BY <1>15 DEF NotifyCall
<1>16. ASSUME NEW n \in Notifiers, RLock(n) PROVE NoZombieClient'
    BY <1>16 DEF RLock, ClientsOf, Msg
<1>17. ASSUME NEW n \in Notifiers, NEW c \in Conns, Offer(n, c)
      PROVE  NoZombieClient'
    BY <1>17 DEF Offer, Send, SkipClosed, DropEvent, Msg
<1>18. ASSUME NEW n \in Notifiers, RUnlock(n) PROVE NoZombieClient'
    BY <1>18 DEF RUnlock
<1>19. ASSUME NEW k \in Closers, NEW t \in Targets, CloserCall(k, t)
      PROVE  NoZombieClient'
    BY <1>19 DEF CloserCall
<1>20. ASSUME NEW k \in Closers, CloserEnter(k) PROVE NoZombieClient'
    BY <1>20 DEF CloserEnter, HasLock
<1>21. ASSUME NEW k \in Closers, NEW c \in Conns, CloserSkip(k, c)
      PROVE  NoZombieClient'
    BY <1>21 DEF CloserSkip, OnceReturns
<1>22. ASSUME NEW k \in Closers, NEW c \in Conns, CloserClose(k, c)
      PROVE  NoZombieClient'
    BY <1>22 DEF CloserClose, OnceRuns
<1>23. ASSUME NEW k \in Closers, CloserCloseConn(k) PROVE NoZombieClient'
    BY <1>23 DEF CloserCloseConn
<1>24. ASSUME NEW k \in Closers, CloserCloseChan(k) PROVE NoZombieClient'
    BY <1>24 DEF CloserCloseChan
<1>25. ASSUME NEW k \in Closers, CloserLeave(k) PROVE NoZombieClient'
    BY <1>25 DEF CloserLeave
<1>26. CASE UNCHANGED vars
    BY <1>26
<1> HIDE DEF TypeOK, LockInv, Roles, None, Handler, Closer, InCritical, GPcs, KPcs,
        NoZombieClient, OnceInv, vars, lockVars, clientVars, dataVars, nVars, kVars
<1> QED
    BY <1>1, <1>2, <1>3, <1>4, <1>5, <1>6, <1>7, <1>8, <1>9, <1>10, <1>11, <1>12, <1>13,
       <1>14, <1>15, <1>16, <1>17, <1>18, <1>19, <1>20, <1>21, <1>22, <1>23, <1>24, <1>25, <1>26
    DEF Next, HandlerNext, ReaderNext, WriterNext, ClosingNext, NotifierNext,
        CloserNext

(* Receiving from a channel moves its head out and keeps the rest. *)
LEMMA RangeTail ==
    ASSUME NEW S, NEW s \in Seq(S), s # <<>>, NEW m \in Range(s)
    PROVE  m = Head(s) \/ m \in Range(Tail(s))
<1>1. PICK i \in 1..Len(s) : s[i] = m
    BY DEF Range
<1>2. CASE i = 1
    BY <1>1, <1>2
<1>3. CASE i > 1
  <2>1. i - 1 \in DOMAIN Tail(s) /\ Tail(s)[i - 1] = m
    BY <1>1, <1>3
  <2> QED
    BY <2>1 DEF Range
<1> QED
    BY <1>2, <1>3

(* Sending to a channel keeps what is in it. *)
LEMMA RangeAppend ==
    ASSUME NEW S, NEW s \in Seq(S), NEW m \in S
    PROVE  /\ m \in Range(Append(s, m))
           /\ Range(s) \subseteq Range(Append(s, m))
<1>1. /\ Len(s) + 1 \in DOMAIN Append(s, m)
      /\ Append(s, m)[Len(s) + 1] = m
    OBVIOUS
<1>2. \A i \in DOMAIN s : i \in DOMAIN Append(s, m) /\ Append(s, m)[i] = s[i]
    OBVIOUS
<1> QED
    BY <1>1, <1>2 DEF Range

(* A step that leaves the queues and the notifiers alone loses nothing.    *)
LEMMA LossStutter ==
    ASSUME TypeOK, NoSilentLoss,
           UNCHANGED <<owed, got, buf, inflight, npc, ntodo, ncount>>,
           \A c \in Conns :
             /\ done[c] => done'[c]
             /\ gpc["writer"][c] \in {"write", "once"}
                  => done'[c] \/ gpc'["writer"][c] \in {"write", "once"}
    PROVE  NoSilentLoss'
<1> SUFFICES ASSUME NEW e \in owed PROVE Kept(e[1], e[2])'
    BY DEF NoSilentLoss
<1>1. Kept(e[1], e[2]) /\ e[1] \in Conns
    BY DEF NoSilentLoss, TypeOK
<1> QED
    BY <1>1 DEF Kept, Msg

\* A message stays kept when its client and the callers that still offer it do.
LEMMA KeptStays ==
    ASSUME NEW c, NEW m, Kept(c, m),
           /\ done'[c] = done[c] /\ got'[c] = got[c] /\ buf'[c] = buf[c]
           /\ inflight'[c] = inflight[c] /\ gpc'["writer"][c] = gpc["writer"][c],
           \A i \in Notifiers :
             npc[i] = "send" /\ c \in ntodo[i]
               => npc'[i] = "send" /\ Msg(i)' = Msg(i) /\ c \in ntodo'[i]
    PROVE  Kept(c, m)'
BY DEF Kept

(* Every step keeps a message owed to a client somewhere, or its client closes. *)
LEMMA LossStep ==
    TypeOK /\ LockInv /\ OnceInv /\ DataInv /\ NoSilentLoss /\ [Next]_vars => NoSilentLoss'
<1> SUFFICES ASSUME TypeOK /\ LockInv /\ OnceInv /\ DataInv /\ NoSilentLoss, [Next]_vars
             PROVE  NoSilentLoss'
    OBVIOUS
<1> USE DEF TypeOK, LockInv, Roles, None, Handler, Closer, InCritical, GPcs,
        KPcs, OnceInv, DataInv, vars, lockVars, clientVars, dataVars, nVars,
        kVars
<1>1. ASSUME NEW p \in LockProcs, Announce(p) PROVE NoSilentLoss'
    BY <1>1, LossStutter DEF Announce, WantsLock
<1>2. ASSUME NEW c \in Conns, Upgrade(c) PROVE NoSilentLoss'
    BY <1>2, LossStutter DEF Upgrade
<1>3. ASSUME NEW c \in Conns, register(c) PROVE NoSilentLoss'
    BY <1>3, LossStutter DEF register, HasLock
<1>4. ASSUME NEW c \in Conns, ReadError(c) PROVE NoSilentLoss'
    BY <1>4, LossStutter DEF ReadError, Goto
<1>5. ASSUME NEW c \in Conns, SelectClosed(c) PROVE NoSilentLoss'
    BY <1>5, LossStutter DEF SelectClosed, Goto
<1>6. ASSUME NEW c \in Conns, SelectMessage(c) PROVE NoSilentLoss'
  <2> SUFFICES ASSUME NEW e \in owed PROVE Kept(e[1], e[2])'
    BY <1>6 DEF SelectMessage, NoSilentLoss
  <2>1. Kept(e[1], e[2]) /\ e[1] \in Conns
    BY DEF NoSilentLoss
  <2>2. CASE e[1] # c
    BY <1>6, <2>1, <2>2, SMTT(30) DEF SelectMessage, Goto, Kept, Msg
  <2>3. CASE e[1] = c
    <3>1. gpc'["writer"][c] = "write" /\ inflight'[c] = Head(buf[c])
      BY <1>6 DEF SelectMessage, Goto
    <3>2. buf'[c] = Tail(buf[c]) /\ buf[c] \in Seq(Messages) /\ buf[c] # <<>>
      BY <1>6 DEF SelectMessage
    <3>3. e[2] \in Range(buf[c]) => e[2] = Head(buf[c]) \/ e[2] \in Range(buf'[c])
      BY <3>2, RangeTail
    <3> QED
      BY <1>6, <2>1, <2>3, <3>1, <3>3 DEF SelectMessage, Kept, Msg
  <2> QED
    BY <2>2, <2>3
<1>7. ASSUME NEW c \in Conns, PingError(c) PROVE NoSilentLoss'
    BY <1>7, LossStutter DEF PingError, Goto
<1>8. ASSUME NEW c \in Conns, WriteOK(c) PROVE NoSilentLoss'
  <2> SUFFICES ASSUME NEW e \in owed PROVE Kept(e[1], e[2])'
    BY <1>8 DEF WriteOK, NoSilentLoss
  <2>1. Kept(e[1], e[2]) /\ e[1] \in Conns
    BY DEF NoSilentLoss
  <2>2. CASE e[1] # c
    BY <1>8, <2>1, <2>2 DEF WriteOK, Goto, Kept, Msg
  <2>3. CASE e[1] = c
    <3>1. /\ inflight[c] \in Messages /\ got[c] \in Seq(Messages)
          /\ got'[c] = Append(got[c], inflight[c])
      BY <1>8 DEF WriteOK
    <3>2. Range(got[c]) \subseteq Range(got'[c]) /\ inflight[c] \in Range(got'[c])
      BY <3>1, RangeAppend
    <3> QED
      BY <1>8, <2>1, <2>3, <3>2 DEF WriteOK, Kept, Msg
  <2> QED
    BY <2>2, <2>3
<1>9. ASSUME NEW c \in Conns, WriteError(c) PROVE NoSilentLoss'
    BY <1>9, LossStutter DEF WriteError, Goto
<1>10. ASSUME NEW r \in Roles, NEW c \in Conns, NotifyCloseAgain(r, c)
      PROVE  NoSilentLoss'
    BY <1>10, LossStutter DEF NotifyCloseAgain, OnceReturns, Goto
<1>11. ASSUME NEW r \in Roles, NEW c \in Conns, NotifyClose(r, c)
      PROVE  NoSilentLoss'
    BY <1>11, LossStutter DEF NotifyClose, OnceRuns, Goto
<1>12. ASSUME NEW r \in Roles, NEW c \in Conns, CloseConn(r, c) PROVE NoSilentLoss'
    BY <1>12, LossStutter DEF CloseConn, Goto
<1>13. ASSUME NEW r \in Roles, NEW c \in Conns, CloseChan(r, c) PROVE NoSilentLoss'
    BY <1>13, LossStutter DEF CloseChan, Goto
<1>14. ASSUME NEW r \in Roles, NEW c \in Conns, remove(r, c) PROVE NoSilentLoss'
    BY <1>14, LossStutter DEF remove, HasLock, Goto
<1>15. ASSUME NEW n \in Notifiers, NEW call \in Calls, NotifyCall(n, call)
      PROVE  NoSilentLoss'
  <2> SUFFICES ASSUME NEW e \in owed PROVE Kept(e[1], e[2])'
    BY <1>15 DEF NotifyCall, NoSilentLoss
  <2>1. Kept(e[1], e[2]) /\ e[1] \in Conns
    BY DEF NoSilentLoss
  <2>2. \A i \in Notifiers : npc[i] = "send" => npc'[i] = "send" /\ Msg(i)' = Msg(i)
    BY <1>15 DEF NotifyCall, Msg
  <2> QED
    BY <1>15, <2>1, <2>2, KeptStays DEF NotifyCall
<1>16. ASSUME NEW n \in Notifiers, RLock(n) PROVE NoSilentLoss'
  <2> SUFFICES ASSUME NEW e \in owed' PROVE Kept(e[1], e[2])'
    BY DEF NoSilentLoss
  <2>1. CASE e \in owed
    <3>1. Kept(e[1], e[2])
      BY <2>1 DEF NoSilentLoss
    <3>2. \A i \in Notifiers : npc[i] = "send" =>
            npc'[i] = "send" /\ Msg(i)' = Msg(i) /\ ntodo'[i] = ntodo[i]
      BY <1>16 DEF RLock, Msg
    <3> QED
      BY <1>16, <3>1, <3>2, KeptStays DEF RLock
  <2>2. CASE e \notin owed
    <3>1. e[2] = Msg(n) /\ e[1] \in ClientsOf(ncall[n])
      BY <1>16, <2>2 DEF RLock
    <3>2. npc'[n] = "send" /\ Msg(n)' = Msg(n) /\ ntodo'[n] = ClientsOf(ncall[n])
      BY <1>16 DEF RLock, Msg
    <3> QED
      BY <3>1, <3>2 DEF Kept
  <2> QED
    BY <2>1, <2>2
<1>17. ASSUME NEW n \in Notifiers, NEW c \in Conns, Offer(n, c) PROVE NoSilentLoss'
  <2> SUFFICES ASSUME NEW e \in owed PROVE Kept(e[1], e[2])'
    BY <1>17 DEF Offer, NoSilentLoss
  <2>1. Kept(e[1], e[2]) /\ e[1] \in Conns
    BY DEF NoSilentLoss
  <2>2. CASE e[1] # c
    <3>1. UNCHANGED <<done, got, inflight, gpc, npc>> /\ buf'[e[1]] = buf[e[1]]
      BY <1>17, <2>1, <2>2 DEF Offer, Send, SkipClosed, DropEvent
    <3>2. \A i \in Notifiers : Msg(i)' = Msg(i) /\ (e[1] \in ntodo[i] => e[1] \in ntodo'[i])
      BY <1>17, <2>1, <2>2 DEF Offer, Msg
    <3> QED
      BY <2>1, <3>1, <3>2, KeptStays
  <2>3. CASE e[1] = c /\ SkipClosed(c)
    BY <1>17, <2>3 DEF Offer, SkipClosed, Kept
  <2>4. CASE e[1] = c /\ DropEvent(c)
    BY <2>4 DEF DropEvent
  <2>5. CASE e[1] = c /\ Send(n, c)
    <3>1. Msg(n) \in Messages
      BY <1>17, MsgType DEF Offer
    <3>2. buf[c] \in Seq(Messages) /\ buf'[c] = Append(buf[c], Msg(n))
      BY <2>5 DEF Send
    <3>3. Range(buf[c]) \subseteq Range(buf'[c]) /\ Msg(n) \in Range(buf'[c])
      BY <3>1, <3>2, RangeAppend
    <3>4. CASE \E i \in Notifiers : npc[i] = "send" /\ e[2] = Msg(i) /\ c \in ntodo[i]
      <4>1. PICK i \in Notifiers : npc[i] = "send" /\ e[2] = Msg(i) /\ c \in ntodo[i]
        BY <3>4
      <4>2. CASE i = n
        BY <2>5, <3>3, <4>1, <4>2 DEF Kept
      <4>3. CASE i # n
        BY <1>17, <2>5, <4>1, <4>3 DEF Offer, Kept, Msg
      <4> QED
        BY <4>2, <4>3
    <3> QED
      BY <1>17, <2>1, <2>5, <3>3, <3>4 DEF Offer, Kept
  <2> QED
    BY <1>17, <2>2, <2>3, <2>4, <2>5 DEF Offer
<1>18. ASSUME NEW n \in Notifiers, RUnlock(n) PROVE NoSilentLoss'
  <2> SUFFICES ASSUME NEW e \in owed PROVE Kept(e[1], e[2])'
    BY <1>18 DEF RUnlock, NoSilentLoss
  <2>1. Kept(e[1], e[2]) /\ e[1] \in Conns
    BY DEF NoSilentLoss
  <2>2. UNCHANGED <<done, got, buf, inflight, gpc, ntodo>>
    BY <1>18 DEF RUnlock
  <2>3. \A i \in Notifiers : npc[i] = "send" /\ e[1] \in ntodo[i] =>
          npc'[i] = "send" /\ Msg(i)' = Msg(i)
    BY <1>18 DEF RUnlock, Msg
  <2> QED
    BY <2>1, <2>2, <2>3, KeptStays
<1>19. ASSUME NEW k \in Closers, NEW t \in Targets, CloserCall(k, t)
      PROVE  NoSilentLoss'
    BY <1>19, LossStutter DEF CloserCall
<1>20. ASSUME NEW k \in Closers, CloserEnter(k) PROVE NoSilentLoss'
    BY <1>20, LossStutter DEF CloserEnter, HasLock
<1>21. ASSUME NEW k \in Closers, NEW c \in Conns, CloserSkip(k, c)
      PROVE  NoSilentLoss'
    BY <1>21, LossStutter DEF CloserSkip, OnceReturns
<1>22. ASSUME NEW k \in Closers, NEW c \in Conns, CloserClose(k, c)
      PROVE  NoSilentLoss'
    BY <1>22, LossStutter DEF CloserClose, OnceRuns
<1>23. ASSUME NEW k \in Closers, CloserCloseConn(k) PROVE NoSilentLoss'
    BY <1>23, LossStutter DEF CloserCloseConn
<1>24. ASSUME NEW k \in Closers, CloserCloseChan(k) PROVE NoSilentLoss'
    BY <1>24, LossStutter DEF CloserCloseChan
<1>25. ASSUME NEW k \in Closers, CloserLeave(k) PROVE NoSilentLoss'
    BY <1>25, LossStutter DEF CloserLeave
<1>26. CASE UNCHANGED vars
    BY <1>26, LossStutter
<1> HIDE DEF TypeOK, LockInv, Roles, None, Handler, Closer, InCritical, GPcs, KPcs,
        OnceInv, DataInv, vars, lockVars, clientVars, dataVars, nVars, kVars
<1> QED
    BY <1>1, <1>2, <1>3, <1>4, <1>5, <1>6, <1>7, <1>8, <1>9, <1>10, <1>11, <1>12, <1>13,
       <1>14, <1>15, <1>16, <1>17, <1>18, <1>19, <1>20, <1>21, <1>22, <1>23, <1>24, <1>25, <1>26
    DEF Next, HandlerNext, ReaderNext, WriterNext, ClosingNext, NotifierNext,
        CloserNext

(* The hub starts in a state that satisfies the inductive invariant. *)
LEMMA InitInv == Init => IInv
<1> SUFFICES ASSUME Init PROVE IInv
    OBVIOUS
<1> USE DEF Init, Roles
<1>1. TypeOK
  <2>1. /\ buf \in [Conns -> Seq(Messages)]
        /\ got \in [Conns -> Seq(Messages)]
    OBVIOUS
  <2>2. gpc \in [Roles -> [Conns -> GPcs]] /\ kpc \in [Closers -> KPcs]
    BY DEF GPcs, KPcs
  <2>3. /\ done \in [Conns -> BOOLEAN]
        /\ connOpen \in [Conns -> BOOLEAN]
        /\ closed \in [Conns -> BOOLEAN]
    OBVIOUS
  <2>4. /\ ncount \in [Notifiers -> 0..MaxNotifies]
        /\ kcount \in [Closers -> 0..MaxDeletions]
    BY StreamAssumption
  <2>5. /\ ntodo \in [Notifiers -> SUBSET Conns]
        /\ ktodo \in [Closers -> SUBSET Conns]
        /\ inflight \in [Conns -> Messages \cup {NoMessage}]
        /\ ncall \in [Notifiers -> Calls \cup {NoCall}]
        /\ kcall \in [Closers -> Targets \cup {NoCall}]
        /\ kcur \in [Closers -> Conns \cup {NoConn}]
    OBVIOUS
  <2> QED
    BY <2>1, <2>2, <2>3, <2>4, <2>5 DEF TypeOK
<1>2. LockInv
    BY DEF LockInv, InCritical
<1>3. OnceInv
    BY DEF OnceInv, ClosingRole, ClosingCloser
<1>4. DataInv
    BY DEF DataInv
<1>5. WalkedClientsRegistered /\ NoZombieClient /\ NoSilentLoss
    BY DEF WalkedClientsRegistered, NoZombieClient, NoSilentLoss
<1>6. ClosedOnce
    BY DEF ClosedOnce, ClosingRole, ClosingCloser
<1> QED
    BY <1>1, <1>2, <1>3, <1>4, <1>5, <1>6 DEF IInv

(* IInv is an inductive invariant of the hub of api/stream. *)
THEOREM Invariance == Spec => []IInv
<1>1. IInv /\ [Next]_vars => IInv'
    BY TypeStep, LockStep, OnceStep, DataStep, WalkedStep, ClosedOnceStep,
       ZombieStep, LossStep
    DEF IInv
<1> QED
    BY InitInv, <1>1, PTL DEF Spec

(* The fields of API and client keep their types. *)
THEOREM TypeCorrect == Spec => []TypeOK
BY Invariance, PTL DEF IInv

(* The maps of clients are changed by one deletion at a time and never while a *)
(* Notify walks them (lock.Lock and lock.RLock of stream.go). *)
THEOREM RegistryExclusion == Spec => []ExclusiveRegistry
<1>1. IInv => ExclusiveRegistry
    BY DEF IInv, LockInv, ExclusiveRegistry, Closer
<1> QED
    BY Invariance, <1>1, PTL

(* A client in the slice Notify walks stays in the registry until it was offered *)
(* the message. *)
THEOREM WalkIsStable == Spec => []WalkedClientsRegistered
BY Invariance, PTL DEF IInv

(* close(c.closed) runs at most once per client, whoever races to it (the        *)
(* modified sync.Once of once.go). *)
THEOREM ChannelClosedOnce == Spec => []ClosedOnce
BY Invariance, PTL DEF IInv

(* A closed client is in the registry only while somebody is about to take it    *)
(* out: Close without onClose leaves no zombie, because its caller removes it. *)
THEOREM NoZombies == Spec => []NoZombieClient
BY Invariance, PTL DEF IInv

(* Notify drops a message for a client only when that client is being closed. *)
THEOREM NotifyLosesNothing == Spec => []NoSilentLoss
BY Invariance, PTL DEF IInv

-----------------------------------------------------------------------------
(* Messages: the history of a channel, and a client that pages through it.  *)

PostRows == [parent : Nat, root : Nat, old : BOOLEAN]
Marked == [Readers -> [Ids -> {"none", "dismissed", "archived"}]]
Pages == [archived : BOOLEAN, since : Nat, got : Seq(Nat), at : {"idle", "open", "more", "done"}]

PostsTyped ==
    /\ last \in 0..MaxMessages /\ stored \subseteq 1..last /\ posts \in [stored -> PostRows]
    /\ page \in Pages /\ request = [r \in Requests |-> request[r]]

\* A root that is stored is not a reply.
StartsThread(root) == root \in stored => posts[root].root = 0 /\ posts[root].parent = 0

\* A message has a root exactly if it has a parent, both were stored before it,
\* and what starts a thread starts no reply in another.
RootsKnown ==
    /\ \A m \in stored :
          /\ posts[m].root = 0 <=> posts[m].parent = 0
          /\ posts[m].root \in 0..last /\ (posts[m].root # 0 => StartsThread(posts[m].root))
    /\ \A r \in Requests : request[r].op = "reply" =>
          /\ request[r].root \in 1..last /\ request[r].to \in 1..last
          /\ StartsThread(request[r].root)

\* The messages a deletion has still to take.
Erasing == [op : {"erase"}, ids : Seq(Ids) \ {<<>>}]
ErasuresListed ==
    \A r \in Requests : request[r].op = "erase" => request[r] \in Erasing

ThreadInv == PostsTyped /\ RootsKnown /\ ErasuresListed /\ ThreadsWhole

Descending(s) == \A i, j \in DOMAIN s : i < j => s[i] > s[j]

\* Until the last page, what was always visible has been received or is below the cursor.
PagesSound ==
    /\ Descending(page.got)
    /\ page.at = "idle" => page.got = <<>> /\ page.since = 0
    /\ page.at = "open" => page.got = <<>> /\ page.since = 0 /\ steady \subseteq View
    /\ page.at = "more" =>
          /\ page.got # <<>> /\ page.since = Last(page.got) /\ page.since > 0
          /\ steady \subseteq View
          /\ \A m \in steady : m \in ToSet(page.got) \/ m < page.since
    /\ page.at = "done" => steady \subseteq ToSet(page.got)

\* The places of the members of a set, counted from its newest.
Place(S, m) == Cardinality({n \in S : n >= m})

LEMMA PlacesCount ==
  ASSUME NEW S \in SUBSET Nat, IsFiniteSet(S)
  PROVE  /\ \A m \in S : Place(S, m) \in 1..Cardinality(S)
         /\ \A m, n \in S : m < n <=> Place(S, n) < Place(S, m)
         /\ \A i \in 1..Cardinality(S) : \E m \in S : Place(S, m) = i
<1>1. Cardinality(S) \in Nat
  BY FS_CardinalityType
<1>2. \A m \in S : /\ IsFiniteSet({n \in S : n >= m}) /\ Place(S, m) \in Nat
                   /\ Place(S, m) <= Cardinality(S) /\ Place(S, m) # 0
  <2> SUFFICES ASSUME NEW m \in S
               PROVE  /\ IsFiniteSet({n \in S : n >= m}) /\ Place(S, m) \in Nat
                      /\ Place(S, m) <= Cardinality(S) /\ Place(S, m) # 0
    OBVIOUS
  <2>1. {n \in S : n >= m} \in SUBSET S /\ m \in {n \in S : n >= m}
    OBVIOUS
  <2>2. IsFiniteSet({n \in S : n >= m}) /\ Cardinality({n \in S : n >= m}) <= Cardinality(S)
    BY <2>1, FS_Subset
  <2>3. Cardinality({n \in S : n >= m}) \in Nat /\ Cardinality({n \in S : n >= m}) # 0
    BY <2>1, <2>2, FS_CardinalityType, FS_EmptySet
  <2> QED  BY <2>2, <2>3 DEF Place
<1>3. ASSUME NEW m \in S PROVE Place(S, m) \in 1..Cardinality(S)
  <2>1. Place(S, m) \in Nat /\ Place(S, m) <= Cardinality(S) /\ Place(S, m) # 0
    BY <1>2
  <2> QED  BY <1>1, <2>1
<1>4. ASSUME NEW m \in S, NEW n \in S, m < n
      PROVE  Place(S, n) < Place(S, m)
  <2>1. {k \in S : k >= n} \in SUBSET {k \in S : k >= m}
    <3>1. m \in Nat /\ n \in Nat /\ \A k \in S : k \in Nat
      OBVIOUS
    <3>2. \A k \in S : k >= n => k >= m
      BY <1>4, <3>1
    <3> QED  BY <3>2
  <2>2. m \in {k \in S : k >= m} /\ m \notin {k \in S : k >= n}
    BY <1>4
  <2>3. /\ Cardinality({k \in S : k >= n}) <= Cardinality({k \in S : k >= m})
        /\ Cardinality({k \in S : k >= m}) # Cardinality({k \in S : k >= n})
    BY <1>2, <2>1, <2>2, FS_Subset
  <2> QED  BY <1>2, <2>3 DEF Place
<1>5. \A m, n \in S : m < n <=> Place(S, n) < Place(S, m)
  <2> SUFFICES ASSUME NEW m \in S, NEW n \in S PROVE m < n <=> Place(S, n) < Place(S, m)
    OBVIOUS
  <2>1. m \in Nat /\ n \in Nat /\ Place(S, m) \in Nat /\ Place(S, n) \in Nat
    BY <1>2
  <2>2. (m < n => Place(S, n) < Place(S, m)) /\ (n < m => Place(S, m) < Place(S, n))
    BY <1>4
  <2>3. m = n => Place(S, m) = Place(S, n)
    OBVIOUS
  <2> QED  BY <2>1, <2>2, <2>3
<1>6. ASSUME NEW i \in 1..Cardinality(S) PROVE \E m \in S : Place(S, m) = i
  <2>1. PICK f : f = [m \in S |-> Place(S, m)]
    OBVIOUS
  <2>2. f \in [S -> 1..Cardinality(S)] /\ \A m \in S : f[m] = Place(S, m)
    BY <1>3, <2>1
  <2>3. \A m, n \in S : f[m] = f[n] => m = n
    <3> SUFFICES ASSUME NEW m \in S, NEW n \in S, f[m] = f[n] PROVE m = n
      OBVIOUS
    <3>1. ~(m < n) /\ ~(n < m)
      BY <1>2, <1>5, <2>2
    <3> QED  BY <3>1
  <2>4. f \in Injection(S, 1..Cardinality(S))
    BY <2>2, <2>3 DEF Injection, IsInjective
  <2>5. IsFiniteSet(1..Cardinality(S)) /\ Cardinality(1..Cardinality(S)) = Cardinality(S)
    BY <1>1, FS_Interval
  <2>6. f \in Surjection(S, 1..Cardinality(S))
    BY <2>4, <2>5, FS_Injection
  <2>7. \E m \in S : f[m] = i
    BY <2>6 DEF Surjection
  <2> QED  BY <2>2, <2>7
<1> QED  BY <1>3, <1>5, <1>6

\* Sorted by the database, every member comes once, the newest first.
LEMMA NewestInOrder ==
  ASSUME NEW S \in SUBSET Nat, IsFiniteSet(S), NEW s, s = NewestFirst(S)
  PROVE  /\ Cardinality(S) \in Nat /\ s \in Seq(S) /\ Len(s) = Cardinality(S) /\ Descending(s)
         /\ s \in Seq(Nat) /\ \A i \in 1..Len(s) : s[i] \in S
         /\ \A m \in S : \E i \in 1..Len(s) : s[i] = m
<1>1. Cardinality(S) \in Nat
  BY FS_CardinalityType
<1>2. DOMAIN s = 1..Cardinality(S) /\ \A i \in 1..Cardinality(S) : s[i] \in S /\ Place(S, s[i]) = i
  <2>1. \A i \in 1..Cardinality(S) : s[i] = CHOOSE m \in S : Place(S, m) = i
    BY DEF NewestFirst, Place
  <2> QED  BY <2>1, PlacesCount DEF NewestFirst
<1>3. s \in [1..Cardinality(S) -> S]
  BY <1>2 DEF NewestFirst
<1>4. s \in Seq(S) /\ Len(s) = Cardinality(S) /\ s \in Seq(Nat)
  <2>1. s \in [1..Cardinality(S) -> Nat]
    BY <1>3
  <2> QED  BY <1>1, <1>3, <2>1
<1>5. Descending(s)
  <2> SUFFICES ASSUME NEW i \in 1..Cardinality(S), NEW j \in 1..Cardinality(S), i < j PROVE s[i] > s[j]
    BY <1>2 DEF Descending
  <2>1. s[j] < s[i] <=> Place(S, s[i]) < Place(S, s[j])
    BY <1>2, PlacesCount
  <2> QED  BY <1>2, <2>1
<1>6. ASSUME NEW m \in S PROVE \E i \in 1..Len(s) : s[i] = m
  <2>1. Place(S, m) \in 1..Cardinality(S)
    BY PlacesCount
  <2>2. PICK n \in S : n = s[Place(S, m)] /\ Place(S, n) = Place(S, m)
    BY <1>2, <2>1
  <2>3. ~(m < n) /\ ~(n < m)
    BY <2>1, <2>2, PlacesCount
  <2> QED  BY <1>4, <2>1, <2>2, <2>3
<1> QED  BY <1>1, <1>2, <1>4, <1>5, <1>6

LEMMA OldestListed ==
  ASSUME NEW S \in SUBSET Nat, IsFiniteSet(S), S # {}, NEW T, S \subseteq T
  PROVE  OldestFirst(S) \in Seq(T) /\ OldestFirst(S) # <<>>
<1>1. PICK s : s = NewestFirst(S)
  OBVIOUS
<1>2. Cardinality(S) \in Nat /\ Len(s) = Cardinality(S) /\ \A i \in 1..Len(s) : s[i] \in S
  BY <1>1, NewestInOrder
<1>3. Cardinality(S) # 0
  BY FS_EmptySet
<1>4. OldestFirst(S) = [i \in 1..Len(s) |-> s[(Len(s) - i) + 1]]
  BY <1>1 DEF OldestFirst, Reverse
<1>5. ASSUME NEW i \in 1..Len(s) PROVE s[(Len(s) - i) + 1] \in T
  <2>1. (Len(s) - i) + 1 \in 1..Len(s)
    BY <1>2
  <2> QED  BY <1>2, <2>1
<1>6. OldestFirst(S) \in Seq(T) /\ Len(OldestFirst(S)) = Cardinality(S)
  BY <1>2, <1>4, <1>5
<1> QED  BY <1>3, <1>6

LEMMA StoredFinite ==
  ASSUME PostsTyped
  PROVE  /\ stored \subseteq Nat /\ stored \subseteq Ids /\ IsFiniteSet(stored)
         /\ \A S \in SUBSET stored : IsFiniteSet(S)
<1>1. last \in Nat /\ MaxMessages \in Nat /\ last <= MaxMessages /\ stored \subseteq 1..last
  BY MessageAssumption DEF PostsTyped
<1>2. stored \subseteq Nat /\ stored \subseteq Ids
  BY <1>1 DEF Ids
<1>3. IsFiniteSet(1..last)
  BY <1>1, FS_Interval
<1>4. IsFiniteSet(stored)
  BY <1>1, <1>3, FS_Subset
<1> QED  BY <1>2, <1>4, FS_Subset

\* The page that is read next, and the cursor it leaves.
LEMMA PageRead ==
  ASSUME PostsTyped, NEW answer, answer = buildWithPaging(Fetched)
  PROVE  /\ answer.messages \in Seq(Nat) /\ answer.since \in Nat /\ Descending(answer.messages)
         /\ \A i \in 1..Len(answer.messages) : page.since = 0 \/ answer.messages[i] < page.since
         /\ answer.since # 0 => answer.messages # <<>> /\ answer.since = Last(answer.messages)
         /\ \A m \in View : page.since = 0 \/ m < page.since =>
               \/ \E i \in 1..Len(answer.messages) : answer.messages[i] = m
               \/ answer.since # 0 /\ m < answer.since
<1>1. PICK below : below = {m \in View : page.since = 0 \/ m < page.since}
  OBVIOUS
<1>2. below \in SUBSET Nat /\ IsFiniteSet(below) /\ 0 \notin below
  <2>1. View \subseteq stored
    BY DEF View, archivedMessages, visibleMessages
  <2>2. 0 \notin stored
    BY DEF PostsTyped
  <2> QED  BY <1>1, <2>1, <2>2, StoredFinite
<1>3. PICK s : s = NewestFirst(below)
  OBVIOUS
<1>4. /\ Len(s) \in Nat /\ s \in Seq(Nat) /\ Descending(s)
      /\ \A i \in 1..Len(s) : s[i] \in below
      /\ \A m \in below : \E i \in 1..Len(s) : s[i] = m
  BY <1>2, <1>3, NewestInOrder
<1>5. Fetched = SubSeq(s, 1, IF Len(s) > PageSize THEN PageSize + 1 ELSE Len(s))
  BY <1>1, <1>3 DEF Fetched
<1>6. PageSize \in Nat /\ PageSize > 0
  BY MessageAssumption
<1>7. \A k \in below : k \in Nat /\ k > 0
  BY <1>2
<1>8. CASE Len(s) > PageSize
  <2>1. PICK f : f = Fetched
    OBVIOUS
  <2>2. f \in Seq(Nat) /\ Len(f) = PageSize + 1 /\ \A i \in 1..(PageSize + 1) : f[i] = s[i]
    <3>1. f = SubSeq(s, 1, PageSize + 1)
      BY <1>5, <1>8, <2>1
    <3> QED  BY <1>4, <1>6, <1>8, <3>1
  <2>3. PICK h : h = Front(f)
    OBVIOUS
  <2>4. h \in Seq(Nat) /\ Len(h) = PageSize /\ \A i \in 1..PageSize : h[i] = s[i]
    BY <1>6, <2>2, <2>3 DEF Front
  <2>5. answer = [messages |-> h, since |-> Last(h)]
    BY <1>6, <2>1, <2>2, <2>3 DEF buildWithPaging
  <2>6. answer.messages = h /\ answer.since = s[PageSize] /\ h # <<>> /\ Last(h) = s[PageSize]
    BY <1>6, <2>4, <2>5 DEF Last
  <2>7. DOMAIN h = 1..PageSize /\ DOMAIN s = 1..Len(s)
    BY <1>4, <2>4
  <2>8. Descending(h)
    BY <1>4, <1>6, <1>8, <2>4, <2>7 DEF Descending
  <2>9. \A m \in below : (\E i \in 1..PageSize : h[i] = m) \/ m < s[PageSize]
    <3> SUFFICES ASSUME NEW m \in below PROVE (\E i \in 1..PageSize : h[i] = m) \/ m < s[PageSize]
      OBVIOUS
    <3>1. PICK i \in 1..Len(s) : s[i] = m
      BY <1>4
    <3>2. CASE i <= PageSize
      BY <1>6, <2>4, <3>1, <3>2
    <3>3. CASE i > PageSize
      BY <1>4, <1>6, <1>8, <2>7, <3>1, <3>3 DEF Descending
    <3> QED  BY <1>4, <1>6, <3>2, <3>3
  <2>10. s[PageSize] \in Nat /\ s[PageSize] # 0
    BY <1>6, <1>7, <1>8, <1>4
  <2>11. \A i \in 1..PageSize : h[i] \in below
    <3> SUFFICES ASSUME NEW i \in 1..PageSize PROVE h[i] \in below
      OBVIOUS
    <3>1. i \in 1..Len(s)
      BY <1>4, <1>6, <1>8
    <3> QED  BY <1>4, <2>4, <3>1
  <2> QED  BY <1>1, <2>4, <2>6, <2>8, <2>9, <2>10, <2>11
<1>9. CASE Len(s) <= PageSize
  <2>1. Fetched = s
    BY <1>4, <1>5, <1>6, <1>9
  <2>2. answer = [messages |-> s, since |-> 0]
    BY <1>4, <1>6, <1>9, <2>1 DEF buildWithPaging
  <2>3. answer.messages = s /\ answer.since = 0
    BY <2>2
  <2> QED  BY <1>1, <1>4, <2>3
<1> QED  BY <1>4, <1>6, <1>8, <1>9

\* A request takes a decision, goes on or ends; the posts stay.
LEMMA RequestDecided ==
  ASSUME ThreadInv, NEW r \in Requests, NEW d, request' = [request EXCEPT ![r] = d],
         UNCHANGED <<posts, last, late, page>>,
         d.op = "reply" => d.root \in 1..last /\ d.to \in 1..last /\ StartsThread(d.root),
         d.op = "erase" => d \in Erasing
  PROVE  ThreadInv'
<1>0. PostsTyped /\ RootsKnown /\ ErasuresListed /\ ThreadsWhole
  BY DEF ThreadInv
<1>1. /\ request' = [q \in Requests |-> request'[q]] /\ request'[r] = d
      /\ \A q \in Requests \ {r} : request'[q] = request[q]
  BY <1>0 DEF PostsTyped
<1>2. stored' = stored /\ \A root : StartsThread(root)' <=> StartsThread(root)
  BY DEF stored, StartsThread
<1>3. PostsTyped'
  BY <1>0, <1>1, <1>2 DEF PostsTyped
<1>4. RootsKnown'
  <2>1. \A q \in Requests : request'[q].op = "reply" =>
          /\ request'[q].root \in 1..last /\ request'[q].to \in 1..last
          /\ StartsThread(request'[q].root)
    BY <1>0, <1>1 DEF RootsKnown
  <2> QED  BY <1>0, <1>2, <2>1 DEF RootsKnown
<1>5. ErasuresListed'
  BY <1>0, <1>1 DEF ErasuresListed
<1>6. ThreadsWhole'
  BY <1>0, <1>2 DEF ThreadsWhole
<1> QED  BY <1>3, <1>4, <1>5, <1>6 DEF ThreadInv

LEMMA RequestEnds ==
  ASSUME ThreadInv, NEW r \in Requests, Ends(r), UNCHANGED <<posts, last, late, page>>
  PROVE  ThreadInv'
<1>1. PICK d : d = NoDeed
  OBVIOUS
<1>2. request' = [request EXCEPT ![r] = d] /\ d.op = "none"
  BY <1>1 DEF Ends, NoDeed
<1> QED  BY <1>2, RequestDecided

LEMMA PostsStand ==
  ASSUME ThreadInv, UNCHANGED <<posts, last, late, request>>, page' \in Pages
  PROVE  ThreadInv'
<1>0. PostsTyped /\ RootsKnown /\ ErasuresListed /\ ThreadsWhole
  BY DEF ThreadInv
<1>1. stored' = stored /\ \A root : StartsThread(root)' <=> StartsThread(root)
  BY DEF stored, StartsThread
<1>2. PostsTyped'
  BY <1>0, <1>1 DEF PostsTyped
<1>3. RootsKnown'
  BY <1>0, <1>1 DEF RootsKnown
<1>4. ErasuresListed' /\ ThreadsWhole'
  BY <1>0, <1>1 DEF ErasuresListed, ThreadsWhole
<1> QED  BY <1>2, <1>3, <1>4 DEF ThreadInv

\* A new message has a number that nobody has named as a root.
LEMMA MessageStored ==
  ASSUME ThreadInv, NEW parent, NEW root, Store(parent, root), UNCHANGED page,
         request' = [r \in Requests |-> request'[r]],
         \A r \in Requests : request'[r] = request[r] \/ request'[r] = NoDeed,
         parent \in 0..last, root \in 0..last, root = 0 <=> parent = 0,
         root # 0 => StartsThread(root),
         late' = IF root \in stored \cup {0} THEN late ELSE late \cup {last'}
  PROVE  ThreadInv'
<1>0. PostsTyped /\ RootsKnown /\ ErasuresListed /\ ThreadsWhole
  BY DEF ThreadInv
<1>1. last \in Nat /\ MaxMessages \in Nat /\ last' = last + 1 /\ last' \in 1..MaxMessages /\ last' \notin stored
  BY <1>0, MessageAssumption DEF Store, PostsTyped
<1>2. PICK p : p = [parent |-> parent, root |-> root, old |-> FALSE]
  OBVIOUS
<1>3. p \in PostRows /\ p.parent = parent /\ p.root = root
  BY <1>1, <1>2 DEF PostRows
<1>4. /\ posts' = [m \in stored \cup {last'} |-> IF m = last' THEN p ELSE posts[m]]
      /\ stored' = stored \cup {last'} /\ posts'[last'] = p /\ \A m \in stored : posts'[m] = posts[m]
  <2>1. posts' = [m \in stored \cup {last'} |-> IF m = last' THEN p ELSE posts[m]]
    BY <1>2 DEF Store
  <2> QED  BY <1>1, <2>1 DEF stored
<1>5. ASSUME NEW x \in 1..last, StartsThread(x) PROVE StartsThread(x)'
  BY <1>1, <1>4, <1>5 DEF StartsThread
<1>6. PostsTyped'
  <2>1. posts' \in [stored' -> PostRows]
    BY <1>0, <1>3, <1>4 DEF PostsTyped
  <2>2. stored' \subseteq 1..last'
    BY <1>0, <1>1, <1>4 DEF PostsTyped
  <2> QED  BY <1>0, <1>1, <2>1, <2>2 DEF PostsTyped
<1>7. RootsKnown'
  <2>1. ASSUME NEW m \in stored'
        PROVE  /\ posts'[m].root = 0 <=> posts'[m].parent = 0
               /\ posts'[m].root \in 0..last'
               /\ posts'[m].root # 0 /\ posts'[m].root \in stored' =>
                     posts'[posts'[m].root].root = 0 /\ posts'[posts'[m].root].parent = 0
    <3>1. PICK x : x = posts'[m].root
      OBVIOUS
    <3>2. x \in 0..last /\ (x = 0 <=> posts'[m].parent = 0) /\ (x # 0 => StartsThread(x))
      BY <1>0, <1>3, <1>4, <3>1 DEF RootsKnown
    <3>3. x # 0 => StartsThread(x)'
      BY <1>1, <1>5, <3>2
    <3>4. x \in 0..last'
      BY <1>1, <3>2
    <3> QED  BY <3>1, <3>2, <3>3, <3>4 DEF StartsThread
  <2>2. ASSUME NEW r \in Requests, request'[r].op = "reply"
        PROVE  /\ request'[r].root \in 1..last' /\ request'[r].to \in 1..last'
               /\ request'[r].root \in stored' =>
                     posts'[request'[r].root].root = 0 /\ posts'[request'[r].root].parent = 0
    <3>1. request'[r] = request[r]
      BY <2>2 DEF NoDeed
    <3>2. PICK x : x = request'[r].root
      OBVIOUS
    <3>3. x \in 1..last /\ request'[r].to \in 1..last /\ StartsThread(x)
      BY <1>0, <2>2, <3>1, <3>2 DEF RootsKnown
    <3>4. StartsThread(x)'
      BY <1>5, <3>3
    <3>5. x \in 1..last' /\ request'[r].to \in 1..last'
      BY <1>1, <3>3
    <3> QED  BY <3>2, <3>4, <3>5 DEF StartsThread
  <2> QED  BY <2>1, <2>2 DEF RootsKnown, StartsThread
<1>8. ErasuresListed'
  BY <1>0 DEF ErasuresListed, NoDeed
<1>9. ThreadsWhole'
  <2> SUFFICES ASSUME NEW m \in stored' PROVE posts'[m].root \in stored' \cup {0} \/ m \in late'
    BY DEF ThreadsWhole
  <2>1. CASE m = last'
    BY <1>3, <1>4, <2>1
  <2>2. CASE m \in stored
    BY <1>0, <1>4, <2>2 DEF ThreadsWhole
  <2> QED  BY <1>4, <2>1, <2>2
<1> QED  BY <1>6, <1>7, <1>8, <1>9 DEF ThreadInv

LEMMA MessagesPosted ==
  ASSUME ThreadInv, CreateMessage \/ (\E r \in Requests : StoreReply(r))
  PROVE  ThreadInv'
<1>0. PostsTyped /\ RootsKnown /\ last \in Nat
  BY DEF ThreadInv, PostsTyped
<1>1. CASE CreateMessage
  <2>1. /\ Store(0, 0) /\ UNCHANGED <<page, request, late>>
        /\ request' = [r \in Requests |-> request'[r]]
    BY <1>0, <1>1 DEF CreateMessage, PostsTyped
  <2> QED  BY <1>0, <2>1, MessageStored
<1>2. CASE \E r \in Requests : StoreReply(r)
  <2> PICK r \in Requests : StoreReply(r)
    BY <1>2
  <2>1. PICK root, to : root = request[r].root /\ to = request[r].to
    OBVIOUS
  <2>2. /\ request[r].op = "reply" /\ Store(to, root) /\ UNCHANGED page
        /\ late' = IF root \in stored THEN late ELSE late \cup {last'}
        /\ request' = [request EXCEPT ![r] = NoDeed]
    BY <2>1 DEF StoreReply, Ends
  <2>3. root \in 1..last /\ to \in 1..last /\ StartsThread(root)
    BY <1>0, <2>1, <2>2 DEF RootsKnown
  <2>4. root \in 0..last /\ to \in 0..last /\ root # 0 /\ to # 0
    BY <1>0, <2>3
  <2>5. /\ request' = [q \in Requests |-> request'[q]]
        /\ \A q \in Requests : request'[q] = request[q] \/ request'[q] = NoDeed
    BY <1>0, <2>2 DEF PostsTyped
  <2>6. late' = IF root \in stored \cup {0} THEN late ELSE late \cup {last'}
    BY <2>2, <2>4
  <2> QED  BY <2>2, <2>3, <2>4, <2>5, <2>6, MessageStored
<1> QED  BY <1>1, <1>2

LEMMA MessageAges ==
  ASSUME ThreadInv, Age
  PROVE  ThreadInv'
<1>0. PostsTyped /\ RootsKnown /\ ErasuresListed /\ ThreadsWhole
  BY DEF ThreadInv
<1>1. PICK x : posts' = [posts EXCEPT ![x].old = TRUE] /\ UNCHANGED <<last, request, page, late>>
  BY DEF Age
<1>2. stored' = stored
  BY <1>1 DEF stored
<1>3. \A m \in stored : /\ posts'[m] \in PostRows /\ posts'[m].root = posts[m].root
                        /\ posts'[m].parent = posts[m].parent
  <2> SUFFICES ASSUME NEW m \in stored
               PROVE  /\ posts'[m] \in PostRows /\ posts'[m].root = posts[m].root
                      /\ posts'[m].parent = posts[m].parent
    OBVIOUS
  <2>1. PICK p : p = posts[m]
    OBVIOUS
  <2>2. PICK q : q = [p EXCEPT !.old = TRUE]
    OBVIOUS
  <2>3. p \in PostRows
    BY <1>0, <2>1 DEF PostsTyped
  <2>4. q \in PostRows /\ q.root = p.root /\ q.parent = p.parent
    BY <2>2, <2>3 DEF PostRows
  <2>5. posts'[m] = IF m = x THEN q ELSE p
    BY <1>1, <2>1, <2>2 DEF stored
  <2> QED  BY <2>1, <2>3, <2>4, <2>5
<1>4. posts' = [m \in stored |-> posts'[m]]
  BY <1>0, <1>1 DEF PostsTyped, stored
<1>5. \A root : StartsThread(root)' <=> StartsThread(root)
  BY <1>2, <1>3 DEF StartsThread
<1>6. PostsTyped'
  BY <1>0, <1>1, <1>2, <1>3, <1>4 DEF PostsTyped
<1>7. RootsKnown'
  <2>1. \A m \in stored : /\ posts'[m].root = 0 <=> posts'[m].parent = 0
                          /\ posts'[m].root \in 0..last
                          /\ posts'[m].root # 0 => StartsThread(posts[m].root)
    BY <1>0, <1>3 DEF RootsKnown
  <2>2. \A m \in stored : posts'[m].root # 0 /\ posts'[m].root \in stored' =>
           posts'[posts'[m].root].root = 0 /\ posts'[posts'[m].root].parent = 0
    BY <1>2, <1>3, <2>1 DEF StartsThread
  <2>3. \A r \in Requests : request[r].op = "reply" =>
          /\ request[r].root \in 1..last /\ request[r].to \in 1..last
          /\ request[r].root \in stored' =>
                posts'[request[r].root].root = 0 /\ posts'[request[r].root].parent = 0
    BY <1>0, <1>2, <1>3 DEF RootsKnown, StartsThread
  <2> QED  BY <1>1, <1>2, <2>1, <2>2, <2>3 DEF RootsKnown, StartsThread
<1>8. ErasuresListed'
  BY <1>0, <1>1 DEF ErasuresListed
<1>9. ThreadsWhole'
  BY <1>0, <1>1, <1>2, <1>3 DEF ThreadsWhole
<1> QED  BY <1>6, <1>7, <1>8, <1>9 DEF ThreadInv

\* Messages go with everything that names them as its root.
LEMMA ThreadsErased ==
  ASSUME ThreadInv, NEW gone, Without(gone), UNCHANGED <<last, late, page>>,
         request' = [r \in Requests |-> request'[r]],
         \A r \in Requests : request'[r].op = "reply" => request'[r] = request[r],
         \A r \in Requests : request'[r].op = "erase" => request'[r] \in Erasing,
         \A m \in stored \ gone : posts[m].root \notin gone
  PROVE  ThreadInv'
<1>0. PostsTyped /\ RootsKnown /\ ErasuresListed /\ ThreadsWhole
  BY DEF ThreadInv
<1>1. stored' = stored \ gone /\ \A m \in stored' : posts'[m] = posts[m]
  BY DEF Without, stored
<1>2. \A root : StartsThread(root) => StartsThread(root)'
  BY <1>1 DEF StartsThread
<1>3. posts' = [m \in stored' |-> posts'[m]]
  BY <1>1 DEF Without
<1>4. PostsTyped'
  BY <1>0, <1>1, <1>3 DEF PostsTyped
<1>5. RootsKnown'
  <2>1. \A m \in stored' :
          /\ posts'[m].root = 0 <=> posts'[m].parent = 0
          /\ posts'[m].root \in 0..last
          /\ posts'[m].root # 0 /\ posts'[m].root \in stored' =>
                posts'[posts'[m].root].root = 0 /\ posts'[posts'[m].root].parent = 0
    BY <1>0, <1>1 DEF RootsKnown, StartsThread
  <2>2. \A r \in Requests : request'[r].op = "reply" =>
          /\ request'[r].root \in 1..last /\ request'[r].to \in 1..last
          /\ request'[r].root \in stored' =>
                posts'[request'[r].root].root = 0 /\ posts'[request'[r].root].parent = 0
    BY <1>0, <1>1 DEF RootsKnown, StartsThread
  <2> QED  BY <2>1, <2>2 DEF RootsKnown, StartsThread
<1>6. ErasuresListed'
  BY DEF ErasuresListed
<1>7. ThreadsWhole'
  BY <1>0, <1>1 DEF ThreadsWhole
<1> QED  BY <1>4, <1>5, <1>6, <1>7 DEF ThreadInv

LEMMA DeletionsKeepThreads ==
  ASSUME ThreadInv, NEW r \in Requests, DeleteMessageByID(r) \/ DeleteMessagesByApplication(r)
  PROVE  ThreadInv'
<1>0. PostsTyped /\ RootsKnown /\ ErasuresListed
  BY DEF ThreadInv
<1>1. CASE DeleteMessageByID(r)
  <2>1. PICK ids : ids = request[r].ids
    OBVIOUS
  <2>2. ids \in Seq(Ids) /\ ids # <<>> /\ request[r].op = "erase"
    BY <1>0, <1>1, <2>1 DEF ErasuresListed, DeleteMessageByID, Erasing
  <2>3. PICK id : id = Head(ids)
    OBVIOUS
  <2>4. id # 0
    BY <2>2, <2>3, MessageAssumption DEF Ids
  <2>5. Without(Erased(id)) /\ UNCHANGED <<last, late, page>>
    BY <1>1, <2>1, <2>3 DEF DeleteMessageByID
  <2>6. PICK d : d = IF Len(request[r].ids) = 1 THEN NoDeed ELSE [op |-> "erase", ids |-> Tail(request[r].ids)]
    OBVIOUS
  <2>7. request' = [request EXCEPT ![r] = d]
    BY <1>1, <2>6 DEF DeleteMessageByID
  <2>8. d.op # "reply" /\ (d.op = "erase" => d \in Erasing)
    <3>1. CASE Len(ids) = 1
      BY <2>1, <2>6, <3>1 DEF NoDeed
    <3>2. CASE Len(ids) # 1
      <4>1. PICK t : t = Tail(ids)
        OBVIOUS
      <4>2. Len(ids) \in Nat /\ Len(ids) > 0
        BY <2>2
      <4>3. t \in Seq(Ids) /\ Len(t) = Len(ids) - 1
        BY <2>2, <4>1
      <4>4. t # <<>>
        BY <3>2, <4>2, <4>3
      <4>5. d = [op |-> "erase", ids |-> t]
        BY <2>1, <2>6, <3>2, <4>1
      <4>6. d \in Erasing /\ d.op = "erase"
        BY <4>3, <4>4, <4>5 DEF Erasing
      <4> QED  BY <4>6
    <3> QED  BY <3>1, <3>2
  <2>9. \A m \in stored \ Erased(id) : posts[m].root \notin Erased(id)
    <3> SUFFICES ASSUME NEW m \in stored, m \notin Erased(id), posts[m].root \in Erased(id) PROVE FALSE
      OBVIOUS
    <3>1. PICK x : x = posts[m].root
      OBVIOUS
    <3>2. x \in stored /\ (x = id \/ posts[x].parent = id \/ posts[x].root = id) /\ x # id
      BY <3>1 DEF Erased
    <3>3. x # 0
      BY <1>0, <3>2 DEF PostsTyped
    <3>4. posts[x].root = 0 /\ posts[x].parent = 0
      BY <1>0, <3>1, <3>2, <3>3 DEF RootsKnown, StartsThread
    <3> QED  BY <2>4, <3>2, <3>4
  <2>10. /\ request' = [q \in Requests |-> request'[q]] /\ request'[r] = d
         /\ \A q \in Requests \ {r} : request'[q] = request[q]
    BY <1>0, <2>7 DEF PostsTyped
  <2>11. /\ \A q \in Requests : request'[q].op = "reply" => request'[q] = request[q]
         /\ \A q \in Requests : request'[q].op = "erase" => request'[q] \in Erasing
    BY <1>0, <2>8, <2>10 DEF ErasuresListed
  <2> QED  BY <2>5, <2>9, <2>10, <2>11, ThreadsErased
<1>2. CASE DeleteMessagesByApplication(r)
  <2>1. Without(stored) /\ request' = [request EXCEPT ![r] = NoDeed] /\ UNCHANGED <<last, late, page>>
    BY <1>2 DEF DeleteMessagesByApplication, Ends
  <2>2. /\ request' = [q \in Requests |-> request'[q]]
        /\ \A q \in Requests : request'[q] = request[q] \/ request'[q] = NoDeed
    BY <1>0, <2>1 DEF PostsTyped
  <2>3. NoDeed.op = "none"
    BY DEF NoDeed
  <2>4. /\ \A q \in Requests : request'[q].op = "reply" => request'[q] = request[q]
        /\ \A q \in Requests : request'[q].op = "erase" => request'[q] \in Erasing
    BY <1>0, <2>2, <2>3 DEF ErasuresListed
  <2> QED  BY <2>1, <2>2, <2>4, ThreadsErased
<1> QED  BY <1>1, <1>2

LEMMA RepliesBegin ==
  ASSUME ThreadInv, NEW r \in Requests, NEW u \in Readers, NEW m \in stored, Reply(u, m, r)
  PROVE  ThreadInv'
<1>0. PostsTyped /\ RootsKnown
  BY DEF ThreadInv
<1>1. PICK root : root = IF posts[m].root = 0 THEN m ELSE posts[m].root
  OBVIOUS
<1>2. PICK d : d = [op |-> "reply", to |-> m, root |-> root]
  OBVIOUS
<1>3. request' = [request EXCEPT ![r] = d] /\ UNCHANGED <<posts, last, late, page>>
  BY <1>1, <1>2 DEF Reply, Decides
<1>4. last \in Nat /\ m \in 1..last /\ posts[m].root \in 0..last
      /\ (posts[m].root = 0 => posts[m].parent = 0) /\ (posts[m].root # 0 => StartsThread(posts[m].root))
  BY <1>0 DEF PostsTyped, RootsKnown
<1>5. root \in 1..last /\ StartsThread(root)
  <2>1. CASE posts[m].root = 0
    BY <1>1, <1>4, <2>1 DEF StartsThread
  <2>2. CASE posts[m].root # 0
    BY <1>1, <1>4, <2>2
  <2> QED  BY <2>1, <2>2
<1>6. d.op = "reply" /\ d.root = root /\ d.to = m
  BY <1>2
<1> QED  BY <1>3, <1>4, <1>5, <1>6, RequestDecided

\* Deletions are decided: one message, the old ones, all, or a mark for oneself.
LEMMA DeletionsBegin ==
  ASSUME ThreadInv, NEW r \in Requests,
         \/ \E u \in Readers, m \in stored : DeleteMessage(u, m, r)
         \/ \E u \in Readers : DeleteMessageWithApplication(u, r) \/ DeleteMessagesForEveryone(u, r)
         \/ ApplyMessageRetention(r)
  PROVE  ThreadInv'
<1>0. PostsTyped
  BY DEF ThreadInv
<1>1. ASSUME NEW d, Decides(r, d), UNCHANGED <<posts, last, late, page>>,
             d.op # "reply", d.op = "erase" => d \in Erasing
      PROVE  ThreadInv'
  BY <1>1, RequestDecided DEF Decides
<1>2. ASSUME NEW ids \in Seq(Ids), ids # <<>>, Decides(r, [op |-> "erase", ids |-> ids]),
             UNCHANGED <<posts, last, late, page>>
      PROVE  ThreadInv'
  <2>1. PICK d : d = [op |-> "erase", ids |-> ids]
    OBVIOUS
  <2>2. d \in Erasing /\ d.op = "erase"
    BY <1>2, <2>1 DEF Erasing
  <2> QED  BY <1>1, <1>2, <2>1, <2>2
<1>3. ASSUME NEW u \in Readers, NEW m \in stored, DeleteMessage(u, m, r)
      PROVE  ThreadInv'
  <2>1. CASE Decides(r, [op |-> "erase", ids |-> <<m>>])
    <3>1. <<m>> \in Seq(Ids) /\ <<m>> # <<>>
      BY <1>0, StoredFinite
    <3> QED  BY <1>2, <1>3, <2>1, <3>1 DEF DeleteMessage
  <2>2. CASE Decides(r, [op |-> "dismiss", who |-> u, ids |-> {m}])
    <3>1. PICK d : d = [op |-> "dismiss", who |-> u, ids |-> {m}]
      OBVIOUS
    <3>2. d.op = "dismiss"
      BY <3>1
    <3> QED  BY <1>1, <1>3, <2>2, <3>1, <3>2 DEF DeleteMessage
  <2> QED  BY <1>3, <2>1, <2>2 DEF DeleteMessage
<1>4. ASSUME NEW u \in Readers, DeleteMessageWithApplication(u, r) \/ DeleteMessagesForEveryone(u, r)
      PROVE  ThreadInv'
  <2>1. PICK c : c = [op |-> "clear"]
    OBVIOUS
  <2>2. PICK d : d = [op |-> "dismissAll", who |-> u]
    OBVIOUS
  <2>3. c.op = "clear" /\ d.op = "dismissAll"
    BY <2>1, <2>2
  <2>4. Decides(r, c) \/ Decides(r, d)
    BY <1>4, <2>1, <2>2 DEF DeleteMessageWithApplication, DeleteMessagesForEveryone
  <2>5. UNCHANGED <<posts, last, late, page>>
    BY <1>4 DEF DeleteMessageWithApplication, DeleteMessagesForEveryone
  <2> QED  BY <1>1, <2>3, <2>4, <2>5
<1>5. CASE ApplyMessageRetention(r)
  <2>1. PICK S : S = {m \in stored : posts[m].old}
    OBVIOUS
  <2>2. S \in SUBSET Nat /\ S \subseteq Ids /\ IsFiniteSet(S) /\ S # {}
    BY <1>0, <1>5, <2>1, StoredFinite DEF ApplyMessageRetention
  <2>3. OldestFirst(S) \in Seq(Ids) /\ OldestFirst(S) # <<>>
    BY <2>2, OldestListed
  <2>4. Decides(r, [op |-> "erase", ids |-> OldestFirst(S)]) /\ UNCHANGED <<posts, last, late, page>>
    BY <1>5, <2>1 DEF ApplyMessageRetention
  <2> QED  BY <1>2, <2>3, <2>4
<1> QED  BY <1>3, <1>4, <1>5

LEMMA MarksKeepThreads ==
  ASSUME ThreadInv,
         \/ \E u \in Readers, m \in stored : ArchiveMessage(u, m) \/ UnarchiveMessage(u, m)
         \/ \E u \in Readers : ArchiveMessageWithApplication(u) \/ UnarchiveMessageWithApplication(u)
         \/ \E members \in SUBSET Readers, auto \in BOOLEAN : ChangeMembers(members, auto)
         \/ \E r \in Requests : DismissMessageForUser(r) \/ DismissMessagesByApplicationForUser(r)
  PROVE  ThreadInv'
<1>1. CASE \/ \E u \in Readers, m \in stored : ArchiveMessage(u, m) \/ UnarchiveMessage(u, m)
           \/ \E u \in Readers : ArchiveMessageWithApplication(u) \/ UnarchiveMessageWithApplication(u)
  <2>1. UNCHANGED <<posts, last, late, request, page>>
    BY <1>1 DEF ArchiveMessage, UnarchiveMessage, ArchiveMessageWithApplication,
                UnarchiveMessageWithApplication, Marks
  <2> QED  BY <2>1, PostsStand DEF ThreadInv, PostsTyped
<1>2. CASE \E members \in SUBSET Readers, auto \in BOOLEAN : ChangeMembers(members, auto)
  <2>1. UNCHANGED <<posts, last, late, request, page>>
    BY <1>2 DEF ChangeMembers
  <2> QED  BY <2>1, PostsStand DEF ThreadInv, PostsTyped
<1>3. CASE \E r \in Requests : DismissMessageForUser(r) \/ DismissMessagesByApplicationForUser(r)
  <2>1. PICK r \in Requests : Ends(r) /\ UNCHANGED <<posts, last, late, page>>
    BY <1>3 DEF DismissMessageForUser, DismissMessagesByApplicationForUser
  <2> QED  BY <2>1, RequestEnds
<1> QED  BY <1>1, <1>2, <1>3

\* A client reads; only its page changes.
LEMMA ReadingKeepsThreads ==
  ASSUME ThreadInv, (\E archived \in BOOLEAN : GetMessages(archived)) \/ GetNextPage
  PROVE  ThreadInv'
<1>0. PostsTyped /\ page \in Pages
  BY DEF ThreadInv, PostsTyped
<1>1. UNCHANGED <<posts, last, late, request>>
  BY DEF GetMessages, GetNextPage
<1>2. CASE \E archived \in BOOLEAN : GetMessages(archived)
  <2>1. PICK archived \in BOOLEAN : page' = [page EXCEPT !.archived = archived, !.at = "open"]
    BY <1>2 DEF GetMessages
  <2>2. page' \in Pages
    BY <1>0, <2>1 DEF Pages
  <2> QED  BY <1>1, <2>2, PostsStand
<1>3. CASE GetNextPage
  <2>1. PICK answer : answer = buildWithPaging(Fetched)
    OBVIOUS
  <2>2. answer.messages \in Seq(Nat) /\ answer.since \in Nat
    BY <1>0, <2>1, PageRead
  <2>3. PICK all, at : /\ all = page.got \o answer.messages
                       /\ at = IF answer.since = 0 THEN "done" ELSE "more"
    OBVIOUS
  <2>4. all \in Seq(Nat) /\ at \in {"done", "more"}
    BY <1>0, <2>2, <2>3 DEF Pages
  <2>5. page' = [page EXCEPT !.got = all, !.since = answer.since, !.at = at]
    BY <1>0, <1>3, <2>1, <2>3 DEF GetNextPage, Pages
  <2>6. page' \in Pages
    BY <1>0, <2>2, <2>4, <2>5 DEF Pages
  <2> QED  BY <1>1, <2>6, PostsStand
<1> QED  BY <1>2, <1>3

Watched ==
    steady' = CASE page'.at = "open" -> View'
                [] page'.at \in {"more", "done"} -> steady \cap View'
                [] OTHER -> {}

\* While the client waits, its view changes.
LEMMA PagesWait ==
  ASSUME PagesSound, page' = page, Watched
  PROVE  PagesSound'
<1>1. /\ page.at = "open" => steady' \subseteq View'
      /\ page.at \in {"more", "done"} => steady' \subseteq View' /\ steady' \subseteq steady
  BY DEF Watched
<1> QED  BY <1>1 DEF PagesSound

LEMMA PageOpens ==
  ASSUME PostsTyped, PagesSound, NEW archived \in BOOLEAN, GetMessages(archived), Watched
  PROVE  PagesSound'
<1>1. page' = [page EXCEPT !.archived = archived, !.at = "open"] /\ page.at = "idle"
  BY DEF GetMessages
<1>2. page'.at = "open" /\ page'.got = <<>> /\ page'.since = 0
  BY <1>1 DEF PagesSound, PostsTyped, Pages
<1>3. steady' \subseteq View'
  BY <1>2 DEF Watched
<1> QED  BY <1>2, <1>3 DEF PagesSound, Descending

LEMMA PageFollows ==
  ASSUME PostsTyped, PagesSound, GetNextPage, Watched
  PROVE  PagesSound'
<1>1. PICK answer : answer = buildWithPaging(Fetched)
  OBVIOUS
<1>2. /\ answer.messages \in Seq(Nat) /\ answer.since \in Nat /\ Descending(answer.messages)
      /\ \A i \in 1..Len(answer.messages) : page.since = 0 \/ answer.messages[i] < page.since
      /\ answer.since # 0 => answer.messages # <<>> /\ answer.since = Last(answer.messages)
      /\ \A m \in View : page.since = 0 \/ m < page.since =>
            \/ \E i \in 1..Len(answer.messages) : answer.messages[i] = m
            \/ answer.since # 0 /\ m < answer.since
  BY <1>1, PageRead
<1>3. PICK before, new : before = page.got /\ new = answer.messages
  OBVIOUS
<1>4. before \in Seq(Nat) /\ new \in Seq(Nat) /\ Len(before) \in Nat /\ Len(new) \in Nat
      /\ page.since \in Nat
  BY <1>2, <1>3 DEF PostsTyped, Pages
<1>5. PICK all, at : all = before \o new /\ at = IF answer.since = 0 THEN "done" ELSE "more"
  OBVIOUS
<1>6. /\ page'.got = all /\ page'.since = answer.since /\ page'.at = at
      /\ page'.archived = page.archived
  BY <1>1, <1>3, <1>5 DEF GetNextPage, PostsTyped, Pages
<1>7. /\ all \in Seq(Nat) /\ Len(all) = Len(before) + Len(new)
      /\ \A i \in 1..Len(before) : all[i] = before[i]
      /\ \A i \in 1..Len(new) : all[Len(before) + i] = new[i]
  BY <1>4, <1>5
<1>8. View' = View
  <2>1. UNCHANGED <<posts, mark, joined>>
    BY DEF GetNextPage
  <2> QED  BY <1>6, <2>1 DEF View, archivedMessages, visibleMessages, stored
<1>9. /\ page.at \in {"open", "more"} /\ steady \subseteq View
      /\ page.at = "open" => before = <<>> /\ page.since = 0
      /\ page.at = "more" => before # <<>> /\ page.since = Last(before) /\ page.since > 0
      /\ page.at = "more" => \A m \in steady : m \in ToSet(before) \/ m < page.since
  BY <1>3 DEF GetNextPage, PagesSound
<1>10. Descending(all)
  <2>1. /\ DOMAIN all = 1..Len(all) /\ DOMAIN before = 1..Len(before) /\ DOMAIN new = 1..Len(new)
        /\ Descending(before) /\ Descending(new)
    BY <1>2, <1>3, <1>4, <1>7 DEF PagesSound
  <2>2. ASSUME NEW i \in 1..Len(before), NEW k \in 1..Len(new)
        PROVE  before[i] > new[k]
    <3>1. page.at = "more" /\ Len(before) > 0 /\ before # <<>>
      BY <1>4, <1>9, <2>2
    <3>2. page.since = before[Len(before)] /\ page.since > 0
      BY <1>9, <3>1 DEF Last
    <3>3. before[i] >= page.since
      <4>1. CASE i = Len(before)
        BY <1>4, <3>2, <4>1
      <4>2. CASE i < Len(before)
        <5>1. before[i] > before[Len(before)]
          <6>1. i \in DOMAIN before /\ Len(before) \in DOMAIN before
            BY <1>4, <2>1, <3>1
          <6> QED  BY <2>1, <4>2, <6>1 DEF Descending
        <5> QED  BY <1>4, <3>2, <5>1
      <4> QED  BY <1>4, <4>1, <4>2
    <3>4. new[k] < page.since /\ new[k] \in Nat /\ before[i] \in Nat
      <4>1. page.since # 0
        BY <1>4, <3>2
      <4>2. new[k] < page.since
        BY <1>2, <1>3, <4>1
      <4> QED  BY <1>4, <4>2
    <3> QED  BY <1>4, <3>3, <3>4
  <2> SUFFICES ASSUME NEW i \in 1..Len(all), NEW j \in 1..Len(all), i < j PROVE all[i] > all[j]
    BY <2>1 DEF Descending
  <2>3. CASE j <= Len(before)
    <3>1. i \in 1..Len(before) /\ j \in 1..Len(before)
      BY <1>4, <2>3
    <3>2. before[i] > before[j]
      BY <2>1, <3>1 DEF Descending
    <3> QED  BY <1>7, <3>1, <3>2
  <2>4. CASE j > Len(before)
    <3>1. PICK k \in 1..Len(new) : j = Len(before) + k
      <4>1. j - Len(before) \in 1..Len(new) /\ j = Len(before) + (j - Len(before))
        <5>1. Len(all) \in Int /\ Len(before) \in Int /\ Len(new) \in Int /\ j \in Int /\ j <= Len(all)
          BY <1>4, <1>7
        <5>2. Len(all) = Len(before) + Len(new)
          BY <1>7
        <5> QED  BY ONLY <2>4, <5>1, <5>2
      <4> QED  BY <4>1
    <3>2. all[j] = new[k]
      BY <1>7, <3>1
    <3>3. CASE i <= Len(before)
      <4>1. i \in 1..Len(before)
        BY <1>4, <3>3
      <4> QED  BY <1>7, <2>2, <3>2, <4>1
    <3>4. CASE i > Len(before)
      <4>1. PICK h \in 1..Len(new) : i = Len(before) + h
        <5>1. i - Len(before) \in 1..Len(new) /\ i = Len(before) + (i - Len(before))
          <6>1. Len(all) \in Int /\ Len(before) \in Int /\ Len(new) \in Int /\ i \in Int /\ i <= Len(all)
            BY <1>4, <1>7
          <6>2. Len(all) = Len(before) + Len(new)
            BY <1>7
          <6> QED  BY ONLY <3>4, <6>1, <6>2
        <5> QED  BY <5>1
      <4>2. h < k
        BY <1>4, <3>1, <4>1
      <4>3. new[h] > new[k]
        BY <2>1, <4>2 DEF Descending
      <4> QED  BY <1>7, <3>2, <4>1, <4>3
    <3> QED  BY <1>4, <3>3, <3>4
  <2> QED  BY <1>4, <1>7, <2>3, <2>4
<1>11. \A m \in steady : m \in ToSet(all) \/ (answer.since # 0 /\ m < answer.since)
  <2> SUFFICES ASSUME NEW m \in steady, ~(answer.since # 0 /\ m < answer.since) PROVE m \in ToSet(all)
    OBVIOUS
  <2>1. m \in View
    BY <1>9
  <2>2. CASE page.since = 0 \/ m < page.since
    <3>1. PICK i \in 1..Len(new) : new[i] = m
      BY <1>2, <1>3, <2>1, <2>2
    <3>2. Len(before) + i \in DOMAIN all /\ all[Len(before) + i] = m
      BY <1>4, <1>7, <3>1
    <3> QED  BY <3>2 DEF ToSet
  <2>3. CASE page.since # 0 /\ ~(m < page.since)
    <3>1. m \in ToSet(before)
      BY <1>9, <2>3
    <3>2. PICK i \in 1..Len(before) : before[i] = m
      BY <1>4, <3>1 DEF ToSet
    <3>3. i \in DOMAIN all /\ all[i] = m
      BY <1>4, <1>7, <3>2
    <3> QED  BY <3>3 DEF ToSet
  <2> QED  BY <2>2, <2>3
<1>12. at \in {"more", "done"} /\ (at = "more" <=> answer.since # 0)
  BY <1>5
<1>13. steady' \subseteq steady /\ steady' \subseteq View'
  BY <1>6, <1>12 DEF Watched
<1>14. at = "more" => all # <<>> /\ answer.since = Last(all)
  <2> SUFFICES ASSUME at = "more" PROVE all # <<>> /\ answer.since = Last(all)
    OBVIOUS
  <2>1. new # <<>> /\ answer.since = new[Len(new)]
    BY <1>2, <1>3, <1>12 DEF Last
  <2>2. Len(new) > 0
    BY <1>4, <2>1
  <2>3. Len(all) = Len(before) + Len(new) /\ all[Len(before) + Len(new)] = new[Len(new)]
    BY <1>4, <1>7, <2>2
  <2>4. all # <<>>
    BY <1>4, <1>7, <2>2
  <2> QED  BY <2>1, <2>3, <2>4 DEF Last
<1>15. /\ at = "more" => answer.since > 0 /\ \A m \in steady' : m \in ToSet(all) \/ m < answer.since
       /\ at = "done" => steady' \subseteq ToSet(all)
  BY <1>2, <1>11, <1>12, <1>13
<1> QED  BY <1>6, <1>10, <1>12, <1>13, <1>14, <1>15 DEF PagesSound

MessageInv == ThreadInv /\ PagesSound

LEMMA MessagesInitially == MessageInit => MessageInv
<1> SUFFICES ASSUME MessageInit PROVE MessageInv
  OBVIOUS
<1>1. /\ stored = {} /\ \A r \in Requests : request[r] = NoDeed
      /\ NoDeed.op = "none" /\ 0 \in 0..MaxMessages
  BY MessageAssumption DEF MessageInit, stored, NoDeed
<1>2. page \in Pages
  <2>1. <<>> \in Seq(Nat)
    OBVIOUS
  <2> QED  BY <2>1 DEF MessageInit, Pages
<1>3. PostsTyped
  <2>1. posts \in [stored -> PostRows]
    BY <1>1 DEF MessageInit
  <2> QED  BY <1>1, <1>2, <2>1 DEF MessageInit, PostsTyped
<1>4. RootsKnown /\ ErasuresListed /\ ThreadsWhole
  BY <1>1 DEF RootsKnown, ErasuresListed, ThreadsWhole
<1>5. PagesSound
  BY DEF MessageInit, PagesSound, Descending
<1> QED  BY <1>3, <1>4, <1>5 DEF MessageInv, ThreadInv

LEMMA MessageStep ==
  ASSUME MessageInv, [MessageNext]_messageVars
  PROVE  MessageInv'
<1>0. ThreadInv /\ PagesSound /\ PostsTyped
  BY DEF MessageInv, ThreadInv
<1>1. CASE MessageNext
  <2>1. Watched
    BY <1>1 DEF MessageNext, Watched
  <2>2. CASE CreateMessage \/ (\E r \in Requests : StoreReply(r))
    <3>1. page' = page
      BY <2>2 DEF CreateMessage, StoreReply
    <3> QED  BY <1>0, <2>1, <2>2, <3>1, MessagesPosted, PagesWait DEF MessageInv
  <2>3. CASE Age
    <3>1. page' = page
      BY <2>3 DEF Age
    <3> QED  BY <1>0, <2>1, <2>3, <3>1, MessageAges, PagesWait DEF MessageInv
  <2>4. CASE \E u \in Readers, m \in stored, r \in Requests : Reply(u, m, r)
    <3>1. page' = page
      BY <2>4 DEF Reply
    <3> QED  BY <1>0, <2>1, <2>4, <3>1, RepliesBegin, PagesWait DEF MessageInv
  <2>5. CASE \E r \in Requests :
                \/ \E u \in Readers, m \in stored : DeleteMessage(u, m, r)
                \/ \E u \in Readers : DeleteMessageWithApplication(u, r) \/ DeleteMessagesForEveryone(u, r)
                \/ ApplyMessageRetention(r)
    <3>1. page' = page
      BY <2>5 DEF DeleteMessage, DeleteMessageWithApplication, DeleteMessagesForEveryone, ApplyMessageRetention
    <3> QED  BY <1>0, <2>1, <2>5, <3>1, DeletionsBegin, PagesWait DEF MessageInv
  <2>6. CASE \/ \E u \in Readers, m \in stored : ArchiveMessage(u, m) \/ UnarchiveMessage(u, m)
             \/ \E u \in Readers : ArchiveMessageWithApplication(u) \/ UnarchiveMessageWithApplication(u)
             \/ \E members \in SUBSET Readers, auto \in BOOLEAN : ChangeMembers(members, auto)
             \/ \E r \in Requests : DismissMessageForUser(r) \/ DismissMessagesByApplicationForUser(r)
    <3>1. page' = page
      BY <2>6 DEF ArchiveMessage, UnarchiveMessage, ArchiveMessageWithApplication, UnarchiveMessageWithApplication,
                  Marks, ChangeMembers, DismissMessageForUser, DismissMessagesByApplicationForUser
    <3> QED  BY <1>0, <2>1, <2>6, <3>1, MarksKeepThreads, PagesWait DEF MessageInv
  <2>7. CASE \E r \in Requests : DeleteMessageByID(r) \/ DeleteMessagesByApplication(r)
    <3>1. page' = page
      BY <2>7 DEF DeleteMessageByID, DeleteMessagesByApplication
    <3> QED  BY <1>0, <2>1, <2>7, <3>1, DeletionsKeepThreads, PagesWait DEF MessageInv
  <2>8. CASE \E archived \in BOOLEAN : GetMessages(archived)
    BY <1>0, <2>1, <2>8, ReadingKeepsThreads, PageOpens DEF MessageInv
  <2>9. CASE GetNextPage
    BY <1>0, <2>1, <2>9, ReadingKeepsThreads, PageFollows DEF MessageInv
  <2> QED  BY <1>1, <2>2, <2>3, <2>4, <2>5, <2>6, <2>7, <2>8, <2>9 DEF MessageNext
<1>2. CASE UNCHANGED messageVars
  <2>1. /\ UNCHANGED <<posts, last, late, request, page>> /\ steady' = steady /\ View' = View
        /\ page' \in Pages
    BY <1>0, <1>2 DEF messageVars, View, archivedMessages, visibleMessages, stored, PostsTyped
  <2>2. ThreadInv'
    BY <1>0, <2>1, PostsStand
  <2>3. PagesSound'
    BY <1>0, <2>1 DEF PagesSound
  <2> QED  BY <2>2, <2>3 DEF MessageInv
<1> QED  BY <1>1, <1>2

LEMMA MessageInvariance == MessageSpec => []MessageInv
BY MessagesInitially, MessageStep, PTL DEF MessageSpec

\* A stored reply has the root of its thread, whatever is deleted or retained
\* meanwhile, unless the root went while the reply was being sent
\* (database/message.go DeleteMessageByID).
THEOREM ThreadsStayWhole == MessageSpec => []ThreadsWhole
<1>1. MessageInv => ThreadsWhole
  BY DEF MessageInv, ThreadInv
<1> QED  BY <1>1, MessageInvariance, PTL

\* A client that reads page by page receives what it could see all the time, each
\* message once and the newest first (api/message.go buildWithPaging).
THEOREM PagesMissNothing == MessageSpec => []PagingComplete
<1>1. MessageInv => PagingComplete
  BY DEF MessageInv, PagesSound, PagingComplete, Descending
<1> QED  BY <1>1, MessageInvariance, PTL

-----------------------------------------------------------------------------
(* Collaboration: attachments, and the other rows of a message.            *)

Uploads == [at : {"file", "row", "undo"}, op : {"send", "upload"}, msg : Nat, left : Int, file : Nat, mine : SUBSET Nat]
Erasures == [at : {"message", "remove"}, op : {"delete"}, msg : Nat, mine : SUBSET Nat]
Removals == [at : {"unlink", "remove"}, op : {"send", "detach"}, mine : SUBSET Nat]
Notings == [at : {"note"}, op : {"reaction", "read"}, who : Authors, msg : Nat, add : BOOLEAN]
FlowRows == [assigned : Authors \cup {Nobody}, status : {"none", "open", "resolved"}, by : Authors \cup {Nobody}]
Flowings == [at : {"flow"}, op : {"assign", "status"}, msg : Nat, new : FlowRows]
Jobs == {Resting} \cup Uploads \cup Erasures \cup Removals \cup Notings \cup Flowings

JobsTyped ==
    /\ work = [w \in Works |-> work[w]] /\ \A w \in Works : work[w] \in Jobs
    /\ flow \in [Texts -> FlowRows]
    /\ named \in Nat /\ sends \in 0..MaxSends /\ written \subseteq 1..sends

Waiting(j) == j.at = "row"
Claiming(j) == j.at \in {"file", "row", "undo", "unlink", "message", "remove"}

\* What a request will remove has no row any more, or the row of its message,
\* or of the message whose removal failed.
MineKnown(j) ==
    \A f \in j.mine \cap rowNames :
        /\ j.at \in {"file", "row", "undo", "message"} => attached[f] = j.msg
        /\ j.at = "remove" => attached[f] \in botched

NamesDrawn ==
    /\ rowNames \subseteq 1..named
    /\ \A w \in Works : /\ Waiting(work[w]) => work[w].file \in 1..named
                        /\ Claiming(work[w]) => work[w].mine \subseteq 1..named /\ MineKnown(work[w])

\* A file that waits for its row is nobody else's.
WaitingFresh ==
    \A w \in Works : Waiting(work[w]) =>
        /\ work[w].file \in disk \cup swept /\ work[w].file \notin rowNames
        /\ \A v \in Works : /\ v # w /\ Waiting(work[v]) => work[v].file # work[w].file
                            /\ Claiming(work[v]) => work[w].file \notin work[v].mine

AttachmentsSound == NamesDrawn /\ WaitingFresh /\ RowsBacked

CollaborationInv == JobsTyped /\ AttachmentsSound /\ NothingLeftBehind

\* The fields that the kind of a job has.
LEMMA JobKinds ==
  ASSUME NEW j \in Jobs
  PROVE  /\ j.at \in {"file", "row", "undo"} => j \in Uploads
         /\ j.at = "message" => j \in Erasures
         /\ j.at = "unlink" => j \in Removals
         /\ j.at = "remove" => j \in Erasures \cup Removals
         /\ j.at = "note" => j \in Notings
         /\ j.at = "flow" => j \in Flowings
BY DEF Jobs, Resting, Uploads, Erasures, Removals, Notings, Flowings

LEMMA OneJob ==
  ASSUME JobsTyped, NEW w \in Works, NEW j, work' = [work EXCEPT ![w] = j]
  PROVE  /\ work' = [v \in Works |-> work'[v]] /\ work'[w] = j
         /\ \A v \in Works \ {w} : work'[v] = work[v]
BY DEF JobsTyped

\* Requests go on, and rows and files may go, but no file that keeps its row or
\* waits for it.
LEMMA NothingTaken ==
  ASSUME AttachmentsSound, named' = named, botched \subseteq botched',
         rowNames' \subseteq rowNames, \A f \in rowNames' : attached'[f] = attached[f],
         \A f \in disk \cup swept :
            \/ f \in disk' \cup swept'
            \/ /\ f \in rowNames' => attached'[f] \in botched'
               /\ \A v \in Works : Waiting(work'[v]) => work'[v].file # f,
         \A v \in Works :
            \/ work'[v] = work[v]
            \/ /\ ~Waiting(work'[v])
               /\ Claiming(work'[v]) =>
                     /\ work'[v].mine \subseteq 1..named /\ MineKnown(work[v])'
                     /\ \A u \in Works : Waiting(work'[u]) => work'[u].file \notin work'[v].mine
  PROVE  AttachmentsSound'
<1>1. NamesDrawn /\ WaitingFresh /\ RowsBacked
  BY DEF AttachmentsSound
<1>2. \A v \in Works : work'[v] = work[v] /\ MineKnown(work[v]) => MineKnown(work[v])'
  BY DEF MineKnown
<1>3. NamesDrawn'
  <2>1. \A v \in Works : /\ Waiting(work'[v]) => work'[v].file \in 1..named
                         /\ Claiming(work'[v]) => work'[v].mine \subseteq 1..named /\ MineKnown(work[v])'
    BY <1>1, <1>2 DEF NamesDrawn
  <2> QED  BY <1>1, <2>1 DEF NamesDrawn, Waiting, Claiming
<1>4. WaitingFresh'
  <2> SUFFICES ASSUME NEW v \in Works, Waiting(work'[v])
               PROVE  /\ work'[v].file \in disk' \cup swept' /\ work'[v].file \notin rowNames'
                      /\ \A u \in Works : /\ u # v /\ Waiting(work'[u]) => work'[u].file # work'[v].file
                                          /\ Claiming(work'[u]) => work'[v].file \notin work'[u].mine
    BY DEF WaitingFresh, Waiting, Claiming
  <2>1. work'[v] = work[v] /\ Waiting(work[v])
    OBVIOUS
  <2>2. /\ work[v].file \in disk \cup swept /\ work[v].file \notin rowNames
        /\ \A u \in Works : /\ u # v /\ Waiting(work[u]) => work[u].file # work[v].file
                            /\ Claiming(work[u]) => work[v].file \notin work[u].mine
    BY <1>1, <2>1 DEF WaitingFresh
  <2>3. work'[v].file \in disk' \cup swept' /\ work'[v].file \notin rowNames'
    BY <2>1, <2>2
  <2>4. \A u \in Works : /\ u # v /\ Waiting(work'[u]) => work'[u].file # work'[v].file
                         /\ Claiming(work'[u]) => work'[v].file \notin work'[u].mine
    BY <2>1, <2>2
  <2> QED  BY <2>3, <2>4
<1>5. RowsBacked'
  BY <1>1 DEF RowsBacked
<1> QED  BY <1>3, <1>4, <1>5 DEF AttachmentsSound

\* A request goes on to a job that has no file to take.
LEMMA JobChanges ==
  ASSUME JobsTyped, AttachmentsSound, NEW w \in Works, NEW j, work' = [work EXCEPT ![w] = j],
         UNCHANGED <<disk, attached, named, swept, botched>>, ~Waiting(j),
         Claiming(j) => /\ j.mine \subseteq 1..named /\ MineKnown(j)
                        /\ \A v \in Works \ {w} : Waiting(work[v]) => work[v].file \notin j.mine
  PROVE  AttachmentsSound'
<1>1. work'[w] = j /\ \A v \in Works \ {w} : work'[v] = work[v]
  BY OneJob
<1>2. rowNames' = rowNames
  BY DEF rowNames
<1>3. MineKnown(j) => MineKnown(work[w])'
  BY <1>1, <1>2 DEF MineKnown
<1>4. \A v \in Works :
         \/ work'[v] = work[v]
         \/ /\ ~Waiting(work'[v])
            /\ Claiming(work'[v]) =>
                  /\ work'[v].mine \subseteq 1..named /\ MineKnown(work[v])'
                  /\ \A u \in Works : Waiting(work'[u]) => work'[u].file \notin work'[v].mine
  BY <1>1, <1>3
<1> QED  BY <1>2, <1>4, NothingTaken

LEMMA JobTyped ==
  ASSUME JobsTyped, NEW w \in Works, NEW j \in Jobs, work' = [work EXCEPT ![w] = j],
         UNCHANGED <<texts, flow, named, sends>>
  PROVE  JobsTyped'
<1>1. /\ work' = [v \in Works |-> work'[v]] /\ work'[w] = j
      /\ \A v \in Works \ {w} : work'[v] = work[v]
  BY OneJob
<1>2. written' = written
  BY DEF written
<1> QED  BY <1>1, <1>2 DEF JobsTyped

LEMMA NothingWritten ==
  ASSUME NothingLeftBehind, UNCHANGED <<texts, attached, flow, notes, overlapped>>
  PROVE  NothingLeftBehind'
<1>1. written' = written /\ rowNames' = rowNames /\ \A m : RowsOf(m)' = RowsOf(m)
  BY DEF written, rowNames, RowsOf
<1> QED  BY <1>1 DEF NothingLeftBehind

\* A request begins: it decides what it is about to do.
LEMMA RequestBegins ==
  ASSUME CollaborationInv, NEW w \in Works, NEW j \in Jobs, work' = [work EXCEPT ![w] = j],
         UNCHANGED <<texts, disk, attached, flow, notes, overlapped, named, sends, swept, botched>>,
         ~Claiming(j)
  PROVE  CollaborationInv'
<1>1. JobsTyped /\ AttachmentsSound /\ NothingLeftBehind
  BY DEF CollaborationInv
<1>2. ~Waiting(j)
  BY DEF Waiting, Claiming
<1> QED  BY <1>1, <1>2, JobTyped, JobChanges, NothingWritten DEF CollaborationInv

LEMMA TextNumbers ==
  ASSUME JobsTyped, NEW m \in written
  PROVE  m \in Texts /\ m \in Nat /\ flow[m] \in FlowRows
BY CollaborationAssumption DEF JobsTyped, Texts

LEMMA NoteBegins ==
  ASSUME CollaborationInv, NEW w \in Works, NEW u \in Authors, NEW m \in written,
         AddReaction(u, m, w) \/ DeleteReaction(u, m, w) \/ MarkRead(u, m, w) \/ MarkUnread(u, m, w)
  PROVE  CollaborationInv'
<1>1. PICK kind \in {"reaction", "read"}, add \in BOOLEAN : Annotate(kind, u, m, add, w)
  BY DEF AddReaction, DeleteReaction, MarkRead, MarkUnread
<1>2. PICK j : j = [at |-> "note", op |-> kind, who |-> u, msg |-> m, add |-> add]
  OBVIOUS
<1>3. j \in Notings /\ j.at = "note"
  BY <1>2, TextNumbers DEF CollaborationInv, Notings
<1>4. j \in Jobs /\ ~Claiming(j)
  BY <1>3 DEF Jobs, Claiming
<1>5. /\ work' = [work EXCEPT ![w] = j]
      /\ UNCHANGED <<texts, disk, attached, flow, notes, overlapped, named, sends, swept, botched>>
  BY <1>1, <1>2 DEF Annotate, Starts, requestVars
<1> QED  BY <1>4, <1>5, RequestBegins

LEMMA FlowBegins ==
  ASSUME CollaborationInv, NEW w \in Works, NEW u \in Authors, NEW m \in written,
         \/ \E to \in Authors \cup {Nobody} : Assign(u, to, m, w)
         \/ \E status \in {"open", "resolved"} : SetStatus(u, status, m, w)
  PROVE  CollaborationInv'
<1>1. m \in Nat /\ flow[m] \in FlowRows
  BY TextNumbers DEF CollaborationInv
<1>2. ASSUME NEW op \in {"assign", "status"}, NEW n \in FlowRows,
             Starts(w, [at |-> "flow", op |-> op, msg |-> m, new |-> n]),
             UNCHANGED <<texts, disk, attached, flow, notes, overlapped, requestVars>>
      PROVE  CollaborationInv'
  <2>1. PICK j : j = [at |-> "flow", op |-> op, msg |-> m, new |-> n]
    OBVIOUS
  <2>2. j \in Flowings /\ j.at = "flow"
    BY <1>1, <2>1 DEF Flowings
  <2>3. j \in Jobs /\ ~Claiming(j)
    BY <2>2 DEF Jobs, Claiming
  <2>4. /\ work' = [work EXCEPT ![w] = j]
        /\ UNCHANGED <<texts, disk, attached, flow, notes, overlapped, named, sends, swept, botched>>
    BY <1>2, <2>1 DEF Starts, requestVars
  <2> QED  BY <2>3, <2>4, RequestBegins
<1>3. ASSUME NEW to \in Authors \cup {Nobody}, Assign(u, to, m, w)
      PROVE  CollaborationInv'
  <2>1. Opened(flow[m]) \in FlowRows
    BY <1>1 DEF Opened, FlowRows
  <2>2. PICK n : n = [Opened(flow[m]) EXCEPT !.assigned = to]
    OBVIOUS
  <2>3. n \in FlowRows
    BY <2>1, <2>2 DEF FlowRows
  <2> QED  BY <1>2, <1>3, <2>2, <2>3 DEF Assign
<1>4. ASSUME NEW status \in {"open", "resolved"}, SetStatus(u, status, m, w)
      PROVE  CollaborationInv'
  <2>1. PICK f : f = flow[m]
    OBVIOUS
  <2>2. PICK g : g = [f EXCEPT !.status = status]
    OBVIOUS
  <2>3. g \in FlowRows
    BY <1>1, <2>1, <2>2 DEF FlowRows
  <2>4. PICK n : n = [g EXCEPT !.by = IF status = "resolved" THEN u ELSE Nobody]
    OBVIOUS
  <2>5. n \in FlowRows
    BY <2>3, <2>4 DEF FlowRows
  <2>6. n = [flow[m] EXCEPT !.status = status, !.by = IF status = "resolved" THEN u ELSE Nobody]
    BY <2>1, <2>2, <2>4
  <2> QED  BY <1>2, <1>4, <2>5, <2>6 DEF SetStatus
<1> QED  BY <1>3, <1>4

LEMMA RequestOnFiles ==
  ASSUME CollaborationInv, NEW w \in Works,
         \/ \E u \in Authors, m \in written : UploadAttachment(m, w) \/ deleteMessageCompletely(u, m, w)
         \/ \E u \in Authors, f \in rowNames : DeleteAttachment(u, f, w)
  PROVE  CollaborationInv'
<1>0. JobsTyped /\ AttachmentsSound /\ NothingLeftBehind /\ NamesDrawn /\ WaitingFresh
  BY DEF CollaborationInv, AttachmentsSound
<1>1. ASSUME NEW j \in Jobs, work' = [work EXCEPT ![w] = j], ~Waiting(j), MineKnown(j), j.mine \subseteq rowNames,
             UNCHANGED <<texts, disk, attached, flow, notes, overlapped, named, sends, swept, botched>>
      PROVE  CollaborationInv'
  <2>1. j.mine \subseteq 1..named /\ \A v \in Works : Waiting(work[v]) => work[v].file \notin j.mine
    BY <1>0, <1>1 DEF NamesDrawn, WaitingFresh
  <2> QED  BY <1>0, <1>1, <2>1, JobTyped, JobChanges, NothingWritten DEF CollaborationInv
<1>2. rowNames \subseteq Nat
  BY <1>0 DEF NamesDrawn, JobsTyped
<1>3. ASSUME NEW m \in written, UploadAttachment(m, w)
      PROVE  CollaborationInv'
  <2>1. PICK j : j = [at |-> "file", op |-> "upload", msg |-> m, left |-> 1, file |-> 0, mine |-> {}]
    OBVIOUS
  <2>2. j \in Uploads /\ j.at = "file" /\ j.mine = {}
    BY <1>0, <2>1, TextNumbers DEF Uploads
  <2>3. j \in Jobs /\ ~Waiting(j) /\ MineKnown(j) /\ j.mine \subseteq rowNames
    BY <2>2 DEF Jobs, Waiting, MineKnown
  <2> QED  BY <1>1, <1>3, <2>1, <2>3 DEF UploadAttachment, Starts, requestVars
<1>4. ASSUME NEW u \in Authors, NEW m \in written, deleteMessageCompletely(u, m, w)
      PROVE  CollaborationInv'
  <2>1. PICK j : j = [at |-> "message", op |-> "delete", msg |-> m, mine |-> RowsOf(m)]
    OBVIOUS
  <2>2. RowsOf(m) \subseteq rowNames /\ \A f \in RowsOf(m) : attached[f] = m
    BY DEF RowsOf
  <2>3. j \in Erasures /\ j.at = "message" /\ j.mine = RowsOf(m) /\ j.msg = m
    BY <1>0, <1>2, <2>1, <2>2, TextNumbers DEF Erasures
  <2>4. j \in Jobs /\ ~Waiting(j) /\ MineKnown(j) /\ j.mine \subseteq rowNames
    BY <2>2, <2>3 DEF Jobs, Waiting, MineKnown
  <2> QED  BY <1>1, <1>4, <2>1, <2>4 DEF deleteMessageCompletely, Starts, requestVars
<1>5. ASSUME NEW u \in Authors, NEW f \in rowNames, DeleteAttachment(u, f, w)
      PROVE  CollaborationInv'
  <2>1. PICK j : j = [at |-> "unlink", op |-> "detach", mine |-> {f}]
    OBVIOUS
  <2>2. j \in Removals /\ j.at = "unlink" /\ j.mine = {f}
    BY <1>2, <2>1 DEF Removals
  <2>3. j \in Jobs /\ ~Waiting(j) /\ MineKnown(j) /\ j.mine \subseteq rowNames
    BY <2>2 DEF Jobs, Waiting, MineKnown
  <2> QED  BY <1>1, <1>5, <2>1, <2>3 DEF DeleteAttachment, Starts, requestVars
<1> QED  BY <1>3, <1>4, <1>5

LEMMA MessageBegins ==
  ASSUME CollaborationInv, NEW w \in Works, NEW u \in Authors, NEW images \in 0..MaxImages,
         SendChatMessage(u, images, w)
  PROVE  CollaborationInv'
<1>0. JobsTyped /\ AttachmentsSound /\ NothingLeftBehind
  BY DEF CollaborationInv
<1>1. /\ sends' \in 1..MaxSends /\ sends' = sends + 1 /\ sends \in Nat
      /\ UNCHANGED <<disk, attached, named, swept, botched, flow, notes, overlapped>>
  BY <1>0, CollaborationAssumption DEF SendChatMessage, JobsTyped
<1>2. written' = written \cup {sends'}
  BY DEF SendChatMessage, written
<1>3. PICK j : j = [at |-> "file", op |-> "send", msg |-> sends', left |-> images, file |-> 0, mine |-> {}]
  OBVIOUS
<1>4. j \in Uploads /\ j.at = "file" /\ j.mine = {}
  BY <1>1, <1>3, CollaborationAssumption DEF Uploads
<1>5. j \in Jobs /\ ~Waiting(j) /\ MineKnown(j) /\ work' = [work EXCEPT ![w] = j]
  BY <1>3, <1>4 DEF Jobs, Waiting, MineKnown, SendChatMessage, Starts
<1>6. AttachmentsSound'
  BY <1>0, <1>1, <1>4, <1>5, JobChanges
<1>7. JobsTyped'
  <2>1. /\ work' = [v \in Works |-> work'[v]] /\ work'[w] = j
        /\ \A v \in Works \ {w} : work'[v] = work[v]
    BY <1>0, <1>5, OneJob
  <2>2. written' \subseteq 1..sends'
    BY <1>0, <1>1, <1>2 DEF JobsTyped
  <2> QED  BY <1>0, <1>1, <1>5, <2>1, <2>2 DEF JobsTyped
<1>8. NothingLeftBehind'
  <2>1. rowNames' = rowNames /\ \A m : RowsOf(m)' = RowsOf(m)
    BY <1>1 DEF rowNames, RowsOf
  <2> QED  BY <1>0, <1>1, <1>2, <2>1 DEF NothingLeftBehind
<1> QED  BY <1>6, <1>7, <1>8 DEF CollaborationInv

\* Steps of a request that only changes where it is.
LEMMA RequestTurns ==
  ASSUME CollaborationInv, NEW w \in Works, PrepareFails(w) \/ UploadDone(w)
  PROVE  CollaborationInv'
<1>0. JobsTyped /\ AttachmentsSound /\ NothingLeftBehind /\ NamesDrawn /\ WaitingFresh
  BY DEF CollaborationInv, AttachmentsSound
<1>1. CASE PrepareFails(w)
  <2>1. PICK j : j = [work[w] EXCEPT !.at = "undo"]
    OBVIOUS
  <2>2. work[w] \in Uploads /\ work[w].at = "file"
    BY <1>0, <1>1, JobKinds DEF JobsTyped, PrepareFails
  <2>3. j \in Uploads /\ j.at = "undo" /\ j.mine = work[w].mine /\ j.msg = work[w].msg
    BY <2>1, <2>2 DEF Uploads
  <2>4. j \in Jobs /\ ~Waiting(j) /\ Claiming(work[w])
    BY <2>2, <2>3 DEF Jobs, Waiting, Claiming
  <2>5. /\ j.mine \subseteq 1..named /\ MineKnown(j)
        /\ \A v \in Works : Waiting(work[v]) => work[v].file \notin j.mine
    BY <1>0, <2>2, <2>3, <2>4 DEF NamesDrawn, MineKnown, WaitingFresh
  <2>6. /\ work' = [work EXCEPT ![w] = j]
        /\ UNCHANGED <<texts, disk, attached, flow, notes, overlapped, named, sends, swept, botched>>
    BY <1>0, <1>1, <2>1 DEF PrepareFails, JobsTyped
  <2> QED  BY <1>0, <2>4, <2>5, <2>6, JobTyped, JobChanges, NothingWritten DEF CollaborationInv
<1>2. CASE UploadDone(w)
  <2>1. Resting \in Jobs /\ ~Claiming(Resting)
    BY DEF Jobs, Claiming, Resting
  <2>2. /\ work' = [work EXCEPT ![w] = Resting]
        /\ UNCHANGED <<texts, disk, attached, flow, notes, overlapped, named, sends, swept, botched>>
    BY <1>2 DEF UploadDone, Rests, requestVars
  <2> QED  BY <2>1, <2>2, RequestBegins
<1> QED  BY <1>1, <1>2

\* A request writes a row of its message, which it may find gone.
LEMMA RowWritten ==
  ASSUME CollaborationInv, NEW w \in Works,
         \/ \E mentions \in {{}, {ChannelOwner}} : StorePreparedAndDeliver(w, mentions)
         \/ SaveNote(w) \/ SaveMessageWorkflow(w)
  PROVE  CollaborationInv'
<1>0. JobsTyped /\ AttachmentsSound /\ NothingLeftBehind
  BY DEF CollaborationInv
<1>1. /\ work' = [work EXCEPT ![w] = Resting]
      /\ UNCHANGED <<texts, disk, attached, named, sends, swept, botched>>
  BY DEF StorePreparedAndDeliver, SaveNote, SaveMessageWorkflow, Rests, requestVars
<1>2. Resting \in Jobs /\ ~Claiming(Resting) /\ ~Waiting(Resting)
  BY DEF Jobs, Claiming, Waiting, Resting
<1>3. AttachmentsSound'
  BY <1>0, <1>1, <1>2, JobChanges
<1>4. PICK m : m = work[w].msg
  OBVIOUS
<1>5. /\ \A x \in Texts \ {m} : flow'[x] = flow[x] /\ \A n \in notes' : n[3] = x => n \in notes
      /\ flow' \in [Texts -> FlowRows]
      /\ Late(m) \/ (UNCHANGED <<flow, overlapped>> /\ notes' \subseteq notes)
  <2>1. ASSUME NEW mentions, StorePreparedAndDeliver(w, mentions)
        PROVE  /\ \A n \in notes' : n \in notes \/ n[3] = m
               /\ flow' = flow /\ Late(m)
    BY <1>4, <2>1 DEF StorePreparedAndDeliver
  <2>2. CASE SaveNote(w)
    BY <1>0, <1>4, <2>2 DEF SaveNote, JobsTyped
  <2>3. CASE SaveMessageWorkflow(w)
    <3>1. work[w] \in Flowings
      BY <1>0, <2>3, JobKinds DEF JobsTyped, SaveMessageWorkflow
    <3>2. work[w].new \in FlowRows
      BY <3>1 DEF Flowings
    <3> QED  BY <1>0, <1>4, <2>3, <3>2 DEF SaveMessageWorkflow, JobsTyped
  <2> QED  BY <1>0, <2>1, <2>2, <2>3 DEF JobsTyped
<1>6. JobsTyped'
  <2>1. /\ work' = [v \in Works |-> work'[v]] /\ work'[w] = Resting
        /\ \A v \in Works \ {w} : work'[v] = work[v]
    BY <1>0, <1>1, OneJob
  <2>2. written' = written
    BY <1>1 DEF written
  <2> QED  BY <1>0, <1>1, <1>2, <1>5, <2>1, <2>2 DEF JobsTyped
<1>7. NothingLeftBehind'
  <2>1. /\ rowNames' = rowNames /\ \A x : RowsOf(x)' = RowsOf(x)
        /\ written' = written
    BY <1>1 DEF rowNames, RowsOf, written
  <2>2. ASSUME NEW x \in Texts, x \notin written, x \notin overlapped'
        PROVE  RowsOf(x) = {} /\ flow'[x] = NoFlow /\ \A n \in notes' : n[3] # x
    <3>1. x \notin overlapped /\ (x = m => ~Late(m))
      BY <1>5, <2>2 DEF Late
    <3>2. RowsOf(x) = {} /\ flow[x] = NoFlow /\ \A n \in notes : n[3] # x
      BY <1>0, <2>2, <3>1 DEF NothingLeftBehind
    <3> QED  BY <1>5, <3>1, <3>2
  <2> QED  BY <2>1, <2>2 DEF NothingLeftBehind
<1> QED  BY <1>3, <1>6, <1>7 DEF CollaborationInv

\* The file of an attachment is written, under a name of its own.
LEMMA FileWritten ==
  ASSUME CollaborationInv, NEW w \in Works, WriteFile(w)
  PROVE  CollaborationInv'
<1>0. JobsTyped /\ AttachmentsSound /\ NothingLeftBehind /\ NamesDrawn /\ WaitingFresh /\ RowsBacked
  BY DEF CollaborationInv, AttachmentsSound
<1>1. /\ named' = named + 1 /\ named \in Nat /\ disk' = disk \cup {named'}
      /\ UNCHANGED <<texts, sends, attached, flow, notes, swept, botched, overlapped>>
      /\ work[w] \in Uploads /\ work[w].at = "file"
  BY <1>0, JobKinds DEF WriteFile, JobsTyped
<1>2. PICK i : i = [work[w] EXCEPT !.at = "row"]
  OBVIOUS
<1>3. PICK j : j = [i EXCEPT !.file = named']
  OBVIOUS
<1>4. i \in Uploads /\ i.at = "row" /\ i.mine = work[w].mine /\ i.msg = work[w].msg
  BY <1>1, <1>2 DEF Uploads
<1>5. j \in Uploads /\ j.at = "row" /\ j.mine = work[w].mine /\ j.msg = work[w].msg /\ j.file = named'
  BY <1>1, <1>3, <1>4 DEF Uploads
<1>6. work' = [work EXCEPT ![w] = j]
  BY <1>0, <1>2, <1>3 DEF WriteFile, JobsTyped
<1>7. /\ work' = [v \in Works |-> work'[v]] /\ work'[w] = j
      /\ \A v \in Works \ {w} : work'[v] = work[v]
  BY <1>0, <1>6, OneJob
<1>8. j \in Jobs /\ Waiting(j) /\ Claiming(j) /\ Claiming(work[w])
  BY <1>1, <1>5 DEF Jobs, Waiting, Claiming
<1>9. rowNames' = rowNames /\ written' = written
  BY <1>1 DEF rowNames, written
<1>10. JobsTyped'
  BY <1>0, <1>1, <1>7, <1>8, <1>9 DEF JobsTyped
<1>11. 1..named \subseteq 1..named' /\ named' \in 1..named' /\ named' \notin 1..named
  BY <1>1
<1>12. NamesDrawn'
  <2>1. \A v \in Works : /\ Waiting(work'[v]) => work'[v].file \in 1..named'
                         /\ Claiming(work'[v]) => work'[v].mine \subseteq 1..named'
    BY <1>0, <1>5, <1>7, <1>8, <1>11 DEF NamesDrawn
  <2>2. \A v \in Works : Claiming(work'[v]) => MineKnown(work[v])'
    <3>1. MineKnown(work[w]) => MineKnown(work[w])'
      BY <1>1, <1>5, <1>7, <1>9 DEF MineKnown
    <3>2. \A v \in Works \ {w} : MineKnown(work[v]) => MineKnown(work[v])'
      BY <1>1, <1>7, <1>9 DEF MineKnown
    <3> QED  BY <1>0, <1>7, <1>8, <3>1, <3>2 DEF NamesDrawn
  <2>3. rowNames' \subseteq 1..named'
    BY <1>0, <1>9, <1>11 DEF NamesDrawn
  <2> QED  BY <2>1, <2>2, <2>3 DEF NamesDrawn, Waiting, Claiming
<1>13. WaitingFresh'
  <2> SUFFICES ASSUME NEW v \in Works, Waiting(work'[v])
               PROVE  /\ work'[v].file \in disk' \cup swept' /\ work'[v].file \notin rowNames'
                      /\ \A u \in Works : /\ u # v /\ Waiting(work'[u]) => work'[u].file # work'[v].file
                                          /\ Claiming(work'[u]) => work'[v].file \notin work'[u].mine
    BY DEF WaitingFresh, Waiting, Claiming
  <2>1. \A u \in Works : Claiming(work'[u]) => work'[u].mine = work[u].mine /\ Claiming(work[u])
    BY <1>5, <1>7, <1>8
  <2>2. CASE v = w
    <3>1. work'[v].file = named' /\ named' \notin rowNames' /\ named' \in disk'
      BY <1>0, <1>1, <1>5, <1>7, <1>9, <1>11, <2>2 DEF NamesDrawn
    <3>2. \A u \in Works : /\ u # v /\ Waiting(work'[u]) => work'[u].file \in 1..named
                           /\ Claiming(work'[u]) => work'[u].mine \subseteq 1..named
      BY <1>0, <1>7, <2>1, <2>2 DEF NamesDrawn
    <3> QED  BY <1>11, <3>1, <3>2
  <2>3. CASE v # w
    <3>1. work'[v] = work[v] /\ Waiting(work[v]) /\ work[v].file \in 1..named
      BY <1>0, <1>7, <2>3 DEF NamesDrawn
    <3>2. /\ work[v].file \in disk \cup swept /\ work[v].file \notin rowNames
          /\ \A u \in Works : /\ u # v /\ Waiting(work[u]) => work[u].file # work[v].file
                              /\ Claiming(work[u]) => work[v].file \notin work[u].mine
      BY <1>0, <3>1 DEF WaitingFresh
    <3>3. work'[w].file # work'[v].file
      BY <1>5, <1>7, <1>11, <3>1
    <3> QED  BY <1>1, <1>7, <1>9, <2>1, <3>1, <3>2, <3>3
  <2> QED  BY <2>2, <2>3
<1>14. RowsBacked'
  BY <1>0, <1>1, <1>9 DEF RowsBacked
<1> QED  BY <1>0, <1>1, <1>10, <1>12, <1>13, <1>14, NothingWritten DEF CollaborationInv, AttachmentsSound

\* The row follows its file.
LEMMA RowFollows ==
  ASSUME CollaborationInv, NEW w \in Works, CreateMessageAttachment(w)
  PROVE  CollaborationInv'
<1>0. JobsTyped /\ AttachmentsSound /\ NothingLeftBehind /\ NamesDrawn /\ WaitingFresh /\ RowsBacked
  BY DEF CollaborationInv, AttachmentsSound
<1>1. /\ UNCHANGED <<texts, sends, named, disk, flow, notes, swept, botched>> /\ Late(work[w].msg)
      /\ work[w] \in Uploads /\ work[w].at = "row" /\ Waiting(work[w]) /\ Claiming(work[w])
  BY <1>0, JobKinds DEF CreateMessageAttachment, JobsTyped, requestVars, Waiting, Claiming
<1>2. PICK f \in Nat, m \in Nat : f = work[w].file /\ m = work[w].msg
  BY <1>1 DEF Uploads
<1>3. /\ rowNames' = rowNames \cup {f} /\ attached'[f] = m
      /\ \A g \in rowNames : g # f => attached'[g] = attached[g]
  BY <1>2 DEF CreateMessageAttachment, rowNames
<1>4. /\ f \in 1..named /\ f \in disk \cup swept /\ f \notin rowNames
      /\ \A v \in Works : /\ v # w /\ Waiting(work[v]) => work[v].file # f
                          /\ Claiming(work[v]) => f \notin work[v].mine
  BY <1>0, <1>1, <1>2 DEF NamesDrawn, WaitingFresh
<1>5. PICK i : i = [work[w] EXCEPT !.at = "file"]
  OBVIOUS
<1>6. i \in Uploads /\ i.at = "file" /\ i.mine = work[w].mine /\ i.msg = m
  BY <1>1, <1>2, <1>5 DEF Uploads
<1>7. PICK l : l = [i EXCEPT !.left = @ - 1]
  OBVIOUS
<1>8. l \in Uploads /\ l.at = "file" /\ l.mine = work[w].mine /\ l.msg = m
  BY <1>6, <1>7 DEF Uploads
<1>9. PICK j : j = [l EXCEPT !.mine = @ \cup {f}]
  OBVIOUS
<1>10. j \in Uploads /\ j.at = "file" /\ j.mine = work[w].mine \cup {f} /\ j.msg = m
  BY <1>8, <1>9 DEF Uploads
<1>11. work' = [work EXCEPT ![w] = j]
  BY <1>0, <1>2, <1>5, <1>7, <1>9, ZenonT(60) DEF CreateMessageAttachment, JobsTyped
<1>12. /\ work' = [v \in Works |-> work'[v]] /\ work'[w] = j
       /\ \A v \in Works \ {w} : work'[v] = work[v]
  BY <1>0, <1>11, OneJob
<1>13. j \in Jobs /\ ~Waiting(j) /\ Claiming(j)
  BY <1>10 DEF Jobs, Waiting, Claiming
<1>14. written' = written
  BY <1>1 DEF written
<1>15. JobsTyped'
  BY <1>0, <1>1, <1>12, <1>13, <1>14 DEF JobsTyped
<1>16. NamesDrawn'
  <2>1. \A v \in Works : /\ Waiting(work'[v]) => work'[v].file \in 1..named
                         /\ Claiming(work'[v]) => work'[v].mine \subseteq 1..named
    BY <1>0, <1>1, <1>4, <1>10, <1>12, <1>13 DEF NamesDrawn
  <2>2. MineKnown(work[w])'
    <3>1. MineKnown(work[w])
      BY <1>0, <1>1 DEF NamesDrawn
    <3>2. \A g \in work[w].mine \cap rowNames : attached[g] = m
      BY <1>1, <1>2, <3>1 DEF MineKnown
    <3> QED  BY <1>3, <1>10, <1>12, <3>2 DEF MineKnown
  <2>3. \A v \in Works \ {w} : Claiming(work[v]) => MineKnown(work[v])'
    <3> SUFFICES ASSUME NEW v \in Works, v # w, Claiming(work[v]) PROVE MineKnown(work[v])'
      OBVIOUS
    <3>1. MineKnown(work[v]) /\ f \notin work[v].mine /\ work'[v] = work[v]
      BY <1>0, <1>4, <1>12 DEF NamesDrawn
    <3> QED  BY <1>1, <1>3, <3>1 DEF MineKnown
  <2>4. rowNames' \subseteq 1..named
    BY <1>0, <1>3, <1>4 DEF NamesDrawn
  <2> QED  BY <1>1, <1>12, <2>1, <2>2, <2>3, <2>4 DEF NamesDrawn, Waiting, Claiming
<1>17. WaitingFresh'
  <2> SUFFICES ASSUME NEW v \in Works, Waiting(work'[v])
               PROVE  /\ work'[v].file \in disk \cup swept /\ work'[v].file \notin rowNames'
                      /\ \A u \in Works : /\ u # v /\ Waiting(work'[u]) => work'[u].file # work'[v].file
                                          /\ Claiming(work'[u]) => work'[v].file \notin work'[u].mine
    BY <1>1 DEF WaitingFresh, Waiting, Claiming
  <2>1. v # w /\ work'[v] = work[v] /\ Waiting(work[v]) /\ work[v].file # f
    BY <1>4, <1>12, <1>13
  <2>2. /\ work[v].file \in disk \cup swept /\ work[v].file \notin rowNames
        /\ \A u \in Works : /\ u # v /\ Waiting(work[u]) => work[u].file # work[v].file
                            /\ Claiming(work[u]) => work[v].file \notin work[u].mine
    BY <1>0, <2>1 DEF WaitingFresh
  <2>3. \A u \in Works : Claiming(work'[u]) => work'[v].file \notin work'[u].mine
    BY <1>1, <1>10, <1>12, <2>1, <2>2
  <2>4. \A u \in Works : u # v /\ Waiting(work'[u]) => work'[u].file # work'[v].file
    BY <1>12, <1>13, <2>1, <2>2
  <2> QED  BY <1>3, <2>1, <2>2, <2>3, <2>4
<1>18. RowsBacked'
  BY <1>0, <1>1, <1>3, <1>4 DEF RowsBacked
<1>19. NothingLeftBehind'
  <2>1. \A x : x # m => RowsOf(x)' = RowsOf(x)
    BY <1>3, <1>4 DEF RowsOf
  <2>2. ASSUME NEW x \in Texts, x \notin written, x \notin overlapped'
        PROVE  RowsOf(x)' = {} /\ flow[x] = NoFlow /\ \A n \in notes : n[3] # x
    <3>1. x # m /\ x \notin overlapped
      BY <1>1, <1>2, <2>2 DEF Late
    <3> QED  BY <1>0, <2>1, <2>2, <3>1 DEF NothingLeftBehind
  <2> QED  BY <1>1, <1>14, <2>2 DEF NothingLeftBehind
<1> QED  BY <1>15, <1>16, <1>17, <1>18, <1>19 DEF CollaborationInv, AttachmentsSound

\* A deletion takes the rows of its messages from every table, and no other row.
LEMMA RowsErased ==
  ASSUME JobsTyped, NothingLeftBehind, NEW ms, Deletion(ms), UNCHANGED overlapped
  PROVE  /\ rowNames' = {f \in rowNames : attached[f] \notin ms}
         /\ \A f \in rowNames' : attached'[f] = attached[f]
         /\ written' = written \ ms /\ flow' \in [Texts -> FlowRows]
         /\ NothingLeftBehind'
<1>1. /\ rowNames' = {f \in rowNames : attached[f] \notin ms}
      /\ \A f \in rowNames' : attached'[f] = attached[f]
      /\ written' = written \ ms
  BY DEF Deletion, WithoutRows, rowNames, written
<1>2. /\ \A x \in Texts : flow'[x] = IF x \in ms THEN NoFlow ELSE flow[x]
      /\ flow' = [x \in Texts |-> flow'[x]]
      /\ notes' = {n \in notes : n[3] \notin ms}
  BY DEF Deletion
<1>3. NoFlow \in FlowRows
  BY DEF NoFlow, FlowRows
<1>4. flow' \in [Texts -> FlowRows]
  BY <1>2, <1>3 DEF JobsTyped
<1>5. NothingLeftBehind'
  <2> SUFFICES ASSUME NEW x \in Texts, x \notin written', x \notin overlapped
               PROVE  RowsOf(x)' = {} /\ flow'[x] = NoFlow /\ \A n \in notes' : n[3] # x
    BY DEF NothingLeftBehind
  <2>1. RowsOf(x)' = {f \in rowNames' : attached[f] = x}
    BY <1>1 DEF RowsOf
  <2>2. CASE x \in ms
    BY <1>1, <1>2, <2>1, <2>2
  <2>3. CASE x \notin ms
    <3>1. RowsOf(x) = {} /\ flow[x] = NoFlow /\ \A n \in notes : n[3] # x
      BY <1>1, <2>3 DEF NothingLeftBehind
    <3> QED  BY <1>1, <1>2, <2>1, <2>3, <3>1 DEF RowsOf
  <2> QED  BY <2>2, <2>3
<1> QED  BY <1>1, <1>4, <1>5

LEMMA RowRefused ==
  ASSUME CollaborationInv, NEW w \in Works, RowFails(w)
  PROVE  CollaborationInv'
<1>0. JobsTyped /\ AttachmentsSound /\ NothingLeftBehind /\ NamesDrawn /\ WaitingFresh
  BY DEF CollaborationInv, AttachmentsSound
<1>1. /\ work[w] \in Uploads /\ Waiting(work[w]) /\ Claiming(work[w]) /\ disk' = disk \ {work[w].file}
      /\ UNCHANGED <<texts, sends, named, attached, flow, notes, swept, botched, overlapped>>
  BY <1>0, JobKinds DEF RowFails, JobsTyped, Waiting, Claiming
<1>2. PICK i : i = [work[w] EXCEPT !.at = "undo"]
  OBVIOUS
<1>3. i \in Uploads /\ i.at = "undo" /\ i.mine = work[w].mine /\ i.msg = work[w].msg
  BY <1>1, <1>2 DEF Uploads
<1>4. PICK j : j = IF work[w].op = "send" THEN i ELSE Resting
  OBVIOUS
<1>5. j \in Jobs /\ ~Waiting(j) /\ (Claiming(j) => j.mine = work[w].mine /\ j.msg = work[w].msg /\ j.at = "undo")
  BY <1>3, <1>4 DEF Jobs, Waiting, Claiming, Resting
<1>6. work' = [work EXCEPT ![w] = j]
  BY <1>0, <1>2, <1>4 DEF RowFails, JobsTyped
<1>7. work'[w] = j /\ \A v \in Works \ {w} : work'[v] = work[v]
  BY <1>0, <1>6, OneJob
<1>8. rowNames' = rowNames
  BY <1>1 DEF rowNames
<1>9. Claiming(j) => j.mine \subseteq 1..named /\ MineKnown(work[w])'
  <2>1. work[w].mine \subseteq 1..named /\ MineKnown(work[w])
    BY <1>0, <1>1 DEF NamesDrawn
  <2>2. \A f \in work[w].mine \cap rowNames : attached[f] = work[w].msg
    BY <1>1, <2>1 DEF MineKnown, Waiting
  <2> QED  BY <1>1, <1>5, <1>7, <1>8, <2>1, <2>2 DEF MineKnown
<1>10. /\ work[w].file \notin rowNames
       /\ \A v \in Works : Waiting(work[v]) /\ v # w => work[v].file # work[w].file /\ work[v].file \notin work[w].mine
  BY <1>0, <1>1 DEF WaitingFresh
<1>11. AttachmentsSound'
  <2>1. \A v \in Works :
         \/ work'[v] = work[v]
         \/ /\ ~Waiting(work'[v])
            /\ Claiming(work'[v]) =>
                  /\ work'[v].mine \subseteq 1..named /\ MineKnown(work[v])'
                  /\ \A u \in Works : Waiting(work'[u]) => work'[u].file \notin work'[v].mine
    BY <1>5, <1>7, <1>9, <1>10
  <2>2. \A f \in disk \cup swept :
            \/ f \in disk' \cup swept'
            \/ /\ f \in rowNames' => attached'[f] \in botched'
               /\ \A v \in Works : Waiting(work'[v]) => work'[v].file # f
    BY <1>1, <1>5, <1>7, <1>8, <1>10
  <2> QED  BY <1>0, <1>1, <1>8, <2>1, <2>2, NothingTaken
<1> QED  BY <1>0, <1>1, <1>5, <1>6, <1>11, JobTyped, NothingWritten DEF CollaborationInv

\* Rows go first; the files that had them are removed in the end.
LEMMA RowsTaken ==
  ASSUME CollaborationInv, NEW w \in Works, UndoSend(w) \/ DeleteMessageAttachment(w) \/ EraseMessage(w)
  PROVE  CollaborationInv'
<1>0. JobsTyped /\ AttachmentsSound /\ NothingLeftBehind /\ NamesDrawn /\ WaitingFresh
  BY DEF CollaborationInv, AttachmentsSound
<1>1. UNCHANGED <<disk, named, swept, sends, overlapped>> /\ Claiming(work[w]) /\ ~Waiting(work[w])
  BY DEF UndoSend, DeleteMessageAttachment, EraseMessage, requestVars, Claiming, Waiting
<1>2. work[w].mine \subseteq 1..named /\ MineKnown(work[w])
      /\ \A v \in Works : Waiting(work[v]) => work[v].file \notin work[w].mine
  BY <1>0, <1>1 DEF NamesDrawn, WaitingFresh
<1>3. PICK j : work' = [work EXCEPT ![w] = j] /\ j \in Jobs /\ j.at = "remove" /\ j.mine = work[w].mine
  <2>1. CASE UndoSend(w)
    <3>1. PICK i : i = [at |-> "remove", op |-> "send", mine |-> work[w].mine]
      OBVIOUS
    <3>2. work[w] \in Uploads
      BY <1>0, <2>1, JobKinds DEF UndoSend, JobsTyped
    <3>3. i \in Removals /\ i.at = "remove" /\ i.mine = work[w].mine
      BY <3>1, <3>2 DEF Uploads, Removals
    <3>4. work' = [work EXCEPT ![w] = i]
      BY <1>0, <2>1, <3>1 DEF UndoSend, JobsTyped
    <3> QED  BY <3>3, <3>4 DEF Jobs
  <2>2. CASE DeleteMessageAttachment(w) \/ EraseMessage(w)
    <3>1. PICK i : i = [work[w] EXCEPT !.at = "remove"]
      OBVIOUS
    <3>2. work[w] \in Removals \cup Erasures
      BY <1>0, <2>2, JobKinds DEF DeleteMessageAttachment, EraseMessage, JobsTyped
    <3>3. i \in Removals \cup Erasures /\ i.at = "remove" /\ i.mine = work[w].mine
      BY <3>1, <3>2 DEF Removals, Erasures
    <3>4. work' = [work EXCEPT ![w] = i]
      BY <1>0, <2>2, <3>1 DEF DeleteMessageAttachment, EraseMessage, JobsTyped
    <3> QED  BY <3>3, <3>4 DEF Jobs
  <2> QED  BY <2>1, <2>2
<1>4. /\ work' = [v \in Works |-> work'[v]] /\ work'[w] = j
      /\ \A v \in Works \ {w} : work'[v] = work[v]
  BY <1>0, <1>3, OneJob
<1>5. /\ rowNames' \subseteq rowNames /\ \A f \in rowNames' : attached'[f] = attached[f]
      /\ botched \subseteq botched' /\ \A f \in work[w].mine \cap rowNames' : attached[f] \in botched'
      /\ flow' \in [Texts -> FlowRows] /\ written' \subseteq written
      /\ NothingLeftBehind'
  <2>1. ASSUME Deletion({work[w].msg}), work[w].at \in {"undo", "message"}, UNCHANGED botched
        PROVE  /\ rowNames' \subseteq rowNames /\ \A f \in rowNames' : attached'[f] = attached[f]
               /\ botched \subseteq botched' /\ \A f \in work[w].mine \cap rowNames' : attached[f] \in botched'
               /\ flow' \in [Texts -> FlowRows] /\ written' \subseteq written
               /\ NothingLeftBehind'
    <3>1. /\ rowNames' = {f \in rowNames : attached[f] \notin {work[w].msg}}
          /\ \A f \in rowNames' : attached'[f] = attached[f]
          /\ written' = written \ {work[w].msg} /\ flow' \in [Texts -> FlowRows]
          /\ NothingLeftBehind'
      BY <1>0, <1>1, <2>1, RowsErased
    <3>2. \A f \in work[w].mine \cap rowNames : attached[f] = work[w].msg
      BY <1>2, <2>1 DEF MineKnown
    <3> QED  BY <2>1, <3>1, <3>2
  <2>2. CASE EraseMessage(w)
    BY <2>1, <2>2 DEF EraseMessage, EraseMessageRows, requestVars
  <2>3. CASE UndoSend(w) /\ EraseMessageRows({work[w].msg}) /\ UNCHANGED botched
    BY <2>1, <2>3 DEF UndoSend, EraseMessageRows
  <2>4. CASE UndoSend(w) /\ botched' = botched \cup {work[w].msg} /\ UNCHANGED <<texts, attached, flow, notes>>
    <3>1. \A f \in work[w].mine \cap rowNames : attached[f] = work[w].msg
      BY <1>2, <2>4 DEF MineKnown, UndoSend
    <3>2. rowNames' = rowNames /\ written' = written /\ NothingLeftBehind'
      BY <1>0, <1>1, <2>4, NothingWritten DEF rowNames, written
    <3> QED  BY <1>0, <2>4, <3>1, <3>2 DEF JobsTyped
  <2>5. CASE DeleteMessageAttachment(w)
    <3>1. /\ rowNames' = rowNames \ work[w].mine /\ \A f \in rowNames' : attached'[f] = attached[f]
          /\ UNCHANGED <<texts, flow, notes, botched>>
      BY <2>5 DEF DeleteMessageAttachment, WithoutRows, rowNames, requestVars
    <3>2. written' = written /\ \A x : RowsOf(x) = {} => RowsOf(x)' = {}
      BY <3>1 DEF written, RowsOf
    <3>3. NothingLeftBehind'
      BY <1>0, <1>1, <3>1, <3>2 DEF NothingLeftBehind
    <3> QED  BY <1>0, <3>1, <3>2, <3>3 DEF JobsTyped
  <2> QED  BY <2>2, <2>3, <2>4, <2>5 DEF UndoSend
<1>6. JobsTyped'
  BY <1>0, <1>1, <1>3, <1>4, <1>5 DEF JobsTyped
<1>7. AttachmentsSound'
  <2>1. MineKnown(work[w])' /\ ~Waiting(j)
    BY <1>3, <1>4, <1>5 DEF MineKnown, Waiting
  <2>2. \A v \in Works :
         \/ work'[v] = work[v]
         \/ /\ ~Waiting(work'[v])
            /\ Claiming(work'[v]) =>
                  /\ work'[v].mine \subseteq 1..named /\ MineKnown(work[v])'
                  /\ \A u \in Works : Waiting(work'[u]) => work'[u].file \notin work'[v].mine
    BY <1>2, <1>3, <1>4, <2>1
  <2> QED  BY <1>0, <1>1, <1>5, <2>2, NothingTaken
<1> QED  BY <1>5, <1>6, <1>7 DEF CollaborationInv

\* The files whose rows are gone are removed.
LEMMA FilesRemoved ==
  ASSUME CollaborationInv, NEW w \in Works, RemoveFiles(w)
  PROVE  CollaborationInv'
<1>0. JobsTyped /\ AttachmentsSound /\ NothingLeftBehind /\ NamesDrawn /\ WaitingFresh
  BY DEF CollaborationInv, AttachmentsSound
<1>1. /\ UNCHANGED <<texts, sends, named, attached, flow, notes, swept, botched, overlapped>>
      /\ disk' = disk \ work[w].mine /\ work' = [work EXCEPT ![w] = Resting]
      /\ work[w].at = "remove" /\ Claiming(work[w]) /\ Resting \in Jobs /\ ~Waiting(Resting) /\ ~Claiming(Resting)
  BY DEF RemoveFiles, Rests, requestVars, Claiming, Waiting, Resting, Jobs
<1>2. work'[w] = Resting /\ \A v \in Works \ {w} : work'[v] = work[v]
  BY <1>0, <1>1, OneJob
<1>3. rowNames' = rowNames
  BY <1>1 DEF rowNames
<1>4. /\ \A f \in work[w].mine \cap rowNames : attached[f] \in botched
      /\ \A v \in Works : Waiting(work[v]) => work[v].file \notin work[w].mine
  BY <1>0, <1>1 DEF NamesDrawn, MineKnown, WaitingFresh
<1>5. \A f \in disk \cup swept :
         \/ f \in disk' \cup swept'
         \/ /\ f \in rowNames' => attached'[f] \in botched'
            /\ \A v \in Works : Waiting(work'[v]) => work'[v].file # f
  BY <1>1, <1>2, <1>3, <1>4
<1>6. AttachmentsSound'
  <2>1. \A v \in Works :
         \/ work'[v] = work[v]
         \/ /\ ~Waiting(work'[v])
            /\ Claiming(work'[v]) =>
                  /\ work'[v].mine \subseteq 1..named /\ MineKnown(work[v])'
                  /\ \A u \in Works : Waiting(work'[u]) => work'[u].file \notin work'[v].mine
    BY <1>1, <1>2
  <2> QED  BY <1>0, <1>1, <1>3, <1>5, <2>1, NothingTaken
<1> QED  BY <1>0, <1>1, <1>6, JobTyped, NothingWritten DEF CollaborationInv

\* The rows of all messages of the channel go, the requests go on.
LEMMA ChannelCleared ==
  ASSUME CollaborationInv, NEW u \in Authors, EraseChannelMessages(u)
  PROVE  CollaborationInv'
<1>0. JobsTyped /\ AttachmentsSound /\ NothingLeftBehind
  BY DEF CollaborationInv
<1>1. UNCHANGED <<disk, work, sends, named, swept, botched, overlapped>> /\ Deletion(written)
  BY DEF EraseChannelMessages, EraseMessageRows, requestVars
<1>2. /\ rowNames' = {f \in rowNames : attached[f] \notin written}
      /\ \A f \in rowNames' : attached'[f] = attached[f]
      /\ written' = written \ written /\ flow' \in [Texts -> FlowRows]
      /\ NothingLeftBehind'
  BY <1>0, <1>1, RowsErased
<1>3. JobsTyped'
  BY <1>0, <1>1, <1>2 DEF JobsTyped
<1>4. AttachmentsSound'
  BY <1>0, <1>1, <1>2, NothingTaken
<1> QED  BY <1>2, <1>3, <1>4 DEF CollaborationInv

\* The sweep only moves files from the directory to those it took.
LEMMA FilesSwept ==
  ASSUME CollaborationInv, GetAttachmentStorageNames \/ ReadDir \/ RemoveEntry
  PROVE  CollaborationInv'
<1>0. JobsTyped /\ AttachmentsSound /\ NothingLeftBehind
  BY DEF CollaborationInv
<1>1. PICK files : /\ disk' = disk \ files /\ swept' = swept \cup files
                   /\ UNCHANGED <<texts, sends, named, attached, flow, notes, work, botched, overlapped>>
  <2>1. CASE GetAttachmentStorageNames \/ ReadDir
    BY <2>1 DEF GetAttachmentStorageNames, ReadDir, SweepStep
  <2>2. CASE RemoveEntry
    BY <2>2 DEF RemoveEntry, SweepStep
  <2> QED  BY <2>1, <2>2
<1>2. rowNames' = rowNames /\ written' = written
  BY <1>1 DEF rowNames, written
<1>3. JobsTyped'
  BY <1>0, <1>1, <1>2 DEF JobsTyped
<1>4. AttachmentsSound'
  <2>1. \A f \in disk \cup swept : f \in disk' \cup swept'
    BY <1>1
  <2> QED  BY <1>0, <1>1, <1>2, <2>1, NothingTaken
<1> QED  BY <1>0, <1>1, <1>3, <1>4, NothingWritten DEF CollaborationInv

\* The process dies, or nothing happens.
LEMMA RequestsStopped ==
  ASSUME CollaborationInv, Stop \/ UNCHANGED collaborationVars
  PROVE  CollaborationInv'
<1>0. JobsTyped /\ AttachmentsSound /\ NothingLeftBehind
  BY DEF CollaborationInv
<1>1. /\ UNCHANGED <<texts, sends, named, disk, attached, flow, notes, swept, botched, overlapped>>
      /\ work' = [w \in Works |-> Resting] \/ work' = work
  BY DEF Stop, collaborationVars
<1>2. /\ work' = [w \in Works |-> work'[w]]
      /\ \A w \in Works : work'[w] = work[w] \/ work'[w] = Resting
  BY <1>0, <1>1 DEF JobsTyped
<1>3. rowNames' = rowNames /\ written' = written /\ Resting \in Jobs /\ ~Waiting(Resting) /\ ~Claiming(Resting)
  BY <1>1 DEF rowNames, written, Resting, Jobs, Waiting, Claiming
<1>4. JobsTyped'
  BY <1>0, <1>1, <1>2, <1>3 DEF JobsTyped
<1>5. AttachmentsSound'
  <2>1. \A f \in disk \cup swept : f \in disk' \cup swept'
    BY <1>1
  <2> QED  BY <1>0, <1>1, <1>2, <1>3, <2>1, NothingTaken
<1> QED  BY <1>0, <1>1, <1>4, <1>5, NothingWritten DEF CollaborationInv

LEMMA CollaborationInitially == CollaborationInit => CollaborationInv
<1> SUFFICES ASSUME CollaborationInit PROVE CollaborationInv
  OBVIOUS
<1>1. /\ rowNames = {} /\ written = {} /\ \A m : RowsOf(m) = {}
      /\ \A w \in Works : work[w] = Resting /\ ~Waiting(work[w]) /\ ~Claiming(work[w])
      /\ Resting \in Jobs /\ NoFlow \in FlowRows
  BY DEF CollaborationInit, rowNames, written, RowsOf, Waiting, Claiming, Resting, Jobs, NoFlow, FlowRows
<1>2. JobsTyped
  BY <1>1, CollaborationAssumption DEF CollaborationInit, JobsTyped
<1>3. AttachmentsSound
  BY <1>1 DEF AttachmentsSound, NamesDrawn, WaitingFresh, RowsBacked
<1>4. NothingLeftBehind
  BY <1>1 DEF CollaborationInit, NothingLeftBehind
<1> QED  BY <1>2, <1>3, <1>4 DEF CollaborationInv

LEMMA CollaborationInvariance == CollaborationSpec => []CollaborationInv
<1>1. CollaborationInv /\ [CollaborationNext]_collaborationVars => CollaborationInv'
  <2> SUFFICES ASSUME CollaborationInv, [CollaborationNext]_collaborationVars PROVE CollaborationInv'
    OBVIOUS
  <2>1. CASE \E w \in Works :
                \/ \E u \in Authors, n \in 0..MaxImages : SendChatMessage(u, n, w)
                \/ WriteFile(w) \/ CreateMessageAttachment(w) \/ RowFails(w) \/ PrepareFails(w)
                \/ UndoSend(w) \/ UploadDone(w)
                \/ \E mentions \in {{}, {ChannelOwner}} : StorePreparedAndDeliver(w, mentions)
                \/ DeleteMessageAttachment(w) \/ RemoveFiles(w) \/ EraseMessage(w)
                \/ SaveNote(w) \/ SaveMessageWorkflow(w)
    BY <2>1, MessageBegins, FileWritten, RowFollows, RowRefused, RequestTurns, RowsTaken, RowWritten,
       FilesRemoved
  <2>2. CASE \E w \in Works : \E u \in Authors, f \in rowNames : DeleteAttachment(u, f, w)
    BY <2>2, RequestOnFiles
  <2>3. CASE \E w \in Works : \E u \in Authors, m \in written :
                \/ UploadAttachment(m, w) \/ deleteMessageCompletely(u, m, w)
                \/ AddReaction(u, m, w) \/ DeleteReaction(u, m, w)
                \/ MarkRead(u, m, w) \/ MarkUnread(u, m, w)
                \/ \E to \in Authors \cup {Nobody} : Assign(u, to, m, w)
                \/ \E status \in {"open", "resolved"} : SetStatus(u, status, m, w)
    <3> PICK w \in Works, u \in Authors, m \in written :
                \/ UploadAttachment(m, w) \/ deleteMessageCompletely(u, m, w)
                \/ AddReaction(u, m, w) \/ DeleteReaction(u, m, w)
                \/ MarkRead(u, m, w) \/ MarkUnread(u, m, w)
                \/ \E to \in Authors \cup {Nobody} : Assign(u, to, m, w)
                \/ \E status \in {"open", "resolved"} : SetStatus(u, status, m, w)
      BY <2>3
    <3>1. CASE UploadAttachment(m, w) \/ deleteMessageCompletely(u, m, w)
      BY <3>1, RequestOnFiles
    <3>2. CASE AddReaction(u, m, w) \/ DeleteReaction(u, m, w) \/ MarkRead(u, m, w) \/ MarkUnread(u, m, w)
      BY <3>2, NoteBegins
    <3>3. CASE \/ \E to \in Authors \cup {Nobody} : Assign(u, to, m, w)
               \/ \E status \in {"open", "resolved"} : SetStatus(u, status, m, w)
      BY <3>3, FlowBegins
    <3> QED  BY <3>1, <3>2, <3>3
  <2>4. CASE \/ \E u \in Authors : EraseChannelMessages(u)
             \/ GetAttachmentStorageNames \/ ReadDir \/ RemoveEntry \/ Stop \/ UNCHANGED collaborationVars
    BY <2>4, ChannelCleared, FilesSwept, RequestsStopped
  <2> QED  BY <2>1, <2>2, <2>3, <2>4 DEF CollaborationNext
<1> QED  BY <1>1, CollaborationInitially, PTL DEF CollaborationSpec

\* A row of an attachment has its file unless the sweep took it or the removal of
\* a failed message failed, and a message that is gone left no row behind
\* (api/collaboration.go, database/message.go EraseMessageRows).
THEOREM RowsFit == CollaborationSpec => []RowsConsistent
<1>1. CollaborationInv => RowsConsistent
  BY DEF CollaborationInv, AttachmentsSound, RowsConsistent
<1> QED  BY <1>1, CollaborationInvariance, PTL

=============================================================================
