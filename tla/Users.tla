-------------------------------- MODULE Users --------------------------------
(***************************************************************************)
(* User accounts: who is an administrator, and which OIDC and directory    *)
(* identity an account is bound to.  The handlers of api/user.go, the      *)
(* sign-in by OIDC (resolveUser of api/oidc.go) and by LDAP (resolveUser   *)
(* of api/ldap.go) all read a row, decide, and save the whole row (gorm's  *)
(* Save, which inserts a row that is gone) or delete it.                   *)
(*                                                                         *)
(* An account is found by its name; its id tells a row from a later row of *)
(* the same name.  Passwords, display names and renaming are left out, the *)
(* deletion of what a user owns is in Membership.tla.                      *)
(***************************************************************************)
EXTENDS Integers, FiniteSets

CONSTANTS Names, Subjects, Tasks, Root,
          LinkByUsername, AutoRegister,  \* configuration of both directories
          MaxIds,   \* bound: rows ever inserted
          MaxTasks  \* bound: requests

ASSUME UsersAssumption ==
  /\ Root \in Names
  /\ {LinkByUsername, AutoRegister} \subseteq BOOLEAN
  /\ {MaxIds, MaxTasks} \subseteq Nat

VARIABLES users, task, ids, tasks,
          excused  \* history: an administrator was removed by a directory
                   \* sign-in, or by a request that decided on an older state

userVars == <<users, task, ids, tasks, excused>>

NoUser == [id |-> 0]
NoTask == [op |-> "none"]
Unbound == "unbound"

Account(id, admin, oidc, ldap) == [id |-> id, admin |-> admin, oidc |-> oidc, ldap |-> ldap]

UserInit ==
  /\ users = [n \in Names |-> IF n = Root THEN Account(1, TRUE, Unbound, Unbound) ELSE NoUser]
  /\ task = [t \in Tasks |-> NoTask]
  /\ ids = 1 /\ tasks = 0
  /\ excused = FALSE

Known(n) == users[n] # NoUser
AdminsOf(table) == {n \in Names : table[n] # NoUser /\ table[n].admin}

(* Unique indexes of model.User: one row per identity *)
Unique(n, row) ==
  \A m \in Names \ {n} : Known(m) =>
     /\ row.oidc = Unbound \/ users[m].oidc # row.oidc
     /\ row.ldap = Unbound \/ users[m].ldap # row.ldap

(* What UpdateUser (Save) makes of the table: a row of another id under    *)
(* the same name, or a taken identity, is an error that changes nothing    *)
Saves(n, row) == Unique(n, row) /\ users[n].id \in {0, row.id}

Saved(n, row) == IF Saves(n, row) THEN [users EXCEPT ![n] = row] ELSE users

Start(t, record) ==
  /\ task[t] = NoTask
  /\ tasks < MaxTasks
  /\ tasks' = tasks + 1
  /\ task' = [task EXCEPT ![t] = record]

Done(t) == task' = [task EXCEPT ![t] = NoTask]

-----------------------------------------------------------------------------
(* CreateUser of the administrator: nobody has the name, then the insert   *)
CreateAccount(t, n, admin) ==
  /\ ~Known(n)
  /\ Start(t, [op |-> "insert", name |-> n, row |-> Account(0, admin, Unbound, Unbound)])
  /\ UNCHANGED <<users, ids, excused>>

(* db.CreateUser, also of the two sign-ins; a name taken meanwhile is an error *)
InsertUser(t) ==
  LET n == task[t].name IN
  /\ task[t].op = "insert"
  /\ IF Known(n) \/ ~Unique(n, task[t].row)
     THEN UNCHANGED <<users, ids>>
     ELSE /\ ids < MaxIds
          /\ ids' = ids + 1
          /\ users' = [users EXCEPT ![n] = [task[t].row EXCEPT !.id = ids + 1]]
  /\ Done(t)
  /\ UNCHANGED <<tasks, excused>>

(* UpdateUserByID and DeleteUserByID read the row, ...                     *)
UpdateUserByID(t, n, admin) ==
  /\ Known(n)
  /\ Start(t, [op |-> "count", name |-> n, read |-> users[n],
               then |-> "save", row |-> [users[n] EXCEPT !.admin = admin]])
  /\ UNCHANGED <<users, ids, excused>>

DeleteUserByID(t, n) ==
  /\ Known(n)
  /\ Start(t, [op |-> "count", name |-> n, read |-> users[n],
               then |-> "delete", row |-> [users[n] EXCEPT !.admin = FALSE]])
  /\ UNCHANGED <<users, ids, excused>>

\* Mutant: the administrators are compared with zero instead of one.
NoAdminLeft(t) == task[t].read.admin /\ ~task[t].row.admin /\ AdminsOf(users) = {}

(* ... count the administrators, and refuse to take the last one           *)
LastAdmin(t) == task[t].read.admin /\ ~task[t].row.admin /\ Cardinality(AdminsOf(users)) = 1

CountUser(t) ==
  /\ task[t].op = "count"
  /\ task' = [task EXCEPT ![t] =
       IF LastAdmin(t) THEN NoTask
       ELSE [op |-> @.then, name |-> @.name, read |-> @.read, row |-> @.row, admins |-> AdminsOf(users)]]
  /\ UNCHANGED <<users, ids, tasks, excused>>

(* History: the request takes an administrator away, although the          *)
(* administrators or the row are not those it decided on.                  *)
Outrun(t, new) ==
  /\ AdminsOf(users) \ AdminsOf(new) # {}
  /\ AdminsOf(users) # task[t].admins \/ users[task[t].name] # task[t].read

SaveUser(t) ==
  /\ task[t].op = "save"
  /\ users' = Saved(task[t].name, task[t].row)
  /\ excused' = (excused \/ Outrun(t, users'))
  /\ Done(t)
  /\ UNCHANGED <<ids, tasks>>

DeleteUserRow(t) ==
  LET n == task[t].name IN
  /\ task[t].op = "delete"
  /\ users' = IF users[n].id = task[t].read.id THEN [users EXCEPT ![n] = NoUser] ELSE users
  /\ excused' = (excused \/ Outrun(t, users'))
  /\ Done(t)
  /\ UNCHANGED <<ids, tasks>>

(* ChangePassword saves the row it read, whatever happened to it meanwhile *)
ChangePassword(t, n) ==
  /\ Known(n)
  /\ Start(t, [op |-> "save", name |-> n, read |-> users[n], row |-> users[n],
               admins |-> AdminsOf(users)])
  /\ UNCHANGED <<users, ids, excused>>

-----------------------------------------------------------------------------
(* resolveUser of OIDC: the account of the identity, whose administrator   *)
(* flag follows the groups; or, by name, an account to bind; or a new one  *)
ByOIDC(s) == {n \in Names : Known(n) /\ users[n].oidc = s}

Signing(n, row) ==
  [op |-> "sync", name |-> n, read |-> users[n], row |-> row, admins |-> AdminsOf(users)]

ResolveOIDC(t, s, n, admin) ==
  /\ \/ \E m \in ByOIDC(s) :
          /\ users[m].admin # admin
          /\ Start(t, Signing(m, [users[m] EXCEPT !.admin = admin]))
     \/ ByOIDC(s) = {} /\ Start(t, [op |-> "name", subject |-> s, name |-> n, admin |-> admin])
  /\ UNCHANGED <<users, ids, excused>>

\* Mutant: an account that is bound already is linked too.
RebindsUser(n) == LinkByUsername

linkExistingUser(n) == LinkByUsername /\ users[n].oidc = Unbound

ResolveByName(t) ==
  LET n == task[t].name
      s == task[t].subject IN
  /\ task[t].op = "name"
  /\ task' = [task EXCEPT ![t] =
       CASE Known(n) /\ linkExistingUser(n) ->
              Signing(n, [users[n] EXCEPT !.oidc = s, !.admin = task[t].admin])
         [] ~Known(n) /\ AutoRegister ->
              [op |-> "insert", name |-> n, row |-> Account(0, task[t].admin, s, Unbound)]
         [] OTHER -> NoTask]
  /\ UNCHANGED <<users, ids, tasks, excused>>

(* UpdateUser of a sign-in *)
SyncUser(t) ==
  /\ task[t].op = "sync"
  /\ users' = Saved(task[t].name, task[t].row)
  /\ excused' = (excused \/ AdminsOf(users) \ AdminsOf(users') # {})
  /\ Done(t)
  /\ UNCHANGED <<ids, tasks>>

(* resolveUser of LDAP: the account of the DN; else the account of the     *)
(* name, if it is bound to nothing; else a new one if the name is free.    *)
(* The row is saved when the flag, the DN or the display name changed.     *)
ByLDAP(s) == {n \in Names : Known(n) /\ users[n].ldap = s}

LinkableByLDAP(n) == LinkByUsername /\ Known(n) /\ users[n].ldap = Unbound /\ users[n].oidc = Unbound

ResolveLDAP(t, s, n, admin) ==
  /\ \/ \E m \in ByLDAP(s) : Start(t, Signing(m, [users[m] EXCEPT !.admin = admin]))
     \/ /\ ByLDAP(s) = {} /\ LinkableByLDAP(n)
        /\ Start(t, Signing(n, [users[n] EXCEPT !.ldap = s, !.admin = admin]))
     \/ /\ ByLDAP(s) = {} /\ ~Known(n) /\ AutoRegister
        /\ Start(t, [op |-> "insert", name |-> n, row |-> Account(0, admin, Unbound, s)])
  /\ UNCHANGED <<users, ids, excused>>

UserNext ==
  \E t \in Tasks :
    \/ InsertUser(t) \/ CountUser(t) \/ SaveUser(t) \/ DeleteUserRow(t)
    \/ ResolveByName(t) \/ SyncUser(t)
    \/ \E n \in Names : DeleteUserByID(t, n) \/ ChangePassword(t, n)
    \/ \E n \in Names, admin \in BOOLEAN :
         \/ CreateAccount(t, n, admin) \/ UpdateUserByID(t, n, admin)
         \/ \E s \in Subjects : ResolveOIDC(t, s, n, admin) \/ ResolveLDAP(t, s, n, admin)

UserSpec == UserInit /\ [][UserNext]_userVars

-----------------------------------------------------------------------------
(* "cannot delete last admin": demoting and deleting accounts never leaves *)
(* the server without an administrator, unless a directory sign-in took    *)
(* the flag away or two such requests overlapped (the count and the write  *)
(* are not one transaction).                                               *)
LastAdminKept == AdminsOf(users) = {} => excused

(* An account bound to an OIDC identity is not bound to another one, and   *)
(* not released, by linking a second identity by name; only a save of an   *)
(* older row (a change of the password or of the account, or a sign-in,    *)
(* overlapping the binding) can do that.                                   *)
BindingKept ==
  [][\A n \in Names :
       Known(n) /\ users[n].oidc # Unbound /\ users'[n].id = users[n].id =>
         \/ users'[n].oidc = users[n].oidc
         \/ \E t \in Tasks : /\ task[t].op \in {"save", "sync"} /\ task'[t] = NoTask
                             /\ task[t].name = n /\ task[t].read # users[n]]_userVars
=============================================================================
