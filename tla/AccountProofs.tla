--------------------------- MODULE AccountProofs ---------------------------
(* Proofs about accounts, for any users, clients, codes and requests: what  *)
(* is used up stays used up (SecondFactor), the last administrator and the  *)
(* binding of an account are kept (Users), a removed client leaves no open  *)
(* connection (Sessions), and a pending sign-in is kept for its period and  *)
(* redeemed once (SignIn).                                                  *)
EXTENDS SecondFactor, Users, Sessions, SignIn, FiniteSetTheorems, TLAPS

-----------------------------------------------------------------------------
(* SecondFactor: the inductive invariant.                                  *)

MfaRows == [enabled : BOOLEAN, stored : BOOLEAN, codes : SUBSET Codes]

JobStates ==
  {Idle}
  \cup [op : {"save"}, row : MfaRows]
  \cup [op : {"consume"}, code : Codes, row : MfaRows, why : {"login", "disable"}]
  \cup [op : {"delete"}]
  \cup [op : {"answer", "forget"}, challenge : Challenges, purpose : {"login", "elevate", "register"}]

FactorType ==
  /\ mfa \in MfaRows
  /\ job \in [Jobs -> JobStates]
  /\ used \in [Challenges -> Nat]
  /\ challenge \in [Challenges -> {"new", "login", "elevate", "register", "none"}]

\* Nobody has seen a fresh code; a request that consumes one saves the row
\* without it.
CodesInv ==
  /\ fresh \subseteq Codes
  /\ fresh \cap (mfa.codes \cup spent) = {}
  /\ \A j \in Jobs :
       /\ job[j].op \in {"save", "consume"} => fresh \cap job[j].row.codes = {}
       /\ job[j].op = "consume" => job[j].code \notin fresh /\ job[j].code \notin job[j].row.codes

Holds(j, c) == job[j].op \in {"answer", "forget"} /\ job[j].challenge = c

\* Unless it was read twice or its deletion failed, a challenge is held by one
\* request, is answered by it alone, and is then deleted.
ChallengeInv ==
  \A c \in Challenges \ doubled :
     /\ \A i, j \in Jobs : Holds(i, c) /\ Holds(j, c) => i = j
     /\ used[c] <= 1
     /\ \A j \in Jobs : job[j].op = "answer" /\ job[j].challenge = c => used[c] = 0
     /\ used[c] = 1 => \/ challenge[c] = "none"
                       \/ \E j \in Jobs : job[j].op = "forget" /\ job[j].challenge = c

FactorInv == FactorType /\ CodesInv /\ CodeSpent /\ ChallengeInv

-----------------------------------------------------------------------------
LEMMA JobFacts ==
    ASSUME FactorType, NEW j \in Jobs
    PROVE  /\ job[j].op \in {"save", "consume"} => job[j].row \in MfaRows
           /\ job[j].op = "consume" => job[j].code \in Codes
           /\ job[j].op \in {"answer", "forget"} =>
                job[j] \in [op : {"answer", "forget"}, challenge : Challenges,
                            purpose : {"login", "elevate", "register"}]
           /\ "challenge" \in DOMAIN job[j] <=> job[j].op \in {"answer", "forget"}
           /\ job[j] = Idle <=> job[j].op = "none"
<1>1. job[j] \in JobStates
  BY DEF FactorType
<1> QED  BY <1>1 DEF JobStates, Idle

\* One request moves; the others stay as they are.
LEMMA JobMoves ==
    ASSUME FactorType, NEW j \in Jobs, NEW r \in JobStates, job' = [job EXCEPT ![j] = r]
    PROVE  /\ job' \in [Jobs -> JobStates] /\ job'[j] = r
           /\ \A i \in Jobs \ {j} : job'[i] = job[i]
BY DEF FactorType

LEMMA FactorInitially == FactorInit => FactorInv
<1> SUFFICES ASSUME FactorInit PROVE FactorInv
  OBVIOUS
<1>1. FactorType
  BY DEF FactorInit, FactorType, NoMFA, MfaRows, JobStates
<1>2. CodesInv /\ CodeSpent /\ ChallengeInv
  BY DEF FactorInit, CodesInv, CodeSpent, ChallengeInv, NoMFA, Idle, Holds
<1> QED  BY <1>1, <1>2 DEF FactorInv

\* What a step may do to a request that has nothing to do with a challenge.
LEMMA ChallengeFrame ==
    ASSUME FactorType, ChallengeInv, NEW j \in Jobs, NEW r \in JobStates,
           job' = [job EXCEPT ![j] = r],
           r.op \notin {"answer", "forget"}, job[j].op \notin {"answer", "forget"},
           UNCHANGED passkeyVars
    PROVE  ChallengeInv'
BY JobMoves DEF ChallengeInv, Holds, passkeyVars

LEMMA MfaSteps ==
    ASSUME FactorInv, NEW j \in Jobs,
           EnableMFA(j) \/ RegenerateRecoveryCodes(j) \/ SaveUserMFA(j) \/ SaveConsumed(j)
           \/ DisableMFA(j) \/ DeleteUserMFA(j)
           \/ \E c \in Codes, why \in {"login", "disable"} : ConsumeRecoveryCode(j, c, why)
    PROVE  FactorInv'
<1> USE DEF FactorInv
<1>1. Idle \in JobStates /\ Idle.op = "none" /\ [op |-> "delete"] \in JobStates
  BY DEF JobStates, Idle
<1>2. \A saved \in MfaRows : [op |-> "save", row |-> saved] \in JobStates
  BY DEF JobStates
<1>3. CASE EnableMFA(j)
  <2> DEFINE saved == [mfa EXCEPT !.enabled = TRUE]
  <2>1. saved \in MfaRows /\ saved.codes = mfa.codes
    BY DEF FactorType, MfaRows
  <2>2. /\ job' = [job EXCEPT ![j] = [op |-> "save", row |-> saved]] /\ job[j].op = "none"
        /\ UNCHANGED <<mfa, fresh, spent, restored, passkeyVars>>
    BY <1>1, <1>3 DEF EnableMFA, Take, mfaVars
  <2> HIDE DEF saved
  <2>3. FactorType' /\ ChallengeInv'
    BY <1>2, <2>1, <2>2, JobMoves, ChallengeFrame DEF FactorType, passkeyVars
  <2> QED  BY <1>2, <2>1, <2>2, <2>3, JobMoves DEF CodesInv, CodeSpent
<1>4. CASE RegenerateRecoveryCodes(j)
  <2>1. PICK b \in Batches :
          /\ job' = [job EXCEPT ![j] = [op |-> "save", row |-> [mfa EXCEPT !.codes = b]]]
          /\ fresh' = fresh \ b /\ job[j].op = "none"
          /\ UNCHANGED <<mfa, spent, restored, passkeyVars>>
    BY <1>1, <1>4 DEF RegenerateRecoveryCodes, Take
  <2> DEFINE saved == [mfa EXCEPT !.codes = b]
  <2>2. saved \in MfaRows /\ saved.codes = b /\ b \subseteq Codes
    BY DEF FactorType, MfaRows, Batches, CodesInv
  <2>3. job' = [job EXCEPT ![j] = [op |-> "save", row |-> saved]]
    BY <2>1
  <2> HIDE DEF saved
  <2>4. FactorType' /\ ChallengeInv'
    BY <1>2, <2>1, <2>2, <2>3, JobMoves, ChallengeFrame DEF FactorType, passkeyVars
  <2> QED  BY <1>2, <2>1, <2>2, <2>3, <2>4, JobMoves DEF CodesInv, CodeSpent
<1>5. CASE SaveUserMFA(j) \/ SaveConsumed(j)
  <2>1. /\ job[j].op \in {"save", "consume"} /\ mfa' = job[j].row /\ job[j].row \in MfaRows
        /\ restored' = restored \cup (job[j].row.codes \ mfa.codes)
        /\ spent' = IF job[j].op = "consume" THEN spent \cup {job[j].code} ELSE spent
        /\ UNCHANGED <<fresh, passkeyVars>>
    BY <1>5, JobFacts DEF SaveUserMFA, SaveConsumed, Restores
  <2>2. PICK r \in JobStates : r.op \in {"none", "delete"} /\ job' = [job EXCEPT ![j] = r]
    BY <1>1, <1>5 DEF SaveUserMFA, SaveConsumed, Leave
  <2>3. FactorType' /\ ChallengeInv'
    BY <2>1, <2>2, JobMoves, ChallengeFrame DEF FactorType, passkeyVars
  <2>4. CodesInv'
    BY <2>1, <2>2, JobMoves DEF CodesInv
  <2>5. CodeSpent'
    BY <2>1 DEF CodesInv, CodeSpent
  <2> QED  BY <2>3, <2>4, <2>5
<1>6. CASE DisableMFA(j)
  <2>1. /\ job' = [job EXCEPT ![j] = [op |-> "delete"]] /\ job[j].op = "none"
        /\ UNCHANGED <<mfa, fresh, spent, restored, passkeyVars>>
    BY <1>1, <1>6 DEF DisableMFA, Take, mfaVars
  <2>2. FactorType' /\ ChallengeInv'
    BY <1>1, <2>1, JobMoves, ChallengeFrame DEF FactorType, passkeyVars
  <2> QED  BY <1>1, <2>1, <2>2, JobMoves DEF CodesInv, CodeSpent
<1>7. CASE DeleteUserMFA(j)
  <2>1. /\ job' = [job EXCEPT ![j] = Idle] /\ job[j].op = "delete" /\ mfa' = NoMFA
        /\ UNCHANGED <<fresh, spent, restored, passkeyVars>>
    BY <1>7 DEF DeleteUserMFA, Leave
  <2>2. NoMFA \in MfaRows /\ NoMFA.codes = {}
    BY DEF NoMFA, MfaRows
  <2>3. FactorType' /\ ChallengeInv'
    BY <1>1, <2>1, <2>2, JobMoves, ChallengeFrame DEF FactorType, passkeyVars
  <2> QED  BY <1>1, <2>1, <2>2, <2>3, JobMoves DEF CodesInv, CodeSpent
<1>8. ASSUME NEW c \in Codes, NEW why \in {"login", "disable"}, ConsumeRecoveryCode(j, c, why)
      PROVE  FactorInv'
  <2> DEFINE saved == WithoutCode(c)
  <2> DEFINE r == [op |-> "consume", code |-> c, row |-> saved, why |-> why]
  <2>1. saved \in MfaRows /\ saved.codes = mfa.codes \ {c} /\ c \in mfa.codes
    BY <1>8 DEF ConsumeRecoveryCode, FactorType, MfaRows, WithoutCode
  <2>2. /\ job' = [job EXCEPT ![j] = r] /\ job[j].op = "none"
        /\ restored \subseteq restored' /\ UNCHANGED <<mfa, fresh, spent, passkeyVars>>
    BY <1>1, <1>8 DEF ConsumeRecoveryCode, Take
  <2> HIDE DEF saved
  <2>3. r \in JobStates /\ r.op = "consume" /\ r.row = saved /\ r.code = c
    BY <2>1 DEF JobStates
  <2> HIDE DEF r
  <2>4. FactorType' /\ ChallengeInv'
    BY <2>2, <2>3, JobMoves, ChallengeFrame DEF FactorType, passkeyVars
  <2> QED  BY <2>1, <2>2, <2>3, <2>4, JobMoves DEF CodesInv, CodeSpent
<1> QED  BY <1>3, <1>4, <1>5, <1>6, <1>7, <1>8

LEMMA SetupStep ==
    ASSUME FactorInv, NEW j \in Jobs, Setup(j)
    PROVE  FactorInv'
<1>1. PICK b \in Batches : /\ mfa' = [enabled |-> FALSE, stored |-> TRUE, codes |-> b]
                           /\ fresh' = fresh \ b
                           /\ UNCHANGED <<job, spent, restored, passkeyVars>>
  BY DEF Setup
<1>2. b \subseteq fresh /\ b \subseteq Codes
  BY DEF Batches, FactorInv, CodesInv
<1>3. FactorType' /\ ChallengeInv'
  BY <1>1, <1>2 DEF FactorInv, FactorType, MfaRows, ChallengeInv, Holds, passkeyVars
<1> QED  BY <1>1, <1>2, <1>3 DEF FactorInv, CodesInv, CodeSpent

\* The steps on challenges leave the codes and the rows in work alone.
LEMMA CodesFrame ==
    ASSUME FactorInv, UNCHANGED mfaVars,
           \A i \in Jobs : job'[i] = job[i] \/ job'[i].op \in {"none", "answer", "forget"}
    PROVE  CodesInv' /\ CodeSpent'
BY DEF FactorInv, CodesInv, CodeSpent, mfaVars

LEMMA ChallengeSteps ==
    ASSUME FactorInv, NEW c \in Challenges,
           ChallengeExpires(c) \/ DeletePasskey
           \/ \E purpose \in {"login", "elevate", "register"} : SaveWebAuthnChallenge(c, purpose)
    PROVE  FactorInv'
<1>1. /\ UNCHANGED <<mfaVars, job, used, doubled>>
      /\ \/ challenge' = challenge
         \/ challenge' = [challenge EXCEPT ![c] = "none"]
         \/ /\ challenge[c] = "new"
            /\ \E purpose \in {"login", "elevate", "register"} :
                 challenge' = [challenge EXCEPT ![c] = purpose]
  BY DEF ChallengeExpires, DeletePasskey, SaveWebAuthnChallenge
<1>2. FactorType'
  BY <1>1 DEF FactorInv, FactorType, mfaVars
<1>3. ChallengeInv'
  BY <1>1 DEF FactorInv, FactorType, ChallengeInv, Holds
<1> QED  BY <1>1, <1>2, <1>3, CodesFrame DEF FactorInv

LEMMA PasskeySteps ==
    ASSUME FactorInv, NEW j \in Jobs,
           SavePasskey(j) \/ DeleteWebAuthnChallenge(j) \/ ForgetFails(j)
           \/ \E c \in Challenges : verifyAssertion(j, c)
    PROVE  FactorInv'
<1> USE DEF FactorInv
<1>1. Idle \in JobStates /\ Idle.op = "none"
  BY DEF JobStates, Idle
<1>2. CASE SavePasskey(j)
  <2> DEFINE r == [job[j] EXCEPT !.op = "forget"]
  <2> DEFINE c == job[j].challenge
  <2>1. /\ job[j].op = "answer" /\ job' = [job EXCEPT ![j] = r]
        /\ used' = [used EXCEPT ![c] = @ + 1]
        /\ UNCHANGED <<mfaVars, challenge, doubled>>
    BY <1>2 DEF SavePasskey
  <2>2. r \in JobStates /\ r.op = "forget" /\ r.challenge = c /\ c \in Challenges
    BY <2>1, JobFacts DEF JobStates
  <2> HIDE DEF r
  <2>3. /\ job' \in [Jobs -> JobStates] /\ job'[j] = r
        /\ \A i \in Jobs \ {j} : job'[i] = job[i]
    BY <2>1, <2>2, JobMoves
  <2>4. FactorType'
    BY <2>1, <2>2, <2>3 DEF FactorType, mfaVars
  <2>5. ChallengeInv'
    BY <2>1, <2>2, <2>3 DEF FactorType, ChallengeInv, Holds
  <2> QED  BY <2>1, <2>2, <2>3, <2>4, <2>5, CodesFrame
<1>3. CASE DeleteWebAuthnChallenge(j)
  <2>1. /\ job[j].op = "forget" /\ job' = [job EXCEPT ![j] = Idle]
        /\ challenge' = [challenge EXCEPT ![job[j].challenge] = "none"]
        /\ UNCHANGED <<mfaVars, used, doubled>>
    BY <1>3 DEF DeleteWebAuthnChallenge, Leave
  <2>2. /\ job' \in [Jobs -> JobStates] /\ job'[j] = Idle
        /\ \A i \in Jobs \ {j} : job'[i] = job[i]
    BY <1>1, <2>1, JobMoves
  <2>3. FactorType'
    BY <2>1, <2>2 DEF FactorType, mfaVars
  <2>4. ChallengeInv'
    BY <1>1, <2>1, <2>2 DEF FactorType, ChallengeInv, Holds
  <2> QED  BY <1>1, <2>1, <2>2, <2>3, <2>4, CodesFrame
<1>4. CASE ForgetFails(j)
  <2>1. /\ job[j].op = "forget" /\ job' = [job EXCEPT ![j] = Idle]
        /\ doubled' = doubled \cup {job[j].challenge}
        /\ UNCHANGED <<mfaVars, used, challenge>>
    BY <1>4 DEF ForgetFails, Leave
  <2>2. /\ job' \in [Jobs -> JobStates] /\ job'[j] = Idle
        /\ \A i \in Jobs \ {j} : job'[i] = job[i]
    BY <1>1, <2>1, JobMoves
  <2>3. FactorType'
    BY <2>1, <2>2 DEF FactorType, mfaVars
  <2>4. ChallengeInv'
    BY <1>1, <2>1, <2>2 DEF FactorType, ChallengeInv, Holds
  <2> QED  BY <1>1, <2>1, <2>2, <2>3, <2>4, CodesFrame
<1>5. ASSUME NEW c \in Challenges, verifyAssertion(j, c) PROVE FactorInv'
  <2> DEFINE r == [op |-> "answer", challenge |-> c, purpose |-> challenge[c]]
  <2>1. /\ job[j].op = "none" /\ job' = [job EXCEPT ![j] = r]
        /\ challenge[c] \in {"login", "elevate", "register"}
        /\ doubled' = IF ReadTwice(c) THEN doubled \cup {c} ELSE doubled
        /\ UNCHANGED <<mfaVars, used, challenge>>
    BY <1>1, <1>5 DEF verifyAssertion, Take
  <2>2. r \in JobStates /\ r.op = "answer" /\ r.challenge = c
    BY <2>1 DEF JobStates
  <2> HIDE DEF r
  <2>3. /\ job' \in [Jobs -> JobStates] /\ job'[j] = r
        /\ \A i \in Jobs \ {j} : job'[i] = job[i]
    BY <2>1, <2>2, JobMoves
  <2>4. FactorType'
    BY <2>1, <2>2, <2>3 DEF FactorType, mfaVars
  <2>5. c \notin doubled' => c \notin doubled /\ \A i \in Jobs : ~Holds(i, c)
    BY <2>1, JobFacts DEF ReadTwice, Holds
  <2>6. c \notin doubled' => used[c] = 0
    BY <2>1, <2>5 DEF ChallengeInv, Holds, FactorType
  <2>7. ChallengeInv'
    BY <2>1, <2>2, <2>3, <2>5, <2>6 DEF FactorType, ChallengeInv, Holds
  <2> QED  BY <2>1, <2>2, <2>3, <2>4, <2>7, CodesFrame
<1> QED  BY <1>2, <1>3, <1>4, <1>5

LEMMA FactorInvariance == FactorSpec => []FactorInv
<1>1. FactorInv /\ [FactorNext]_factorVars => FactorInv'
  <2> SUFFICES ASSUME FactorInv, [FactorNext]_factorVars PROVE FactorInv'
    OBVIOUS
  <2>1. CASE UNCHANGED factorVars
    BY <2>1 DEF factorVars, FactorInv, FactorType, CodesInv, CodeSpent, ChallengeInv, Holds
  <2>2. CASE DeletePasskey
    <3>1. CASE Challenges = {}
      BY <2>2, <3>1, CodesFrame DEF DeletePasskey, FactorInv, FactorType, ChallengeInv, mfaVars
    <3> QED  BY <2>2, <3>1, ChallengeSteps
  <2> QED  BY <2>1, <2>2, MfaSteps, SetupStep, ChallengeSteps, PasskeySteps DEF FactorNext
<1> QED  BY FactorInitially, <1>1, PTL DEF FactorSpec

\* A recovery code and a passkey challenge are used once: only a save of an
\* older row brings a code back, and only a challenge read twice or not deleted
\* is answered twice (api/mfa.go ConsumeRecoveryCode, api/passkey.go).
THEOREM FactorsSpentOnce == FactorSpec => []SpentOnce
<1>1. FactorInv => SpentOnce
  BY DEF FactorInv, ChallengeInv, SpentOnce, ChallengeOnce
<1> QED  BY <1>1, FactorInvariance, PTL

-----------------------------------------------------------------------------
(* Users: the inductive invariant.                                         *)

Identities == Subjects \cup {Unbound}

Rows == [id : Nat, admin : BOOLEAN, oidc : Identities, ldap : Identities]
StoredRows == {r \in Rows : r.id # 0}

TaskStates ==
  {NoTask}
  \cup [op : {"insert"}, name : Names, row : Rows]
  \cup [op : {"count"}, name : Names, read : StoredRows, then : {"save", "delete"}, row : StoredRows]
  \cup [op : {"save", "delete", "sync"}, name : Names, read : StoredRows, row : StoredRows,
        admins : SUBSET Names]
  \cup [op : {"name"}, subject : Subjects, name : Names, admin : BOOLEAN]

UserType ==
  /\ users \in [Names -> StoredRows \cup {NoUser}]
  /\ task \in [Tasks -> TaskStates]
  /\ ids \in Nat /\ excused \in BOOLEAN

\* What a request writes, against the row it read: a deletion counts as taking
\* the flag; the flag was counted before it is taken; only a sign-in changes an
\* identity, and binds only an account that has none.
TaskInv ==
  \A t \in Tasks :
     /\ task[t].op = "delete" => ~task[t].row.admin
     /\ task[t].op = "count" =>
          /\ task[t].then = "delete" => ~task[t].row.admin
          /\ task[t].row.oidc = task[t].read.oidc
     /\ task[t].op \in {"save", "delete"} =>
          /\ task[t].read.admin /\ ~task[t].row.admin => Cardinality(task[t].admins) # 1
          /\ task[t].row.oidc = task[t].read.oidc
     /\ task[t].op = "sync" =>
          task[t].row.oidc = task[t].read.oidc \/ task[t].read.oidc = Unbound

UserInv == UserType /\ TaskInv /\ LastAdminKept

-----------------------------------------------------------------------------
LEMMA RowFacts ==
    ASSUME UserType, NEW n \in Names
    PROVE  /\ Known(n) <=> users[n] \in StoredRows
           /\ ~Known(n) => users[n].id = 0
<1>1. NoUser \notin StoredRows /\ NoUser.id = 0
  BY DEF NoUser, StoredRows, Rows
<1> QED  BY <1>1 DEF UserType, Known

LEMMA TaskFacts ==
    ASSUME UserType, NEW t \in Tasks
    PROVE  /\ task[t].op = "none" <=> task[t] = NoTask
           /\ task[t].op # "none" => task[t].name \in Names
           /\ task[t].op = "insert" => task[t].row \in Rows
           /\ task[t].op \in {"count", "save", "delete", "sync"} =>
                task[t].read \in StoredRows /\ task[t].row \in StoredRows
           /\ task[t].op \in {"save", "delete", "sync"} => task[t].admins \subseteq Names
           /\ task[t].op = "count" => task[t].then \in {"save", "delete"}
           /\ task[t].op = "name" => task[t].subject \in Subjects /\ task[t].admin \in BOOLEAN
<1>1. task[t] \in TaskStates
  BY DEF UserType
<1> QED  BY <1>1 DEF TaskStates, NoTask

LEMMA TaskMoves ==
    ASSUME UserType, NEW t \in Tasks, NEW r \in TaskStates, task' = [task EXCEPT ![t] = r]
    PROVE  /\ task' \in [Tasks -> TaskStates] /\ task'[t] = r
           /\ \A i \in Tasks \ {t} : task'[i] = task[i]
BY DEF UserType

LEMMA UserInitially == UserInit => UserInv
<1> SUFFICES ASSUME UserInit PROVE UserInv
  OBVIOUS
<1>1. Account(1, TRUE, Unbound, Unbound) \in StoredRows /\ Account(1, TRUE, Unbound, Unbound).admin
  BY DEF Account, StoredRows, Rows, Identities
<1>2. UserType
  BY <1>1 DEF UserInit, UserType, TaskStates
<1>3. TaskInv
  BY DEF UserInit, TaskInv, NoTask
<1>4. Root \in AdminsOf(users)
  BY <1>1, UsersAssumption, RowFacts, <1>2 DEF UserInit, AdminsOf, Known
<1> QED  BY <1>2, <1>3, <1>4 DEF UserInv, LastAdminKept

\* A request that only reads, with what it decided on.
LEMMA ReadSteps ==
    ASSUME UserInv, NEW t \in Tasks, NEW r \in TaskStates, task' = [task EXCEPT ![t] = r],
           UNCHANGED <<users, ids, excused>>,
           r.op = "delete" => ~r.row.admin,
           r.op = "count" => /\ r.then = "delete" => ~r.row.admin
                             /\ r.row.oidc = r.read.oidc,
           r.op \in {"save", "delete"} =>
             /\ r.read.admin /\ ~r.row.admin => Cardinality(r.admins) # 1
             /\ r.row.oidc = r.read.oidc,
           r.op = "sync" => r.row.oidc = r.read.oidc \/ r.read.oidc = Unbound
    PROVE  UserInv'
<1>1. UserType' /\ LastAdminKept'
  BY TaskMoves DEF UserInv, UserType, LastAdminKept, AdminsOf
<1>2. TaskInv'
  BY TaskMoves DEF UserInv, TaskInv
<1> QED  BY <1>1, <1>2 DEF UserInv

LEMMA RowEdits ==
    ASSUME NEW saved \in StoredRows, NEW admin \in BOOLEAN, NEW s \in Identities
    PROVE  /\ [saved EXCEPT !.admin = admin] \in StoredRows
           /\ [saved EXCEPT !.admin = admin].admin = admin
           /\ [saved EXCEPT !.admin = admin].oidc = saved.oidc
           /\ [saved EXCEPT !.oidc = s, !.admin = admin] \in StoredRows
           /\ [saved EXCEPT !.ldap = s, !.admin = admin] \in StoredRows
           /\ [saved EXCEPT !.ldap = s, !.admin = admin].oidc = saved.oidc
BY DEF StoredRows, Rows, Identities

LEMMA RequestSteps ==
    ASSUME UserInv, NEW t \in Tasks, NEW n \in Names, NEW admin \in BOOLEAN,
           \/ CreateAccount(t, n, admin) \/ UpdateUserByID(t, n, admin) \/ DeleteUserByID(t, n)
           \/ ChangePassword(t, n) \/ CountUser(t)
    PROVE  UserInv'
<1> USE DEF UserInv
<1>0. UserType /\ Unbound \in Identities /\ FALSE \in BOOLEAN
  BY DEF Identities
<1>1. CASE CreateAccount(t, n, admin)
  <2> DEFINE r == [op |-> "insert", name |-> n, row |-> Account(0, admin, Unbound, Unbound)]
  <2>1. r \in TaskStates /\ r.op = "insert"
    BY DEF TaskStates, Account, Rows, Identities
  <2>2. task' = [task EXCEPT ![t] = r] /\ UNCHANGED <<users, ids, excused>>
    BY <1>1 DEF CreateAccount, Start
  <2> HIDE DEF r
  <2> QED  BY <2>1, <2>2, ReadSteps
<1>2. CASE UpdateUserByID(t, n, admin)
  <2> DEFINE saved == [users[n] EXCEPT !.admin = admin]
  <2> DEFINE r == [op |-> "count", name |-> n, read |-> users[n], then |-> "save", row |-> saved]
  <2>1. users[n] \in StoredRows /\ saved \in StoredRows /\ saved.oidc = users[n].oidc
    BY <1>0, <1>2, RowFacts, RowEdits DEF UpdateUserByID
  <2> HIDE DEF saved
  <2>2. /\ r \in TaskStates /\ r.op = "count" /\ r.then = "save"
        /\ r.row = saved /\ r.read = users[n]
    BY <2>1 DEF TaskStates
  <2>3. task' = [task EXCEPT ![t] = r] /\ UNCHANGED <<users, ids, excused>>
    BY <1>2 DEF UpdateUserByID, Start, saved
  <2> HIDE DEF r
  <2> QED  BY <2>1, <2>2, <2>3, ReadSteps
<1>3. CASE DeleteUserByID(t, n)
  <2> DEFINE saved == [users[n] EXCEPT !.admin = FALSE]
  <2> DEFINE r == [op |-> "count", name |-> n, read |-> users[n], then |-> "delete", row |-> saved]
  <2>1. /\ users[n] \in StoredRows /\ saved \in StoredRows
        /\ saved.oidc = users[n].oidc /\ ~saved.admin
    BY <1>0, <1>3, RowFacts, RowEdits DEF DeleteUserByID
  <2> HIDE DEF saved
  <2>2. /\ r \in TaskStates /\ r.op = "count" /\ r.then = "delete"
        /\ r.row = saved /\ r.read = users[n]
    BY <2>1 DEF TaskStates
  <2>3. task' = [task EXCEPT ![t] = r] /\ UNCHANGED <<users, ids, excused>>
    BY <1>3 DEF DeleteUserByID, Start, saved
  <2> HIDE DEF r
  <2> QED  BY <2>1, <2>2, <2>3, ReadSteps
<1>4. CASE ChangePassword(t, n)
  <2> DEFINE r == [op |-> "save", name |-> n, read |-> users[n], row |-> users[n],
                   admins |-> AdminsOf(users)]
  <2>1. users[n] \in StoredRows /\ AdminsOf(users) \subseteq Names
    BY <1>0, <1>4, RowFacts DEF ChangePassword, AdminsOf
  <2>2. r \in TaskStates /\ r.op = "save" /\ r.row = users[n] /\ r.read = users[n]
    BY <2>1 DEF TaskStates
  <2>3. task' = [task EXCEPT ![t] = r] /\ UNCHANGED <<users, ids, excused>>
    BY <1>4 DEF ChangePassword, Start
  <2> HIDE DEF r
  <2> QED  BY <2>1, <2>2, <2>3, ReadSteps
<1>5. CASE CountUser(t)
  <2> DEFINE r == [op |-> task[t].then, name |-> task[t].name, read |-> task[t].read,
                   row |-> task[t].row, admins |-> AdminsOf(users)]
  <2>1. /\ task[t].op = "count" /\ task[t].then \in {"save", "delete"} /\ task[t].name \in Names
        /\ task[t].read \in StoredRows /\ task[t].row \in StoredRows
        /\ AdminsOf(users) \subseteq Names
        /\ task[t].then = "delete" => ~task[t].row.admin
        /\ task[t].row.oidc = task[t].read.oidc
        /\ UNCHANGED <<users, ids, excused>>
    BY <1>5, TaskFacts DEF CountUser, AdminsOf, TaskInv
  <2>2. CASE LastAdmin(t)
    <3>1. task' = [task EXCEPT ![t] = NoTask]
      BY <1>5, <2>2 DEF CountUser
    <3>2. NoTask \in TaskStates /\ NoTask.op = "none"
      BY DEF TaskStates, NoTask
    <3> QED  BY <2>1, <3>1, <3>2, ReadSteps
  <2>3. CASE ~LastAdmin(t)
    <3>1. task' = [task EXCEPT ![t] = r]
      BY <1>5, <2>3 DEF CountUser
    <3>2. /\ r \in TaskStates /\ r.op = task[t].then /\ r.row = task[t].row /\ r.read = task[t].read
          /\ r.admins = AdminsOf(users)
      BY <2>1 DEF TaskStates
    <3> HIDE DEF r
    <3> QED  BY <2>1, <2>3, <3>1, <3>2, ReadSteps DEF LastAdmin
  <2> QED  BY <2>2, <2>3
<1> QED  BY <1>1, <1>2, <1>3, <1>4, <1>5

LEMMA SigningFacts ==
    ASSUME UserType, NEW n \in Names, NEW saved \in StoredRows, users[n] \in StoredRows,
           saved.oidc = users[n].oidc \/ users[n].oidc = Unbound
    PROVE  /\ Signing(n, saved) \in TaskStates /\ Signing(n, saved).op = "sync"
           /\ Signing(n, saved).row = saved /\ Signing(n, saved).read = users[n]
<1>1. AdminsOf(users) \subseteq Names
  BY DEF AdminsOf
<1> QED  BY <1>1 DEF Signing, TaskStates

LEMMA SignInSteps ==
    ASSUME UserInv, NEW t \in Tasks, NEW s \in Subjects, NEW n \in Names, NEW admin \in BOOLEAN,
           ResolveOIDC(t, s, n, admin) \/ ResolveLDAP(t, s, n, admin)
    PROVE  UserInv'
<1> USE DEF UserInv
<1>0. UserType /\ s \in Identities /\ Unbound \in Identities
  BY DEF Identities
<1>1. UNCHANGED <<users, ids, excused>>
  BY DEF ResolveOIDC, ResolveLDAP
<1>2. CASE ResolveOIDC(t, s, n, admin)
  <2>1. CASE \E m \in ByOIDC(s) : Start(t, Signing(m, [users[m] EXCEPT !.admin = admin]))
    <3>1. PICK m \in ByOIDC(s) : task' = [task EXCEPT ![t] = Signing(m, [users[m] EXCEPT !.admin = admin])]
      BY <2>1 DEF Start
    <3>2. m \in Names /\ users[m] \in StoredRows
      BY <1>0, RowFacts DEF ByOIDC
    <3>3. /\ [users[m] EXCEPT !.admin = admin] \in StoredRows
          /\ [users[m] EXCEPT !.admin = admin].oidc = users[m].oidc
      BY <1>0, <3>2, RowEdits
    <3> QED  BY <1>1, <3>1, <3>2, <3>3, SigningFacts, ReadSteps
  <2>2. CASE Start(t, [op |-> "name", subject |-> s, name |-> n, admin |-> admin])
    <3> DEFINE r == [op |-> "name", subject |-> s, name |-> n, admin |-> admin]
    <3>1. r \in TaskStates /\ r.op = "name" /\ task' = [task EXCEPT ![t] = r]
      BY <2>2 DEF TaskStates, Start
    <3> HIDE DEF r
    <3> QED  BY <1>1, <3>1, ReadSteps
  <2> QED  BY <1>2, <2>1, <2>2 DEF ResolveOIDC
<1>3. CASE ResolveLDAP(t, s, n, admin)
  <2>1. CASE \E m \in ByLDAP(s) : Start(t, Signing(m, [users[m] EXCEPT !.admin = admin]))
    <3>1. PICK m \in ByLDAP(s) : task' = [task EXCEPT ![t] = Signing(m, [users[m] EXCEPT !.admin = admin])]
      BY <2>1 DEF Start
    <3>2. m \in Names /\ users[m] \in StoredRows
      BY <1>0, RowFacts DEF ByLDAP
    <3>3. /\ [users[m] EXCEPT !.admin = admin] \in StoredRows
          /\ [users[m] EXCEPT !.admin = admin].oidc = users[m].oidc
      BY <1>0, <3>2, RowEdits
    <3> QED  BY <1>1, <3>1, <3>2, <3>3, SigningFacts, ReadSteps
  <2>2. CASE LinkableByLDAP(n) /\ Start(t, Signing(n, [users[n] EXCEPT !.ldap = s, !.admin = admin]))
    <3>1. users[n] \in StoredRows
      BY <1>0, <2>2, RowFacts DEF LinkableByLDAP
    <3>2. task' = [task EXCEPT ![t] = Signing(n, [users[n] EXCEPT !.ldap = s, !.admin = admin])]
      BY <2>2 DEF Start
    <3>3. /\ [users[n] EXCEPT !.ldap = s, !.admin = admin] \in StoredRows
          /\ [users[n] EXCEPT !.ldap = s, !.admin = admin].oidc = users[n].oidc
      BY <1>0, <3>1 DEF StoredRows, Rows
    <3> QED  BY <1>1, <3>1, <3>2, <3>3, SigningFacts, ReadSteps
  <2>3. CASE Start(t, [op |-> "insert", name |-> n, row |-> Account(0, admin, Unbound, s)])
    <3> DEFINE r == [op |-> "insert", name |-> n, row |-> Account(0, admin, Unbound, s)]
    <3>1. r \in TaskStates /\ r.op = "insert" /\ task' = [task EXCEPT ![t] = r]
      BY <1>0, <2>3 DEF TaskStates, Start, Account, Rows
    <3> HIDE DEF r
    <3> QED  BY <1>1, <3>1, ReadSteps
  <2> QED  BY <1>3, <2>1, <2>2, <2>3 DEF ResolveLDAP
<1> QED  BY <1>2, <1>3

LEMMA ByNameStep ==
    ASSUME UserInv, NEW t \in Tasks, ResolveByName(t)
    PROVE  UserInv'
<1> DEFINE n == task[t].name
<1> DEFINE s == task[t].subject
<1> DEFINE admin == task[t].admin
<1>1. /\ n \in Names /\ s \in Subjects /\ admin \in BOOLEAN
      /\ UNCHANGED <<users, ids, excused>>
  BY TaskFacts DEF ResolveByName, UserInv
<1>2. s \in Identities /\ Unbound \in Identities
  BY <1>1 DEF Identities
<1>3. CASE Known(n) /\ linkExistingUser(n)
  <2> DEFINE saved == [users[n] EXCEPT !.oidc = s, !.admin = admin]
  <2>1. users[n] \in StoredRows /\ users[n].oidc = Unbound
    BY <1>1, <1>3, RowFacts DEF UserInv, linkExistingUser
  <2>2. saved \in StoredRows
    BY <1>1, <1>2, <2>1, RowEdits
  <2>3. task' = [task EXCEPT ![t] = Signing(n, saved)]
    BY <1>3 DEF ResolveByName
  <2> HIDE DEF saved
  <2>4. /\ Signing(n, saved) \in TaskStates /\ Signing(n, saved).op = "sync"
        /\ Signing(n, saved).row = saved /\ Signing(n, saved).read = users[n]
    BY <1>1, <2>1, <2>2, SigningFacts DEF UserInv
  <2> QED  BY <1>1, <2>1, <2>3, <2>4, ReadSteps
<1>4. CASE ~Known(n) /\ AutoRegister
  <2> DEFINE r == [op |-> "insert", name |-> n, row |-> Account(0, admin, s, Unbound)]
  <2>1. r \in TaskStates /\ r.op = "insert"
    BY <1>1, <1>2 DEF TaskStates, Account, Rows
  <2>2. task' = [task EXCEPT ![t] = r]
    BY <1>4 DEF ResolveByName
  <2> HIDE DEF r
  <2> QED  BY <1>1, <2>1, <2>2, ReadSteps
<1>5. CASE ~(Known(n) /\ linkExistingUser(n)) /\ ~(~Known(n) /\ AutoRegister)
  <2>1. NoTask \in TaskStates /\ NoTask.op = "none"
    BY DEF TaskStates, NoTask
  <2>2. task' = [task EXCEPT ![t] = NoTask]
    BY <1>5 DEF ResolveByName
  <2> QED  BY <1>1, <2>1, <2>2, ReadSteps
<1> QED  BY <1>3, <1>4, <1>5

\* A request that writes one row and is done.
LEMMA WriteSteps ==
    ASSUME UserInv, NEW t \in Tasks, NEW n \in Names, NEW saved \in StoredRows \cup {NoUser},
           users' = [users EXCEPT ![n] = saved], task' = [task EXCEPT ![t] = NoTask],
           ids' \in Nat, excused' \in BOOLEAN, LastAdminKept'
    PROVE  UserInv'
<1>1. NoTask \in TaskStates /\ NoTask.op = "none"
  BY DEF TaskStates, NoTask
<1>2. UserType'
  BY <1>1, TaskMoves DEF UserInv, UserType
<1>3. TaskInv'
  BY <1>1, TaskMoves DEF UserInv, TaskInv
<1> QED  BY <1>2, <1>3 DEF UserInv

\* Writing one row takes the flag of no other account.
LEMMA OneAdminLost ==
    ASSUME UserType, NEW n \in Names, NEW saved, users' = [users EXCEPT ![n] = saved]
    PROVE  \A m \in Names \ {n} : m \in AdminsOf(users') <=> m \in AdminsOf(users)
BY DEF UserType, AdminsOf

\* A request that decided on the present state and takes a flag was not taking
\* the last one.
LEMMA NotTheLast ==
    ASSUME UserInv, NEW t \in Tasks, task[t].op \in {"save", "delete"},
           users' = [users EXCEPT ![task[t].name] = users'[task[t].name]],
           users'[task[t].name] = task[t].row \/ task[t].op = "delete",
           ~Outrun(t, users'), AdminsOf(users) # {}
    PROVE  AdminsOf(users') # {}
<1> DEFINE n == task[t].name
<1>1. n \in Names
  BY TaskFacts DEF UserInv
<1>2. CASE AdminsOf(users) \subseteq AdminsOf(users')
  BY <1>2
<1>3. CASE AdminsOf(users) \ AdminsOf(users') # {}
  <2>1. AdminsOf(users) = task[t].admins /\ users[n] = task[t].read
    BY <1>3 DEF Outrun
  <2>2. n \in AdminsOf(users) /\ n \notin AdminsOf(users')
    <3>1. \A m \in Names \ {n} : m \in AdminsOf(users') <=> m \in AdminsOf(users)
      BY <1>1, OneAdminLost DEF UserInv
    <3> QED  BY <1>3, <3>1 DEF AdminsOf
  <2>3. task[t].read.admin
    BY <2>1, <2>2 DEF AdminsOf
  <2>4. ~task[t].row.admin
    <3>1. CASE task[t].op = "delete"
      BY <3>1 DEF UserInv, TaskInv
    <3>2. CASE users'[n] = task[t].row /\ task[t].op # "delete"
      <4> DEFINE saved == users'[n]
      <4>1. users'[n] = saved /\ saved \in StoredRows
        BY <1>1, <3>2, TaskFacts DEF UserInv, UserType
      <4>2. saved # NoUser
        BY <4>1 DEF StoredRows, Rows, NoUser
      <4> QED  BY <1>1, <2>2, <3>2, <4>1, <4>2 DEF AdminsOf
    <3> QED  BY <3>1, <3>2
  <2>5. Cardinality(AdminsOf(users)) # 1
    BY <2>1, <2>3, <2>4 DEF UserInv, TaskInv
  <2>6. AdminsOf(users) # {n}
    BY <2>5, FS_Singleton
  <2>7. PICK m \in AdminsOf(users) : m # n
    BY <2>2, <2>6
  <2> QED  BY <1>1, <2>7, OneAdminLost DEF UserInv, AdminsOf
<1> QED  BY <1>2, <1>3

LEMMA SaveSteps ==
    ASSUME UserInv, NEW t \in Tasks, SaveUser(t) \/ SyncUser(t) \/ DeleteUserRow(t)
    PROVE  UserInv'
<1> DEFINE n == task[t].name
<1>1. /\ n \in Names /\ task[t].row \in StoredRows /\ UserType /\ ids' \in Nat
      /\ task' = [task EXCEPT ![t] = NoTask]
  BY TaskFacts DEF UserInv, UserType, SaveUser, SyncUser, DeleteUserRow, Done
<1>2. users[n] \in StoredRows \cup {NoUser} /\ users = [users EXCEPT ![n] = users[n]]
  BY <1>1 DEF UserType
<1>3. excused' \in BOOLEAN
  BY <1>1 DEF UserType, SaveUser, SyncUser, DeleteUserRow
<1>4. CASE users' = users
  <2>1. LastAdminKept'
    BY <1>4 DEF UserInv, LastAdminKept, SaveUser, SyncUser, DeleteUserRow, AdminsOf
  <2> QED  BY <1>1, <1>2, <1>3, <1>4, <2>1, WriteSteps
<1>5. CASE SaveUser(t) /\ users' # users
  <2>1. users' = [users EXCEPT ![n] = task[t].row] /\ task[t].op = "save"
    BY <1>5 DEF SaveUser, Saved
  <2>2. LastAdminKept'
    <3>1. CASE excused'
      BY <3>1 DEF LastAdminKept
    <3>2. CASE ~excused'
      <4>1. ~Outrun(t, users') /\ ~excused
        BY <1>5, <3>2 DEF SaveUser
      <4>2. AdminsOf(users) # {}
        BY <4>1 DEF UserInv, LastAdminKept
      <4>3. task[t].row \in StoredRows \cup {NoUser} /\ task[t].op \in {"save", "delete"}
        BY <1>1, <2>1
      <4>4. /\ users' = [users EXCEPT ![task[t].name] = users'[task[t].name]]
            /\ users'[task[t].name] = task[t].row
        BY <1>1, <2>1 DEF UserType
      <4>5. AdminsOf(users') # {}
        BY <4>1, <4>2, <4>3, <4>4, NotTheLast
      <4> QED  BY <4>5 DEF LastAdminKept
    <3> QED  BY <3>1, <3>2
  <2> QED  BY <1>1, <1>3, <2>1, <2>2, WriteSteps
<1>6. CASE SyncUser(t) /\ users' # users
  <2>1. users' = [users EXCEPT ![n] = task[t].row]
    BY <1>6 DEF SyncUser, Saved
  <2>2. LastAdminKept'
    BY <1>6 DEF SyncUser, LastAdminKept, UserInv
  <2> QED  BY <1>1, <1>3, <2>1, <2>2, WriteSteps
<1>7. CASE DeleteUserRow(t) /\ users' # users
  <2>1. users' = [users EXCEPT ![n] = NoUser] /\ task[t].op = "delete"
    BY <1>7 DEF DeleteUserRow
  <2>2. LastAdminKept'
    <3>1. CASE excused'
      BY <3>1 DEF LastAdminKept
    <3>2. CASE ~excused'
      <4>1. ~Outrun(t, users') /\ ~excused
        BY <1>7, <3>2 DEF DeleteUserRow
      <4>2. AdminsOf(users) # {}
        BY <4>1 DEF UserInv, LastAdminKept
      <4>3. users' = [users EXCEPT ![task[t].name] = users'[task[t].name]]
        BY <1>1, <2>1 DEF UserType
      <4>4. AdminsOf(users') # {}
        BY <2>1, <4>1, <4>2, <4>3, NotTheLast
      <4> QED  BY <4>4 DEF LastAdminKept
    <3> QED  BY <3>1, <3>2
  <2> QED  BY <1>1, <1>3, <2>1, <2>2, WriteSteps
<1> QED  BY <1>4, <1>5, <1>6, <1>7

LEMMA InsertStep ==
    ASSUME UserInv, NEW t \in Tasks, InsertUser(t)
    PROVE  UserInv'
<1> DEFINE n == task[t].name
<1>1. /\ n \in Names /\ task[t].row \in Rows /\ UserType /\ excused' = excused
      /\ task' = [task EXCEPT ![t] = NoTask]
  BY TaskFacts DEF UserInv, InsertUser, Done
<1>2. users[n] \in StoredRows \cup {NoUser} /\ users = [users EXCEPT ![n] = users[n]]
  BY <1>1 DEF UserType
<1>3. CASE users' = users /\ ids' = ids
  <2>1. LastAdminKept' /\ excused' \in BOOLEAN /\ ids' \in Nat
    BY <1>1, <1>3 DEF UserInv, UserType, LastAdminKept, AdminsOf
  <2> QED  BY <1>1, <1>2, <1>3, <2>1, WriteSteps
<1>4. CASE ~Known(n) /\ ids' = ids + 1 /\ users' = [users EXCEPT ![n] = [task[t].row EXCEPT !.id = ids + 1]]
  <2> DEFINE saved == [task[t].row EXCEPT !.id = ids + 1]
  <2>1. saved \in StoredRows /\ ids' \in Nat /\ excused' \in BOOLEAN
    BY <1>1, <1>4 DEF UserType, StoredRows, Rows
  <2>2. users' = [users EXCEPT ![n] = saved]
    BY <1>4
  <2> HIDE DEF saved
  <2>3. AdminsOf(users) \subseteq AdminsOf(users')
    BY <1>1, <1>4, <2>2, OneAdminLost DEF AdminsOf, Known
  <2>4. LastAdminKept'
    BY <1>1, <2>3 DEF UserInv, LastAdminKept
  <2> QED  BY <1>1, <2>1, <2>2, <2>4, WriteSteps
<1> QED  BY <1>3, <1>4 DEF InsertUser

LEMMA UserInvariance == UserSpec => []UserInv
<1>1. UserInv /\ [UserNext]_userVars => UserInv'
  <2> SUFFICES ASSUME UserInv, [UserNext]_userVars PROVE UserInv'
    OBVIOUS
  <2>1. CASE UNCHANGED userVars
    BY <2>1 DEF userVars, UserInv, UserType, TaskInv, LastAdminKept, AdminsOf
  <2>2. ASSUME NEW t \in Tasks, NEW n \in Names, DeleteUserByID(t, n) \/ ChangePassword(t, n)
        PROVE  UserInv'
    BY <2>2, RequestSteps, TRUE \in BOOLEAN
  <2>3. ASSUME NEW t \in Tasks, CountUser(t) PROVE UserInv'
    BY <2>3, RequestSteps, UsersAssumption, TRUE \in BOOLEAN
  <2> QED  BY <2>1, <2>2, <2>3, RequestSteps, SignInSteps, ByNameStep, SaveSteps, InsertStep DEF UserNext
<1> QED  BY UserInitially, <1>1, PTL DEF UserSpec

\* Demoting and deleting accounts leaves an administrator, unless a directory
\* sign-in took the flag or the request was outrun (api/user.go).
THEOREM AdminRemains == UserSpec => []LastAdminKept
BY UserInvariance, PTL DEF UserInv

Rebinds(n) ==
  Known(n) /\ users[n].oidc # Unbound /\ users'[n].id = users[n].id
  /\ users'[n].oidc # users[n].oidc

StaleSave(t, n) ==
  /\ task[t].op \in {"save", "sync"} /\ task'[t] = NoTask
  /\ task[t].name = n /\ task[t].read # users[n]

LEMMA RebindStep ==
    ASSUME UserInv, [UserNext]_userVars, NEW n \in Names, Rebinds(n)
    PROVE  \E t \in Tasks : StaleSave(t, n)
<1>0. users[n] \in StoredRows /\ users[n].id # 0
  BY RowFacts DEF Rebinds, UserInv, StoredRows
<1>1. users' # users
  BY DEF Rebinds
<1>2. PICK t \in Tasks : InsertUser(t) \/ SaveUser(t) \/ DeleteUserRow(t) \/ SyncUser(t)
  <2>1. \A t \in Tasks : ~CountUser(t) /\ ~ResolveByName(t)
    BY <1>1 DEF CountUser, ResolveByName
  <2>2. \A t \in Tasks, m \in Names : ~DeleteUserByID(t, m) /\ ~ChangePassword(t, m)
    BY <1>1 DEF DeleteUserByID, ChangePassword
  <2>3. \A t \in Tasks, m \in Names, admin \in BOOLEAN : 
          ~CreateAccount(t, m, admin) /\ ~UpdateUserByID(t, m, admin)
    BY <1>1 DEF CreateAccount, UpdateUserByID
  <2>4. \A t \in Tasks, m \in Names, admin \in BOOLEAN, s \in Subjects :
          ~ResolveOIDC(t, s, m, admin) /\ ~ResolveLDAP(t, s, m, admin)
    BY <1>1 DEF ResolveOIDC, ResolveLDAP
  <2>5. UserNext
    BY <1>1 DEF userVars
  <2> QED  BY <2>1, <2>2, <2>3, <2>4, <2>5 DEF UserNext
<1>3. task[t].name \in Names
  BY <1>2, TaskFacts DEF UserInv, InsertUser, SaveUser, DeleteUserRow, SyncUser
<1>4. CASE InsertUser(t)
  <2>1. task[t].name = n
    BY <1>1, <1>3, <1>4 DEF InsertUser, Rebinds, UserInv, UserType
  <2> QED  BY <1>1, <1>4, <2>1 DEF InsertUser, Rebinds
<1>5. CASE DeleteUserRow(t)
  <2>1. task[t].name = n /\ users' = [users EXCEPT ![n] = NoUser]
    BY <1>1, <1>3, <1>5 DEF DeleteUserRow, Rebinds, UserInv, UserType
  <2> QED  BY <1>0, <2>1 DEF Rebinds, NoUser, UserInv, UserType
<1>6. CASE SaveUser(t) \/ SyncUser(t)
  <2>1. users' = [users EXCEPT ![task[t].name] = task[t].row]
    BY <1>1, <1>6 DEF SaveUser, SyncUser, Saved
  <2>2. task[t].name = n /\ task[t].row.oidc # users[n].oidc
    BY <1>3, <2>1 DEF Rebinds, UserInv, UserType
  <2>3. task[t].row.oidc = task[t].read.oidc \/ task[t].read.oidc = Unbound
    BY <1>6 DEF SaveUser, SyncUser, UserInv, TaskInv
  <2>4. task[t].read # users[n]
    BY <2>2, <2>3 DEF Rebinds
  <2>5. task'[t] = NoTask
    BY <1>6 DEF SaveUser, SyncUser, Done, UserInv, UserType
  <2> QED  BY <1>6, <2>2, <2>4, <2>5 DEF SaveUser, SyncUser, StaleSave
<1> QED  BY <1>2, <1>4, <1>5, <1>6

\* The binding of an account to an OIDC identity is not changed by linking a
\* second one by name, only by a save of an older row (api/oidc.go resolveUser).
THEOREM BindingHolds == UserSpec => BindingKept
<1>1. UserInv /\ [UserNext]_userVars =>
        [\A n \in Names :
           Known(n) /\ users[n].oidc # Unbound /\ users'[n].id = users[n].id =>
             \/ users'[n].oidc = users[n].oidc
             \/ \E t \in Tasks : /\ task[t].op \in {"save", "sync"} /\ task'[t] = NoTask
                                 /\ task[t].name = n /\ task[t].read # users[n]]_userVars
  BY RebindStep DEF Rebinds, StaleSave
<1> QED  BY <1>1, UserInvariance, PTL DEF UserSpec, BindingKept

-----------------------------------------------------------------------------
(* Sessions: the inductive invariant.                                      *)

ClientRows ==
  {r \in [state : {"stored"}, life : Lifetimes, used : Nat, elevated : Nat, expires : Nat] :
     r.expires = calculateExpiresAt(r.life, r.used)}

Tables == [Clients -> ClientRows \cup {NoClient}]

CallStates ==
  {NoCall}
  \cup [op : {"stream"}, clients : SUBSET Clients, at : {"refresh", "register"}, now : Nat, old : BOOLEAN]
  \cup [op : {"save"}, clients : SUBSET Clients, new : ClientRows]
  \cup [op : {"elevate"}, clients : SUBSET Clients, until : Nat]
  \cup [op : {"told", "revoked"}, clients : SUBSET Clients]

RoundStates ==
  {NoRound}
  \cup [at : {"update", "find"}, now : Nat, tokens : SUBSET Clients]
  \cup [at : {"delete"}, now : Nat, expired : SUBSET Clients, rows : Tables]
  \cup [at : {"notify"}, left : SUBSET Clients]

SessionType ==
  /\ row \in Tables /\ sockets \subseteq Clients
  /\ call \in [Calls -> CallStates] /\ round \in RoundStates
  /\ time \in Nat /\ seen \in [Clients -> Nat]
  /\ behind \subseteq Clients

\* The requests that are about one client.
CallInv ==
  \A k \in Calls :
    call[k].op \in {"stream", "save", "elevate"} =>
      Client(k) \in Clients /\ call[k].clients = {Client(k)}

\* Nothing is written, or about to be, that is later than the last use.
SeenInv ==
  /\ \A c \in Clients : seen[c] <= time /\ (Exists(c) => row[c].used <= seen[c])
  /\ \A k \in Calls :
       /\ call[k].op = "stream" =>
            /\ call[k].now <= time
            /\ ~call[k].old => call[k].now <= seen[Client(k)] + RefreshAge
       /\ call[k].op = "save" => call[k].new.used <= seen[Client(k)]
  /\ round.at \in {"update", "find", "delete"} => round.now <= time
  /\ round.at = "update" => \A c \in round.tokens : round.now <= seen[c]

\* A row that is not behind is as old as the last use less the age of a refresh,
\* or the ticker's round is about to write it.
UseInv ==
  \A c \in Clients : Exists(c) /\ c \notin behind =>
     /\ \/ seen[c] <= row[c].used + RefreshAge
        \/ round.at = "update" /\ c \in round.tokens /\ seen[c] <= round.now
     /\ \A k \in Calls :
          call[k].op = "stream" /\ call[k].at = "refresh" /\ ~call[k].old /\ Client(k) = c =>
             call[k].now <= row[c].used + RefreshAge

ExpiredInv ==
  round.at = "delete" =>
    \A c \in round.expired :
      /\ round.rows[c] \in ClientRows
      /\ round.rows[c].expires # 0 /\ round.rows[c].expires <= round.now

SessionInv == SessionType /\ CallInv /\ SeenInv /\ UseInv /\ ExpiredInv /\ NoLooseSocket

-----------------------------------------------------------------------------
LEMMA SessionNats == RefreshAge \in Nat /\ ElevationTime \in Nat /\ Lifetimes \subseteq Nat
BY SessionsAssumption

LEMMA RowMade ==
    ASSUME NEW life \in Lifetimes, NEW t \in Nat, NEW e \in Nat
    PROVE  /\ Row(life, t, e) \in ClientRows /\ Row(life, t, e).used = t
           /\ Row(life, t, e).life = life
<1>1. calculateExpiresAt(life, t) \in Nat
  BY SessionNats DEF calculateExpiresAt
<1> QED  BY <1>1 DEF Row, ClientRows

LEMMA ClientRowFacts ==
    ASSUME SessionType, NEW c \in Clients
    PROVE  /\ Exists(c) <=> row[c] \in ClientRows
           /\ Exists(c) => row[c].life \in Lifetimes /\ row[c].used \in Nat /\ row[c].elevated \in Nat
                          /\ row[c].expires \in Nat
<1>1. NoClient \notin ClientRows
  BY DEF NoClient, ClientRows
<1> QED  BY <1>1 DEF SessionType, Tables, Exists, ClientRows

LEMMA CallFacts ==
    ASSUME SessionType, NEW k \in Calls
    PROVE  /\ call[k].clients \subseteq Clients
           /\ call[k].op = "none" <=> call[k] = NoCall
           /\ call[k].op = "stream" =>
                call[k] \in [op : {"stream"}, clients : SUBSET Clients, at : {"refresh", "register"},
                             now : Nat, old : BOOLEAN]
           /\ call[k].op = "save" => call[k].new \in ClientRows
           /\ call[k].op = "elevate" => call[k].until \in Nat
<1>1. call[k] \in CallStates
  BY DEF SessionType
<1> QED  BY <1>1 DEF CallStates, NoCall

LEMMA CallMoves ==
    ASSUME SessionType, NEW k \in Calls, NEW r \in CallStates, call' = [call EXCEPT ![k] = r]
    PROVE  /\ call' \in [Calls -> CallStates] /\ call'[k] = r
           /\ \A i \in Calls \ {k} : call'[i] = call[i] /\ Client(i)' = Client(i)
BY DEF SessionType, Client

LEMMA OneClient ==
    ASSUME NEW c
    PROVE  (CHOOSE x \in {c} : TRUE) = c
OBVIOUS

LEMMA RoundFacts ==
    ASSUME SessionType
    PROVE  /\ round = NoRound <=> round.at = "waits"
           /\ round.at \in {"update", "find"} =>
                round \in [at : {"update", "find"}, now : Nat, tokens : SUBSET Clients]
           /\ round.at = "delete" => round.now \in Nat /\ round.expired \subseteq Clients /\ round.rows \in Tables
           /\ round.at = "notify" => round \in [at : {"notify"}, left : SUBSET Clients]
<1>1. round \in RoundStates
  BY DEF SessionType
<1> QED  BY <1>1 DEF RoundStates, NoRound

LEMMA SessionInitially == SessionInit => SessionInv
<1> SUFFICES ASSUME SessionInit PROVE SessionInv
  OBVIOUS
<1>1. SessionType
  BY DEF SessionInit, SessionType, Tables, CallStates, RoundStates
<1>2. CallInv /\ SeenInv /\ UseInv /\ ExpiredInv /\ NoLooseSocket
  BY DEF SessionInit, CallInv, SeenInv, UseInv, ExpiredInv, NoLooseSocket, NoCall, NoRound, NoClient, Exists
<1> QED  BY <1>1, <1>2 DEF SessionInv

\* A new client: no request or connection refers to its token, though a round may
\* still hold it from an earlier one.
LEMMA CreateSteps ==
    ASSUME SessionInv, NEW c \in Clients, NEW life \in Lifetimes, CreateClient(c, life) \/ Login(c, life)
    PROVE  SessionInv'
<1> USE DEF SessionInv
<1>1. PICK e \in Nat : /\ row' = [row EXCEPT ![c] = Row(life, time, e)]
                       /\ seen' = [seen EXCEPT ![c] = time] /\ behind' = behind \ {c}
                       /\ Fresh(c)
                       /\ UNCHANGED <<sockets, call, round, time, slipped>>
  <2>1. 0 \in Nat /\ time + ElevationTime \in Nat
    BY SessionNats DEF SessionType
  <2> QED  BY <2>1 DEF CreateClient, Login
<1>2. /\ Row(life, time, e) \in ClientRows /\ Row(life, time, e).used = time
      /\ time \in Nat /\ RefreshAge \in Nat
  BY RowMade, SessionNats DEF SessionType
<1>3. SessionType'
  BY <1>1, <1>2 DEF SessionType, Tables
<1>4. /\ row'[c].used = time /\ row'[c] \in ClientRows /\ seen'[c] = time
      /\ \A d \in Clients \ {c} : row'[d] = row[d] /\ seen'[d] = seen[d]
      /\ \A k \in Calls : c \notin call[k].clients
      /\ c \notin sockets /\ ~Exists(c)
  BY <1>1, <1>2 DEF SessionType, Tables, Fresh
<1>5. \A k \in Calls : call[k].op \in {"stream", "save", "elevate"} => Client(k) \in Clients \ {c}
  BY <1>4 DEF CallInv
<1>6. CallInv' /\ ExpiredInv'
  BY <1>1 DEF CallInv, ExpiredInv, Client
<1>7. SeenInv'
  <2>1. \A d \in Clients : seen[d] \in Nat /\ seen'[d] \in Nat /\ seen[d] <= seen'[d]
    BY <1>1, <1>2, <1>4 DEF SessionType, SeenInv
  <2>2. \A d \in Clients : seen'[d] <= time /\ (Exists(d)' => row'[d].used <= seen'[d])
    BY <1>2, <1>4 DEF SeenInv, Exists
  <2>3. round.at = "update" => round.now \in Nat /\ \A d \in round.tokens : d \in Clients /\ round.now <= seen'[d]
    BY <1>2, <1>4, RoundFacts DEF SeenInv
  <2>4. \A k \in Calls : Client(k)' = Client(k)
    BY <1>1 DEF Client
  <2> QED  BY <1>1, <1>4, <1>5, <2>2, <2>3, <2>4 DEF SeenInv
<1>8. UseInv'
  <2>1. \A k \in Calls : Client(k)' = Client(k)
    BY <1>1 DEF Client
  <2> QED  BY <1>1, <1>2, <1>4, <1>5, <2>1 DEF UseInv, Exists
<1>9. NoLooseSocket'
  BY <1>1, <1>4 DEF NoLooseSocket, Exists
<1> QED  BY <1>3, <1>6, <1>7, <1>8, <1>9

ClientOf(r) == CHOOSE c \in r.clients : TRUE

\* What a request may be when it begins or goes on, with the rows as they are.
RequestOK(r) ==
  /\ r.op \in {"stream", "save", "elevate"} => ClientOf(r) \in Clients /\ r.clients = {ClientOf(r)}
  /\ r.op = "stream" =>
       /\ r.now <= time
       /\ ~r.old => r.now <= seen[ClientOf(r)] + RefreshAge
       /\ r.at = "refresh" /\ ~r.old /\ Exists(ClientOf(r)) /\ ClientOf(r) \notin behind =>
            r.now <= row[ClientOf(r)].used + RefreshAge
  /\ r.op = "save" => r.new.used <= seen[ClientOf(r)]

LEMMA QuietStep ==
    ASSUME SessionInv, NEW k \in Calls, NEW r \in CallStates, call' = [call EXCEPT ![k] = r],
           RequestOK(r), UNCHANGED <<row, seen, behind, round, time>>, sockets' \subseteq Clients
    PROVE  SessionType' /\ CallInv' /\ SeenInv' /\ UseInv' /\ ExpiredInv'
<1> USE DEF SessionInv
<1>1. /\ call' \in [Calls -> CallStates] /\ call'[k] = r
      /\ \A i \in Calls \ {k} : call'[i] = call[i] /\ Client(i)' = Client(i)
  BY CallMoves
<1>2. Client(k)' = ClientOf(r)
  BY <1>1 DEF Client, ClientOf
<1>3. SessionType' /\ ExpiredInv'
  BY <1>1 DEF SessionType, ExpiredInv
<1>4. CallInv'
  BY <1>1, <1>2 DEF CallInv, RequestOK
<1>5. SeenInv'
  BY <1>1, <1>2 DEF SeenInv, RequestOK, Exists
<1>6. UseInv'
  BY <1>1, <1>2 DEF UseInv, RequestOK, Exists
<1> QED  BY <1>3, <1>4, <1>5, <1>6

\* Connections are only closed, and nobody stops being about to close one.
LEMMA ClosingStep ==
    ASSUME SessionInv, NEW k \in Calls, NEW r \in CallStates, call' = [call EXCEPT ![k] = r],
           call[k].op # "revoked", UNCHANGED <<row, round>>,
           sockets' \subseteq sockets, slipped \cap sockets' \subseteq slipped'
    PROVE  NoLooseSocket'
<1>1. \A i \in Calls : call[i].op = "revoked" => call'[i] = call[i]
  BY CallMoves DEF SessionInv
<1> QED  BY <1>1 DEF SessionInv, NoLooseSocket, Exists

LEMMA BeginFacts ==
    ASSUME SessionInv, NEW k \in Calls, NEW r, BeginCall(k, r)
    PROVE  call[k].op = "none" /\ call' = [call EXCEPT ![k] = r]
BY DEF BeginCall, NoCall

LEMMA ReadingSteps ==
    ASSUME SessionInv, NEW k \in Calls, NEW c \in Clients,
           handleClient(k, c) \/ ElevateClient(k, c) \/ \E life \in Lifetimes : UpdateClient(k, c, life)
    PROVE  SessionInv'
<1> USE DEF SessionInv
<1>0. /\ time \in Nat /\ RefreshAge \in Nat /\ ElevationTime \in Nat /\ (CHOOSE x \in {c} : TRUE) = c
      /\ Exists(c)
  BY SessionNats, OneClient DEF SessionType, handleClient, ElevateClient, UpdateClient, notExpired
<1>1. /\ row[c] \in ClientRows /\ row[c].used \in Nat /\ row[c].elevated \in Nat
      /\ row[c].used <= seen[c] /\ seen[c] \in Nat
  BY <1>0, ClientRowFacts DEF SeenInv, SessionType
<1>2. UNCHANGED <<row, seen, behind, round, time, sockets, slipped>> /\ sockets \subseteq Clients
  BY DEF handleClient, ElevateClient, UpdateClient, SessionType
<1>3. PICK r \in CallStates : BeginCall(k, r) /\ RequestOK(r)
  <2>1. CASE handleClient(k, c)
    <3> DEFINE old == row[c].used + RefreshAge < time
    <3> DEFINE r == [op |-> "stream", clients |-> {c}, at |-> "refresh", now |-> time, old |-> old]
    <3>0. old \in BOOLEAN /\ (~old => time <= row[c].used + RefreshAge)
      BY <1>0, <1>1
    <3>4. BeginCall(k, r)
      BY <2>1 DEF handleClient
    <3> HIDE DEF old
    <3>1. r \in CallStates
      BY <1>0, <3>0 DEF CallStates
    <3>2. ClientOf(r) = c
      BY <1>0 DEF ClientOf
    <3>3. /\ r.op = "stream" /\ r.clients = {c} /\ r.now = time /\ r.at = "refresh"
          /\ ~r.old => time <= row[c].used + RefreshAge
      BY <3>0
    <3> HIDE DEF r
    <3>5. RequestOK(r)
      BY <1>0, <1>1, <3>2, <3>3 DEF RequestOK
    <3> QED  BY <3>1, <3>4, <3>5
  <2>2. CASE ElevateClient(k, c)
    <3> DEFINE r == [op |-> "elevate", clients |-> {c}, until |-> time + ElevationTime]
    <3>1. r \in CallStates
      BY <1>0 DEF CallStates
    <3>2. ClientOf(r) = c
      BY <1>0 DEF ClientOf
    <3>3. RequestOK(r)
      BY <3>2 DEF RequestOK
    <3> QED  BY <2>2, <3>1, <3>3 DEF ElevateClient
  <2>3. ASSUME NEW life \in Lifetimes, UpdateClient(k, c, life)
        PROVE  \E r \in CallStates : BeginCall(k, r) /\ RequestOK(r)
    <3> DEFINE new == Row(life, row[c].used, row[c].elevated)
    <3> DEFINE r == [op |-> "save", clients |-> {c}, new |-> new]
    <3>1. new \in ClientRows /\ new.used = row[c].used
      BY <1>1, RowMade
    <3>2. BeginCall(k, r)
      BY <2>3 DEF UpdateClient
    <3> HIDE DEF new
    <3>3. r \in CallStates
      BY <3>1 DEF CallStates
    <3>4. ClientOf(r) = c
      BY <1>0 DEF ClientOf
    <3>5. RequestOK(r)
      BY <1>1, <3>1, <3>4 DEF RequestOK
    <3> QED  BY <3>2, <3>3, <3>5
  <2> QED  BY <2>1, <2>2, <2>3
<1>4. call[k].op = "none" /\ call' = [call EXCEPT ![k] = r]
  BY <1>3, BeginFacts
<1> QED  BY <1>2, <1>3, <1>4, QuietStep, ClosingStep

LEMMA RemainingCall ==
    ASSUME SessionInv, NEW k \in Calls, call[k].op = "told", NEW c \in call[k].clients, Remaining(k, c)
    PROVE  \E r \in CallStates : call' = [call EXCEPT ![k] = r] /\ r.op \in {"none", "told"}
<1>1. PICK r : r = IF call[k].clients = {c} THEN NoCall ELSE [op |-> "told", clients |-> call[k].clients \ {c}]
  OBVIOUS
<1>2. r \in CallStates /\ r.op \in {"none", "told"}
  <2>1. call[k].clients \in SUBSET Clients
    BY CallFacts DEF SessionInv
  <2> QED  BY <1>1, <2>1 DEF CallStates, NoCall
<1>3. call' = [call EXCEPT ![k] = r]
  BY <1>1 DEF Remaining
<1> QED  BY <1>2, <1>3

LEMMA ClosingSteps ==
    ASSUME SessionInv, NEW k \in Calls,
           \/ \E c \in Clients : DeleteClient(k, c) \/ Logout(k, c)
           \/ DeleteUserSessions(k) \/ DeletionFails(k)
    PROVE  SessionInv'
<1> USE DEF SessionInv
<1>1. UNCHANGED <<row, seen, behind, round, time>>
  BY DEF DeleteClient, Logout, DeleteUserSessions, DeletionFails
<1>2. PICK S \in SUBSET Clients : sockets' = sockets \ S /\ slipped' = slipped \ S
  <2>1. CASE DeletionFails(k)
    BY <2>1, {} \in SUBSET Clients DEF DeletionFails
  <2>2. CASE \E c \in Clients : DeleteClient(k, c) \/ Logout(k, c)
    BY <2>2 DEF DeleteClient, Logout, NotifyDeleted
  <2>3. CASE DeleteUserSessions(k)
    BY <2>3 DEF DeleteUserSessions, NotifyDeleted
  <2> QED  BY <2>1, <2>2, <2>3
<1>3. PICK r \in CallStates : /\ call' = [call EXCEPT ![k] = r]
                              /\ r.op \in {"none", "told"} /\ call[k].op \in {"none", "told"}
  <2>1. CASE DeletionFails(k)
    <3>1. CASE End(k)
      BY <2>1, <3>1 DEF DeletionFails, End, CallStates, NoCall
    <3>2. ASSUME NEW c \in call[k].clients, Remaining(k, c)
          PROVE  \E r \in CallStates : /\ call' = [call EXCEPT ![k] = r]
                                       /\ r.op \in {"none", "told"} /\ call[k].op \in {"none", "told"}
      BY <2>1, <3>2, RemainingCall DEF DeletionFails
    <3> QED  BY <2>1, <3>1, <3>2 DEF DeletionFails
  <2>2. ASSUME NEW S0 \in SUBSET Clients, BeginCall(k, [op |-> "told", clients |-> S0])
        PROVE  \E r \in CallStates : /\ call' = [call EXCEPT ![k] = r]
                                     /\ r.op \in {"none", "told"} /\ call[k].op \in {"none", "told"}
    <3> DEFINE r == [op |-> "told", clients |-> S0]
    <3>1. r \in CallStates /\ r.op = "told"
      BY DEF CallStates
    <3> QED  BY <2>2, <3>1, BeginFacts
  <2> QED  BY <2>1, <2>2 DEF DeleteClient, Logout, DeleteUserSessions
<1>4. RequestOK(r) /\ sockets' \subseteq Clients
  BY <1>2, <1>3 DEF RequestOK, SessionType
<1>5. NoLooseSocket'
  BY <1>1, <1>2, <1>3, ClosingStep
<1> QED  BY <1>1, <1>3, <1>4, <1>5, QuietStep

LEMMA NotifyRevokedStep ==
    ASSUME SessionInv, NEW k \in Calls, NotifyRevoked(k)
    PROVE  SessionInv'
<1> USE DEF SessionInv
<1>1. /\ UNCHANGED <<row, seen, behind, round, time>> /\ call' = [call EXCEPT ![k] = NoCall]
      /\ sockets' = sockets \ call[k].clients /\ slipped' = slipped \ call[k].clients
  BY DEF NotifyRevoked, NotifyDeleted, End
<1>2. NoCall \in CallStates /\ RequestOK(NoCall) /\ sockets' \subseteq Clients
  BY <1>1 DEF CallStates, NoCall, RequestOK, SessionType
<1>3. NoLooseSocket'
  BY <1>1, <1>2, CallMoves DEF NoLooseSocket, Exists
<1> QED  BY <1>1, <1>2, <1>3, QuietStep

LEMMA RegisterStep ==
    ASSUME SessionInv, NEW k \in Calls, Register(k)
    PROVE  SessionInv'
<1> USE DEF SessionInv
<1>1. /\ UNCHANGED <<row, seen, behind, round, time>> /\ call' = [call EXCEPT ![k] = NoCall]
      /\ sockets' = sockets \cup {Client(k)} /\ call[k].op = "stream"
      /\ slipped' = IF Exists(Client(k)) THEN slipped ELSE slipped \cup {Client(k)}
  BY DEF Register, End
<1>2. NoCall \in CallStates /\ RequestOK(NoCall) /\ sockets' \subseteq Clients
  BY <1>1 DEF CallStates, NoCall, RequestOK, SessionType, CallInv
<1>3. NoLooseSocket'
  BY <1>1, <1>2, CallMoves DEF NoLooseSocket, Exists
<1> QED  BY <1>1, <1>2, <1>3, QuietStep
\* What a step that writes rows must keep of each client, request and round.
KeepsUp(c) ==
  /\ seen[c] <= seen'[c] /\ seen'[c] <= time
  /\ Exists(c)' => row'[c].used <= seen'[c]
  /\ Exists(c)' /\ c \notin behind' =>
       \/ row'[c].used = seen'[c]
       \/ /\ Exists(c) /\ c \notin behind /\ row[c].used <= row'[c].used
          /\ \/ seen'[c] <= row'[c].used + RefreshAge
             \/ seen'[c] = seen[c] /\ round' = round
             \/ round'.at = "update" /\ c \in round'.tokens /\ seen'[c] <= round'.now

GoesOn(k) ==
  \/ call'[k] = call[k]
  \/ call'[k].op \in {"none", "told", "revoked"}
  \/ /\ call[k].op = "stream" /\ call'[k].op = "stream" /\ call'[k].at = "register"
     /\ call'[k].clients = call[k].clients /\ call'[k].now = call[k].now /\ call'[k].old = call[k].old

RoundGoesOn ==
  \/ round' = round
  \/ /\ round'.at \in {"update", "find", "delete"} => round'.now <= time
     /\ round'.at = "update" => \A c \in round'.tokens : round'.now <= seen'[c]

LEMMA TableStep ==
    ASSUME SessionInv, row' \in Tables, seen' \in [Clients -> Nat], behind' \subseteq Clients,
           sockets' \subseteq Clients, call' \in [Calls -> CallStates], round' \in RoundStates,
           time' = time, \A c \in Clients : KeepsUp(c), \A k \in Calls : GoesOn(k), RoundGoesOn
    PROVE  SessionType' /\ CallInv' /\ SeenInv' /\ UseInv'
<1> USE DEF SessionInv
<1>1. SessionType'
  BY DEF SessionType
<1>2. \A c \in Clients : seen[c] \in Nat /\ seen'[c] \in Nat /\ seen[c] <= seen'[c] /\ seen'[c] <= time
  BY DEF SessionType, KeepsUp
<1>3. \A k \in Calls : call'[k].op \in {"stream", "save", "elevate"} =>
        /\ call[k].op = call'[k].op /\ call[k].clients = call'[k].clients
        /\ Client(k)' = Client(k) /\ Client(k) \in Clients
  BY DEF GoesOn, CallInv, Client
<1>4. CallInv'
  BY <1>3 DEF CallInv
<1>5. RefreshAge \in Nat /\ time \in Nat
  BY SessionNats DEF SessionType
<1>6. SeenInv'
  <2>1. \A c \in Clients : seen'[c] <= time' /\ (Exists(c)' => row'[c].used <= seen'[c])
    BY DEF KeepsUp
  <2>2. ASSUME NEW k \in Calls, call'[k].op = "stream"
        PROVE  /\ call'[k].now <= time'
               /\ ~call'[k].old => call'[k].now <= seen'[Client(k)'] + RefreshAge
    <3>1. /\ call[k].op = "stream" /\ Client(k)' = Client(k) /\ Client(k) \in Clients
          /\ call'[k].now = call[k].now /\ call'[k].old = call[k].old
      BY <1>3, <2>2 DEF GoesOn
    <3>2. call[k].now \in Nat
      BY <3>1, CallFacts
    <3> QED  BY <1>2, <1>5, <3>1, <3>2 DEF SeenInv
  <2>3. ASSUME NEW k \in Calls, call'[k].op = "save"
        PROVE  call'[k].new.used <= seen'[Client(k)']
    <3>1. /\ call'[k] = call[k] /\ Client(k)' = Client(k) /\ Client(k) \in Clients
      BY <1>3, <2>3 DEF GoesOn
    <3>2. call[k].new.used \in Nat
      BY <2>3, <3>1, CallFacts DEF ClientRows
    <3> QED  BY <1>2, <2>3, <3>1, <3>2 DEF SeenInv
  <2>4. /\ round'.at \in {"update", "find", "delete"} => round'.now <= time'
        /\ round'.at = "update" => \A c \in round'.tokens : round'.now <= seen'[c]
    <3>1. CASE round' = round
      <4>1. round.at = "update" => round.now \in Nat /\ round.tokens \subseteq Clients
        BY RoundFacts
      <4> QED  BY <1>2, <3>1, <4>1 DEF SeenInv
    <3> QED  BY <3>1 DEF RoundGoesOn
  <2> QED  BY <2>1, <2>2, <2>3, <2>4 DEF SeenInv
<1>7. UseInv'
  <2> SUFFICES ASSUME NEW c \in Clients, Exists(c)', c \notin behind'
               PROVE  /\ \/ seen'[c] <= row'[c].used + RefreshAge
                         \/ round'.at = "update" /\ c \in round'.tokens /\ seen'[c] <= round'.now
                      /\ \A k \in Calls :
                           call'[k].op = "stream" /\ call'[k].at = "refresh" /\ ~call'[k].old
                           /\ Client(k)' = c => call'[k].now <= row'[c].used + RefreshAge
    BY DEF UseInv
  <2>1. row'[c].used \in Nat
    BY <1>1 DEF SessionType, Tables, ClientRows, NoClient, Exists
  <2>2. CASE row'[c].used = seen'[c]
    <3>1. \A k \in Calls :
            call'[k].op = "stream" /\ call'[k].at = "refresh" /\ ~call'[k].old /\ Client(k)' = c
            => call'[k].now <= row'[c].used + RefreshAge
      BY <1>6, <2>2 DEF SeenInv
    <3> QED  BY <1>2, <1>5, <2>1, <2>2, <3>1
  <2>3. CASE /\ Exists(c) /\ c \notin behind /\ row[c].used <= row'[c].used
             /\ \/ seen'[c] <= row'[c].used + RefreshAge
                \/ seen'[c] = seen[c] /\ round' = round
                \/ round'.at = "update" /\ c \in round'.tokens /\ seen'[c] <= round'.now
    <3>1. row[c].used \in Nat
      BY <2>3, ClientRowFacts
    <3>2. ASSUME NEW k \in Calls, call'[k].op = "stream", call'[k].at = "refresh", ~call'[k].old,
                 Client(k)' = c
          PROVE  call'[k].now <= row'[c].used + RefreshAge
      <4>1. call'[k] = call[k] /\ Client(k) = c
        BY <1>3, <3>2 DEF GoesOn
      <4>2. call[k].now \in Nat /\ call[k].now <= row[c].used + RefreshAge
        BY <2>3, <3>2, <4>1, CallFacts DEF UseInv
      <4> QED  BY <1>5, <2>1, <2>3, <3>1, <4>1, <4>2
    <3>3. \/ seen'[c] <= row'[c].used + RefreshAge
          \/ round'.at = "update" /\ c \in round'.tokens /\ seen'[c] <= round'.now
      <4>1. CASE seen'[c] = seen[c] /\ round' = round
        BY <1>2, <1>5, <2>1, <2>3, <3>1, <4>1 DEF UseInv
      <4> QED  BY <2>3, <4>1
    <3> QED  BY <3>2, <3>3
  <2> QED  BY <2>2, <2>3 DEF KeepsUp
<1> QED  BY <1>1, <1>4, <1>6, <1>7

\* Rows that are only removed, or written without their last use, keep up.
LEMMA Untouched ==
    ASSUME SessionInv, NEW c \in Clients, seen'[c] = seen[c], round' = round,
           c \in behind => c \in behind',
           Exists(c)' => Exists(c) /\ row'[c].used = row[c].used
    PROVE  KeepsUp(c)
<1>1. seen[c] \in Nat /\ time \in Nat /\ seen[c] <= time /\ (Exists(c) => row[c].used \in Nat)
  BY ClientRowFacts DEF SessionInv, SessionType, SeenInv
<1> QED  BY <1>1 DEF KeepsUp, SessionInv, SeenInv

\* The four steps that write the row of one request's client and go on.
LEMMA WritingSteps ==
    ASSUME SessionInv, NEW k \in Calls, SaveClient(k) \/ UpdateClientElevatedUntil(k)
    PROVE  SessionInv'
<1> USE DEF SessionInv
<1>0. PICK c \in Clients : c = Client(k)
  BY DEF SaveClient, UpdateClientElevatedUntil, CallInv
<1>1. /\ c \in Clients /\ call[k].clients = {c} /\ call' = [call EXCEPT ![k] = NoCall]
      /\ UNCHANGED <<round, time, seen, sockets, slipped>> /\ behind' \subseteq Clients
      /\ behind \subseteq behind'
  BY <1>0 DEF SaveClient, UpdateClientElevatedUntil, End, CallInv, SessionType
<1>2. /\ NoCall \in CallStates /\ NoCall.op = "none"
      /\ call' \in [Calls -> CallStates] /\ call'[k] = NoCall
      /\ \A i \in Calls \ {k} : call'[i] = call[i]
  BY <1>0, <1>1, CallMoves DEF CallStates, NoCall
<1>3. \A i \in Calls : GoesOn(i)
  BY <1>2 DEF GoesOn
<1>4. PICK new : row' = [row EXCEPT ![c] = new] /\ new \in ClientRows \cup {NoClient}
                 /\ (Exists(c) => new \in ClientRows)
                 /\ (c \notin behind' /\ new # NoClient => Exists(c) /\ row[c].used <= new.used)
                 /\ (new # NoClient => new.used <= seen[c])
  <2>1. CASE SaveClient(k)
    <3>1. call[k].new \in ClientRows /\ call[k].new.used <= seen[c] /\ row' = [row EXCEPT ![c] = call[k].new]
      BY <1>0, <2>1, CallFacts DEF SaveClient, SeenInv
    <3>2. c \notin behind' => Exists(c) /\ row[c].used <= call[k].new.used
      <4>1. call[k].new.used \in Nat /\ (Exists(c) => row[c].used \in Nat)
        BY <1>0, <1>1, <3>1, ClientRowFacts DEF ClientRows
      <4> QED  BY <1>0, <2>1, <4>1 DEF SaveClient, Rewound
    <3> QED  BY <3>1, <3>2
  <2>2. CASE UpdateClientElevatedUntil(k) /\ Exists(c)
    <3> DEFINE new == [row[c] EXCEPT !.elevated = call[k].until]
    <3>1. row[c] \in ClientRows /\ call[k].until \in Nat
      BY <1>0, <1>1, <2>2, ClientRowFacts, CallFacts DEF UpdateClientElevatedUntil
    <3>2. new \in ClientRows /\ new.used = row[c].used /\ new.used \in Nat
      BY <3>1 DEF ClientRows
    <3>3. row' = [row EXCEPT ![c] = new]
      BY <1>0, <1>1, <2>2 DEF UpdateClientElevatedUntil, SessionType, Tables
    <3> HIDE DEF new
    <3>4. row[c].used <= new.used /\ new.used <= seen[c] /\ Exists(c)
      BY <1>0, <1>1, <2>2, <3>2 DEF SeenInv
    <3> QED  BY <3>2, <3>3, <3>4
  <2>3. CASE UpdateClientElevatedUntil(k) /\ ~Exists(c)
    <3>1. row' = row /\ row[c] = NoClient
      BY <1>0, <2>3 DEF UpdateClientElevatedUntil, Exists
    <3>2. row' = [row EXCEPT ![c] = NoClient]
      BY <1>0, <1>1, <3>1 DEF SessionType, Tables
    <3> QED  BY <2>3, <3>2
  <2> QED  BY <2>1, <2>2, <2>3
<1>5. /\ row' \in Tables /\ row'[c] = new /\ \A d \in Clients \ {c} : row'[d] = row[d]
      /\ \A d \in Clients : Exists(d) => Exists(d)'
  <2>1. NoClient \notin ClientRows
    BY DEF NoClient, ClientRows
  <2> QED  BY <1>0, <1>1, <1>4, <2>1 DEF SessionType, Tables, Exists
<1>6. \A d \in Clients : KeepsUp(d)
  <2>1. KeepsUp(c)
    <3>1. seen[c] \in Nat /\ seen[c] <= time /\ time \in Nat
      BY <1>0, <1>1 DEF SessionType, SeenInv
    <3>2. seen'[c] = seen[c] /\ round' = round /\ (Exists(c)' <=> new # NoClient) /\ row'[c].used = new.used
      BY <1>0, <1>1, <1>5 DEF Exists
    <3> QED  BY <1>1, <1>4, <3>1, <3>2 DEF KeepsUp
  <2>2. ASSUME NEW d \in Clients \ {c} PROVE KeepsUp(d)
    BY <1>0, <1>1, <1>5, Untouched DEF Exists
  <2> QED  BY <2>1, <2>2
<1>7. RoundGoesOn /\ seen' \in [Clients -> Nat] /\ sockets' \subseteq Clients /\ round' \in RoundStates /\ time' = time
  BY <1>0, <1>1 DEF RoundGoesOn, SessionType
<1>8. ExpiredInv'
  BY <1>0, <1>1 DEF ExpiredInv
<1>9. NoLooseSocket'
  <2>1. call[k].op # "revoked"
    BY DEF SaveClient, UpdateClientElevatedUntil
  <2>2. \A i \in Calls : call[i].op = "revoked" => call'[i] = call[i]
    BY <1>2, <2>1
  <2> QED  BY <1>0, <1>1, <1>5, <2>2 DEF NoLooseSocket, SessionType
<1> QED  BY <1>0, <1>1, <1>2, <1>3, <1>5, <1>6, <1>7, <1>8, <1>9, TableStep

LEMMA RemovingSteps ==
    ASSUME SessionInv, NEW k \in Calls,
           DeleteClientByID(k) \/ \E c \in Clients : RevokeSession(k, c)
    PROVE  SessionInv'
<1> USE DEF SessionInv
<1>1. /\ UNCHANGED <<round, time, seen, sockets, behind>>
  BY DEF DeleteClientByID, RevokeSession
<1>2. PICK S \in SUBSET Clients, r \in CallStates :
        /\ row' = Gone(S) /\ call' = [call EXCEPT ![k] = r] /\ r.op \in {"none", "told", "revoked"}
        /\ call[k].op # "revoked"
        /\ slipped \subseteq slipped'
        /\ \A c \in S \cap sockets : c \in slipped' \/ (r.op = "revoked" /\ c \in r.clients)
  <2>1. CASE DeleteClientByID(k)
    <3>1. PICK c \in call[k].clients : /\ call[k].op = "told" /\ row' = Gone({c}) /\ Remaining(k, c)
                                       /\ slipped' = slipped \cup (sockets \cap {c})
      BY <2>1 DEF DeleteClientByID
    <3>2. PICK r \in CallStates : call' = [call EXCEPT ![k] = r] /\ r.op \in {"none", "told"}
      BY <3>1, RemainingCall
    <3>3. {c} \in SUBSET Clients
      BY <3>1, CallFacts
    <3> QED  BY <3>1, <3>2, <3>3
  <2>2. ASSUME NEW c \in Clients, RevokeSession(k, c)
        PROVE  \E S \in SUBSET Clients, r \in CallStates :
                 /\ row' = Gone(S) /\ call' = [call EXCEPT ![k] = r] /\ r.op \in {"none", "told", "revoked"}
                 /\ call[k].op # "revoked"
                 /\ slipped \subseteq slipped'
                 /\ \A x \in S \cap sockets : x \in slipped' \/ (r.op = "revoked" /\ x \in r.clients)
    <3> DEFINE r == [op |-> "revoked", clients |-> {c}]
    <3>1. r \in CallStates /\ r.op = "revoked" /\ r.clients = {c}
      BY DEF CallStates
    <3>2. /\ BeginCall(k, r) /\ row' = Gone({c}) /\ slipped' = slipped
      BY <2>2 DEF RevokeSession
    <3> HIDE DEF r
    <3>3. {c} \in SUBSET Clients /\ call[k].op = "none" /\ call' = [call EXCEPT ![k] = r]
      BY <3>2, BeginFacts
    <3> QED  BY <3>1, <3>2, <3>3
  <2> QED  BY <2>1, <2>2
<1>3. /\ row' \in Tables /\ (\A d \in S : ~Exists(d)') /\ (\A d \in Clients \ S : row'[d] = row[d])
  BY <1>2 DEF Gone, Tables, SessionType, Exists
<1>4. /\ call' \in [Calls -> CallStates] /\ call'[k] = r /\ (\A i \in Calls \ {k} : call'[i] = call[i])
  BY <1>2, CallMoves
<1>5. \A i \in Calls : GoesOn(i)
  BY <1>2, <1>4 DEF GoesOn
<1>6. \A d \in Clients : KeepsUp(d)
  BY <1>1, <1>3, Untouched DEF Exists
<1>7. RoundGoesOn /\ seen' \in [Clients -> Nat] /\ sockets' \subseteq Clients /\ round' \in RoundStates
      /\ behind' \subseteq Clients /\ time' = time /\ ExpiredInv'
  BY <1>1 DEF RoundGoesOn, SessionType, ExpiredInv
<1>8. NoLooseSocket'
  <2>1. \A i \in Calls : call[i].op = "revoked" => call'[i] = call[i]
    BY <1>2, <1>4
  <2>2. \A c \in sockets \ S : Exists(c) => Exists(c)'
    BY <1>3 DEF Exists, SessionType
  <2>3. \A c \in sockets \cap S : c \in slipped' \/ (call'[k].op = "revoked" /\ c \in call'[k].clients)
    BY <1>2, <1>4
  <2> QED  BY <1>1, <1>2, <2>1, <2>2, <2>3 DEF NoLooseSocket
<1> QED  BY <1>3, <1>4, <1>5, <1>6, <1>7, <1>8, TableStep

LEMMA RefreshStep ==
    ASSUME SessionInv, NEW k \in Calls, RefreshLastUsed(k)
    PROVE  SessionInv'
<1> USE DEF SessionInv
<1>0. PICK c \in Clients : c = Client(k)
  BY DEF RefreshLastUsed, CallInv
<1>1. /\ call[k] \in [op : {"stream"}, clients : SUBSET Clients, at : {"refresh", "register"},
                      now : Nat, old : BOOLEAN]
      /\ call[k].at = "refresh" /\ call[k].now <= time
      /\ ~call[k].old /\ Exists(c) /\ c \notin behind => call[k].now <= row[c].used + RefreshAge
  BY <1>0, CallFacts DEF RefreshLastUsed, SeenInv, UseInv
<1>2. UNCHANGED <<round, time, sockets, slipped>> /\ behind' \subseteq Clients
  BY <1>0 DEF RefreshLastUsed, SessionType
<1> DEFINE now == call[k].now
<1> DEFINE r == [call[k] EXCEPT !.at = "register"]
<1>3. /\ r \in CallStates /\ r.op = "stream" /\ r.at = "register"
      /\ r.clients = call[k].clients /\ r.now = call[k].now /\ r.old = call[k].old
  BY <1>1 DEF CallStates
<1>4. call' = [call EXCEPT ![k] = r]
  BY DEF RefreshLastUsed, Goes
<1> HIDE DEF r
<1>5. /\ call' \in [Calls -> CallStates] /\ call'[k] = r /\ (\A i \in Calls \ {k} : call'[i] = call[i])
  BY <1>3, <1>4, CallMoves
<1>6. \A i \in Calls : GoesOn(i)
  BY <1>1, <1>3, <1>5 DEF GoesOn
<1>7. /\ seen' = [seen EXCEPT ![c] = IF now > seen[c] THEN now ELSE seen[c]]
      /\ now \in Nat /\ seen[c] \in Nat /\ seen[c] <= time /\ time \in Nat /\ RefreshAge \in Nat
      /\ (Exists(c) => row[c] \in ClientRows /\ row[c].used \in Nat /\ row[c].used <= seen[c])
  BY <1>0, <1>1, ClientRowFacts, SessionNats DEF RefreshLastUsed, SessionType, SeenInv
<1>8. /\ seen' \in [Clients -> Nat] /\ seen[c] <= seen'[c] /\ now <= seen'[c] /\ seen'[c] <= time
      /\ (now <= seen[c] => seen'[c] = seen[c]) /\ (seen[c] <= now => seen'[c] = now)
      /\ \A d \in Clients \ {c} : seen'[d] = seen[d]
  BY <1>1, <1>7 DEF SessionType
<1>9. PICK new \in ClientRows \cup {NoClient} :
        /\ row' = [row EXCEPT ![c] = new] /\ (new # NoClient <=> Exists(c))
        /\ new # NoClient => \/ ~call[k].old /\ new.used = row[c].used
                             \/ call[k].old /\ new.used = now
  <2>1. CASE call[k].old /\ Exists(c)
    <3> DEFINE new == Row(row[c].life, now, row[c].elevated)
    <3>1. new \in ClientRows /\ new.used = now
      BY <1>7, <2>1, RowMade, ClientRowFacts
    <3>2. new # NoClient
      BY <3>1 DEF ClientRows, NoClient
    <3>3. row' = [row EXCEPT ![c] = new]
      BY <1>0, <2>1 DEF RefreshLastUsed, UpdateClientTokens, SessionType, Tables
    <3> HIDE DEF new
    <3> QED  BY <2>1, <3>1, <3>2, <3>3
  <2>2. CASE ~(call[k].old /\ Exists(c))
    <3>1. row[c] \in ClientRows \cup {NoClient} /\ (row[c] # NoClient <=> Exists(c))
      BY DEF SessionType, Tables, Exists
    <3>2. row' = row
      BY <1>0, <2>2 DEF RefreshLastUsed, UpdateClientTokens, SessionType, Tables
    <3>3. row' = [row EXCEPT ![c] = row[c]]
      BY <3>2 DEF SessionType, Tables
    <3> QED  BY <2>2, <3>1, <3>3
  <2> QED  BY <2>1, <2>2
<1>10. /\ row' \in Tables /\ row'[c] = new /\ (\A d \in Clients \ {c} : row'[d] = row[d])
       /\ \A d \in Clients : Exists(d) => Exists(d)'
  BY <1>9 DEF SessionType, Tables, Exists
<1>11. /\ \A d \in Clients \ {c} : d \in behind <=> d \in behind'
       /\ c \notin behind' /\ call[k].old /\ new # NoClient =>
            now >= row[c].used /\ (c \notin behind \/ seen[c] <= now)
       /\ c \notin behind' /\ ~call[k].old => c \notin behind
  <2>1. CASE call[k].old /\ Exists(c)
    <3>1. UpdateClientTokens({c}, now)[c].used = now
      BY <1>7, <2>1, RowMade, ClientRowFacts DEF UpdateClientTokens
    <3> QED  BY <1>0, <1>7, <2>1, <3>1 DEF RefreshLastUsed, Rewound, CatchesUp
  <2>2. CASE ~(call[k].old /\ Exists(c))
    BY <1>0, <1>9, <2>2 DEF RefreshLastUsed, Rewound, CatchesUp
  <2> QED  BY <2>1, <2>2
<1>12. KeepsUp(c)
  <2>1. (Exists(c)' <=> new # NoClient) /\ row'[c].used = new.used
    BY <1>10 DEF Exists
  <2>2. new # NoClient => new.used <= seen'[c]
    BY <1>7, <1>8, <1>9
  <2>3. ASSUME new # NoClient, c \notin behind'
        PROVE  \/ row'[c].used = seen'[c]
               \/ /\ Exists(c) /\ c \notin behind /\ row[c].used <= row'[c].used
                  /\ \/ seen'[c] <= row'[c].used + RefreshAge
                     \/ seen'[c] = seen[c] /\ round' = round
    <3>1. CASE call[k].old
      BY <1>2, <1>7, <1>8, <1>9, <1>11, <2>1, <2>3, <3>1
    <3>2. CASE ~call[k].old
      BY <1>1, <1>2, <1>7, <1>8, <1>9, <1>11, <2>1, <2>3, <3>2
    <3> QED  BY <3>1, <3>2
  <2> QED  BY <1>8, <2>1, <2>2, <2>3 DEF KeepsUp
<1>13. \A d \in Clients : KeepsUp(d)
  BY <1>2, <1>8, <1>10, <1>11, <1>12, Untouched DEF Exists
<1>14. RoundGoesOn /\ sockets' \subseteq Clients /\ round' \in RoundStates /\ time' = time /\ ExpiredInv'
  BY <1>2 DEF RoundGoesOn, SessionType, ExpiredInv
<1>15. NoLooseSocket'
  <2>1. \A i \in Calls : call[i].op = "revoked" => call'[i] = call[i]
    BY <1>1, <1>5
  <2> QED  BY <1>2, <1>10, <2>1 DEF NoLooseSocket, SessionType
<1> QED  BY <1>2, <1>5, <1>6, <1>8, <1>10, <1>13, <1>14, <1>15, TableStep

\* The steps that leave rows, requests and uses alone, and only end connections
\* or move the round on.
LEMMA RoundStep ==
    ASSUME SessionInv, UNCHANGED <<row, call, time, seen>>, behind' \subseteq Clients,
           behind \subseteq behind', sockets' \subseteq Clients, round' \in RoundStates,
           round.at # "update" \/ round.tokens \subseteq behind' \/ round' = round, RoundGoesOn
    PROVE  SessionType' /\ CallInv' /\ SeenInv' /\ UseInv'
<1> USE DEF SessionInv
<1>1. \A c \in Clients : KeepsUp(c)
  <2> SUFFICES ASSUME NEW c \in Clients PROVE KeepsUp(c)
    OBVIOUS
  <2>1. /\ seen[c] \in Nat /\ time \in Nat /\ seen[c] <= time
        /\ Exists(c)' = Exists(c) /\ row'[c] = row[c] /\ seen'[c] = seen[c]
        /\ (Exists(c) => row[c].used \in Nat /\ row[c].used <= seen[c])
    BY ClientRowFacts DEF SessionType, SeenInv, Exists
  <2> QED  BY <2>1 DEF KeepsUp, UseInv
<1>2. /\ row' \in Tables /\ seen' \in [Clients -> Nat] /\ call' \in [Calls -> CallStates] /\ time' = time
      /\ \A k \in Calls : GoesOn(k)
  BY DEF SessionType, GoesOn
<1> QED  BY <1>1, <1>2, TableStep

LEMMA DisconnectStep ==
    ASSUME SessionInv, NEW c \in Clients, Disconnect(c)
    PROVE  SessionInv'
<1> USE DEF SessionInv
<1>1. /\ UNCHANGED <<row, call, round, time, seen, behind>>
      /\ sockets' = sockets \ {c} /\ slipped' = slipped \ {c}
  BY DEF Disconnect
<1>2. RoundGoesOn /\ round' \in RoundStates /\ behind' \subseteq Clients /\ sockets' \subseteq Clients
  BY <1>1 DEF RoundGoesOn, SessionType
<1>3. ExpiredInv' /\ NoLooseSocket'
  BY <1>1 DEF ExpiredInv, NoLooseSocket, Exists
<1> QED  BY <1>1, <1>2, <1>3, RoundStep

LEMMA NotifyExpiredStep ==
    ASSUME SessionInv, NEW c \in Clients, NotifyExpired(c)
    PROVE  SessionInv'
<1> USE DEF SessionInv
<1>1. /\ UNCHANGED <<row, call, time, seen, behind>>
      /\ sockets' = sockets \ {c} /\ slipped' = slipped \ {c}
      /\ round.at = "notify" /\ round' = [round EXCEPT !.left = round.left \ {c}]
  BY DEF NotifyExpired, NotifyDeleted
<1>2. /\ round' \in RoundStates /\ round'.at = "notify" /\ round'.left = round.left \ {c}
      /\ behind' \subseteq Clients /\ sockets' \subseteq Clients
  BY <1>1, RoundFacts DEF SessionType, RoundStates
<1>3. ExpiredInv' /\ NoLooseSocket' /\ RoundGoesOn
  BY <1>1, <1>2 DEF ExpiredInv, NoLooseSocket, Exists, RoundGoesOn
<1> QED  BY <1>1, <1>2, <1>3, RoundStep

LEMMA EndRoundStep ==
    ASSUME SessionInv, EndRound
    PROVE  SessionInv'
<1> USE DEF SessionInv
<1>1. /\ UNCHANGED <<row, call, time, seen, behind, sockets, slipped>>
      /\ round.at = "notify" /\ round.left = {} /\ round' = NoRound
  BY DEF EndRound
<1>2. /\ round' \in RoundStates /\ round'.at = "waits"
      /\ behind' \subseteq Clients /\ sockets' \subseteq Clients
  BY <1>1 DEF SessionType, RoundStates, NoRound
<1>3. ExpiredInv' /\ NoLooseSocket' /\ RoundGoesOn
  BY <1>1, <1>2 DEF ExpiredInv, NoLooseSocket, Exists, RoundGoesOn
<1> QED  BY <1>1, <1>2, <1>3, RoundStep

LEMMA RefreshFailsStep ==
    ASSUME SessionInv, UpdateConnectedFails
    PROVE  SessionInv'
<1> USE DEF SessionInv
<1>1. /\ UNCHANGED <<row, call, time, seen, sockets, slipped>>
      /\ round \in [at : {"update", "find"}, now : Nat, tokens : SUBSET Clients]
      /\ round.at = "update" /\ round.now <= time
      /\ round' = [round EXCEPT !.at = "find"] /\ behind' = behind \cup round.tokens
  BY RoundFacts DEF UpdateConnectedFails, SeenInv
<1>2. /\ round' \in RoundStates /\ round'.at = "find" /\ round'.now = round.now
      /\ behind' \subseteq Clients /\ sockets' \subseteq Clients
  BY <1>1 DEF SessionType, RoundStates
<1>3. ExpiredInv' /\ NoLooseSocket' /\ RoundGoesOn
  BY <1>1, <1>2 DEF ExpiredInv, NoLooseSocket, Exists, RoundGoesOn
<1> QED  BY <1>1, <1>2, <1>3, RoundStep

LEMMA FindStep ==
    ASSUME SessionInv, FindExpired
    PROVE  SessionInv'
<1> USE DEF SessionInv
<1>1. /\ UNCHANGED <<row, call, time, seen, behind, sockets, slipped>>
      /\ round.at = "find" /\ round.now \in Nat /\ round.now <= time
      /\ round' = [at |-> "delete", now |-> round.now, expired |-> Expired(round.now), rows |-> row]
  BY RoundFacts DEF FindExpired, SeenInv
<1>2. /\ round'.at = "delete" /\ round'.now = round.now /\ round'.rows = row
      /\ round'.expired = Expired(round.now)
      /\ behind' \subseteq Clients /\ sockets' \subseteq Clients /\ row \in Tables
  BY <1>1 DEF SessionType
<1>3. round' \in RoundStates
  <2>1. Expired(round.now) \in SUBSET Clients
    BY DEF Expired
  <2> QED  BY <1>1, <1>2, <2>1 DEF RoundStates
<1>4. ExpiredInv'
  <2>1. \A c \in Expired(round.now) : c \in Clients /\ row[c] \in ClientRows /\ row[c].expires # 0 /\ row[c].expires <= round.now
    BY ClientRowFacts DEF Expired
  <2> QED  BY <1>2, <2>1 DEF ExpiredInv
<1>5. NoLooseSocket' /\ RoundGoesOn
  BY <1>1, <1>2 DEF NoLooseSocket, Exists, RoundGoesOn
<1> QED  BY <1>1, <1>2, <1>3, <1>4, <1>5, RoundStep

LEMMA DeleteExpiredStep ==
    ASSUME SessionInv, DeleteExpired
    PROVE  SessionInv'
<1> USE DEF SessionInv
<1>1. /\ UNCHANGED <<call, time, seen, behind, sockets, slipped>> /\ round.at = "delete"
      /\ round.expired \subseteq Clients /\ behind' \subseteq Clients /\ sockets' \subseteq Clients
  BY RoundFacts DEF DeleteExpired, SessionType
<1>2. CASE row' = row /\ round' = NoRound
  <2>1. round' \in RoundStates /\ round'.at = "waits"
    BY <1>2 DEF RoundStates, NoRound
  <2>2. ExpiredInv' /\ NoLooseSocket' /\ RoundGoesOn
    BY <1>1, <1>2, <2>1 DEF ExpiredInv, NoLooseSocket, Exists, RoundGoesOn
  <2> QED  BY <1>1, <1>2, <2>1, <2>2, RoundStep
<1>3. CASE row' = Gone(round.expired) /\ round' = [at |-> "notify", left |-> round.expired]
  <2>1. round' \in RoundStates /\ round'.at = "notify" /\ round'.left = round.expired
    BY <1>1, <1>3 DEF RoundStates
  <2>2. /\ row' \in Tables /\ (\A d \in round.expired : ~Exists(d)')
        /\ (\A d \in Clients \ round.expired : row'[d] = row[d])
    BY <1>1, <1>3 DEF Gone, Tables, SessionType, Exists
  <2>3. \A c \in Clients : KeepsUp(c)
    <3> SUFFICES ASSUME NEW c \in Clients PROVE KeepsUp(c)
      OBVIOUS
    <3>1. /\ seen[c] \in Nat /\ time \in Nat /\ seen[c] <= time /\ seen'[c] = seen[c]
          /\ (Exists(c)' => Exists(c) /\ row'[c] = row[c])
          /\ (Exists(c) => row[c].used \in Nat /\ row[c].used <= seen[c])
      BY <1>1, <2>2, ClientRowFacts DEF SessionType, SeenInv, Exists
    <3> QED  BY <1>1, <3>1 DEF KeepsUp, UseInv
  <2>4. /\ \A k \in Calls : GoesOn(k)
        /\ call' \in [Calls -> CallStates] /\ seen' \in [Clients -> Nat] /\ RoundGoesOn
    BY <1>1, <2>1 DEF GoesOn, SessionType, RoundGoesOn
  <2>5. ExpiredInv'
    BY <2>1 DEF ExpiredInv
  <2>6. NoLooseSocket'
    BY <1>1, <2>1, <2>2 DEF NoLooseSocket, Exists, SessionType
  <2> QED  BY <1>1, <2>1, <2>2, <2>3, <2>4, <2>5, <2>6, TableStep
<1> QED  BY <1>2, <1>3 DEF DeleteExpired

LEMMA TimeStep ==
    ASSUME SessionInv, TimePasses
    PROVE  SessionInv'
<1>1. /\ UNCHANGED <<row, sockets, call, round, seen, behind, slipped>> /\ time' = time + 1
      /\ time \in Nat
  BY DEF TimePasses, SessionInv, SessionType
<1>2. SessionType' /\ CallInv' /\ ExpiredInv' /\ NoLooseSocket'
  BY <1>1 DEF SessionInv, SessionType, CallInv, ExpiredInv, NoLooseSocket, Client, Exists
<1>3. UseInv'
  BY <1>1 DEF SessionInv, UseInv, Client, Exists
<1>4. SeenInv'
  <2>1. \A c \in Clients : seen[c] \in Nat
    BY DEF SessionInv, SessionType
  <2>2. \A k \in Calls : call[k].op = "stream" => call[k].now \in Nat
    BY CallFacts DEF SessionInv
  <2>3. round.at \in {"update", "find", "delete"} => round.now \in Nat
    BY RoundFacts DEF SessionInv
  <2> QED  BY <1>1, <2>1, <2>2, <2>3 DEF SessionInv, SeenInv, Client, Exists
<1> QED  BY <1>2, <1>3, <1>4 DEF SessionInv

LEMMA CollectStep ==
    ASSUME SessionInv, CollectConnectedClientTokens
    PROVE  SessionInv'
<1> USE DEF SessionInv
<1>1. /\ UNCHANGED <<row, sockets, call, time, behind, slipped>> /\ round = NoRound
      /\ round' = [at |-> "update", now |-> time, tokens |-> sockets]
      /\ seen' = [c \in Clients |-> IF c \in sockets THEN time ELSE seen[c]]
      /\ time \in Nat /\ sockets \subseteq Clients /\ behind' \subseteq Clients /\ sockets' \subseteq Clients
      /\ RefreshAge \in Nat
  BY SessionNats DEF CollectConnectedClientTokens, SessionType
<1>2. /\ round' \in RoundStates /\ round'.at = "update" /\ round'.now = time /\ round'.tokens = sockets
      /\ round.at = "waits"
  BY <1>1 DEF RoundStates, NoRound
<1>3. \A c \in Clients : KeepsUp(c)
  <2> SUFFICES ASSUME NEW c \in Clients PROVE KeepsUp(c)
    OBVIOUS
  <2>1. /\ seen[c] \in Nat /\ time \in Nat /\ seen[c] <= time /\ Exists(c)' = Exists(c) /\ row'[c] = row[c]
        /\ seen'[c] = (IF c \in sockets THEN time ELSE seen[c])
        /\ (Exists(c) => row[c].used \in Nat /\ row[c].used <= seen[c])
    BY <1>1, ClientRowFacts DEF SessionType, SeenInv, Exists
  <2>2. Exists(c) /\ c \notin behind => seen[c] <= row[c].used + RefreshAge
    BY <1>2 DEF UseInv
  <2> QED  BY <1>1, <1>2, <2>1, <2>2 DEF KeepsUp
<1>4. /\ \A k \in Calls : GoesOn(k)
      /\ row' \in Tables /\ call' \in [Calls -> CallStates] /\ seen' \in [Clients -> Nat] /\ time' = time
  BY <1>1 DEF GoesOn, SessionType
<1>5. RoundGoesOn
  BY <1>1, <1>2 DEF RoundGoesOn
<1>6. ExpiredInv' /\ NoLooseSocket'
  BY <1>1, <1>2 DEF ExpiredInv, NoLooseSocket, Exists
<1> QED  BY <1>1, <1>2, <1>3, <1>4, <1>5, <1>6, TableStep

LEMMA UpdateStep ==
    ASSUME SessionInv, UpdateConnected
    PROVE  SessionInv'
<1> USE DEF SessionInv
<1>1. /\ round \in [at : {"update", "find"}, now : Nat, tokens : SUBSET Clients]
      /\ round.at = "update" /\ round.now <= time /\ \A c \in round.tokens : round.now <= seen[c]
  BY RoundFacts DEF UpdateConnected, SeenInv
<1> DEFINE tokens == round.tokens
<1> DEFINE now == round.now
<1>2. /\ UNCHANGED <<sockets, call, time, seen, slipped>>
      /\ row' = UpdateClientTokens(tokens, now) /\ round' = [round EXCEPT !.at = "find"]
      /\ behind' = (behind \ {c \in tokens : CatchesUp(c, now)})
                   \cup {c \in tokens : Rewound(c, UpdateClientTokens(tokens, now)[c])}
  BY DEF UpdateConnected
<1>3. /\ round' \in RoundStates /\ round'.at = "find" /\ round'.now = now /\ sockets' \subseteq Clients
      /\ behind' \subseteq Clients
  BY <1>1, <1>2 DEF SessionType, RoundStates
<1>4. \A c \in Clients :
        /\ c \in tokens /\ Exists(c) => row'[c] \in ClientRows /\ row'[c].used = now
        /\ ~(c \in tokens /\ Exists(c)) => row'[c] = row[c]
  BY <1>1, <1>2, RowMade, ClientRowFacts DEF UpdateClientTokens
<1>5. row' \in Tables /\ \A c \in Clients : Exists(c)' = Exists(c)
  <2>1. NoClient \notin ClientRows
    BY DEF NoClient, ClientRows
  <2>2. row' = [c \in Clients |-> row'[c]]
    BY <1>2 DEF UpdateClientTokens
  <2>3. \A c \in Clients : row'[c] \in ClientRows \cup {NoClient}
    BY <1>4 DEF SessionType, Tables
  <2>4. row' \in Tables
    BY <2>2, <2>3 DEF Tables
  <2> QED  BY <1>4, <2>1, <2>4 DEF Exists
<1>6. \A c \in Clients : KeepsUp(c)
  <2> SUFFICES ASSUME NEW c \in Clients PROVE KeepsUp(c)
    OBVIOUS
  <2>1. /\ seen[c] \in Nat /\ time \in Nat /\ now \in Nat /\ seen[c] <= time /\ seen'[c] = seen[c]
        /\ Exists(c)' = Exists(c) /\ RefreshAge \in Nat
        /\ (Exists(c) => row[c].used \in Nat /\ row[c].used <= seen[c])
    BY <1>1, <1>2, <1>5, ClientRowFacts, SessionNats DEF SessionType, SeenInv
  <2>2. CASE c \in tokens /\ Exists(c)
    <3>1. row'[c].used = now /\ now <= seen[c]
      BY <1>1, <1>4, <2>2
    <3>2. c \notin behind' => row[c].used <= now /\ (c \notin behind \/ seen[c] <= now)
      BY <1>2, <2>1, <2>2, <3>1 DEF CatchesUp, Rewound
    <3>3. c \notin behind => seen[c] <= row[c].used + RefreshAge \/ seen[c] <= now
      BY <2>2 DEF UseInv
    <3>4. c \notin behind' => \/ now = seen[c]
                              \/ /\ c \notin behind /\ row[c].used <= now
                                 /\ seen[c] <= now + RefreshAge
      BY <2>1, <2>2, <3>1, <3>2, <3>3
    <3> QED  BY <2>1, <2>2, <3>1, <3>4 DEF KeepsUp
  <2>3. CASE ~(c \in tokens /\ Exists(c))
    <3>1. row'[c] = row[c] /\ (Exists(c) => c \notin tokens)
      BY <1>4, <2>3
    <3>2. Exists(c) /\ c \notin behind' => c \notin behind /\ seen[c] <= row[c].used + RefreshAge
      BY <1>2, <3>1 DEF UseInv
    <3> QED  BY <2>1, <3>1, <3>2 DEF KeepsUp
  <2> QED  BY <2>2, <2>3
<1>7. /\ \A k \in Calls : GoesOn(k)
      /\ call' \in [Calls -> CallStates] /\ seen' \in [Clients -> Nat] /\ time' = time
  BY <1>2 DEF GoesOn, SessionType
<1>8. RoundGoesOn
  BY <1>1, <1>3 DEF RoundGoesOn
<1>9. ExpiredInv'
  BY <1>3 DEF ExpiredInv
<1>10. NoLooseSocket'
  <2>1. sockets' = sockets /\ slipped' = slipped /\ call' = call /\ round.at # "notify"
    BY <1>1, <1>2
  <2> QED  BY <1>5, <2>1 DEF NoLooseSocket, SessionType
<1> QED  BY <1>2, <1>3, <1>5, <1>6, <1>7, <1>8, <1>9, <1>10, TableStep

LEMMA RestartStep ==
    ASSUME SessionInv, RestartServer
    PROVE  SessionInv'
<1> USE DEF SessionInv
<1>1. /\ UNCHANGED <<row, time, seen>> /\ sockets' = {} /\ call' = [k \in Calls |-> NoCall] /\ round' = NoRound
      /\ behind' = IF round.at = "update" THEN behind \cup round.tokens ELSE behind
  BY DEF RestartServer
<1>2. behind' \subseteq Clients
  BY <1>1, RoundFacts DEF SessionType
<1>3. /\ round' \in RoundStates /\ round'.at = "waits" /\ NoCall \in CallStates /\ NoCall.op = "none"
  BY <1>1 DEF RoundStates, NoRound, CallStates, NoCall
<1>4. SessionType' /\ CallInv' /\ ExpiredInv' /\ NoLooseSocket'
  BY <1>1, <1>2, <1>3 DEF SessionType, CallInv, ExpiredInv, NoLooseSocket
<1>5. SeenInv' /\ UseInv'
  BY <1>1, <1>3 DEF SeenInv, UseInv, Exists
<1> QED  BY <1>4, <1>5

LEMMA SessionInvariance == SessionSpec => []SessionInv
<1>1. SessionInv /\ [SessionNext]_sessionVars => SessionInv'
  <2> SUFFICES ASSUME SessionInv, [SessionNext]_sessionVars PROVE SessionInv'
    OBVIOUS
  <2>1. CASE UNCHANGED sessionVars
    BY <2>1 DEF sessionVars, SessionInv, SessionType, CallInv, SeenInv, UseInv, ExpiredInv, NoLooseSocket,
                Exists, Client
  <2>2. CASE \E c \in Clients, life \in Lifetimes : CreateClient(c, life) \/ Login(c, life)
    BY <2>2, CreateSteps
  <2>3. CASE \E k \in Calls, c \in Clients :
               \/ handleClient(k, c) \/ ElevateClient(k, c)
               \/ \E life \in Lifetimes : UpdateClient(k, c, life)
    BY <2>3, ReadingSteps
  <2>4. CASE \E k \in Calls, c \in Clients : DeleteClient(k, c) \/ Logout(k, c)
    BY <2>4, ClosingSteps
  <2>5. CASE \E k \in Calls, c \in Clients : RevokeSession(k, c)
    BY <2>5, RemovingSteps
  <2>6. CASE \E k \in Calls : RefreshLastUsed(k) \/ Register(k) \/ SaveClient(k) \/ UpdateClientElevatedUntil(k)
    BY <2>6, RefreshStep, RegisterStep, WritingSteps
  <2>7. CASE \E k \in Calls : DeleteUserSessions(k) \/ DeleteClientByID(k) \/ DeletionFails(k) \/ NotifyRevoked(k)
    BY <2>7, ClosingSteps, RemovingSteps, NotifyRevokedStep
  <2>8. CASE \E c \in Clients : Disconnect(c) \/ NotifyExpired(c)
    BY <2>8, DisconnectStep, NotifyExpiredStep
  <2>9. CASE CollectConnectedClientTokens \/ UpdateConnected \/ UpdateConnectedFails
    BY <2>9, CollectStep, UpdateStep, RefreshFailsStep
  <2>10. CASE FindExpired \/ DeleteExpired \/ EndRound \/ TimePasses \/ RestartServer
    BY <2>10, FindStep, DeleteExpiredStep, EndRoundStep, TimeStep, RestartStep
  <2> QED  BY <2>1, <2>2, <2>3, <2>4, <2>5, <2>6, <2>7, <2>8, <2>9, <2>10 DEF SessionNext
<1> QED  BY SessionInitially, <1>1, PTL DEF SessionSpec

\* Whatever removes a client also closes its connections, up to the one that
\* registers in between (api/client.go, api/session.go, router.go).
THEOREM SocketsHaveClients == SessionSpec => []NoLooseSocket
BY SessionInvariance, PTL DEF SessionInv

\* The ticker's cleanup takes only clients that were idle for their lifetime,
\* up to the writes named by OnlyIdleRemoved (database/client.go).
THEOREM OnlyIdleClientsRemoved == SessionSpec => []OnlyIdleRemoved
<1>1. SessionInv => OnlyIdleRemoved
  <2> SUFFICES ASSUME SessionInv, round.at = "delete", NEW c \in round.expired,
                      c \notin behind, row[c] = round.rows[c]
               PROVE  round.now - seen[c] >= round.rows[c].life - RefreshAge
    BY DEF OnlyIdleRemoved
  <2>1. /\ c \in Clients /\ round.now \in Nat
        /\ row[c] \in ClientRows /\ row[c].expires # 0 /\ row[c].expires <= round.now
    BY RoundFacts DEF SessionInv, ExpiredInv
  <2>2. row[c].used \in Nat /\ row[c].life \in Nat /\ Exists(c) /\ seen[c] \in Nat /\ RefreshAge \in Nat
    BY <2>1, ClientRowFacts, SessionNats DEF SessionInv, SessionType
  <2>3. row[c].expires = row[c].used + row[c].life
    BY <2>1 DEF ClientRows, calculateExpiresAt
  <2>4. seen[c] <= row[c].used + RefreshAge
    BY <2>1, <2>2 DEF SessionInv, UseInv
  <2> QED  BY <2>1, <2>2, <2>3, <2>4
<1> QED  BY <1>1, SessionInvariance, PTL

-----------------------------------------------------------------------------
(* SignIn: the generations of the decaying maps.                           *)

Gen(t) == t \div Period

LEMMA GenRange ==
    ASSUME NEW t \in Nat
    PROVE  Gen(t) \in Nat /\ Period * Gen(t) <= t /\ t < Period * Gen(t) + Period
<1>1. Period \in Nat /\ Period > 0
  BY SignInAssumption
<1> QED  BY <1>1 DEF Gen

LEMMA Times ==
    ASSUME NEW p \in Nat, NEW x \in Nat, NEW y \in Nat, NEW d \in Nat, x + d <= y
    PROVE  p * x + p * d <= p * y
<1>1. PICK e \in Nat : y = x + d + e
  <2>1. y - (x + d) \in Nat /\ y = x + d + (y - (x + d))
    OBVIOUS
  <2> QED  BY <2>1
<1>2. p * y = p * x + p * d + p * e /\ p * e \in Nat /\ p * x \in Nat /\ p * d \in Nat
  BY <1>1
<1> QED  BY <1>2

LEMMA GenOrder ==
    ASSUME NEW a \in Nat, NEW b \in Nat
    PROVE  /\ a <= b => Gen(a) <= Gen(b)
           /\ Gen(a) + 2 <= Gen(b) => b - a >= Period
           /\ Gen(b) <= Gen(a) + 1 => b - a < 2 * Period
<1>1. Period \in Nat /\ Period > 0
  BY SignInAssumption
<1>2. /\ Gen(a) \in Nat /\ Period * Gen(a) <= a /\ a < Period * Gen(a) + Period
      /\ Gen(b) \in Nat /\ Period * Gen(b) <= b /\ b < Period * Gen(b) + Period
      /\ Period * Gen(a) \in Nat /\ Period * Gen(b) \in Nat
  BY <1>1, GenRange
<1>3. a <= b => Gen(a) <= Gen(b)
  <2> SUFFICES ASSUME a <= b, ~(Gen(a) <= Gen(b)) PROVE FALSE
    OBVIOUS
  <2>1. Gen(b) + 1 <= Gen(a)
    BY <1>2
  <2>2. Period * Gen(b) + Period * 1 <= Period * Gen(a)
    BY <1>1, <1>2, <2>1, Times
  <2>3. Period * 1 = Period
    BY <1>1
  <2> QED  BY <1>1, <1>2, <2>2, <2>3
<1>4. Gen(a) + 2 <= Gen(b) => b - a >= Period
  <2> SUFFICES ASSUME Gen(a) + 2 <= Gen(b) PROVE b - a >= Period
    OBVIOUS
  <2>1. Period * Gen(a) + Period * 2 <= Period * Gen(b)
    BY <1>1, <1>2, Times
  <2>2. Period * 2 = Period + Period
    BY <1>1
  <2> QED  BY <1>1, <1>2, <2>1, <2>2
<1>5. Gen(b) <= Gen(a) + 1 => b - a < 2 * Period
  <2> SUFFICES ASSUME Gen(b) <= Gen(a) + 1 PROVE b - a < 2 * Period
    OBVIOUS
  <2>1. Period * Gen(b) <= Period * Gen(a) + Period
    <3>1. PICK n \in Nat : n = Gen(a) + 1
      BY <1>2
    <3>2. Period * Gen(b) + Period * 0 <= Period * n
      BY <1>1, <1>2, <3>1, Times
    <3>3. Period * n = Period * Gen(a) + Period /\ Period * 0 = 0
      BY <1>1, <1>2, <3>1
    <3> QED  BY <1>1, <1>2, <3>2, <3>3
  <2>2. 2 * Period = Period + Period
    BY <1>1
  <2> QED  BY <1>1, <1>2, <2>1, <2>2
<1> QED  BY <1>3, <1>4, <1>5

PendingSessions == {NoSession} \cup [kind : Kinds, created : Nat, at : {"set", "sent"}]
AnswerStates ==
  {NoAnswer} \cup [at : {"callback", "pop", "token", "exchange", "create", "elevate"}, state : States]

SignInType ==
  /\ maps \in [0..1 -> SUBSET States]
  /\ generation \in Nat /\ lastInsert \in Nat /\ clock \in Nat
  /\ session \in [States -> PendingSessions] /\ answer \in [Answers -> AnswerStates]
  /\ accepted \subseteq States
  /\ redeemed \in [States -> Nat]

Sent(s) == session[s].kind # "none" /\ session[s].at = "sent"

\* A state lies in the map of its generation's parity, and is of the generation
\* of the last insert or the one before.
MapsInv ==
  /\ lastInsert <= clock /\ generation = Gen(lastInsert)
  /\ \A s \in States : session[s].kind # "none" => session[s].created <= clock
  /\ \A g \in 0..1 : \A s \in maps[g] :
       /\ Sent(s) /\ session[s].created <= lastInsert
       /\ Gen(session[s].created) % 2 = g /\ generation - 1 <= Gen(session[s].created)

\* What was accepted is there, taken, or at least two generations old.
AcceptedInv ==
  \A s \in accepted :
    /\ Sent(s) /\ session[s].created <= lastInsert
    /\ s \in taken \/ Stored(s) \/ Gen(session[s].created) + 2 <= generation

Redeeming(x, s) == answer[x].at \in {"create", "elevate", "exchange"} /\ answer[x].state = s

\* A state that can still be taken has not been redeemed, and nobody redeems it;
\* one that was taken is redeemed by one answer.
OnceInv ==
  \A s \in States :
    /\ ~Sent(s) \/ Stored(s) => redeemed[s] = 0 /\ \A x \in Answers : ~Redeeming(x, s)
    /\ redeemed[s] <= 1
    /\ redeemed[s] = 1 => \A x \in Answers : ~Redeeming(x, s)
    /\ \A x, y \in Answers : Redeeming(x, s) /\ Redeeming(y, s) => x = y

SignInInv == SignInType /\ MapsInv /\ AcceptedInv /\ OnceInv

-----------------------------------------------------------------------------
LEMMA SignInInitially == SignInInit => SignInInv
<1> SUFFICES ASSUME SignInInit PROVE SignInInv
  OBVIOUS
<1>1. Gen(0) = 0
  BY GenRange, SignInAssumption, 0 \in Nat
<1>2. SignInType
  BY DEF SignInInit, SignInType, PendingSessions, AnswerStates
<1>3. MapsInv /\ AcceptedInv
  BY <1>1 DEF SignInInit, MapsInv, AcceptedInv, NoSession
<1>4. OnceInv
  BY DEF SignInInit, OnceInv, Redeeming, NoAnswer, Stored
<1> QED  BY <1>2, <1>3, <1>4 DEF SignInInv

LEMMA PendingFacts ==
    ASSUME SignInType
    PROVE  /\ \A s \in States : session[s].kind # "none" =>
                session[s] \in [kind : Kinds, created : Nat, at : {"set", "sent"}]
           /\ \A x \in Answers : answer[x].at # "none" =>
                answer[x] \in [at : {"callback", "pop", "token", "exchange", "create", "elevate"}, state : States]
BY DEF SignInType, PendingSessions, AnswerStates, NoSession, NoAnswer

\* A step of one answer's handler: it goes on with its state, or ends.
LEMMA AnswerMoves ==
    ASSUME SignInType, NEW x \in Answers, NEW a \in AnswerStates, answer' = [answer EXCEPT ![x] = a]
    PROVE  /\ answer' \in [Answers -> AnswerStates] /\ answer'[x] = a
           /\ \A y \in Answers \ {x} : answer'[y] = answer[y]
BY DEF SignInType

LEMMA StartStep ==
    ASSUME SignInInv, NEW s \in States, NEW kind \in Kinds, StartSignIn(s, kind)
    PROVE  SignInInv'
<1> USE DEF SignInInv
<1> DEFINE p == [kind |-> kind, created |-> clock, at |-> "set"]
<1>1. /\ session' = [session EXCEPT ![s] = p] /\ session[s] = NoSession
      /\ UNCHANGED <<maps, generation, lastInsert, answer, clock, accepted, taken, redeemed>>
  BY DEF StartSignIn
<1>2. p \in PendingSessions /\ p.created = clock /\ p.at = "set" /\ clock \in Nat
  BY DEF PendingSessions, SignInType
<1> HIDE DEF p
<1>3. /\ session' \in [States -> PendingSessions] /\ session'[s] = p
      /\ \A t \in States \ {s} : session'[t] = session[t]
  BY <1>1, <1>2 DEF SignInType
<1>4. ~Sent(s) /\ ~Sent(s)' /\ \A t \in States \ {s} : Sent(t)' = Sent(t)
  BY <1>1, <1>2, <1>3 DEF Sent, NoSession
<1>5. SignInType'
  BY <1>1, <1>3 DEF SignInType
<1>6. MapsInv'
  BY <1>1, <1>2, <1>3, <1>4 DEF MapsInv, SignInType
<1>7. AcceptedInv'
  BY <1>1, <1>3, <1>4 DEF AcceptedInv, Stored, SignInType
<1>8. OnceInv'
  BY <1>1, <1>4 DEF OnceInv, Redeeming, Stored
<1> QED  BY <1>5, <1>6, <1>7, <1>8

\* The maps after an insert: every other state that is left was there, and one
\* that went is at least two generations older than the insert.
LEMMA ClearedMaps ==
    ASSUME SignInInv, NEW gen \in Nat, generation <= gen
    PROVE  /\ Cleared(gen) \in [0..1 -> SUBSET States]
           /\ \A g \in 0..1 : Cleared(gen)[g] \subseteq maps[g]
           /\ \A g \in 0..1 : \A t \in Cleared(gen)[g] : gen - 1 <= Gen(session[t].created)
           /\ \A g \in 0..1 : \A t \in maps[g] \ Cleared(gen)[g] : Gen(session[t].created) + 2 <= gen
<1> USE DEF SignInInv
<1>1. \A g \in 0..1 : \A t \in maps[g] :
        /\ Gen(session[t].created) \in Nat /\ Gen(session[t].created) <= generation
        /\ Gen(session[t].created) % 2 = g /\ generation - 1 <= Gen(session[t].created)
  <2> SUFFICES ASSUME NEW g \in 0..1, NEW t \in maps[g]
               PROVE  Gen(session[t].created) \in Nat /\ Gen(session[t].created) <= generation
    BY DEF MapsInv
  <2>1. t \in States /\ session[t].created <= lastInsert /\ session[t].kind # "none"
    BY DEF MapsInv, SignInType, Sent
  <2>2. session[t].created \in Nat /\ lastInsert \in Nat
    BY <2>1, PendingFacts DEF SignInType
  <2> QED  BY <2>1, <2>2, GenRange, GenOrder DEF MapsInv
<1>2. CASE gen - generation >= 2
  <2>1. Cleared(gen) = [g \in 0..1 |-> {}]
    BY <1>2 DEF Cleared
  <2> QED  BY <1>1, <1>2, <2>1 DEF SignInType
<1>3. CASE gen - generation = 1
  <2>1. Cleared(gen) = [maps EXCEPT ![gen % 2] = {}]
    BY <1>3 DEF Cleared, SignInType
  <2>2. gen % 2 \in 0..1 /\ generation \in Nat /\ gen = generation + 1
    BY <1>3 DEF SignInType
  <2>3. /\ Cleared(gen) \in [0..1 -> SUBSET States] /\ Cleared(gen)[gen % 2] = {}
        /\ \A g \in 0..1 \ {gen % 2} : Cleared(gen)[g] = maps[g]
    BY <2>1, <2>2 DEF SignInType
  <2>4. \A g \in 0..1 : \A t \in maps[g] :
          IF g = gen % 2 THEN Gen(session[t].created) = generation - 1
                         ELSE Gen(session[t].created) = generation
    <3> SUFFICES ASSUME NEW g \in 0..1, NEW t \in maps[g], NEW n \in Nat, n = Gen(session[t].created)
                 PROVE  IF g = gen % 2 THEN n = generation - 1 ELSE n = generation
      BY <1>1
    <3>1. n % 2 = g /\ generation - 1 <= n /\ n <= generation
      BY <1>1
    <3> QED  BY <2>2, <3>1
  <2> QED  BY <1>1, <2>2, <2>3, <2>4
<1>4. CASE gen = generation
  <2>1. Cleared(gen) = maps
    BY <1>4 DEF Cleared, SignInType
  <2> QED  BY <1>1, <1>4, <2>1 DEF SignInType
<1> QED  BY <1>2, <1>3, <1>4 DEF SignInType

LEMMA SetStep ==
    ASSUME SignInInv, NEW s \in States, Set(s)
    PROVE  SignInInv'
<1> USE DEF SignInInv
<1>1. PICK now \in Nat : now = session[s].created
  BY PendingFacts DEF Set
<1>2. /\ session[s] \in [kind : Kinds, created : Nat, at : {"set", "sent"}] /\ session[s].at = "set"
      /\ session' = [session EXCEPT ![s].at = "sent"]
      /\ now <= clock /\ ~Sent(s)
      /\ UNCHANGED <<answer, clock, taken, redeemed>>
  BY <1>1, PendingFacts DEF Set, MapsInv, Sent
<1>3. /\ session' \in [States -> PendingSessions]
      /\ session'[s].kind = session[s].kind /\ session'[s].at = "sent" /\ session'[s].created = now
      /\ \A t \in States \ {s} : session'[t] = session[t]
      /\ Sent(s)' /\ \A t \in States \ {s} : Sent(t)' = Sent(t)
  <2>1. [session[s] EXCEPT !.at = "sent"] \in PendingSessions
    BY <1>2 DEF PendingSessions
  <2>2. session[s].kind # "none"
    BY <1>2 DEF Kinds
  <2> QED  BY <1>1, <1>2, <2>1, <2>2 DEF SignInType, Sent
<1>4. ~Stored(s) /\ s \notin accepted
  BY <1>2 DEF Stored, MapsInv, AcceptedInv
<1>5. CASE now < lastInsert
  <2>1. UNCHANGED <<maps, generation, lastInsert, accepted>>
    BY <1>1, <1>5 DEF Set
  <2>2. SignInType'
    BY <1>2, <1>3, <2>1 DEF SignInType
  <2>3. MapsInv'
    BY <1>2, <1>3, <1>4, <2>1 DEF MapsInv, Stored, SignInType
  <2>4. AcceptedInv'
    BY <1>2, <1>3, <1>4, <2>1 DEF AcceptedInv, Stored, SignInType
  <2>5. OnceInv'
    BY <1>2, <1>3, <2>1 DEF OnceInv, Redeeming, Stored
  <2> QED  BY <2>2, <2>3, <2>4, <2>5
<1>6. CASE lastInsert <= now
  <2>1. PICK gen \in Nat : gen = Gen(now) /\ generation <= gen /\ generation \in Nat
    BY <1>6, GenRange, GenOrder DEF MapsInv, SignInType
  <2>2. /\ lastInsert' = now /\ generation' = gen /\ accepted' = accepted \cup {s}
        /\ maps' = [Cleared(gen) EXCEPT ![gen % 2] = @ \cup {s}, ![1 - (gen % 2)] = @ \ {s}]
    BY <1>1, <1>6, <2>1 DEF Set, Gen, SignInType
  <2>3. /\ Cleared(gen) \in [0..1 -> SUBSET States]
        /\ \A g \in 0..1 : Cleared(gen)[g] \subseteq maps[g]
        /\ \A g \in 0..1 : \A t \in Cleared(gen)[g] : gen - 1 <= Gen(session[t].created)
        /\ \A g \in 0..1 : \A t \in maps[g] \ Cleared(gen)[g] : Gen(session[t].created) + 2 <= gen
    BY <2>1, ClearedMaps
  <2>4. /\ gen % 2 \in 0..1 /\ 1 - (gen % 2) \in 0..1 /\ gen % 2 # 1 - (gen % 2)
        /\ \A g \in 0..1 : g # gen % 2 => g = 1 - (gen % 2)
    BY <2>1
  <2>5. maps' = [g \in 0..1 |-> IF g = gen % 2 THEN Cleared(gen)[g] \cup {s} ELSE Cleared(gen)[g] \ {s}]
    <3> DEFINE M == Cleared(gen)
    <3>1. M \in [0..1 -> SUBSET States]
      BY <2>3
    <3> HIDE DEF M
    <3> QED  BY <2>2, <2>4, <3>1 DEF M
  <2>6. /\ maps' \in [0..1 -> SUBSET States]
        /\ \A g \in 0..1 : \A t \in maps'[g] :
             (t = s /\ g = gen % 2) \/ (t # s /\ t \in maps[g] /\ t \in Cleared(gen)[g])
        /\ s \in maps'[gen % 2]
        /\ \A g \in 0..1 : \A t \in maps[g] : t \in maps'[g] \/ Gen(session[t].created) + 2 <= gen
    <3>1. \A g \in 0..1 : s \notin maps[g]
      BY <1>4 DEF Stored
    <3>2. maps' \in [0..1 -> SUBSET States]
      BY <2>3, <2>5
    <3>3. \A g \in 0..1 : maps'[g] = IF g = gen % 2 THEN Cleared(gen)[g] \cup {s} ELSE Cleared(gen)[g] \ {s}
      BY <2>5
    <3>4. s \in maps'[gen % 2]
      BY <2>4, <3>3
    <3>5. \A g \in 0..1 : \A t \in maps[g] : t \in maps'[g] \/ t \notin Cleared(gen)[g]
      BY <3>1, <3>3
    <3>6. \A g \in 0..1 : \A t \in maps'[g] :
             (t = s /\ g = gen % 2) \/ (t # s /\ t \in maps[g] /\ t \in Cleared(gen)[g])
      BY <2>3, <3>1, <3>3
    <3>7. \A g \in 0..1 : \A t \in maps[g] : t \in maps'[g] \/ Gen(session[t].created) + 2 <= gen
      BY <2>3, <3>5
    <3> QED  BY <3>2, <3>4, <3>6, <3>7
  <2>7. SignInType'
    BY <1>2, <1>3, <2>1, <2>2, <2>6 DEF SignInType
  <2>8. MapsInv'
    <3>1. lastInsert' <= clock' /\ generation' = Gen(lastInsert')
      BY <1>2, <2>1, <2>2
    <3>2. \A t \in States : session'[t].kind # "none" => session'[t].created <= clock'
      BY <1>1, <1>2, <1>3 DEF MapsInv
    <3>3. ASSUME NEW g \in 0..1, NEW t \in maps'[g]
          PROVE  /\ Sent(t)' /\ session'[t].created <= lastInsert'
                 /\ Gen(session'[t].created) % 2 = g /\ generation' - 1 <= Gen(session'[t].created)
      <4>1. CASE t = s
        BY <1>3, <2>1, <2>2, <2>6, <4>1
      <4>2. CASE t # s
        <5>1. t \in States /\ t \in maps[g] /\ t \in Cleared(gen)[g] /\ session'[t] = session[t]
          BY <1>3, <2>6, <4>2 DEF SignInType
        <5>2. /\ Sent(t) /\ session[t].created <= lastInsert
              /\ Gen(session[t].created) % 2 = g /\ session[t].created \in Nat
          BY <5>1, PendingFacts DEF MapsInv, Sent
        <5> QED  BY <1>3, <1>6, <2>2, <2>3, <4>2, <5>1, <5>2 DEF SignInType
      <4> QED  BY <4>1, <4>2
    <3> QED  BY <3>1, <3>2, <3>3 DEF MapsInv
  <2>9. AcceptedInv'
    <3> SUFFICES ASSUME NEW t \in accepted'
                 PROVE  /\ Sent(t)' /\ session'[t].created <= lastInsert'
                        /\ t \in taken' \/ Stored(t)' \/ Gen(session'[t].created) + 2 <= generation'
      BY DEF AcceptedInv
    <3>1. CASE t = s
      BY <1>3, <2>2, <2>4, <2>6, <3>1 DEF Stored
    <3>2. CASE t # s
      <4>1. /\ t \in States /\ t \in accepted /\ session'[t] = session[t] /\ Sent(t)'
            /\ session[t].created <= lastInsert
            /\ t \in taken \/ Stored(t) \/ Gen(session[t].created) + 2 <= generation
        BY <1>3, <2>2, <3>2 DEF AcceptedInv, SignInType
      <4>2. session[t].created \in Nat /\ Gen(session[t].created) \in Nat
        BY <4>1, PendingFacts, GenRange DEF AcceptedInv, Sent
      <4>3. Stored(t) => Stored(t)' \/ Gen(session[t].created) + 2 <= gen
        BY <2>6 DEF Stored
      <4> QED  BY <1>2, <1>6, <2>1, <2>2, <4>1, <4>2, <4>3 DEF SignInType
    <3> QED  BY <3>1, <3>2
  <2>10. OnceInv'
    <3>1. \A t \in States \ {s} : Stored(t)' => Stored(t)
      BY <2>6 DEF Stored
    <3> QED  BY <1>2, <1>3, <3>1 DEF OnceInv, Redeeming
  <2> QED  BY <2>7, <2>8, <2>9, <2>10
<1> QED  BY <1>5, <1>6 DEF SignInType

\* The handler of an answer takes a state: nothing but that state leaves the maps.
LEMMA PopFacts ==
    ASSUME SignInInv, NEW s \in States, maps' = Pop(s)
    PROVE  /\ maps' \in [0..1 -> SUBSET States] /\ ~Stored(s)'
           /\ \A g \in 0..1 : maps'[g] \subseteq maps[g] /\ maps[g] \ {s} \subseteq maps'[g]
<1>1. s \notin maps[0] \/ s \notin maps[1]
  BY 0 \in 0..1, 1 \in 0..1 DEF SignInInv, MapsInv
<1> QED  BY <1>1 DEF Pop, Stored, SignInInv, SignInType

LEMMA PopSteps ==
    ASSUME SignInInv, NEW x \in Answers, PopCallback(x) \/ PopExternal(x)
    PROVE  SignInInv'
<1> USE DEF SignInInv
<1>1. PICK s \in States : s = answer[x].state
  BY PendingFacts DEF PopCallback, PopExternal
<1>2. /\ maps' = Pop(s) /\ taken' = IF Stored(s) THEN taken \cup {s} ELSE taken
      /\ UNCHANGED <<generation, lastInsert, session, clock, accepted, redeemed>>
  BY <1>1 DEF PopCallback, PopExternal
<1>3. PICK a \in AnswerStates :
        /\ answer' = [answer EXCEPT ![x] = a]
        /\ a.at = "none" \/ (Stored(s) /\ a.state = s)
  <2>1. CASE answer' = [answer EXCEPT ![x] = NoAnswer]
    <3>1. NoAnswer \in AnswerStates /\ NoAnswer.at = "none"
      BY DEF AnswerStates, NoAnswer
    <3> QED  BY <2>1, <3>1
  <2>2. ASSUME NEW at \in {"elevate", "create", "exchange"}, Stored(s),
               answer' = [answer EXCEPT ![x] = [answer[x] EXCEPT !.at = at]]
        PROVE  \E a \in AnswerStates : /\ answer' = [answer EXCEPT ![x] = a]
                                       /\ a.at = "none" \/ (Stored(s) /\ a.state = s)
    <3> DEFINE a == [answer[x] EXCEPT !.at = at]
    <3>1. a \in AnswerStates /\ a.state = s
      BY <1>1, PendingFacts DEF AnswerStates, PopCallback, PopExternal
    <3> QED  BY <2>2, <3>1
  <2>3. CASE PopCallback(x) /\ Usable(s)
    <3>1. /\ Stored(s)
          /\ \/ answer' = [answer EXCEPT ![x] = [answer[x] EXCEPT !.at = "elevate"]]
             \/ answer' = [answer EXCEPT ![x] = [answer[x] EXCEPT !.at = "create"]]
      BY <1>1, <2>3 DEF PopCallback, Usable, SignInType
    <3> QED  BY <2>2, <3>1
  <2>4. CASE PopExternal(x) /\ Usable(s)
    <3>1. Stored(s) /\ answer' = [answer EXCEPT ![x] = [answer[x] EXCEPT !.at = "exchange"]]
      BY <1>1, <2>4 DEF PopExternal, Usable, SignInType
    <3> QED  BY <2>2, <3>1
  <2>5. CASE ~Usable(s)
    <3>1. answer' = [answer EXCEPT ![x] = NoAnswer]
      BY <1>1, <2>5 DEF PopCallback, PopExternal
    <3> QED  BY <2>1, <3>1
  <2> QED  BY <2>3, <2>4, <2>5
<1>4. /\ answer' \in [Answers -> AnswerStates] /\ answer'[x] = a
      /\ \A y \in Answers \ {x} : answer'[y] = answer[y]
  BY <1>3, AnswerMoves
<1>5. /\ maps' \in [0..1 -> SUBSET States] /\ ~Stored(s)'
      /\ \A g \in 0..1 : maps'[g] \subseteq maps[g] /\ maps[g] \ {s} \subseteq maps'[g]
  BY <1>2, PopFacts
<1>6. SignInType'
  BY <1>2, <1>4, <1>5 DEF SignInType
<1>7. MapsInv'
  BY <1>2, <1>5 DEF MapsInv, Sent
<1>8. \A t \in States \ {s} : Stored(t)' <=> Stored(t)
  BY <1>5, 0 \in 0..1, 1 \in 0..1 DEF Stored
<1>9. AcceptedInv'
  BY <1>2, <1>8 DEF AcceptedInv, Sent, SignInType
<1>10. OnceInv'
  <2>1. \A t \in States \ {s}, y \in Answers : Redeeming(y, t)' => Redeeming(y, t)
    BY <1>3, <1>4 DEF Redeeming
  <2>2. \A y \in Answers \ {x} : Redeeming(y, s)' => Redeeming(y, s)
    BY <1>4 DEF Redeeming
  <2>3. \A t \in States : Redeeming(x, t)' => t = s /\ Stored(s)
    BY <1>3, <1>4 DEF Redeeming
  <2>4. Stored(s) => Sent(s)
    BY 0 \in 0..1, 1 \in 0..1 DEF Stored, MapsInv
  <2>5. \A t \in States : Sent(t)' = Sent(t) /\ redeemed'[t] = redeemed[t]
    BY <1>2 DEF Sent
  <2> SUFFICES ASSUME NEW t \in States
               PROVE  /\ ~Sent(t)' \/ Stored(t)' => redeemed'[t] = 0 /\ \A y \in Answers : ~Redeeming(y, t)'
                      /\ redeemed'[t] <= 1
                      /\ redeemed'[t] = 1 => \A y \in Answers : ~Redeeming(y, t)'
                      /\ \A y, z \in Answers : Redeeming(y, t)' /\ Redeeming(z, t)' => y = z
    BY DEF OnceInv
  <2>6. CASE t # s
    BY <1>8, <2>1, <2>5, <2>6 DEF OnceInv
  <2>7. CASE t = s /\ Stored(s)
    BY <1>5, <2>2, <2>4, <2>5, <2>7 DEF OnceInv
  <2>8. CASE t = s /\ ~Stored(s)
    BY <1>5, <2>2, <2>3, <2>5, <2>8 DEF OnceInv
  <2> QED  BY <2>6, <2>7, <2>8
<1> QED  BY <1>6, <1>7, <1>9, <1>10

LEMMA HandlerSteps ==
    ASSUME SignInInv, NEW x \in Answers,
           \/ ResolveFirst(x) \/ ExchangeAndResolve(x) \/ Refused(x)
           \/ OpenSession(x) \/ handleElevationCallback(x)
           \/ \E s \in States, how \in {"callback", "token"} : ProviderAnswers(x, s, how)
    PROVE  SignInInv'
<1> USE DEF SignInInv
<1>1. UNCHANGED <<maps, generation, lastInsert, session, clock, accepted, taken>>
  BY DEF ResolveFirst, ExchangeAndResolve, Refused, OpenSession, handleElevationCallback, ProviderAnswers
<1>2. MapsInv' /\ AcceptedInv'
  BY <1>1 DEF MapsInv, AcceptedInv, Sent, Stored
<1>3. ASSUME NEW a \in AnswerStates, answer' = [answer EXCEPT ![x] = a], redeemed' = redeemed,
             \A s \in States : a.at \in {"create", "elevate", "exchange"} /\ a.state = s => Redeeming(x, s)
      PROVE  SignInInv'
  <2>1. /\ answer' \in [Answers -> AnswerStates] /\ answer'[x] = a
        /\ \A y \in Answers \ {x} : answer'[y] = answer[y]
    BY <1>3, AnswerMoves
  <2>2. \A y \in Answers, t \in States : Redeeming(y, t)' => Redeeming(y, t)
    BY <1>3, <2>1 DEF Redeeming
  <2>3. SignInType'
    BY <1>1, <1>3, <2>1 DEF SignInType
  <2>4. OnceInv'
    BY <1>1, <1>3, <2>2 DEF OnceInv, Sent, Stored
  <2> QED  BY <1>2, <2>3, <2>4
<1>4. CASE Refused(x)
  <2>1. NoAnswer \in AnswerStates /\ NoAnswer.at = "none"
    BY DEF AnswerStates, NoAnswer
  <2>2. answer' = [answer EXCEPT ![x] = NoAnswer] /\ redeemed' = redeemed
    BY <1>4 DEF Refused
  <2> QED  BY <1>3, <2>1, <2>2
<1>5. CASE ResolveFirst(x)
  <2> DEFINE a == [answer[x] EXCEPT !.at = "pop"]
  <2>1. a \in AnswerStates /\ a.at = "pop"
    BY <1>5, PendingFacts DEF ResolveFirst, AnswerStates
  <2>2. answer' = [answer EXCEPT ![x] = a] /\ redeemed' = redeemed
    BY <1>5 DEF ResolveFirst, SignInType
  <2> HIDE DEF a
  <2> QED  BY <1>3, <2>1, <2>2
<1>6. CASE ExchangeAndResolve(x)
  <2> DEFINE a == [answer[x] EXCEPT !.at = "create"]
  <2>1. a \in AnswerStates /\ a.at = "create" /\ a.state = answer[x].state
    BY <1>6, PendingFacts DEF ExchangeAndResolve, AnswerStates
  <2>2. answer' = [answer EXCEPT ![x] = a] /\ redeemed' = redeemed /\ answer[x].at = "exchange"
    BY <1>6 DEF ExchangeAndResolve, SignInType
  <2> HIDE DEF a
  <2> QED  BY <1>3, <2>1, <2>2 DEF Redeeming
<1>7. ASSUME NEW s \in States, NEW how \in {"callback", "token"}, ProviderAnswers(x, s, how)
      PROVE  SignInInv'
  <2> DEFINE a == [at |-> how, state |-> s]
  <2>1. a \in AnswerStates /\ a.at = how
    BY DEF AnswerStates
  <2>2. answer' = [answer EXCEPT ![x] = a] /\ redeemed' = redeemed
    BY <1>7 DEF ProviderAnswers
  <2> HIDE DEF a
  <2> QED  BY <1>3, <2>1, <2>2
<1>8. CASE OpenSession(x) \/ handleElevationCallback(x)
  <2>1. PICK s \in States : s = answer[x].state
    BY <1>8, PendingFacts DEF OpenSession, handleElevationCallback
  <2>2. /\ redeemed' = [redeemed EXCEPT ![s] = redeemed[s] + 1]
        /\ answer' = [answer EXCEPT ![x] = NoAnswer] /\ NoAnswer \in AnswerStates /\ NoAnswer.at = "none"
        /\ Redeeming(x, s)
    BY <1>8, <2>1 DEF OpenSession, handleElevationCallback, AnswerStates, NoAnswer, Redeeming
  <2>3. /\ answer' \in [Answers -> AnswerStates] /\ answer'[x] = NoAnswer
        /\ \A y \in Answers \ {x} : answer'[y] = answer[y]
    BY <2>2, AnswerMoves
  <2>4. redeemed[s] = 0 /\ Sent(s) /\ ~Stored(s) /\ \A y \in Answers \ {x} : ~Redeeming(y, s)
    BY <2>2 DEF OnceInv, SignInType
  <2>5. /\ redeemed' \in [States -> Nat] /\ redeemed'[s] = 1
        /\ \A t \in States \ {s} : redeemed'[t] = redeemed[t]
    BY <2>2, <2>4 DEF SignInType
  <2>6. SignInType'
    BY <1>1, <2>3, <2>5 DEF SignInType
  <2>7. \A y \in Answers : (\A t \in States : Redeeming(y, t)' => Redeeming(y, t)) /\ ~Redeeming(y, s)'
    BY <2>2, <2>3, <2>4 DEF Redeeming
  <2>8. OnceInv'
    BY <1>1, <2>4, <2>5, <2>7 DEF OnceInv, Sent, Stored
  <2> QED  BY <1>2, <2>6, <2>8
<1> QED  BY <1>4, <1>5, <1>6, <1>7, <1>8

LEMMA SignInInvariance == SignInSpec => []SignInInv
<1>1. SignInInv /\ [SignInNext]_signInVars => SignInInv'
  <2> SUFFICES ASSUME SignInInv, [SignInNext]_signInVars PROVE SignInInv'
    OBVIOUS
  <2>1. CASE UNCHANGED signInVars
    BY <2>1 DEF signInVars, SignInInv, SignInType, MapsInv, AcceptedInv, OnceInv, Sent, Stored, Redeeming
  <2>2. CASE ClockTicks
    BY <2>2 DEF ClockTicks, SignInInv, SignInType, MapsInv, AcceptedInv, OnceInv, Sent, Stored, Redeeming,
                PendingSessions, NoSession
  <2> QED  BY <2>1, <2>2, StartStep, SetStep, PopSteps, HandlerSteps DEF SignInNext
<1> QED  BY SignInInitially, <1>1, PTL DEF SignInSpec

\* A pending sign-in is there for a whole period and gone after two, and opens
\* or elevates at most one session (decaymap.go, api/oidc.go).
THEOREM PendingSignIns == SignInSpec => []PendingSound
<1>1. SignInInv => PendingWindow
  <2> SUFFICES ASSUME SignInInv PROVE PendingWindow
    OBVIOUS
  <2>1. Period \in Nat /\ lastInsert \in Nat /\ clock \in Nat /\ lastInsert <= clock
        /\ generation = Gen(lastInsert) /\ generation \in Nat
    BY SignInAssumption DEF SignInInv, SignInType, MapsInv
  <2>2. ASSUME NEW s \in accepted, ~Stored(s), s \notin taken
        PROVE  clock - session[s].created >= Period
    <3>1. s \in States /\ session[s].kind # "none" /\ Gen(session[s].created) + 2 <= Gen(lastInsert)
      BY <2>1, <2>2 DEF SignInInv, AcceptedInv, SignInType, Sent
    <3>2. session[s].created \in Nat
      BY <3>1, PendingFacts DEF SignInInv
    <3>3. lastInsert - session[s].created >= Period
      BY <2>1, <3>1, <3>2, GenOrder
    <3> QED  BY <2>1, <3>2, <3>3
  <2>3. ASSUME NEW s \in States, Stored(s)
        PROVE  lastInsert - session[s].created < 2 * Period
    <3>1. session[s].kind # "none" /\ generation - 1 <= Gen(session[s].created)
      BY <2>3, 0 \in 0..1, 1 \in 0..1 DEF SignInInv, MapsInv, Stored, Sent
    <3>2. session[s].created \in Nat
      BY <3>1, PendingFacts DEF SignInInv
    <3>3. Gen(lastInsert) <= Gen(session[s].created) + 1
      BY <2>1, <3>1, <3>2, GenRange
    <3> QED  BY <2>1, <3>2, <3>3, GenOrder
  <2> QED  BY <2>2, <2>3 DEF PendingWindow
<1>2. SignInInv => RedeemedOnce
  <2> SUFFICES ASSUME SignInInv, NEW s \in States
               PROVE  redeemed[s] + Cardinality({x \in Answers : Redeeming(x, s)}) <= 1
    BY DEF RedeemedOnce, Redeeming
  <2> DEFINE H == {x \in Answers : Redeeming(x, s)}
  <2>1. redeemed[s] \in Nat
    BY DEF SignInInv, SignInType
  <2>2. CASE H = {}
    BY <2>1, <2>2, FS_EmptySet DEF SignInInv, OnceInv
  <2>3. CASE H # {}
    <3>1. PICK x \in Answers : Redeeming(x, s)
      BY <2>3
    <3>2. H = {x} /\ redeemed[s] = 0
      BY <2>1, <3>1 DEF SignInInv, OnceInv
    <3>3. Cardinality(H) = 1
      BY <3>2, FS_Singleton
    <3> QED  BY <3>2, <3>3
  <2> QED  BY <2>2, <2>3
<1> QED  BY <1>1, <1>2, SignInInvariance, PTL DEF PendingSound
=============================================================================
