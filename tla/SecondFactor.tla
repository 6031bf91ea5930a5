---------------------------- MODULE SecondFactor ----------------------------
(***************************************************************************)
(* The second factors of one user: the MFA row (authenticator secret and   *)
(* recovery codes: api/mfa.go, database/mfa.go) and passkeys with their    *)
(* one-time challenges (api/passkey.go, database/passkey.go).              *)
(*                                                                         *)
(* Every handler reads a row, decides, and writes the whole row back; none *)
(* of them does so in a transaction.  A job is one request between its     *)
(* reads and its writes.  An authenticator code is right or wrong, a       *)
(* signature is valid or not: a wrong one ends the request.                *)
(***************************************************************************)
EXTENDS Integers, FiniteSets

CONSTANTS Codes, Challenges, Jobs,
          BatchSize, \* recovery codes made at a time
          MaxJobs    \* bound: requests

ASSUME SecondFactorAssumption ==
  /\ IsFiniteSet(Codes)
  /\ BatchSize \in 1..Cardinality(Codes)
  /\ MaxJobs \in Nat

VARIABLES
  mfa,        \* the user_mfa row, or NoMFA
  fresh,      \* recovery codes not generated yet
  challenge,  \* the webauthn_challenges row of each challenge: its purpose or "none"
  passkey,    \* the credential is registered
  job, jobs,
  spent,      \* history: recovery codes a request was let in with
  restored,   \* history: codes put back by a save of an older row, or read before that
  used,       \* history: how often a challenge was answered
  doubled     \* history: challenges read by a second request, or not deleted, after an answer

factorVars == <<mfa, fresh, challenge, passkey, job, jobs, spent, restored, used, doubled>>

NoMFA == [enabled |-> FALSE, stored |-> FALSE, codes |-> {}]
Idle == [op |-> "none"]

FactorInit ==
  /\ mfa = NoMFA
  /\ fresh = Codes
  /\ challenge = [c \in Challenges |-> "new"]
  /\ passkey = FALSE
  /\ job = [j \in Jobs |-> Idle] /\ jobs = 0
  /\ spent = {} /\ restored = {}
  /\ used = [c \in Challenges |-> 0] /\ doubled = {}

Take(j, record) ==
  /\ job[j] = Idle
  /\ jobs < MaxJobs
  /\ jobs' = jobs + 1
  /\ job' = [job EXCEPT ![j] = record]

Leave(j) == job' = [job EXCEPT ![j] = Idle]

passkeyVars == <<challenge, passkey, used, doubled>>
mfaVars == <<mfa, fresh, spent, restored>>

(* A batch of recovery codes nobody has seen *)
Batches == {b \in SUBSET fresh : Cardinality(b) = BatchSize}

(* History: the codes that a save of row brings back *)
Restores(row) == restored \cup (row.codes \ mfa.codes)

-----------------------------------------------------------------------------
(* Setup: a new secret and new codes, not enabled yet, over whatever row   *)
Setup(j) ==
  /\ job[j] = Idle
  /\ jobs < MaxJobs
  /\ jobs' = jobs + 1
  /\ \E b \in Batches :
       /\ mfa' = [enabled |-> FALSE, stored |-> TRUE, codes |-> b]
       /\ fresh' = fresh \ b
  /\ UNCHANGED <<job, spent, restored, passkeyVars>>

(* Enable reads the row, checks an authenticator code and saves the row *)
EnableMFA(j) ==
  /\ mfa.stored
  /\ Take(j, [op |-> "save", row |-> [mfa EXCEPT !.enabled = TRUE]])
  /\ UNCHANGED <<mfaVars, passkeyVars>>

(* RegenerateRecoveryCodes *)
RegenerateRecoveryCodes(j) ==
  /\ mfa.enabled
  /\ \E b \in Batches :
       /\ Take(j, [op |-> "save", row |-> [mfa EXCEPT !.codes = b]])
       /\ fresh' = fresh \ b
  /\ UNCHANGED <<mfa, spent, restored, passkeyVars>>

SaveUserMFA(j) ==
  /\ job[j].op = "save"
  /\ mfa' = job[j].row
  /\ restored' = Restores(job[j].row)
  /\ Leave(j)
  /\ UNCHANGED <<fresh, jobs, spent, passkeyVars>>

\* Mutant: the code stays in the row.
KeepsCode(c) == mfa

(* ConsumeRecoveryCode of a sign-in, of basic authentication and of        *)
(* Disable: the code is in the row that is read, ...                       *)
WithoutCode(c) == [mfa EXCEPT !.codes = @ \ {c}]

ConsumeRecoveryCode(j, c, why) ==
  /\ mfa.enabled /\ c \in mfa.codes
  /\ Take(j, [op |-> "consume", code |-> c, row |-> WithoutCode(c), why |-> why])
  /\ restored' = IF \E i \in Jobs : job[i].op = "consume" /\ job[i].code = c
                 THEN restored \cup {c} ELSE restored
  /\ UNCHANGED <<mfa, fresh, spent, passkeyVars>>

(* ... and the row is saved without it: the request is let in, and Disable *)
(* goes on to delete the row                                               *)
SaveConsumed(j) ==
  /\ job[j].op = "consume"
  /\ mfa' = job[j].row
  /\ restored' = Restores(job[j].row)
  /\ spent' = spent \cup {job[j].code}
  /\ job' = [job EXCEPT ![j] = IF job[j].why = "disable" THEN [op |-> "delete"] ELSE Idle]
  /\ UNCHANGED <<fresh, jobs, passkeyVars>>

(* Disable with an authenticator code *)
DisableMFA(j) ==
  /\ mfa.enabled
  /\ Take(j, [op |-> "delete"])
  /\ UNCHANGED <<mfaVars, passkeyVars>>

DeleteUserMFA(j) ==
  /\ job[j].op = "delete"
  /\ mfa' = NoMFA
  /\ Leave(j)
  /\ UNCHANGED <<fresh, jobs, spent, restored, passkeyVars>>

-----------------------------------------------------------------------------
(* LoginOptions and ElevationOptions need a passkey, RegistrationOptions   *)
(* does not; each stores a new challenge for its purpose                   *)
SaveWebAuthnChallenge(c, purpose) ==
  /\ challenge[c] = "new"
  /\ purpose \in {"login", "elevate"} => passkey
  /\ challenge' = [challenge EXCEPT ![c] = purpose]
  /\ UNCHANGED <<mfaVars, passkey, job, jobs, used, doubled>>

(* CleanupWebAuthnChallenges, and the expiry that GetWebAuthnChallenge checks *)
ChallengeExpires(c) ==
  /\ challenge[c] \in {"login", "elevate", "register"}
  /\ challenge' = [challenge EXCEPT ![c] = "none"]
  /\ UNCHANGED <<mfaVars, passkey, job, jobs, used, doubled>>

(* History: another request has the challenge and has not deleted it *)
ReadTwice(c) == \E i \in Jobs : "challenge" \in DOMAIN job[i] /\ job[i].challenge = c

(* verifyAssertion (and the checks of RegistrationVerify): the challenge   *)
(* is there and for this purpose, the credential is registered (or is not) *)
verifyAssertion(j, c) ==
  /\ challenge[c] \in {"login", "elevate", "register"}
  /\ challenge[c] = "register" <=> ~passkey
  /\ Take(j, [op |-> "answer", challenge |-> c, purpose |-> challenge[c]])
  /\ doubled' = IF ReadTwice(c) THEN doubled \cup {c} ELSE doubled
  /\ UNCHANGED <<mfaVars, challenge, passkey, used>>

(* LoginVerify, ElevationVerify, RegistrationVerify save the credential,   *)
(* which inserts one deleted meanwhile (the elevation is written first and *)
(* does not depend on it), ...                                             *)
SavePasskey(j) ==
  /\ job[j].op = "answer"
  /\ passkey' = TRUE
  /\ used' = [used EXCEPT ![job[j].challenge] = @ + 1]
  /\ job' = [job EXCEPT ![j].op = "forget"]
  /\ UNCHANGED <<mfaVars, challenge, jobs, doubled>>

(* ... and delete the challenge; an error of the deletion is ignored       *)
DeleteWebAuthnChallenge(j) ==
  /\ job[j].op = "forget"
  /\ challenge' = [challenge EXCEPT ![job[j].challenge] = "none"]
  /\ Leave(j)
  /\ UNCHANGED <<mfaVars, passkey, jobs, used, doubled>>

ForgetFails(j) ==
  /\ job[j].op = "forget"
  /\ doubled' = doubled \cup {job[j].challenge}
  /\ Leave(j)
  /\ UNCHANGED <<mfaVars, challenge, passkey, jobs, used>>

(* Delete of a passkey *)
DeletePasskey ==
  /\ passkey
  /\ passkey' = FALSE
  /\ UNCHANGED <<mfaVars, challenge, job, jobs, used, doubled>>

FactorNext ==
  \/ DeletePasskey
  \/ \E c \in Challenges : ChallengeExpires(c)
       \/ \E purpose \in {"login", "elevate", "register"} : SaveWebAuthnChallenge(c, purpose)
  \/ \E j \in Jobs :
       \/ Setup(j) \/ EnableMFA(j) \/ RegenerateRecoveryCodes(j) \/ SaveUserMFA(j)
       \/ SaveConsumed(j) \/ DisableMFA(j) \/ DeleteUserMFA(j)
       \/ SavePasskey(j) \/ DeleteWebAuthnChallenge(j) \/ ForgetFails(j)
       \/ \E c \in Codes, why \in {"login", "disable"} : ConsumeRecoveryCode(j, c, why)
       \/ \E c \in Challenges : verifyAssertion(j, c)

FactorSpec == FactorInit /\ [][FactorNext]_factorVars

-----------------------------------------------------------------------------
(* A recovery code a request was let in with is gone from the row, and     *)
(* stays gone whatever is set up, regenerated or disabled later; only a    *)
(* request that read the row before it was spent can bring it back.        *)
CodeSpent == \A c \in spent : c \notin mfa.codes \/ c \in restored

(* A passkey challenge is answered once, unless two requests had read it   *)
(* before either deleted it or its deletion failed unnoticed.              *)
ChallengeOnce == \A c \in Challenges : used[c] <= 1 \/ c \in doubled

(* What is used up stays used up (api/mfa.go, api/passkey.go).             *)
SpentOnce == CodeSpent /\ ChallengeOnce
=============================================================================
