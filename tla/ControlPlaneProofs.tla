------------------------- MODULE ControlPlaneProofs -------------------------
(***************************************************************************)
(* Proofs about registration and about the scheduler.                      *)
(* An account was allowed by a policy in force since its request, and an   *)
(* invite makes one account. The invariant says that a registration under  *)
(* way holds such a policy, and that the invite of an account names the    *)
(* account.                                                                *)
(* SchedulesSound holds for any tasks, schedules, loops and callers. The   *)
(* invariant says what a pass that is under way may rely on although its   *)
(* list is old: the tasks on it are distinct and were created, unless      *)
(* passes overlapped they are still due, and who was under way when a task *)
(* was deleted is remembered with the task.                                *)
(***************************************************************************)
EXTENDS Accounts, TaskScheduler, SequenceTheorems, FiniteSetTheorems, NaturalsInduction,
        WellFoundedInduction, TLAPS

PolicyType == [allow : BOOLEAN, invite : BOOLEAN]
InviteType == [role : {"member", "admin"}, usedBy : Usernames \cup {NoCode}]
AccountType == [role : {"member", "admin", "owner"}, was : {"member", "admin"},
                call : Registrations, code : Codes \cup {NoCode}]
UnderWayReg == [at : {"policy", "register", "home", "200", "400", "403", "409", "500"},
                name : Usernames, code : Codes \cup {NoCode}, from : Nat, policy : PolicyType]

AccountsTypes ==
  /\ accounts \in [DOMAIN accounts -> AccountType] /\ DOMAIN accounts \subseteq Usernames
  /\ invites \in [DOMAIN invites -> InviteType] /\ DOMAIN invites \subseteq Codes
  /\ policies \in Seq(PolicyType) /\ Len(policies) > 0
  /\ regs \in [Registrations -> [at : {"new"}] \cup UnderWayReg]

\* Registration c can point to a policy between its request and now that is p.
InForceSince(c, p) == \E i \in 1 .. Len(policies) : i >= regs[c].from /\ policies[i] = p

\* A registration holds a policy that was in force since its request.
PolicyHeld ==
  \A c \in Registrations : regs[c].at # "new" =>
    regs[c].from >= 1 /\ InForceSince(c, regs[c].policy)

\* An account was made by a registration that is past that point, with a policy that
\* allowed it.
AccountAllowed(n) ==
  LET c == accounts[n].call IN
  /\ regs[c].at \notin {"new", "policy", "register"}
  /\ \E p \in PolicyType : /\ p.allow /\ (p.invite => accounts[n].code # NoCode)
                           /\ InForceSince(c, p)

\* The invite an account was made with says so, or never will say anything again: no other
\* account was made with it.
AccountInvited(n) ==
  accounts[n].code # NoCode =>
    /\ accounts[n].code \in DOMAIN invites
    /\ invites[accounts[n].code].role = accounts[n].was
    /\ invites[accounts[n].code].usedBy = n \/ Lapsed(n)
    /\ \A k \in DOMAIN accounts \ {n} : accounts[k].code # accounts[n].code

AccountsInv ==
  /\ AccountsTypes /\ PolicyHeld
  /\ \A n \in DOMAIN accounts : AccountAllowed(n) /\ AccountInvited(n)

\* No account and no call under way to begin with
LEMMA InitAccounts == AccountsInit => AccountsInv
<1> SUFFICES ASSUME AccountsInit PROVE AccountsInv
  OBVIOUS
<1>1. DOMAIN accounts = {} /\ accounts \in [{} -> AccountType]
  BY DEF AccountsInit
<1>2. DOMAIN invites = {} /\ invites \in [{} -> InviteType]
  BY DEF AccountsInit
<1>3. policies \in Seq(PolicyType) /\ Len(policies) = 1
  <2>1. policies \in [1..1 -> PolicyType]
    BY DEF AccountsInit, PolicyType
  <2> QED BY <2>1, SeqDef, LenProperties
<1>4. regs \in [Registrations -> [at : {"new"}]] /\ \A c \in Registrations : regs[c].at = "new"
  BY DEF AccountsInit
<1>5. AccountsTypes
  BY <1>1, <1>2, <1>3, <1>4 DEF AccountsTypes
<1> QED BY <1>1, <1>4, <1>5 DEF AccountsInv, PolicyHeld

-----------------------------------------------------------------------------
\* The record of a registration that has begun
LEMMA BegunReg ==
  ASSUME AccountsTypes, NEW c \in Registrations, regs[c].at # "new"
  PROVE  regs[c] \in UnderWayReg /\ regs[c].from \in Nat
<1>1. regs[c] \in [at : {"new"}] \cup UnderWayReg
  BY DEF AccountsTypes
<1>2. ASSUME regs[c] \in [at : {"new"}] PROVE FALSE
  BY <1>2
<1>3. regs[c] \in UnderWayReg
  BY <1>1, <1>2
<1> QED BY <1>3 DEF UnderWayReg

\* Policies are only appended: what was in force since a request stays so.
LEMMA StillInForce ==
  ASSUME AccountsTypes, NEW c \in Registrations, NEW p, InForceSince(c, p), regs'[c].from = regs[c].from,
         \/ policies' = policies
         \/ \E q \in PolicyType : policies' = Append(policies, q)
  PROVE  InForceSince(c, p)'
<1>1. PICK i \in 1 .. Len(policies) : i >= regs[c].from /\ policies[i] = p
  BY DEF InForceSince
<1>2. policies \in Seq(PolicyType)
  BY DEF AccountsTypes
<1>3. i \in 1 .. Len(policies') /\ policies'[i] = policies[i]
  BY <1>1, <1>2
<1> QED BY <1>1, <1>3 DEF InForceSince

\* The policy now has been in force since any request that was made.
LEMMA NowInForce ==
  ASSUME AccountsTypes, NEW c \in Registrations, regs[c].from \in Nat, regs[c].from <= Len(policies)
  PROVE  InForceSince(c, Policy) /\ Policy \in PolicyType
<1>1. policies \in Seq(PolicyType) /\ Len(policies) \in 1 .. Len(policies) /\ policies[Len(policies)] \in PolicyType
  BY DEF AccountsTypes
<1> QED BY <1>1 DEF InForceSince, Policy

\* A step of one registration that makes no account
LEMMA RegStepKeeps ==
  ASSUME AccountsInv, AccountsTypes', NEW c \in Registrations,
         UNCHANGED <<accounts, invites, expired, policies>>, regs[c].at # "400",
         \A d \in Registrations \ {c} : regs'[d] = regs[d],
         regs[c].at = "new" \/ regs'[c].from = regs[c].from,
         regs[c].at \in {"new", "policy", "register"} \/ regs'[c].at \notin {"new", "policy", "register"},
         InForceSince(c, regs[c].policy)' /\ regs'[c].from >= 1
  PROVE  AccountsInv'
<1> USE DEF AccountsInv
<1>1. PolicyHeld'
  <2> SUFFICES ASSUME NEW d \in Registrations, regs'[d].at # "new"
               PROVE  regs'[d].from >= 1 /\ InForceSince(d, regs[d].policy)'
    BY DEF PolicyHeld
  <2>1. CASE d = c
    BY <2>1
  <2>2. CASE d # c
    BY <2>2, StillInForce DEF PolicyHeld
  <2> QED BY <2>1, <2>2
<1>2. ASSUME NEW n \in DOMAIN accounts PROVE AccountAllowed(n)'
  <2>1. accounts[n].call \in Registrations /\ AccountAllowed(n)
    BY DEF AccountsTypes, AccountType
  <2> DEFINE d == accounts[n].call
  <2>2. d # c => regs'[d] = regs[d]
    BY <2>1
  <2>3. regs'[d].from = regs[d].from /\ regs'[d].at \notin {"new", "policy", "register"}
    BY <2>1, <2>2 DEF AccountAllowed
  <2>4. PICK p \in PolicyType : p.allow /\ (p.invite => accounts[n].code # NoCode) /\ InForceSince(d, p)
    BY <2>1 DEF AccountAllowed
  <2>5. InForceSince(d, p)'
    BY <2>1, <2>3, <2>4, StillInForce
  <2> QED BY <2>3, <2>4, <2>5 DEF AccountAllowed
<1>3. ASSUME NEW n \in DOMAIN accounts PROVE AccountInvited(n)'
  <2>1. accounts[n].call \in Registrations /\ AccountInvited(n)
    BY DEF AccountsTypes, AccountType
  <2>2. Lapsed(n) => Lapsed(n)'
    BY <2>1 DEF Lapsed
  <2> QED BY <2>1, <2>2 DEF AccountInvited
<1> QED BY <1>1, <1>2, <1>3

\* A new policy is put after those that were in force.
LEMMA SetPolicyAccounts ==
  ASSUME AccountsInv, NEW p \in PolicyType, SetPolicy(p)
  PROVE  AccountsInv'
<1> USE DEF AccountsInv
<1>1. policies' = Append(policies, p) /\ UNCHANGED <<accounts, invites, expired, regs>>
  BY DEF SetPolicy
<1>2. policies' \in Seq(PolicyType) /\ Len(policies') > 0
  BY <1>1 DEF AccountsTypes
<1>3. AccountsTypes'
  BY <1>1, <1>2 DEF AccountsTypes
<1>4. PolicyHeld'
  BY <1>1, StillInForce DEF PolicyHeld
<1>5. ASSUME NEW n \in DOMAIN accounts PROVE AccountAllowed(n)'
  <2>1. accounts[n].call \in Registrations /\ AccountAllowed(n)
    BY DEF AccountsTypes, AccountType
  <2>2. PICK q \in PolicyType : /\ q.allow /\ (q.invite => accounts[n].code # NoCode)
                                /\ InForceSince(accounts[n].call, q)
    BY <2>1 DEF AccountAllowed
  <2>3. InForceSince(accounts[n].call, q)'
    BY <1>1, <2>1, <2>2, StillInForce
  <2> QED BY <1>1, <2>1, <2>2, <2>3 DEF AccountAllowed
<1>6. \A n \in DOMAIN accounts : AccountInvited(n)'
  BY <1>1 DEF AccountInvited, Lapsed
<1> QED BY <1>1, <1>3, <1>4, <1>5, <1>6

\* A step that changes the tables but no registration and no policy
LEMMA TableStepKeeps ==
  ASSUME AccountsInv, AccountsTypes', UNCHANGED <<policies, regs>>,
         DOMAIN accounts' = DOMAIN accounts,
         \A n \in DOMAIN accounts : /\ accounts'[n].call = accounts[n].call
                                    /\ accounts'[n].code = accounts[n].code
                                    /\ accounts'[n].was = accounts[n].was,
         \A k \in DOMAIN invites : k \in DOMAIN invites' /\ invites'[k] = invites[k],
         expired \subseteq expired'
  PROVE  AccountsInv'
<1> USE DEF AccountsInv
<1>1. PolicyHeld'
  BY DEF PolicyHeld, InForceSince
<1>2. ASSUME NEW n \in DOMAIN accounts PROVE AccountAllowed(n)' /\ AccountInvited(n)'
  <2>1. AccountAllowed(n) /\ AccountInvited(n)
    OBVIOUS
  <2>2. AccountAllowed(n)'
    BY <2>1 DEF AccountAllowed, InForceSince
  <2>3. AccountInvited(n)'
    BY <2>1 DEF AccountInvited, Lapsed
  <2> QED BY <2>2, <2>3
<1> QED BY <1>1, <1>2

\* A new invite makes no account, and the others stay.
LEMMA CreateInviteCodeAccounts ==
  ASSUME AccountsInv, NEW code \in Codes, NEW role \in {"member", "admin"}, CreateInviteCode(code, role)
  PROVE  AccountsInv'
<1>1. /\ code \notin DOMAIN invites
      /\ invites' = [k \in DOMAIN invites \cup {code} |-> IF k = code THEN NewInvite(role) ELSE invites[k]]
      /\ UNCHANGED <<accounts, expired, policies, regs>>
  BY DEF CreateInviteCode
<1>2. NewInvite(role) \in InviteType
  BY DEF NewInvite, InviteType
<1>3. DOMAIN invites' = DOMAIN invites \cup {code} /\ \A k \in DOMAIN invites : invites'[k] = invites[k]
  BY <1>1
<1>4. invites' \in [DOMAIN invites' -> InviteType] /\ DOMAIN invites' \subseteq Codes
  BY <1>1, <1>2, <1>3 DEF AccountsInv, AccountsTypes
<1>5. AccountsTypes'
  BY <1>1, <1>4 DEF AccountsInv, AccountsTypes
<1> QED BY <1>1, <1>3, <1>5, TableStepKeeps

\* The role an account was made with is not the one it has now.
LEMMA UpdateUserAccounts ==
  ASSUME AccountsInv, NEW name \in Usernames, NEW role \in {"member", "owner"}, UpdateUser(name, role)
  PROVE  AccountsInv'
<1>1. /\ name \in DOMAIN accounts /\ accounts' = [accounts EXCEPT ![name].role = role]
      /\ UNCHANGED <<invites, expired, policies, regs>>
  BY DEF UpdateUser
<1>2. accounts \in [DOMAIN accounts -> AccountType]
  BY DEF AccountsInv, AccountsTypes
<1>3. accounts' \in [DOMAIN accounts -> AccountType]
  BY <1>1, <1>2 DEF AccountType
<1>4. \A n \in DOMAIN accounts : /\ accounts'[n].call = accounts[n].call
                                 /\ accounts'[n].code = accounts[n].code
                                 /\ accounts'[n].was = accounts[n].was
  BY <1>1, <1>2 DEF AccountType
<1>5. DOMAIN accounts' = DOMAIN accounts /\ AccountsTypes'
  BY <1>1, <1>3 DEF AccountsInv, AccountsTypes
<1> QED BY <1>1, <1>4, <1>5, TableStepKeeps

\* The time of an invite only matters when it is used.
LEMMA ExpireAccounts ==
  ASSUME AccountsInv, NEW code \in Codes, Expire(code)
  PROVE  AccountsInv'
<1>1. UNCHANGED <<accounts, invites, policies, regs>> /\ expired \subseteq expired'
  BY DEF Expire
<1>2. AccountsTypes'
  BY <1>1 DEF AccountsInv, AccountsTypes
<1> QED BY <1>1, <1>2, TableStepKeeps

-----------------------------------------------------------------------------
\* A call begins with the policy in force then.
LEMMA RegisterAccounts ==
  ASSUME AccountsInv, NEW c \in Registrations, NEW name \in Usernames, NEW code \in Codes \cup {NoCode},
         Register(c, name, code)
  PROVE  AccountsInv'
<1> DEFINE rec == [at |-> "policy", name |-> name, code |-> code, from |-> Len(policies), policy |-> Policy]
<1>1. regs[c].at = "new" /\ regs' = [regs EXCEPT ![c] = rec] /\ UNCHANGED <<accounts, invites, expired, policies>>
  BY DEF Register
<1>2. policies \in Seq(PolicyType) /\ Len(policies) \in Nat /\ Len(policies) > 0 /\ policies[Len(policies)] \in PolicyType
  BY DEF AccountsInv, AccountsTypes
<1>3. rec \in UnderWayReg
  BY <1>2 DEF UnderWayReg, Policy
<1>4. regs' \in [Registrations -> [at : {"new"}] \cup UnderWayReg] /\ regs'[c] = rec
  BY <1>1, <1>3 DEF AccountsInv, AccountsTypes
<1>5. AccountsTypes'
  BY <1>1, <1>4 DEF AccountsInv, AccountsTypes
<1>6. regs'[c].at = "policy" /\ regs'[c].from = Len(policies) /\ regs'[c].policy = policies[Len(policies)]
  BY <1>4 DEF Policy
<1>7. InForceSince(c, regs[c].policy)'
  BY <1>1, <1>2, <1>6 DEF InForceSince
<1>8. \A d \in Registrations \ {c} : regs'[d] = regs[d]
  BY <1>1 DEF AccountsInv, AccountsTypes
<1> HIDE DEF rec
<1> QED BY <1>1, <1>2, <1>5, <1>6, <1>7, <1>8, RegStepKeeps

\* The status of a registration moves on.
LEMMA RegEndsTypes ==
  ASSUME AccountsTypes, NEW c \in Registrations, regs[c].at # "new",
         NEW status \in {"policy", "register", "home", "200", "400", "403", "409", "500"},
         RegEnds(c, status)
  PROVE  /\ regs' \in [Registrations -> [at : {"new"}] \cup UnderWayReg]
         /\ regs'[c].at = status /\ regs'[c].from = regs[c].from /\ regs'[c].policy = regs[c].policy
         /\ \A d \in Registrations \ {c} : regs'[d] = regs[d]
<1>1. regs[c] \in UnderWayReg
  BY BegunReg
<1> DEFINE rec == [regs[c] EXCEPT !.at = status]
<1>2. regs' = [regs EXCEPT ![c] = rec]
  BY DEF RegEnds
<1>3. rec \in UnderWayReg /\ rec.at = status /\ rec.from = regs[c].from /\ rec.policy = regs[c].policy
  BY <1>1 DEF UnderWayReg
<1> HIDE DEF rec
<1>4. regs \in [Registrations -> [at : {"new"}] \cup UnderWayReg]
  BY DEF AccountsTypes
<1> QED BY <1>2, <1>3, <1>4

\* It does so without an account being made.
LEMMA RegEndsKeeps ==
  ASSUME AccountsInv, NEW c \in Registrations, regs[c].at \notin {"new", "400"},
         NEW status \in {"home", "200", "400", "403", "409", "500"},
         RegEnds(c, status), UNCHANGED <<accounts, invites, expired, policies>>
  PROVE  AccountsInv'
<1>1. AccountsTypes /\ PolicyHeld
  BY DEF AccountsInv
<1>2. /\ regs' \in [Registrations -> [at : {"new"}] \cup UnderWayReg]
      /\ regs'[c].at = status /\ regs'[c].from = regs[c].from /\ regs'[c].policy = regs[c].policy
      /\ \A d \in Registrations \ {c} : regs'[d] = regs[d]
  BY <1>1, RegEndsTypes
<1>3. AccountsTypes'
  BY <1>1, <1>2 DEF AccountsTypes
<1>4. InForceSince(c, regs[c].policy)' /\ regs'[c].from >= 1
  BY <1>1, <1>2 DEF PolicyHeld, InForceSince
<1> QED BY <1>2, <1>3, <1>4, RegStepKeeps

\* A registration ends, with its home workspace or without.
LEMMA EnsureHomeAccounts ==
  ASSUME AccountsInv, NEW c \in Registrations, EnsureHome(c)
  PROVE  AccountsInv'
BY RegEndsKeeps DEF EnsureHome

\* The policy that is read is in force.
LEMMA ReadPolicyAccounts ==
  ASSUME AccountsInv, NEW c \in Registrations, ReadPolicy(c)
  PROVE  AccountsInv'
<1>1. /\ regs[c].at = "policy" /\ regs' = [regs EXCEPT ![c].at = "register", ![c].policy = Policy]
      /\ UNCHANGED <<accounts, invites, expired, policies>>
  BY DEF ReadPolicy
<1>2. AccountsTypes /\ PolicyHeld
  BY DEF AccountsInv
<1>3. regs[c] \in UnderWayReg /\ regs[c].from \in Nat
  BY <1>1, <1>2, BegunReg
<1>4. PICK i \in 1 .. Len(policies) : i >= regs[c].from
  BY <1>1, <1>2 DEF PolicyHeld, InForceSince
<1>5. Len(policies) \in Nat
  BY <1>2 DEF AccountsTypes
<1>6. InForceSince(c, Policy) /\ Policy \in PolicyType
  BY <1>2, <1>3, <1>4, <1>5, NowInForce
<1> DEFINE rec == [regs[c] EXCEPT !.at = "register", !.policy = Policy]
<1>7. regs' = [regs EXCEPT ![c] = rec]
  BY <1>1
<1>8. rec \in UnderWayReg /\ rec.at = "register" /\ rec.from = regs[c].from /\ rec.policy = Policy
  BY <1>3, <1>6 DEF UnderWayReg
<1> HIDE DEF rec
<1>9. regs' \in [Registrations -> [at : {"new"}] \cup UnderWayReg] /\ regs'[c] = rec
      /\ \A d \in Registrations \ {c} : regs'[d] = regs[d]
  BY <1>2, <1>7, <1>8 DEF AccountsTypes
<1>10. AccountsTypes'
  BY <1>1, <1>2, <1>9 DEF AccountsTypes
<1>11. regs'[c].from = regs[c].from /\ regs'[c].policy = Policy /\ regs[c].from >= 1
  BY <1>1, <1>2, <1>8, <1>9 DEF PolicyHeld
<1>12. InForceSince(c, regs[c].policy)'
  BY <1>1, <1>6, <1>11 DEF InForceSince
<1> QED BY <1>1, <1>9, <1>10, <1>11, <1>12, RegStepKeeps

-----------------------------------------------------------------------------
\* The tables after a registration that made an account
LEMMA NewAccount ==
  ASSUME AccountsInv, NEW c \in Registrations, RegisterUser(c), accounts' # accounts
  PROVE  /\ regs[c].at = "register" /\ UNCHANGED policies
         /\ Allowed(regs[c].policy, regs[c].code)
         /\ regs[c].name \notin DOMAIN accounts
         /\ regs[c].code # NoCode => Available(regs[c].code)
         /\ \/ /\ RegEnds(c, "home") /\ UNCHANGED expired
               /\ invites' = IF regs[c].code = NoCode THEN invites ELSE UsedUp(regs[c].code, regs[c].name)
            \/ /\ RegEnds(c, "400") /\ UNCHANGED invites
               /\ regs[c].code # NoCode /\ expired' = expired \cup {regs[c].code}
         /\ accounts' = [n \in DOMAIN accounts \cup {regs[c].name} |->
               IF n = regs[c].name
               THEN LET role == IF regs[c].code # NoCode THEN invites[regs[c].code].role ELSE "member"
                    IN [role |-> role, was |-> role, call |-> c, code |-> regs[c].code]
               ELSE accounts[n]]
BY DEF RegisterUser, Consume

\* The account is allowed by the policy its call has read, and its invite was unused, so it
\* is that of no other account.
LEMMA RegisterUserAccounts ==
  ASSUME AccountsInv, NEW c \in Registrations, RegisterUser(c)
  PROVE  AccountsInv'
<1>1. CASE accounts' = accounts
  <2>1. regs[c].at = "register" /\ UNCHANGED policies
    BY DEF RegisterUser
  <2>2. regs[c] \in UnderWayReg
    BY <2>1, BegunReg DEF AccountsInv
  <2>3. /\ invites' = invites /\ expired' = expired
        /\ RegEnds(c, "400") \/ RegEnds(c, "403") \/ RegEnds(c, "409")
    <3>1. regs[c].name \in DOMAIN accounts' \/ RegEnds(c, "400") \/ RegEnds(c, "403") \/ RegEnds(c, "409")
      BY DEF RegisterUser
    <3>2. CASE regs[c].name \in DOMAIN accounts
      BY <3>2 DEF RegisterUser
    <3>3. CASE regs[c].name \notin DOMAIN accounts
      BY <1>1, <3>1, <3>3 DEF RegisterUser
    <3> QED BY <3>2, <3>3
  <2> QED BY <1>1, <2>1, <2>3, RegEndsKeeps
<1>2. CASE accounts' # accounts
  <2> DEFINE name == regs[c].name
             code == regs[c].code
             role == IF code # NoCode THEN invites[code].role ELSE "member"
             new == [role |-> role, was |-> role, call |-> c, code |-> code]
  <2>1. /\ regs[c].at = "register" /\ UNCHANGED policies
        /\ Allowed(regs[c].policy, code)
        /\ name \notin DOMAIN accounts
        /\ code # NoCode => Available(code)
        /\ accounts' = [n \in DOMAIN accounts \cup {name} |-> IF n = name THEN new ELSE accounts[n]]
    BY <1>2, NewAccount
  <2>20. \/ /\ RegEnds(c, "home") /\ UNCHANGED expired
            /\ invites' = IF code = NoCode THEN invites ELSE UsedUp(code, name)
         \/ /\ RegEnds(c, "400") /\ UNCHANGED invites
            /\ code # NoCode /\ expired' = expired \cup {code}
    BY <1>2, NewAccount
  <2>2. AccountsTypes /\ PolicyHeld /\ \A n \in DOMAIN accounts : AccountAllowed(n) /\ AccountInvited(n)
    BY DEF AccountsInv
  <2>3. /\ regs[c] \in UnderWayReg /\ name \in Usernames /\ code \in Codes \cup {NoCode}
        /\ regs[c].policy \in PolicyType
    BY <2>1, <2>2, BegunReg DEF UnderWayReg
  <2>4. /\ regs' \in [Registrations -> [at : {"new"}] \cup UnderWayReg]
        /\ regs'[c].at \in {"home", "400"} /\ regs'[c].from = regs[c].from /\ regs'[c].policy = regs[c].policy
        /\ \A d \in Registrations \ {c} : regs'[d] = regs[d]
    BY <2>1, <2>2, <2>20, RegEndsTypes
  <2>5. code # NoCode => code \in DOMAIN invites /\ invites[code] \in InviteType /\ invites[code].usedBy = NoCode
    BY <2>1, <2>2 DEF Available, AccountsTypes
  <2>6. role \in {"member", "admin"}
    BY <2>5 DEF InviteType
  <2>7. new \in AccountType /\ new.call = c /\ new.code = code /\ new.was = role
    BY <2>3, <2>6 DEF AccountType
  <2> HIDE DEF new
  <2>8. /\ DOMAIN accounts' = DOMAIN accounts \cup {name} /\ accounts'[name] = new
        /\ \A n \in DOMAIN accounts : accounts'[n] = accounts[n] /\ n # name
    BY <2>1
  <2>9. accounts' \in [DOMAIN accounts' -> AccountType] /\ DOMAIN accounts' \subseteq Usernames
    BY <2>1, <2>2, <2>3, <2>7, <2>8 DEF AccountsTypes
  <2>10. /\ DOMAIN invites' = DOMAIN invites
         /\ invites' \in [DOMAIN invites -> InviteType]
         /\ \A k \in DOMAIN invites : k # code => invites'[k] = invites[k]
         /\ code # NoCode => invites'[code].role = invites[code].role
         /\ \/ RegEnds(c, "400") /\ invites' = invites /\ code \in expired'
            \/ code # NoCode => invites'[code].usedBy = name
         /\ expired \subseteq expired'
    <3>1. CASE invites' = invites /\ (code # NoCode => RegEnds(c, "400") /\ code \in expired') /\ expired \subseteq expired'
      BY <2>2, <3>1 DEF AccountsTypes
    <3>2. CASE code # NoCode /\ invites' = UsedUp(code, name) /\ UNCHANGED expired
      <4>1. invites' = [invites EXCEPT ![code].usedBy = name] /\ invites \in [DOMAIN invites -> InviteType]
        BY <2>2, <3>2 DEF UsedUp, AccountsTypes
      <4>2. [invites[code] EXCEPT !.usedBy = name] \in InviteType
        BY <2>3, <2>5, <3>2 DEF InviteType
      <4> QED BY <2>5, <3>2, <4>1, <4>2 DEF InviteType
    <3> QED BY <2>20, <3>1, <3>2
  <2>11. AccountsTypes'
    BY <2>1, <2>2, <2>4, <2>9, <2>10 DEF AccountsTypes
  <2>12. PolicyHeld'
    <3> SUFFICES ASSUME NEW d \in Registrations, regs'[d].at # "new"
                 PROVE  regs'[d].from >= 1 /\ InForceSince(d, regs[d].policy)'
      BY DEF PolicyHeld
    <3>1. regs[d].at # "new" /\ regs'[d].from = regs[d].from /\ regs'[d].policy = regs[d].policy
      BY <2>1, <2>4
    <3> QED BY <2>1, <2>2, <3>1 DEF PolicyHeld, InForceSince
  <2>13. ASSUME NEW n \in DOMAIN accounts' PROVE AccountAllowed(n)'
    <3>1. CASE n = name
      <4>1. InForceSince(c, regs[c].policy)'
        BY <2>1, <2>4, <2>12 DEF PolicyHeld
      <4>2. regs'[c].policy \in PolicyType /\ regs'[c].policy.allow /\ (regs'[c].policy.invite => code # NoCode)
        BY <2>1, <2>3, <2>4 DEF Allowed
      <4>3. accounts'[n].call = c /\ accounts'[n].code = code
        BY <2>7, <2>8, <3>1
      <4>4. regs'[c].at \notin {"new", "policy", "register"}
        BY <2>4
      <4> QED BY <4>1, <4>2, <4>3, <4>4 DEF AccountAllowed
    <3>2. CASE n # name
      <4>1. n \in DOMAIN accounts /\ accounts'[n] = accounts[n] /\ AccountAllowed(n)
        BY <2>2, <2>8, <3>2
      <4> DEFINE d == accounts[n].call
      <4>2. d \in Registrations /\ d # c
        BY <2>1, <2>2, <4>1 DEF AccountAllowed, AccountsTypes, AccountType
      <4>3. regs'[d] = regs[d]
        BY <2>4, <4>2
      <4> QED BY <2>1, <4>1, <4>3 DEF AccountAllowed, InForceSince
    <3> QED BY <3>1, <3>2
  <2>14. ASSUME NEW n \in DOMAIN accounts' PROVE AccountInvited(n)'
    <3>1. ASSUME NEW k \in DOMAIN accounts, code # NoCode PROVE accounts[k].code # code
      <4>1. AccountInvited(k) /\ k \in Usernames
        BY <2>2 DEF AccountsTypes
      <4>2. invites[code].usedBy = NoCode /\ code \notin expired
        BY <2>1, <3>1 DEF Available
      <4> QED BY <3>1, <4>1, <4>2, AccountsAssumption DEF AccountInvited, Lapsed
    <3>2. CASE n = name
      <4>1. accounts'[n].code = code /\ accounts'[n].call = c /\ accounts'[n].was = role
        BY <2>7, <2>8, <3>2
      <4>2. code # NoCode => code \in DOMAIN invites' /\ invites'[code].role = role
        BY <2>5, <2>10
      <4>3. code # NoCode => invites'[code].usedBy = n \/ Lapsed(n)'
        <5>1. CASE RegEnds(c, "400") /\ invites' = invites /\ code \in expired'
          <6>1. regs'[c].at = "400"
            BY <2>1, <2>2, <5>1, RegEndsTypes
          <6> QED BY <2>5, <4>1, <5>1, <6>1 DEF Lapsed
        <5> QED BY <2>10, <3>2, <5>1
      <4>4. code # NoCode => \A k \in DOMAIN accounts' \ {n} : accounts'[k].code # code
        BY <2>8, <3>1, <3>2
      <4> QED BY <4>1, <4>2, <4>3, <4>4 DEF AccountInvited
    <3>3. CASE n # name
      <4>1. n \in DOMAIN accounts /\ accounts'[n] = accounts[n] /\ AccountInvited(n) /\ accounts[n].call \in Registrations
        BY <2>2, <2>8, <3>3 DEF AccountsTypes, AccountType
      <4>2. accounts[n].code # NoCode => accounts[n].code # code
        BY <3>1, <4>1
      <4>3. accounts[n].code # NoCode => invites'[accounts[n].code] = invites[accounts[n].code] /\ accounts[n].code \in DOMAIN invites'
        BY <2>10, <4>1, <4>2 DEF AccountInvited
      <4>4. accounts[n].code # NoCode /\ Lapsed(n) => Lapsed(n)'
        <5>1. accounts[n].call # c => regs'[accounts[n].call] = regs[accounts[n].call]
          BY <2>4, <4>1
        <5> QED BY <2>1, <2>10, <4>1, <4>3, <5>1 DEF Lapsed
      <4>5. accounts[n].code # NoCode => \A k \in DOMAIN accounts' \ {n} : accounts'[k].code # accounts[n].code
        BY <2>7, <2>8, <4>1, <4>2 DEF AccountInvited
      <4> QED BY <4>1, <4>3, <4>4, <4>5 DEF AccountInvited
    <3> QED BY <3>2, <3>3
  <2> QED BY <2>11, <2>12, <2>13, <2>14 DEF AccountsInv
<1> QED BY <1>1, <1>2

\* Every step keeps the invariant.
LEMMA NextAccounts == AccountsInv /\ [AccountsNext]_acVars => AccountsInv'
<1> SUFFICES ASSUME AccountsInv, [AccountsNext]_acVars PROVE AccountsInv'
  OBVIOUS
<1>1. ASSUME NEW p \in [allow : BOOLEAN, invite : BOOLEAN], SetPolicy(p) PROVE AccountsInv'
  BY <1>1, SetPolicyAccounts DEF PolicyType
<1>2. ASSUME NEW code \in Codes, Expire(code) PROVE AccountsInv'
  BY <1>2, ExpireAccounts
<1>3. ASSUME NEW code \in Codes, NEW role \in {"member", "admin"}, CreateInviteCode(code, role) PROVE AccountsInv'
  BY <1>3, CreateInviteCodeAccounts
<1>4. ASSUME NEW name \in Usernames, NEW role \in {"member", "owner"}, UpdateUser(name, role) PROVE AccountsInv'
  BY <1>4, UpdateUserAccounts
<1>5. ASSUME NEW c \in Registrations, NEW name \in Usernames, NEW code \in Codes \cup {NoCode},
             Register(c, name, code)
      PROVE  AccountsInv'
  BY <1>5, RegisterAccounts
<1>6. ASSUME NEW c \in Registrations, ReadPolicy(c) \/ RegisterUser(c) \/ EnsureHome(c) PROVE AccountsInv'
  BY <1>6, ReadPolicyAccounts, RegisterUserAccounts, EnsureHomeAccounts
<1>7. CASE UNCHANGED acVars
  BY <1>7 DEF acVars, AccountsInv, AccountsTypes, PolicyHeld, AccountAllowed, AccountInvited, Lapsed, InForceSince
<1> QED BY <1>1, <1>2, <1>3, <1>4, <1>5, <1>6, <1>7 DEF AccountsNext

\* The invariant implies what the run checks.
LEMMA AccountsInvSound == AccountsInv => RegistrationsSound
<1> SUFFICES ASSUME AccountsInv PROVE RegistrationsSound
  OBVIOUS
<1>1. InviteOnce
  BY DEF AccountsInv, AccountInvited, InviteOnce
<1>2. ASSUME NEW n \in DOMAIN accounts
      PROVE  \E i \in regs[accounts[n].call].from .. Len(policies) :
               policies[i].allow /\ (policies[i].invite => accounts[n].code # NoCode)
  <2> DEFINE c == accounts[n].call
  <2>1. c \in Registrations /\ regs[c].at # "new" /\ AccountAllowed(n)
    BY <1>2 DEF AccountsInv, AccountsTypes, AccountType, AccountAllowed
  <2>2. regs[c].from \in Nat /\ Len(policies) \in Nat
    BY <2>1, BegunReg DEF AccountsInv, AccountsTypes
  <2>3. PICK i \in 1 .. Len(policies) :
          i >= regs[c].from /\ policies[i].allow /\ (policies[i].invite => accounts[n].code # NoCode)
    BY <2>1 DEF AccountAllowed, InForceSince
  <2> QED BY <2>2, <2>3
<1> QED BY <1>1, <1>2 DEF RegistrationsSound, PolicyRespected

\* However registrations race with each other, with changes of the policy and with a failure
\* of the steps after them, an account was allowed by a policy in force since its request,
\* and an invite makes at most one account, with the role it gives, and says which unless its
\* time ended while it was used.
THEOREM AccountsSound == AccountsSpec => []RegistrationsSound
<1>1. AccountsInit => AccountsInv
  BY InitAccounts
<1>2. AccountsInv /\ [AccountsNext]_acVars => AccountsInv'
  BY NextAccounts
<1>3. AccountsInv => RegistrationsSound
  BY AccountsInvSound
<1> QED BY <1>1, <1>2, <1>3, PTL DEF AccountsSpec

-----------------------------------------------------------------------------
TaskType == [kind : {"interval", "cron", "once"}, every : Nat, next : Nat,
             status : {"active", "completed"}, first : Nat]
LogType == [id : Nat, runAt : Nat, status : {"success", "failure"}]
PassType == [at : {"off", "wait", "sleep"}, due : Seq(Tasks), runAt : Nat]

SchedulerTypes ==
  /\ clock \in 0 .. MaxTime
  /\ tasks \in [Tasks -> TaskType \cup {NoTask}]
  /\ table \subseteq Tasks /\ IsFiniteSet(table)
  /\ runningIds \subseteq Tasks
  /\ pass \in [Runners -> PassType]
  /\ polling \in BOOLEAN /\ overlapped \in BOOLEAN
  /\ logs \in [Tasks -> Seq(LogType)]
  /\ runs \in [Tasks -> Seq(Nat)]
  /\ gone \in [Tasks -> SUBSET (Runners \cup {"deleted"})]

Created(t) == tasks[t] # NoTask
Distinct(q) == \A i, j \in DOMAIN q : i # j => q[i] # q[j]
OnList(p, t) == UnderWay(p) /\ \E i \in DOMAIN pass[p].due : pass[p].due[i] = t

\* The list of a pass: distinct tasks that exist, and the time of its run is not to come.
ListOK(p) ==
  UnderWay(p) =>
    /\ pass[p].due # <<>> /\ Distinct(pass[p].due) /\ pass[p].runAt <= clock
    /\ \A i \in DOMAIN pass[p].due : Created(pass[p].due[i])

\* A task is marked exactly while one pass awaits it.
MarkedOK ==
  /\ \A t \in Tasks : t \in runningIds <=> \E p \in Runners : Awaiting(p, t)
  /\ \A t \in Tasks, p, q \in Runners : (Awaiting(p, t) /\ Awaiting(q, t)) => p = q

\* Unless passes overlapped, one is under way, and its list is still due.
SolePass ==
  ~overlapped => \A p \in Runners : UnderWay(p) =>
    /\ \A q \in Runners : UnderWay(q) => p = q
    /\ \A i \in DOMAIN pass[p].due : IsDue(pass[p].due[i])

\* A deleted task is on the lists of those only that were under way then.
DeletedOK(t) ==
  gone[t] # {} =>
    /\ "deleted" \in gone[t] /\ t \notin table /\ Created(t)
    /\ \A p \in Runners : OnList(p, t) => p \in gone[t]

\* The times of the runs of a task, its next time and its schedule
TimesOK(t) ==
  /\ ~Created(t) => runs[t] = <<>>
  /\ (Created(t) /\ ~overlapped) =>
       /\ \A i, j \in DOMAIN runs[t] : i < j => runs[t][i] < runs[t][j]
       /\ \A i \in DOMAIN runs[t] : runs[t][i] < tasks[t].next
OnGrid(k) == k.every > 0 /\ \E m \in 0 .. k.next : k.next = k.first + k.every * m
NoneMissed(k, r) ==
  \A n \in k.first + 1 .. k.next - 1 : n % CronPeriod = 0 => \E i \in DOMAIN r : r[i] = n
GridOK(t) ==
  Created(t) => /\ tasks[t].kind = "interval" => OnGrid(tasks[t])
                /\ tasks[t].kind = "cron" => NoneMissed(tasks[t], runs[t])

\* The rows of a log are numbered, and in the order of the times their runs began.
LogOK(t) ==
  /\ \A i \in DOMAIN logs[t] : logs[t][i].id = i /\ logs[t][i].runAt <= clock
  /\ \A i, j \in DOMAIN logs[t] : i < j => logs[t][i].runAt <= logs[t][j].runAt
  /\ \A p \in Runners : Awaiting(p, t) =>
       \A i \in DOMAIN logs[t] : logs[t][i].runAt <= pass[p].runAt

SchedulerInv ==
  /\ SchedulerTypes /\ MarkedOK /\ SolePass
  /\ \A p \in Runners : ListOK(p)
  /\ \A t \in table : Created(t)
  /\ \A t \in Tasks : DeletedOK(t) /\ TimesOK(t) /\ GridOK(t) /\ LogOK(t)

-----------------------------------------------------------------------------
\* A nonempty set of numbers has a least element.
LEMMA MinOfSet ==
  ASSUME NEW S \in SUBSET Nat, S # {}
  PROVE  Min(S) \in S /\ \A y \in S : Min(S) <= y
<1>1. PICK x \in S : \A y \in S : ~(<<y, x>> \in OpToRel(<, Nat))
  BY NatLessThanWellFounded, WFMin
<1>2. \A y \in S : x <= y
  <2> TAKE y \in S
  <2>1. <<y, x>> \in Nat \X Nat
    OBVIOUS
  <2>2. ~(y < x)
    <3> SUFFICES ASSUME y < x PROVE FALSE
      OBVIOUS
    <3>1. <<y, x>> \in OpToRel(<, Nat)
      BY <2>1 DEF OpToRel
    <3> QED BY <3>1, <1>1
  <2> QED BY <2>2
<1> QED BY <1>2 DEF Min

\* The larger and the smaller of two numbers
LEMMA MaxOfTwo ==
  ASSUME NEW a \in Nat, NEW b \in Nat
  PROVE  Max({a, b}) = IF a >= b THEN a ELSE b
<1>1. (IF a >= b THEN a ELSE b) \in {a, b} /\ \A y \in {a, b} : (IF a >= b THEN a ELSE b) >= y
  OBVIOUS
<1>2. \A x \in {a, b} : (\A y \in {a, b} : x >= y) => x = IF a >= b THEN a ELSE b
  OBVIOUS
<1> QED BY <1>1, <1>2 DEF Max

LEMMA MinOfTwo ==
  ASSUME NEW a \in Nat, NEW b \in Nat
  PROVE  Min({a, b}) = IF a <= b THEN a ELSE b
<1>1. (IF a <= b THEN a ELSE b) \in {a, b} /\ \A y \in {a, b} : (IF a <= b THEN a ELSE b) =< y
  OBVIOUS
<1>2. \A x \in {a, b} : (\A y \in {a, b} : x =< y) => x = IF a <= b THEN a ELSE b
  OBVIOUS
<1> QED BY <1>1, <1>2 DEF Min

\* A factor that is larger makes the product larger by one step at least.
LEMMA StepOfProduct ==
  ASSUME NEW c \in Nat \ {0}, NEW a \in Int, NEW b \in Int, a < b
  PROVE  c * a + c <= c * b
<1>1. c * b = c * (a + 1) + c * (b - (a + 1))
  OBVIOUS
<1>2. b - (a + 1) \in Nat
  OBVIOUS
<1>3. c * (b - (a + 1)) \in Nat
  BY <1>2
<1>4. c * (a + 1) = c * a + c
  OBVIOUS
<1>5. c * a \in Int /\ c * b \in Int
  OBVIOUS
<1> QED BY <1>1, <1>3, <1>4, <1>5

\* Where a number lies between the multiples of c
LEMMA Quotient ==
  ASSUME NEW c \in Nat \ {0}, NEW a \in Nat
  PROVE  /\ a \div c \in Nat /\ c * (a \div c) \in Nat
         /\ c * (a \div c) <= a /\ a < c * (a \div c) + c
         /\ c * (a \div c + 1) = c * (a \div c) + c
         /\ a % c = a - c * (a \div c)
  OBVIOUS

\* A multiple leaves no rest.
LEMMA MultipleHasNoRest ==
  ASSUME NEW c \in Nat \ {0}, NEW m \in Nat
  PROVE  (c * m) % c = 0
<1> DEFINE a == c * m
<1>0. a \in Nat
  OBVIOUS
<1> DEFINE d == a \div c
<1>1. d \in Nat /\ c * d \in Nat /\ c * d <= a /\ a < c * d + c /\ a % c = a - c * d
  BY <1>0, Quotient
<1>2. a = c * m
  OBVIOUS
<1> HIDE DEF a, d
<1>3. ~(m < d)
  <2> SUFFICES ASSUME m < d PROVE FALSE
    OBVIOUS
  <2>1. c * m + c <= c * d
    BY <1>1, StepOfProduct
  <2> QED BY <2>1, <1>1, <1>2, <1>0
<1>4. ~(d < m)
  <2> SUFFICES ASSUME d < m PROVE FALSE
    OBVIOUS
  <2>1. c * d + c <= c * m
    BY <1>1, StepOfProduct
  <2> QED BY <2>1, <1>1, <1>2, <1>0
<1>5. d = m
  BY <1>1, <1>3, <1>4
<1>6. a % c = 0
  BY <1>1, <1>2, <1>5, <1>0
<1> QED BY <1>6 DEF a

\* The time after an anchor is later than it, and no time lies between them.
LEMMA CronAfterIsNext ==
  ASSUME NEW a \in Nat, SchedulerAssumption
  PROVE  /\ CronAfter(a) \in Nat /\ CronAfter(a) > a
         /\ \A n \in a + 1 .. CronAfter(a) - 1 : n % CronPeriod # 0
<1> DEFINE c == CronPeriod
<1> DEFINE d == a \div c
<1>0. c \in Nat \ {0}
  BY DEF SchedulerAssumption
<1>q. d \in Nat /\ c * d \in Nat /\ c * d <= a /\ a < c * d + c /\ c * (d + 1) = c * d + c
  BY <1>0, Quotient
<1>c. CronAfter(a) = c * (d + 1)
  BY DEF CronAfter
<1>1. d \in Nat /\ c * d \in Nat /\ c * d <= a /\ a < c * d + c /\ CronAfter(a) = c * d + c
  BY <1>q, <1>c
<1>2. \A n \in a + 1 .. CronAfter(a) - 1 : n % c # 0
  <2> SUFFICES ASSUME NEW n \in a + 1 .. CronAfter(a) - 1, n % c = 0 PROVE FALSE
    OBVIOUS
  <2> DEFINE k == n \div c
  <2>0. n \in Nat /\ n > a /\ n < c * d + c
    BY <1>1
  <2>r. k \in Nat /\ c * k \in Nat /\ n % c = n - c * k
    BY <1>0, <2>0, Quotient
  <2>1. k \in Nat /\ c * k \in Nat /\ n = c * k
    <3> DEFINE r == n % c
    <3> HIDE DEF c, d, k
    <3> QED BY <2>r, <2>0
  <2> HIDE DEF c, d, k
  <2>2. CASE k <= d
    <3>1. c * k <= c * d
      <4>1. CASE k = d
        BY <4>1, <2>1
      <4>2. CASE k < d
        <5>1. c * k + c <= c * d
          BY <4>2, <1>0, <1>1, <2>1, StepOfProduct
        <5> QED BY <5>1, <1>0, <1>1, <2>1
      <4> QED BY <2>2, <4>1, <4>2, <1>1, <2>1
    <3> QED BY <3>1, <1>1, <2>0, <2>1
  <2>3. CASE d < k
    <3>1. c * d + c <= c * k
      BY <2>3, <1>0, <1>1, <2>1, StepOfProduct
    <3> QED BY <3>1, <1>0, <1>1, <2>0, <2>1
  <2> QED BY <2>2, <2>3, <1>1, <2>1
<1> QED BY <1>0, <1>1, <1>2

-----------------------------------------------------------------------------
\* The task after a success: what changes is its next time, and a one-off task is done.
LEMMA AfterSuccessFields ==
  ASSUME NEW k \in TaskType, NextRun(k) \in Nat
  PROVE  /\ AfterSuccess(k) \in TaskType
         /\ AfterSuccess(k).kind = k.kind /\ AfterSuccess(k).every = k.every
         /\ AfterSuccess(k).first = k.first /\ AfterSuccess(k).next = NextRun(k)
  BY DEF AfterSuccess, TaskType

\* The next time of an interval task is on its grid, and not in the past.
LEMMA NextRunInterval ==
  ASSUME NEW k \in TaskType, k.kind = "interval", OnGrid(k), clock \in Nat
  PROVE  /\ NextRun(k) \in Nat /\ NextRun(k) >= k.next
         /\ k.next <= clock => NextRun(k) > clock
         /\ \E m \in 0 .. NextRun(k) : NextRun(k) = k.first + k.every * m
<1>t. k.every \in Nat \ {0} /\ k.next \in Nat /\ k.first \in Nat
  BY DEF TaskType, OnGrid
<1>m. PICK m \in 0 .. k.next : k.next = k.first + k.every * m
  BY DEF OnGrid
<1>1. CASE k.next > clock
  <2>1. NextRun(k) = k.next
    BY <1>1 DEF NextRun
  <2> QED BY <2>1, <1>1, <1>t, <1>m
<1>2. CASE ~(k.next > clock)
  <2> DEFINE e == k.every
             d == (clock - k.next) \div k.every
             s == e * (d + 1)
             w == e * (m + (d + 1))
  <2>1. NextRun(k) = k.next + s
    BY <1>2 DEF NextRun
  <2>2. clock - k.next \in Nat
    BY <1>2, <1>t
  <2>3. d \in Nat /\ e * d \in Nat /\ clock - k.next < e * d + e /\ s = e * d + e
    BY <2>2, <1>t, Quotient
  <2>4. w = e * m + s
    <3>1. d + 1 \in Nat /\ m \in Nat /\ e \in Nat
      BY <2>3, <1>t, <1>m
    <3> DEFINE f == d + 1
    <3>2. f \in Nat
      BY <3>1
    <3> HIDE DEF d, e, f
    <3>3. e * (m + f) = e * m + e * f
      BY <3>1, <3>2
    <3> QED BY <3>3 DEF f
  <2>5. e * m \in Nat /\ k.next = k.first + e * m
    BY <1>t, <1>m
  <2>6. m + (d + 1) <= w
    <3> DEFINE f == m + (d + 1)
    <3>1. f \in Nat /\ e \in Nat \ {0}
      BY <2>3, <1>t, <1>m
    <3>2. f <= e * f
      <4> HIDE DEF e, f
      <4>1. e * f = (e - 1) * f + f /\ (e - 1) * f \in Nat
        BY <3>1
      <4> QED BY <4>1, <3>1
    <3> QED BY <3>2
  <2>7. m + (d + 1) \in Nat
    BY <2>3, <1>m
  <2> HIDE DEF e, d, s, w
  <2>8. NextRun(k) \in Nat /\ NextRun(k) > clock /\ NextRun(k) = k.first + w /\ w \in Nat
    BY <1>t, <1>2, <2>1, <2>3, <2>4, <2>5
  <2>9. m + (d + 1) \in 0 .. NextRun(k)
    BY <2>6, <2>7, <2>8, <1>t
  <2>10. NextRun(k) = k.first + e * (m + (d + 1))
    BY <2>8 DEF w
  <2> QED BY <2>8, <2>9, <2>10, <1>t, <1>2 DEF e
<1> QED BY <1>1, <1>2

\* The next time of a task that was due is later than its time; that of an interval task is
\* on its grid whenever it is taken.
LEMMA NextRunLater ==
  ASSUME NEW k \in TaskType, k.kind = "interval" => OnGrid(k), clock \in 0 .. MaxTime,
         SchedulerAssumption
  PROVE  /\ NextRun(k) \in Nat
         /\ k.next <= clock => NextRun(k) > k.next
         /\ k.kind = "interval" => \E m \in 0 .. NextRun(k) : NextRun(k) = k.first + k.every * m
         /\ k.kind = "cron" => NextRun(k) = CronAfter(k.next)
<1>t. k.next \in Nat /\ clock \in Nat /\ MaxTime \in Nat /\ clock <= MaxTime
  BY DEF TaskType, SchedulerAssumption
<1>1. CASE k.kind = "interval"
  <2>1. /\ NextRun(k) \in Nat
        /\ k.next <= clock => NextRun(k) > clock
        /\ \E m \in 0 .. NextRun(k) : NextRun(k) = k.first + k.every * m
    BY <1>1, <1>t, NextRunInterval
  <2> QED BY <2>1, <1>1, <1>t
<1>2. CASE k.kind = "cron"
  <2>1. NextRun(k) = CronAfter(k.next)
    BY <1>2 DEF NextRun
  <2>2. CronAfter(k.next) \in Nat /\ CronAfter(k.next) > k.next
    BY <1>t, CronAfterIsNext
  <2> QED BY <2>1, <2>2, <1>2
<1>3. CASE k.kind \notin {"interval", "cron"}
  <2>1. NextRun(k) = Never
    BY <1>3 DEF NextRun
  <2>2. Never \in Nat /\ Never > clock
    BY <1>t DEF Never
  <2> QED BY <2>1, <2>2, <1>3, <1>t
<1> QED BY <1>1, <1>2, <1>3

\* What is left of a list from one of its places on
LEMMA RestOfList ==
  ASSUME NEW q \in Seq(Tasks), Distinct(q), NEW m \in 1 .. Len(q)
  PROVE  /\ SubSeq(q, m, Len(q)) \in Seq(Tasks) /\ SubSeq(q, m, Len(q)) # <<>>
         /\ Distinct(SubSeq(q, m, Len(q))) /\ Head(SubSeq(q, m, Len(q))) = q[m]
         /\ \A i \in DOMAIN SubSeq(q, m, Len(q)) :
              \E j \in DOMAIN q : SubSeq(q, m, Len(q))[i] = q[j]
<1> DEFINE r == SubSeq(q, m, Len(q))
<1>1. /\ r \in Seq(Tasks) /\ Len(r) = Len(q) - m + 1
      /\ \A i \in 1 .. Len(q) - m + 1 : r[i] = q[m + i - 1]
  <2>1. \A i \in m .. Len(q) : q[i] \in Tasks
    BY ElementOfSeq
  <2>2. m \in Int /\ Len(q) \in Int
    OBVIOUS
  <2>3. /\ r \in Seq(Tasks) /\ Len(r) = IF m <= Len(q) THEN Len(q) - m + 1 ELSE 0
        /\ \A i \in 1 .. Len(q) - m + 1 : r[i] = q[m + i - 1]
    BY <2>1, <2>2, SubSeqProperties
  <2> QED BY <2>3
<1> HIDE DEF r
<1>2. DOMAIN r = 1 .. Len(q) - m + 1 /\ 1 \in DOMAIN r
  BY <1>1
<1>3. r # <<>> /\ Head(r) = r[1] /\ r[1] = q[m]
  BY <1>1, <1>2
<1>4. \A i \in DOMAIN r : m + i - 1 \in DOMAIN q /\ r[i] = q[m + i - 1]
  BY <1>1, <1>2
<1>5. \A i, j \in DOMAIN r : i # j => m + i - 1 # m + j - 1
  BY <1>2
<1>6. Distinct(r)
  BY <1>4, <1>5 DEF Distinct
<1> QED BY <1>1, <1>3, <1>4, <1>6 DEF r

-----------------------------------------------------------------------------
\* Pass p is left as s: if it awaits a task, that one was nobody else's, and what is left
\* of its list is some of q.
LeftAs(p, s, q, running) ==
  /\ s \in PassType /\ pass' = [pass EXCEPT ![p] = s]
  /\ s.at = "wait" =>
       /\ s.due # <<>> /\ Distinct(s.due) /\ s.runAt = clock /\ Head(s.due) \notin running
       /\ \A i \in DOMAIN s.due : \E j \in DOMAIN q : s.due[i] = q[j]
  /\ runningIds' = running \cup (IF s.at = "wait" THEN {Head(s.due)} ELSE {})

\* A pass that goes on awaits the first task of the list that is free, or is over.
LEMMA GoesOnLeaves ==
  ASSUME NEW p \in Runners, NEW q \in Seq(Tasks), Distinct(q), NEW running, NEW flag,
         GoesOn(p, q, running, flag), clock \in Nat
  PROVE  \E s : LeftAs(p, s, q, running)
<1> DEFINE S == {i \in DOMAIN q : FreeToRun(q[i], running)}
<1>1. CASE S # {}
  <2> DEFINE m == Min(S)
             r == SubSeq(q, m, Len(q))
             s == [at |-> "wait", due |-> r, runAt |-> clock]
  <2>1. m \in S
    <3>1. S \in SUBSET Nat
      OBVIOUS
    <3> QED BY <3>1, <1>1, MinOfSet
  <2>2. m \in 1 .. Len(q) /\ q[m] \notin running
    BY <2>1 DEF FreeToRun
  <2>3. /\ r \in Seq(Tasks) /\ r # <<>> /\ Distinct(r) /\ Head(r) = q[m]
        /\ \A i \in DOMAIN r : \E j \in DOMAIN q : r[i] = q[j]
    BY <2>2, RestOfList
  <2>4. /\ pass' = [pass EXCEPT ![p] = s]
        /\ runningIds' = running \cup {Head(r)}
    BY <1>1 DEF GoesOn
  <2> HIDE DEF S, m, r
  <2>5. s \in PassType /\ s.at = "wait" /\ s.due = r /\ s.runAt = clock
    BY <2>3 DEF PassType
  <2> HIDE DEF s
  <2>6. LeftAs(p, s, q, running)
    BY <2>2, <2>3, <2>4, <2>5 DEF LeftAs
  <2> QED BY <2>6
<1>2. CASE S = {}
  <2> DEFINE s == IF p \in Loops /\ flag THEN [NoPass EXCEPT !.at = "sleep"] ELSE NoPass
  <2>1. pass' = [pass EXCEPT ![p] = s] /\ runningIds' = running
    BY <1>2 DEF GoesOn
  <2>2. s \in PassType /\ s.at # "wait"
    <3>1. <<>> \in Seq(Tasks)
      BY EmptySeq
    <3>2. NoPass \in PassType /\ [NoPass EXCEPT !.at = "sleep"] \in PassType
      BY <3>1 DEF NoPass, PassType
    <3> QED BY <3>2 DEF NoPass
  <2> HIDE DEF s
  <2>3. LeftAs(p, s, q, running)
    BY <2>1, <2>2 DEF LeftAs
  <2> QED BY <2>3
<1> QED BY <1>1, <1>2

\* The list of due tasks, in whatever order: distinct, in the table, due and not running
LEMMA DueTasksAre ==
  ASSUME SchedulerTypes, NEW q \in DueTasks
  PROVE  /\ q \in Seq(Tasks) /\ Distinct(q)
         /\ \A i \in DOMAIN q : q[i] \in table /\ IsDue(q[i]) /\ q[i] \notin runningIds
<1> DEFINE S == {t \in table : IsDue(t) /\ t \notin runningIds}
           n == Cardinality(S)
<1>1. S \subseteq table /\ S \subseteq Tasks
  BY DEF SchedulerTypes
<1>2. n \in Nat
  BY <1>1, FS_Subset, FS_CardinalityType DEF SchedulerTypes
<1>3. q \in [1 .. n -> S] /\ \A i, j \in 1 .. n : i # j => q[i] # q[j]
  BY DEF DueTasks, SetToSeqs
<1>4. \A i \in 1 .. n : q[i] \in table /\ IsDue(q[i]) /\ q[i] \notin runningIds
  BY <1>3
<1> HIDE DEF S, n
<1>5. DOMAIN q = 1 .. n /\ q \in Seq(Tasks)
  BY <1>1, <1>2, <1>3
<1> QED BY <1>3, <1>4, <1>5 DEF Distinct

\* The marks that are not p's
Others(p) == {t \in Tasks : \E r \in Runners \ {p} : Awaiting(r, t)}

\* What p leaves when its task is released is what the others have marked.
LEMMA ReleasedToOthers ==
  ASSUME SchedulerTypes, MarkedOK, NEW p \in Runners, ListOK(p)
  PROVE  (IF UnderWay(p) THEN Released(p) ELSE runningIds) = Others(p)
<1>0. runningIds \subseteq Tasks
  BY DEF SchedulerTypes
<1>1. CASE UnderWay(p)
  <2>1. pass[p].due # <<>> /\ pass[p].due \in Seq(Tasks)
    BY <1>1 DEF ListOK, SchedulerTypes, PassType
  <2>2. Head(pass[p].due) \in Tasks /\ Awaiting(p, Head(pass[p].due))
    BY <1>1, <2>1, HeadTailProperties DEF Awaiting, UnderWay
  <2>3. \A t \in Tasks : Awaiting(p, t) <=> t = Head(pass[p].due)
    BY <1>1 DEF Awaiting, UnderWay
  <2>4. \A t \in Tasks : t \in Released(p) <=> t \in Others(p)
    BY <2>2, <2>3 DEF Others, Released, MarkedOK
  <2> QED BY <1>0, <1>1, <2>4 DEF Released, Others
<1>2. CASE ~UnderWay(p)
  <2>1. \A t \in Tasks : ~Awaiting(p, t)
    BY <1>2 DEF Awaiting, UnderWay
  <2>2. \A t \in Tasks : t \in runningIds <=> t \in Others(p)
    BY <2>1 DEF Others, MarkedOK
  <2> QED BY <1>0, <1>2, <2>2 DEF Others
<1> QED BY <1>1, <1>2

\* A pass that moves keeps the marks exact.
LEMMA MarksKept ==
  ASSUME SchedulerTypes, MarkedOK, NEW p \in Runners, NEW s, NEW q,
         LeftAs(p, s, q, Others(p))
  PROVE  MarkedOK' /\ runningIds' \subseteq Tasks
<1>0. pass \in [Runners -> PassType] /\ s \in PassType /\ pass' = [pass EXCEPT ![p] = s]
  BY DEF SchedulerTypes, LeftAs
<1>1. \A r \in Runners, t \in Tasks :
        Awaiting(r, t)' <=> IF r = p THEN s.at = "wait" /\ Head(s.due) = t ELSE Awaiting(r, t)
  BY <1>0 DEF Awaiting
<1>2. s.at = "wait" => Head(s.due) \in Tasks /\ Head(s.due) \notin Others(p)
  BY HeadTailProperties DEF LeftAs, PassType
<1>3. \A t \in Tasks : t \in runningIds' <=>
        (t \in Others(p) \/ (s.at = "wait" /\ Head(s.due) = t))
  BY <1>2 DEF LeftAs
<1>4. \A t \in Tasks : t \in Others(p) <=> \E r \in Runners \ {p} : Awaiting(r, t)
  BY DEF Others
<1>5. \A t \in Tasks : t \in runningIds' <=> \E r \in Runners : Awaiting(r, t)'
  <2> TAKE t \in Tasks
  <2>1. ASSUME t \in runningIds' PROVE \E r \in Runners : Awaiting(r, t)'
    BY <2>1, <1>1, <1>3, <1>4
  <2>2. ASSUME NEW r \in Runners, Awaiting(r, t)' PROVE t \in runningIds'
    BY <2>2, <1>1, <1>3, <1>4
  <2> QED BY <2>1, <2>2
<1>6. \A t \in Tasks, r, u \in Runners : (Awaiting(r, t)' /\ Awaiting(u, t)') => r = u
  BY <1>1, <1>2, <1>4 DEF MarkedOK
<1>7. runningIds' \subseteq Tasks
  BY <1>2 DEF LeftAs, Others
<1> QED BY <1>5, <1>6, <1>7 DEF MarkedOK

-----------------------------------------------------------------------------
\* Nothing there, nothing to go wrong
LEMMA InitScheduler == ASSUME SchedulerInit, SchedulerAssumption PROVE SchedulerInv
<1>1. <<>> \in Seq(Tasks) /\ <<>> \in Seq(LogType) /\ <<>> \in Seq(Nat) /\ DOMAIN <<>> = {}
  BY EmptySeq
<1>2. \A p \in Runners : pass[p] = NoPass /\ ~UnderWay(p)
  BY DEF SchedulerInit, NoPass, UnderWay
<1>3. NoPass \in PassType
  BY <1>1 DEF NoPass, PassType
<1>4. SchedulerTypes
  <2>1. clock \in 0 .. MaxTime
    BY DEF SchedulerInit, SchedulerAssumption
  <2>2. tasks \in [Tasks -> TaskType \cup {NoTask}] /\ pass \in [Runners -> PassType]
    BY <1>3 DEF SchedulerInit
  <2>3. logs \in [Tasks -> Seq(LogType)] /\ runs \in [Tasks -> Seq(Nat)]
    BY <1>1 DEF SchedulerInit
  <2>4. gone \in [Tasks -> SUBSET (Runners \cup {"deleted"})]
    BY DEF SchedulerInit
  <2>5. table \subseteq Tasks /\ IsFiniteSet(table) /\ runningIds \subseteq Tasks
        /\ polling \in BOOLEAN /\ overlapped \in BOOLEAN
    BY FS_EmptySet DEF SchedulerInit
  <2> QED BY <2>1, <2>2, <2>3, <2>4, <2>5 DEF SchedulerTypes
<1>5. \A p \in Runners, t \in Tasks : ~Awaiting(p, t) /\ ~OnList(p, t)
  BY <1>2 DEF Awaiting, UnderWay, OnList
<1>6. MarkedOK /\ SolePass /\ \A p \in Runners : ListOK(p)
  BY <1>2, <1>5 DEF MarkedOK, SolePass, ListOK, SchedulerInit
<1>7. \A t \in Tasks : ~Created(t) /\ logs[t] = <<>> /\ runs[t] = <<>> /\ gone[t] = {}
  BY DEF SchedulerInit, Created
<1>8. \A t \in Tasks : DeletedOK(t) /\ TimesOK(t) /\ GridOK(t)
  BY <1>7 DEF DeletedOK, TimesOK, GridOK
<1>9. \A t \in Tasks : LogOK(t)
  BY <1>1, <1>5, <1>7 DEF LogOK
<1> QED BY <1>4, <1>6, <1>8, <1>9 DEF SchedulerInv, SchedulerInit

\* Time passes: what is due stays due.
LEMMA TickKeeps == ASSUME SchedulerInv, Tick, SchedulerAssumption PROVE SchedulerInv'
<1>0. UNCHANGED <<tasks, table, runningIds, pass, polling, logs, runs, gone, overlapped>>
  BY DEF Tick, tsHistory
<1>1. clock \in Nat /\ clock' = clock + 1 /\ clock' \in 0 .. MaxTime
  BY DEF Tick, SchedulerInv, SchedulerTypes, SchedulerAssumption
<1>2. SchedulerTypes'
  BY <1>0, <1>1 DEF SchedulerInv, SchedulerTypes
<1>3. \A p \in Runners : (UnderWay(p)' <=> UnderWay(p)) /\ pass'[p] = pass[p] /\ pass[p].runAt \in Nat
  BY <1>0 DEF UnderWay, SchedulerInv, SchedulerTypes, PassType
<1>4. \A p \in Runners, t \in Tasks : (Awaiting(p, t)' <=> Awaiting(p, t)) /\ (OnList(p, t)' <=> OnList(p, t))
  <2> TAKE p \in Runners, t \in Tasks
  <2>1. Awaiting(p, t)' <=> Awaiting(p, t)
    BY <1>0 DEF Awaiting
  <2>2. OnList(p, t)' <=> OnList(p, t)
    BY <1>3 DEF OnList
  <2> QED BY <2>1, <2>2
<1>5. MarkedOK'
  BY <1>0, <1>4 DEF MarkedOK, SchedulerInv
<1>6. ASSUME NEW p \in Runners PROVE ListOK(p)'
  <2>1. ListOK(p)
    BY DEF SchedulerInv
  <2> QED BY <2>1, <1>0, <1>1, <1>3 DEF ListOK, Created
<1>7. SolePass'
  <2> SUFFICES ASSUME ~overlapped', NEW p \in Runners, UnderWay(p)'
               PROVE  /\ \A q \in Runners : UnderWay(q)' => p = q
                      /\ \A i \in DOMAIN pass'[p].due : IsDue(pass[p].due[i])'
    BY <1>3 DEF SolePass
  <2>1. /\ \A q \in Runners : UnderWay(q) => p = q
        /\ \A i \in DOMAIN pass[p].due : IsDue(pass[p].due[i])
    BY <1>0, <1>3 DEF SolePass, SchedulerInv
  <2>2. \A i \in DOMAIN pass[p].due : pass[p].due[i] \in Tasks /\ Created(pass[p].due[i])
    <3>1. pass[p].due \in Seq(Tasks)
      BY DEF SchedulerInv, SchedulerTypes, PassType
    <3>2. ListOK(p) /\ UnderWay(p)
      BY <1>3 DEF SchedulerInv
    <3> QED BY <3>1, <3>2 DEF ListOK
  <2>3. \A t \in Tasks : Created(t) => tasks[t].next \in Nat
    BY DEF Created, TaskType, SchedulerInv, SchedulerTypes
  <2>4. \A i \in DOMAIN pass[p].due : IsDue(pass[p].due[i])'
    BY <2>1, <2>2, <2>3, <1>0, <1>1 DEF IsDue
  <2> QED BY <2>1, <2>4, <1>3
<1>8. \A t \in table' : Created(t)'
  BY <1>0 DEF SchedulerInv, Created
<1>9. ASSUME NEW t \in Tasks PROVE DeletedOK(t)' /\ TimesOK(t)' /\ GridOK(t)'
  <2>1. DeletedOK(t) /\ TimesOK(t) /\ GridOK(t)
    BY DEF SchedulerInv
  <2>2. DeletedOK(t)'
    BY <2>1, <1>0, <1>4 DEF DeletedOK, Created
  <2>3. TimesOK(t)'
    BY <2>1, <1>0 DEF TimesOK, Created
  <2>4. GridOK(t)'
    BY <2>1, <1>0 DEF GridOK, Created
  <2> QED BY <2>2, <2>3, <2>4
<1>10. ASSUME NEW t \in Tasks PROVE LogOK(t)'
  <2>1. LogOK(t)
    BY DEF SchedulerInv
  <2>2. logs[t] \in Seq(LogType)
    BY DEF SchedulerInv, SchedulerTypes
  <2>3. \A i \in DOMAIN logs[t] : logs[t][i].runAt \in Nat
    <3>1. \A i \in DOMAIN logs[t] : logs[t][i] \in LogType
      BY <2>2
    <3> QED BY <3>1 DEF LogType
  <2> QED BY <2>1, <2>3, <1>0, <1>1, <1>3, <1>4 DEF LogOK
<1> QED BY <1>2, <1>5, <1>6, <1>7, <1>8, <1>9, <1>10 DEF SchedulerInv

\* The flag alone is in no part of the invariant but its type.
LEMMA StopKeeps == ASSUME SchedulerInv, Stop PROVE SchedulerInv'
<1>0. UNCHANGED <<clock, tasks, table, runningIds, pass, logs, runs, gone, overlapped>> /\ polling' \in BOOLEAN
  BY DEF Stop, tsHistory
<1>1. SchedulerTypes'
  BY <1>0 DEF SchedulerInv, SchedulerTypes
<1>m. MarkedOK'
  BY <1>0 DEF SchedulerInv, MarkedOK, Awaiting
<1>s. SolePass'
  BY <1>0 DEF SchedulerInv, SolePass, IsDue, UnderWay
<1>2. MarkedOK' /\ SolePass' /\ (\A p \in Runners : ListOK(p)') /\ (\A t \in table' : Created(t)')
  BY <1>0, <1>m, <1>s DEF SchedulerInv, ListOK, Created, UnderWay
<1>3. ASSUME NEW t \in Tasks PROVE DeletedOK(t)' /\ TimesOK(t)' /\ GridOK(t)' /\ LogOK(t)'
  <2>1. DeletedOK(t) /\ TimesOK(t) /\ GridOK(t) /\ LogOK(t)
    BY DEF SchedulerInv
  <2>2. DeletedOK(t)'
    BY <2>1, <1>0 DEF DeletedOK, Created, OnList, UnderWay
  <2>3. TimesOK(t)' /\ GridOK(t)'
    BY <2>1, <1>0 DEF TimesOK, GridOK, Created
  <2>4. LogOK(t)'
    BY <2>1, <1>0 DEF LogOK, Awaiting
  <2> QED BY <2>2, <2>3, <2>4
<1> QED BY <1>1, <1>2, <1>3 DEF SchedulerInv

\* A new task has no history, and is on nobody's list.
LEMMA CreateKeeps ==
  ASSUME SchedulerInv, SchedulerAssumption, NEW t \in Tasks,
         NEW kind \in {"interval", "cron", "once"}, NEW every \in Nat, NEW first \in Nat,
         CreateTask(t, kind, every, first)
  PROVE  SchedulerInv'
<1>0. UNCHANGED <<clock, runningIds, pass, polling, logs, runs, gone, overlapped>>
  BY DEF CreateTask, tsHistory
<1>T. SchedulerTypes
  BY DEF SchedulerInv
<1>1. PICK k \in TaskType : /\ tasks' = [tasks EXCEPT ![t] = k] /\ k.next = k.first
                            /\ k.kind = "interval" => k.every > 0
  <2> DEFINE next == IF first # Never THEN first ELSE FirstRun(kind, every)
             k == [kind |-> kind, every |-> every, next |-> next, status |-> "active", first |-> next]
  <2>1. clock \in Nat
    BY <1>T DEF SchedulerTypes, SchedulerAssumption
  <2>2. FirstRun(kind, every) \in Nat
    BY <2>1, CronAfterIsNext DEF FirstRun
  <2>3. next \in Nat
    BY <2>2
  <2>4. tasks' = [tasks EXCEPT ![t] = k] /\ (kind = "interval" => every > 0)
    BY DEF CreateTask, Valid
  <2> HIDE DEF next
  <2>5. k \in TaskType /\ k.next = k.first /\ k.every = every /\ k.kind = kind
    BY <2>3 DEF TaskType
  <2> QED BY <2>4, <2>5
<1>2. ~Created(t) /\ table' = table \cup {t}
  BY DEF CreateTask, Created
<1>3. tasks'[t] = k /\ \A u \in Tasks : u # t => tasks'[u] = tasks[u]
  BY <1>1, <1>T DEF SchedulerTypes
<1>4. k # NoTask
  BY DEF TaskType, NoTask
<1>5. \A u \in Tasks : Created(u)' <=> (Created(u) \/ u = t)
  BY <1>3, <1>4 DEF Created
<1>6. \A p \in Runners : UnderWay(p)' <=> UnderWay(p)
  BY <1>0 DEF UnderWay
<1>7. \A p \in Runners, u \in Tasks : (Awaiting(p, u)' <=> Awaiting(p, u)) /\ (OnList(p, u)' <=> OnList(p, u))
  <2> TAKE p \in Runners, u \in Tasks
  <2>1. Awaiting(p, u)' <=> Awaiting(p, u)
    BY <1>0 DEF Awaiting
  <2>2. OnList(p, u)' <=> OnList(p, u)
    BY <1>0, <1>6 DEF OnList
  <2> QED BY <2>1, <2>2
<1>8. \A p \in Runners : UnderWay(p) =>
        \A i \in DOMAIN pass[p].due : pass[p].due[i] \in Tasks /\ Created(pass[p].due[i])
  <2> SUFFICES ASSUME NEW p \in Runners, UnderWay(p)
               PROVE  \A i \in DOMAIN pass[p].due : pass[p].due[i] \in Tasks /\ Created(pass[p].due[i])
    OBVIOUS
  <2>1. pass[p].due \in Seq(Tasks)
    BY <1>T DEF SchedulerTypes, PassType
  <2>2. ListOK(p)
    BY DEF SchedulerInv
  <2> QED BY <2>1, <2>2 DEF ListOK
<1>9. SchedulerTypes'
  <2>1. tasks' \in [Tasks -> TaskType \cup {NoTask}]
    BY <1>1, <1>T DEF SchedulerTypes
  <2>2. IsFiniteSet(table')
    BY <1>2, <1>T, FS_AddElement DEF SchedulerTypes
  <2>3. table' \subseteq Tasks
    BY <1>2, <1>T DEF SchedulerTypes
  <2> QED BY <2>1, <2>2, <2>3, <1>0, <1>T DEF SchedulerTypes
<1>10. MarkedOK'
  BY <1>0, <1>7 DEF MarkedOK, SchedulerInv
<1>11. ASSUME NEW p \in Runners PROVE ListOK(p)'
  <2>1. ListOK(p)
    BY DEF SchedulerInv
  <2>3. UnderWay(p) => \A i \in DOMAIN pass'[p].due : Created(pass[p].due[i])'
    BY <1>0, <1>5, <1>8
  <2> QED BY <2>1, <2>3, <1>0, <1>6 DEF ListOK
<1>12. SolePass'
  <2> SUFFICES ASSUME ~overlapped', NEW p \in Runners, UnderWay(p)'
               PROVE  /\ \A q \in Runners : UnderWay(q)' => p = q
                      /\ \A i \in DOMAIN pass'[p].due : IsDue(pass[p].due[i])'
    BY DEF SolePass
  <2>1. /\ \A q \in Runners : UnderWay(q) => p = q
        /\ \A i \in DOMAIN pass[p].due : IsDue(pass[p].due[i])
    BY <1>0, <1>6 DEF SolePass, SchedulerInv
  <2>2. \A i \in DOMAIN pass[p].due : pass[p].due[i] \in Tasks /\ pass[p].due[i] # t
    BY <1>2, <1>6, <1>8
  <2>3. \A u \in Tasks : (u # t /\ IsDue(u)) => IsDue(u)'
    BY <1>0, <1>3 DEF IsDue
  <2>4. \A i \in DOMAIN pass[p].due : IsDue(pass[p].due[i])'
    BY <1>0, <2>1, <2>2, <2>3
  <2> QED BY <2>1, <2>4, <1>0, <1>6
<1>13. \A u \in table' : Created(u)'
  BY <1>T, <1>2, <1>5 DEF SchedulerInv, SchedulerTypes
<1>14. ASSUME NEW u \in Tasks PROVE DeletedOK(u)' /\ TimesOK(u)' /\ GridOK(u)' /\ LogOK(u)'
  <2>1. DeletedOK(u) /\ TimesOK(u) /\ GridOK(u) /\ LogOK(u)
    BY DEF SchedulerInv
  <2>2. LogOK(u)'
    BY <2>1, <1>0, <1>7 DEF LogOK
  <2>3. CASE u # t
    <3>1. DeletedOK(u)'
      BY <2>1, <2>3, <1>0, <1>2, <1>5, <1>7 DEF DeletedOK
    <3>2. TimesOK(u)' /\ GridOK(u)'
      BY <2>1, <2>3, <1>0, <1>3, <1>5 DEF TimesOK, GridOK
    <3> QED BY <2>2, <3>1, <3>2
  <2>4. CASE u = t
    <3>1. gone'[t] = {} /\ runs'[t] = <<>>
      BY <2>1, <2>4, <1>0, <1>2 DEF DeletedOK, TimesOK
    <3>2. DeletedOK(u)'
      BY <2>4, <3>1 DEF DeletedOK
    <3>3. DOMAIN runs'[t] = {}
      BY <3>1
    <3>4. TimesOK(u)'
      BY <2>4, <1>5, <3>3 DEF TimesOK
    <3>5. k.next \in Nat /\ k.first \in Nat /\ k.every \in Nat
      BY DEF TaskType
    <3>6. k.kind = "interval" => OnGrid(k)
      <4>1. 0 \in 0 .. k.next /\ k.next = k.first + k.every * 0
        BY <1>1, <3>5
      <4> QED BY <4>1, <1>1 DEF OnGrid
    <3>7. k.first + 1 .. k.next - 1 = {}
      BY <1>1, <3>5
    <3>8. GridOK(u)'
      BY <2>4, <1>3, <3>6, <3>7 DEF GridOK, NoneMissed
    <3> QED BY <2>2, <3>2, <3>4, <3>8
  <2> QED BY <2>3, <2>4
<1> QED BY <1>9, <1>10, <1>11, <1>12, <1>13, <1>14 DEF SchedulerInv

\* Who is under way when a task is deleted is remembered; the task is off the table.
LEMMA DeleteKeeps ==
  ASSUME SchedulerInv, NEW t \in Tasks, DeleteTask(t)
  PROVE  SchedulerInv'
<1>0. UNCHANGED <<clock, tasks, runningIds, pass, polling, logs, runs, overlapped>>
  BY DEF DeleteTask
<1>T. SchedulerTypes
  BY DEF SchedulerInv
<1> DEFINE G == {p \in Runners : UnderWay(p)} \cup {"deleted"}
<1>1. /\ t \in table /\ table' = table \ {t} /\ gone'[t] = G
      /\ \A u \in Tasks : u # t => gone'[u] = gone[u]
  BY <1>T DEF DeleteTask, Removed, SchedulerTypes
<1>2. gone' \in [Tasks -> SUBSET (Runners \cup {"deleted"})]
  <2>1. G \in SUBSET (Runners \cup {"deleted"})
    OBVIOUS
  <2>2. gone' = [gone EXCEPT ![t] = G]
    BY DEF DeleteTask
  <2> HIDE DEF G
  <2> QED BY <1>T, <2>1, <2>2 DEF SchedulerTypes
<1>3. SchedulerTypes'
  <2>1. IsFiniteSet(table') /\ table' \subseteq Tasks
    BY <1>1, <1>T, FS_RemoveElement DEF SchedulerTypes
  <2> QED BY <2>1, <1>2, <1>0, <1>T DEF SchedulerTypes
<1>m. MarkedOK'
  BY <1>0 DEF SchedulerInv, MarkedOK, Awaiting
<1>s. SolePass'
  BY <1>0 DEF SchedulerInv, SolePass, IsDue, UnderWay
<1>4. (\A p \in Runners : ListOK(p)') /\ (\A u \in table' : Created(u)')
  BY <1>0, <1>1 DEF SchedulerInv, ListOK, Created, UnderWay
<1>5. ASSUME NEW u \in Tasks PROVE DeletedOK(u)' /\ TimesOK(u)' /\ GridOK(u)' /\ LogOK(u)'
  <2>1. DeletedOK(u) /\ TimesOK(u) /\ GridOK(u) /\ LogOK(u)
    BY DEF SchedulerInv
  <2>3. TimesOK(u)' /\ GridOK(u)'
    BY <2>1, <1>0 DEF TimesOK, GridOK, Created
  <2>4. LogOK(u)'
    BY <2>1, <1>0 DEF LogOK, Awaiting
  <2>5. CASE u # t
    <3>1. DeletedOK(u)'
      BY <2>1, <2>5, <1>0, <1>1 DEF DeletedOK, Created, OnList, UnderWay
    <3> QED BY <3>1, <2>3, <2>4
  <2>6. CASE u = t
    <3>1. Created(u)'
      BY <2>6, <1>0, <1>1 DEF SchedulerInv, Created
    <3>2. \A p \in Runners : OnList(p, u)' => p \in gone'[u]
      BY <2>6, <1>0, <1>1 DEF OnList, UnderWay
    <3>3. DeletedOK(u)'
      BY <2>6, <1>1, <3>1, <3>2 DEF DeletedOK
    <3> QED BY <3>3, <2>3, <2>4
  <2> QED BY <2>5, <2>6
<1> QED BY <1>3, <1>m, <1>s, <1>4, <1>5 DEF SchedulerInv

-----------------------------------------------------------------------------
\* What a move of p changes in who is under way, awaits what and has what on its list
LEMMA MoveOfPass ==
  ASSUME SchedulerTypes, NEW p \in Runners, NEW s, NEW q \in Seq(Tasks), NEW running,
         LeftAs(p, s, q, running)
  PROVE  /\ pass' \in [Runners -> PassType]
         /\ \A r \in Runners : pass'[r] = IF r = p THEN s ELSE pass[r]
         /\ \A r \in Runners : UnderWay(r)' <=> IF r = p THEN s.at = "wait" ELSE UnderWay(r)
         /\ \A r \in Runners, t \in Tasks :
              OnList(r, t)' => IF r = p THEN \E j \in DOMAIN q : q[j] = t ELSE OnList(r, t)
         /\ \A r \in Runners, t \in Tasks :
              Awaiting(r, t)' => IF r = p THEN s.at = "wait" ELSE Awaiting(r, t)
<1>1. pass' \in [Runners -> PassType] /\ \A r \in Runners : pass'[r] = IF r = p THEN s ELSE pass[r]
  BY DEF SchedulerTypes, LeftAs
<1>2. \A r \in Runners : UnderWay(r)' <=> IF r = p THEN s.at = "wait" ELSE UnderWay(r)
  BY <1>1 DEF UnderWay
<1>3. \A r \in Runners, t \in Tasks :
        OnList(r, t)' => IF r = p THEN \E j \in DOMAIN q : q[j] = t ELSE OnList(r, t)
  <2> SUFFICES ASSUME NEW r \in Runners, NEW t \in Tasks, OnList(r, t)'
               PROVE  IF r = p THEN \E j \in DOMAIN q : q[j] = t ELSE OnList(r, t)
    OBVIOUS
  <2>1. CASE r = p
    <3>1. s.at = "wait" /\ \E i \in DOMAIN s.due : s.due[i] = t
      BY <2>1, <1>1, <1>2 DEF OnList
    <3> QED BY <2>1, <3>1 DEF LeftAs
  <2>2. CASE r # p
    BY <2>2, <1>1, <1>2 DEF OnList
  <2> QED BY <2>1, <2>2
<1>4. \A r \in Runners, t \in Tasks :
        Awaiting(r, t)' => IF r = p THEN s.at = "wait" ELSE Awaiting(r, t)
  BY <1>1 DEF Awaiting
<1> QED BY <1>1, <1>2, <1>3, <1>4

\* The lists after a move of p whose new list is of created tasks
LEMMA ListsAfterMove ==
  ASSUME SchedulerInv, SchedulerAssumption, NEW p \in Runners, NEW s, NEW q \in Seq(Tasks),
         NEW running, LeftAs(p, s, q, running), clock' = clock,
         \A t \in Tasks : Created(t)' <=> Created(t), \A j \in DOMAIN q : Created(q[j]),
         NEW r \in Runners
  PROVE  ListOK(r)'
<1>T. SchedulerTypes /\ ListOK(r) /\ clock \in Nat
  BY DEF SchedulerInv, SchedulerTypes, SchedulerAssumption
<1>1. pass'[r] = IF r = p THEN s ELSE pass[r]
  BY <1>T, MoveOfPass
<1>2. UnderWay(r)' <=> IF r = p THEN s.at = "wait" ELSE UnderWay(r)
  BY <1>T, MoveOfPass
<1>3. CASE r = p
  <2> SUFFICES ASSUME s.at = "wait"
               PROVE  /\ s.due # <<>> /\ Distinct(s.due) /\ s.runAt <= clock
                      /\ \A i \in DOMAIN pass'[r].due : Created(pass[r].due[i])'
    BY <1>1, <1>2, <1>3 DEF ListOK, Distinct
  <2>1. s.due # <<>> /\ Distinct(s.due) /\ s.runAt <= clock
    BY <1>T DEF LeftAs
  <2>2. \A i \in DOMAIN s.due : \E j \in DOMAIN q : s.due[i] = q[j]
    BY DEF LeftAs
  <2>3. \A i \in DOMAIN s.due : s.due[i] \in Tasks /\ Created(s.due[i])
    BY <2>2
  <2>4. \A i \in DOMAIN pass'[r].due : Created(pass[r].due[i])'
    BY <2>3, <1>1, <1>3
  <2> QED BY <2>1, <2>4
<1>4. CASE r # p
  <2>1. pass[r].due \in Seq(Tasks)
    BY <1>T DEF SchedulerTypes, PassType
  <2>2. pass'[r] = pass[r]
    BY <1>1, <1>4
  <2>3. UnderWay(r) => \A i \in DOMAIN pass[r].due : pass[r].due[i] \in Tasks /\ Created(pass[r].due[i])
    BY <1>T, <2>1 DEF ListOK
  <2>4. UnderWay(r) => \A i \in DOMAIN pass'[r].due : Created(pass[r].due[i])'
    BY <2>2, <2>3
  <2> QED BY <1>T, <1>2, <1>4, <2>2, <2>4 DEF ListOK, Distinct
<1> QED BY <1>3, <1>4

\* A pass that begins has a list of tasks that are due and in the table.
LEMMA BeginsKeeps ==
  ASSUME SchedulerInv, SchedulerAssumption, NEW p \in Runners, NEW flag, ~UnderWay(p),
         Begins(p, flag), UNCHANGED <<clock, tasks, table, logs, runs>>, polling' \in BOOLEAN
  PROVE  SchedulerInv'
<1>T. SchedulerTypes /\ ListOK(p) /\ MarkedOK /\ clock \in Nat
  BY DEF SchedulerInv, SchedulerTypes, SchedulerAssumption
<1>1. PICK q \in DueTasks : GoesOn(p, q, runningIds, flag)
  BY DEF Begins
<1>2. /\ q \in Seq(Tasks) /\ Distinct(q)
      /\ \A i \in DOMAIN q : q[i] \in table /\ IsDue(q[i])
  BY <1>T, DueTasksAre
<1>3. runningIds = Others(p)
  BY <1>T, ReleasedToOthers
<1>4. PICK s : LeftAs(p, s, q, Others(p))
  BY <1>1, <1>2, <1>3, <1>T, GoesOnLeaves
<1>5. MarkedOK' /\ runningIds' \subseteq Tasks
  BY <1>4, <1>T, MarksKept
<1>6. pass' \in [Runners -> PassType] /\ \A r \in Runners : pass'[r] = IF r = p THEN s ELSE pass[r]
  BY <1>4, <1>2, <1>T, MoveOfPass
<1>7. \A r \in Runners : UnderWay(r)' <=> IF r = p THEN s.at = "wait" ELSE UnderWay(r)
  BY <1>4, <1>2, <1>T, MoveOfPass
<1>8. /\ \A r \in Runners, t \in Tasks :
           OnList(r, t)' => IF r = p THEN \E j \in DOMAIN q : q[j] = t ELSE OnList(r, t)
      /\ \A r \in Runners, t \in Tasks :
           Awaiting(r, t)' => IF r = p THEN s.at = "wait" ELSE Awaiting(r, t)
  BY <1>4, <1>2, <1>T, MoveOfPass
<1>9. /\ overlapped' \in BOOLEAN
      /\ overlapped => overlapped'
      /\ ~overlapped' => \A r \in Runners : UnderWay(r) => r = p
      /\ \A t \in Tasks : gone'[t] = gone[t] \ {p}
  BY <1>T DEF Begins, SchedulerTypes
<1>10. SchedulerTypes'
  <2>1. gone' \in [Tasks -> SUBSET (Runners \cup {"deleted"})]
    BY <1>T DEF Begins, SchedulerTypes
  <2> QED BY <2>1, <1>T, <1>5, <1>6, <1>9 DEF SchedulerTypes
<1>c. \A t \in Tasks : Created(t)' <=> Created(t)
  BY DEF Created
<1>11. \A j \in DOMAIN q : Created(q[j])
  BY <1>2 DEF SchedulerInv
<1>12. \A r \in Runners : ListOK(r)'
  BY <1>2, <1>4, <1>c, <1>11, ListsAfterMove
<1>13. SolePass'
  <2> SUFFICES ASSUME ~overlapped', NEW r \in Runners, UnderWay(r)'
               PROVE  /\ \A u \in Runners : UnderWay(u)' => r = u
                      /\ \A i \in DOMAIN pass'[r].due : IsDue(pass[r].due[i])'
    BY DEF SolePass
  <2>1. r = p /\ s.at = "wait" /\ \A u \in Runners : UnderWay(u)' => u = p
    BY <1>7, <1>9
  <2>2. \A i \in DOMAIN s.due : \E j \in DOMAIN q : s.due[i] = q[j]
    BY <2>1, <1>4 DEF LeftAs
  <2>3. \A i \in DOMAIN s.due : IsDue(s.due[i])
    BY <2>2, <1>2
  <2>4. \A i \in DOMAIN pass'[r].due : IsDue(pass[r].due[i])'
    BY <2>1, <2>3, <1>6 DEF IsDue
  <2> QED BY <2>1, <2>4
<1>14. \A t \in table' : Created(t)'
  BY DEF SchedulerInv, Created
<1>15. ASSUME NEW t \in Tasks PROVE DeletedOK(t)' /\ TimesOK(t)' /\ GridOK(t)' /\ LogOK(t)'
  <2>1. DeletedOK(t) /\ TimesOK(t) /\ GridOK(t) /\ LogOK(t)
    BY DEF SchedulerInv
  <2>2. DeletedOK(t)'
    <3> SUFFICES ASSUME gone'[t] # {} PROVE DeletedOK(t)'
      BY DEF DeletedOK
    <3>1. /\ "deleted" \in gone[t] /\ t \notin table /\ Created(t)
          /\ \A r \in Runners : OnList(r, t) => r \in gone[t]
      BY <2>1, <1>9 DEF DeletedOK
    <3>2. p # "deleted"
      BY DEF SchedulerAssumption, Runners
    <3>3. "deleted" \in gone'[t] /\ t \notin table' /\ Created(t)'
      BY <3>1, <3>2, <1>9, <1>c
    <3>4. \A r \in Runners : OnList(r, t)' => r \in gone'[t]
      BY <3>1, <1>8, <1>9, <1>2
    <3> QED BY <3>3, <3>4 DEF DeletedOK
  <2>3. TimesOK(t)'
    BY <2>1, <1>9, <1>c DEF TimesOK
  <2>4. GridOK(t)'
    BY <2>1 DEF GridOK, Created
  <2>5. LogOK(t)'
    <3>1. \A r \in Runners : Awaiting(r, t)' =>
            \A i \in DOMAIN logs[t] : logs[t][i].runAt <= pass'[r].runAt
      <4> SUFFICES ASSUME NEW r \in Runners, Awaiting(r, t)'
                   PROVE  \A i \in DOMAIN logs[t] : logs[t][i].runAt <= pass'[r].runAt
        OBVIOUS
      <4>1. CASE r = p
        <5>1. s.at = "wait" /\ s.runAt = clock
          BY <4>1, <1>4, <1>8 DEF LeftAs
        <5> QED BY <5>1, <4>1, <1>6, <2>1 DEF LogOK
      <4>2. CASE r # p
        BY <4>2, <1>6, <1>8, <2>1 DEF LogOK
      <4> QED BY <4>1, <4>2
    <3> QED BY <3>1, <2>1 DEF LogOK
  <2> QED BY <2>2, <2>3, <2>4, <2>5
<1> QED BY <1>10, <1>5, <1>12, <1>13, <1>14, <1>15 DEF SchedulerInv

\* A pass that is over or cancelled leaves the others as they are.
LEMMA DropKeeps ==
  ASSUME SchedulerInv, SchedulerAssumption, NEW p \in Runners,
         pass' = [pass EXCEPT ![p] = NoPass],
         runningIds' = IF UnderWay(p) THEN Released(p) ELSE runningIds,
         UNCHANGED <<clock, tasks, table, logs, runs, gone, overlapped>>, polling' \in BOOLEAN
  PROVE  SchedulerInv'
<1>T. SchedulerTypes /\ ListOK(p) /\ MarkedOK
  BY DEF SchedulerInv
<1>1. <<>> \in Seq(Tasks) /\ DOMAIN <<>> = {}
  BY EmptySeq
<1>2. LeftAs(p, NoPass, <<>>, Others(p))
  <2>1. NoPass \in PassType /\ NoPass.at # "wait"
    BY <1>1 DEF NoPass, PassType
  <2>2. runningIds' = Others(p)
    BY <1>T, ReleasedToOthers
  <2> QED BY <2>1, <2>2 DEF LeftAs
<1>3. MarkedOK' /\ runningIds' \subseteq Tasks
  BY <1>2, <1>T, MarksKept
<1>4. pass' \in [Runners -> PassType] /\ \A r \in Runners : pass'[r] = IF r = p THEN NoPass ELSE pass[r]
  BY <1>2, <1>1, <1>T, MoveOfPass
<1>5. \A r \in Runners : UnderWay(r)' <=> (r # p /\ UnderWay(r))
  <2>1. \A r \in Runners : UnderWay(r)' <=> IF r = p THEN NoPass.at = "wait" ELSE UnderWay(r)
    BY <1>2, <1>1, <1>T, MoveOfPass
  <2> QED BY <2>1 DEF NoPass
<1>6. \A r \in Runners, t \in Tasks : OnList(r, t)' => OnList(r, t)
  BY <1>4, <1>5 DEF OnList
<1>7. \A r \in Runners, t \in Tasks : Awaiting(r, t)' => Awaiting(r, t) /\ r # p
  BY <1>4 DEF Awaiting, NoPass
<1>8. SchedulerTypes'
  BY <1>T, <1>3, <1>4 DEF SchedulerTypes
<1>9. \A r \in Runners : ListOK(r)'
  <2>1. \A t \in Tasks : Created(t)' <=> Created(t)
    BY DEF Created
  <2> QED BY <1>1, <1>2, <2>1, ListsAfterMove
<1>10. SolePass'
  <2> SUFFICES ASSUME ~overlapped', NEW r \in Runners, UnderWay(r)'
               PROVE  /\ \A u \in Runners : UnderWay(u)' => r = u
                      /\ \A i \in DOMAIN pass'[r].due : IsDue(pass[r].due[i])'
    BY DEF SolePass
  <2>1. /\ \A u \in Runners : UnderWay(u) => r = u
        /\ \A i \in DOMAIN pass[r].due : IsDue(pass[r].due[i])
    BY <1>5 DEF SolePass, SchedulerInv
  <2>2. \A i \in DOMAIN pass'[r].due : IsDue(pass[r].due[i])'
    BY <2>1, <1>4, <1>5 DEF IsDue
  <2> QED BY <2>1, <2>2, <1>5
<1>11. \A t \in table' : Created(t)'
  BY DEF SchedulerInv, Created
<1>12. ASSUME NEW t \in Tasks PROVE DeletedOK(t)' /\ TimesOK(t)' /\ GridOK(t)' /\ LogOK(t)'
  <2>1. DeletedOK(t) /\ TimesOK(t) /\ GridOK(t) /\ LogOK(t)
    BY DEF SchedulerInv
  <2>2. DeletedOK(t)'
    BY <2>1, <1>6 DEF DeletedOK, Created
  <2>3. TimesOK(t)' /\ GridOK(t)'
    BY <2>1 DEF TimesOK, GridOK, Created
  <2>4. LogOK(t)'
    BY <2>1, <1>4, <1>7 DEF LogOK
  <2> QED BY <2>2, <2>3, <2>4
<1> QED BY <1>3, <1>8, <1>9, <1>10, <1>11, <1>12 DEF SchedulerInv

\* The task whose run ends, and what it is like afterwards
LEMMA TaskAfterRun ==
  ASSUME SchedulerInv, SchedulerAssumption, NEW p \in Runners, NEW how \in {"success", "failure"},
         TaskEnds(p, how)
  PROVE  LET t == Head(pass[p].due)
             k == IF how = "success" THEN AfterSuccess(tasks[t]) ELSE tasks[t]
         IN /\ t \in Tasks /\ Created(t) /\ Awaiting(p, t) /\ tasks[t] \in TaskType
            /\ k \in TaskType /\ k.kind = tasks[t].kind
            /\ tasks' = [tasks EXCEPT ![t] = k]
            /\ tasks[t].kind = "interval" => OnGrid(k)
            /\ k.every = tasks[t].every /\ k.first = tasks[t].first
            /\ how = "success" =>
                 /\ tasks[t].next <= clock => k.next > tasks[t].next
                 /\ tasks[t].kind = "cron" => k.next = CronAfter(tasks[t].next)
<1> DEFINE t == Head(pass[p].due)
           k == IF how = "success" THEN AfterSuccess(tasks[t]) ELSE tasks[t]
<1>T. SchedulerTypes /\ ListOK(p)
  BY DEF SchedulerInv
<1>1. pass[p].at = "wait" /\ UnderWay(p)
  BY DEF TaskEnds, UnderWay
<1>2. t \in Tasks /\ Created(t) /\ Awaiting(p, t)
  <2>1. pass[p].due \in Seq(Tasks) /\ pass[p].due # <<>>
    BY <1>1, <1>T DEF SchedulerTypes, PassType, ListOK
  <2>2. 1 \in DOMAIN pass[p].due /\ t = pass[p].due[1]
    BY <2>1
  <2> QED BY <2>1, <2>2, <1>1, <1>T DEF ListOK, Awaiting
<1>3. tasks[t] \in TaskType
  BY <1>2, <1>T DEF SchedulerTypes, Created
<1>4. tasks[t].kind = "interval" => OnGrid(tasks[t])
  BY <1>2 DEF SchedulerInv, GridOK
<1>5. tasks' = [tasks EXCEPT ![t] = k]
  <2>1. tasks' = [tasks EXCEPT ![t] = IF how = "success" THEN AfterSuccess(@) ELSE @]
    BY DEF TaskEnds
  <2> QED BY <2>1
<1>6. CASE how # "success"
  BY <1>2, <1>3, <1>4, <1>5, <1>6
<1>7. CASE how = "success"
  <2> DEFINE o == tasks[t]
  <2>1. /\ NextRun(o) \in Nat
        /\ o.next <= clock => NextRun(o) > o.next
        /\ o.kind = "interval" => \E m \in 0 .. NextRun(o) : NextRun(o) = o.first + o.every * m
        /\ o.kind = "cron" => NextRun(o) = CronAfter(o.next)
    BY <1>3, <1>4, <1>T, NextRunLater DEF SchedulerTypes
  <2>2. /\ AfterSuccess(o) \in TaskType
        /\ AfterSuccess(o).kind = o.kind /\ AfterSuccess(o).every = o.every
        /\ AfterSuccess(o).first = o.first /\ AfterSuccess(o).next = NextRun(o)
    BY <1>3, <2>1, AfterSuccessFields
  <2>3. k = AfterSuccess(o)
    BY <1>7
  <2>4. o.kind = "interval" => OnGrid(k)
    BY <2>1, <2>2, <2>3, <1>4 DEF OnGrid
  <2>5. /\ k \in TaskType /\ k.kind = o.kind /\ k.every = o.every /\ k.first = o.first
        /\ o.next <= clock => k.next > o.next
        /\ o.kind = "cron" => k.next = CronAfter(o.next)
    BY <2>1, <2>2, <2>3
  <2> QED BY <2>4, <2>5, <1>2, <1>3, <1>5, <1>7
<1> QED BY <1>6, <1>7

\* The end of a run moves its task on, once for each time it was due.
LEMMA TaskEndsKeeps ==
  ASSUME SchedulerInv, SchedulerAssumption, NEW p \in Runners, NEW how \in {"success", "failure"},
         TaskEnds(p, how)
  PROVE  SchedulerInv'
<1>t. PICK t \in Tasks : t = Head(pass[p].due)
  BY TaskAfterRun
<1> DEFINE o == tasks[t]
           k == IF how = "success" THEN AfterSuccess(o) ELSE o
           q == Tail(pass[p].due)
           row == [id |-> Len(logs[t]) + 1, runAt |-> pass[p].runAt, status |-> how]
<1>T. /\ SchedulerTypes /\ ListOK(p) /\ MarkedOK /\ UnderWay(p)
      /\ clock \in Nat /\ pass[p].runAt \in Nat
  <2>1. SchedulerTypes /\ ListOK(p) /\ MarkedOK
    BY DEF SchedulerInv
  <2>2. UnderWay(p)
    BY DEF TaskEnds, UnderWay
  <2>3. clock \in Nat /\ pass[p].runAt \in Nat
    BY <2>1 DEF SchedulerTypes, SchedulerAssumption, PassType
  <2> QED BY <2>1, <2>2, <2>3
<1>1. /\ t \in Tasks /\ Created(t) /\ Awaiting(p, t) /\ o \in TaskType
      /\ k \in TaskType /\ k.kind = o.kind /\ tasks' = [tasks EXCEPT ![t] = k]
      /\ o.kind = "interval" => OnGrid(k)
      /\ k.every = o.every /\ k.first = o.first
      /\ how = "success" => /\ o.next <= clock => k.next > o.next
                            /\ o.kind = "cron" => k.next = CronAfter(o.next)
      /\ how # "success" => k = o
  BY <1>t, TaskAfterRun
<1>2. /\ logs' = [logs EXCEPT ![t] = Append(@, [id |-> Len(@) + 1, runAt |-> pass[p].runAt, status |-> how])]
      /\ runs' = IF how = "success" THEN [runs EXCEPT ![t] = Append(@, o.next)] ELSE runs
      /\ GoesOn(p, q, Released(p), polling)
      /\ UNCHANGED <<clock, table, polling, gone, overlapped>>
  BY <1>t DEF TaskEnds
<1>3. /\ q \in Seq(Tasks) /\ Distinct(q)
      /\ \A j \in DOMAIN q : q[j] # t /\ OnList(p, q[j]) /\ Created(q[j])
  <2>1. /\ pass[p].due \in Seq(Tasks) /\ pass[p].due # <<>> /\ Distinct(pass[p].due)
        /\ \A i \in DOMAIN pass[p].due : Created(pass[p].due[i])
    BY <1>T DEF SchedulerTypes, PassType, ListOK
  <2> DEFINE d == pass[p].due
  <2>2. /\ q \in Seq(Tasks) /\ Len(q) = Len(d) - 1 /\ t = d[1]
        /\ \A i \in 1 .. Len(q) : q[i] = d[i + 1]
    BY <2>1, <1>t, HeadTailProperties
  <2>3. \A j \in DOMAIN q : j + 1 \in DOMAIN d /\ 1 \in DOMAIN d /\ q[j] = d[j + 1] /\ j + 1 # 1
    BY <2>1, <2>2
  <2>4. \A i, j \in DOMAIN q : i # j => i + 1 # j + 1
    BY <2>2
  <2> HIDE DEF q
  <2>5. Distinct(q)
    BY <2>1, <2>3, <2>4 DEF Distinct
  <2>6. \A j \in DOMAIN q : q[j] # t
    BY <2>1, <2>2, <2>3 DEF Distinct
  <2> QED BY <2>1, <2>2, <2>3, <2>5, <2>6, <1>T DEF OnList
<1>4. PICK s : LeftAs(p, s, q, Others(p))
  <2>1. Released(p) = Others(p)
    BY <1>T, ReleasedToOthers
  <2> HIDE DEF q
  <2> QED BY <2>1, <1>2, <1>3, <1>T, GoesOnLeaves
<1>5. /\ logs' = [logs EXCEPT ![t] = Append(logs[t], row)]
      /\ row \in LogType /\ row.id = Len(logs[t]) + 1 /\ row.runAt = pass[p].runAt
  BY <1>1, <1>2, <1>T DEF SchedulerTypes, LogType
<1> HIDE DEF q, k, row, o
<1>6. MarkedOK' /\ runningIds' \subseteq Tasks
  BY <1>4, <1>T, MarksKept
<1>7. pass' \in [Runners -> PassType] /\ \A r \in Runners : pass'[r] = IF r = p THEN s ELSE pass[r]
  BY <1>3, <1>4, <1>T, MoveOfPass
<1>8. \A r \in Runners : UnderWay(r)' <=> IF r = p THEN s.at = "wait" ELSE UnderWay(r)
  BY <1>3, <1>4, <1>T, MoveOfPass
<1>9. /\ \A r \in Runners, u \in Tasks :
           OnList(r, u)' => IF r = p THEN \E j \in DOMAIN q : q[j] = u ELSE OnList(r, u)
      /\ \A r \in Runners, u \in Tasks :
           Awaiting(r, u)' => IF r = p THEN s.at = "wait" ELSE Awaiting(r, u)
  BY <1>3, <1>4, <1>T, MoveOfPass
<1>10. /\ tasks'[t] = k /\ \A u \in Tasks : u # t => tasks'[u] = tasks[u]
       /\ logs'[t] = Append(logs[t], row) /\ \A u \in Tasks : u # t => logs'[u] = logs[u]
       /\ \A u \in Tasks : u # t => runs'[u] = runs[u]
       /\ runs'[t] = IF how = "success" THEN Append(runs[t], o.next) ELSE runs[t]
  BY <1>1, <1>2, <1>5, <1>T DEF SchedulerTypes
<1>c. \A u \in Tasks : Created(u)' <=> Created(u)
  <2>1. k # NoTask
    BY <1>1 DEF TaskType, NoTask
  <2> QED BY <2>1, <1>1, <1>10 DEF Created
<1>11. SchedulerTypes'
  <2>1. tasks' \in [Tasks -> TaskType \cup {NoTask}]
    BY <1>1, <1>T DEF SchedulerTypes
  <2>2. logs' \in [Tasks -> Seq(LogType)]
    <3>1. logs[t] \in Seq(LogType)
      BY <1>1, <1>T DEF SchedulerTypes
    <3>2. Append(logs[t], row) \in Seq(LogType)
      BY <3>1, <1>5, AppendProperties
    <3> QED BY <3>2, <1>5, <1>T DEF SchedulerTypes
  <2>3. runs' \in [Tasks -> Seq(Nat)]
    <3>1. runs[t] \in Seq(Nat) /\ o.next \in Nat
      BY <1>1, <1>T DEF SchedulerTypes, TaskType
    <3>2. Append(runs[t], o.next) \in Seq(Nat)
      BY <3>1, AppendProperties
    <3>3. runs' = IF how = "success" THEN [runs EXCEPT ![t] = Append(runs[t], o.next)] ELSE runs
      BY <1>2
    <3> QED BY <3>2, <3>3, <1>T DEF SchedulerTypes
  <2> QED BY <2>1, <2>2, <2>3, <1>2, <1>6, <1>7, <1>T DEF SchedulerTypes
<1>12. \A r \in Runners : ListOK(r)'
  BY <1>2, <1>3, <1>4, <1>c, ListsAfterMove
<1>13. SolePass'
  <2> SUFFICES ASSUME ~overlapped', NEW r \in Runners, UnderWay(r)'
               PROVE  /\ \A u \in Runners : UnderWay(u)' => r = u
                      /\ \A i \in DOMAIN pass'[r].due : IsDue(pass[r].due[i])'
    BY DEF SolePass
  <2>1. /\ \A u \in Runners : UnderWay(u) => p = u
        /\ \A i \in DOMAIN pass[p].due : IsDue(pass[p].due[i])
    BY <1>2, <1>T DEF SolePass, SchedulerInv
  <2>2. r = p /\ s.at = "wait" /\ \A u \in Runners : UnderWay(u)' => u = p
    BY <2>1, <1>8
  <2>3. \A j \in DOMAIN q : q[j] \in Tasks /\ q[j] # t /\ IsDue(q[j])
    BY <2>1, <1>3 DEF OnList
  <2>4. \A u \in Tasks : (u # t /\ IsDue(u)) => IsDue(u)'
    BY <1>2, <1>10 DEF IsDue
  <2>5. \A i \in DOMAIN s.due : \E j \in DOMAIN q : s.due[i] = q[j]
    BY <2>2, <1>4 DEF LeftAs
  <2>6. \A i \in DOMAIN pass'[r].due : IsDue(pass[r].due[i])'
    BY <2>2, <2>3, <2>4, <2>5, <1>7
  <2> QED BY <2>2, <2>6
<1>14. \A u \in table' : Created(u)'
  BY <1>2, <1>c, <1>T DEF SchedulerInv, SchedulerTypes
<1>15. ASSUME NEW u \in Tasks PROVE DeletedOK(u)'
  <2>1. DeletedOK(u)
    BY DEF SchedulerInv
  <2>2. \A r \in Runners : OnList(r, u)' => OnList(r, u)
    BY <1>3, <1>9
  <2> QED BY <2>1, <2>2, <1>2, <1>c DEF DeletedOK
<1>16. ASSUME NEW u \in Tasks PROVE TimesOK(u)' /\ GridOK(u)'
  <2>1. TimesOK(u) /\ GridOK(u)
    BY DEF SchedulerInv
  <2>2. CASE u # t
    BY <2>1, <2>2, <1>2, <1>10, <1>c DEF TimesOK, GridOK
  <2>3. CASE u = t /\ how # "success"
    <3>1. tasks'[u] = tasks[u] /\ runs'[u] = runs[u]
      BY <2>3, <1>1, <1>10 DEF o
    <3> QED BY <3>1, <2>1, <1>2, <1>c DEF TimesOK, GridOK
  <2>4. CASE u = t /\ how = "success"
    <3> DEFINE r == runs[t]
    <3>1. r \in Seq(Nat) /\ o.next \in Nat /\ k.next \in Nat /\ o.first \in Nat
      BY <1>1, <1>T DEF SchedulerTypes, TaskType
    <3>2. /\ Len(runs'[t]) = Len(r) + 1 /\ DOMAIN runs'[t] = 1 .. Len(r) + 1
          /\ \A i \in 1 .. Len(r) : runs'[t][i] = r[i]
          /\ runs'[t][Len(r) + 1] = o.next
      <4>1. runs'[t] = Append(r, o.next)
        BY <2>4, <1>10
      <4>2. Append(r, o.next) \in Seq(Nat) /\ Len(Append(r, o.next)) = Len(r) + 1
        BY <3>1, AppendProperties
      <4> QED BY <4>1, <4>2, <3>1, AppendProperties
    <3>3. TimesOK(u)'
      <4> SUFFICES ASSUME ~overlapped
                   PROVE  /\ \A i, j \in DOMAIN runs'[t] : i < j => runs'[t][i] < runs'[t][j]
                          /\ \A i \in DOMAIN runs'[t] : runs'[t][i] < k.next
        BY <2>4, <1>1, <1>2, <1>10, <1>c DEF TimesOK
      <4>1. IsDue(t)
        <5>1. \A i \in DOMAIN pass[p].due : IsDue(pass[p].due[i])
          BY <1>T DEF SolePass, SchedulerInv
        <5>2. pass[p].due \in Seq(Tasks) /\ pass[p].due # <<>>
          BY <1>T DEF SchedulerTypes, PassType, ListOK
        <5>3. 1 \in DOMAIN pass[p].due /\ t = pass[p].due[1]
          BY <5>2, <1>t
        <5> QED BY <5>1, <5>3
      <4>2. k.next > o.next
        BY <4>1, <2>4, <1>1 DEF IsDue, o
      <4>3. /\ \A i, j \in 1 .. Len(r) : i < j => r[i] < r[j]
            /\ \A i \in 1 .. Len(r) : r[i] < o.next
        <5>1. DOMAIN r = 1 .. Len(r)
          BY <3>1
        <5> QED BY <5>1, <2>1, <2>4, <1>1 DEF TimesOK, o
      <4>4. \A i \in 1 .. Len(r) : r[i] \in Nat
        BY <3>1
      <4> HIDE DEF r
      <4>5. Len(r) \in Nat
        BY <3>1
      <4>6. \A i \in 1 .. Len(r) + 1 : i = Len(r) + 1 \/ i \in 1 .. Len(r)
        BY <4>5
      <4>7. \A i, j \in 1 .. Len(r) + 1 : i < j => i \in 1 .. Len(r)
        BY <4>5
      <4>8. \A i, j \in 1 .. Len(r) + 1 : i < j => runs'[t][i] < runs'[t][j]
        BY <4>3, <4>6, <4>7, <3>2
      <4>9. \A i \in 1 .. Len(r) + 1 : runs'[t][i] < k.next
        <5>1. \A i \in 1 .. Len(r) : r[i] < k.next
          BY <4>2, <4>3, <4>4, <3>1
        <5> QED BY <5>1, <4>2, <4>6, <3>2
      <4> QED BY <4>8, <4>9, <3>2
    <3>4. k.kind = "cron" => NoneMissed(k, runs'[t])
      <4> SUFFICES ASSUME k.kind = "cron",
                          NEW n \in k.first + 1 .. k.next - 1, n % CronPeriod = 0
                   PROVE  \E i \in DOMAIN runs'[t] : runs'[t][i] = n
        BY DEF NoneMissed
      <4>1. k.next = CronAfter(o.next) /\ k.first = o.first /\ o.kind = "cron"
        BY <2>4, <1>1
      <4>2. NoneMissed(o, r)
        BY <4>1, <2>1, <2>4, <1>1 DEF GridOK, o
      <4>3. n \in Nat
        BY <3>1, <4>1
      <4>4. CASE n > o.next
        <5>1. n \in o.next + 1 .. CronAfter(o.next) - 1
          BY <4>1, <4>3, <4>4, <3>1
        <5> QED BY <5>1, <3>1, CronAfterIsNext
      <4>5. CASE n = o.next
        <5>1. Len(r) + 1 \in DOMAIN runs'[t]
          BY <3>1, <3>2
        <5> QED BY <5>1, <4>5, <3>2
      <4>6. CASE n < o.next
        <5>1. n \in o.first + 1 .. o.next - 1
          BY <4>1, <4>3, <4>6, <3>1
        <5>2. PICK i \in DOMAIN r : r[i] = n
          BY <5>1, <4>2 DEF NoneMissed
        <5>3. i \in 1 .. Len(r) /\ i \in DOMAIN runs'[t]
          BY <5>2, <3>1, <3>2
        <5> QED BY <5>2, <5>3, <3>2
      <4> QED BY <4>3, <4>4, <4>5, <4>6, <3>1
    <3>5. GridOK(u)'
      BY <3>4, <2>4, <1>1, <1>10 DEF GridOK
    <3> QED BY <3>3, <3>5
  <2> QED BY <2>2, <2>3, <2>4
<1>17. ASSUME NEW u \in Tasks PROVE LogOK(u)'
  <2>1. LogOK(u) /\ clock' = clock
    BY <1>2 DEF SchedulerInv
  <2>2. CASE u # t
    <3>1. \A r \in Runners : Awaiting(r, u)' =>
            \A i \in DOMAIN logs[u] : logs[u][i].runAt <= pass'[r].runAt
      <4> SUFFICES ASSUME NEW r \in Runners, Awaiting(r, u)'
                   PROVE  \A i \in DOMAIN logs[u] : logs[u][i].runAt <= pass'[r].runAt
        OBVIOUS
      <4>1. CASE r = p
        <5>1. s.at = "wait" /\ s.runAt = clock
          BY <4>1, <1>4, <1>9 DEF LeftAs
        <5> QED BY <5>1, <4>1, <1>7, <2>1 DEF LogOK
      <4>2. CASE r # p
        BY <4>2, <1>7, <1>9, <2>1 DEF LogOK
      <4> QED BY <4>1, <4>2
    <3> QED BY <3>1, <2>1, <2>2, <1>10 DEF LogOK
  <2>3. CASE u = t
    <3> DEFINE l == logs[t]
               n == Len(l) + 1
    <3>1. l \in Seq(LogType) /\ Len(l) \in Nat /\ DOMAIN l = 1 .. Len(l)
      BY <1>1, <1>T DEF SchedulerTypes
    <3>2. /\ DOMAIN logs'[t] = 1 .. n /\ logs'[t][n] = row
          /\ \A i \in 1 .. Len(l) : logs'[t][i] = l[i]
      <4>1. logs'[t] = Append(l, row) /\ row \in LogType
        BY <1>5, <1>10
      <4>2. Append(l, row) \in Seq(LogType) /\ Len(Append(l, row)) = n
        BY <3>1, <4>1, AppendProperties
      <4> QED BY <4>1, <4>2, <3>1, AppendProperties
    <3>3. \A i \in 1 .. Len(l) : /\ l[i].id = i /\ l[i].runAt <= clock /\ l[i].runAt <= pass[p].runAt
                                 /\ l[i].runAt \in Nat
      <4>1. \A i \in 1 .. Len(l) : l[i] \in LogType
        BY <3>1
      <4> QED BY <4>1, <3>1, <2>1, <2>3, <1>1 DEF LogOK, LogType
    <3>4. \A i, j \in 1 .. Len(l) : i < j => l[i].runAt <= l[j].runAt
      BY <3>1, <2>1, <2>3 DEF LogOK
    <3>5. row.runAt = pass[p].runAt /\ row.runAt <= clock /\ row.id = n
      BY <1>5, <1>T DEF ListOK
    <3> HIDE DEF l
    <3>6. /\ \A i \in 1 .. n : logs'[t][i].id = i /\ logs'[t][i].runAt <= clock
          /\ \A i, j \in 1 .. n : i < j => logs'[t][i].runAt <= logs'[t][j].runAt
      <4>1. n = Len(l) + 1 /\ n \in Nat
        BY <3>1
      <4> HIDE DEF n
      <4>2. \A i \in 1 .. n : i = n \/ i \in 1 .. Len(l)
        BY <3>1, <4>1
      <4>3. \A i, j \in 1 .. n : i < j => i \in 1 .. Len(l)
        BY <3>1, <4>1
      <4>4. \A i \in 1 .. n : logs'[t][i].id = i /\ logs'[t][i].runAt <= clock
        BY <4>2, <3>2, <3>3, <3>5
      <4>5. \A i, j \in 1 .. n : i < j => logs'[t][i].runAt <= logs'[t][j].runAt
        BY <4>2, <4>3, <3>2, <3>3, <3>4, <3>5
      <4> QED BY <4>4, <4>5
    <3>7. \A r \in Runners : Awaiting(r, t)' => pass'[r].runAt = clock
      <4> SUFFICES ASSUME NEW r \in Runners, Awaiting(r, t)' PROVE pass'[r].runAt = clock
        OBVIOUS
      <4>1. r = p
        <5> SUFFICES ASSUME r # p PROVE FALSE
          OBVIOUS
        <5>1. Awaiting(r, t)
          BY <1>9, <1>1
        <5> QED BY <5>1, <1>1, <1>T DEF MarkedOK
      <4> QED BY <4>1, <1>1, <1>4, <1>7, <1>9 DEF LeftAs
    <3> HIDE DEF n
    <3>8. /\ \A i \in DOMAIN logs'[u] : logs'[u][i].id = i /\ logs'[u][i].runAt <= clock'
          /\ \A i, j \in DOMAIN logs'[u] : i < j => logs'[u][i].runAt <= logs'[u][j].runAt
      BY <3>2, <3>6, <2>1, <2>3
    <3>9. \A r \in Runners : Awaiting(r, u)' =>
            \A i \in DOMAIN logs'[u] : logs'[u][i].runAt <= pass'[r].runAt
      BY <3>7, <3>8, <2>1, <2>3
    <3> QED BY <3>8, <3>9 DEF LogOK
  <2> QED BY <2>2, <2>3
<1> QED BY <1>6, <1>11, <1>12, <1>13, <1>14, <1>15, <1>16, <1>17 DEF SchedulerInv

-----------------------------------------------------------------------------
\* A log that is numbered and in order, newest first, begins with its last row.
LEMMA NewestIsLast ==
  ASSUME NEW s \in Seq(LogType), s # <<>>, \A i \in DOMAIN s : s[i].id = i,
         \A i, j \in DOMAIN s : i < j => s[i].runAt <= s[j].runAt
  PROVE  /\ Len(NewestFirst(s)) = Len(s) /\ NewestFirst(s) \in Seq(LogType)
         /\ NewestFirst(s)[1] = s[Len(s)]
<1> DEFINE n == Len(s)
           T == ToSet(s)
           c == Cardinality(T)
           sorted(q) == \A i, j \in DOMAIN q : i < j => Newer(q[i], q[j])
<1>1. n \in Nat \ {0} /\ DOMAIN s = 1 .. n
  BY EmptySeq
<1>2. \A i \in 1 .. n : s[i] \in LogType /\ s[i].id = i /\ s[i].runAt \in Nat
  <2>1. \A i \in 1 .. n : s[i] \in LogType
    BY <1>1
  <2> QED BY <2>1, <1>1 DEF LogType
<1>3. T = {s[i] : i \in 1 .. n}
  BY <1>1 DEF ToSet
<1>4. c = n
  <2>1. s \in [1 .. n -> T]
    BY <1>1, <1>3
  <2>2. \A i, j \in 1 .. n : s[i] = s[j] => i = j
    BY <1>2
  <2>3. \A x \in T : \E i \in 1 .. n : s[i] = x
    BY <1>3
  <2> HIDE DEF T
  <2>4. ExistsBijection(1 .. n, T)
    BY <2>1, <2>2, <2>3, <1>1 DEF ExistsBijection, Bijection, Injection, Surjection, IsInjective
  <2>5. IsFiniteSet(1 .. n) /\ Cardinality(1 .. n) = n
    BY <1>1, FS_Interval
  <2> QED BY <2>4, <2>5, FS_Bijection
<1>5. \A i, j \in 1 .. n : i < j => Newer(s[j], s[i])
  BY <1>1, <1>2 DEF Newer
<1>6. SetToSeqs(T) = {f \in [1 .. n -> T] : \A i, j \in 1 .. n : i # j => f[i] # f[j]}
  BY <1>4 DEF SetToSeqs
<1> HIDE DEF T, c, n
<1>7. \E q \in SetToSeqs(T) : sorted(q)
  <2> DEFINE q == [i \in 1 .. n |-> s[n + 1 - i]]
  <2>1. \A i \in 1 .. n : n + 1 - i \in 1 .. n
    BY <1>1
  <2>2. \A i \in 1 .. n : q[i] = s[n + 1 - i] /\ q[i] \in T
    BY <2>1, <1>3
  <2>3. \A i, j \in 1 .. n : i # j => n + 1 - i # n + 1 - j
    BY <1>1
  <2>4. \A i, j \in 1 .. n : i # j => q[i] # q[j]
    <3>1. \A i \in 1 .. n : s[n + 1 - i].id = n + 1 - i
      BY <2>1, <1>2
    <3> HIDE DEF q
    <3> QED BY <2>2, <2>3, <3>1
  <2>5. \A i, j \in 1 .. n : i < j => n + 1 - j < n + 1 - i
    BY <1>1
  <2>6. \A i, j \in 1 .. n : i < j => Newer(q[i], q[j])
    BY <2>1, <2>2, <2>5, <1>5
  <2>7. q \in [1 .. n -> T] /\ DOMAIN q = 1 .. n
    BY <2>2
  <2> HIDE DEF q
  <2> QED BY <2>4, <2>6, <2>7, <1>6
<1> DEFINE N == NewestFirst(s)
<1>8. N \in SetToSeqs(T) /\ sorted(N)
  <2>1. N = CHOOSE q \in SetToSeqs(T) : sorted(q)
    BY DEF NewestFirst, T
  <2> HIDE DEF N, sorted
  <2> QED BY <2>1, <1>7
<1> HIDE DEF N
<1>9. N \in [1 .. n -> T] /\ \A i, j \in 1 .. n : i # j => N[i] # N[j]
  BY <1>6, <1>8
<1>10. T \subseteq LogType
  BY <1>2, <1>3
<1>11. N \in Seq(LogType) /\ Len(N) = n /\ DOMAIN N = 1 .. n /\ 1 \in 1 .. n /\ n \in 1 .. n
  BY <1>1, <1>9, <1>10
<1>12. N[1] = s[n]
  \* The last row is somewhere in N, or two of its n places held the same one of n - 1 rows.
  <2>1. \E i \in 1 .. n : N[i] = s[n]
    <3>1. IsFiniteSet(1 .. n) /\ Cardinality(1 .. n) = n /\ IsFiniteSet(T)
      <4>1. IsFiniteSet(1 .. n) /\ Cardinality(1 .. n) = n
        BY <1>1, FS_Interval
      <4>2. s \in Surjection(1 .. n, T)
        BY <1>1, <1>3 DEF Surjection
      <4> QED BY <4>1, <4>2, FS_Surjection
    <3>2. N \in Injection(1 .. n, T)
      BY <1>9 DEF Injection, IsInjective
    <3>3. Cardinality(1 .. n) = Cardinality(T)
      BY <3>1, <1>4 DEF c
    <3>4. N \in Surjection(1 .. n, T)
      BY <3>1, <3>2, <3>3, FS_Injection
    <3>5. s[n] \in T
      BY <1>3, <1>11
    <3> QED BY <3>4, <3>5 DEF Surjection
  <2>2. PICK i \in 1 .. n : N[i] = s[n]
    BY <2>1
  <2>3. CASE i = 1
    BY <2>2, <2>3
  <2>4. CASE i # 1
    <3>1. 1 < i
      BY <2>4
    <3>2. Newer(N[1], s[n])
      BY <3>1, <2>2, <1>8, <1>11
    <3>3. PICK j \in 1 .. n : N[1] = s[j]
      BY <1>3, <1>9, <1>11
    <3>4. j # n
      BY <3>2, <3>3, <1>2, <1>11 DEF Newer
    <3>5. j < n
      BY <3>4, <1>1
    <3>6. Newer(s[n], s[j])
      BY <3>5, <1>5, <1>11
    <3> QED BY <3>2, <3>3, <3>6, <1>2, <1>11 DEF Newer
  <2> QED BY <2>3, <2>4
<1> QED BY <1>11, <1>12 DEF N, n

\* What the invariant says of the times, marks and logs is what the property asks for.
LEMMA SchedulerInvImplies ==
  ASSUME SchedulerInv, SchedulerAssumption
  PROVE  SchedulesSound
<1>T. SchedulerTypes /\ MarkedOK
  BY DEF SchedulerInv
<1>1. RunningExact
  <2>1. runningIds = {t \in Tasks : \E p \in Runners : Awaiting(p, t)}
    BY <1>T DEF SchedulerTypes, MarkedOK
  <2>2. ASSUME NEW t \in Tasks PROVE Cardinality({p \in Runners : Awaiting(p, t)}) <= 1
    <3> DEFINE A == {p \in Runners : Awaiting(p, t)}
    <3>1. \A p, q \in A : p = q
      BY <1>T DEF MarkedOK
    <3> HIDE DEF A
    <3>2. CASE A = {}
      BY <3>2, FS_EmptySet DEF A
    <3>3. CASE A # {}
      <4>1. PICK p \in A : A = {p}
        BY <3>1, <3>3
      <4>2. Cardinality(A) = 1
        BY <4>1, FS_Singleton
      <4> QED BY <4>2 DEF A
    <3> QED BY <3>2, <3>3
  <2> QED BY <2>1, <2>2 DEF RunningExact
<1>2. OccurrenceOnce
  <2> SUFFICES ASSUME ~overlapped, NEW t \in Tasks
               PROVE  \A i, j \in DOMAIN runs[t] : i < j => runs[t][i] < runs[t][j]
    BY DEF OccurrenceOnce
  <2>1. TimesOK(t)
    BY DEF SchedulerInv
  <2>2. CASE Created(t)
    BY <2>1, <2>2 DEF TimesOK
  <2>3. CASE ~Created(t)
    <3>1. DOMAIN runs[t] = {}
      BY <2>1, <2>3 DEF TimesOK
    <3> QED BY <3>1
  <2> QED BY <2>2, <2>3
<1>3. ScheduleKept
  <2> SUFFICES ASSUME NEW t \in Tasks, Created(t)
               PROVE  /\ tasks[t].kind = "interval" =>
                           (tasks[t].next - tasks[t].first) % tasks[t].every = 0
                      /\ (tasks[t].kind = "cron" /\ runs[t] # <<>>) => NoneMissed(tasks[t], runs[t])
    BY DEF ScheduleKept, Created, NoneMissed
  <2>1. GridOK(t) /\ tasks[t] \in TaskType
    BY <1>T DEF SchedulerInv, SchedulerTypes, Created
  <2>2. ASSUME tasks[t].kind = "interval"
        PROVE  (tasks[t].next - tasks[t].first) % tasks[t].every = 0
    <3> DEFINE k == tasks[t]
               e == k.every
    <3>1. k.next \in Nat /\ k.first \in Nat /\ e \in Nat \ {0} /\ OnGrid(k)
      BY <2>1, <2>2 DEF TaskType, GridOK, OnGrid
    <3>2. PICK m \in 0 .. k.next : k.next = k.first + e * m
      BY <3>1 DEF OnGrid
    <3>3. m \in Nat /\ (e * m) % e = 0
      BY <3>1, <3>2, MultipleHasNoRest
    <3>4. k.next - k.first = e * m
      <4>1. e * m \in Nat
        BY <3>1, <3>3
      <4> HIDE DEF e, k
      <4> QED BY <4>1, <3>1, <3>2
    <3> QED BY <3>3, <3>4
  <2> QED BY <2>1, <2>2 DEF GridOK
<1>4. DeletedRunsOnlyStale
  <2> SUFFICES ASSUME NEW t \in Tasks, NEW p \in Runners, gone[t] # {}, Awaiting(p, t)
               PROVE  p \in gone[t]
    BY DEF DeletedRunsOnlyStale
  <2>1. DeletedOK(t) /\ ListOK(p) /\ UnderWay(p)
    BY DEF SchedulerInv, Awaiting, UnderWay
  <2>2. pass[p].due \in Seq(Tasks) /\ pass[p].due # <<>>
    BY <2>1, <1>T DEF SchedulerTypes, PassType, ListOK
  <2>3. 1 \in DOMAIN pass[p].due /\ pass[p].due[1] = t
    BY <2>2 DEF Awaiting
  <2> QED BY <2>1, <2>3 DEF DeletedOK, OnList
<1>5. LatestLogFirst
  <2> SUFFICES ASSUME NEW t \in table, logs[t] # <<>>
               PROVE  LogAnswer(t, 1) = <<logs[t][Len(logs[t])]>>
    BY DEF LatestLogFirst
  <2> DEFINE l == logs[t]
             N == NewestFirst(l)
  <2>1. t \in Tasks /\ l \in Seq(LogType) /\ LogOK(t)
    BY <1>T DEF SchedulerInv, SchedulerTypes
  <2>2. Len(l) \in Nat \ {0}
    BY <2>1
  <2>3. Len(N) = Len(l) /\ N \in Seq(LogType) /\ N[1] = l[Len(l)]
    BY <2>1, NewestIsLast DEF LogOK
  <2>4. Max({1, 1}) = 1 /\ Min({1, 200}) = 1
    BY MaxOfTwo, MinOfTwo
  <2>5. Min({Len(l), 1}) = 1
    <3>1. Len(l) \in Nat /\ 1 \in Nat
      BY <2>2
    <3>2. Min({Len(l), 1}) = IF Len(l) <= 1 THEN Len(l) ELSE 1
      BY <3>1, MinOfTwo
    <3> QED BY <2>2, <3>2
  <2>6. LogAnswer(t, 1) = SubSeq(N, 1, 1)
    BY <2>4, <2>5 DEF LogAnswer
  <2>7. /\ SubSeq(N, 1, 1) \in Seq(LogType) /\ Len(SubSeq(N, 1, 1)) = 1
        /\ SubSeq(N, 1, 1)[1] = N[1]
    <3>1. \A i \in 1 .. 1 : N[i] \in LogType
      BY <2>2, <2>3
    <3>2. /\ SubSeq(N, 1, 1) \in Seq(LogType)
          /\ Len(SubSeq(N, 1, 1)) = IF 1 <= 1 THEN 1 - 1 + 1 ELSE 0
          /\ \A i \in 1 .. 1 - 1 + 1 : SubSeq(N, 1, 1)[i] = N[1 + i - 1]
      BY <3>1, SubSeqProperties
    <3> QED BY <3>2
  <2>8. SubSeq(N, 1, 1) = <<N[1]>>
    <3> DEFINE u == SubSeq(N, 1, 1)
               v == <<N[1]>>
    <3>1. N[1] \in LogType
      BY <2>2, <2>3
    <3>2. v \in Seq(LogType) /\ Len(v) = 1 /\ v[1] = N[1]
      BY <3>1
    <3>3. u \in Seq(LogType) /\ Len(u) = 1 /\ u[1] = N[1]
      BY <2>7
    <3> HIDE DEF u, v
    <3>4. \A i \in 1 .. Len(u) : u[i] = v[i]
      BY <3>2, <3>3
    <3>5. u = v
      BY <3>2, <3>3, <3>4, SeqEqual
    <3> QED BY <3>5 DEF u, v
  <2> QED BY <2>3, <2>6, <2>8 DEF l
<1> QED BY <1>1, <1>2, <1>3, <1>4, <1>5 DEF SchedulesSound

\* Every step keeps the invariant.
LEMMA SchedulerNextKeeps ==
  ASSUME SchedulerInv, [SchedulerNext]_tsVars, SchedulerAssumption
  PROVE  SchedulerInv'
<1>p. polling \in BOOLEAN
  BY DEF SchedulerInv, SchedulerTypes
<1>1. CASE Tick
  BY <1>1, TickKeeps
<1>2. CASE Stop
  BY <1>2, StopKeeps
<1>3. ASSUME NEW t \in Tasks, NEW s \in Schedules, CreateTask(t, s[1], s[2], s[3])
      PROVE  SchedulerInv'
  <2>1. s[1] \in {"interval", "cron", "once"} /\ s[2] \in Nat /\ s[3] \in Nat
    BY DEF SchedulerAssumption
  <2> QED BY <1>3, <2>1, CreateKeeps
<1>4. ASSUME NEW t \in Tasks, DeleteTask(t) PROVE SchedulerInv'
  BY <1>4, DeleteKeeps
<1>5. ASSUME NEW p \in Runners, RunPending(p) PROVE SchedulerInv'
  <2>1. ~UnderWay(p) /\ Begins(p, polling) /\ UNCHANGED <<clock, tasks, table, polling, logs, runs>>
    BY <1>5 DEF RunPending, UnderWay
  <2> QED BY <2>1, <1>p, BeginsKeeps
<1>6. ASSUME NEW p \in Runners, Start(p) PROVE SchedulerInv'
  <2>1. ~UnderWay(p) /\ Begins(p, TRUE) /\ polling' \in BOOLEAN
        /\ UNCHANGED <<clock, tasks, table, logs, runs>>
    BY <1>6 DEF Start, UnderWay
  <2> QED BY <2>1, BeginsKeeps
<1>7. ASSUME NEW p \in Runners, Wake(p) PROVE SchedulerInv'
  <2>1. ~UnderWay(p) /\ UNCHANGED <<clock, tasks, table, polling, logs, runs>>
    BY <1>7 DEF Wake, UnderWay
  <2>2. CASE Begins(p, TRUE)
    BY <2>1, <2>2, <1>p, BeginsKeeps
  <2>3. CASE pass' = [pass EXCEPT ![p] = NoPass] /\ UNCHANGED <<runningIds, overlapped, gone>>
    BY <2>1, <2>3, <1>p, DropKeeps
  <2> QED BY <1>7, <2>2, <2>3 DEF Wake
<1>8. ASSUME NEW p \in Runners, CancelPass(p) PROVE SchedulerInv'
  <2>1. /\ pass' = [pass EXCEPT ![p] = NoPass]
        /\ runningIds' = IF UnderWay(p) THEN Released(p) ELSE runningIds
        /\ UNCHANGED <<clock, tasks, table, logs, runs, gone, overlapped>>
        /\ polling' \in BOOLEAN
    BY <1>8 DEF CancelPass, tsHistory
  <2> QED BY <2>1, DropKeeps
<1>9. ASSUME NEW p \in Runners, NEW how \in {"success", "failure"}, TaskEnds(p, how)
      PROVE  SchedulerInv'
  BY <1>9, TaskEndsKeeps
<1>10. CASE UNCHANGED tsVars
  <2>0. UNCHANGED <<clock, tasks, table, runningIds, pass, polling, logs, runs, gone, overlapped>>
    BY <1>10 DEF tsVars
  <2>1. SchedulerTypes'
    BY <2>0 DEF SchedulerInv, SchedulerTypes
  <2>2. MarkedOK'
    BY <2>0 DEF SchedulerInv, MarkedOK, Awaiting
  <2>3. SolePass'
    BY <2>0 DEF SchedulerInv, SolePass, IsDue, UnderWay
  <2>4. (\A p \in Runners : ListOK(p)') /\ (\A t \in table' : Created(t)')
    BY <2>0 DEF SchedulerInv, ListOK, Created, UnderWay
  <2>5. ASSUME NEW t \in Tasks PROVE DeletedOK(t)' /\ TimesOK(t)' /\ GridOK(t)' /\ LogOK(t)'
    <3>1. DeletedOK(t) /\ TimesOK(t) /\ GridOK(t) /\ LogOK(t)
      BY DEF SchedulerInv
    <3>2. DeletedOK(t)'
      BY <3>1, <2>0 DEF DeletedOK, Created, OnList, UnderWay
    <3>3. TimesOK(t)' /\ GridOK(t)'
      BY <3>1, <2>0 DEF TimesOK, GridOK, Created
    <3>4. LogOK(t)'
      BY <3>1, <2>0 DEF LogOK, Awaiting
    <3> QED BY <3>2, <3>3, <3>4
  <2> QED BY <2>1, <2>2, <2>3, <2>4, <2>5 DEF SchedulerInv
<1> QED BY <1>1, <1>2, <1>3, <1>4, <1>5, <1>6, <1>7, <1>8, <1>9, <1>10 DEF SchedulerNext

\* Tasks run at their times, each time once unless passes overlap, never twice at a time,
\* not after they were deleted but by a pass that was under way, and the log of a task
\* begins with its last run: for any tasks, schedules, loops and callers of run_pending.
THEOREM SchedulerSound == SchedulerSpec => []SchedulesSound
<1>1. SchedulerInit => SchedulerInv
  BY InitScheduler, SchedulerAssumption
<1>2. SchedulerInv /\ [SchedulerNext]_tsVars => SchedulerInv'
  BY SchedulerNextKeeps, SchedulerAssumption
<1>3. SchedulerInv => SchedulesSound
  BY SchedulerInvImplies, SchedulerAssumption
<1> QED BY <1>1, <1>2, <1>3, PTL DEF SchedulerSpec
=============================================================================
