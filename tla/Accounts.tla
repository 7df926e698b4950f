------------------------------ MODULE Accounts ------------------------------
(***************************************************************************)
(* Registration (services/auth.py, app/routes/auth.py and users.py). The   *)
(* accounts and invites are in memory and their operations run without an  *)
(* await; a registration reads the policy in a thread before, and makes    *)
(* the home workspace after. Invites are used once and may expire.         *)
(***************************************************************************)
EXTENDS FiniteSets, Naturals, Sequences

CONSTANTS
  Registrations,  \* the calls of register, each made once
  Usernames,
  Codes,          \* invite codes
  MaxPolicies     \* bound: changes of the policy

VARIABLES
  accounts,   \* accounts by username: role, and history: the call and the code used
  invites,    \* invites by code
  expired,    \* codes whose time is over
  policies,   \* the registration policy now, last of all it has been
  regs        \* the calls

acVars == <<accounts, invites, expired, policies, regs>>

NoCode == "no code"

ASSUME AccountsAssumption == NoCode \notin Usernames \cup Codes

Policy == policies[Len(policies)]

AccountsInit ==
  /\ accounts = << >> /\ invites = << >> /\ expired = {}
  /\ policies \in [1..1 -> [allow : BOOLEAN, invite : BOOLEAN]]
  /\ regs = [c \in Registrations |-> [at |-> "new"]]

\* put_registration_policy
SetPolicy(p) ==
  /\ Len(policies) < MaxPolicies /\ p # Policy
  /\ policies' = Append(policies, p)
  /\ UNCHANGED <<accounts, invites, expired, regs>>

NewInvite(role) == [role |-> role, usedBy |-> NoCode]

\* create_invite_code: 409 when there is one
CreateInviteCode(code, role) ==
  /\ code \notin DOMAIN invites
  /\ invites' = [k \in DOMAIN invites \cup {code} |->
                   IF k = code THEN NewInvite(role) ELSE invites[k]]
  /\ UNCHANGED <<accounts, expired, policies, regs>>

Expire(code) ==
  /\ code \in DOMAIN invites \ expired
  /\ expired' = expired \cup {code}
  /\ UNCHANGED <<accounts, invites, policies, regs>>

\* update_user: the role of an account
UpdateUser(name, role) ==
  /\ name \in DOMAIN accounts
  /\ accounts' = [accounts EXCEPT ![name].role = role]
  /\ UNCHANGED <<invites, expired, policies, regs>>

-----------------------------------------------------------------------------
RegEnds(c, status) == regs' = [regs EXCEPT ![c].at = status]

Register(c, name, code) ==
  /\ regs[c].at = "new"
  /\ regs' = [regs EXCEPT ![c] = [at |-> "policy", name |-> name, code |-> code, from |-> Len(policies),
                                  policy |-> Policy]]
  /\ UNCHANGED <<accounts, invites, expired, policies>>

ReadPolicy(c) ==
  /\ regs[c].at = "policy"
  /\ regs' = [regs EXCEPT ![c].at = "register", ![c].policy = Policy]
  /\ UNCHANGED <<accounts, invites, expired, policies>>

\* Seeded fault: a policy that asks for an invite is not looked at.
AllowedWithout(p, code) == p.allow

\* register: 403 without allow_registration, 400 when an invite is asked for
Allowed(p, code) == p.allow /\ (p.invite => code # NoCode)

\* Seeded fault: an invite that was used is good.
AvailableAgain(code) == code \in DOMAIN invites /\ code \notin expired

\* _get_available_invite
Available(code) ==
  code \in DOMAIN invites /\ invites[code].usedBy = NoCode /\ code \notin expired

UsedUp(code, name) == [invites EXCEPT ![code].usedBy = name]

\* consume_invite_code, once the account is made, looks at the invite again: when its time
\* has ended since the first look, it stays unused and the call is refused.
Consume(c) ==
  \/ /\ invites' = UsedUp(regs[c].code, regs[c].name)
     /\ RegEnds(c, "home") /\ UNCHANGED expired
  \/ /\ expired' = expired \cup {regs[c].code}
     /\ RegEnds(c, "400") /\ UNCHANGED invites

\* register_user with the policy that was read: 409 when the name is taken, 400 when the
\* invite is not available; the invited role otherwise, and the invite is consumed.
RegisterUser(c) ==
  LET rec == regs[c]
      invited == rec.code # NoCode
  IN /\ rec.at = "register"
     /\ IF ~Allowed(rec.policy, rec.code)
          THEN RegEnds(c, IF rec.policy.allow THEN "400" ELSE "403") /\ UNCHANGED <<accounts, invites, expired>>
        ELSE IF rec.name \in DOMAIN accounts
          THEN RegEnds(c, "409") /\ UNCHANGED <<accounts, invites, expired>>
        ELSE IF invited /\ ~Available(rec.code)
          THEN RegEnds(c, "400") /\ UNCHANGED <<accounts, invites, expired>>
        ELSE /\ accounts' = [n \in DOMAIN accounts \cup {rec.name} |->
                   IF n = rec.name
                   THEN LET role == IF invited THEN invites[rec.code].role ELSE "member"
                        IN [role |-> role, was |-> role, call |-> c, code |-> rec.code]
                   ELSE accounts[n]]
             /\ IF invited THEN Consume(c) ELSE RegEnds(c, "home") /\ UNCHANGED <<invites, expired>>
     /\ UNCHANGED policies

\* ensure_home_workspace, which may fail: the account stays.
EnsureHome(c) ==
  /\ regs[c].at = "home"
  /\ \E status \in {"200", "500"} : RegEnds(c, status)
  /\ UNCHANGED <<accounts, invites, expired, policies>>

AccountsNext ==
  \/ \E p \in [allow : BOOLEAN, invite : BOOLEAN] : SetPolicy(p)
  \/ \E code \in Codes : Expire(code) \/ \E role \in {"member", "admin"} : CreateInviteCode(code, role)
  \/ \E name \in Usernames, role \in {"member", "owner"} : UpdateUser(name, role)
  \/ \E c \in Registrations :
       \/ \E name \in Usernames, code \in Codes \cup {NoCode} : Register(c, name, code)
       \/ ReadPolicy(c) \/ RegisterUser(c) \/ EnsureHome(c)

AccountsSpec == AccountsInit /\ [][AccountsNext]_acVars

-----------------------------------------------------------------------------
\* The account was made although its call was refused: the time of its invite ended between
\* the two looks of register_user.
Lapsed(n) ==
  LET code == accounts[n].code IN
  invites[code].usedBy = NoCode /\ code \in expired /\ regs[accounts[n].call].at = "400"

\* An invite makes at most one account, with the role it gives, and says which, however
\* registrations race and whatever fails afterwards; except that an invite whose time ended
\* while it was used says nothing, and the call that made the account was answered with 400.
InviteOnce ==
  \A n \in DOMAIN accounts : LET code == accounts[n].code IN code # NoCode =>
    /\ invites[code].role = accounts[n].was
    /\ invites[code].usedBy = n \/ Lapsed(n)
    /\ \A k \in DOMAIN accounts \ {n} : accounts[k].code # code

\* An account was allowed by a policy that was in force at some time between its request
\* and its registration.
PolicyRespected ==
  \A n \in DOMAIN accounts : LET c == accounts[n].call IN
    \E i \in regs[c].from..Len(policies) :
      policies[i].allow /\ (policies[i].invite => accounts[n].code # NoCode)

\* Accounts are made by the policy in force and an invite makes one of them, with its role.
RegistrationsSound == InviteOnce /\ PolicyRespected
=============================================================================
