--------------------------------- MODULE Access ---------------------------------
(***************************************************************************)
(* Scoped tokens and agent identities: how credentials are issued from     *)
(* credentials, rotated and revoked through the admin API.                 *)
(*                                                                         *)
(* The middleware looks a credential up once; the handler then works with  *)
(* what was found while other calls go on.  The lists of scopes are sets.  *)
(***************************************************************************)
EXTENDS Naturals, Sequences, FiniteSets

CONSTANTS
  Admins,          \* concurrent calls of the admin API
  ScopeSets,       \* the sets of scopes a caller may ask for
  Founders,        \* the scopes of the tokens that the deployment starts with
  MaxCredentials,  \* bound on credentials
  MaxCalls,        \* bound on admin calls
  MaxDay           \* bound on the clock

ASSUME AccessAssumption ==
  /\ Founders \in Seq(SUBSET STRING)
  /\ MaxCredentials \in Nat /\ MaxCalls \in Nat /\ MaxDay \in Nat

VARIABLES
  day,
  credentials,     \* scoped_tokens and agents, by creation: kind, role, scopes,
                   \* expires_at, revoked_at; and where they come from: the issuers they
                   \* go back to, the token their line of rotations starts with
  calls,           \* admin calls made
  call,            \* the admin calls: program point, issuer, token to rotate
  raced            \* lines with two calls at work on them at the same time, or with a
                   \* revocation that failed

accessVars == <<day, credentials, calls, call, raced>>

IdleCall == [pc |-> "idle", issuer |-> 0, old |-> 0]

Founder(i) ==
  [kind |-> "token", role |-> IF "*" \in Founders[i] THEN "admin" ELSE "other",
   scopes |-> Founders[i], expires |-> MaxDay, revoked |-> FALSE, issuers |-> {}, line |-> i]

AccessInit ==
  /\ day = 0
  /\ credentials = [i \in DOMAIN Founders |-> Founder(i)]
  /\ calls = 0
  /\ call = [a \in Admins |-> IdleCall]
  /\ raced = {}

---------------------------------------------------------------------------
HasWildcard(i) == "*" \in credentials[i].scopes
HasScope(i, scope) == HasWildcard(i) \/ scope \in credentials[i].scopes

\* expires_at is compared with <. An agent's key does not expire.
Live(i) ==
  /\ ~credentials[i].revoked
  /\ credentials[i].kind = "token" => ~(credentials[i].expires < day)

\* Mutant: the wildcard is not looked at.
CheckNamedScopes(i, scopes) == \A s \in scopes \ {"*"} : HasScope(i, s)

\* check_scope_attenuation
CheckScopeAttenuation(i, scopes) ==
  HasWildcard(i) \/ ("*" \notin scopes /\ \A s \in scopes : HasScope(i, s))

MayIssue(i, role, scopes) ==
  /\ role = "admin" => HasWildcard(i)
  /\ CheckScopeAttenuation(i, scopes)

RequiredScope(kind) == IF kind = "agent" THEN "admin:agents" ELSE "admin:tokens"

InHand(line) == {a \in Admins : call[a].old # 0 /\ credentials[call[a].old].line = line}

---------------------------------------------------------------------------
\* auth_middleware: the call goes on as the actor that was found, whatever becomes of
\* the credential.
Authenticate(a, i) ==
  /\ call[a].pc = "idle" /\ calls < MaxCalls
  /\ Live(i)
  /\ calls' = calls + 1
  /\ call' = [call EXCEPT ![a] = [pc |-> "handle", issuer |-> i, old |-> 0]]
  /\ UNCHANGED <<day, credentials, raced>>

Issue(a, kind, role, scopes, expires, line) ==
  credentials' = Append(credentials,
    [kind |-> kind, role |-> role, scopes |-> scopes, expires |-> expires, revoked |-> FALSE,
     issuers |-> credentials[call[a].issuer].issuers \cup {call[a].issuer},
     line |-> IF line = 0 THEN Len(credentials) + 1 ELSE line])

\* create_token and create_agent
Create(a, kind, role, scopes, expires) ==
  /\ call[a].pc = "handle" /\ Len(credentials) < MaxCredentials
  /\ HasScope(call[a].issuer, RequiredScope(kind))
  /\ kind = "agent" => role = "other"
  /\ MayIssue(call[a].issuer, role, scopes)
  /\ Issue(a, kind, role, scopes, expires, 0)
  /\ call' = [call EXCEPT ![a] = IdleCall]
  /\ UNCHANGED <<day, calls, raced>>

\* revoke_token and revoke_agent
RevokeCredential(a, i) ==
  /\ call[a].pc = "handle"
  /\ HasScope(call[a].issuer, RequiredScope(credentials[i].kind))
  /\ credentials' = [credentials EXCEPT ![i].revoked = TRUE]
  /\ raced' = IF InHand(credentials[i].line) # {} THEN raced \cup {credentials[i].line} ELSE raced
  /\ call' = [call EXCEPT ![a] = IdleCall]
  /\ UNCHANGED <<day, calls>>

\* Mutant: a token that is already revoked may be rotated.
RotateUnchecked(a, i) ==
  /\ call[a].pc = "handle" /\ credentials[i].kind = "token"
  /\ HasScope(call[a].issuer, "admin:tokens")
  /\ MayIssue(call[a].issuer, credentials[i].role, credentials[i].scopes)
  /\ call' = [call EXCEPT ![a].pc = "revoke", ![a].old = i]
  /\ raced' = IF InHand(credentials[i].line) # {} THEN raced \cup {credentials[i].line} ELSE raced
  /\ UNCHANGED <<day, calls, credentials>>

\* rotate_token looks the old token up ...
Rotate(a, i) ==
  /\ call[a].pc = "handle" /\ credentials[i].kind = "token"
  /\ HasScope(call[a].issuer, "admin:tokens")
  /\ Live(i)
  /\ MayIssue(call[a].issuer, credentials[i].role, credentials[i].scopes)
  /\ call' = [call EXCEPT ![a].pc = "revoke", ![a].old = i]
  /\ raced' = IF InHand(credentials[i].line) # {} THEN raced \cup {credentials[i].line} ELSE raced
  /\ UNCHANGED <<day, calls, credentials>>

\* ... revokes it, and takes no notice of an error ...
RotateRevoke(a) ==
  /\ call[a].pc = "revoke"
  /\ \/ /\ credentials' = [credentials EXCEPT ![call[a].old].revoked = TRUE]
        /\ UNCHANGED raced
     \/ /\ raced' = raced \cup {credentials[call[a].old].line}
        /\ UNCHANGED credentials
  /\ call' = [call EXCEPT ![a].pc = "insert"]
  /\ UNCHANGED <<day, calls>>

\* ... and inserts a token with the same role and scopes, with a term of its own.
RotateInsert(a, expires) ==
  LET old == credentials[call[a].old] IN
  /\ call[a].pc = "insert" /\ Len(credentials) < MaxCredentials
  /\ Issue(a, "token", old.role, old.scopes, expires, old.line)
  /\ call' = [call EXCEPT ![a] = IdleCall]
  /\ UNCHANGED <<day, calls, raced>>

\* A refusal, a store error or a crash
GiveUp(a) ==
  /\ call[a].pc # "idle"
  /\ call' = [call EXCEPT ![a] = IdleCall]
  /\ UNCHANGED <<day, calls, credentials, raced>>

NextDay ==
  /\ day < MaxDay
  /\ day' = day + 1
  /\ UNCHANGED <<credentials, calls, call, raced>>

AccessNext ==
  \/ \E a \in Admins :
       \/ \E i \in DOMAIN credentials : Authenticate(a, i)
       \/ \E k \in {"token", "agent"}, r \in {"admin", "other"}, s \in ScopeSets, d \in day..MaxDay :
            Create(a, k, r, s, d)
       \/ \E i \in DOMAIN credentials : RevokeCredential(a, i) \/ Rotate(a, i)
       \/ RotateRevoke(a)
       \/ \E d \in day..MaxDay : RotateInsert(a, d)
       \/ GiveUp(a)
  \/ NextDay

---------------------------------------------------------------------------
(* Properties. *)

\* Authority only shrinks along the way from issuer to issuer, whoever rotates whose
\* tokens: a credential has no scope that one of the credentials it goes back to lacks,
\* and the admin role goes back to the wildcard only (check_scope_attenuation,
\* create_token, create_agent, rotate_token).
NoEscalation ==
  \A i \in DOMAIN credentials : \A j \in credentials[i].issuers :
    /\ credentials[i].scopes \subseteq credentials[j].scopes \/ HasWildcard(j)
    /\ credentials[i].role = "admin" => HasWildcard(j)

\* Rotation replaces: of a line of rotations no token but the newest is left, and none
\* once that one was revoked.  Lines on which two calls worked at the same time, or on
\* which a revocation failed, are excepted: there rotate_token leaves several tokens or
\* one behind a revocation (rotate_token, revoke_token).
OnlyTheNewestIsLeft ==
  \A i, j \in DOMAIN credentials :
    /\ credentials[i].line = credentials[j].line /\ credentials[i].line \notin raced
    /\ ~credentials[i].revoked
    => j <= i

\* Authority never grows, however calls interleave, and a rotation that nothing raced
\* replaces the token.
AuthorityHolds == NoEscalation /\ OnlyTheNewestIsLeft
=============================================================================
