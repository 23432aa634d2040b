-------------------------- MODULE ControlPlaneProofs --------------------------
(***************************************************************************)
(* Proofs about the parts around the governed path, for every set of       *)
(* callers, every configuration and every bound.                           *)
(***************************************************************************)
EXTENDS ControlPlane, TLAPS, FiniteSetTheorems

\* A step of the whole is a step of one part; the others stand still.
LEMMA StepOfPart ==
  ASSUME [Next]_vars
  PROVE  /\ MfaNext \/ UNCHANGED mfaVars
         /\ AccessNext \/ UNCHANGED accessVars
         /\ AuthNext \/ UNCHANGED authVars
         /\ PolicyNext \/ UNCHANGED policyVars
         /\ MigrationNext \/ UNCHANGED migrationVars
<1>1. CASE UNCHANGED vars
  BY <1>1 DEF vars
<1>2. CASE Next
  BY <1>2 DEF Next, MfaStep, AccessStep, AuthStep, PdpStep, PolicyStep, McpStep, LimitsStep,
              MigrationStep
<1> QED
  BY <1>1, <1>2

------------------------------------------------------------------------------
(* Agent requests *)

Accept == [seen : Int, checked : Nat]

AuthType ==
  /\ nonceTtl \in Nat /\ now \in Nat /\ off \in Int
  /\ DOMAIN cache \subseteq Nonces
  /\ \A n \in DOMAIN cache : cache[n] \in Nat
  /\ stamp \in [Signed -> Nat]
  /\ admitted \in [Signed -> SUBSET Int]
  /\ accepts \in [Signed -> Seq(Accept)]

\* What the window check saw is within the window of the timestamp.
Timely(n, t) == stamp[n] - Skew <= t /\ t <= stamp[n] + Skew
SeenInWindow ==
  \A n \in Signed :
    /\ \A t \in admitted[n] : Timely(n, t)
    /\ \A i \in DOMAIN accepts[n] : Timely(n, accepts[n][i].seen)

\* As long as the nonce of a request that passed is not lost it is in the cache or has
\* outlived the ttl.
NonceKept ==
  \A n \in Signed : \A i \in DOMAIN accepts[n] :
    \/ n \in lost
    \/ n \in DOMAIN cache /\ accepts[n][i].checked <= cache[n]
    \/ now - accepts[n][i].checked >= Ttl

AuthInv == AuthType /\ SeenInWindow /\ NonceKept /\ ReplayNeedsLoss

\* The ttl is what is configured, or covers the window (verify_agent_request).
LEMMA TtlIsEnough ==
  ASSUME nonceTtl \in Nat
  PROVE  Promised \in Int /\ Ttl \in Int /\ Promised <= Ttl
BY AgentAuthAssumption DEF Promised, Ttl

\* Before the first request the cache is empty.
LEMMA AuthStart == AuthInit => AuthInv
<1> SUFFICES ASSUME AuthInit PROVE AuthInv
  OBVIOUS
<1>1. \A n \in Signed : accepts[n] = <<>> /\ admitted[n] = {}
  BY DEF AuthInit
<1>2. AuthType
  BY AgentAuthAssumption DEF AuthInit, AuthType
<1>3. \A n \in Signed : DOMAIN accepts[n] = {}
  BY <1>1
<1> QED
  BY <1>1, <1>2, <1>3 DEF AuthInv, SeenInWindow, NonceKept, ReplayNeedsLoss

\* The ttl is a number of seconds.
LEMMA TtlIs == nonceTtl \in Nat => Skew \in Nat /\ Ttl \in Nat
BY AgentAuthAssumption DEF Ttl

\* What becomes of a nonce when a request reaches the cache: it stays with its
\* time, it is new, it was too old, or it is lost.
LEMMA CacheStep ==
  ASSUME AuthType, NEW n \in Nonces, NEW keep \in SUBSET Nonces, CheckAndInsert(n, keep)
  PROVE  /\ DOMAIN cache' \subseteq Nonces
         /\ \A m \in DOMAIN cache' : cache'[m] \in Nat
         /\ n \in DOMAIN cache' /\ (n \notin keep => cache'[n] = now)
         /\ keep \subseteq DOMAIN cache
         /\ \A m \in keep : m \in DOMAIN cache' /\ cache'[m] = cache[m]
         /\ \A m \in DOMAIN cache \ keep : m \in lost' \/ now - cache[m] >= Ttl
         /\ lost \subseteq lost'
<1>1. keep \subseteq Fresh /\ Fresh \subseteq DOMAIN cache
  BY DEF CheckAndInsert, PruneChoices, Fresh
<1>2. cache' = [m \in keep \cup {n} |-> IF m \in keep THEN cache[m] ELSE now]
  BY DEF CheckAndInsert
<1>3. lost' = lost \cup (Fresh \ (keep \cup {n})) \cup (IF n \in Fresh \ keep THEN {n} ELSE {})
  BY DEF CheckAndInsert
<1>4. ASSUME NEW m \in DOMAIN cache \ keep
      PROVE  m \in lost' \/ now - cache[m] >= Ttl
  <2>1. m \in Fresh => m \in lost'
    BY <1>3
  <2>2. m \notin Fresh => ~(now - cache[m] < Ttl)
    BY DEF Fresh
  <2>3. now \in Nat /\ cache[m] \in Nat /\ Ttl \in Nat
    BY TtlIs DEF AuthType
  <2> QED
    BY <2>1, <2>2, <2>3
<1>5. lost \subseteq lost'
  BY <1>3
<1>6. /\ DOMAIN cache' \subseteq Nonces
      /\ \A m \in DOMAIN cache' : cache'[m] \in Nat
      /\ n \in DOMAIN cache' /\ (n \notin keep => cache'[n] = now)
      /\ \A m \in keep : m \in DOMAIN cache' /\ cache'[m] = cache[m]
  BY <1>1, <1>2 DEF AuthType
<1> QED
  BY <1>1, <1>4, <1>5, <1>6

\* A request that reaches the cache leaves the acceptances so far accounted for.
LEMMA CacheKeeps ==
  ASSUME AuthInv, NEW n \in Nonces, NEW keep \in SUBSET Nonces, CheckAndInsert(n, keep)
  PROVE  \A m \in Signed : \A i \in DOMAIN accepts[m] :
           /\ \/ m \in lost'
              \/ m \in DOMAIN cache' /\ accepts[m][i].checked <= cache'[m]
              \/ now - accepts[m][i].checked >= Ttl
           /\ m \in keep \/ m \in lost' \/ now - accepts[m][i].checked >= Ttl
<1> SUFFICES ASSUME NEW m \in Signed, NEW i \in DOMAIN accepts[m]
             PROVE  /\ \/ m \in lost'
                       \/ m \in DOMAIN cache' /\ accepts[m][i].checked <= cache'[m]
                       \/ now - accepts[m][i].checked >= Ttl
                    /\ m \in keep \/ m \in lost' \/ now - accepts[m][i].checked >= Ttl
  OBVIOUS
<1>1. accepts[m][i] \in Accept
  BY DEF AuthInv, AuthType
<1>2. PICK t \in Nat : t = accepts[m][i].checked
  BY <1>1 DEF Accept
<1>3. now \in Nat /\ Ttl \in Nat /\ \A k \in DOMAIN cache : cache[k] \in Nat
  BY TtlIs DEF AuthInv, AuthType
<1>4. \/ m \in lost
      \/ m \in DOMAIN cache /\ t <= cache[m]
      \/ now - t >= Ttl
  BY <1>2 DEF AuthInv, NonceKept
<1>5. /\ \A k \in keep : k \in DOMAIN cache' /\ cache'[k] = cache[k]
      /\ \A k \in DOMAIN cache \ keep : k \in lost' \/ now - cache[k] >= Ttl
      /\ lost \subseteq lost'
  BY CacheStep DEF AuthInv
<1>6. CASE m \in DOMAIN cache /\ t <= cache[m] /\ m \notin keep
  <2>1. m \in lost' \/ now - cache[m] >= Ttl
    BY <1>5, <1>6
  <2>2. cache[m] \in Nat
    BY <1>3, <1>6
  <2>3. m \in lost' \/ now - t >= Ttl
    BY <1>3, <1>6, <2>1, <2>2
  <2> QED
    BY <1>2, <2>3
<1>7. CASE m \in DOMAIN cache /\ t <= cache[m] /\ m \in keep
  BY <1>2, <1>5, <1>7
<1>8. CASE m \in lost \/ now - t >= Ttl
  BY <1>2, <1>5, <1>8
<1> QED
  BY <1>4, <1>6, <1>7, <1>8

\* A copy passes whose nonce is not in the cache: the copies before it outlived the ttl.
LEMMA PassStep ==
  ASSUME AuthInv, NEW n \in Signed, NEW keep \in SUBSET Nonces, NEW seen \in admitted[n],
         VerifyAgentRequest(n, seen, keep), n \notin keep
  PROVE  AuthInv'
<1> DEFINE k == Len(accepts[n]) + 1
           c == [seen |-> seen, checked |-> now]
<1>1. /\ nonceTtl \in Nat /\ now \in Nat /\ Skew \in Nat /\ Ttl \in Nat /\ Ttl' = Ttl
      /\ stamp \in [Signed -> Nat] /\ accepts \in [Signed -> Seq(Accept)] /\ n \in Nonces
  <2>1. nonceTtl' = nonceTtl
    BY DEF VerifyAgentRequest
  <2>2. Ttl' = Ttl
    BY <2>1 DEF Ttl
  <2> QED
    BY <2>2, TtlIs, AgentAuthAssumption DEF AuthInv, AuthType
<1>2. /\ CheckAndInsert(n, keep) /\ UNCHANGED <<nonceTtl, now, off, stamp, admitted>>
      /\ accepts' = [accepts EXCEPT ![n] = Append(accepts[n], c)]
  BY DEF VerifyAgentRequest
<1>3. seen \in Int /\ Timely(n, seen) /\ c \in Accept /\ c.seen = seen /\ c.checked = now
  BY <1>1 DEF AuthInv, AuthType, SeenInWindow, Accept
<1> HIDE DEF c
<1>4. /\ accepts'[n] \in Seq(Accept) /\ DOMAIN accepts'[n] = DOMAIN accepts[n] \cup {k}
      /\ accepts'[n][k] = c /\ DOMAIN accepts[n] = 1..(k - 1) /\ k \in Nat
      /\ \A i \in DOMAIN accepts[n] : accepts'[n][i] = accepts[n][i]
  <2>1. accepts'[n] = Append(accepts[n], c)
    BY <1>1, <1>2
  <2>2. accepts[n] \in Seq(Accept)
    BY <1>1
  <2> QED
    BY <1>3, <2>1, <2>2
<1> HIDE DEF k
<1>5. \A m \in Signed : m # n => accepts'[m] = accepts[m]
  BY <1>1, <1>2
<1>6. AuthType'
  <2>1. accepts' \in [Signed -> Seq(Accept)]
    BY <1>1, <1>2, <1>4
  <2>2. DOMAIN cache' \subseteq Nonces /\ \A m \in DOMAIN cache' : cache'[m] \in Nat
    BY <1>1, <1>2, CacheStep DEF AuthInv
  <2> QED
    BY <1>2, <2>1, <2>2 DEF AuthInv, AuthType
<1>7. lost \subseteq lost' /\ n \in DOMAIN cache' /\ cache'[n] = now
  BY <1>1, <1>2, CacheStep DEF AuthInv
<1>8. \A m \in Signed : \A i \in DOMAIN accepts[m] :
        /\ \/ m \in lost'
           \/ m \in DOMAIN cache' /\ accepts[m][i].checked <= cache'[m]
           \/ now - accepts[m][i].checked >= Ttl
        /\ m \in keep \/ m \in lost' \/ now - accepts[m][i].checked >= Ttl
  BY <1>1, <1>2, CacheKeeps
<1>9. ASSUME NEW m \in Signed, NEW i \in DOMAIN accepts'[m], ~(m = n /\ i = k)
      PROVE  i \in DOMAIN accepts[m] /\ accepts'[m][i] = accepts[m][i]
  BY <1>4, <1>5, <1>9
<1>10. SeenInWindow'
  <2> SUFFICES ASSUME NEW m \in Signed
               PROVE  /\ \A t \in admitted[m] : Timely(m, t)
                      /\ \A i \in DOMAIN accepts'[m] : Timely(m, accepts'[m][i].seen)
    BY <1>2 DEF SeenInWindow, Timely
  <2>1. ASSUME NEW i \in DOMAIN accepts'[m] PROVE Timely(m, accepts'[m][i].seen)
    <3>1. CASE m = n /\ i = k
      BY <1>3, <1>4, <3>1
    <3>2. CASE ~(m = n /\ i = k)
      BY <1>9, <3>2 DEF AuthInv, SeenInWindow
    <3> QED
      BY <3>1, <3>2
  <2> QED
    BY <2>1 DEF AuthInv, SeenInWindow
<1>11. NonceKept'
  <2> SUFFICES ASSUME NEW m \in Signed, NEW i \in DOMAIN accepts'[m]
               PROVE  \/ m \in lost'
                      \/ m \in DOMAIN cache' /\ accepts'[m][i].checked <= cache'[m]
                      \/ now - accepts'[m][i].checked >= Ttl
    BY <1>1, <1>2 DEF NonceKept
  <2>1. CASE m = n /\ i = k
    <3>1. accepts'[m][i].checked = now /\ m \in DOMAIN cache' /\ cache'[m] = now
      BY <1>3, <1>4, <1>7, <2>1
    <3>2. now <= now
      BY <1>1
    <3> QED
      BY <3>1, <3>2
  <2>2. CASE ~(m = n /\ i = k)
    BY <1>8, <1>9, <2>2
  <2> QED
    BY <2>1, <2>2
<1>12. ReplayNeedsLoss'
  <2>0. Promised' = Promised
    BY <1>2 DEF Promised
  <2> SUFFICES ASSUME NEW m \in Signed, NEW i \in DOMAIN accepts'[m],
                      NEW j \in DOMAIN accepts'[m], i < j, m \notin lost'
               PROVE  LET gap == accepts'[m][j].checked - accepts'[m][i].checked IN
                      Promised <= gap /\ gap <= 2 * Skew + Late(accepts'[m][j]) - Late(accepts'[m][i])
    BY <2>0 DEF ReplayNeedsLoss, Late
  <2>1. CASE m = n /\ j = k
    <3>1. i \in DOMAIN accepts[n] /\ accepts'[n][i] = accepts[n][i] /\ accepts'[n][j] = c
      <4>1. i \in DOMAIN accepts[n] \cup {k} /\ i < k /\ k \in Nat
        BY <1>4, <2>1
      <4>2. i # k
        BY <4>1
      <4> QED
        BY <1>4, <2>1, <4>1, <4>2
    <3>2. now - accepts[n][i].checked >= Ttl
      BY <1>8, <2>1, <3>1
    <3>3. accepts[n][i] \in Accept
      BY <1>1, <3>1
    <3>4. PICK t \in Nat, u \in Int : t = accepts[n][i].checked /\ u = accepts[n][i].seen
      BY <3>3 DEF Accept
    <3>5. Timely(n, u)
      BY <3>1, <3>4 DEF AuthInv, SeenInWindow
    <3>6. PICK s \in Nat : s = stamp[n]
      BY <1>1
    <3>7. s - Skew <= u /\ seen <= s + Skew
      BY <1>3, <3>5, <3>6 DEF Timely
    <3>8. Promised <= now - t /\ now - t <= 2 * Skew + (now - seen) - (t - u)
      <4>1. now - t >= Ttl
        BY <3>2, <3>4
      <4>2. PICK v \in Int : v = seen
        BY <1>3
      <4>3. v <= s + Skew
        BY <3>7, <4>2
      <4>4. now - t <= 2 * Skew + (now - v) - (t - u)
        BY <1>1, <3>7, <4>3
      <4>5. Promised \in Int /\ Ttl \in Int /\ Promised <= Ttl
        BY <1>1, TtlIsEnough
      <4>6. Promised <= now - t
        BY <1>1, <4>1, <4>5
      <4> QED
        BY <4>2, <4>4, <4>6
    <3>9. Late(accepts'[m][j]) = now - seen /\ Late(accepts'[m][i]) = t - u
      BY <1>3, <2>1, <3>1, <3>4 DEF Late
    <3>10. accepts'[m][j].checked = now /\ accepts'[m][i].checked = t
      BY <1>3, <2>1, <3>1, <3>4
    <3> QED
      BY <3>8, <3>9, <3>10
  <2>2. CASE ~(m = n /\ j = k)
    <3>1. j \in DOMAIN accepts[m] /\ accepts'[m][j] = accepts[m][j]
      BY <1>9, <2>2
    <3>2. ~(m = n /\ i = k)
      <4>1. m = n => j \in 1..(k - 1) /\ k \in Nat
        BY <1>4, <3>1
      <4> QED
        BY <4>1
    <3>3. i \in DOMAIN accepts[m] /\ accepts'[m][i] = accepts[m][i]
      BY <1>9, <3>2
    <3>4. m \notin lost
      BY <1>7
    <3> QED
      BY <3>1, <3>3, <3>4 DEF AuthInv, ReplayNeedsLoss
  <2> QED
    BY <2>1, <2>2
<1> QED
  BY <1>6, <1>10, <1>11, <1>12 DEF AuthInv

\* A step that leaves the copies that passed alone, and of the cache what accounts for
\* them.
LEMMA QuietAuth ==
  ASSUME AuthInv, AuthType', UNCHANGED <<nonceTtl, stamp, accepts>>, lost \subseteq lost',
         \A n \in Signed : \A t \in admitted'[n] : Timely(n, t),
         \A n \in Signed : \A i \in DOMAIN accepts[n] :
           \/ n \in lost'
           \/ n \in DOMAIN cache' /\ accepts[n][i].checked <= cache'[n]
           \/ now' - accepts[n][i].checked >= Ttl
  PROVE  AuthInv'
<1>1. Ttl' = Ttl
  BY DEF Ttl
<1>2. SeenInWindow'
  BY DEF AuthInv, SeenInWindow, Timely
<1>3. NonceKept'
  BY <1>1 DEF NonceKept
<1>4. ReplayNeedsLoss'
  BY DEF AuthInv, ReplayNeedsLoss, Late, Promised
<1> QED
  BY <1>2, <1>3, <1>4 DEF AuthInv

\* Steps preserve what is known of nonces.
LEMMA AuthStepInv ==
  ASSUME AuthInv, AuthNext \/ UNCHANGED authVars
  PROVE  AuthInv'
<1>1. /\ now \in Nat /\ off \in Int /\ Skew \in Nat /\ Ttl \in Nat
      /\ stamp \in [Signed -> Nat] /\ accepts \in [Signed -> Seq(Accept)]
      /\ admitted \in [Signed -> SUBSET Int]
  BY TtlIs DEF AuthInv, AuthType
<1>2. ASSUME NEW n \in Signed, NEW i \in DOMAIN accepts[n] PROVE accepts[n][i].checked \in Nat
  <2>1. accepts[n] \in Seq(Accept)
    BY <1>1
  <2>2. accepts[n][i] \in Accept
    BY <2>1
  <2> QED
    BY <2>2 DEF Accept
<1>3. \A n \in Signed : \A t \in admitted[n] : Timely(n, t)
  BY DEF AuthInv, SeenInWindow
<1>4. \A n \in Signed : \A i \in DOMAIN accepts[n] :
        \/ n \in lost
        \/ n \in DOMAIN cache /\ accepts[n][i].checked <= cache[n]
        \/ now - accepts[n][i].checked >= Ttl
  BY DEF AuthInv, NonceKept
<1>5. ASSUME UNCHANGED <<nonceTtl, now, cache, stamp, accepts, lost>>,
             off' \in Int, admitted' \in [Signed -> SUBSET Int],
             \A n \in Signed : \A t \in admitted'[n] : Timely(n, t)
      PROVE  AuthInv'
  <2>1. AuthType'
    BY <1>5 DEF AuthInv, AuthType
  <2> QED
    BY <1>4, <1>5, <2>1, QuietAuth
<1>6. CASE UNCHANGED authVars
  BY <1>1, <1>3, <1>5, <1>6 DEF authVars
<1>7. CASE SetWallClock
  BY <1>1, <1>3, <1>5, <1>7, AgentAuthAssumption DEF SetWallClock
<1>8. ASSUME NEW n \in Signed, CheckTimestamp(n) PROVE AuthInv'
  <2>1. PICK w \in Int : w = Wall
    BY <1>1 DEF Wall
  <2>2. admitted' = [admitted EXCEPT ![n] = admitted[n] \cup {w}]
    BY <1>8, <2>1 DEF CheckTimestamp
  <2>3. Timely(n, w)
    <3>1. PICK s \in Nat : s = stamp[n]
      BY <1>1
    <3>2. ~(s < w - Skew \/ s > w + Skew)
      BY <1>8, <2>1, <3>1 DEF CheckTimestamp, InWindow
    <3>3. s - Skew <= w /\ w <= s + Skew
      BY <1>1, <3>2
    <3> QED
      BY <3>1, <3>3 DEF Timely
  <2>4. admitted' \in [Signed -> SUBSET Int]
    BY <1>1, <2>2
  <2>5. \A m \in Signed : \A t \in admitted'[m] : Timely(m, t)
    BY <1>1, <1>3, <2>2, <2>3
  <2> QED
    BY <1>1, <1>5, <1>8, <2>4, <2>5 DEF CheckTimestamp
<1>9. ASSUME NEW n \in Nonces, NEW keep \in SUBSET Nonces, CheckAndInsert(n, keep),
             UNCHANGED <<nonceTtl, now, off, stamp, admitted, accepts>>
      PROVE  AuthInv'
  <2>1. /\ lost \subseteq lost'
        /\ DOMAIN cache' \subseteq Nonces /\ \A m \in DOMAIN cache' : cache'[m] \in Nat
    BY <1>9, CacheStep DEF AuthInv
  <2>2. AuthType'
    BY <1>9, <2>1 DEF AuthInv, AuthType
  <2>3. \A m \in Signed : \A i \in DOMAIN accepts[m] :
          \/ m \in lost'
          \/ m \in DOMAIN cache' /\ accepts[m][i].checked <= cache'[m]
          \/ now - accepts[m][i].checked >= Ttl
    BY <1>9, CacheKeeps
  <2> QED
    BY <1>3, <1>9, <2>1, <2>2, <2>3, QuietAuth
<1>10. ASSUME NEW n \in Signed, NEW keep \in SUBSET Nonces, NEW seen \in admitted[n],
              VerifyAgentRequest(n, seen, keep)
       PROVE  AuthInv'
  <2>1. CASE n \notin keep
    BY <1>10, <2>1, PassStep
  <2>2. CASE n \in keep
    BY <1>9, <1>10, <2>2, AgentAuthAssumption DEF VerifyAgentRequest
  <2> QED
    BY <2>1, <2>2
<1>11. ASSUME NEW n \in Nonces, NEW keep \in SUBSET Nonces, RejectAgentRequest(n, keep)
       PROVE  AuthInv'
  BY <1>9, <1>11 DEF RejectAgentRequest
<1>12. CASE RestartGateway
  <2>1. /\ DOMAIN cache' = {} /\ lost' = lost \cup DOMAIN cache
        /\ UNCHANGED <<nonceTtl, now, off, stamp, accepts>>
        /\ admitted' = [n \in Signed |-> {}]
    BY <1>12 DEF RestartGateway
  <2>2. AuthType'
    BY <2>1 DEF AuthInv, AuthType
  <2>3. \A n \in Signed : \A i \in DOMAIN accepts[n] :
          n \in lost' \/ now' - accepts[n][i].checked >= Ttl
    BY <1>4, <2>1
  <2>4. \A n \in Signed : \A t \in admitted'[n] : Timely(n, t)
    BY <2>1
  <2> QED
    BY <2>1, <2>2, <2>3, <2>4, QuietAuth
<1>13. CASE Second
  <2>1. now' = now + 1 /\ UNCHANGED <<nonceTtl, off, cache, stamp, admitted, accepts, lost>>
    BY <1>13 DEF Second
  <2>2. AuthType'
    BY <2>1 DEF AuthInv, AuthType
  <2>3. ASSUME NEW n \in Signed, NEW i \in DOMAIN accepts[n]
        PROVE  \/ n \in lost'
               \/ n \in DOMAIN cache' /\ accepts[n][i].checked <= cache'[n]
               \/ now' - accepts[n][i].checked >= Ttl
    <3>1. PICK t \in Nat : t = accepts[n][i].checked
      BY <1>2
    <3>2. now - t >= Ttl => now' - t >= Ttl
      BY <1>1, <2>1
    <3> QED
      BY <1>4, <2>1, <3>1, <3>2
  <2> QED
    BY <1>3, <2>1, <2>2, <2>3, QuietAuth
<1> QED
  BY <1>6, <1>7, <1>8, <1>10, <1>11, <1>12, <1>13 DEF AuthNext

\* A copy of a signed request that passed is refused, unless the cache lost the nonce to
\* a restart or to its capacity, or the ttl is no longer than the window of timestamps and
\* what the second copy came later than the first.
THEOREM ReplaysNeedLoss == Spec => []ReplayNeedsLoss
<1>1. Init => AuthInv
  BY AuthStart DEF Init
<1>2. AuthInv /\ [Next]_vars => AuthInv'
  BY AuthStepInv, StepOfPart
<1>3. AuthInv => ReplayNeedsLoss
  BY DEF AuthInv
<1> QED
  BY <1>1, <1>2, <1>3, PTL DEF Spec

------------------------------------------------------------------------------
(* Policy bundles *)

Bundle == [rules : Drafts \cup {"none"}, active : BOOLEAN]
EditRecord ==
  [pc : {"idle", "reread", "write", "number", "version", "flag", "delete"},
   op : {"none", "create", "update", "activate", "rollback", "delete"},
   held : Bundle, next : Nat]

PolicyType ==
  /\ bundle \in Bundle /\ versions \in Seq(Bundle)
  /\ edit \in [Operators -> EditRecord]
  /\ disturbed \in BOOLEAN

\* What an edit is about to put into force was approved.
HeldWasApproved ==
  \A o \in Operators :
    edit[o].pc = "write" /\ edit[o].held.active => edit[o].held.rules \in approved

\* The newest version is the bundle.
Settled(b, vs) == b # NoBundle => Len(vs) > 0 /\ vs[Len(vs)] = b

Versioning == {"number", "version", "flag"}

\* What an edit has at hand: the bundle, then the number of the next version, and
\* then the newest version.
AtHand(r, b, vs) ==
  /\ Settled(b, vs) \/ r.pc \in Versioning
  /\ r.pc \in Versioning /\ b # NoBundle => b = r.held
  /\ r.pc = "version" => r.next = Len(vs) + 1
  /\ r.pc = "flag" => Len(vs) > 0 /\ vs[Len(vs)] = r.held

\* Undisturbed edits come one at a time.
SerialEdits ==
  ~disturbed =>
    /\ \A o, p \in Operators : edit[o].pc # "idle" /\ edit[p].pc # "idle" => o = p
    /\ \A o \in Operators : edit[o].pc # "idle" => AtHand(edit[o], bundle, versions)
    /\ (\A o \in Operators : edit[o].pc = "idle") => Settled(bundle, versions)

PolicyInv == PolicyType /\ InForceWasApproved /\ HeldWasApproved /\ SerialEdits

\* The records that edits use have their type.
LEMMA EditRecords ==
  /\ NoBundle \in Bundle /\ IdleEdit \in EditRecord /\ IdleEdit.pc = "idle"
  /\ \A d \in Drafts : Parsed(d) \in Bundle /\ ~Parsed(d).active
  /\ \A pc \in {"reread", "write", "number", "delete"},
        op \in {"create", "update", "activate", "rollback", "delete"}, b \in Bundle :
       [pc |-> pc, op |-> op, held |-> b, next |-> 0] \in EditRecord
BY DEF NoBundle, Bundle, IdleEdit, EditRecord, Parsed

\* Before the first edit there is no bundle.
LEMMA PolicyStart == PolicyInit => PolicyInv
<1> SUFFICES ASSUME PolicyInit PROVE PolicyInv
  OBVIOUS
<1>1. /\ bundle = NoBundle /\ versions = <<>> /\ disturbed = FALSE
      /\ edit = [o \in Operators |-> IdleEdit]
  BY DEF PolicyInit
<1>2. \A o \in Operators : edit[o] = IdleEdit
  BY <1>1
<1>3. PolicyType
  <2>1. versions \in Seq(Bundle)
    BY <1>1
  <2>2. edit \in [Operators -> EditRecord]
    BY <1>1, EditRecords
  <2> QED
    BY <1>1, <2>1, <2>2, EditRecords DEF PolicyType
<1>4. InForceWasApproved
  BY <1>1 DEF InForceWasApproved, NoBundle
<1>5. \A o \in Operators : edit[o].pc = "idle"
  BY <1>2, EditRecords
<1>6. Settled(bundle, versions)
  BY <1>1 DEF Settled
<1> QED
  BY <1>3, <1>4, <1>5, <1>6 DEF PolicyInv, HeldWasApproved, SerialEdits

\* A step moves one edit; the others, and with them what they have at hand, stand
\* still.
LEMMA EditMoves ==
  ASSUME PolicyInv, NEW o \in Operators, NEW r \in EditRecord, edit' = [edit EXCEPT ![o] = r],
         bundle' \in Bundle, versions' \in Seq(Bundle), disturbed' \in BOOLEAN,
         approved \subseteq approved', InForceWasApproved',
         r.pc = "write" /\ r.held.active => r.held.rules \in approved',
         ~disturbed' => ~disturbed /\ \A p \in Operators \ {o} : edit[p].pc = "idle",
         ~disturbed' => AtHand(r, bundle', versions')
  PROVE  PolicyInv'
<1>1. /\ edit' \in [Operators -> EditRecord] /\ edit'[o] = r
      /\ \A p \in Operators \ {o} : edit'[p] = edit[p]
  BY DEF PolicyInv, PolicyType
<1>2. PolicyType'
  BY <1>1 DEF PolicyType
<1>3. HeldWasApproved'
  BY <1>1 DEF PolicyInv, HeldWasApproved
<1>4. SerialEdits'
  <2> SUFFICES ASSUME ~disturbed'
               PROVE  /\ \A p, q \in Operators :
                           edit'[p].pc # "idle" /\ edit'[q].pc # "idle" => p = q
                      /\ \A p \in Operators :
                           edit'[p].pc # "idle" => AtHand(edit'[p], bundle', versions')
                      /\ (\A p \in Operators : edit'[p].pc = "idle") => Settled(bundle', versions')
    BY DEF SerialEdits
  <2>1. \A p \in Operators : p # o => edit'[p].pc = "idle"
    BY <1>1
  <2>2. AtHand(edit'[o], bundle', versions')
    BY <1>1 DEF AtHand
  <2>3. r.pc = "idle" => Settled(bundle', versions')
    BY DEF AtHand, Versioning
  <2> QED
    BY <1>1, <2>1, <2>2, <2>3
<1> QED
  BY <1>2, <1>3, <1>4 DEF PolicyInv

\* An edit that begins undisturbed is alone, and the history matches.
LEMMA EditBegins ==
  ASSUME PolicyInv, NEW o \in Operators, BeginEdit(o)
  PROVE  /\ disturbed' \in BOOLEAN
         /\ ~disturbed' => ~disturbed /\ Settled(bundle, versions)
                             /\ \A p \in Operators \ {o} : edit[p].pc = "idle"
<1>1. edit[o].pc = "idle" /\ disturbed \in BOOLEAN
      /\ disturbed' = (disturbed \/ \E p \in Operators \ {o} : edit[p].pc # "idle")
  BY DEF BeginEdit, PolicyInv, PolicyType
<1>2. ~disturbed' => ~disturbed /\ \A p \in Operators \ {o} : edit[p].pc = "idle"
  BY <1>1
<1> QED
  BY <1>1, <1>2 DEF PolicyInv, SerialEdits

\* Beginning an edit preserves the invariant.
LEMMA BeginStep ==
  ASSUME PolicyInv, NEW o \in Operators, BeginEdit(o),
         NEW r \in EditRecord, edit' = [edit EXCEPT ![o] = r], versions' = versions,
         approved \subseteq approved',
         \/ bundle' = bundle /\ r.pc \in {"write", "reread", "delete"}
         \/ bundle' = r.held /\ r.pc = "number" /\ ~r.held.active,
         r.pc = "write" /\ r.held.active => r.held.rules \in approved'
  PROVE  PolicyInv'
<1>1. /\ disturbed' \in BOOLEAN
      /\ ~disturbed' => ~disturbed /\ Settled(bundle, versions)
                          /\ \A p \in Operators \ {o} : edit[p].pc = "idle"
  BY EditBegins
<1>2. bundle \in Bundle /\ versions' \in Seq(Bundle) /\ r.held \in Bundle
  BY DEF PolicyInv, PolicyType, EditRecord
<1>3. bundle' \in Bundle
  BY <1>2
<1>4. InForceWasApproved'
  BY DEF PolicyInv, InForceWasApproved
<1>5. ~disturbed' => AtHand(r, bundle', versions')
  BY <1>1 DEF AtHand, Settled, Versioning
<1> QED
  BY <1>1, <1>2, <1>3, <1>4, <1>5, EditMoves

\* An edit that goes on undisturbed is alone, and has at hand what it needs.
LEMMA EditGoesOn ==
  ASSUME PolicyInv, NEW o \in Operators, edit[o].pc # "idle"
  PROVE  /\ edit[o] \in EditRecord /\ edit[o].held \in Bundle /\ disturbed \in BOOLEAN
         /\ ~disturbed => /\ AtHand(edit[o], bundle, versions)
                           /\ \A p \in Operators \ {o} : edit[p].pc = "idle"
<1>1. edit[o] \in EditRecord /\ disturbed \in BOOLEAN
  BY DEF PolicyInv, PolicyType
<1> QED
  BY <1>1 DEF PolicyInv, SerialEdits, EditRecord

\* Steps preserve what is known of bundles.
LEMMA PolicyStepInv ==
  ASSUME PolicyInv, PolicyNext \/ UNCHANGED policyVars
  PROVE  PolicyInv'
<1>1. /\ bundle \in Bundle /\ versions \in Seq(Bundle) /\ disturbed \in BOOLEAN
      /\ edit \in [Operators -> EditRecord]
  BY DEF PolicyInv, PolicyType
<1>2. CASE UNCHANGED policyVars
  BY <1>2 DEF policyVars, PolicyInv, PolicyType, InForceWasApproved, HeldWasApproved,
              SerialEdits, AtHand, Settled
<1>3. ASSUME NEW o \in Operators, NEW d \in Drafts, CreateBundle(o, d) PROVE PolicyInv'
  <2>1. BeginEdit(o) /\ UNCHANGED <<versions, approved>>
    BY <1>3 DEF CreateBundle
  <2>2. CASE bundle' = Parsed(d) /\ Continue(o, "number", "create", Parsed(d))
    <3> DEFINE r == [pc |-> "number", op |-> "create", held |-> Parsed(d), next |-> 0]
    <3>1. r \in EditRecord /\ r.pc = "number" /\ r.held = Parsed(d) /\ ~Parsed(d).active
      BY EditRecords
    <3>2. edit' = [edit EXCEPT ![o] = r]
      BY <2>2 DEF Continue
    <3> HIDE DEF r
    <3> QED
      BY <2>1, <2>2, <3>1, <3>2, BeginStep
  <2>3. CASE UNCHANGED <<bundle, edit>>
    <3>1. disturbed' \in BOOLEAN /\ (~disturbed' => ~disturbed)
      BY <2>1, EditBegins
    <3> QED
      BY <2>1, <2>3, <3>1 DEF PolicyInv, PolicyType, InForceWasApproved, HeldWasApproved,
                              SerialEdits, AtHand, Settled
  <2> QED
    BY <1>3, <2>2, <2>3 DEF CreateBundle
<1>4. ASSUME NEW o \in Operators, NEW b \in Bundle, NEW pc \in {"write", "reread", "delete"},
             NEW op \in {"update", "activate", "rollback", "delete"},
             BeginEdit(o), Continue(o, pc, op, b), UNCHANGED <<bundle, versions>>,
             approved \subseteq approved',
             pc = "write" /\ b.active => b.rules \in approved'
      PROVE  PolicyInv'
  <2> DEFINE r == [pc |-> pc, op |-> op, held |-> b, next |-> 0]
  <2>1. r \in EditRecord /\ r.pc = pc /\ r.held = b
    BY EditRecords
  <2>2. edit' = [edit EXCEPT ![o] = r]
    BY <1>4 DEF Continue
  <2> HIDE DEF r
  <2> QED
    BY <1>4, <2>1, <2>2, BeginStep
<1>5. ASSUME NEW o \in Operators, NEW d \in Drafts, UpdateBundle(o, d) PROVE PolicyInv'
  BY <1>4, <1>5, EditRecords DEF UpdateBundle
<1>6. ASSUME NEW o \in Operators, NEW active \in BOOLEAN, SetActive(o, active) PROVE PolicyInv'
  <2>1. [NoBundle EXCEPT !.active = active] \in Bundle
    BY EditRecords DEF Bundle
  <2> QED
    BY <1>4, <1>6, <2>1 DEF SetActive
<1>7. ASSUME NEW o \in Operators, NEW v \in DOMAIN versions, RollbackBundle(o, v)
      PROVE  PolicyInv'
  <2> DEFINE b == [rules |-> versions[v].rules, active |-> TRUE]
  <2>1. b \in Bundle /\ b.rules = versions[v].rules
    <3>1. versions[v] \in Bundle
      BY <1>1
    <3> QED
      BY <3>1 DEF Bundle
  <2>2. /\ BeginEdit(o) /\ Continue(o, "write", "rollback", b) /\ UNCHANGED <<bundle, versions>>
        /\ approved' = approved \cup {versions[v].rules}
    BY <1>7 DEF RollbackBundle
  <2> HIDE DEF b
  <2> QED
    BY <1>4, <2>1, <2>2
<1>8. ASSUME NEW o \in Operators, DeleteBundle(o) PROVE PolicyInv'
  BY <1>4, <1>8, EditRecords DEF DeleteBundle
<1>9. ASSUME NEW o \in Operators, edit[o].pc # "idle", EndEdit(o),
             bundle' \in Bundle, versions' \in Seq(Bundle), approved' = approved,
             disturbed' \in BOOLEAN, InForceWasApproved',
             ~disturbed' => ~disturbed /\ Settled(bundle', versions')
      PROVE  PolicyInv'
  <2>1. edit' = [edit EXCEPT ![o] = IdleEdit]
    BY <1>9 DEF EndEdit
  <2>2. ~disturbed' => AtHand(IdleEdit, bundle', versions')
    BY <1>9, EditRecords DEF AtHand, Versioning
  <2> QED
    BY <1>9, <2>1, <2>2, EditRecords, EditGoesOn, EditMoves
<1>10. ASSUME NEW o \in Operators, Reread(o) PROVE PolicyInv'
  <2>1. /\ edit[o].pc = "reread" /\ UNCHANGED <<bundle, versions, edits, disturbed>>
        /\ approved \subseteq approved'
    BY <1>10 DEF Reread
  <2>2. InForceWasApproved'
    BY <2>1 DEF PolicyInv, InForceWasApproved
  <2>3. ~disturbed => Settled(bundle, versions)
    BY <2>1, EditGoesOn DEF AtHand, Versioning
  <2>4. CASE EndEdit(o) /\ UNCHANGED approved
    BY <1>1, <1>9, <2>1, <2>2, <2>3, <2>4 DEF Settled
  <2>5. CASE /\ Continue(o, "write", "activate", [bundle EXCEPT !.active = edit[o].held.active])
             /\ approved' = IF edit[o].held.active THEN approved \cup {bundle.rules} ELSE approved
    <3> DEFINE b == [bundle EXCEPT !.active = edit[o].held.active]
               r == [pc |-> "write", op |-> "activate", held |-> b, next |-> 0]
    <3>1. edit[o].held \in Bundle
      BY <2>1, EditGoesOn
    <3>2. b \in Bundle /\ b.rules = bundle.rules /\ b.active = edit[o].held.active
      BY <1>1, <3>1 DEF Bundle
    <3>3. r \in EditRecord /\ r.pc = "write" /\ r.held = b
      BY <3>2, EditRecords
    <3>4. edit' = [edit EXCEPT ![o] = r]
      BY <2>5 DEF Continue
    <3> HIDE DEF b, r
    <3>5. r.held.active => r.held.rules \in approved'
      BY <2>5, <3>2, <3>3
    <3>6. ~disturbed => AtHand(r, bundle', versions')
      BY <2>1, <2>3, <3>3 DEF AtHand, Settled, Versioning
    <3> QED
      BY <1>1, <2>1, <2>2, <3>3, <3>4, <3>5, <3>6, EditGoesOn, EditMoves
  <2> QED
    BY <1>10, <2>4, <2>5 DEF Reread
<1>11. ASSUME NEW o \in Operators, Write(o) PROVE PolicyInv'
  <2> DEFINE r == [edit[o] EXCEPT !.pc = "number"]
  <2>1. /\ edit[o].pc = "write" /\ bundle' = (IF bundle = NoBundle THEN NoBundle ELSE edit[o].held)
        /\ edit' = [edit EXCEPT ![o] = r] /\ UNCHANGED <<versions, approved, disturbed>>
    BY <1>11 DEF Write
  <2>2. edit[o] \in EditRecord /\ edit[o].held \in Bundle
        /\ (~disturbed => \A p \in Operators \ {o} : edit[p].pc = "idle")
    BY <2>1, EditGoesOn
  <2>3. r \in EditRecord /\ r.pc = "number" /\ r.held = edit[o].held
    BY <2>2 DEF EditRecord
  <2> HIDE DEF r
  <2>4. bundle' \in Bundle
    BY <2>1, <2>2, EditRecords
  <2>5. InForceWasApproved'
    BY <2>1 DEF PolicyInv, InForceWasApproved, HeldWasApproved, NoBundle
  <2>6. AtHand(r, bundle', versions')
    BY <2>1, <2>3 DEF AtHand, Versioning
  <2> QED
    BY <1>1, <2>1, <2>2, <2>3, <2>4, <2>5, <2>6, EditMoves
<1>12. ASSUME NEW o \in Operators, ReadNumber(o) PROVE PolicyInv'
  <2> DEFINE r == [edit[o] EXCEPT !.pc = "version", !.next = Len(versions) + 1]
  <2>1. /\ edit[o].pc = "number"
        /\ edit' = [edit EXCEPT ![o] = r] /\ UNCHANGED <<bundle, versions, approved, disturbed>>
    BY <1>12 DEF ReadNumber
  <2>2. edit[o] \in EditRecord
        /\ (~disturbed => /\ AtHand(edit[o], bundle, versions)
                          /\ \A p \in Operators \ {o} : edit[p].pc = "idle")
    BY <2>1, EditGoesOn
  <2>3. r \in EditRecord /\ r.pc = "version" /\ r.held = edit[o].held
        /\ r.next = Len(versions) + 1
    <3>1. Len(versions) + 1 \in Nat
      BY <1>1
    <3>2. ASSUME NEW n \in Nat, NEW e \in EditRecord
          PROVE  LET s == [e EXCEPT !.pc = "version", !.next = n]
                 IN  s \in EditRecord /\ s.pc = "version" /\ s.held = e.held /\ s.next = n
      BY DEF EditRecord
    <3> QED
      BY <2>2, <3>1, <3>2
  <2> HIDE DEF r
  <2>4. InForceWasApproved'
    BY <2>1 DEF PolicyInv, InForceWasApproved
  <2>5. ~disturbed => AtHand(r, bundle', versions')
    BY <2>1, <2>2, <2>3 DEF AtHand, Versioning
  <2> QED
    BY <1>1, <2>1, <2>2, <2>3, <2>4, <2>5, EditMoves
<1>13. ASSUME NEW o \in Operators, InsertVersion(o) PROVE PolicyInv'
  <2>1. edit[o].pc = "version" /\ UNCHANGED <<bundle, edits, approved, disturbed>>
    BY <1>13 DEF InsertVersion
  <2>2. /\ edit[o] \in EditRecord /\ edit[o].held \in Bundle
        /\ ~disturbed => /\ AtHand(edit[o], bundle, versions)
                          /\ \A p \in Operators \ {o} : edit[p].pc = "idle"
    BY <2>1, EditGoesOn
  <2>3. InForceWasApproved'
    BY <2>1 DEF PolicyInv, InForceWasApproved
  <2>4. CASE edit[o].next # Len(versions) + 1 /\ EndEdit(o) /\ UNCHANGED versions
    <3>1. disturbed
      BY <2>1, <2>2, <2>4 DEF AtHand
    <3> QED
      BY <1>1, <1>9, <2>1, <2>3, <2>4, <3>1
  <2>5. CASE versions' = Append(versions, edit[o].held)
    <3>1. /\ versions' \in Seq(Bundle) /\ Len(versions') > 0
          /\ versions'[Len(versions')] = edit[o].held
      BY <1>1, <2>2, <2>5
    <3>2. ~disturbed => (bundle # NoBundle => bundle = edit[o].held)
      BY <2>1, <2>2 DEF AtHand, Versioning
    <3>3. CASE EndEdit(o)
      <4>1. ~disturbed => Settled(bundle', versions')
        BY <2>1, <3>1, <3>2 DEF Settled
      <4> QED
        BY <1>1, <1>9, <2>1, <2>3, <3>1, <3>3, <4>1
    <3>4. CASE edit' = [edit EXCEPT ![o].pc = "flag"]
      <4> DEFINE r == [edit[o] EXCEPT !.pc = "flag"]
      <4>1. edit' = [edit EXCEPT ![o] = r]
        BY <3>4
      <4>2. r \in EditRecord /\ r.pc = "flag" /\ r.held = edit[o].held
        BY <2>2 DEF EditRecord
      <4> HIDE DEF r
      <4>3. ~disturbed => AtHand(r, bundle', versions')
        BY <2>1, <3>1, <3>2, <4>2 DEF AtHand, Versioning
      <4> QED
        BY <1>1, <2>1, <2>2, <2>3, <3>1, <4>1, <4>2, <4>3, EditMoves
    <3> QED
      BY <1>13, <2>4, <3>3, <3>4 DEF InsertVersion
  <2> QED
    BY <1>13, <2>4, <2>5 DEF InsertVersion
<1>14. ASSUME NEW o \in Operators, FlagVersion(o) PROVE PolicyInv'
  <2>1. /\ edit[o].pc = "flag" /\ EndEdit(o) /\ UNCHANGED <<bundle, approved, disturbed>>
        /\ versions' = [versions EXCEPT ![Len(versions)].active = edit[o].held.active]
    BY <1>14 DEF FlagVersion
  <2>2. /\ edit[o].held \in Bundle /\ (~disturbed => AtHand(edit[o], bundle, versions))
    BY <2>1, EditGoesOn
  <2>3. versions' \in Seq(Bundle)
    <3>1. DOMAIN versions' = DOMAIN versions
      BY <2>1
    <3>2. ASSUME NEW v \in DOMAIN versions PROVE versions'[v] \in Bundle
      <4>1. versions[v] \in Bundle
        BY <1>1
      <4>2. [versions[v] EXCEPT !.active = edit[o].held.active] \in Bundle
        BY <2>2, <4>1 DEF Bundle
      <4> QED
        BY <2>1, <4>1, <4>2
    <3>3. DOMAIN versions = 1..Len(versions) /\ Len(versions) \in Nat
      BY <1>1
    <3>4. versions' = [v \in 1..Len(versions) |-> versions'[v]]
      BY <2>1, <3>1, <3>3
    <3> QED
      BY <3>1, <3>2, <3>3, <3>4
  <2>4. InForceWasApproved'
    BY <2>1 DEF PolicyInv, InForceWasApproved
  <2>5. ~disturbed => Settled(bundle', versions')
    <3> SUFFICES ASSUME ~disturbed, bundle # NoBundle
                 PROVE  Len(versions') > 0 /\ versions'[Len(versions')] = bundle
      BY <2>1 DEF Settled
    <3>1. /\ Len(versions) > 0 /\ versions[Len(versions)] = edit[o].held
          /\ bundle = edit[o].held
      BY <2>1, <2>2 DEF AtHand, Versioning
    <3>2. Len(versions) \in DOMAIN versions /\ Len(versions') = Len(versions)
      BY <1>1, <2>1, <2>3, <3>1
    <3>3. versions'[Len(versions)] = [versions[Len(versions)] EXCEPT !.active = edit[o].held.active]
      BY <2>1, <3>2
    <3>4. versions'[Len(versions)] = [edit[o].held EXCEPT !.active = edit[o].held.active]
      BY <3>1, <3>3
    <3>5. [edit[o].held EXCEPT !.active = edit[o].held.active] = edit[o].held
      BY <2>2 DEF Bundle
    <3> QED
      BY <3>1, <3>2, <3>4, <3>5
  <2> QED
    BY <1>1, <1>9, <2>1, <2>3, <2>4, <2>5
<1>15. ASSUME NEW o \in Operators, DeleteRow(o) PROVE PolicyInv'
  <2>1. /\ edit[o].pc = "delete" /\ EndEdit(o) /\ bundle' = NoBundle
        /\ UNCHANGED <<versions, approved, disturbed>>
    BY <1>15 DEF DeleteRow
  <2>2. Settled(bundle', versions') /\ InForceWasApproved'
    BY <2>1 DEF Settled, InForceWasApproved, NoBundle
  <2> QED
    BY <1>1, <1>9, <2>1, <2>2, EditRecords
<1>16. ASSUME NEW o \in Operators, BreakOff(o) PROVE PolicyInv'
  <2>1. /\ edit[o].pc # "idle" /\ EndEdit(o) /\ disturbed' = TRUE
        /\ UNCHANGED <<bundle, versions, approved>>
    BY <1>16 DEF BreakOff
  <2>2. InForceWasApproved'
    BY <2>1 DEF PolicyInv, InForceWasApproved
  <2> QED
    BY <1>1, <1>9, <2>1, <2>2
<1> QED
  BY <1>2, <1>3, <1>5, <1>6, <1>7, <1>8, <1>10, <1>11, <1>12, <1>13, <1>14, <1>15, <1>16
     DEF PolicyNext

\* A step adds a version or sets the flag of one.
LEMMA VersionsGrow ==
  ASSUME PolicyInv, PolicyNext \/ UNCHANGED policyVars
  PROVE  \A v \in DOMAIN versions :
           v \in DOMAIN versions' /\ versions'[v].rules = versions[v].rules
<1>1. versions \in Seq(Bundle)
  BY DEF PolicyInv, PolicyType
<1>2. CASE versions' = versions
  BY <1>2
<1>3. ASSUME NEW o \in Operators, FlagVersion(o)
      PROVE  \A v \in DOMAIN versions :
               v \in DOMAIN versions' /\ versions'[v].rules = versions[v].rules
  <2>1. versions' = [versions EXCEPT ![Len(versions)].active = edit[o].held.active]
    BY <1>3 DEF FlagVersion
  <2>2. ASSUME NEW v \in DOMAIN versions PROVE versions'[v].rules = versions[v].rules
    <3>1. versions[v] \in Bundle
      BY <1>1
    <3>2. [versions[v] EXCEPT !.active = edit[o].held.active].rules = versions[v].rules
      BY <3>1 DEF Bundle
    <3>3. versions'[v] \in {versions[v], [versions[v] EXCEPT !.active = edit[o].held.active]}
      BY <2>1
    <3> QED
      BY <3>2, <3>3
  <2> QED
    BY <2>1, <2>2
<1>4. ASSUME NEW o \in Operators, versions' = Append(versions, edit[o].held)
      PROVE  \A v \in DOMAIN versions :
               v \in DOMAIN versions' /\ versions'[v].rules = versions[v].rules
  <2>1. edit[o].held \in Bundle
    BY DEF PolicyInv, PolicyType, EditRecord
  <2> QED
    BY <1>1, <1>4, <2>1
<1>5. ASSUME NEW o \in Operators, InsertVersion(o)
      PROVE  versions' = versions \/ versions' = Append(versions, edit[o].held)
  BY <1>5 DEF InsertVersion
<1>6. \/ versions' = versions
      \/ \E o \in Operators : FlagVersion(o) \/ InsertVersion(o)
  BY DEF PolicyNext, policyVars, CreateBundle, UpdateBundle, SetActive, RollbackBundle,
         DeleteBundle, Reread, Write, ReadNumber, DeleteRow, BreakOff
<1> QED
  BY <1>2, <1>3, <1>4, <1>5, <1>6

\* However the edits of several operators interleave and wherever they break off,
\* the rules in force were approved, the history is never rewritten, and between
\* undisturbed edits its newest version is the bundle.
THEOREM BundlesGoverned == Spec => BundlesAreGoverned
<1>1. Init => PolicyInv
  BY PolicyStart DEF Init
<1>2. PolicyInv /\ [Next]_vars => PolicyInv'
  BY PolicyStepInv, StepOfPart
<1>3. PolicyInv => InForceWasApproved /\ HistoryMatches
  <2> SUFFICES ASSUME PolicyInv, ~disturbed, bundle # NoBundle,
                      \A o \in Operators : edit[o].pc = "idle"
               PROVE  versions # <<>> /\ versions[Len(versions)] = bundle
    BY DEF PolicyInv, HistoryMatches
  <2>1. Len(versions) > 0 /\ versions[Len(versions)] = bundle
    BY DEF PolicyInv, SerialEdits, Settled
  <2> QED
    BY <2>1
<1>4. PolicyInv /\ [Next]_vars =>
        [\A v \in DOMAIN versions :
           v \in DOMAIN versions' /\ versions'[v].rules = versions[v].rules]_policyVars
  BY VersionsGrow, StepOfPart
<1> QED
  BY <1>1, <1>2, <1>3, <1>4, PTL DEF Spec, BundlesAreGoverned, HistoryIsKept

------------------------------------------------------------------------------
(* Credentials *)

Scopes == ScopeSets \cup {Founders[i] : i \in DOMAIN Founders}
Credential ==
  [kind : {"token", "agent"}, role : {"admin", "other"}, scopes : Scopes, expires : Nat,
   revoked : BOOLEAN, issuers : SUBSET Nat, line : Nat]
CallRecord == [pc : {"idle", "handle", "revoke", "insert"}, issuer : Nat, old : Nat]

\* A call refers to credentials in the store.
CallFits(r, cs) ==
  /\ r.pc # "idle" => r.issuer \in DOMAIN cs
  /\ r.pc \in {"idle", "handle"} => r.old = 0
  /\ r.pc \in {"revoke", "insert"} => r.old \in DOMAIN cs

AccessType ==
  /\ day \in Nat
  /\ credentials \in Seq(Credential)
  /\ \A i \in DOMAIN credentials :
       /\ credentials[i].issuers \subseteq DOMAIN credentials
       /\ credentials[i].line \in DOMAIN credentials
  /\ call \in [Admins -> CallRecord]
  /\ \A a \in Admins : CallFits(call[a], credentials)

\* The issuer of a rotation may issue what it is going to insert.
RotationAllowed ==
  \A a \in Admins : call[a].pc \in {"revoke", "insert"} =>
    MayIssue(call[a].issuer, credentials[call[a].old].role, credentials[call[a].old].scopes)

Unrevoked(l) == {i \in DOMAIN credentials : credentials[i].line = l /\ ~credentials[i].revoked}

\* At most one token of a line is not revoked, and at most one rotation is at work:
\* on that token, and later with none left.
LineFits(unrevoked, hands, c) ==
  /\ \A i, j \in unrevoked : i = j
  /\ \A a, b \in hands : a = b
  /\ \A a \in hands : c[a].pc = "revoke" => unrevoked \subseteq {c[a].old}
  /\ \A a \in hands : c[a].pc = "insert" => unrevoked = {}

LineInv ==
  \A l \in DOMAIN credentials : l \notin raced => LineFits(Unrevoked(l), InHand(l), call)

AccessInv == AccessType /\ NoEscalation /\ RotationAllowed /\ LineInv

\* The deployment starts with a line for each of its tokens.
LEMMA AccessStart == AccessInit => AccessInv
<1> SUFFICES ASSUME AccessInit PROVE AccessInv
  OBVIOUS
<1>1. /\ day = 0 /\ credentials = [i \in DOMAIN Founders |-> Founder(i)]
      /\ call = [a \in Admins |-> IdleCall]
  BY DEF AccessInit
<1>2. /\ DOMAIN credentials = DOMAIN Founders
      /\ \A i \in DOMAIN Founders : credentials[i] = Founder(i)
  BY <1>1
<1>3. \A i \in DOMAIN Founders :
        Founder(i) \in Credential /\ Founder(i).issuers = {} /\ Founder(i).line = i
  <2> SUFFICES ASSUME NEW i \in DOMAIN Founders
               PROVE  Founder(i) \in Credential /\ Founder(i).issuers = {} /\ Founder(i).line = i
    OBVIOUS
  <2>1. i \in Nat /\ MaxDay \in Nat
    BY AccessAssumption
  <2>2. Founders[i] \in Scopes
    BY DEF Scopes
  <2> QED
    BY <2>1, <2>2 DEF Founder, Credential
<1>4. credentials \in Seq(Credential)
  BY <1>1, <1>3, AccessAssumption
<1>5. \A a \in Admins : call[a] = IdleCall
  BY <1>1
<1>6. IdleCall \in CallRecord /\ IdleCall.pc = "idle" /\ IdleCall.old = 0
  BY DEF IdleCall, CallRecord
<1>7. AccessType
  <2>1. call \in [Admins -> CallRecord]
    BY <1>1, <1>6
  <2>2. \A a \in Admins : CallFits(call[a], credentials)
    BY <1>5, <1>6 DEF CallFits
  <2> QED
    BY <1>1, <1>2, <1>3, <1>4, <2>1, <2>2 DEF AccessType
<1>8. NoEscalation
  BY <1>2, <1>3 DEF NoEscalation
<1>9. RotationAllowed
  BY <1>5, <1>6 DEF RotationAllowed
<1>10. LineInv
  <2> SUFFICES ASSUME NEW l \in DOMAIN credentials
               PROVE  LineFits(Unrevoked(l), InHand(l), call)
    BY DEF LineInv
  <2>1. InHand(l) = {}
    BY <1>5, <1>6 DEF InHand
  <2>2. \A i \in Unrevoked(l) : i = l
    BY <1>2, <1>3 DEF Unrevoked
  <2> QED
    BY <2>1, <2>2 DEF LineFits
<1> QED
  BY <1>7, <1>8, <1>9, <1>10 DEF AccessInv

\* What stays of a credential whatever becomes of it.
SameGrant(c, d) == c.role = d.role /\ c.scopes = d.scopes /\ c.issuers = d.issuers /\ c.line = d.line

\* Revoking a credential leaves everything else.
LEMMA RevokedIs ==
  ASSUME AccessType, NEW i \in DOMAIN credentials,
         credentials' = [credentials EXCEPT ![i].revoked = TRUE]
  PROVE  /\ credentials' \in Seq(Credential) /\ DOMAIN credentials' = DOMAIN credentials
         /\ \A j \in DOMAIN credentials :
              /\ SameGrant(credentials'[j], credentials[j])
              /\ credentials[j].revoked => credentials'[j].revoked
         /\ credentials'[i].revoked
<1>1. credentials \in Seq(Credential)
  BY DEF AccessType
<1>2. DOMAIN credentials' = DOMAIN credentials
  BY <1>1
<1>3. ASSUME NEW c \in Credential
      PROVE  LET d == [c EXCEPT !.revoked = TRUE]
             IN  d \in Credential /\ SameGrant(d, c) /\ d.revoked
  BY DEF Credential, SameGrant
<1>4. ASSUME NEW j \in DOMAIN credentials
      PROVE  /\ credentials'[j] \in Credential /\ SameGrant(credentials'[j], credentials[j])
             /\ credentials[j].revoked => credentials'[j].revoked
  <2>1. credentials[j] \in Credential
    BY <1>1
  <2>2. SameGrant(credentials[j], credentials[j])
    BY DEF SameGrant
  <2>3. CASE j = i
    <3>1. credentials'[j] = [credentials[j] EXCEPT !.revoked = TRUE]
      BY <2>3
    <3> QED
      BY <1>3, <2>1, <3>1
  <2>4. CASE j # i
    <3>1. credentials'[j] = credentials[j]
      BY <2>4
    <3> QED
      BY <2>1, <2>2, <3>1
  <2> QED
    BY <2>3, <2>4
<1>5. credentials'[i].revoked
  <2>1. credentials'[i] = [credentials[i] EXCEPT !.revoked = TRUE] /\ credentials[i] \in Credential
    BY <1>1
  <2> QED
    BY <1>3, <2>1
<1>6. DOMAIN credentials = 1..Len(credentials) /\ Len(credentials) \in Nat
  BY <1>1
<1>7. credentials' = [j \in 1..Len(credentials) |-> credentials'[j]]
  <2>1. credentials' = [j \in DOMAIN credentials |-> credentials'[j]]
    OBVIOUS
  <2> QED
    BY <1>6, <2>1
<1>8. credentials' \in Seq(Credential)
  <2>1. \A j \in 1..Len(credentials) : credentials'[j] \in Credential
    BY <1>4, <1>6
  <2>2. credentials' \in [1..Len(credentials) -> Credential]
    BY <1>7, <2>1
  <2>3. \A n \in Nat : \A f \in [1..n -> Credential] : f \in Seq(Credential)
    OBVIOUS
  <2> QED
    BY <1>6, <2>2, <2>3
<1> QED
  BY <1>2, <1>4, <1>5, <1>8

\* A new credential comes last.
LEMMA AppendedIs ==
  ASSUME AccessType, NEW c \in Credential, credentials' = Append(credentials, c)
  PROVE  LET n == Len(credentials) + 1 IN
         /\ credentials' \in Seq(Credential) /\ n \in Nat \ {0} /\ n \notin DOMAIN credentials
         /\ DOMAIN credentials' = DOMAIN credentials \cup {n}
         /\ credentials'[n] = c
         /\ \A i \in DOMAIN credentials : credentials'[i] = credentials[i]
BY DEF AccessType

\* What the calls have in hand still fits when one of them moves and the credentials
\* keep what they grant.
LEMMA CallMoves ==
  ASSUME AccessInv, day' \in Nat, credentials' \in Seq(Credential),
         DOMAIN credentials \subseteq DOMAIN credentials',
         \A i \in DOMAIN credentials : SameGrant(credentials'[i], credentials[i]),
         \A i \in DOMAIN credentials' \ DOMAIN credentials :
           /\ credentials'[i].issuers \subseteq DOMAIN credentials'
           /\ credentials'[i].line \in DOMAIN credentials',
         NEW a \in Admins, NEW r \in CallRecord, call' = [call EXCEPT ![a] = r],
         CallFits(r, credentials),
         r.pc \in {"revoke", "insert"} =>
           MayIssue(r.issuer, credentials[r.old].role, credentials[r.old].scopes)
  PROVE  AccessType' /\ RotationAllowed'
<1>1. /\ call' \in [Admins -> CallRecord] /\ call'[a] = r
      /\ \A b \in Admins \ {a} : call'[b] = call[b]
  BY DEF AccessInv, AccessType
<1>2. \A b \in Admins : CallFits(call'[b], credentials)
  BY <1>1 DEF AccessInv, AccessType
<1>3. \A b \in Admins : CallFits(call'[b], credentials')
  BY <1>2 DEF CallFits
<1>4. ASSUME NEW i \in DOMAIN credentials'
      PROVE  /\ credentials'[i].issuers \subseteq DOMAIN credentials'
             /\ credentials'[i].line \in DOMAIN credentials'
  BY DEF AccessInv, AccessType, SameGrant
<1>5. AccessType'
  BY <1>1, <1>3, <1>4 DEF AccessType
<1>6. ASSUME NEW b \in Admins, call'[b].pc \in {"revoke", "insert"}
      PROVE  MayIssue(call'[b].issuer, credentials[call'[b].old].role,
                      credentials[call'[b].old].scopes)
  BY <1>1, <1>6 DEF AccessInv, RotationAllowed
<1>7. RotationAllowed'
  <2> SUFFICES ASSUME NEW b \in Admins, call'[b].pc \in {"revoke", "insert"}
               PROVE  MayIssue(call[b].issuer, credentials[call[b].old].role,
                               credentials[call[b].old].scopes)'
    BY DEF RotationAllowed
  <2>1. call'[b].issuer \in DOMAIN credentials /\ call'[b].old \in DOMAIN credentials
    BY <1>2 DEF CallFits
  <2>2. /\ SameGrant(credentials'[call'[b].issuer], credentials[call'[b].issuer])
        /\ SameGrant(credentials'[call'[b].old], credentials[call'[b].old])
    BY <2>1
  <2> QED
    BY <1>6, <2>2 DEF MayIssue, CheckScopeAttenuation, HasScope, HasWildcard, SameGrant
<1> QED
  BY <1>5, <1>7

\* Nothing escalates as long as the credentials keep what they grant.
LEMMA GrantsKept ==
  ASSUME AccessInv, DOMAIN credentials' = DOMAIN credentials,
         \A i \in DOMAIN credentials : SameGrant(credentials'[i], credentials[i])
  PROVE  NoEscalation'
<1> SUFFICES ASSUME NEW i \in DOMAIN credentials, NEW j \in credentials[i].issuers
             PROVE  /\ credentials'[i].scopes \subseteq credentials'[j].scopes
                         \/ "*" \in credentials'[j].scopes
                    /\ credentials'[i].role = "admin" => "*" \in credentials'[j].scopes
  BY DEF NoEscalation, HasWildcard, SameGrant
<1>1. j \in DOMAIN credentials
  BY DEF AccessInv, AccessType
<1> QED
  BY <1>1 DEF AccessInv, NoEscalation, HasWildcard, SameGrant

\* Nothing escalates when a credential is added that its issuer may issue: what the
\* issuer lacks and those before it lacked stays out.
LEMMA GrantAdded ==
  ASSUME AccessInv, NEW c \in Credential, credentials' = Append(credentials, c),
         NEW k \in DOMAIN credentials, c.issuers = credentials[k].issuers \cup {k},
         MayIssue(k, c.role, c.scopes)
  PROVE  NoEscalation'
<1> DEFINE n == Len(credentials) + 1
<1>1. /\ DOMAIN credentials' = DOMAIN credentials \cup {n} /\ n \notin DOMAIN credentials
      /\ credentials'[n] = c /\ \A i \in DOMAIN credentials : credentials'[i] = credentials[i]
  BY AppendedIs DEF AccessInv
<1> HIDE DEF n
<1>2. \A i \in DOMAIN credentials : credentials[i].issuers \subseteq DOMAIN credentials
  BY DEF AccessInv, AccessType
<1>3. /\ c.role = "admin" => "*" \in credentials[k].scopes
      /\ c.scopes \subseteq credentials[k].scopes \/ "*" \in credentials[k].scopes
  BY DEF MayIssue, CheckScopeAttenuation, HasScope, HasWildcard
<1>4. \A i \in DOMAIN credentials : \A j \in credentials[i].issuers :
        /\ credentials[i].scopes \subseteq credentials[j].scopes \/ "*" \in credentials[j].scopes
        /\ credentials[i].role = "admin" => "*" \in credentials[j].scopes
  BY DEF AccessInv, NoEscalation, HasWildcard
<1>5. ASSUME NEW j \in c.issuers
      PROVE  /\ c.scopes \subseteq credentials[j].scopes \/ "*" \in credentials[j].scopes
             /\ c.role = "admin" => "*" \in credentials[j].scopes
             /\ j \in DOMAIN credentials
  <2>1. CASE j = k
    BY <1>3, <2>1
  <2>2. CASE j \in credentials[k].issuers
    <3>1. credentials[k].scopes \subseteq credentials[j].scopes \/ "*" \in credentials[j].scopes
      BY <1>4, <2>2
    <3>2. j \in DOMAIN credentials
      BY <1>2, <2>2
    <3> QED
      BY <1>3, <3>1, <3>2
  <2> QED
    BY <2>1, <2>2
<1> SUFFICES ASSUME NEW i \in DOMAIN credentials', NEW j \in credentials'[i].issuers
             PROVE  /\ credentials'[i].scopes \subseteq credentials'[j].scopes
                         \/ "*" \in credentials'[j].scopes
                    /\ credentials'[i].role = "admin" => "*" \in credentials'[j].scopes
  BY DEF NoEscalation, HasWildcard
<1>6. CASE i = n
  BY <1>1, <1>5, <1>6
<1>7. CASE i \in DOMAIN credentials
  BY <1>1, <1>2, <1>4, <1>7
<1> QED
  BY <1>1, <1>6, <1>7

\* A line fits while its tokens and its rotations only get fewer.
LEMMA LineKept ==
  ASSUME NEW U, NEW V \in SUBSET U, NEW H, NEW G \in SUBSET H, NEW c, NEW d,
         \A a \in G : d[a] = c[a], LineFits(U, H, c)
  PROVE  LineFits(V, G, d)
BY DEF LineFits

\* The rotations at work on a line are those of before, but for the call that moved.
LEMMA HandsKept ==
  ASSUME AccessInv, NEW a \in Admins, NEW r \in CallRecord, call' = [call EXCEPT ![a] = r],
         r.old # 0 => r.old \in DOMAIN credentials,
         \A i \in DOMAIN credentials : credentials'[i].line = credentials[i].line, NEW l
  PROVE  /\ call'[a] = r /\ \A b \in Admins \ {a} : call'[b] = call[b]
         /\ InHand(l)' \ {a} = InHand(l) \ {a}
         /\ r.old = 0 \/ credentials[r.old].line # l => a \notin InHand(l)'
         /\ r.old # 0 /\ credentials[r.old].line = l => a \in InHand(l)'
<1>1. call'[a] = r /\ \A b \in Admins \ {a} : call'[b] = call[b]
  BY DEF AccessInv, AccessType
<1>2. \A b \in Admins : call[b].old # 0 => call[b].old \in DOMAIN credentials
  BY DEF AccessInv, AccessType, CallFits, CallRecord
<1>3. InHand(l)' = {b \in Admins : call'[b].old # 0 /\ credentials'[call'[b].old].line = l}
  BY DEF InHand
<1>4. InHand(l) = {b \in Admins : call[b].old # 0 /\ credentials[call[b].old].line = l}
  BY DEF InHand
<1>5. \A b \in Admins \ {a} : b \in InHand(l)' <=> b \in InHand(l)
  BY <1>1, <1>2, <1>3, <1>4
<1>6. /\ r.old = 0 \/ credentials[r.old].line # l => a \notin InHand(l)'
      /\ r.old # 0 /\ credentials[r.old].line = l => a \in InHand(l)'
  BY <1>1, <1>3
<1>7. InHand(l)' \subseteq Admins /\ InHand(l) \subseteq Admins
  BY <1>3, <1>4
<1>8. InHand(l)' \ {a} = InHand(l) \ {a}
  BY <1>5, <1>7
<1> QED
  BY <1>1, <1>6, <1>8

\* No call has a line in hand that starts with the next credential.
LEMMA NextLineIsNew ==
  ASSUME AccessInv, NEW n, n \notin DOMAIN credentials
  PROVE  InHand(n) = {} /\ Unrevoked(n) = {}
<1>1. \A i \in DOMAIN credentials : credentials[i].line # n
  BY DEF AccessInv, AccessType
<1>2. \A b \in Admins : call[b].old # 0 => call[b].old \in DOMAIN credentials
  BY DEF AccessInv, AccessType, CallFits, CallRecord
<1> QED
  BY <1>1, <1>2 DEF InHand, Unrevoked

\* A call that has no credential in hand moves and leaves it so: the lines that did not
\* gain a token fit as before.
LEMMA LinesStand ==
  ASSUME AccessInv, NEW a \in Admins, NEW r \in CallRecord, call' = [call EXCEPT ![a] = r],
         r.old = 0, NEW l \in DOMAIN credentials, l \notin raced,
         \A i \in DOMAIN credentials : credentials'[i].line = credentials[i].line,
         Unrevoked(l)' \subseteq Unrevoked(l)
  PROVE  LineFits(Unrevoked(l), InHand(l), call)'
<1>1. /\ \A b \in Admins \ {a} : call'[b] = call[b]
      /\ InHand(l)' \ {a} = InHand(l) \ {a} /\ a \notin InHand(l)'
  BY HandsKept
<1>2. InHand(l)' \subseteq InHand(l) /\ InHand(l)' \subseteq Admins \ {a}
  BY <1>1 DEF InHand
<1>3. LineFits(Unrevoked(l), InHand(l), call)
  BY DEF AccessInv, LineInv
<1>4. LineFits(Unrevoked(l)', InHand(l)', call')
  <2>1. PICK V \in SUBSET Unrevoked(l) : V = Unrevoked(l)'
    OBVIOUS
  <2>2. PICK G \in SUBSET InHand(l) : G = InHand(l)'
    BY <1>2
  <2>3. PICK d : d = call'
    OBVIOUS
  <2>4. \A b \in G : d[b] = call[b]
    BY <1>1, <1>2, <2>2, <2>3
  <2>5. LineFits(V, G, d)
    BY <1>3, <2>4, LineKept
  <2> QED
    BY <2>1, <2>2, <2>3, <2>5
<1> QED
  BY <1>4

\* The record of a call that is over.
LEMMA IdleCallIs == IdleCall \in CallRecord /\ CallFits(IdleCall, credentials) /\ IdleCall.old = 0
                      /\ IdleCall.pc = "idle"
BY DEF IdleCall, CallRecord, CallFits

\* A call that moves without a token in hand, over the same credentials.
LEMMA QuietCall ==
  ASSUME AccessInv, NEW a \in Admins, NEW r \in CallRecord, call' = [call EXCEPT ![a] = r],
         r.old = 0, r.pc \in {"idle", "handle"}, CallFits(r, credentials),
         UNCHANGED <<day, credentials, raced>>
  PROVE  AccessInv'
<1>1. \A i \in DOMAIN credentials : SameGrant(credentials'[i], credentials[i])
  BY DEF SameGrant
<1>2. day' \in Nat /\ credentials' \in Seq(Credential)
  BY DEF AccessInv, AccessType
<1>3. AccessType' /\ RotationAllowed'
  BY <1>1, <1>2, CallMoves
<1>4. NoEscalation'
  BY <1>1, GrantsKept
<1>5. LineInv'
  <2> SUFFICES ASSUME NEW l \in DOMAIN credentials, l \notin raced
               PROVE  LineFits(Unrevoked(l), InHand(l), call)'
    BY DEF LineInv
  <2>1. Unrevoked(l)' = Unrevoked(l)
    BY DEF Unrevoked
  <2> QED
    BY <2>1, LinesStand
<1> QED
  BY <1>3, <1>4, <1>5 DEF AccessInv

\* Issuing a credential in a line of its own, or in a line that has none left and that
\* only this call has in hand.
LEMMA IssueStep ==
  ASSUME AccessInv, NEW a \in Admins, call[a].pc \in {"handle", "insert"},
         NEW kind \in {"token", "agent"}, NEW role \in {"admin", "other"}, NEW s \in Scopes,
         NEW e \in Nat, NEW line \in Nat,
         line # 0 => /\ call[a].pc = "insert" /\ line = credentials[call[a].old].line,
         line = 0 => call[a].pc = "handle",
         MayIssue(call[a].issuer, role, s), Issue(a, kind, role, s, e, line),
         call' = [call EXCEPT ![a] = IdleCall], UNCHANGED <<day, raced>>
  PROVE  AccessInv'
<1> DEFINE n == Len(credentials) + 1
           k == call[a].issuer
           c == [kind |-> kind, role |-> role, scopes |-> s, expires |-> e, revoked |-> FALSE,
                 issuers |-> credentials[k].issuers \cup {k},
                 line |-> IF line = 0 THEN n ELSE line]
<1>1. credentials' = Append(credentials, c)
  BY DEF Issue
<1>2. /\ credentials \in Seq(Credential) /\ day \in Nat /\ call[a] \in CallRecord
      /\ CallFits(call[a], credentials)
      /\ \A i \in DOMAIN credentials : /\ credentials[i].issuers \subseteq DOMAIN credentials
                                       /\ credentials[i].line \in DOMAIN credentials
  BY DEF AccessInv, AccessType
<1>3. k \in DOMAIN credentials /\ DOMAIN credentials \subseteq Nat /\ n \in Nat
  <2>1. k \in DOMAIN credentials
    BY <1>2 DEF CallFits
  <2>2. Len(credentials) \in Nat /\ DOMAIN credentials = 1..Len(credentials)
    BY <1>2
  <2> QED
    BY <2>1, <2>2
<1>4. credentials[k].issuers \cup {k} \subseteq DOMAIN credentials
  BY <1>2, <1>3
<1>5. /\ c \in Credential /\ c.issuers = credentials[k].issuers \cup {k}
      /\ c.line = (IF line = 0 THEN n ELSE line) /\ ~c.revoked /\ c.role = role /\ c.scopes = s
  BY <1>3, <1>4 DEF Credential
<1> HIDE DEF c
<1>6. /\ credentials' \in Seq(Credential) /\ n \in Nat \ {0} /\ n \notin DOMAIN credentials
      /\ DOMAIN credentials' = DOMAIN credentials \cup {n} /\ credentials'[n] = c
      /\ \A i \in DOMAIN credentials : credentials'[i] = credentials[i]
  BY <1>1, <1>5, AppendedIs DEF AccessInv
<1>7. line # 0 => line \in DOMAIN credentials
  BY <1>2 DEF CallFits
<1> HIDE DEF n
<1>8. \A i \in DOMAIN credentials : SameGrant(credentials'[i], credentials[i])
  BY <1>6 DEF SameGrant
<1>9. NoEscalation'
  BY <1>1, <1>3, <1>5, GrantAdded
<1> HIDE DEF k
<1>10. AccessType' /\ RotationAllowed'
  <2>1. /\ credentials'[n].issuers \subseteq DOMAIN credentials'
        /\ credentials'[n].line \in DOMAIN credentials'
    BY <1>4, <1>5, <1>6, <1>7
  <2> QED
    BY <1>2, <1>6, <1>8, <2>1, IdleCallIs, CallMoves
<1>11. \A i \in DOMAIN credentials : credentials'[i].line = credentials[i].line
  BY <1>6
<1>12. LineInv'
  <2> SUFFICES ASSUME NEW l \in DOMAIN credentials', l \notin raced
               PROVE  LineFits(Unrevoked(l), InHand(l), call)'
    BY DEF LineInv
  <2>1. Unrevoked(l)' = Unrevoked(l) \cup (IF c.line = l THEN {n} ELSE {})
    <3>1. Unrevoked(l)' = {i \in DOMAIN credentials' :
                             credentials'[i].line = l /\ ~credentials'[i].revoked}
      BY DEF Unrevoked
    <3> QED
      BY <1>5, <1>6, <3>1 DEF Unrevoked
  <2>2. /\ InHand(l)' \ {a} = InHand(l) \ {a} /\ a \notin InHand(l)'
    BY <1>11, IdleCallIs, HandsKept
  <2>3. CASE l # n /\ c.line # l
    BY <1>6, <1>11, <2>1, <2>3, IdleCallIs, LinesStand
  <2>4. CASE l = n
    <3>1. InHand(l) = {} /\ Unrevoked(l) = {}
      BY <1>6, <2>4, NextLineIsNew
    <3>2. InHand(l)' = {} /\ Unrevoked(l)' \subseteq {n}
      BY <2>1, <2>2, <3>1
    <3>3. LineFits(Unrevoked(l)', InHand(l)', call')
      BY <3>2 DEF LineFits
    <3> QED
      BY <3>3
  <2>5. CASE l # n /\ c.line = l
    <3>1. line # 0 /\ line = l /\ l \in DOMAIN credentials
      BY <1>5, <1>6, <2>5
    <3>2. call[a].pc = "insert" /\ l = credentials[call[a].old].line
      BY <3>1
    <3>3. call[a].old \in DOMAIN credentials
      BY <1>2, <3>2 DEF CallFits
    <3>4. call[a].old # 0
      BY <1>2, <3>3
    <3>5. a \in InHand(l)
      BY <3>2, <3>4 DEF InHand
    <3>6. LineFits(Unrevoked(l), InHand(l), call)
      BY <3>1 DEF AccessInv, LineInv
    <3>7. Unrevoked(l) = {} /\ InHand(l) = {a}
      BY <3>2, <3>5, <3>6 DEF LineFits
    <3>8. Unrevoked(l)' = {n} /\ InHand(l)' = {}
      BY <2>1, <2>2, <2>5, <3>7
    <3>9. LineFits(Unrevoked(l)', InHand(l)', call')
      BY <3>8 DEF LineFits
    <3> QED
      BY <3>9
  <2> QED
    BY <2>3, <2>4, <2>5
<1> QED
  BY <1>9, <1>10, <1>12 DEF AccessInv

\* Revoking a credential: of its line fewer tokens are left.
LEMMA UnrevokedShrinks ==
  ASSUME AccessType, NEW i \in DOMAIN credentials,
         credentials' = [credentials EXCEPT ![i].revoked = TRUE], NEW l
  PROVE  Unrevoked(l)' \subseteq Unrevoked(l) \ {i}
<1>1. Unrevoked(l)' = {j \in DOMAIN credentials' :
                         credentials'[j].line = l /\ ~credentials'[j].revoked}
  BY DEF Unrevoked
<1>2. /\ DOMAIN credentials' = DOMAIN credentials
      /\ \A j \in DOMAIN credentials :
           /\ SameGrant(credentials'[j], credentials[j])
           /\ credentials[j].revoked => credentials'[j].revoked
      /\ credentials'[i].revoked
  BY RevokedIs
<1> QED
  BY <1>1, <1>2 DEF Unrevoked, SameGrant

\* Steps preserve what is known of credentials.
LEMMA AccessStepInv ==
  ASSUME AccessInv, AccessNext \/ UNCHANGED accessVars
  PROVE  AccessInv'
<1>1. /\ credentials \in Seq(Credential) /\ day \in Nat
      /\ \A a \in Admins : call[a] \in CallRecord /\ CallFits(call[a], credentials)
  BY DEF AccessInv, AccessType
<1>2. ASSUME UNCHANGED <<credentials, call, raced>>, day' \in Nat PROVE AccessInv'
  <2>1. AccessType'
    BY <1>2 DEF AccessInv, AccessType
  <2>2. NoEscalation'
    BY <1>2 DEF AccessInv, NoEscalation, HasWildcard
  <2>3. RotationAllowed'
    BY <1>2 DEF AccessInv, RotationAllowed, MayIssue, CheckScopeAttenuation, HasScope, HasWildcard
  <2>4. LineInv'
    <3>1. \A l : Unrevoked(l)' = Unrevoked(l) /\ InHand(l)' = InHand(l)
      BY <1>2 DEF Unrevoked, InHand
    <3>2. ASSUME NEW l \in DOMAIN credentials, l \notin raced
          PROVE  LineFits(Unrevoked(l)', InHand(l)', call')
      <4>1. LineFits(Unrevoked(l), InHand(l), call)
        BY <3>2 DEF AccessInv, LineInv
      <4>2. Unrevoked(l)' = Unrevoked(l) /\ InHand(l)' = InHand(l)
        BY <3>1
      <4> QED
        BY <1>2, <4>1, <4>2
    <3> QED
      BY <1>2, <3>2 DEF LineInv
  <2> QED
    BY <2>1, <2>2, <2>3, <2>4 DEF AccessInv
<1>3. CASE UNCHANGED accessVars
  BY <1>1, <1>2, <1>3 DEF accessVars
<1>4. CASE NextDay
  BY <1>1, <1>2, <1>4 DEF NextDay
<1>5. ASSUME NEW a \in Admins, NEW i \in DOMAIN credentials, Authenticate(a, i) PROVE AccessInv'
  <2> DEFINE r == [pc |-> "handle", issuer |-> i, old |-> 0]
  <2>1. r \in CallRecord /\ r.old = 0 /\ r.pc = "handle" /\ CallFits(r, credentials)
    <3>1. i \in Nat
      BY <1>1
    <3> QED
      BY <3>1 DEF CallRecord, CallFits
  <2>2. call' = [call EXCEPT ![a] = r] /\ UNCHANGED <<day, credentials, raced>>
    BY <1>5 DEF Authenticate
  <2> HIDE DEF r
  <2> QED
    BY <2>1, <2>2, QuietCall
<1>6. ASSUME NEW a \in Admins, GiveUp(a) PROVE AccessInv'
  BY <1>6, IdleCallIs, QuietCall DEF GiveUp
<1>7. ASSUME NEW a \in Admins, NEW k \in {"token", "agent"}, NEW r \in {"admin", "other"},
             NEW s \in ScopeSets, NEW d \in day..MaxDay, Create(a, k, r, s, d)
      PROVE  AccessInv'
  <2>1. d \in Nat /\ s \in Scopes
    BY <1>1, AccessAssumption DEF Scopes
  <2> QED
    BY <1>7, <2>1, IssueStep DEF Create
<1>8. ASSUME NEW a \in Admins, NEW d \in day..MaxDay, RotateInsert(a, d) PROVE AccessInv'
  <2> DEFINE old == credentials[call[a].old]
  <2>1. /\ call[a].pc = "insert" /\ Issue(a, "token", old.role, old.scopes, d, old.line)
        /\ call' = [call EXCEPT ![a] = IdleCall] /\ UNCHANGED <<day, raced>>
    BY <1>8 DEF RotateInsert
  <2>2. call[a].old \in DOMAIN credentials
    BY <1>1, <2>1 DEF CallFits
  <2>3. old \in Credential /\ old.line \in DOMAIN credentials
    BY <2>2 DEF AccessInv, AccessType
  <2>4. d \in Nat /\ old.role \in {"admin", "other"} /\ old.scopes \in Scopes
        /\ old.line \in Nat /\ old.line # 0
    BY <1>1, <2>3, AccessAssumption DEF Credential
  <2>5. MayIssue(call[a].issuer, old.role, old.scopes)
    BY <2>1 DEF AccessInv, RotationAllowed
  <2> QED
    BY <2>1, <2>4, <2>5, IssueStep
<1>9. ASSUME NEW a \in Admins, NEW i \in DOMAIN credentials, RevokeCredential(a, i)
      PROVE  AccessInv'
  <2>1. /\ credentials' = [credentials EXCEPT ![i].revoked = TRUE] /\ raced \subseteq raced'
        /\ call' = [call EXCEPT ![a] = IdleCall] /\ day' = day
    BY <1>9 DEF RevokeCredential
  <2>2. /\ credentials' \in Seq(Credential) /\ DOMAIN credentials' = DOMAIN credentials
        /\ \A j \in DOMAIN credentials : SameGrant(credentials'[j], credentials[j])
    BY <2>1, RevokedIs DEF AccessInv
  <2>3. AccessType' /\ RotationAllowed'
    BY <1>1, <2>1, <2>2, IdleCallIs, CallMoves
  <2>4. NoEscalation'
    BY <2>2, GrantsKept
  <2>5. LineInv'
    <3> SUFFICES ASSUME NEW l \in DOMAIN credentials, l \notin raced
                 PROVE  LineFits(Unrevoked(l), InHand(l), call)'
      BY <2>1, <2>2 DEF LineInv
    <3>1. Unrevoked(l)' \subseteq Unrevoked(l)
      BY <2>1, UnrevokedShrinks DEF AccessInv
    <3>2. \A j \in DOMAIN credentials : credentials'[j].line = credentials[j].line
      BY <2>2 DEF SameGrant
    <3> QED
      BY <2>1, <3>1, <3>2, IdleCallIs, LinesStand
  <2> QED
    BY <2>3, <2>4, <2>5 DEF AccessInv
<1>10. ASSUME NEW a \in Admins, NEW i \in DOMAIN credentials, Rotate(a, i) PROVE AccessInv'
  <2> DEFINE m == credentials[i].line
  <2>1. /\ call[a].pc = "handle" /\ UNCHANGED <<day, credentials>>
        /\ Live(i) /\ MayIssue(call[a].issuer, credentials[i].role, credentials[i].scopes)
        /\ raced' = IF InHand(m) # {} THEN raced \cup {m} ELSE raced
    BY <1>10 DEF Rotate
  <2>2. call' = [call EXCEPT ![a] = [call[a] EXCEPT !.pc = "revoke", !.old = i]]
    BY <1>10 DEF Rotate
  <2>3. i \in Nat \ {0} /\ m \in DOMAIN credentials /\ call[a] \in CallRecord
        /\ call[a].issuer \in DOMAIN credentials
    <3>1. i \in Nat \ {0}
      BY <1>1
    <3>2. m \in DOMAIN credentials
      BY DEF AccessInv, AccessType
    <3>3. call[a] \in CallRecord /\ call[a].issuer \in DOMAIN credentials
      BY <1>1, <2>1 DEF CallFits
    <3> QED
      BY <3>1, <3>2, <3>3
  <2>4. PICK r \in CallRecord : /\ r.pc = "revoke" /\ r.old = i /\ r.issuer = call[a].issuer
                                /\ call' = [call EXCEPT ![a] = r]
    BY <2>2, <2>3 DEF CallRecord
  <2> HIDE DEF m
  <2>5. CallFits(r, credentials)
    BY <2>3, <2>4 DEF CallFits
  <2>6. \A j \in DOMAIN credentials : SameGrant(credentials'[j], credentials[j])
                                        /\ credentials'[j].line = credentials[j].line
    BY <2>1 DEF SameGrant
  <2>7. AccessType' /\ RotationAllowed'
    BY <1>1, <2>1, <2>4, <2>5, <2>6, CallMoves
  <2>8. NoEscalation'
    BY <2>1, <2>6, GrantsKept
  <2>9. LineInv'
    <3> SUFFICES ASSUME NEW l \in DOMAIN credentials, l \notin raced'
                 PROVE  LineFits(Unrevoked(l), InHand(l), call)'
      BY <2>1 DEF LineInv
    <3>1. Unrevoked(l)' = Unrevoked(l)
      BY <2>1 DEF Unrevoked
    <3>2. /\ call'[a] = r /\ \A b \in Admins \ {a} : call'[b] = call[b]
          /\ InHand(l)' \ {a} = InHand(l) \ {a}
          /\ a \in InHand(l)' <=> m = l
      <4>1. r.old # 0 /\ r.old \in DOMAIN credentials /\ credentials[r.old].line = m
        BY <2>3, <2>4 DEF m
      <4>2. \A j \in DOMAIN credentials : credentials'[j].line = credentials[j].line
        BY <2>6
      <4>3. /\ call'[a] = r /\ \A b \in Admins \ {a} : call'[b] = call[b]
            /\ InHand(l)' \ {a} = InHand(l) \ {a}
            /\ credentials[r.old].line # l => a \notin InHand(l)'
            /\ credentials[r.old].line = l => a \in InHand(l)'
        BY <2>4, <4>1, <4>2, HandsKept
      <4> QED
        BY <4>1, <4>3
    <3>3. l \notin raced /\ (l = m => InHand(m) = {})
      BY <2>1
    <3>4. LineFits(Unrevoked(l), InHand(l), call)
      BY <3>3 DEF AccessInv, LineInv
    <3>5. CASE l # m
      <4>1. InHand(l)' \subseteq InHand(l) /\ \A b \in InHand(l)' : call'[b] = call[b]
        BY <3>2, <3>5 DEF InHand
      <4>2. LineFits(Unrevoked(l)', InHand(l)', call')
        BY <3>1, <3>4, <4>1, LineKept
      <4> QED
        BY <4>2
    <3>6. CASE l = m
      <4>1. InHand(l)' = {a}
        BY <3>2, <3>3, <3>6
      <4>2. i \in Unrevoked(l)
        BY <2>1, <3>6 DEF Live, Unrevoked, m
      <4>3. Unrevoked(l) \subseteq {i}
        BY <3>4, <4>2 DEF LineFits
      <4>4. LineFits(Unrevoked(l)', InHand(l)', call')
        BY <2>4, <3>1, <3>2, <4>1, <4>3 DEF LineFits
      <4> QED
        BY <4>4
    <3> QED
      BY <3>5, <3>6
  <2> QED
    BY <2>7, <2>8, <2>9 DEF AccessInv
<1>11. ASSUME NEW a \in Admins, RotateRevoke(a) PROVE AccessInv'
  <2> DEFINE i == call[a].old
             m == credentials[i].line
  <2>1. call[a].pc = "revoke" /\ day' = day /\ raced \subseteq raced'
    BY <1>11 DEF RotateRevoke
  <2>2. \/ credentials' = [credentials EXCEPT ![i].revoked = TRUE]
        \/ credentials' = credentials /\ m \in raced'
    BY <1>11 DEF RotateRevoke
  <2>3. call' = [call EXCEPT ![a] = [call[a] EXCEPT !.pc = "insert"]]
    BY <1>11 DEF RotateRevoke
  <2>4. /\ call[a] \in CallRecord /\ i \in DOMAIN credentials
        /\ call[a].issuer \in DOMAIN credentials
    BY <1>1, <2>1 DEF CallFits
  <2>5. PICK r \in CallRecord : /\ r.pc = "insert" /\ r.old = i /\ r.issuer = call[a].issuer
                                /\ call' = [call EXCEPT ![a] = r]
    BY <2>3, <2>4 DEF CallRecord
  <2>6. MayIssue(r.issuer, credentials[r.old].role, credentials[r.old].scopes)
    BY <2>1, <2>5 DEF AccessInv, RotationAllowed
  <2>7. i # 0 /\ i \in Nat
    BY <1>1, <2>4
  <2>8. a \in InHand(m)
    BY <2>7 DEF InHand
  <2>9. LineFits(Unrevoked(m), InHand(m), call) \/ m \in raced
    BY <2>4 DEF AccessInv, AccessType, LineInv
  <2>10. m \notin raced => Unrevoked(m) \subseteq {i} /\ InHand(m) = {a}
    BY <2>1, <2>8, <2>9 DEF LineFits
  <2> HIDE DEF m
  <2>11. CallFits(r, credentials)
    BY <2>4, <2>5 DEF CallFits
  <2>12. /\ credentials' \in Seq(Credential) /\ DOMAIN credentials' = DOMAIN credentials
         /\ \A j \in DOMAIN credentials : SameGrant(credentials'[j], credentials[j])
    <3>1. CASE credentials' = [credentials EXCEPT ![i].revoked = TRUE]
      BY <2>4, <3>1, RevokedIs DEF AccessInv
    <3>2. CASE credentials' = credentials
      BY <1>1, <3>2 DEF SameGrant
    <3> QED
      BY <2>2, <3>1, <3>2
  <2>13. AccessType' /\ RotationAllowed'
    BY <1>1, <2>1, <2>5, <2>6, <2>11, <2>12, CallMoves
  <2>14. NoEscalation'
    BY <2>12, GrantsKept
  <2>15. LineInv'
    <3> SUFFICES ASSUME NEW l \in DOMAIN credentials, l \notin raced'
                 PROVE  LineFits(Unrevoked(l), InHand(l), call)'
      BY <2>12 DEF LineInv
    <3>1. /\ Unrevoked(l)' \subseteq Unrevoked(l)
          /\ m = l => Unrevoked(l)' \subseteq Unrevoked(l) \ {i}
      <4>1. CASE credentials' = [credentials EXCEPT ![i].revoked = TRUE]
        <5>1. Unrevoked(l)' \subseteq Unrevoked(l) \ {i}
          BY <2>4, <4>1, UnrevokedShrinks DEF AccessInv
        <5> QED
          BY <5>1
      <4>2. CASE credentials' = credentials /\ m \in raced'
        BY <4>2 DEF Unrevoked
      <4> QED
        BY <2>2, <4>1, <4>2
    <3>2. \A j \in DOMAIN credentials : credentials'[j].line = credentials[j].line
      BY <2>12 DEF SameGrant
    <3>3. /\ call'[a] = r /\ \A b \in Admins \ {a} : call'[b] = call[b]
          /\ InHand(l)' \ {a} = InHand(l) \ {a}
          /\ a \in InHand(l)' <=> m = l
      <4>1. r.old # 0 /\ r.old \in DOMAIN credentials /\ credentials[r.old].line = m
        BY <2>4, <2>5, <2>7 DEF m
      <4>2. /\ call'[a] = r /\ \A b \in Admins \ {a} : call'[b] = call[b]
            /\ InHand(l)' \ {a} = InHand(l) \ {a}
            /\ credentials[r.old].line # l => a \notin InHand(l)'
            /\ credentials[r.old].line = l => a \in InHand(l)'
        BY <2>5, <3>2, <4>1, HandsKept
      <4> QED
        BY <4>1, <4>2
    <3>4. l \notin raced /\ LineFits(Unrevoked(l), InHand(l), call)
      BY <2>1 DEF AccessInv, LineInv
    <3>5. CASE l # m
      <4>1. InHand(l)' \subseteq InHand(l) /\ \A b \in InHand(l)' : call'[b] = call[b]
        BY <3>3, <3>5 DEF InHand
      <4>2. LineFits(Unrevoked(l)', InHand(l)', call')
        BY <3>1, <3>4, <4>1, LineKept
      <4> QED
        BY <4>2
    <3>6. CASE l = m
      <4>1. InHand(l)' = {a} /\ Unrevoked(l)' = {}
        BY <2>10, <3>1, <3>3, <3>4, <3>6
      <4>2. LineFits(Unrevoked(l)', InHand(l)', call')
        BY <2>5, <3>3, <4>1 DEF LineFits
      <4> QED
        BY <4>2
    <3> QED
      BY <3>5, <3>6
  <2> QED
    BY <2>13, <2>14, <2>15 DEF AccessInv
<1> QED
  BY <1>3, <1>4, <1>5, <1>6, <1>7, <1>8, <1>9, <1>10, <1>11 DEF AccessNext

\* A line's newest token stays the only one that may be left: a step issues one token at
\* most, and by then the line has no other.
LEMMA NewestStep ==
  ASSUME AccessInv, AccessInv', OnlyTheNewestIsLeft, AccessNext \/ UNCHANGED accessVars
  PROVE  OnlyTheNewestIsLeft'
<1> DEFINE n == Len(credentials) + 1
<1>1. /\ credentials \in Seq(Credential)
      /\ \A a \in Admins : call[a] \in CallRecord /\ CallFits(call[a], credentials)
  BY DEF AccessInv, AccessType
<1>2. \A i \in DOMAIN credentials : i \in Nat /\ i <= n
  BY <1>1
<1>3. ASSUME DOMAIN credentials' = DOMAIN credentials, raced \subseteq raced',
             \A i \in DOMAIN credentials :
               /\ credentials'[i].line = credentials[i].line
               /\ credentials[i].revoked => credentials'[i].revoked
      PROVE  OnlyTheNewestIsLeft'
  BY <1>3 DEF OnlyTheNewestIsLeft
<1>4. ASSUME NEW c \in Credential, credentials' = Append(credentials, c), ~c.revoked,
             raced' = raced
      PROVE  OnlyTheNewestIsLeft'
  <2>1. /\ n \in Nat /\ DOMAIN credentials' = DOMAIN credentials \cup {n} /\ credentials'[n] = c
        /\ \A i \in DOMAIN credentials : credentials'[i] = credentials[i]
    BY <1>1, <1>4, AppendedIs DEF AccessInv
  <2> HIDE DEF n
  <2> SUFFICES ASSUME NEW i \in DOMAIN credentials', NEW j \in DOMAIN credentials',
                      credentials'[i].line = credentials'[j].line,
                      credentials'[i].line \notin raced, ~credentials'[i].revoked
               PROVE  j <= i
    BY <1>4 DEF OnlyTheNewestIsLeft
  <2>2. CASE i = n
    BY <1>2, <2>1, <2>2
  <2>3. CASE i \in DOMAIN credentials /\ j \in DOMAIN credentials
    BY <2>1, <2>3 DEF OnlyTheNewestIsLeft
  <2>4. CASE i \in DOMAIN credentials /\ j = n
    <3>1. PICK l : l = credentials'[i].line
      OBVIOUS
    <3>2. l \in DOMAIN credentials' /\ l \notin raced'
      BY <1>4, <3>1 DEF AccessInv, AccessType
    <3>3. LineFits(Unrevoked(l), InHand(l), call)'
      BY <3>2 DEF AccessInv, LineInv
    <3>4. i \in Unrevoked(l)' /\ j \in Unrevoked(l)'
      BY <1>4, <2>1, <2>4, <3>1 DEF Unrevoked
    <3>5. i = j
      BY <3>3, <3>4 DEF LineFits
    <3> QED
      BY <1>2, <2>4, <3>5
  <2> QED
    BY <2>1, <2>2, <2>3, <2>4
<1>5. ASSUME NEW a \in Admins, call[a].pc \in {"handle", "insert"},
             NEW kind \in {"token", "agent"}, NEW role \in {"admin", "other"}, NEW s \in Scopes,
             NEW e \in Nat, NEW line \in Nat, Issue(a, kind, role, s, e, line), raced' = raced
      PROVE  OnlyTheNewestIsLeft'
  <2> DEFINE k == call[a].issuer
             c == [kind |-> kind, role |-> role, scopes |-> s, expires |-> e, revoked |-> FALSE,
                   issuers |-> credentials[k].issuers \cup {k},
                   line |-> IF line = 0 THEN n ELSE line]
  <2>1. k \in DOMAIN credentials
    BY <1>1, <1>5 DEF CallFits
  <2>2. credentials[k].issuers \cup {k} \in SUBSET Nat
    BY <1>1, <1>2, <2>1 DEF AccessInv, AccessType
  <2>3. n \in Nat
    BY <1>1
  <2>4. c \in Credential /\ ~c.revoked
    BY <2>2, <2>3 DEF Credential
  <2>5. credentials' = Append(credentials, c)
    BY <1>5 DEF Issue
  <2> HIDE DEF c
  <2> QED
    BY <1>4, <1>5, <2>4, <2>5
<1>6. ASSUME UNCHANGED credentials, raced \subseteq raced' PROVE OnlyTheNewestIsLeft'
  BY <1>3, <1>6
<1>7. ASSUME NEW i \in DOMAIN credentials, raced \subseteq raced',
             credentials' = [credentials EXCEPT ![i].revoked = TRUE]
      PROVE  OnlyTheNewestIsLeft'
  BY <1>3, <1>7, RevokedIs DEF AccessInv, SameGrant
<1>8. CASE UNCHANGED accessVars
  BY <1>6, <1>8 DEF accessVars
<1>9. CASE NextDay
  BY <1>6, <1>9 DEF NextDay
<1>10. ASSUME NEW a \in Admins, NEW i \in DOMAIN credentials,
              Authenticate(a, i) \/ GiveUp(a) \/ Rotate(a, i) \/ RevokeCredential(a, i)
       PROVE  OnlyTheNewestIsLeft'
  <2>1. raced \subseteq raced'
    BY <1>10 DEF Authenticate, GiveUp, Rotate, RevokeCredential
  <2>2. \/ UNCHANGED credentials
        \/ credentials' = [credentials EXCEPT ![i].revoked = TRUE]
    BY <1>10 DEF Authenticate, GiveUp, Rotate, RevokeCredential
  <2> QED
    BY <1>6, <1>7, <2>1, <2>2
<1>11. ASSUME NEW a \in Admins, GiveUp(a) PROVE OnlyTheNewestIsLeft'
  BY <1>6, <1>11 DEF GiveUp
<1>12. ASSUME NEW a \in Admins, RotateRevoke(a) PROVE OnlyTheNewestIsLeft'
  <2>1. raced \subseteq raced' /\ call[a].pc = "revoke"
    BY <1>12 DEF RotateRevoke
  <2>2. PICK i \in DOMAIN credentials : i = call[a].old
    BY <1>1, <2>1 DEF CallFits
  <2>3. \/ UNCHANGED credentials
        \/ credentials' = [credentials EXCEPT ![i].revoked = TRUE]
    BY <1>12, <2>2 DEF RotateRevoke
  <2> QED
    BY <1>6, <1>7, <2>1, <2>3
<1>13. ASSUME NEW a \in Admins, NEW k \in {"token", "agent"}, NEW r \in {"admin", "other"},
              NEW s \in ScopeSets, NEW d \in day..MaxDay, Create(a, k, r, s, d)
       PROVE  OnlyTheNewestIsLeft'
  <2>1. d \in Nat /\ s \in Scopes
    BY AccessAssumption DEF Scopes, AccessInv, AccessType
  <2>2. call[a].pc = "handle" /\ Issue(a, k, r, s, d, 0) /\ raced' = raced
    BY <1>13 DEF Create
  <2> QED
    BY <1>5, <2>1, <2>2
<1>14. ASSUME NEW a \in Admins, NEW d \in day..MaxDay, RotateInsert(a, d)
       PROVE  OnlyTheNewestIsLeft'
  <2>1. call[a].pc = "insert" /\ raced' = raced
    BY <1>14 DEF RotateInsert
  <2>2. PICK i \in DOMAIN credentials : i = call[a].old
    BY <1>1, <2>1 DEF CallFits
  <2>3. PICK old \in Credential : old = credentials[i]
    BY <1>1
  <2>4. Issue(a, "token", old.role, old.scopes, d, old.line)
    BY <1>14, <2>2, <2>3 DEF RotateInsert
  <2>5. d \in Nat
    BY AccessAssumption DEF AccessInv, AccessType
  <2>6. old.role \in {"admin", "other"} /\ old.scopes \in Scopes /\ old.line \in Nat
    BY DEF Credential
  <2> QED
    BY <1>5, <2>1, <2>4, <2>5, <2>6
<1> QED
  BY <1>8, <1>9, <1>10, <1>11, <1>12, <1>13, <1>14 DEF AccessNext

\* However the calls that issue, rotate and revoke interleave, authority only shrinks
\* from issuer to issuer, and of a line of rotations on which no two calls raced and no
\* revocation failed no token but the newest is left.
THEOREM AuthorityIsBounded == Spec => []AuthorityHolds
<1>1. Init => AccessInv /\ OnlyTheNewestIsLeft
  <2> SUFFICES ASSUME Init PROVE AccessInv /\ OnlyTheNewestIsLeft
    OBVIOUS
  <2>1. AccessInv
    BY AccessStart DEF Init
  <2>2. \A i \in DOMAIN credentials : credentials[i].line = i /\ i \in Nat
    BY AccessAssumption DEF Init, AccessInit, Founder
  <2>3. OnlyTheNewestIsLeft
    BY <2>2 DEF OnlyTheNewestIsLeft
  <2> QED
    BY <2>1, <2>3
<1>2. AccessInv /\ OnlyTheNewestIsLeft /\ [Next]_vars => AccessInv' /\ OnlyTheNewestIsLeft'
  <2> SUFFICES ASSUME AccessInv, OnlyTheNewestIsLeft, [Next]_vars
               PROVE  AccessInv' /\ OnlyTheNewestIsLeft'
    OBVIOUS
  <2>1. AccessNext \/ UNCHANGED accessVars
    BY StepOfPart
  <2>2. AccessInv'
    BY <2>1, AccessStepInv
  <2> QED
    BY <2>1, <2>2, NewestStep
<1>3. AccessInv /\ OnlyTheNewestIsLeft => AuthorityHolds
  BY DEF AccessInv, AuthorityHolds
<1> QED
  BY <1>1, <1>2, <1>3, PTL DEF Spec

------------------------------------------------------------------------------
(* Second factors *)

Factor == [status : {"Pending", "Active", "Inactive"}, used : Int, failed : Nat, until : Nat]
RequestPoint ==
  {"idle", "check", "failAgent", "failFactor", "use", "resetAgent", "resetFactor",
   "activate", "revoke", "insert"}
RequestRecord ==
  [pc : RequestPoint, handler : Handlers \cup {"none"}, factor : Nat, until : Nat,
   code : Int, fresh : BOOLEAN]

\* A request refers to a factor in the store, and resets the lockout for a new code.
RequestFits(r, fs) ==
  /\ r.pc \notin {"idle", "insert"} => r.factor \in DOMAIN fs
  /\ r.pc = "resetAgent" => r.fresh

MfaType ==
  /\ callers \in [who : {Clients}, requests : Int] /\ IsFiniteSet(Clients)
  /\ step \in Nat \ {0}
  /\ factors \in Seq(Factor) /\ Len(factors) <= MaxFactors
  /\ lockout \in [failed : Nat, until : Nat]
  /\ request \in [Clients -> RequestRecord]
  /\ \A c \in Clients : RequestFits(request[c], factors)
  /\ accepted \in [1..MaxFactors -> Seq(Int)]
  /\ wrong \in Nat

\* Every counter accepted for a factor is at most the last one used.
UsedIsLast ==
  \A f \in 1..MaxFactors : \A i \in DOMAIN accepted[f] :
    f \in DOMAIN factors /\ accepted[f][i] <= factors[f].used

OneActive == \A f, g \in WithStatus("Active") : f = g

Failing == {c \in Clients : request[c].pc = "failAgent"}

\* While the agent is not locked its counter is the number of wrong codes; once it
\* is locked only the requests that had passed the check can add to them.
GuessInv ==
  /\ lockout.until = Unlocked => wrong = lockout.failed /\ wrong <= MaxAttempts - 1
  /\ lockout.until # Unlocked /\ ~Locked(lockout.until) => wrong = 0
  /\ Locked(lockout.until) =>
       wrong + Cardinality(Failing) <= MaxAttempts - 1 + Cardinality(Clients)

MfaInv == MfaType /\ CodeUsedOnce /\ UsedIsLast /\ OneActive /\ GuessInv

\* The records of factors and requests have their type.
LEMMA MfaRecords ==
  /\ NewFactor \in Factor /\ NewFactor.status = "Pending"
  /\ NoRequest \in RequestRecord /\ NoRequest.pc = "idle"
  /\ \A fs : RequestFits(NoRequest, fs)
BY DEF NewFactor, Factor, NoRequest, RequestRecord, RequestPoint, RequestFits, Never, Unlocked

\* The agent starts without a factor.
LEMMA MfaStart == MfaInit => MfaInv
<1> SUFFICES ASSUME MfaInit PROVE MfaInv
  OBVIOUS
<1>1. /\ callers \in Callers /\ step = 1 /\ factors = <<>> /\ wrong = 0
      /\ lockout = [failed |-> 0, until |-> Unlocked]
      /\ request = [c \in Clients |-> NoRequest]
      /\ accepted = [f \in 1..MaxFactors |-> <<>>]
  BY DEF MfaInit
<1>2. callers \in [who : {Clients}, requests : Int] /\ IsFiniteSet(Clients)
  BY <1>1, MfaAssumption DEF Clients
<1>3. factors \in Seq(Factor) /\ Len(factors) = 0 /\ DOMAIN factors = {}
  BY <1>1
<1>4. lockout \in [failed : Nat, until : Nat] /\ lockout.until = 0 /\ lockout.failed = 0
  BY <1>1 DEF Unlocked
<1>5. accepted \in [1..MaxFactors -> Seq(Int)] /\ \A f \in 1..MaxFactors : DOMAIN accepted[f] = {}
  BY <1>1
<1>6. \A c \in Clients : request[c] = NoRequest
  BY <1>1
<1>7. MfaType
  <2>1. request \in [Clients -> RequestRecord]
    BY <1>1, MfaRecords
  <2>2. \A c \in Clients : RequestFits(request[c], factors)
    BY <1>6, MfaRecords
  <2>3. Len(factors) <= MaxFactors
    BY <1>3, MfaAssumption
  <2> QED
    BY <1>1, <1>2, <1>3, <1>4, <1>5, <2>1, <2>2, <2>3 DEF MfaType
<1>8. CodeUsedOnce /\ UsedIsLast
  BY <1>5 DEF CodeUsedOnce, UsedIsLast
<1>9. OneActive
  BY <1>3 DEF OneActive, WithStatus
<1>10. GuessInv
  BY <1>1, <1>4, MfaAssumption DEF GuessInv, Locked, Unlocked
<1> QED
  BY <1>7, <1>8, <1>9, <1>10 DEF MfaInv

\* Replacing one factor.
LEMMA FactorSet ==
  ASSUME factors \in Seq(Factor), NEW f \in DOMAIN factors, NEW g \in Factor,
         factors' = [factors EXCEPT ![f] = g]
  PROVE  /\ factors' \in Seq(Factor) /\ DOMAIN factors' = DOMAIN factors
         /\ Len(factors') = Len(factors)
         /\ factors'[f] = g /\ \A h \in DOMAIN factors \ {f} : factors'[h] = factors[h]
OBVIOUS

\* A new factor comes last, and is pending.
LEMMA FactorAdded ==
  ASSUME factors \in Seq(Factor), Len(factors) < MaxFactors, factors' = Append(factors, NewFactor)
  PROVE  /\ factors' \in Seq(Factor) /\ Len(factors') <= MaxFactors
         /\ DOMAIN factors \subseteq DOMAIN factors'
         /\ \A h \in DOMAIN factors : factors'[h] = factors[h]
         /\ \A h \in DOMAIN factors' \ DOMAIN factors : factors'[h].status = "Pending"
<1>1. MaxFactors \in Nat /\ NewFactor \in Factor /\ NewFactor.status = "Pending"
  BY MfaRecords, MfaAssumption
<1>2. Len(factors) \in Nat
  OBVIOUS
<1>3. Len(factors) + 1 <= MaxFactors
  BY <1>1, <1>2
<1> QED
  BY <1>1, <1>3

\* The codes accepted and the active factor stand as long as factors keep the counter
\* last used and none becomes active.
LEMMA FactorsKept ==
  ASSUME MfaInv, accepted' = accepted, DOMAIN factors \subseteq DOMAIN factors',
         \A f \in DOMAIN factors : factors'[f].used = factors[f].used,
         \A f \in DOMAIN factors' : factors'[f].status = "Active" =>
           f \in DOMAIN factors /\ factors[f].status = "Active"
  PROVE  CodeUsedOnce' /\ UsedIsLast' /\ OneActive'
<1>1. CodeUsedOnce'
  BY DEF MfaInv, CodeUsedOnce
<1>2. UsedIsLast'
  BY DEF MfaInv, UsedIsLast
<1>3. OneActive'
  BY DEF MfaInv, OneActive, WithStatus
<1> QED
  BY <1>1, <1>2, <1>3

\* The guesses stay bounded while requests move and none comes to fail that the lock
\* should have stopped.
LEMMA GuessesKept ==
  ASSUME MfaInv, UNCHANGED <<step, lockout, wrong>>, Clients' = Clients,
         Failing' \subseteq Failing \/ ~Locked(lockout.until)
  PROVE  GuessInv'
<1>1. Locked(lockout.until)' <=> Locked(lockout.until)
  BY DEF Locked
<1>2. CASE ~Locked(lockout.until)
  BY <1>1, <1>2 DEF MfaInv, GuessInv
<1>3. CASE Failing' \subseteq Failing /\ Locked(lockout.until)
  <2>1. IsFiniteSet(Clients) /\ Failing \subseteq Clients
    BY DEF MfaInv, MfaType, Failing
  <2>2. IsFiniteSet(Failing)
    BY <2>1, FS_Subset
  <2>3. IsFiniteSet(Failing') /\ Cardinality(Failing') <= Cardinality(Failing)
    BY <1>3, <2>2, FS_Subset
  <2>4. /\ Cardinality(Failing) \in Nat /\ Cardinality(Failing') \in Nat
        /\ Cardinality(Clients) \in Nat
    BY <2>1, <2>2, <2>3, FS_CardinalityType
  <2>5. wrong + Cardinality(Failing) <= MaxAttempts - 1 + Cardinality(Clients)
    BY <1>3 DEF MfaInv, GuessInv
  <2>6. wrong \in Nat /\ MaxAttempts \in Nat
    BY MfaAssumption DEF MfaInv, MfaType
  <2>7. wrong + Cardinality(Failing') <= MaxAttempts - 1 + Cardinality(Clients)
    BY <2>3, <2>4, <2>5, <2>6
  <2> QED
    BY <1>1, <1>3, <2>7 DEF MfaInv, GuessInv
<1> QED
  BY <1>2, <1>3

\* A step of one request that leaves the lockout and the codes accepted alone.
LEMMA RequestMoves ==
  ASSUME MfaInv, NEW c \in Clients, NEW r \in RequestRecord,
         request' = [request EXCEPT ![c] = r], RequestFits(r, factors),
         callers' \in [who : {Clients}, requests : Int],
         factors' \in Seq(Factor), Len(factors') <= MaxFactors,
         DOMAIN factors \subseteq DOMAIN factors'
  PROVE  /\ Clients' = Clients
         /\ UNCHANGED <<step, lockout, accepted, wrong>> => MfaType'
         /\ r.pc # "failAgent" => Failing' = Failing \ {c}
<1>1. callers'.who = Clients
  OBVIOUS
<1>2. Clients' = Clients
  BY <1>1 DEF Clients
<1>3. /\ request' \in [Clients -> RequestRecord] /\ request'[c] = r
      /\ \A d \in Clients \ {c} : request'[d] = request[d]
  BY DEF MfaInv, MfaType
<1>4. \A d \in Clients : RequestFits(request'[d], factors)
  BY <1>3 DEF MfaInv, MfaType
<1>5. \A d \in Clients : RequestFits(request'[d], factors')
  BY <1>4 DEF RequestFits
<1>6. ASSUME UNCHANGED <<step, lockout, accepted, wrong>> PROVE MfaType'
  <2>1. /\ IsFiniteSet(Clients) /\ step' \in Nat \ {0} /\ lockout' \in [failed : Nat, until : Nat]
        /\ accepted' \in [1..MaxFactors -> Seq(Int)] /\ wrong' \in Nat
    BY <1>6 DEF MfaInv, MfaType
  <2> QED
    BY <1>2, <1>3, <1>5, <2>1 DEF MfaType
<1>7. ASSUME r.pc # "failAgent" PROVE Failing' = Failing \ {c}
  <2>1. Failing' = {d \in Clients : request'[d].pc = "failAgent"}
    BY <1>2 DEF Failing
  <2> QED
    BY <1>3, <1>7, <2>1 DEF Failing
<1> QED
  BY <1>2, <1>6, <1>7

\* Such a step preserves the invariant when it also leaves the counters last used and
\* makes no factor active.
LEMMA QuietRequest ==
  ASSUME MfaInv, NEW c \in Clients, NEW r \in RequestRecord,
         request' = [request EXCEPT ![c] = r], RequestFits(r, factors),
         callers' \in [who : {Clients}, requests : Int],
         factors' \in Seq(Factor), Len(factors') <= MaxFactors,
         DOMAIN factors \subseteq DOMAIN factors',
         UNCHANGED <<step, lockout, accepted, wrong>>,
         \A f \in DOMAIN factors : factors'[f].used = factors[f].used,
         \A f \in DOMAIN factors' : factors'[f].status = "Active" =>
           f \in DOMAIN factors /\ factors[f].status = "Active",
         r.pc = "failAgent" => ~Locked(lockout.until)
  PROVE  MfaInv'
<1>1. Clients' = Clients /\ MfaType' /\ (r.pc # "failAgent" => Failing' = Failing \ {c})
  BY RequestMoves
<1>2. GuessInv'
  BY <1>1, GuessesKept
<1>3. CodeUsedOnce' /\ UsedIsLast' /\ OneActive'
  BY FactorsKept
<1> QED
  BY <1>1, <1>2, <1>3 DEF MfaInv

\* A wrong code counts: while the agent is not locked it brings the lock nearer, and
\* once it is locked one request fewer may still fail.
LEMMA FailAgentStep ==
  ASSUME MfaInv, NEW c \in Clients, FailAgent(c)
  PROVE  MfaInv'
<1>1. /\ request[c].pc = "failAgent" /\ lockout' = record_agent_failed_attempt
      /\ wrong' = wrong + 1 /\ UNCHANGED <<callers, step, factors, accepted>>
      /\ request' = [request EXCEPT ![c] = [request[c] EXCEPT !.pc = "failFactor"]]
  BY DEF FailAgent, Goto
<1>2. request[c] \in RequestRecord /\ request[c].factor \in DOMAIN factors
  BY <1>1 DEF MfaInv, MfaType, RequestFits
<1>3. PICK r \in RequestRecord : /\ r.pc = "failFactor" /\ r.factor = request[c].factor
                                 /\ request' = [request EXCEPT ![c] = r]
  BY <1>1, <1>2 DEF RequestRecord, RequestPoint
<1>4. RequestFits(r, factors)
  BY <1>2, <1>3 DEF RequestFits
<1>5. /\ callers' \in [who : {Clients}, requests : Int] /\ factors' \in Seq(Factor)
      /\ Len(factors') <= MaxFactors
  BY <1>1 DEF MfaInv, MfaType
<1>6. Clients' = Clients /\ Failing' = Failing \ {c}
  BY <1>1, <1>3, <1>4, <1>5, RequestMoves
<1>7. /\ step \in Nat \ {0} /\ wrong \in Nat /\ lockout.failed \in Nat /\ lockout.until \in Nat
      /\ MaxAttempts \in Nat \ {0} /\ LockSteps \in Nat \ {0} /\ IsFiniteSet(Clients)
  BY MfaAssumption DEF MfaInv, MfaType
<1>8. /\ lockout'.failed \in Nat /\ lockout'.until \in {0, step + LockSteps}
      /\ lockout' \in [failed : Nat, until : Nat]
  BY <1>1, <1>7 DEF record_agent_failed_attempt, Unlocked
<1>9. MfaType'
  <2>1. /\ request' \in [Clients -> RequestRecord] /\ request'[c] = r
        /\ \A d \in Clients \ {c} : request'[d] = request[d]
    BY <1>3 DEF MfaInv, MfaType
  <2>2. \A d \in Clients : RequestFits(request'[d], factors')
    BY <1>1, <1>4, <2>1 DEF MfaInv, MfaType
  <2>3. /\ step' \in Nat \ {0} /\ accepted' \in [1..MaxFactors -> Seq(Int)] /\ wrong' \in Nat
    BY <1>1, <1>7 DEF MfaInv, MfaType
  <2> QED
    BY <1>5, <1>6, <1>7, <1>8, <2>1, <2>2, <2>3 DEF MfaType
<1>10. CodeUsedOnce' /\ UsedIsLast' /\ OneActive'
  BY <1>1, FactorsKept
<1>11. /\ c \in Failing /\ Failing \subseteq Clients /\ Cardinality(Failing) \in Nat
       /\ Cardinality(Failing') = Cardinality(Failing) - 1
       /\ Cardinality(Failing) <= Cardinality(Clients) /\ Cardinality(Clients) \in Nat
  <2>1. c \in Failing /\ Failing \subseteq Clients
    BY <1>1 DEF Failing
  <2>2. IsFiniteSet(Failing) /\ Cardinality(Failing) <= Cardinality(Clients)
    BY <1>7, <2>1, FS_Subset
  <2>3. Cardinality(Failing \ {c}) = Cardinality(Failing) - 1
    BY <2>1, <2>2, FS_RemoveElement
  <2> QED
    BY <1>6, <1>7, <2>1, <2>2, <2>3, FS_CardinalityType
<1>12. GuessInv'
  <2> DEFINE F == Cardinality(Failing)
             G == Cardinality(Failing')
             C == Cardinality(Clients)
  <2>1. F \in Nat /\ G = F - 1 /\ F <= C /\ C \in Nat
    BY <1>11
  <2>2. Cardinality(Clients)' = C
    BY <1>6
  <2> HIDE DEF F, G, C
  <2> SUFFICES /\ lockout'.until = 0 => wrong' = lockout'.failed /\ wrong' <= MaxAttempts - 1
               /\ lockout'.until # 0 /\ ~(lockout'.until > step) => wrong' = 0
               /\ lockout'.until > step => wrong' + G <= MaxAttempts - 1 + C
    BY <1>1, <2>2 DEF GuessInv, Locked, Unlocked, G
  <2>3. CASE lockout.until = 0
    <3>1. wrong = lockout.failed /\ wrong <= MaxAttempts - 1
      BY <2>3 DEF MfaInv, GuessInv, Unlocked
    <3>2. /\ lockout'.failed = wrong + 1
          /\ lockout'.until = IF wrong + 1 >= MaxAttempts THEN step + LockSteps ELSE 0
      BY <1>1, <1>7, <2>3, <3>1 DEF record_agent_failed_attempt, Locked, Unlocked
    <3> QED
      BY <1>1, <1>7, <2>1, <3>1, <3>2
  <2>4. CASE lockout.until # 0 /\ ~(lockout.until > step)
    <3>1. wrong = 0
      BY <2>4 DEF MfaInv, GuessInv, Unlocked, Locked
    <3>2. /\ lockout'.failed = 1
          /\ lockout'.until = IF 1 >= MaxAttempts THEN step + LockSteps ELSE 0
      BY <1>1, <1>7, <2>4 DEF record_agent_failed_attempt, Locked, Unlocked
    <3> QED
      BY <1>1, <1>7, <2>1, <3>1, <3>2
  <2>5. CASE lockout.until > step
    <3>1. wrong + F <= MaxAttempts - 1 + C
      BY <2>5 DEF MfaInv, GuessInv, Locked, F, C
    <3>2. lockout'.until = step + LockSteps
      BY <1>1, <1>7, <2>5 DEF record_agent_failed_attempt, Locked, Unlocked
    <3> QED
      BY <1>1, <1>7, <2>1, <3>1, <3>2
  <2> QED
    BY <2>3, <2>4, <2>5
<1> QED
  BY <1>9, <1>10, <1>12 DEF MfaInv

\* A code is accepted for a counter after the last one used.
LEMMA UseStep ==
  ASSUME MfaInv, NEW c \in Clients, Use(c)
  PROVE  MfaInv'
<1> DEFINE f == request[c].factor
           n == request[c].code
<1>1. request[c].pc = "use" /\ UNCHANGED <<callers, step, lockout, wrong>>
  BY DEF Use
<1>2. /\ request[c] \in RequestRecord /\ f \in DOMAIN factors /\ factors \in Seq(Factor)
      /\ Len(factors) <= MaxFactors /\ callers' \in [who : {Clients}, requests : Int]
      /\ accepted \in [1..MaxFactors -> Seq(Int)]
  BY <1>1 DEF MfaInv, MfaType, RequestFits
<1>3. n \in Int /\ f \in Nat /\ factors[f] \in Factor /\ factors[f].used \in Int
  <2>1. n \in Int /\ f \in Nat
    BY <1>2 DEF RequestRecord
  <2>2. factors[f] \in Factor
    BY <1>2
  <2> QED
    BY <2>1, <2>2 DEF Factor
<1>4. f \in 1..MaxFactors
  BY <1>2, MfaAssumption
<1>5. CASE Done(c) /\ UNCHANGED <<factors, accepted>>
  <2>1. request' = [request EXCEPT ![c] = NoRequest]
    BY <1>5 DEF Done
  <2> QED
    BY <1>1, <1>2, <1>5, <2>1, MfaRecords, QuietRequest
<1>6. CASE /\ record_use(f, n)
           /\ factors' = [factors EXCEPT ![f].used = n]
           /\ accepted' = [accepted EXCEPT ![f] = Append(accepted[f], n)]
           /\ request' = [request EXCEPT ![c].pc = "resetAgent", ![c].fresh = TRUE]
  <2>1. factors[f].used < n
    BY <1>6 DEF record_use
  <2>2. PICK g \in Factor : /\ factors' = [factors EXCEPT ![f] = g]
                            /\ g.used = n /\ g.status = factors[f].status
    <3>1. [factors[f] EXCEPT !.used = n] \in Factor
      BY <1>3 DEF Factor
    <3>2. /\ [factors[f] EXCEPT !.used = n].used = n
          /\ [factors[f] EXCEPT !.used = n].status = factors[f].status
      BY <1>3 DEF Factor
    <3> QED
      BY <1>6, <3>1, <3>2
  <2>3. /\ factors' \in Seq(Factor) /\ DOMAIN factors' = DOMAIN factors
        /\ Len(factors') = Len(factors)
        /\ factors'[f] = g /\ \A h \in DOMAIN factors \ {f} : factors'[h] = factors[h]
    BY <1>2, <2>2, FactorSet
  <2>4. PICK r \in RequestRecord : /\ r.pc = "resetAgent" /\ r.fresh /\ r.factor = f
                                   /\ request' = [request EXCEPT ![c] = r]
    <3> DEFINE q == [request[c] EXCEPT !.pc = "resetAgent", !.fresh = TRUE]
    <3>1. q \in RequestRecord /\ q.pc = "resetAgent" /\ q.fresh /\ q.factor = f
      BY <1>2 DEF RequestRecord, RequestPoint
    <3>2. request' = [request EXCEPT ![c] = q]
      BY <1>6
    <3> QED
      BY <3>1, <3>2
  <2>5. RequestFits(r, factors)
    BY <1>2, <2>4 DEF RequestFits
  <2>6. Clients' = Clients /\ Failing' = Failing \ {c}
    BY <1>2, <2>3, <2>4, <2>5, RequestMoves
  <2>7. GuessInv'
    BY <1>1, <2>6, GuessesKept
  <2> DEFINE k == Len(accepted[f]) + 1
  <2>8. /\ accepted'[f] \in Seq(Int) /\ DOMAIN accepted'[f] = DOMAIN accepted[f] \cup {k}
        /\ accepted'[f][k] = n /\ DOMAIN accepted[f] = 1..(k - 1) /\ k \in Nat
        /\ \A i \in DOMAIN accepted[f] : accepted'[f][i] = accepted[f][i]
    <3>1. accepted'[f] = Append(accepted[f], n)
      BY <1>2, <1>4, <1>6
    <3>2. accepted[f] \in Seq(Int)
      BY <1>2, <1>4
    <3>3. ASSUME NEW s \in Seq(Int), NEW x \in Int
          PROVE  LET t == Append(s, x)
                     m == Len(s) + 1
                 IN  /\ t \in Seq(Int) /\ DOMAIN t = DOMAIN s \cup {m}
                     /\ t[m] = x /\ DOMAIN s = 1..(m - 1) /\ m \in Nat
                     /\ \A i \in DOMAIN s : t[i] = s[i]
      OBVIOUS
    <3> QED
      BY <1>3, <3>1, <3>2, <3>3
  <2> HIDE DEF k
  <2>9. \A h \in 1..MaxFactors \ {f} : accepted'[h] = accepted[h]
    BY <1>2, <1>6
  <2>10. accepted' \in [1..MaxFactors -> Seq(Int)]
    BY <1>2, <1>6, <2>8
  <2>11. \A h \in 1..MaxFactors : \A i \in DOMAIN accepted[h] :
           /\ h \in DOMAIN factors /\ accepted[h][i] <= factors[h].used
           /\ accepted[h][i] \in Int
    BY <1>2 DEF MfaInv, UsedIsLast
  <2>12. \A i \in DOMAIN accepted[f] : accepted[f][i] < n
    BY <1>3, <1>4, <2>1, <2>11
  <2>13. MfaType'
    <3>1. /\ request' \in [Clients -> RequestRecord] /\ request'[c] = r
          /\ \A d \in Clients \ {c} : request'[d] = request[d]
      BY <2>4 DEF MfaInv, MfaType
    <3>2. \A d \in Clients : RequestFits(request'[d], factors)
      BY <2>5, <3>1 DEF MfaInv, MfaType
    <3>3. \A d \in Clients : RequestFits(request'[d], factors')
      BY <2>3, <3>2 DEF RequestFits
    <3>4. /\ step' \in Nat \ {0} /\ wrong' \in Nat /\ lockout' \in [failed : Nat, until : Nat]
          /\ IsFiniteSet(Clients)
      BY <1>1 DEF MfaInv, MfaType
    <3> QED
      BY <1>2, <2>3, <2>6, <2>10, <3>1, <3>3, <3>4 DEF MfaType
  <2>14. CodeUsedOnce'
    <3> SUFFICES ASSUME NEW h \in 1..MaxFactors, NEW i \in DOMAIN accepted'[h],
                        NEW j \in DOMAIN accepted'[h], i < j
                 PROVE  accepted'[h][i] < accepted'[h][j]
      BY <2>10 DEF CodeUsedOnce
    <3>1. CASE h # f
      <4>1. accepted'[h] = accepted[h]
        BY <2>9, <3>1
      <4>2. DOMAIN accepted = 1..MaxFactors
        BY <1>2
      <4> QED
        BY <4>1, <4>2 DEF MfaInv, CodeUsedOnce
    <3>2. CASE h = f
      <4>1. i \in DOMAIN accepted[f] \cup {k} /\ j \in DOMAIN accepted[f] \cup {k}
        BY <2>8, <3>2
      <4>2. k \in Nat /\ DOMAIN accepted[f] = 1..(k - 1)
        BY <2>8
      <4>3. i \in DOMAIN accepted[f] /\ (j # k => j \in DOMAIN accepted[f])
        BY <4>1, <4>2
      <4>4. accepted'[f][i] = accepted[f][i]
        BY <2>8, <4>3
      <4>5. CASE j = k
        BY <2>8, <2>12, <3>2, <4>3, <4>4, <4>5
      <4>6. CASE j # k
        <5>1. accepted'[f][j] = accepted[f][j] /\ DOMAIN accepted = 1..MaxFactors
          BY <1>2, <2>8, <4>3, <4>6
        <5>2. accepted[f][i] < accepted[f][j]
          BY <1>4, <4>3, <4>6, <5>1 DEF MfaInv, CodeUsedOnce
        <5> QED
          BY <3>2, <4>4, <5>1, <5>2
      <4> QED
        BY <4>5, <4>6
    <3> QED
      BY <3>1, <3>2
  <2>15. UsedIsLast'
    <3> SUFFICES ASSUME NEW h \in 1..MaxFactors, NEW i \in DOMAIN accepted'[h]
                 PROVE  h \in DOMAIN factors /\ accepted'[h][i] <= factors'[h].used
      BY <2>3 DEF UsedIsLast
    <3>1. CASE h # f
      <4>1. accepted'[h] = accepted[h]
        BY <2>9, <3>1
      <4>2. h \in DOMAIN factors /\ accepted[h][i] <= factors[h].used
        BY <2>11, <4>1
      <4> QED
        BY <2>3, <3>1, <4>1, <4>2
    <3>2. CASE h = f
      <4>1. accepted'[f][i] <= n
        <5>1. CASE i = k
          BY <1>3, <2>8, <5>1
        <5>2. CASE i # k
          <6>1. i \in DOMAIN accepted[f] /\ accepted'[f][i] = accepted[f][i]
            BY <2>8, <3>2, <5>2
          <6>2. accepted[f][i] < n /\ accepted[f][i] \in Int
            BY <1>4, <2>11, <2>12, <6>1
          <6> QED
            BY <1>3, <6>1, <6>2
        <5> QED
          BY <5>1, <5>2
      <4>2. factors'[f].used = n
        BY <2>2, <2>3
      <4> QED
        BY <1>2, <3>2, <4>1, <4>2
    <3> QED
      BY <3>1, <3>2
  <2>16. OneActive'
    <3>1. \A h \in DOMAIN factors' : h \in DOMAIN factors /\ factors'[h].status = factors[h].status
      BY <2>2, <2>3
    <3> QED
      BY <3>1 DEF MfaInv, OneActive, WithStatus
  <2> HIDE DEF f, n
  <2> QED
    BY <2>7, <2>13, <2>14, <2>15, <2>16 DEF MfaInv
<1> QED
  BY <1>5, <1>6 DEF Use

\* Steps preserve what is known of second factors.
LEMMA MfaStepInv ==
  ASSUME MfaInv, MfaNext \/ UNCHANGED mfaVars
  PROVE  MfaInv'
<1>1. /\ callers \in [who : {Clients}, requests : Int] /\ factors \in Seq(Factor)
      /\ Len(factors) <= MaxFactors /\ step \in Nat \ {0}
      /\ lockout.failed \in Nat /\ lockout.until \in Nat /\ wrong \in Nat
      /\ \A c \in Clients : request[c] \in RequestRecord /\ RequestFits(request[c], factors)
  BY DEF MfaInv, MfaType
<1>2. \A f \in DOMAIN factors : factors[f] \in Factor /\ f \in Nat
  BY <1>1
<1>3. CASE UNCHANGED mfaVars
  <2>1. Clients' = Clients /\ Failing' = Failing
    BY <1>3 DEF mfaVars, Clients, Failing
  <2>2. MfaType'
    BY <1>3, <2>1 DEF mfaVars, MfaInv, MfaType
  <2>3. GuessInv'
    BY <1>3, <2>1, GuessesKept DEF mfaVars
  <2>4. CodeUsedOnce' /\ UsedIsLast' /\ OneActive'
    BY <1>3, FactorsKept DEF mfaVars
  <2> QED
    BY <2>2, <2>3, <2>4 DEF MfaInv
<1>4. CASE Enroll
  <2>1. /\ Len(factors) < MaxFactors /\ factors' = Append(factors, NewFactor)
        /\ UNCHANGED <<callers, step, lockout, request, accepted, wrong>>
    BY <1>4 DEF Enroll
  <2>2. /\ factors' \in Seq(Factor) /\ Len(factors') <= MaxFactors
        /\ DOMAIN factors \subseteq DOMAIN factors'
        /\ \A h \in DOMAIN factors : factors'[h] = factors[h]
        /\ \A h \in DOMAIN factors' \ DOMAIN factors : factors'[h].status = "Pending"
    BY <1>1, <2>1, FactorAdded
  <2>3. Clients' = Clients /\ Failing' = Failing
    BY <2>1 DEF Clients, Failing
  <2>4. MfaType'
    <3>1. \A c \in Clients : RequestFits(request'[c], factors')
      BY <1>1, <2>1, <2>2 DEF RequestFits
    <3> QED
      BY <2>1, <2>2, <2>3, <3>1 DEF MfaInv, MfaType
  <2>5. GuessInv'
    BY <2>1, <2>3, GuessesKept
  <2>6. CodeUsedOnce' /\ UsedIsLast' /\ OneActive'
    BY <2>1, <2>2, FactorsKept
  <2> QED
    BY <2>4, <2>5, <2>6 DEF MfaInv
<1>5. ASSUME NEW c \in Clients, Begin(c) PROVE callers' \in [who : {Clients}, requests : Int]
  BY <1>1, <1>5 DEF Begin
<1>6. ASSUME NEW c \in Clients, NEW h \in Handlers, NEW f \in DOMAIN factors, NEW n \in Codes,
             Load(c, h, f, n)
      PROVE  MfaInv'
  <2> DEFINE r == [pc |-> "check", handler |-> h, factor |-> f, until |-> factors[f].until,
                   code |-> n, fresh |-> FALSE]
  <2>1. n \in Int /\ factors[f].until \in Nat /\ f \in Nat
    BY <1>2, MfaAssumption DEF Codes, Never, Factor
  <2>2. r \in RequestRecord /\ r.pc = "check" /\ RequestFits(r, factors)
    BY <2>1 DEF RequestRecord, RequestPoint, RequestFits
  <2>3. Begin(c) /\ request' = [request EXCEPT ![c] = r]
        /\ UNCHANGED <<step, factors, lockout, accepted, wrong>>
    BY <1>6 DEF Load
  <2>4. PICK q \in RequestRecord : /\ q.pc = "check" /\ RequestFits(q, factors)
                                   /\ request' = [request EXCEPT ![c] = q]
    BY <2>2, <2>3
  <2> QED
    BY <1>1, <1>5, <2>3, <2>4, QuietRequest
<1>7. ASSUME NEW c \in Clients, NEW r \in RequestRecord,
             r.pc \in {"revoke", "insert"}, RequestFits(r, factors), Begin(c),
             request' = [request EXCEPT ![c] = r],
             UNCHANGED <<step, factors, lockout, accepted, wrong>>
      PROVE  MfaInv'
  BY <1>1, <1>5, <1>7, QuietRequest
<1>8. ASSUME NEW c \in Clients, NEW h \in {"disable", "rotate"}, NEW f \in DOMAIN factors,
             BreakGlass(c, h, f)
      PROVE  MfaInv'
  <2> DEFINE r == [NoRequest EXCEPT !.pc = "revoke", !.handler = h, !.factor = f]
  <2>1. f \in Nat /\ h \in Handlers
    BY <1>2 DEF Handlers
  <2>2. ASSUME NEW q \in RequestRecord
        PROVE  LET s == [q EXCEPT !.pc = "revoke", !.handler = h, !.factor = f]
               IN  s \in RequestRecord /\ s.pc = "revoke" /\ s.factor = f
    BY <2>1 DEF RequestRecord, RequestPoint
  <2>3. r \in RequestRecord /\ r.pc = "revoke" /\ r.factor = f
    BY <2>2, MfaRecords
  <2>4. Begin(c) /\ request' = [request EXCEPT ![c] = r]
        /\ UNCHANGED <<step, factors, lockout, accepted, wrong>>
    BY <1>8 DEF BreakGlass
  <2> HIDE DEF r
  <2>5. RequestFits(r, factors)
    BY <2>3 DEF RequestFits
  <2> QED
    BY <1>7, <2>3, <2>4, <2>5
<1>9. ASSUME NEW c \in Clients, RotateNone(c) PROVE MfaInv'
  <2> DEFINE r == [NoRequest EXCEPT !.pc = "insert", !.handler = "rotate"]
  <2>1. ASSUME NEW q \in RequestRecord
        PROVE  LET s == [q EXCEPT !.pc = "insert", !.handler = "rotate"]
               IN  s \in RequestRecord /\ s.pc = "insert"
    BY DEF RequestRecord, RequestPoint, Handlers
  <2>2. r \in RequestRecord /\ r.pc = "insert"
    BY <2>1, MfaRecords
  <2>3. Begin(c) /\ request' = [request EXCEPT ![c] = r]
        /\ UNCHANGED <<step, factors, lockout, accepted, wrong>>
    BY <1>9 DEF RotateNone
  <2> HIDE DEF r
  <2>4. RequestFits(r, factors)
    BY <2>2 DEF RequestFits
  <2> QED
    BY <1>7, <2>2, <2>3, <2>4
<1>10. ASSUME NEW c \in Clients, Done(c), callers' = callers,
              UNCHANGED <<step, lockout, accepted, wrong>>,
              factors' \in Seq(Factor), Len(factors') <= MaxFactors,
              DOMAIN factors \subseteq DOMAIN factors',
              \A f \in DOMAIN factors : factors'[f].used = factors[f].used,
              \A f \in DOMAIN factors' : factors'[f].status = "Active" =>
                f \in DOMAIN factors /\ factors[f].status = "Active"
       PROVE  MfaInv'
  <2>1. request' = [request EXCEPT ![c] = NoRequest]
    BY <1>10 DEF Done
  <2> QED
    BY <1>1, <1>10, <2>1, MfaRecords, QuietRequest
<1>11. ASSUME NEW c \in Clients, request[c].pc \notin {"idle", "insert"},
              NEW pc \in RequestPoint \ {"failAgent", "resetAgent"}, Goto(c, pc),
              callers' = callers, UNCHANGED <<step, lockout, accepted, wrong>>,
              factors' \in Seq(Factor), Len(factors') <= MaxFactors,
              DOMAIN factors \subseteq DOMAIN factors',
              \A f \in DOMAIN factors : factors'[f].used = factors[f].used,
              \A f \in DOMAIN factors' : factors'[f].status = "Active" =>
                f \in DOMAIN factors /\ factors[f].status = "Active"
       PROVE  MfaInv'
  <2>1. request' = [request EXCEPT ![c] = [request[c] EXCEPT !.pc = pc]]
    BY <1>11 DEF Goto
  <2>2. request[c] \in RequestRecord /\ request[c].factor \in DOMAIN factors
    BY <1>1, <1>11 DEF RequestFits
  <2>3. PICK r \in RequestRecord : /\ r.pc = pc /\ r.factor = request[c].factor
                                   /\ request' = [request EXCEPT ![c] = r]
    BY <2>1, <2>2 DEF RequestRecord
  <2>4. RequestFits(r, factors)
    BY <1>11, <2>2, <2>3 DEF RequestFits
  <2> QED
    BY <1>1, <1>11, <2>3, <2>4, QuietRequest
<1>12. ASSUME NEW c \in Clients, Abort(c) PROVE MfaInv'
  BY <1>1, <1>10, <1>12 DEF Abort
<1>13. ASSUME NEW c \in Clients, Verify(c) PROVE MfaInv'
  <2>1. request[c].pc = "check" /\ UNCHANGED <<callers, step, factors, lockout, accepted, wrong>>
    BY <1>13 DEF Verify
  <2>2. CASE Done(c)
    BY <1>1, <1>10, <2>1, <2>2
  <2>3. CASE /\ ~Locked(lockout.until)
             /\ request' = [request EXCEPT ![c].until = Unlocked,
                  ![c].pc = IF CodeMatches(request[c].code) THEN "use" ELSE "failAgent"]
    <3> DEFINE pc == IF CodeMatches(request[c].code) THEN "use" ELSE "failAgent"
               q == [request[c] EXCEPT !.until = Unlocked, !.pc = pc]
    <3>1. pc \in {"use", "failAgent"}
      OBVIOUS
    <3>2. request' = [request EXCEPT ![c] = q]
      BY <2>3
    <3> HIDE DEF pc
    <3>3. request[c] \in RequestRecord /\ request[c].factor \in DOMAIN factors
      BY <1>1, <2>1 DEF RequestFits
    <3>4. q \in RequestRecord /\ q.pc = pc /\ q.factor = request[c].factor
      BY <3>1, <3>3 DEF RequestRecord, RequestPoint, Unlocked
    <3> HIDE DEF q
    <3>5. PICK r \in RequestRecord : /\ r.pc \in {"use", "failAgent"}
                                     /\ r.factor = request[c].factor
                                     /\ request' = [request EXCEPT ![c] = r]
      BY <3>1, <3>2, <3>4
    <3>6. RequestFits(r, factors)
      BY <3>3, <3>5 DEF RequestFits
    <3> QED
      BY <1>1, <2>1, <2>3, <3>5, <3>6, QuietRequest
  <2> QED
    BY <1>13, <2>2, <2>3 DEF Verify
<1>14. ASSUME NEW f \in DOMAIN factors, NEW g \in Factor, factors' = [factors EXCEPT ![f] = g],
              g.used = factors[f].used,
              g.status = factors[f].status \/ g.status = "Inactive"
       PROVE  /\ factors' \in Seq(Factor) /\ Len(factors') <= MaxFactors
              /\ DOMAIN factors' = DOMAIN factors
              /\ \A h \in DOMAIN factors : factors'[h].used = factors[h].used
              /\ \A h \in DOMAIN factors' : factors'[h].status = "Active" =>
                   h \in DOMAIN factors /\ factors[h].status = "Active"
  <2>1. /\ factors' \in Seq(Factor) /\ DOMAIN factors' = DOMAIN factors
        /\ Len(factors') = Len(factors)
        /\ factors'[f] = g /\ \A h \in DOMAIN factors \ {f} : factors'[h] = factors[h]
    BY <1>1, <1>14, FactorSet
  <2> QED
    BY <1>1, <1>14, <2>1
<1>15. ASSUME NEW c \in Clients, FailFactor(c) PROVE MfaInv'
  <2> DEFINE f == request[c].factor
             n == factors[f].failed + 1
             u == IF n >= MaxAttempts THEN step + LockSteps ELSE factors[f].until
  <2>1. /\ request[c].pc = "failFactor" /\ Done(c)
        /\ factors' = [factors EXCEPT ![f] = [factors[f] EXCEPT !.failed = n, !.until = u]]
        /\ UNCHANGED <<callers, step, lockout, accepted, wrong>>
    BY <1>15 DEF FailFactor, record_failed_attempt
  <2>2. f \in DOMAIN factors /\ factors[f] \in Factor
    BY <1>1, <1>2, <2>1 DEF RequestFits
  <2>3. n \in Nat /\ u \in Nat
    <3>1. factors[f].failed \in Nat /\ factors[f].until \in Nat
      BY <2>2 DEF Factor
    <3>2. step + LockSteps \in Nat
      BY <1>1, MfaAssumption
    <3> QED
      BY <3>1, <3>2
  <2> HIDE DEF n, u
  <2>4. PICK g \in Factor : /\ factors' = [factors EXCEPT ![f] = g]
                            /\ g.used = factors[f].used /\ g.status = factors[f].status
    <3>1. ASSUME NEW e \in Factor
          PROVE  LET g == [e EXCEPT !.failed = n, !.until = u]
                 IN  g \in Factor /\ g.used = e.used /\ g.status = e.status
      BY <2>3 DEF Factor
    <3> QED
      BY <2>1, <2>2, <3>1
  <2> QED
    BY <1>10, <1>14, <2>1, <2>2, <2>4
<1>16. ASSUME NEW c \in Clients, ResetAgent(c) PROVE MfaInv'
  <2>1. /\ request[c].pc = "resetAgent" /\ lockout' = [failed |-> 0, until |-> Unlocked]
        /\ wrong' = (IF request[c].fresh THEN 0 ELSE wrong)
        /\ UNCHANGED <<callers, step, factors, accepted>>
        /\ request' = [request EXCEPT ![c] = [request[c] EXCEPT !.pc = "resetFactor"]]
    BY <1>16 DEF ResetAgent, Goto
  <2>2. /\ request[c] \in RequestRecord /\ request[c].factor \in DOMAIN factors /\ request[c].fresh
    BY <1>1, <2>1 DEF RequestFits
  <2>3. wrong' = 0 /\ lockout'.failed = 0 /\ lockout'.until = 0
        /\ lockout' \in [failed : Nat, until : Nat]
    BY <2>1, <2>2 DEF Unlocked
  <2>4. PICK r \in RequestRecord : /\ r.pc = "resetFactor" /\ r.factor = request[c].factor
                                   /\ request' = [request EXCEPT ![c] = r]
    BY <2>1, <2>2 DEF RequestRecord, RequestPoint
  <2>5. RequestFits(r, factors)
    BY <2>2, <2>4 DEF RequestFits
  <2>6. Clients' = Clients
    BY <2>1 DEF Clients
  <2>7. MfaType'
    <3>1. /\ request' \in [Clients -> RequestRecord] /\ request'[c] = r
          /\ \A d \in Clients \ {c} : request'[d] = request[d]
      BY <2>4 DEF MfaInv, MfaType
    <3>2. \A d \in Clients : RequestFits(request'[d], factors')
      BY <1>1, <2>1, <2>5, <3>1
    <3> QED
      BY <2>1, <2>3, <2>6, <3>1, <3>2 DEF MfaInv, MfaType
  <2>8. GuessInv'
    BY <1>1, <2>1, <2>3, MfaAssumption DEF GuessInv, Locked, Unlocked
  <2>9. CodeUsedOnce' /\ UsedIsLast' /\ OneActive'
    BY <2>1, FactorsKept
  <2> QED
    BY <2>7, <2>8, <2>9 DEF MfaInv
<1>17. ASSUME NEW c \in Clients, ResetFactor(c) PROVE MfaInv'
  <2> DEFINE f == request[c].factor
  <2>1. /\ request[c].pc = "resetFactor"
        /\ factors' = [factors EXCEPT ![f] = [factors[f] EXCEPT !.failed = 0, !.until = Unlocked]]
        /\ UNCHANGED <<callers, step, lockout, accepted, wrong>>
    BY <1>17 DEF ResetFactor
  <2>2. Goto(c, "activate") \/ Done(c) \/ Goto(c, "revoke")
    BY <1>17 DEF ResetFactor
  <2>3. f \in DOMAIN factors /\ factors[f] \in Factor
    BY <1>1, <1>2, <2>1 DEF RequestFits
  <2>4. PICK g \in Factor : /\ factors' = [factors EXCEPT ![f] = g]
                            /\ g.used = factors[f].used /\ g.status = factors[f].status
    <3>1. ASSUME NEW e \in Factor
          PROVE  LET g == [e EXCEPT !.failed = 0, !.until = Unlocked]
                 IN  g \in Factor /\ g.used = e.used /\ g.status = e.status
      BY DEF Factor, Unlocked
    <3> QED
      BY <2>1, <2>3, <3>1
  <2>5. /\ factors' \in Seq(Factor) /\ Len(factors') <= MaxFactors
        /\ DOMAIN factors' = DOMAIN factors
        /\ \A h \in DOMAIN factors : factors'[h].used = factors[h].used
        /\ \A h \in DOMAIN factors' : factors'[h].status = "Active" =>
             h \in DOMAIN factors /\ factors[h].status = "Active"
    BY <1>14, <2>3, <2>4
  <2>6. {"activate", "revoke"} \subseteq RequestPoint \ {"failAgent", "resetAgent"}
    BY DEF RequestPoint
  <2> QED
    BY <1>10, <1>11, <2>1, <2>2, <2>5, <2>6
<1>18. ASSUME NEW c \in Clients, Revoke(c) PROVE MfaInv'
  <2> DEFINE f == request[c].factor
  <2>1. /\ request[c].pc = "revoke"
        /\ factors' = [factors EXCEPT ![f] = [factors[f] EXCEPT !.status = "Inactive"]]
        /\ UNCHANGED <<callers, step, lockout, accepted, wrong>>
        /\ Goto(c, "insert") \/ Done(c)
    BY <1>18 DEF Revoke
  <2>2. f \in DOMAIN factors /\ factors[f] \in Factor
    BY <1>1, <1>2, <2>1 DEF RequestFits
  <2>3. PICK g \in Factor : /\ factors' = [factors EXCEPT ![f] = g]
                            /\ g.used = factors[f].used /\ g.status = "Inactive"
    <3>1. ASSUME NEW e \in Factor
          PROVE  LET g == [e EXCEPT !.status = "Inactive"]
                 IN  g \in Factor /\ g.used = e.used /\ g.status = "Inactive"
      BY DEF Factor
    <3> QED
      BY <2>1, <2>2, <3>1
  <2>4. /\ factors' \in Seq(Factor) /\ Len(factors') <= MaxFactors
        /\ DOMAIN factors' = DOMAIN factors
        /\ \A h \in DOMAIN factors : factors'[h].used = factors[h].used
        /\ \A h \in DOMAIN factors' : factors'[h].status = "Active" =>
             h \in DOMAIN factors /\ factors[h].status = "Active"
    BY <1>14, <2>2, <2>3
  <2>5. "insert" \in RequestPoint \ {"failAgent", "resetAgent"}
    BY DEF RequestPoint
  <2> QED
    BY <1>10, <1>11, <2>1, <2>4, <2>5
<1>19. ASSUME NEW c \in Clients, Insert(c) PROVE MfaInv'
  <2>1. /\ Len(factors) < MaxFactors /\ factors' = Append(factors, NewFactor) /\ Done(c)
        /\ UNCHANGED <<callers, step, lockout, accepted, wrong>>
    BY <1>19 DEF Insert
  <2>2. /\ factors' \in Seq(Factor) /\ Len(factors') <= MaxFactors
        /\ DOMAIN factors \subseteq DOMAIN factors'
        /\ \A h \in DOMAIN factors : factors'[h] = factors[h]
        /\ \A h \in DOMAIN factors' \ DOMAIN factors : factors'[h].status = "Pending"
    BY <1>1, <2>1, FactorAdded
  <2> QED
    BY <1>10, <2>1, <2>2
<1>20. ASSUME NEW c \in Clients, Activate(c) PROVE MfaInv'
  <2> DEFINE f == request[c].factor
  <2>1. /\ request[c].pc = "activate" /\ factors' = activate(f)
        /\ UNCHANGED <<callers, step, lockout, accepted, wrong>>
        /\ request' = [request EXCEPT ![c] = NoRequest]
    BY <1>20 DEF Activate, Done
  <2>2. ASSUME NEW h \in DOMAIN factors
        PROVE  /\ factors'[h] \in Factor /\ factors'[h].used = factors[h].used
               /\ h # f => factors'[h].status # "Active"
    <3>1. factors[h] \in Factor
      BY <1>2
    <3>2. /\ [factors[h] EXCEPT !.status = "Active"] \in Factor
          /\ [factors[h] EXCEPT !.status = "Inactive"] \in Factor
          /\ [factors[h] EXCEPT !.status = "Active"].used = factors[h].used
          /\ [factors[h] EXCEPT !.status = "Inactive"].used = factors[h].used
          /\ [factors[h] EXCEPT !.status = "Inactive"].status = "Inactive"
      BY <3>1 DEF Factor
    <3>3. factors'[h] =
            IF h = f /\ factors[h].status = "Pending" THEN [factors[h] EXCEPT !.status = "Active"]
            ELSE IF h # f /\ factors[h].status = "Active" THEN [factors[h] EXCEPT !.status = "Inactive"]
            ELSE factors[h]
      BY <2>1 DEF activate
    <3> QED
      BY <3>1, <3>2, <3>3
  <2>3. DOMAIN factors' = DOMAIN factors /\ factors' = [h \in DOMAIN factors |-> factors'[h]]
    BY <2>1 DEF activate
  <2>4. factors' \in Seq(Factor) /\ Len(factors') <= MaxFactors
    <3>1. DOMAIN factors = 1..Len(factors) /\ Len(factors) \in Nat
      BY <1>1
    <3>2. factors' \in [1..Len(factors) -> Factor]
      BY <2>2, <2>3, <3>1
    <3>3. \A n \in Nat : \A s \in [1..n -> Factor] : s \in Seq(Factor) /\ Len(s) = n
      OBVIOUS
    <3> QED
      BY <1>1, <3>1, <3>2, <3>3
  <2>5. Clients' = Clients /\ MfaType' /\ Failing' = Failing \ {c}
    BY <1>1, <2>1, <2>3, <2>4, MfaRecords, RequestMoves
  <2>6. GuessInv'
    BY <2>1, <2>5, GuessesKept
  <2>7. CodeUsedOnce'
    BY <2>1 DEF MfaInv, CodeUsedOnce
  <2>8. UsedIsLast'
    BY <2>1, <2>2, <2>3 DEF MfaInv, UsedIsLast
  <2>9. OneActive'
    BY <2>2, <2>3 DEF OneActive, WithStatus
  <2> QED
    BY <2>5, <2>6, <2>7, <2>8, <2>9 DEF MfaInv
<1>21. CASE NextStep
  <2>1. /\ step' = step + 1 /\ wrong' = (IF lockout.until = step' THEN 0 ELSE wrong)
        /\ UNCHANGED <<callers, factors, lockout, request, accepted>>
    BY <1>21 DEF NextStep
  <2>2. Clients' = Clients /\ Failing' = Failing
    BY <2>1 DEF Clients, Failing
  <2>3. MfaType'
    BY <1>1, <2>1, <2>2 DEF MfaInv, MfaType
  <2>4. CodeUsedOnce' /\ UsedIsLast' /\ OneActive'
    BY <2>1, FactorsKept
  <2>5. GuessInv'
    <3> DEFINE sum(n) == n + Cardinality(Failing) <= MaxAttempts - 1 + Cardinality(Clients)
    <3>1. /\ lockout.until = 0 => wrong = lockout.failed /\ wrong <= MaxAttempts - 1
          /\ lockout.until # 0 /\ ~(lockout.until > step) => wrong = 0
          /\ lockout.until > step => sum(wrong)
      BY DEF MfaInv, GuessInv, Locked, Unlocked
    <3> HIDE DEF sum
    <3>2. /\ lockout.until = 0 => wrong' = lockout.failed /\ wrong' <= MaxAttempts - 1
          /\ lockout.until # 0 /\ ~(lockout.until > step') => wrong' = 0
          /\ lockout.until > step' => sum(wrong')
      BY <1>1, <2>1, <3>1, MfaAssumption
    <3> QED
      BY <2>1, <2>2, <3>2 DEF GuessInv, Locked, Unlocked, sum
  <2> QED
    BY <2>3, <2>4, <2>5 DEF MfaInv
<1> QED
  BY <1>3, <1>4, <1>6, <1>8, <1>9, <1>12, <1>13, <1>15, <1>16, <1>17, <1>18, <1>19, <1>20, <1>21,
     FailAgentStep, UseStep
     DEF MfaNext

\* However the requests about an agent interleave, a code counts once, one factor is
\* in force, and the lockout bounds the wrong codes that are looked at.
THEOREM SecondFactorsHold == Spec => []SecondFactorHolds
<1>1. Init => MfaInv
  BY MfaStart DEF Init
<1>2. MfaInv /\ [Next]_vars => MfaInv'
  BY MfaStepInv, StepOfPart
<1>3. MfaInv => SecondFactorHolds
  <2> SUFFICES ASSUME MfaInv PROVE OneActiveFactor /\ GuessesBounded
    BY DEF MfaInv, SecondFactorHolds
  <2>1. OneActiveFactor
    <3>1. CASE WithStatus("Active") = {}
      BY <3>1, FS_EmptySet DEF OneActiveFactor
    <3>2. ASSUME NEW f \in WithStatus("Active") PROVE OneActiveFactor
      <4>1. WithStatus("Active") = {f}
        BY DEF MfaInv, OneActive
      <4> QED
        BY <4>1, FS_Singleton DEF OneActiveFactor
    <3> QED
      BY <3>1, <3>2
  <2>2. GuessesBounded
    <3>1. IsFiniteSet(Clients) /\ Failing \subseteq Clients
      BY DEF MfaInv, MfaType, Failing
    <3>2. Cardinality(Clients) \in Nat /\ Cardinality(Failing) \in Nat
      BY <3>1, FS_Subset, FS_CardinalityType
    <3>3. wrong \in Nat /\ MaxAttempts \in Nat \ {0}
      BY MfaAssumption DEF MfaInv, MfaType
    <3>4. \/ wrong <= MaxAttempts - 1
          \/ wrong = 0
          \/ wrong + Cardinality(Failing) <= MaxAttempts - 1 + Cardinality(Clients)
      BY DEF MfaInv, GuessInv
    <3> QED
      BY <3>2, <3>3, <3>4 DEF GuessesBounded
  <2> QED
    BY <2>1, <2>2
<1> QED
  BY <1>1, <1>2, <1>3, PTL DEF Spec

------------------------------------------------------------------------------
(* Migration *)

\* One list after another.
LEMMA Joined ==
  ASSUME NEW S, NEW a \in Seq(S), NEW b \in Seq(S)
  PROVE  /\ a \o b \in Seq(S) /\ Len(a \o b) = Len(a) + Len(b)
         /\ DOMAIN (a \o b) = 1..(Len(a) + Len(b))
         /\ \A j \in 1..(Len(a) + Len(b)) :
              (a \o b)[j] = IF j <= Len(a) THEN a[j] ELSE b[j - Len(a)]
OBVIOUS

\* The rows after a deleted one move up.
LEMMA RemovedIs ==
  ASSUME NEW S, NEW s \in Seq(S), NEW i \in DOMAIN s
  PROVE  LET t == RemoveAt(s, i) IN
         /\ t \in Seq(S) /\ Len(t) = Len(s) - 1
         /\ \A j \in DOMAIN t : t[j] = s[IF j < i THEN j ELSE j + 1]
<1>1. i \in Nat /\ i >= 1 /\ i <= Len(s) /\ Len(s) \in Nat
  OBVIOUS
<1> DEFINE a == SubSeq(s, 1, i - 1)
           b == SubSeq(s, i + 1, Len(s))
<1>2. a \in Seq(S) /\ Len(a) = i - 1 /\ \A j \in 1..(i-1) : a[j] = s[j]
  BY <1>1
<1>3. b \in Seq(S) /\ Len(b) = Len(s) - i /\ \A j \in 1..(Len(s) - i) : b[j] = s[i + j]
  BY <1>1
<1>4. RemoveAt(s, i) = a \o b
  BY DEF RemoveAt
<1> HIDE DEF a, b
<1> DEFINE t == a \o b
<1>5. /\ t \in Seq(S) /\ Len(t) = Len(a) + Len(b) /\ DOMAIN t = 1..(Len(a) + Len(b))
      /\ \A j \in 1..(Len(a) + Len(b)) : t[j] = IF j <= Len(a) THEN a[j] ELSE b[j - Len(a)]
  <2>1. a \in Seq(S) /\ b \in Seq(S)
    BY <1>2, <1>3
  <2> QED
    BY <2>1, Joined, Zenon
<1> HIDE DEF t
<1>6. Len(a) + Len(b) = Len(s) - 1
  BY <1>1, <1>2, <1>3
<1>7. ASSUME NEW j \in 1..(Len(s) - 1)
      PROVE  t[j] = s[IF j < i THEN j ELSE j + 1]
  <2>1. t[j] = IF j <= i - 1 THEN a[j] ELSE b[j - (i - 1)]
    BY <1>2, <1>5, <1>6
  <2>2. CASE j < i
    <3>1. j \in 1..(i - 1) /\ j <= i - 1
      BY <1>1, <2>2
    <3> QED
      BY <1>2, <2>1, <2>2, <3>1
  <2>3. CASE ~(j < i)
    <3>1. /\ ~(j <= i - 1) /\ j - (i - 1) \in 1..(Len(s) - i)
          /\ i + (j - (i - 1)) = j + 1
      BY <1>1, <2>3
    <3>2. b[j - (i - 1)] = s[i + (j - (i - 1))]
      BY <1>3, <3>1
    <3> QED
      BY <2>1, <2>3, <3>1, <3>2
  <2> QED
    BY <2>2, <2>3
<1> QED
  BY <1>4, <1>5, <1>6, <1>7 DEF t

\* A chunk has the rows at its offsets.
LEMMA ChunkIs ==
  ASSUME NEW S, NEW s \in Seq(S), NEW o \in Nat, NEW n \in Nat
  PROVE LET c == SubSeq(s, o + 1, IF o + n < Len(s) THEN o + n ELSE Len(s)) IN
     /\ c \in Seq(S)
     /\ ToSet(c) \subseteq ToSet(s)
     /\ \A i \in DOMAIN s : o < i /\ i <= o + n => s[i] \in ToSet(c)
<1> DEFINE m == IF o + n < Len(s) THEN o + n ELSE Len(s)
           c == SubSeq(s, o + 1, m)
<1>1. m \in Nat /\ Len(s) \in Nat /\ m <= Len(s) /\ m <= o + n
  OBVIOUS
<1>2. c \in Seq(S)
  BY <1>1
<1>3. \A k \in DOMAIN c : o + k \in DOMAIN s /\ c[k] = s[o+k]
  BY <1>1
<1>4. \A k \in Nat : k >= 1 /\ o + k <= m => k \in DOMAIN c
  BY <1>1
<1>5. ASSUME NEW i \in DOMAIN s, o < i, i <= o + n PROVE s[i] \in ToSet(c)
  <2>1. i - o \in Nat /\ i - o >= 1 /\ o + (i - o) = i /\ i <= m
    BY <1>5
  <2>2. i - o \in DOMAIN c 
    BY <1>4, <2>1
  <2>3. c[i - o] = s[i]
    BY <1>3, <2>1, <2>2
  <2> QED
    BY <2>2, <2>3 DEF ToSet
<1> HIDE DEF c
<1>6. ToSet(c) \subseteq ToSet(s)
  BY <1>3 DEF ToSet
<1> QED
  BY <1>2, <1>5, <1>6 DEF c

\* What is read of two chunks.
LEMMA ConcatSet ==
  ASSUME NEW S, NEW s \in Seq(S), NEW t \in Seq(S)
  PROVE s \o t \in Seq(S) /\ ToSet(s \o t) = ToSet(s) \cup ToSet(t)
<1>0. s \o t \in Seq(S)
  OBVIOUS
<1>1. ToSet(s \o t) \subseteq ToSet(s) \cup ToSet(t)
  BY DEF ToSet
<1>2. ToSet(s) \subseteq ToSet(s \o t)
  BY DEF ToSet
<1>3. ASSUME NEW j \in DOMAIN t PROVE t[j] \in ToSet(s \o t)
  <2>1. Len(s) + j \in DOMAIN (s \o t) /\ (s \o t)[Len(s) + j] = t[j]
    OBVIOUS
  <2> QED
    BY <2>1 DEF ToSet
<1>4. ToSet(t) \subseteq ToSet(s \o t)
  BY <1>3 DEF ToSet
<1> QED
  BY <1>0, <1>1, <1>2, <1>4

Row == Nat \X Nat
RunRecord ==
  [at : {"idle", "table", "skip", "copy"}, resume : BOOLEAN, table : Nat \ {0}, count : Nat,
   offset : Nat, read : Seq(Row), clean : BOOLEAN, success : BOOLEAN]

\* Ids are unique, and smaller than those still to come.
IdsFit(rows, next) ==
  \A i, j \in DOMAIN rows : Id(rows[i]) < next /\ (Id(rows[i]) = Id(rows[j]) => i = j)

MigrationType ==
  /\ written \in Nat /\ run \in RunRecord
  /\ source \in [Tables -> Seq(Row)]
  /\ \A t \in Tables : IdsFit(source[t], written + NewIds)
  /\ target \in [Tables -> SUBSET Row]
  /\ stood \in [Tables -> SUBSET Row] /\ met \in [Tables -> SUBSET Row]

\* The target of a table came out right.
Good(t) == (t \notin shrunk => stood[t] \subseteq target[t]) /\ target[t] \subseteq met[t]

\* Of the rows that stood all the time those before the offset were read, and none is
\* beyond the count.
ReadFits(rows, still, r) ==
  \A i \in DOMAIN rows : rows[i] \in still =>
    i <= r.count /\ (i <= r.offset => rows[i] \in ToSet(r.read))

\* What an invocation under way has come to.
RunInv ==
  run.at # "idle" =>
    /\ \A t \in Tables : stood[t] \subseteq RowsOf(t) /\ RowsOf(t) \subseteq met[t]
    /\ report # "ok"
    /\ run.success => \A t \in Tables : t < run.table => Good(t)
    /\ run.at = "copy" =>
         /\ run.table \in Tables
         /\ ToSet(run.read) \subseteq met[run.table]
         /\ run.table \notin shrunk => ReadFits(source[run.table], stood[run.table], run)

MigrationInv == MigrationType /\ RunInv /\ MigrationHolds

\* The record of no invocation.
LEMMA IdleRunIs == IdleRun \in RunRecord /\ IdleRun.at = "idle"
<1>1. <<>> \in Seq(Row)
  OBVIOUS
<1> QED
  BY <1>1 DEF IdleRun, RunRecord

\* The target is empty before the first invocation.
LEMMA MigrationStart == MigrationInit => MigrationInv
<1> SUFFICES ASSUME MigrationInit PROVE MigrationInv
  OBVIOUS
<1>1. /\ source = Source /\ target = [t \in Tables |-> {}] /\ run = IdleRun
      /\ stood = [t \in Tables |-> {}] /\ met = stood /\ report = "none" /\ written = 0
  BY DEF MigrationInit
<1>2. source \in [Tables -> Seq(Row)]
  <2>1. Source \in Seq(Seq(Row))
    BY MigrationAssumption DEF Row
  <2> QED
    BY <1>1, <2>1 DEF Tables
<1>3. \A t \in Tables : IdsFit(source[t], written + NewIds)
  <2>1. written + NewIds = NewIds
    BY <1>1, MigrationAssumption
  <2> QED
    BY <1>1, <2>1, MigrationAssumption DEF IdsFit, Id
<1>4. target \in [Tables -> SUBSET Row] /\ stood \in [Tables -> SUBSET Row]
      /\ met \in [Tables -> SUBSET Row]
  BY <1>1
<1> QED
  BY <1>1, <1>2, <1>3, <1>4, IdleRunIs DEF MigrationInv, MigrationType, RunInv, MigrationHolds

\* The record when a table is done.
LEMMA RunToNext ==
  ASSUME NEW r \in RunRecord, NEW b \in BOOLEAN, NEW s,
         s = [r EXCEPT !.at = "table", !.table = r.table + 1, !.success = b]
  PROVE  s \in RunRecord /\ s.at = "table" /\ s.table = r.table + 1 /\ s.success = b
<1>1. r.table + 1 \in Nat \ {0}
  BY DEF RunRecord
<1>2. ASSUME NEW t \in Nat \ {0}
      PROVE  LET q == [r EXCEPT !.at = "table", !.table = t, !.success = b]
             IN  q \in RunRecord /\ q.at = "table" /\ q.table = t /\ q.success = b
  BY DEF RunRecord
<1> QED
  BY <1>1, <1>2

\* How a table is dealt with; the record when it is opened, and after a chunk.
Phases == {"skip", "copy"}
Opened(r, at, k) ==
  [r EXCEPT !.at = at, !.count = k, !.offset = 0, !.read = <<>>, !.clean = TRUE]
AfterChunk(r, k, rows, b) == [r EXCEPT !.offset = k, !.read = rows, !.clean = b]

\* An opened table is counted and nothing of it is read.
LEMMA RunToTable ==
  ASSUME NEW r \in RunRecord, NEW at \in Phases, NEW k \in Nat
  PROVE  /\ Opened(r, at, k) \in RunRecord /\ Opened(r, at, k).at = at
         /\ Opened(r, at, k).table = r.table /\ Opened(r, at, k).count = k
         /\ Opened(r, at, k).offset = 0 /\ Opened(r, at, k).read = <<>>
         /\ Opened(r, at, k).success = r.success
<1>1. <<>> \in Seq(Row)
  OBVIOUS
<1>2. ASSUME NEW e \in Seq(Row)
      PROVE  LET q == [r EXCEPT !.at = at, !.count = k, !.offset = 0, !.read = e, !.clean = TRUE]
             IN  /\ q \in RunRecord /\ q.at = at /\ q.table = r.table /\ q.count = k
                 /\ q.offset = 0 /\ q.read = e /\ q.success = r.success
  BY DEF RunRecord, Phases
<1> QED
  BY <1>1, <1>2 DEF Opened

\* A chunk moves the offset and what was read, and nothing else of note.
LEMMA RunToChunk ==
  ASSUME NEW r \in RunRecord, NEW k \in Nat, NEW e \in Seq(Row), NEW b \in BOOLEAN
  PROVE  /\ AfterChunk(r, k, e, b) \in RunRecord /\ AfterChunk(r, k, e, b).at = r.at
         /\ AfterChunk(r, k, e, b).table = r.table /\ AfterChunk(r, k, e, b).count = r.count
         /\ AfterChunk(r, k, e, b).offset = k /\ AfterChunk(r, k, e, b).read = e
         /\ AfterChunk(r, k, e, b).success = r.success
BY DEF RunRecord, AfterChunk

\* The gateway writes to a table: what stood there stands where it was, or the table
\* counts as shrunk.
LEMMA RewriteStep ==
  ASSUME MigrationInv, NEW t \in Tables, NEW rows \in Seq(Row), Rewrite(t, rows),
         IdsFit(rows, written + 1 + NewIds), shrunk \subseteq shrunk',
         \/ run.at = "idle" \/ t \in shrunk'
         \/ \A i \in DOMAIN rows : rows[i] \in stood[t] =>
              i \in DOMAIN source[t] /\ rows[i] = source[t][i]
  PROVE  MigrationInv'
<1>1. /\ written \in Nat /\ run \in RunRecord /\ source \in [Tables -> Seq(Row)]
      /\ target \in [Tables -> SUBSET Row]
      /\ stood \in [Tables -> SUBSET Row] /\ met \in [Tables -> SUBSET Row]
      /\ \A u \in Tables : IdsFit(source[u], written + NewIds)
  BY DEF MigrationInv, MigrationType
<1>2. /\ written' = written + 1 /\ source' = [source EXCEPT ![t] = rows]
      /\ UNCHANGED <<target, run, report>>
  BY DEF Rewrite
<1>3. /\ source' \in [Tables -> Seq(Row)] /\ source'[t] = rows
      /\ \A u \in Tables \ {t} : source'[u] = source[u]
  BY <1>1, <1>2
<1>4. ToSet(rows) \subseteq Row
  BY DEF ToSet
<1>5. /\ run.at = "idle" => stood' = stood /\ met' = met
      /\ run.at # "idle" =>
           /\ stood' = [stood EXCEPT ![t] = stood[t] \cap ToSet(rows)]
           /\ met' = [met EXCEPT ![t] = met[t] \cup ToSet(rows)]
  BY DEF Rewrite
<1>6. /\ stood' \in [Tables -> SUBSET Row] /\ met' \in [Tables -> SUBSET Row]
      /\ \A u \in Tables : stood'[u] \subseteq stood[u] /\ met[u] \subseteq met'[u]
  <2>1. CASE run.at = "idle"
    BY <1>1, <1>5, <2>1
  <2>2. CASE run.at # "idle"
    <3> DEFINE S == stood[t] \cap ToSet(rows)
               M == met[t] \cup ToSet(rows)
    <3>1. /\ S \subseteq Row /\ S \subseteq stood[t]
          /\ M \subseteq Row /\ met[t] \subseteq M
      BY <1>1, <1>4
    <3>2. stood' = [stood EXCEPT ![t] = S] /\ met' = [met EXCEPT ![t] = M]
      BY <1>5, <2>2
    <3> HIDE DEF S, M
    <3> QED
      BY <1>1, <3>1, <3>2
  <2> QED
    BY <2>1, <2>2
<1>7. \A u \in Tables : IdsFit(source'[u], written' + NewIds)
  <2>1. IdsFit(source'[t], written' + NewIds)
    BY <1>2, <1>3
  <2>2. ASSUME NEW u \in Tables \ {t} PROVE IdsFit(source[u], written + 1 + NewIds)
    <3>1. \A i \in DOMAIN source[u] : source[u][i] \in Row
      BY <1>1
    <3>2. \A i \in DOMAIN source[u] : Id(source[u][i]) \in Nat
      BY <3>1 DEF Row, Id
    <3>3. IdsFit(source[u], written + NewIds)
      BY <1>1
    <3> QED
      BY <1>1, <3>2, <3>3, MigrationAssumption DEF IdsFit
  <2> QED
    BY <1>2, <1>3, <2>1, <2>2
<1>8. MigrationType'
  BY <1>1, <1>2, <1>3, <1>6, <1>7 DEF MigrationType
<1>9. \A u \in Tables : Good(u) => Good(u)'
  BY <1>2, <1>6 DEF Good
<1>10. RunInv'
  <2> SUFFICES ASSUME run.at # "idle"
               PROVE  /\ \A u \in Tables : stood'[u] \subseteq RowsOf(u)' /\ RowsOf(u)' \subseteq met'[u]
                      /\ report # "ok"
                      /\ run.success => \A u \in Tables : u < run.table => Good(u)'
                      /\ run.at = "copy" =>
                           /\ run.table \in Tables
                           /\ ToSet(run.read) \subseteq met'[run.table]
                           /\ run.table \notin shrunk' =>
                                ReadFits(source'[run.table], stood'[run.table], run)
    BY <1>2 DEF RunInv
  <2>1. /\ \A u \in Tables : stood[u] \subseteq RowsOf(u) /\ RowsOf(u) \subseteq met[u]
        /\ report # "ok"
        /\ run.success => \A u \in Tables : u < run.table => Good(u)
    BY DEF MigrationInv, RunInv
  <2>2. /\ stood'[t] = stood[t] \cap ToSet(rows) /\ met'[t] = met[t] \cup ToSet(rows)
        /\ \A u \in Tables \ {t} : stood'[u] = stood[u] /\ met'[u] = met[u]
    BY <1>1, <1>5
  <2>3. RowsOf(t)' = ToSet(rows) /\ \A u \in Tables \ {t} : RowsOf(u)' = RowsOf(u)
    BY <1>3 DEF RowsOf
  <2>4. \A u \in Tables : stood'[u] \subseteq RowsOf(u)' /\ RowsOf(u)' \subseteq met'[u]
    BY <2>1, <2>2, <2>3
  <2>5. ASSUME run.at = "copy"
        PROVE  /\ run.table \in Tables
               /\ ToSet(run.read) \subseteq met'[run.table]
               /\ run.table \notin shrunk' =>
                    ReadFits(source'[run.table], stood'[run.table], run)
    <3>1. /\ run.table \in Tables
          /\ ToSet(run.read) \subseteq met[run.table]
          /\ run.table \notin shrunk => ReadFits(source[run.table], stood[run.table], run)
      BY <2>5 DEF MigrationInv, RunInv
    <3>2. ASSUME run.table \notin shrunk'
          PROVE  ReadFits(source'[run.table], stood'[run.table], run)
      <4>1. ReadFits(source[run.table], stood[run.table], run)
        BY <3>1, <3>2
      <4>2. CASE run.table # t
        BY <1>3, <2>2, <3>1, <4>1, <4>2
      <4>3. CASE run.table = t
        <5>1. \A i \in DOMAIN rows : rows[i] \in stood[t] =>
                i \in DOMAIN source[t] /\ rows[i] = source[t][i]
          BY <3>2, <4>3
        <5>2. ReadFits(source[t], stood[t], run)
          BY <4>1, <4>3
        <5>3. ReadFits(rows, stood'[t], run)
          BY <1>6, <5>1, <5>2 DEF ReadFits
        <5> QED
          BY <1>3, <4>3, <5>3
      <4> QED
        BY <4>2, <4>3
    <3> QED
      BY <1>6, <3>1, <3>2
  <2> QED
    BY <1>9, <2>1, <2>4, <2>5
<1>11. MigrationHolds'
  <2> SUFFICES ASSUME report = "ok", NEW u \in Tables PROVE Good(u)'
    BY <1>2 DEF MigrationHolds, Good
  <2>1. Good(u)
    BY DEF MigrationInv, MigrationHolds, Good
  <2> QED
    BY <1>9, <2>1
<1> QED
  BY <1>8, <1>10, <1>11 DEF MigrationInv

\* Every write of the gateway.
LEMMA SourceWriteStep ==
  ASSUME MigrationInv, NEW t \in Tables, SourceWrite(t)
  PROVE  MigrationInv'
<1> DEFINE rows == source[t]
<1>1. /\ written \in Nat /\ rows \in Seq(Row) /\ IdsFit(rows, written + NewIds)
      /\ stood[t] \subseteq Row
  BY DEF MigrationInv, MigrationType
<1>2. run.at # "idle" => stood[t] \subseteq ToSet(rows)
  BY DEF MigrationInv, RunInv, RowsOf
<1> DEFINE next == written + NewIds
<1>3. next \in Nat /\ written + 1 + NewIds = next + 1 /\ Len(rows) \in Nat
  BY <1>1, MigrationAssumption
<1>4. \A i \in DOMAIN rows : rows[i] \in Row
  BY <1>1
<1>5. \A i \in DOMAIN rows : Id(rows[i]) \in Nat /\ Id(rows[i]) < next
  BY <1>1, <1>4 DEF Row, Id, IdsFit
<1>6. \A i, j \in DOMAIN rows : Id(rows[i]) = Id(rows[j]) => i = j
  BY <1>1 DEF IdsFit
<1>7. SourceWrite(t) <=>
        \/ Rewrite(t, Append(rows, <<next, 0>>)) /\ shrunk' = shrunk
        \/ /\ \E i \in DOMAIN rows : Rewrite(t, [rows EXCEPT ![i][2] = rows[i][2] + 1])
           /\ shrunk' = shrunk
        \/ /\ t \in Deletable
           /\ \E i \in DOMAIN rows : Rewrite(t, RemoveAt(rows, i))
           /\ shrunk' = IF run.at = "idle" THEN shrunk ELSE shrunk \cup {t}
  BY DEF SourceWrite
<1> HIDE DEF next, rows
<1>8. CASE Rewrite(t, Append(rows, <<next, 0>>)) /\ shrunk' = shrunk
  <2> DEFINE new == Append(rows, <<next, 0>>)
             n == Len(rows) + 1
  <2>1. <<next, 0>> \in Row /\ Id(<<next, 0>>) = next
    BY <1>3 DEF Row, Id
  <2>2. /\ new \in Seq(Row) /\ DOMAIN new = DOMAIN rows \cup {n}
        /\ new[n] = <<next, 0>> /\ \A i \in DOMAIN rows : new[i] = rows[i]
    BY <1>1, <2>1
  <2> HIDE DEF new, n
  <2>3. IdsFit(new, next + 1)
    <3>1. \A i \in DOMAIN new : \/ Id(new[i]) = next /\ i = n
                                \/ i \in DOMAIN rows /\ new[i] = rows[i]
      <4> SUFFICES ASSUME NEW i \in DOMAIN new
                   PROVE  \/ Id(new[i]) = next /\ i = n
                          \/ i \in DOMAIN rows /\ new[i] = rows[i]
        OBVIOUS
      <4>1. Id(new[n]) = next
        BY <2>1, <2>2
      <4>2. i = n \/ i \in DOMAIN rows
        BY <2>2
      <4> QED
        BY <2>2, <4>1, <4>2
    <3>2. \A i \in DOMAIN new : Id(new[i]) < next + 1
      BY <1>3, <1>5, <3>1
    <3>3. \A i, j \in DOMAIN new : Id(new[i]) = Id(new[j]) => i = j
      BY <1>3, <1>5, <1>6, <3>1
    <3> QED
      BY <3>2, <3>3 DEF IdsFit
  <2>4. run.at # "idle" => \A i \in DOMAIN new : new[i] \in stood[t] =>
                             i \in DOMAIN rows /\ new[i] = rows[i]
    <3> SUFFICES ASSUME run.at # "idle", new[n] \in stood[t] PROVE FALSE
      BY <2>2
    <3>1. new[n] \in ToSet(rows)
      BY <1>2
    <3>2. PICK k \in DOMAIN rows : rows[k] = <<next, 0>>
      BY <2>2, <3>1 DEF ToSet
    <3>3. Id(rows[k]) = next /\ Id(rows[k]) < next
      BY <1>5, <2>1, <3>2
    <3> QED
      BY <1>3, <3>3
  <2> QED
    BY <1>3, <1>8, <2>2, <2>3, <2>4, RewriteStep DEF new, rows
<1>9. ASSUME NEW i \in DOMAIN rows, Rewrite(t, [rows EXCEPT ![i][2] = rows[i][2] + 1]),
             shrunk' = shrunk
      PROVE  MigrationInv'
  <2> DEFINE new == [rows EXCEPT ![i][2] = rows[i][2] + 1]
  <2>1. PICK a \in Nat, b \in Nat : rows[i] = <<a, b>>
    BY <1>4 DEF Row
  <2>2. /\ [rows[i] EXCEPT ![2] = rows[i][2] + 1] = <<a, b + 1>>
        /\ <<a, b + 1>> \in Row /\ <<a, b + 1>> # rows[i] /\ Id(<<a, b + 1>>) = Id(rows[i])
    BY <2>1 DEF Row, Id
  <2>3. /\ new \in Seq(Row) /\ DOMAIN new = DOMAIN rows /\ new[i] = <<a, b + 1>>
        /\ \A j \in DOMAIN rows \ {i} : new[j] = rows[j]
    <3>1. new = [rows EXCEPT ![i] = <<a, b + 1>>]
      BY <2>2
    <3> HIDE DEF new
    <3> QED
      BY <1>1, <2>2, <3>1
  <2>4. Rewrite(t, new)
    BY <1>9
  <2> HIDE DEF new
  <2>5. \A j \in DOMAIN new : Id(new[j]) = Id(rows[j])
    BY <2>2, <2>3
  <2>6. IdsFit(new, next + 1)
    BY <1>3, <1>5, <1>6, <2>3, <2>5 DEF IdsFit
  <2>7. run.at # "idle" => \A j \in DOMAIN new : new[j] \in stood[t] =>
                             j \in DOMAIN rows /\ new[j] = rows[j]
    <3> SUFFICES ASSUME run.at # "idle", new[i] \in stood[t] PROVE FALSE
      BY <2>3
    <3>1. new[i] \in ToSet(rows)
      BY <1>2
    <3>2. PICK k \in DOMAIN rows : rows[k] = <<a, b + 1>>
      BY <2>3, <3>1 DEF ToSet
    <3>3. k = i
      BY <1>6, <2>2, <3>2
    <3> QED
      BY <2>2, <3>2, <3>3
  <2> QED
    BY <1>3, <1>9, <2>3, <2>4, <2>6, <2>7, RewriteStep DEF rows
<1>10. ASSUME NEW i \in DOMAIN rows, Rewrite(t, RemoveAt(rows, i)),
              shrunk' = IF run.at = "idle" THEN shrunk ELSE shrunk \cup {t}
       PROVE  MigrationInv'
  <2> DEFINE new == RemoveAt(rows, i)
             was(j) == IF j < i THEN j ELSE j + 1
  <2>1. /\ new \in Seq(Row) /\ Len(new) = Len(rows) - 1
        /\ \A j \in DOMAIN new : new[j] = rows[was(j)]
    BY <1>1, RemovedIs
  <2>2. DOMAIN new = 1..(Len(rows) - 1) /\ DOMAIN rows = 1..Len(rows)
    <3>1. \A s \in Seq(Row) : DOMAIN s = 1..Len(s)
      OBVIOUS
    <3> QED
      BY <1>1, <2>1, <3>1
  <2>3. /\ \A j \in DOMAIN new : was(j) \in DOMAIN rows
        /\ \A j, k \in DOMAIN new : was(j) = was(k) => j = k
    BY <1>3, <2>2
  <2>4. Rewrite(t, new)
    BY <1>10
  <2> HIDE DEF new, was
  <2>5. IdsFit(new, next + 1)
    <3>1. \A j \in DOMAIN new : Id(new[j]) = Id(rows[was(j)]) /\ was(j) \in DOMAIN rows
      BY <2>1, <2>3
    <3>2. \A j \in DOMAIN new : Id(new[j]) < next + 1
      BY <1>3, <1>5, <3>1
    <3>3. \A j, k \in DOMAIN new : Id(new[j]) = Id(new[k]) => j = k
      BY <1>6, <2>3, <3>1
    <3> QED
      BY <3>2, <3>3 DEF IdsFit
  <2>6. shrunk \subseteq shrunk' /\ (run.at = "idle" \/ t \in shrunk')
    BY <1>10
  <2> QED
    BY <1>3, <2>1, <2>4, <2>5, <2>6, RewriteStep
<1> QED
  BY <1>7, <1>8, <1>9, <1>10

\* A table is done; when that counts as success its target came out right.
LEMMA NextTableStep ==
  ASSUME MigrationInv, run.at # "idle", NEW b \in BOOLEAN, NextTable(b),
         UNCHANGED <<source, target, report, stood, met, shrunk, written>>,
         b /\ run.table \in Tables => Good(run.table)
  PROVE  MigrationInv'
<1>1. run \in RunRecord
  BY DEF MigrationInv, MigrationType
<1>2. /\ run' \in RunRecord /\ run'.at = "table" /\ run'.table = run.table + 1
      /\ run'.success => run.success /\ b
  <2>1. run' = [run EXCEPT !.at = "table", !.table = run.table + 1, !.success = run.success /\ b]
    BY DEF NextTable
  <2> DEFINE c == run.success /\ b
  <2>2. run' = [run EXCEPT !.at = "table", !.table = run.table + 1, !.success = c] /\ c \in BOOLEAN
    BY <2>1
  <2>3. c => run.success /\ b
    OBVIOUS
  <2> HIDE DEF c
  <2>4. /\ run' \in RunRecord /\ run'.at = "table" /\ run'.table = run.table + 1
        /\ run'.success = c
    BY <1>1, <2>2, RunToNext
  <2> QED
    BY <2>3, <2>4
<1>3. MigrationType'
  BY <1>2 DEF MigrationInv, MigrationType
<1>4. MigrationHolds'
  BY DEF MigrationInv, MigrationHolds
<1>5. \A t \in Tables : (Good(t)' <=> Good(t)) /\ RowsOf(t)' = RowsOf(t)
  BY DEF Good, RowsOf
<1>6. ASSUME run'.success, NEW t \in Tables, t < run'.table PROVE Good(t)
  <2>1. t \in Nat /\ run.table \in Nat
    BY <1>1, MigrationAssumption DEF RunRecord, Tables
  <2>2. t < run.table \/ t = run.table
    BY <1>2, <1>6, <2>1
  <2> QED
    BY <1>2, <1>6, <2>2 DEF MigrationInv, RunInv
<1>7. RunInv'
  BY <1>2, <1>5, <1>6 DEF MigrationInv, RunInv
<1> QED
  BY <1>3, <1>4, <1>7 DEF MigrationInv

\* The target gains rows of the table under way, and nothing else happens to it.
LEMMA TargetGains ==
  ASSUME MigrationType, NEW t \in Tables, NEW rows \in SUBSET Row,
         target' = [target EXCEPT ![t] = Inserted(t, rows)]
  PROVE  /\ target' \in [Tables -> SUBSET Row]
         /\ \A u \in Tables \ {t} : target'[u] = target[u]
<1>1. Inserted(t, rows) \subseteq Row
  BY DEF Inserted, MigrationType
<1> QED
  BY <1>1 DEF MigrationType

\* A chunk is copied: its rows were in the source, and the rows that stood all the time
\* are read as far as the offset goes.
LEMMA CopyChunkStep ==
  ASSUME MigrationInv, CopyChunk
  PROVE  MigrationInv'
<1> DEFINE t == run.table
           rows == ToSet(Chunk(t))
<1>1. PICK refused \in SUBSET rows :
        /\ target' = [target EXCEPT ![t] = Inserted(t, rows \ refused)]
        /\ run' = [run EXCEPT !.offset = run.offset + ChunkSize, !.read = run.read \o Chunk(t),
                              !.clean = run.clean /\ refused = {} /\ ~Conflicts(t, rows)]
  BY DEF CopyChunk
<1>2. run.at = "copy" /\ UNCHANGED <<source, report, stood, met, shrunk, written>>
  BY DEF CopyChunk
<1>3. /\ run \in RunRecord /\ source \in [Tables -> Seq(Row)] /\ ChunkSize \in Nat
      /\ t \in Tables /\ ToSet(run.read) \subseteq met[t]
      /\ t \notin shrunk => ReadFits(source[t], stood[t], run)
      /\ \A u \in Tables : stood[u] \subseteq RowsOf(u) /\ RowsOf(u) \subseteq met[u]
      /\ report # "ok" /\ (run.success => \A u \in Tables : u < run.table => Good(u))
  BY <1>2, MigrationAssumption DEF MigrationInv, MigrationType, RunInv
<1>4. run.offset \in Nat /\ run.read \in Seq(Row) /\ source[t] \in Seq(Row) /\ run.table \in Nat
  BY <1>3 DEF RunRecord
<1>5. /\ Chunk(t) \in Seq(Row) /\ rows \subseteq RowsOf(t)
      /\ \A i \in DOMAIN source[t] : run.offset < i /\ i <= run.offset + ChunkSize =>
           source[t][i] \in rows
  BY <1>3, <1>4, ChunkIs DEF Chunk, RowsOf
<1>6. /\ run.read \o Chunk(t) \in Seq(Row)
      /\ ToSet(run.read \o Chunk(t)) = ToSet(run.read) \cup rows
  BY <1>4, <1>5, ConcatSet
<1>7. /\ run' \in RunRecord /\ run'.at = run.at /\ run'.table = run.table
      /\ run'.count = run.count /\ run'.offset = run.offset + ChunkSize
      /\ run'.read = run.read \o Chunk(t) /\ run'.success = run.success
  <2> DEFINE b == run.clean /\ refused = {} /\ ~Conflicts(t, rows)
             k == run.offset + ChunkSize
             e == run.read \o Chunk(t)
  <2>1. k \in Nat /\ e \in Seq(Row) /\ b \in BOOLEAN
    BY <1>3, <1>4, <1>6
  <2>2. run' = AfterChunk(run, k, e, b)
    BY <1>1 DEF AfterChunk
  <2> HIDE DEF b, k, e
  <2>3. /\ run' \in RunRecord /\ run'.at = run.at /\ run'.table = run.table
        /\ run'.count = run.count /\ run'.offset = k /\ run'.read = e
        /\ run'.success = run.success
    BY <1>3, <2>1, <2>2, RunToChunk
  <2> QED
    BY <2>3 DEF k, e
<1>8. rows \ refused \subseteq Row
  <2>1. rows \subseteq Row
    BY <1>5 DEF ToSet
  <2> QED
    BY <2>1
<1>9. /\ target' \in [Tables -> SUBSET Row]
      /\ \A u \in Tables \ {t} : target'[u] = target[u]
  BY <1>1, <1>3, <1>8, TargetGains DEF MigrationInv
<1>10. MigrationType'
  BY <1>2, <1>7, <1>9 DEF MigrationInv, MigrationType
<1>11. ASSUME run.success, NEW u \in Tables, u < run.table PROVE Good(u)'
  <2>1. Good(u)
    BY <1>3, <1>11
  <2>2. u \in Nat
    BY MigrationAssumption DEF Tables
  <2>3. u # t
    BY <1>4, <1>11, <2>2
  <2>4. target'[u] = target[u]
    BY <1>9, <2>3
  <2> QED
    BY <1>2, <2>1, <2>4 DEF Good
<1>12. t \notin shrunk => ReadFits(source[t], stood[t], run')
  <2> SUFFICES ASSUME t \notin shrunk, NEW i \in DOMAIN source[t], source[t][i] \in stood[t]
               PROVE  /\ i <= run.count
                      /\ i <= run.offset + ChunkSize => source[t][i] \in ToSet(run.read) \cup rows
    BY <1>6, <1>7 DEF ReadFits
  <2>1. i <= run.count /\ (i <= run.offset => source[t][i] \in ToSet(run.read))
    BY <1>3 DEF ReadFits
  <2>2. i \in Nat
    BY <1>4
  <2> QED
    BY <1>4, <1>5, <2>1, <2>2
<1>13. RunInv'
  <2>1. \A u \in Tables : RowsOf(u)' = RowsOf(u)
    BY <1>2 DEF RowsOf
  <2>2. ToSet(run'.read) \subseteq met[t]
    BY <1>3, <1>5, <1>6, <1>7
  <2>3. run'.table = t /\ t \in Tables
    BY <1>3, <1>7
  <2> HIDE DEF t, rows
  <2> QED
    BY <1>2, <1>3, <1>7, <1>11, <1>12, <2>1, <2>2, <2>3 DEF RunInv
<1>14. MigrationHolds'
  BY <1>2, <1>3 DEF MigrationHolds
<1> QED
  BY <1>10, <1>13, <1>14 DEF MigrationInv

\* A table whose target matches what was read came out right.
LEMMA FinishTableStep ==
  ASSUME MigrationInv, FinishTable
  PROVE  MigrationInv'
<1> DEFINE t == run.table
<1>1. /\ run.at = "copy" /\ run.offset >= run.count
      /\ UNCHANGED <<source, target, report, stood, met, shrunk, written>>
  BY DEF FinishTable
<1>2. NextTable(FALSE) \/ (Matches(t) /\ NextTable(TRUE))
  BY DEF FinishTable
<1>3. /\ t \in Tables /\ ToSet(run.read) \subseteq met[t] /\ run \in RunRecord
      /\ t \notin shrunk => ReadFits(source[t], stood[t], run)
      /\ stood[t] \subseteq RowsOf(t) /\ source[t] \in Seq(Row)
  BY <1>1 DEF MigrationInv, MigrationType, RunInv
<1>4. ASSUME Matches(t) PROVE Good(t)
  <2>1. ToSet(run.read) = target[t]
    BY <1>4 DEF Matches
  <2>2. ASSUME t \notin shrunk, NEW r \in stood[t] PROVE r \in target[t]
    <3>1. PICK i \in DOMAIN source[t] : source[t][i] = r
      BY <1>3 DEF RowsOf, ToSet
    <3>2. i <= run.count /\ (i <= run.offset => r \in ToSet(run.read))
      BY <1>3, <2>2, <3>1 DEF ReadFits
    <3>3. i \in Nat /\ run.count \in Nat /\ run.offset \in Nat
      BY <1>3 DEF RunRecord
    <3>4. i <= run.offset
      BY <1>1, <3>2, <3>3
    <3> QED
      BY <2>1, <3>2, <3>4
  <2> QED
    BY <1>3, <2>1, <2>2 DEF Good
<1> HIDE DEF t
<1>5. CASE NextTable(FALSE)
  BY <1>1, <1>5, NextTableStep
<1>6. CASE Matches(t) /\ NextTable(TRUE)
  BY <1>1, <1>4, <1>6, NextTableStep DEF t
<1> QED
  BY <1>2, <1>5, <1>6

\* Steps preserve what is known of the migration.
LEMMA MigrationStepInv ==
  ASSUME MigrationInv, MigrationNext \/ UNCHANGED migrationVars
  PROVE  MigrationInv'
<1>1. /\ written \in Nat /\ run \in RunRecord /\ source \in [Tables -> Seq(Row)]
      /\ target \in [Tables -> SUBSET Row]
      /\ stood \in [Tables -> SUBSET Row] /\ met \in [Tables -> SUBSET Row]
      /\ \A u \in Tables : IdsFit(source[u], written + NewIds)
  BY DEF MigrationInv, MigrationType
<1>2. \A u \in Tables : RowsOf(u) \subseteq Row
  BY <1>1 DEF RowsOf, ToSet
<1>3. CASE UNCHANGED migrationVars
  BY <1>3 DEF migrationVars, MigrationInv, MigrationType, RunInv, MigrationHolds, Good, RowsOf
<1>4. ASSUME NEW resume \in BOOLEAN, BeginMigration(resume) PROVE MigrationInv'
  <2>1. /\ run.at = "idle" /\ stood' = [u \in Tables |-> RowsOf(u)] /\ met' = stood'
        /\ UNCHANGED <<source, target, written>>
    BY <1>4 DEF BeginMigration
  <2>2. \/ run' = [IdleRun EXCEPT !.at = "table", !.resume = resume] /\ report' = "none"
        \/ run' = run /\ report' = "failed"
    BY <1>4 DEF BeginMigration
  <2>3. report' # "ok" /\ run' \in RunRecord /\ (run'.at = "idle" \/ (run'.at = "table" /\ run'.table = 1))
    <3>1. CASE run' = [IdleRun EXCEPT !.at = "table", !.resume = resume] /\ report' = "none"
      <4>1. <<>> \in Seq(Row)
        OBVIOUS
      <4>2. run' = [at |-> "table", resume |-> resume, table |-> 1, count |-> 0, offset |-> 0,
                    read |-> <<>>, clean |-> TRUE, success |-> TRUE]
        BY <3>1 DEF IdleRun
      <4>3. ASSUME NEW e \in Seq(Row)
            PROVE  LET q == [at |-> "table", resume |-> resume, table |-> 1, count |-> 0,
                             offset |-> 0, read |-> e, clean |-> TRUE, success |-> TRUE]
                   IN  q \in RunRecord /\ q.at = "table" /\ q.table = 1
        BY DEF RunRecord
      <4>4. run' \in RunRecord /\ run'.at = "table" /\ run'.table = 1
        BY <4>1, <4>2, <4>3
      <4> QED
        BY <3>1, <4>4
    <3>2. CASE run' = run /\ report' = "failed"
      BY <1>1, <2>1, <3>2
    <3> QED
      BY <2>2, <3>1, <3>2
  <2>4. MigrationType'
    BY <1>1, <1>2, <2>1, <2>3 DEF MigrationType
  <2>5. RunInv'
    <3>1. \A u \in Tables : RowsOf(u)' = RowsOf(u) /\ stood'[u] = RowsOf(u) /\ met'[u] = RowsOf(u)
      BY <2>1 DEF RowsOf
    <3>2. \A u \in Tables : u \in Nat \ {0}
      BY MigrationAssumption DEF Tables
    <3>3. \A u \in Tables : ~(u < 1)
      BY <3>2
    <3> QED
      BY <2>3, <3>1, <3>3 DEF RunInv
  <2>6. MigrationHolds'
    BY <2>3 DEF MigrationHolds
  <2> QED
    BY <2>4, <2>5, <2>6 DEF MigrationInv
<1>5. CASE OpenTable
  <2> DEFINE t == run.table
             n == Len(source[t])
             phase == IF CheckpointAction(t, n) = "Skip" THEN "skip" ELSE "copy"
  <2>1. /\ run.at = "table" /\ t \in Tables
        /\ run' = [run EXCEPT !.at = phase, !.count = n, !.offset = 0, !.read = <<>>, !.clean = TRUE]
        /\ UNCHANGED <<source, target, report, stood, met, shrunk, written>>
    BY <1>5 DEF OpenTable
  <2>2. n \in Nat /\ phase \in {"skip", "copy"}
    BY <1>1, <2>1
  <2> HIDE DEF phase
  <2>3. /\ run' \in RunRecord /\ run'.at = phase /\ run'.table = t /\ run'.count = n
        /\ run'.offset = 0 /\ run'.read = <<>> /\ run'.success = run.success
    <3>1. run \in RunRecord /\ n \in Nat /\ phase \in Phases
      BY <1>1, <2>2 DEF Phases
    <3>2. run' = Opened(run, phase, n)
      BY <2>1 DEF Opened
    <3> HIDE DEF n
    <3> DEFINE o == Opened(run, phase, n)
    <3>3. /\ o \in RunRecord /\ o.at = phase /\ o.table = run.table /\ o.count = n
          /\ o.offset = 0 /\ o.read = <<>> /\ o.success = run.success
      BY <3>1, RunToTable
    <3> HIDE DEF o
    <3>4. run' = o
      BY <3>2, Zenon DEF o
    <3> QED
      BY <3>3, <3>4, Zenon
  <2>4. MigrationType'
    BY <2>1, <2>3 DEF MigrationInv, MigrationType
  <2>5. MigrationHolds'
    BY <2>1 DEF MigrationInv, MigrationHolds
  <2>6. \A u \in Tables : (Good(u)' <=> Good(u)) /\ RowsOf(u)' = RowsOf(u)
    BY <2>1 DEF Good, RowsOf
  <2>7. ReadFits(source[t], stood[t], run')
    <3>1. \A i \in DOMAIN source[t] : i \in Nat /\ i <= n /\ ~(i <= 0)
      BY <1>1, <2>1
    <3> QED
      BY <2>3, <3>1 DEF ReadFits
  <2>8. ToSet(run'.read) = {}
    BY <2>3 DEF ToSet
  <2> HIDE DEF t, n
  <2>9. RunInv'
    <3>1. run'.table = run.table /\ run.table \in Tables
      BY <2>1, <2>3 DEF t
    <3>2. ReadFits(source[run.table], stood[run.table], run')
      BY <2>7 DEF t
    <3> QED
      BY <2>1, <2>2, <2>3, <2>6, <2>8, <3>1, <3>2 DEF MigrationInv, RunInv
  <2> QED
    BY <2>4, <2>5, <2>9 DEF MigrationInv
<1>6. CASE SkipTable
  <2> DEFINE t == run.table
             b == Cardinality(target[t]) = run.count /\ RowsOf(t) = target[t]
  <2>1. /\ run.at = "skip" /\ NextTable(b) /\ b \in BOOLEAN
        /\ UNCHANGED <<source, target, report, stood, met, shrunk, written>>
    BY <1>6 DEF SkipTable
  <2>2. ASSUME b, t \in Tables PROVE Good(t)
    BY <2>1, <2>2 DEF MigrationInv, RunInv, Good
  <2> HIDE DEF b
  <2> QED
    BY <2>1, <2>2, NextTableStep
<1>7. CASE FailTable
  BY <1>7, NextTableStep DEF FailTable
<1>8. CASE Finish
  <2>1. /\ run.at = "table" /\ run.table \notin Tables /\ run' = IdleRun
        /\ report' = "ok" => run.success
        /\ UNCHANGED <<source, target, stood, met, shrunk, written>>
    BY <1>8 DEF Finish
  <2>2. MigrationType'
    BY <2>1, IdleRunIs DEF MigrationInv, MigrationType
  <2>3. RunInv'
    BY <2>1, IdleRunIs DEF RunInv
  <2>4. \A u \in Tables : u < run.table
    <3>1. Tables = 1..Len(Source) /\ Len(Source) \in Nat /\ run.table \in Nat \ {0}
      BY <1>1, MigrationAssumption DEF Tables, RunRecord
    <3> QED
      BY <2>1, <3>1
  <2>5. run.success => \A u \in Tables : Good(u)
    BY <2>1, <2>4 DEF MigrationInv, RunInv
  <2>6. MigrationHolds'
    BY <2>1, <2>5 DEF MigrationHolds, Good
  <2> QED
    BY <2>2, <2>3, <2>6 DEF MigrationInv
<1>9. CASE StopMigration
  <2>1. /\ run.at # "idle" /\ run' = IdleRun
        /\ UNCHANGED <<source, report, stood, met, shrunk, written>>
    BY <1>9 DEF StopMigration
  <2>2. target' \in [Tables -> SUBSET Row]
    <3>1. PICK some \in SUBSET (IF run.at = "copy" THEN ToSet(Chunk(run.table)) ELSE {}) :
            target' = IF some = {} THEN target
                      ELSE [target EXCEPT ![run.table] = Inserted(run.table, some)]
      BY <1>9 DEF StopMigration
    <3>2. CASE some = {}
      BY <1>1, <3>1, <3>2
    <3>3. CASE some # {}
      <4>1. run.at = "copy" /\ some \subseteq ToSet(Chunk(run.table))
        BY <3>1, <3>3
      <4>2. run.table \in Tables
        BY <4>1 DEF MigrationInv, RunInv
      <4>3. source[run.table] \in Seq(Row) /\ run.offset \in Nat /\ ChunkSize \in Nat
        BY <1>1, <4>2, MigrationAssumption DEF RunRecord
      <4>4. Chunk(run.table) \in Seq(Row)
        BY <4>3, ChunkIs DEF Chunk
      <4>5. some \subseteq Row
        BY <4>1, <4>4 DEF ToSet
      <4> QED
        BY <3>1, <3>3, <4>2, <4>5, TargetGains DEF MigrationInv
    <3> QED
      BY <3>2, <3>3
  <2>3. MigrationType'
    BY <2>1, <2>2, IdleRunIs DEF MigrationInv, MigrationType
  <2>4. RunInv'
    BY <2>1, IdleRunIs DEF RunInv
  <2>5. MigrationHolds'
    BY <2>1 DEF MigrationInv, RunInv, MigrationHolds
  <2> QED
    BY <2>3, <2>4, <2>5 DEF MigrationInv
<1>10. CASE EmptyTarget
  <2>1. /\ run.at = "idle" /\ report # "ok" /\ target' = [u \in Tables |-> {}]
        /\ UNCHANGED <<source, run, report, stood, met, shrunk, written>>
    BY <1>10 DEF EmptyTarget
  <2>2. MigrationType'
    BY <2>1 DEF MigrationInv, MigrationType
  <2>3. RunInv' /\ MigrationHolds'
    BY <2>1 DEF RunInv, MigrationHolds
  <2> QED
    BY <2>2, <2>3 DEF MigrationInv
<1> QED
  BY <1>3, <1>4, <1>5, <1>6, <1>7, <1>8, <1>9, <1>10, CopyChunkStep, FinishTableStep,
     SourceWriteStep
     DEF MigrationNext

\* A migration that reports success left nothing out and nothing stale, whatever the
\* gateway wrote meanwhile and however often the tool was stopped and resumed; only
\* of a table that lost rows may the target lack one.
THEOREM MigrationIsSound == Spec => []MigrationHolds
<1>1. Init => MigrationInv
  BY MigrationStart DEF Init
<1>2. MigrationInv /\ [Next]_vars => MigrationInv'
  BY MigrationStepInv, StepOfPart
<1>3. MigrationInv => MigrationHolds
  BY DEF MigrationInv
<1> QED
  BY <1>1, <1>2, <1>3, PTL DEF Spec
==============================================================================
