------------------------------ MODULE ControlPlane ------------------------------
(***************************************************************************)
(* The parts around the governed path, side by side: second factors,       *)
(* credentials, replay protection of agent requests, policies, sessions    *)
(* and limits, which decide who may do what, and the migration of the      *)
(* store.                                                                  *)
(*                                                                         *)
(* They share no state: a behaviour of the whole is an interleaving of     *)
(* behaviours of the parts, and a property of one part holds of the whole  *)
(* if it holds while the others stand still.  A behaviour here therefore   *)
(* moves one part, chosen at the start.                                    *)
(***************************************************************************)
EXTENDS Mfa, Access, AgentAuth, Pdp, PolicyBundles, McpSession, Limits,
        Migration

VARIABLE part

vars == <<part, mfaVars, accessVars, authVars, answer, policyVars, mcpVars, limitVars, migrationVars>>

Init ==
  /\ part \in {"mfa", "access", "auth", "pdp", "policy", "mcp", "throttle", "profiler",
             "migration"}
  /\ MfaInit /\ AccessInit /\ AuthInit /\ PdpInit /\ PolicyInit /\ McpInit /\ LimitsInit
  /\ MigrationInit
  /\ part # "mfa" => callers = CHOOSE c \in Callers : TRUE
  /\ part # "throttle" => burst = CHOOSE b \in Bursts : TRUE
  /\ part # "auth" => stamp = [n \in Signed |-> 0] /\ nonceTtl = CHOOSE t \in NonceTtls : TRUE

MfaStep == part = "mfa" /\ MfaNext
  /\ UNCHANGED <<accessVars, authVars, answer, policyVars, mcpVars, limitVars, migrationVars>>
AccessStep == part = "access" /\ AccessNext
  /\ UNCHANGED <<mfaVars, authVars, answer, policyVars, mcpVars, limitVars, migrationVars>>
AuthStep == part = "auth" /\ AuthNext
  /\ UNCHANGED <<mfaVars, accessVars, answer, policyVars, mcpVars, limitVars, migrationVars>>
PdpStep == part = "pdp" /\ PdpNext
  /\ UNCHANGED <<mfaVars, accessVars, authVars, policyVars, mcpVars, limitVars, migrationVars>>
PolicyStep == part = "policy" /\ PolicyNext
  /\ UNCHANGED <<mfaVars, accessVars, authVars, answer, mcpVars, limitVars, migrationVars>>
McpStep == part = "mcp" /\ McpNext
  /\ UNCHANGED <<mfaVars, accessVars, authVars, answer, policyVars, limitVars, migrationVars>>
LimitsStep ==
  /\ \/ part = "throttle" /\ ThrottleNext
     \/ part = "profiler" /\ ProfilerNext
  /\ UNCHANGED <<mfaVars, accessVars, authVars, answer, policyVars, mcpVars, migrationVars>>
MigrationStep == part = "migration" /\ MigrationNext
  /\ UNCHANGED <<mfaVars, accessVars, authVars, answer, policyVars, mcpVars, limitVars>>

Next ==
  /\ \/ MfaStep \/ AccessStep \/ AuthStep \/ PdpStep \/ PolicyStep \/ McpStep \/ LimitsStep
     \/ MigrationStep
  /\ UNCHANGED part

Spec == Init /\ [][Next]_vars
=============================================================================
