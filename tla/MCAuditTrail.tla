---------------------------- MODULE MCAuditTrail ----------------------------
EXTENDS AuditTrail

CONSTANTS a1, a2, r1, r2

\* The sink and the auditors share nothing but the log, which both only read:
\* they are checked side by side rather than in combination.  Time matters to
\* the auditors alone, a restart to the sink's cursor.
Deployments ==
  [backend : {"sqlite", "postgres"}, sink : {TRUE}, appenders : {{a1, a2}},
   auditors : {{}}, hours : {0}, restarts : {1}]
  \cup
  [backend : {"sqlite", "postgres"}, sink : {FALSE}, appenders : {{a1}},
   auditors : {{r1, r2}}, hours : {1}, restarts : {0}]
==============================================================================
