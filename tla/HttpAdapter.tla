----------------------------- MODULE HttpAdapter -----------------------------
(***************************************************************************)
(* The HTTP adapter and the server behind it, which honours Idempotency-   *)
(* Key headers.  Its compensation is a replay of the same request under    *)
(* the same key: it makes sure that the mutation happened, and does not    *)
(* undo it.                                                                *)
(***************************************************************************)
EXTENDS Naturals, AdapterTypes

HttpActions == {"HttpMutation"}

\* plan is the contract's compensation plan: none, a valid http.replay_v1 step
\* or one whose payload does not match the target's request_digest.  effects
\* counts the mutations by execution and replay, known is what the server keeps
\* under the key, and probed whether a check's request changed the resource.
HttpWorlds ==
  [ effects : {0}, known : {"nothing"}, probed : {FALSE}, allowed : {TRUE},
    plan : {"none", "replay", "mismatch"} ]

HttpVisible(w) == <<w.effects, w.probed>>

HttpNoMeta == [planned |-> FALSE]

\* What the server does with a request.  Under a key that it knows it repeats
\* its answer; any other request it carries out, or refuses with a failure
\* status that it may keep under the key.
Answer(w, good) == [world |-> w, good |-> good]
Serve(w, key) ==
  IF key /\ w.known # "nothing" THEN {Answer(w, w.known = "done")}
  ELSE { Answer([w EXCEPT !.effects = @ + 1, !.known = IF key THEN "done" ELSE @], TRUE),
         Answer(w, FALSE),
         Answer([w EXCEPT !.known = IF key THEN "refused" ELSE @], FALSE) }

\* run_http_status_check sends the target's own method to the target's URL, with
\* neither body nor key: the server may take that for a mutation.
Probe(w) == {w, [w EXCEPT !.probed = TRUE]}

\* validate_url, in every phase: the host is still in allowed_hosts.
HostAllowed(w) == w.allowed

\* With prepare_checks or without.
HttpPrepare(w) ==
  {Err(w)} \cup
  (IF HostAllowed(w)
   THEN {Ok(v, HttpNoMeta) : v \in Probe(w)} \cup {Err(v) : v \in Probe(w)} ELSE {})

\* Mutant: the first request goes out without the key.
SendKeyless(w) == FALSE

\* The key is sent when the contract holds a valid replay step.
SendsKey(w) == w.plan = "replay"

\* Any status is a receipt, also that of a refusal; no answer is an error.
HttpExecute(w, m) ==
  {Err(w)} \cup
  (IF HostAllowed(w) /\ w.plan # "mismatch"
   THEN {Ok(r.world, m) : r \in Serve(w, SendsKey(w))}
        \cup {Err(r.world) : r \in Serve(w, SendsKey(w))}
   ELSE {})

\* Without checks verification fails closed.
HttpVerify(w, m) ==
  {Err(w)} \cup
  (IF HostAllowed(w) /\ m.planned
   THEN {Verified(v) : v \in Probe(w)} \cup {Err(v) : v \in Probe(w)} ELSE {})

\* compensate and rollback: a status that the plan does not expect (it expects
\* those of success) and a lost answer are errors.
HttpRollback(w, m) ==
  {Err(w)} \cup
  (IF HostAllowed(w) /\ w.plan = "replay"
   THEN {Recovered(r.world) : r \in {q \in Serve(w, TRUE) : q.good}}
        \cup {Err(r.world) : r \in Serve(w, TRUE)}
   ELSE {})

\* The host is taken off the allowlist.
HttpMeddle(w) == {[w EXCEPT !.allowed = FALSE]}
==============================================================================
