--------------------------- MODULE MailDraftAdapter ---------------------------
(***************************************************************************)
(* The e-mail draft adapter and its store, which lives in memory.  The     *)
(* target may leave the draft's id open and the payload of a create may    *)
(* name another one.                                                       *)
(***************************************************************************)
EXTENDS Naturals, AdapterTypes

MailActions == {"create", "update", "delete"}

NoDraft == "none"

\* drafts holds the target's id, the id in the payload and a placeholder;
\* which is what the target and the payload name, inMeta where the fields are.
MailWorlds(a) ==
  { w \in [ drafts : [{"target", "payload", "placeholder"} -> {NoDraft, "a"}],
            target : {"target", "open"}, payload : {"target", "payload", "unset"},
            inMeta : BOOLEAN ] :
      /\ w.drafts["placeholder"] = NoDraft
      /\ a # "create" => w.target = "target" /\ w.payload = "unset" /\ w.inMeta
                         /\ w.drafts["payload"] = NoDraft }

MailVisible(w) == w.drafts

MailNoMeta == [original |-> NoDraft, body |-> "none", planned |-> FALSE]

\* extract_draft_id: an open target gets a fresh placeholder at every call, so
\* that no two calls agree on it.
Found(w) ==
  IF w.target = "target" THEN w.drafts["target"] ELSE NoDraft

\* Notes the body to expect, empty when the payload will bring it.
MailPrepareCreate(w) ==
  IF Found(w) # NoDraft THEN {}
  ELSE {Ok(w, [MailNoMeta EXCEPT !.body = IF w.inMeta THEN "new" ELSE "empty"])}

MailPrepareUpdate(w) ==
  IF Found(w) = NoDraft THEN {}
  ELSE {Ok(w, [MailNoMeta EXCEPT !.body = "new", !.original = Found(w)])}

MailPrepareDelete(w) ==
  IF Found(w) = NoDraft THEN {} ELSE {Ok(w, [MailNoMeta EXCEPT !.original = Found(w)])}

MailPrepare(a, w) ==
  {Err(w)} \cup
  CASE a = "create" -> MailPrepareCreate(w)
    [] a = "update" -> MailPrepareUpdate(w)
    [] OTHER -> MailPrepareDelete(w)

\* Where a create goes: the payload's id, else the one that prepare noted.
CreatedId(w) ==
  CASE w.payload # "unset" -> w.payload
    [] w.payload = "unset" /\ w.target = "target" -> "target"
    [] OTHER -> "placeholder"

\* No look at what is there by now.
MailExecuteCreate(w, m) == {Ok([w EXCEPT !.drafts[CreatedId(w)] = "new"], m)}
MailExecuteUpdate(w, m) == {Ok([w EXCEPT !.drafts["target"] = "new"], m)}
MailExecuteDelete(w, m) == {Ok([w EXCEPT !.drafts["target"] = NoDraft], m)}

MailExecute(a, w, m) ==
  {Err(w)} \cup
  CASE a = "create" -> MailExecuteCreate(w, m)
    [] a = "update" -> MailExecuteUpdate(w, m)
    [] OTHER -> MailExecuteDelete(w, m)

MailVerify(a, w, m) ==
  IF a = "delete"
  THEN {IF Found(w) = NoDraft THEN Verified(w) ELSE Err(w)}
  ELSE {IF Found(w) = m.body THEN Verified(w) ELSE Err(w)}

\* A create is undone under the target's id, whatever id was created.
MailRollbackCreate(w) ==
  {Recovered(IF w.target = "target" THEN [w EXCEPT !.drafts["target"] = NoDraft] ELSE w)}

\* Mutant: an update is undone by removing the draft.
MailRollbackRemoves(w, m) == {Recovered([w EXCEPT !.drafts["target"] = NoDraft])}

MailRollbackUpdate(w, m) == {Recovered([w EXCEPT !.drafts["target"] = m.original])}

MailRollbackDelete(w, m) == {Recovered([w EXCEPT !.drafts["target"] = m.original])}

MailRollback(a, w, m) ==
  CASE a = "create" -> MailRollbackCreate(w)
    [] a = "update" -> MailRollbackUpdate(w, m)
    [] OTHER -> MailRollbackDelete(w, m)

\* Another contract rewrites the draft, or the gateway restarts with an empty
\* store.
MailMeddle(w) ==
  {[w EXCEPT !.drafts["target"] = "x"],
   [w EXCEPT !.drafts = [id \in DOMAIN @ |-> NoDraft]]}
==============================================================================
