----------------------------- MODULE PolicyBundles -----------------------------
(***************************************************************************)
(* The stored policy bundle of one bundle_id and its version history, as   *)
(* the administration handlers edit them.                                  *)
(*                                                                         *)
(* A handler reads the bundle, writes the row, reads the highest version   *)
(* number and writes the version row in statements of their own, so that   *)
(* the edits of several operators interleave.                              *)
(***************************************************************************)
EXTENDS Naturals, Sequences

CONSTANTS
  Operators,     \* concurrent callers of the handlers
  Drafts,        \* the rules that a YAML document may hold
  MaxEdits       \* bound on edits

ASSUME PolicyAssumption == MaxEdits \in Nat

VARIABLES
  bundle,      \* the row of policy_bundles: rules, active
  versions,    \* policy_bundle_version: rules, active, by version number
  edit,        \* the operators' requests: program point, operation, the bundle to write,
               \* the version number read
  edits,       \* edits begun
  approved,    \* the rules that somebody activated or rolled back to
  disturbed    \* two edits overlapped, or one failed half-way

policyVars == <<bundle, versions, edit, edits, approved, disturbed>>

NoBundle == [rules |-> "none", active |-> FALSE]
IdleEdit == [pc |-> "idle", op |-> "none", held |-> NoBundle, next |-> 0]

PolicyInit ==
  /\ bundle = NoBundle /\ versions = <<>>
  /\ edit = [o \in Operators |-> IdleEdit]
  /\ edits = 0 /\ approved = {} /\ disturbed = FALSE

---------------------------------------------------------------------------
BeginEdit(o) ==
  /\ edit[o].pc = "idle" /\ edits < MaxEdits
  /\ edits' = edits + 1
  /\ disturbed' = (disturbed \/ \E p \in Operators \ {o} : edit[p].pc # "idle")

Continue(o, pc, op, held) ==
  edit' = [edit EXCEPT ![o] = [pc |-> pc, op |-> op, held |-> held, next |-> 0]]
EndEdit(o) == edit' = [edit EXCEPT ![o] = IdleEdit]

\* parse_policy_bundle_yaml: a parsed bundle is inactive
Parsed(d) == [rules |-> d, active |-> FALSE]

\* create_policy_bundle. The content hash covers the time of parsing, so that the lookup
\* by hash finds nothing; the primary key refuses a second row.
CreateBundle(o, d) ==
  /\ BeginEdit(o)
  /\ \/ /\ bundle = NoBundle
        /\ bundle' = Parsed(d)
        /\ Continue(o, "number", "create", Parsed(d))
     \/ bundle # NoBundle /\ UNCHANGED <<bundle, edit>>
  /\ UNCHANGED <<versions, approved>>

\* Mutant: an update keeps the bundle active.
UpdateBundleKept(o, d) ==
  /\ BeginEdit(o)
  /\ bundle # NoBundle
  /\ Continue(o, "write", "update", [bundle EXCEPT !.rules = d])
  /\ UNCHANGED <<bundle, versions, approved>>

\* update_policy_bundle, once the bundle was found
UpdateBundle(o, d) ==
  /\ BeginEdit(o)
  /\ bundle # NoBundle
  /\ Continue(o, "write", "update", Parsed(d))
  /\ UNCHANGED <<bundle, versions, approved>>

\* set_policy_bundle_active: the handler finds the bundle and the repository reads it again.
SetActive(o, active) ==
  /\ BeginEdit(o)
  /\ bundle # NoBundle
  /\ Continue(o, "reread", "activate", [NoBundle EXCEPT !.active = active])
  /\ UNCHANGED <<bundle, versions, approved>>

Reread(o) ==
  /\ edit[o].pc = "reread"
  /\ \/ bundle = NoBundle /\ EndEdit(o) /\ UNCHANGED approved
     \/ /\ bundle # NoBundle
        /\ Continue(o, "write", "activate", [bundle EXCEPT !.active = edit[o].held.active])
        /\ approved' = IF edit[o].held.active THEN approved \cup {bundle.rules} ELSE approved
  /\ UNCHANGED <<bundle, versions, edits, disturbed>>

\* rollback_policy_bundle: the content of the version, active whatever it was then
RollbackBundle(o, v) ==
  /\ BeginEdit(o)
  /\ v \in DOMAIN versions
  /\ Continue(o, "write", "rollback", [rules |-> versions[v].rules, active |-> TRUE])
  /\ approved' = approved \cup {versions[v].rules}
  /\ UNCHANGED <<bundle, versions>>

\* delete_policy_bundle, once the bundle was found
DeleteBundle(o) ==
  /\ BeginEdit(o)
  /\ bundle # NoBundle
  /\ Continue(o, "delete", "delete", NoBundle)
  /\ UNCHANGED <<bundle, versions, approved>>

\* Mutant: an activation leaves the version as it was.
WriteUnversioned(o) ==
  /\ edit[o].pc = "write"
  /\ bundle' = IF bundle = NoBundle THEN NoBundle ELSE edit[o].held
  /\ IF edit[o].op = "activate" THEN EndEdit(o)
     ELSE edit' = [edit EXCEPT ![o].pc = "number"]
  /\ UNCHANGED <<versions, edits, approved, disturbed>>

\* The UPDATE of the row, which changes nothing when the row is gone
Write(o) ==
  /\ edit[o].pc = "write"
  /\ bundle' = IF bundle = NoBundle THEN NoBundle ELSE edit[o].held
  /\ edit' = [edit EXCEPT ![o].pc = "number"]
  /\ UNCHANGED <<versions, edits, approved, disturbed>>

\* insert_version: SELECT MAX(version) + 1, then the INSERT, which the unique index on
\* bundle_id and version refuses when another edit was faster
ReadNumber(o) ==
  /\ edit[o].pc = "number"
  /\ edit' = [edit EXCEPT ![o].pc = "version", ![o].next = Len(versions) + 1]
  /\ UNCHANGED <<bundle, versions, edits, approved, disturbed>>

InsertVersion(o) ==
  /\ edit[o].pc = "version"
  /\ \/ /\ edit[o].next = Len(versions) + 1
        /\ versions' = Append(versions, edit[o].held)
        /\ IF edit[o].op \in {"activate", "rollback"}
           THEN edit' = [edit EXCEPT ![o].pc = "flag"] ELSE EndEdit(o)
     \/ /\ edit[o].next # Len(versions) + 1
        /\ EndEdit(o)
        /\ UNCHANGED versions
  /\ UNCHANGED <<bundle, edits, approved, disturbed>>

\* update_version_active, on the newest version
FlagVersion(o) ==
  /\ edit[o].pc = "flag"
  /\ versions' = [versions EXCEPT ![Len(versions)].active = edit[o].held.active]
  /\ EndEdit(o)
  /\ UNCHANGED <<bundle, edits, approved, disturbed>>

\* Mutant: the versions go with the bundle.
DeleteRowAndHistory(o) ==
  /\ edit[o].pc = "delete"
  /\ bundle' = NoBundle
  /\ versions' = <<>>
  /\ EndEdit(o)
  /\ UNCHANGED <<edits, approved, disturbed>>

DeleteRow(o) ==
  /\ edit[o].pc = "delete"
  /\ bundle' = NoBundle
  /\ EndEdit(o)
  /\ UNCHANGED <<versions, edits, approved, disturbed>>

\* A store error, a dropped connection or a crash ends the edit where it is.
BreakOff(o) ==
  /\ edit[o].pc # "idle"
  /\ EndEdit(o)
  /\ disturbed' = TRUE
  /\ UNCHANGED <<bundle, versions, edits, approved>>

PolicyNext ==
  \E o \in Operators :
    \/ \E d \in Drafts : CreateBundle(o, d) \/ UpdateBundle(o, d)
    \/ \E active \in BOOLEAN : SetActive(o, active)
    \/ \E v \in DOMAIN versions : RollbackBundle(o, v)
    \/ DeleteBundle(o)
    \/ Reread(o) \/ Write(o) \/ ReadNumber(o) \/ InsertVersion(o) \/ FlagVersion(o)
    \/ DeleteRow(o)
    \/ BreakOff(o)

---------------------------------------------------------------------------
(* Properties. *)

\* No edit puts rules into force on its own: the rules of an active bundle are those that
\* some activation read or some rollback chose, however the edits of several operators
\* interleave and wherever they fail (update_policy_bundle, into_policy_bundle).
InForceWasApproved == bundle.active => bundle.rules \in approved

\* Between edits that did not overlap or fail, the newest version is the bundle as it is
\* stored, its active flag included (insert_version, update_version_active).
HistoryMatches ==
  /\ ~disturbed /\ bundle # NoBundle
  /\ \A o \in Operators : edit[o].pc = "idle"
  => versions # <<>> /\ versions[Len(versions)] = bundle

\* The rules recorded under a version number never change or disappear: not by a race for
\* the number, and not by deleting the bundle, creating it again or rolling it back.
HistoryIsKept ==
  [][\A v \in DOMAIN versions :
       v \in DOMAIN versions' /\ versions'[v].rules = versions[v].rules]_policyVars

\* Bundles are governed: what is in force was approved, and the version history matches
\* it and is never rewritten.
BundlesAreGoverned == [](InForceWasApproved /\ HistoryMatches) /\ HistoryIsKept
=============================================================================
