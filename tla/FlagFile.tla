------------------------------ MODULE FlagFile ------------------------------
(***************************************************************************)
(* One flag file and what an edit does to it: the data that the service    *)
(* (internal/server/service.go) and the adapter (internal/goff) agree on.  *)
(*                                                                         *)
(* A flag is a value for each Field and the metadata.updatedAt stamp.  The *)
(* fields in Compared are those sameFlagState looks at; the others         *)
(* (progressive rollouts, experimentation, bucketing key) are written by   *)
(* the same saves and compared by nothing.  A Rejected combination of      *)
(* field values is one that GOFF's own validation refuses.                 *)
(***************************************************************************)
CONSTANTS
    Key,        \* flag keys
    Field,      \* the parts of a flag an edit may set
    Compared,   \* the fields sameFlagState compares
    Value,      \* what a field may hold
    Rejected,   \* the field values GOFF's validation refuses
    Time,       \* metadata.updatedAt stamps, to the second
    NoFlag,     \* the key is not in the file; also a nil *goff.Flag
    Garbled     \* file content that does not parse

Flag == [fields: [Field -> Value], updatedAt: Time]
File == [Key -> Flag \cup {NoFlag}]
Content == File \cup {Garbled}

ASSUME DataAssumption ==
    /\ Compared \subseteq Field
    /\ NoFlag \notin Flag
    /\ Garbled \notin File

(***************************************************************************)
(* What Studio may be asked to do to a file: a save sets one field (its    *)
(* Mutate), Delete and Rename move whole entries.                          *)
(***************************************************************************)
Edit ==
    [kind: {"set"}, key: Key, field: Field, value: Value]
      \cup [kind: {"delete"}, key: Key]
      \cup {e \in [kind: {"rename"}, key: Key, to: Key] : e.key # e.to}

Has(file, k) == file[k] # NoFlag

Possible(edit, content) ==
    /\ content # Garbled
    /\ Has(content, edit.key)
    /\ edit.kind = "rename" => ~Has(content, edit.to)

Stamped(flag, t) == [flag EXCEPT !.updatedAt = t]

(* The file with the edit made at time t, before validation.               *)
Edited(edit, file, t) ==
    CASE edit.kind = "set" ->
           [file EXCEPT ![edit.key] =
              Stamped([@ EXCEPT !.fields[edit.field] = edit.value], t)]
      [] edit.kind = "delete" ->
           [file EXCEPT ![edit.key] = NoFlag]
      [] edit.kind = "rename" ->
           [file EXCEPT ![edit.key] = NoFlag,
                        ![edit.to] = Stamped(file[edit.key], t)]

(* SEEDED FAULT: GOFF's validation is not asked.                           *)
ValidUnasked(file) == TRUE

(* Adapter.Validate judges every flag of the file, not just the edited one *)
Valid(file) == \A k \in Key : Has(file, k) => file[k].fields \notin Rejected

sameFlagState(a, b) == \A f \in Compared : a.fields[f] = b.fields[f]

(* What Apply answers instead of new content; "none" when it has content.  *)
Objection(edit, content, t) ==
    CASE Possible(edit, content) /\ Valid(Edited(edit, content, t)) -> "none"
      [] edit.kind = "set" /\ content = Garbled                    -> "failed"
      [] edit.kind # "rename" /\ ~Possible(edit, content)
           /\ ~(edit.kind = "set" /\ content = Garbled)           -> "notFound"
      [] OTHER                                                     -> "refused"

(* Nothing to compare with is "unchanged"; a flag that cannot be read, or  *)
(* has gone, is "changed".                                                 *)
flagChanged(loaded, k, content) ==
    /\ loaded # NoFlag
    /\ content # Garbled /\ Has(content, k) => ~sameFlagState(loaded, content[k])
=============================================================================
