---------------------------- MODULE FlagEditing ----------------------------
(***************************************************************************)
(* How a request to change a flag goes through a Studio replica on its way *)
(* to the backend's Write: the handler looks up the flag its user was      *)
(* looking at, Service.Get reads the file again, and Save, Delete or       *)
(* Rename decides whether to trust the fileSha the page sent.              *)
(*                                                                         *)
(* A replica remembers, for the file, the flags of the version List saw    *)
(* last (cache) and the versions it has shown (history).  Both are lost    *)
(* when it restarts and history is dropped when it grows too large; no     *)
(* replica knows what another has shown.                                   *)
(***************************************************************************)
EXTENDS ConditionalWrite

CONSTANTS
    Replica,        \* the chart runs two
    Warm,           \* the replicas that have already served version 1
    LookupFirst,    \* fields whose handler looks loaded up before Get
    HistoryLimit,   \* remembered versions, 256 in the code
    MayRestart,     \* TRUE: replicas restart
    MayForget       \* TRUE: remembering other files can overflow history

ASSUME EditingAssumption ==
    /\ Warm \subseteq Replica
    /\ LookupFirst \subseteq Field
    /\ HistoryLimit \in Nat \ {0}
    /\ MayRestart \in BOOLEAN /\ MayForget \in BOOLEAN

VARIABLES
    cache,      \* cache[n]: the version n remembered last, 0 for none
    history,    \* history[n]: the versions whose flags n still holds
    shown,      \* the versions whose fileSha some page has been given
    stage,      \* stage[r]: how far r's handler is
    form,       \* form[r]: what r's page sent, and to which replica
    got,        \* got[r]: the version r's Get read
    found,      \* found[r]: the snapshot r's handler looked up, or nil
    early       \* early[r]: the answer given without calling Write

svars == <<cache, history, shown, stage, form, got, found, early>>
vars == <<wvars, svars>>

Stages == {"new", "get", "remember", "lookup", "check", "locate", "write",
           "done"}

(* A request to only look at the flags sends NoCall for an edit.           *)
Form == [at: Replica, edit: Edit \cup {NoCall}, base: Nat]

EditingTypeOK ==
    /\ TypeOK
    /\ cache \in [Replica -> 0..Current]
    /\ history \in [Replica -> SUBSET (1..Current)]
    /\ shown \subseteq 1..Current
    /\ stage \in [Request -> Stages]
    /\ form \in [Request -> Form \cup {NoCall}]
    /\ got \in [Request -> 0..Current]
    /\ found \in [Request -> Flag \cup {NoFlag}]
    /\ early \in [Request -> {"none", "notFound", "refused", "failed", "staleView"}]

(* Pages are open on version 1, served by the warm replicas or before the  *)
(* others were started.                                                    *)
EditingInit ==
    /\ Init
    /\ cache = [n \in Replica |-> IF n \in Warm THEN 1 ELSE 0]
    /\ history = [n \in Replica |-> IF n \in Warm THEN {1} ELSE {}]
    /\ shown = {1}
    /\ stage = [r \in Request |-> "new"]
    /\ form = [r \in Request |-> NoCall]
    /\ got = [r \in Request |-> 0]
    /\ found = [r \in Request |-> NoFlag]
    /\ early = [r \in Request |-> "none"]

-----------------------------------------------------------------------------
(* The service's memory.                                                   *)

knownSHA(n, v) == \E u \in history[n] : SameVersion(u, v)

(* SEEDED FAULT: the flag is taken from the version remembered last.       *)
LookedUpLatest(n, v, k) ==
    IF cache[n] # 0 /\ Has(Held(cache[n]), k) /\ v # 0 /\ knownSHA(n, v)
    THEN Held(cache[n])[k]
    ELSE NoFlag

(* CachedFilesFor finds the file only if the version remembered last has   *)
(* the key; Snapshot then takes the flag from the version the page shows.  *)
LookedUp(n, v, k) ==
    IF /\ cache[n] # 0 /\ Has(Held(cache[n]), k)
       /\ v # 0 /\ knownSHA(n, v)
    THEN Held(v)[k]
    ELSE NoFlag

Kept(n, v) == IF knownSHA(n, v) THEN history[n] ELSE history[n] \cup {v}

(* SEEDED FAULT: only the latest version is remembered, not the history.   *)
RememberLatest(n, v) ==
    /\ cache' = [cache EXCEPT ![n] = v]
    /\ UNCHANGED history

Remember(n, v) ==
    /\ cache' = [cache EXCEPT ![n] = v]
    /\ history' = [history EXCEPT
                     ![n] = IF Cardinality(Kept(n, v)) > HistoryLimit
                            THEN {v} ELSE Kept(n, v)]

(* Remembering a version of another file overflowed history.               *)
Forget(n) ==
    /\ MayForget
    /\ history[n] # {}
    /\ history' = [history EXCEPT ![n] = {}]
    /\ UNCHANGED <<wvars, cache, shown, stage, form, got, found, early>>

(* The process is replaced: its requests have ended, one way or another    *)
(* (Abandoned, or a read or put of theirs failed).                         *)
Restart(n) ==
    /\ MayRestart
    /\ cache[n] # 0
    /\ \A r \in Request :
         stage[r] \notin {"new", "done"} => form[r].at # n
    /\ cache' = [cache EXCEPT ![n] = 0]
    /\ history' = [history EXCEPT ![n] = {}]
    /\ UNCHANGED <<wvars, shown, stage, form, got, found, early>>

-----------------------------------------------------------------------------
(* The handlers.                                                           *)

Advance(r, s) == stage' = [stage EXCEPT ![r] = s]

AnswerEarly(r, o) ==
    /\ Advance(r, "done")
    /\ early' = [early EXCEPT ![r] = o]

Looking(r) == form[r].edit = NoCall

(* handleToggle, handleRollout, handleSaveRule, handleDelete and the       *)
(* variations request look the flag up first, the other saves after Get;   *)
(* handleRename never does.                                                *)
LooksUpFirst(edit) ==
    edit.kind = "delete" \/ (edit.kind = "set" /\ edit.field \in LookupFirst)

Arrive(r, n, edit, base) ==
    /\ stage[r] = "new"
    /\ form' = [form EXCEPT ![r] = [at |-> n, edit |-> edit, base |-> base]]
    /\ found' = [found EXCEPT ![r] = IF LooksUpFirst(edit)
                                     THEN LookedUp(n, base, edit.key)
                                     ELSE NoFlag]
    /\ Advance(r, "get")
    /\ UNCHANGED <<wvars, cache, history, shown, got, early>>

(* The page shows flags, so the fileSha it sends is that of a version it   *)
(* was shown, with the flag in it; other clients may send none.            *)
Submit(r) ==
    \E n \in Replica, edit \in Asked :
        \/ Arrive(r, n, edit, 0)
        \/ \E v \in shown : Has(Held(v), edit.key) /\ Arrive(r, n, edit, v)

Browse(r) ==
    \E n \in Replica :
        /\ stage[r] = "new"
        /\ form' = [form EXCEPT ![r] = [at |-> n, edit |-> NoCall, base |-> 0]]
        /\ Advance(r, "get")
        /\ UNCHANGED <<wvars, cache, history, shown, got, found, early>>

(* Service.List, the half that reads: other requests may run, and remember *)
(* what they read, before this one remembers.                              *)
Get(r) ==
    /\ stage[r] = "get"
    /\ \/ /\ Held(Current) # Garbled
          /\ got' = [got EXCEPT ![r] = Current]
          /\ Advance(r, "remember")
          /\ UNCHANGED early
       \/ AnswerEarly(r, "failed") /\ UNCHANGED got
    /\ UNCHANGED <<wvars, cache, history, shown, form, found>>

GetRemembers(r) ==
    /\ stage[r] = "remember"
    /\ Remember(form[r].at, got[r])
    /\ shown' = IF Looking(r) THEN shown \cup {got[r]} ELSE shown
    /\ CASE Looking(r) -> Advance(r, "done") /\ UNCHANGED early
         [] ~Looking(r) /\ ~Has(Held(got[r]), form[r].edit.key) ->
              AnswerEarly(r, "notFound")
         [] OTHER ->
              /\ Advance(r, IF \/ LooksUpFirst(form[r].edit)
                               \/ form[r].edit.kind = "rename"
                            THEN "check" ELSE "lookup")
              /\ UNCHANGED early
    /\ UNCHANGED <<wvars, form, got, found>>

(* SEEDED FAULT: the snapshot is that of the version Get read.             *)
LookUpFresh(r) ==
    /\ stage[r] = "lookup"
    /\ found' = [found EXCEPT ![r] =
                   LookedUp(form[r].at, got[r], form[r].edit.key)]
    /\ Advance(r, "check")
    /\ UNCHANGED <<wvars, cache, history, shown, form, got, early>>

(* snapshotFor, after Get                                                  *)
LookUp(r) ==
    /\ stage[r] = "lookup"
    /\ found' = [found EXCEPT ![r] =
                   LookedUp(form[r].at, form[r].base, form[r].edit.key)]
    /\ Advance(r, "check")
    /\ UNCHANGED <<wvars, cache, history, shown, form, got, early>>

(* ErrStaleView: nothing to compare with, and a fileSha nobody here issued *)
Untrusted(r) ==
    /\ found[r] = NoFlag
    /\ form[r].base # 0
    /\ ~knownSHA(form[r].at, form[r].base)

CallWrite(r) ==
    /\ call' = [call EXCEPT ![r] = [edit |-> form[r].edit,
                                    base |-> form[r].base,
                                    loaded |-> found[r]]]
    /\ pc' = [pc EXCEPT ![r] = "read"]
    /\ Advance(r, "write")
    /\ UNCHANGED <<log, attempt, retried, seen, next, outcome>>
    /\ UNCHANGED <<cache, history, shown, form, got, found, early>>

Check(r) ==
    /\ stage[r] = "check"
    /\ \/ /\ Untrusted(r)
          /\ AnswerEarly(r, "staleView")
          /\ UNCHANGED <<wvars, cache, history, shown, form, got, found>>
       \/ /\ ~Untrusted(r) /\ form[r].edit.kind = "rename"
          /\ Advance(r, "locate")
          /\ UNCHANGED <<wvars, cache, history, shown, form, got, found, early>>
       \/ ~Untrusted(r) /\ form[r].edit.kind # "rename" /\ CallWrite(r)

(* Rename's locateKey: the new key must be in no file of the environment.  *)
Locate(r) ==
    /\ stage[r] = "locate"
    /\ \/ /\ Held(Current) # Garbled /\ ~Has(Held(Current), form[r].edit.to)
          /\ CallWrite(r)
       \/ /\ Held(Current) # Garbled /\ Has(Held(Current), form[r].edit.to)
          /\ AnswerEarly(r, "refused")
          /\ UNCHANGED <<wvars, cache, history, shown, form, got, found>>
       \/ /\ AnswerEarly(r, "failed")
          /\ UNCHANGED <<wvars, cache, history, shown, form, got, found>>

Reply(r) ==
    /\ stage[r] = "write" /\ pc[r] = "done"
    /\ Advance(r, "done")
    /\ UNCHANGED <<wvars, cache, history, shown, form, got, found, early>>

(* The replica goes down under a request that has not reached Write.       *)
Abandoned(r) ==
    /\ MayRestart
    /\ stage[r] \in {"get", "remember", "lookup", "check", "locate"}
    /\ AnswerEarly(r, "failed")
    /\ UNCHANGED <<wvars, cache, history, shown, form, got, found>>

Handle(r) ==
    \/ Get(r)
    \/ GetRemembers(r)
    \/ LookUp(r)
    \/ Check(r)
    \/ Locate(r)
    \/ Write(r) /\ UNCHANGED svars
    \/ Reply(r)

EditingNext ==
    \/ \E r \in Request : Submit(r) \/ Browse(r) \/ Handle(r) \/ Abandoned(r)
    \/ \E content \in OutsideContent : EditElsewhere(content) /\ UNCHANGED svars
    \/ \E n \in Replica : Forget(n) \/ Restart(n)

EditingSpec == EditingInit /\ [][EditingNext]_vars

(* A handler runs to its end, and every read and put of it ends, if only   *)
(* because its context does; users, other writers, restarts and overflows  *)
(* owe nothing.                                                            *)
FairEditingSpec == EditingSpec /\ \A r \in Request : WF_vars(Handle(r))

-----------------------------------------------------------------------------
(* Properties.                                                             *)

(* Whatever the caches have forgotten or mixed up, Write is only ever      *)
(* handed a snapshot of the very version the page shows, or none: this     *)
(* module is an implementation of ConditionalWrite's callers.              *)
ImplementsWriteSpec == WriteSpec

(* A 409 "your view of this flag is out of date" is never given to a page  *)
(* whose version is the one Get just read, on any replica, restarted or    *)
(* not: Get remembers it before Save asks knownSHA.  It needs a history    *)
(* that nothing evicts between the two, so it is checked with MayForget    *)
(* FALSE and a HistoryLimit above the number of versions.                  *)
StaleViewsAreStale ==
    \A r \in Request :
        early[r] = "staleView" => ~SameVersion(got[r], form[r].base)

(* README, Concurrency: "Your flag changed underneath you | 409".          *)
(* No save or delete with a fileSha commits over a flag that differs from  *)
(* the one in the version of that fileSha, in the fields sameFlagState     *)
(* compares.  Rollouts, experimentation and the bucketing key are edited   *)
(* too but not compared: of a change of those this says nothing.           *)
Same(fields, a, b) ==
    a # NoFlag /\ b # NoFlag /\ \A f \in fields : a.fields[f] = b.fields[f]

ComparedChangesConflict ==
    \A r \in Request : \A v \in Studio(r) :
        LET k == call[r].edit.key IN
        call[r].base # 0 /\ call[r].edit.kind # "rename" =>
            Same(Compared, Held(call[r].base)[k], Held(v - 1)[k])

(* Every request is answered, even if each of its puts is refused.         *)
EveryRequestAnswered ==
    \A r \in Request : stage[r] = "get" ~> stage[r] = "done"
=============================================================================
