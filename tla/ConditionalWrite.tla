-------------------------- MODULE ConditionalWrite --------------------------
(***************************************************************************)
(* storage.Backend.Write as the GitHub, S3, GCS, Azure Blob and ConfigMap  *)
(* backends implement it: read the file, check and apply the edit, put the *)
(* result back on condition that the version is still the one read, and    *)
(* start again, at most Attempts times, when it is not.  Many requests, of *)
(* any number of replicas, run the loop against the one file.              *)
(*                                                                         *)
(* The file is the log of everything it ever held: a version is an index   *)
(* into log, the current content is the last entry, and an entry says who  *)
(* wrote it.  Version 0 is the empty BaseVersion.                          *)
(***************************************************************************)
EXTENDS FlagFile, Integers, Sequences, FiniteSets

CONSTANTS
    Request,        \* one save, delete or rename each, made once
    NoCall,         \* the request has not reached the backend yet
    Outside,        \* the author of versions Studio did not write
    Attempts,       \* MaxAttempts, 3 unless a caller says otherwise
    ContentHash,    \* TRUE: the version is a hash (git blob, S3 ETag);
                    \* FALSE: each write's is new (GCS, Azure, ConfigMap)
    Spurious,       \* TRUE: a put may be refused though the file is as read
                    \* (GitHub's 409 when the branch head moved)
    Resending,      \* the requests whose put a client library may repeat after
                    \* it was applied (the AWS and Azure SDKs)
    Asked,          \* the edits users ask for
    OutsideContent, \* what others write to the file
    MaxOutside      \* bound: how often they do

ASSUME BackendAssumption ==
    /\ Outside \notin Request
    /\ Attempts \in Nat \ {0}
    /\ ContentHash \in BOOLEAN /\ Spurious \in BOOLEAN /\ Resending \subseteq Request
    /\ Asked \subseteq Edit /\ OutsideContent \subseteq Content
    /\ MaxOutside \in Nat

(* A call of Write: flagChanged and Apply are closures over edit and       *)
(* loaded; base is BaseVersion.                                            *)
Call == [edit: Edit, base: Nat, loaded: Flag \cup {NoFlag}]

ASSUME CallAssumption ==
    /\ NoCall \notin Call
    /\ NoCall \notin [edit: Edit, loaded: Flag \cup {NoFlag}]

VARIABLES
    log,        \* every version of the file: its content and its author
    call,       \* call[r]: the arguments r's Write was called with
    pc,         \* pc[r]: "idle", "read", "put" or "done"
    attempt,    \* attempt[r]: the loop counter
    retried,    \* retried[r]: the local of that name
    seen,       \* seen[r]: the version this attempt read
    next,       \* next[r]: the content this attempt built
    outcome     \* outcome[r]: what Write returned, "none" until then

wvars == <<log, call, pc, attempt, retried, seen, next, outcome>>

Version == [content: Content, by: Request \cup {Outside}]

Outcome == {"none", "saved", "unchanged", "conflict", "notFound", "refused",
            "keptChanging", "failed"}

TypeOK ==
    /\ log \in Seq(Version) /\ Len(log) > 0
    /\ call \in [Request -> Call \cup {NoCall}]
    /\ pc \in [Request -> {"idle", "read", "put", "done"}]
    /\ attempt \in [Request -> 1..Attempts]
    /\ retried \in [Request -> BOOLEAN]
    /\ seen \in [Request -> Nat]
    /\ next \in [Request -> Content]
    /\ outcome \in [Request -> Outcome]

Current == Len(log)
Held(v) == log[v].content

(* Two reads of the file give the same Version string.                     *)
SameVersion(v, w) == v = w \/ (ContentHash /\ Held(v) = Held(w))

Init ==
    /\ \E content \in OutsideContent \cap File :
         /\ log = <<[content |-> content, by |-> Outside]>>
         /\ next = [r \in Request |-> content]
    /\ call = [r \in Request |-> NoCall]
    /\ pc = [r \in Request |-> "idle"]
    /\ attempt = [r \in Request |-> 1]
    /\ retried = [r \in Request |-> FALSE]
    /\ seen = [r \in Request |-> 0]
    /\ outcome = [r \in Request |-> "none"]

(***************************************************************************)
(* What the service passes: the caller looked at some version of the file  *)
(* (or none), and loaded is either the flag it held there or nil.          *)
(***************************************************************************)
Shown(base, k) ==
    IF base = 0 \/ Held(base) = Garbled THEN {NoFlag} ELSE {Held(base)[k], NoFlag}

Start(r, edit, base) ==
    /\ pc[r] = "idle"
    /\ base \in 0..Current
    /\ \E loaded \in Shown(base, edit.key) :
         call' = [call EXCEPT
                    ![r] = [edit |-> edit, base |-> base, loaded |-> loaded]]
    /\ pc' = [pc EXCEPT ![r] = "read"]
    /\ UNCHANGED <<log, attempt, retried, seen, next, outcome>>

Return(r, o) ==
    /\ pc' = [pc EXCEPT ![r] = "done"]
    /\ outcome' = [outcome EXCEPT ![r] = o]

(***************************************************************************)
(* The first half of an attempt: ReadFile, the version check, Changed,     *)
(* Apply.  It takes one step because only the read touches shared state.   *)
(***************************************************************************)

(* SEEDED FAULT: the base version is compared on the first attempt only.   *)
MovedFirst(r) ==
    attempt[r] = 1 /\ call[r].base # 0 /\ ~SameVersion(Current, call[r].base)

Moved(r) == call[r].base # 0 /\ ~SameVersion(Current, call[r].base)

Overtaken(r) ==
    Moved(r) /\ flagChanged(call[r].loaded, call[r].edit.key, Held(Current))

ReadFails(r) ==
    /\ pc[r] = "read"
    /\ Return(r, "failed")
    /\ UNCHANGED <<log, call, attempt, retried, seen, next>>

Conflicts(r) ==
    /\ pc[r] = "read"
    /\ Overtaken(r)
    /\ retried' = [retried EXCEPT ![r] = TRUE]
    /\ Return(r, "conflict")
    /\ UNCHANGED <<log, call, attempt, seen, next>>

(* The attempt gets as far as Apply, at time t.                            *)
Applies(r, t) ==
    /\ pc[r] = "read"
    /\ ~Overtaken(r)
    /\ retried' = [retried EXCEPT ![r] = @ \/ Moved(r)]
    /\ UNCHANGED <<log, call, attempt>>

Objects(r, t) ==
    LET no == Objection(call[r].edit, Held(Current), t) IN
    /\ Applies(r, t)
    /\ no # "none"
    /\ Return(r, no)
    /\ UNCHANGED <<seen, next>>

(* bytes.Equal(next, current.Content)                                      *)
NothingToDo(r, t) ==
    /\ Applies(r, t)
    /\ Objection(call[r].edit, Held(Current), t) = "none"
    /\ Edited(call[r].edit, Held(Current), t) = Held(Current)
    /\ Return(r, "unchanged")
    /\ UNCHANGED <<seen, next>>

Builds(r, t) ==
    LET built == Edited(call[r].edit, Held(Current), t) IN
    /\ Applies(r, t)
    /\ Objection(call[r].edit, Held(Current), t) = "none"
    /\ built # Held(Current)
    /\ seen' = [seen EXCEPT ![r] = Current]
    /\ next' = [next EXCEPT ![r] = built]
    /\ pc' = [pc EXCEPT ![r] = "put"]
    /\ UNCHANGED outcome

(***************************************************************************)
(* The second half: the conditional put and what becomes of it.            *)
(***************************************************************************)

(* SEEDED FAULT: the put is unconditional.                                 *)
UnmovedOrNot(r) == TRUE

Unmoved(r) == SameVersion(Current, seen[r])

Record(r) == log' = Append(log, [content |-> next[r], by |-> r])

(* SEEDED FAULT: one attempt too many.                                     *)
MayTryAgainOnceMore(r) == attempt[r] <= Attempts

MayTryAgain(r) == attempt[r] < Attempts

(* SEEDED FAULT: the attempts are not counted.                             *)
RereadUncounted(r) ==
    /\ pc' = [pc EXCEPT ![r] = "read"]
    /\ UNCHANGED <<attempt, outcome>>

Reread(r) ==
    /\ pc' = [pc EXCEPT ![r] = "read"]
    /\ attempt' = [attempt EXCEPT ![r] = @ + 1]
    /\ UNCHANGED outcome

(* SEEDED FAULT: falling out of the loop is reported as success.           *)
FallOutSaved(r) == Return(r, "saved") /\ UNCHANGED attempt

FallOut(r) == Return(r, "keptChanging") /\ UNCHANGED attempt

(* After a precondition failure.                                           *)
TryAgain(r) ==
    /\ retried' = [retried EXCEPT ![r] = TRUE]
    /\ \/ MayTryAgain(r) /\ Reread(r)
       \/ ~MayTryAgain(r) /\ FallOut(r)

PutLands(r) ==
    /\ pc[r] = "put"
    /\ Unmoved(r)
    /\ Record(r)
    /\ Return(r, "saved")
    /\ UNCHANGED <<call, attempt, retried, seen, next>>

(* SEEDED FAULT: a put whose answer was lost is tried again.               *)
PutLandsUnheardAgain(r) ==
    /\ pc[r] = "put"
    /\ Unmoved(r)
    /\ Record(r)
    /\ TryAgain(r)
    /\ UNCHANGED <<call, seen, next>>

(* Applied, but the caller gets an error: the response was lost.           *)
PutLandsUnheard(r) ==
    /\ pc[r] = "put"
    /\ Unmoved(r)
    /\ Record(r)
    /\ Return(r, "failed")
    /\ UNCHANGED <<call, attempt, retried, seen, next>>

PutFails(r) ==
    /\ pc[r] = "put"
    /\ Return(r, "failed")
    /\ UNCHANGED <<log, call, attempt, retried, seen, next>>

PutRefused(r) ==
    /\ pc[r] = "put"
    /\ ~Unmoved(r) \/ Spurious
    /\ TryAgain(r)
    /\ UNCHANGED <<log, call, seen, next>>

(* Applied, the response lost, and the client library's own repetition of  *)
(* the put refused because of the first one.                               *)
PutResent(r) ==
    /\ r \in Resending
    /\ pc[r] = "put"
    /\ Unmoved(r)
    /\ Record(r)
    /\ TryAgain(r)
    /\ UNCHANGED <<call, seen, next>>

(* A commit or an upload made without Studio.                              *)
EditElsewhere(content) ==
    /\ Cardinality({v \in 2..Current : log[v].by = Outside}) < MaxOutside
    /\ log' = Append(log, [content |-> content, by |-> Outside])
    /\ UNCHANGED <<call, pc, attempt, retried, seen, next, outcome>>

Write(r) ==
    \/ ReadFails(r)
    \/ Conflicts(r)
    \/ \E t \in Time : Objects(r, t) \/ NothingToDo(r, t) \/ Builds(r, t)
    \/ PutLands(r)
    \/ PutLandsUnheard(r)
    \/ PutFails(r)
    \/ PutRefused(r)
    \/ PutResent(r)

Next ==
    \/ \E r \in Request : Write(r) \/ \E e \in Asked, base \in 0..Current : Start(r, e, base)
    \/ \E content \in OutsideContent : EditElsewhere(content)

WriteSpec == Init /\ [][Next]_wvars
-----------------------------------------------------------------------------
(***************************************************************************)
(* Properties.                                                             *)
(***************************************************************************)
Studio(r) == {v \in 2..Current : log[v].by = r}

(* Nothing is lost: whatever a request commits is its own edit, and only   *)
(* that, made to the version directly before it.  The loop guarantees it   *)
(* with a put conditional on the version that Apply was given              *)
(* (githubapp.Client.Commit and the backends' Write).                      *)
CommitsAreEdits ==
    \A r \in Request : \A v \in Studio(r) : \E t \in Time :
        /\ Objection(call[r].edit, Held(v - 1), t) = "none"
        /\ Held(v) = Edited(call[r].edit, Held(v - 1), t)

(* README: "Studio never commits a file that fails" GOFF's validation,     *)
(* although edits that are fine one by one may add up to a file that does: *)
(* the file validated is the one put.                                      *)
OnlyAcceptedFiles ==
    \A r \in Request : \A v \in Studio(r) : \A k \in Key :
        Has(Held(v), k) => Held(v)[k].fields \notin Rejected

(* A request that shows the flag it was loaded with never commits over a   *)
(* version in which that flag is gone or differs in a compared field, on   *)
(* whichever attempt it gets through.                                      *)
NoUnseenOverwrite ==
    \A r \in Request : \A v \in Studio(r) :
        ~flagChanged(call[r].loaded, call[r].edit.key, Held(v - 1))

(* However many attempts it takes, a request is committed at most once,    *)
(* unless a client library repeats its put behind the loop's back.         *)
CommittedOnce ==
    \A r \in Request \ Resending : Cardinality(Studio(r)) <= 1

(* The answer tells what happened: "saved" was committed, and a request    *)
(* told of a conflict, an objection, or that the file kept changing left   *)
(* nothing behind.  Only a storage failure may hide a commit.              *)
HonestAnswers ==
    \A r \in Request :
        /\ outcome[r] = "saved" => Studio(r) # {}
        /\ r \notin Resending /\ outcome[r] \notin {"saved", "failed"} => Studio(r) = {}

(* "someone else just changed this flag": some version after the one the   *)
(* user saw, and not this request's own, really has the flag changed.      *)
ConflictsAreReal ==
    \A r \in Request :
        r \notin Resending /\ outcome[r] = "conflict" =>
            \E v \in call[r].base + 1 .. Current :
                /\ log[v].by # r
                /\ flagChanged(call[r].loaded, call[r].edit.key, Held(v))

(* "because the file kept changing": somebody else wrote the file at least *)
(* once for every attempt the loop is allowed.                             *)
KeptChangingIsTrue ==
    \A r \in Request :
        r \notin Resending /\ ~Spurious /\ outcome[r] = "keptChanging" =>
            Cardinality({v \in 2..Current : log[v].by # r}) >= Attempts

(* SaveResult.Retried: a save that does not admit to a retry was built on  *)
(* the very version the user was looking at.                               *)
QuietSavesAreFresh ==
    \A r \in Request : \A v \in Studio(r) :
        outcome[r] = "saved" /\ ~retried[r] /\ call[r].base # 0 =>
            SameVersion(v - 1, call[r].base)

(* What the user is told is true: success, conflict, a file that kept      *)
(* changing, and a retry that is not admitted to.                          *)
AnswersAreTrue ==
    HonestAnswers /\ ConflictsAreReal /\ KeptChangingIsTrue /\ QuietSavesAreFresh

(* Each request takes effect, or is turned down, as if at one instant.     *)
demandBar ==
    [r \in Request |->
        IF call[r] = NoCall
        THEN NoCall
        ELSE [edit |-> call[r].edit, loaded |-> call[r].loaded]]
outcomeBar ==
    [r \in Request |->
        IF outcome[r] = "unchanged" THEN "saved" ELSE outcome[r]]

Atomic == INSTANCE AtomicEdits
            WITH file <- Held(Current), demand <- demandBar,
                 outcome <- outcomeBar, NoDemand <- NoCall

ImplementsAtomicEdits == Atomic!Spec
=============================================================================
