---------------------------- MODULE FlagCreation ----------------------------
(***************************************************************************)
(* Creating flags in one environment: Service.Create, from the look        *)
(* through all files for the key (locateKey) to the file of the flag's     *)
(* team, which its first flag creates (createTeamFile) and later ones are  *)
(* written to (buildCreate inside the backend's Write).                    *)
(*                                                                         *)
(* A file is its map of flags; a flag is who put it there.  A read that    *)
(* fails stands also for content that does not parse: both are an error    *)
(* for the request and change nothing.                                     *)
(***************************************************************************)
EXTENDS Naturals, FiniteSets

CONSTANTS
    Key,
    File,        \* the file names the environment may have
    Request,     \* one create each
    Outside,     \* the author of flags made without these requests
    Nobody,      \* the key is not in the file
    Absent,      \* there is no such file
    NotAsked,    \* the request has not arrived
    Asked,       \* the flags users may create: their file and their key
    SingleFile,  \* layout: single-file, one file for all teams
    Attempts,    \* the attempts of the backend's Write
    MaxOutside   \* bound: changes made elsewhere

Author == Request \cup {Outside}
Content == [Key -> Author \cup {Nobody}]
Demand == [file: File, key: Key]

ASSUME CreationAssumption ==
    /\ Outside \notin Request /\ Nobody \notin Author
    /\ Absent \notin Content
    /\ Asked \subseteq Demand /\ NotAsked \notin Demand
    /\ SingleFile \in BOOLEAN
    /\ SingleFile => \A a, b \in Asked : a.file = b.file
    /\ Attempts \in Nat \ {0} /\ MaxOutside \in Nat

VARIABLES
    store,      \* store[f]: the content of file f, or Absent
    ask,        \* ask[r]: what r creates
    pc,         \* pc[r]: the call r is about to make
    todo,       \* todo[r]: the files locateKey still has to read
    seen,       \* seen[r]: the content the Write attempt read
    attempt,    \* attempt[r]: Write's loop counter
    outcome,    \* outcome[r]: the answer, "none" until then
    elsewhere,  \* how many changes were made elsewhere
    ever,       \* history: every flag a request has put in a file
    lost,       \* history: the requests whose CreateFile's answer was lost
    blockers    \* history: the files that held r's key all the time since r
                \* arrived

cvars == <<store, ask, pc, todo, seen, attempt, outcome, elsewhere, ever,
           lost, blockers>>

Outcome == {"none", "created", "duplicate", "refused", "failed", "keptChanging"}

CreationTypeOK ==
    /\ store \in [File -> Content \cup {Absent}]
    /\ ask \in [Request -> Demand \cup {NotAsked}]
    /\ pc \in [Request -> {"idle", "list", "scan", "first", "create",
                           "fallback", "read", "put", "done"}]
    /\ todo \in [Request -> SUBSET File]
    /\ seen \in [Request -> Content]
    /\ attempt \in [Request -> 1..Attempts]
    /\ outcome \in [Request -> Outcome]
    /\ elsewhere \in 0..MaxOutside
    /\ ever \subseteq [file: File, key: Key, by: Request]
    /\ lost \subseteq Request
    /\ blockers \in [Request -> SUBSET File]

Empty == [k \in Key |-> Nobody]
Exists(f) == store[f] # Absent
Holds(f, k) == Exists(f) /\ store[f][k] # Nobody

Target(r) == ask[r].file

Init ==
    /\ store \in [File -> {Empty, Absent}]
    /\ \E f \in File : Exists(f)
    /\ SingleFile => \A a \in Asked : Exists(a.file)
    /\ ask = [r \in Request |-> NotAsked]
    /\ pc = [r \in Request |-> "idle"]
    /\ todo = [r \in Request |-> {}]
    /\ seen = [r \in Request |-> Empty]
    /\ attempt = [r \in Request |-> 1]
    /\ outcome = [r \in Request |-> "none"]
    /\ elsewhere = 0
    /\ ever = {}
    /\ lost = {}
    /\ blockers = [r \in Request |-> {}]

Goto(r, there) == pc' = [pc EXCEPT ![r] = there] /\ UNCHANGED outcome
Answer(r, o) ==
    /\ pc' = [pc EXCEPT ![r] = "done"]
    /\ outcome' = [outcome EXCEPT ![r] = o]

(* File f becomes content; the history follows.                            *)
Store(f, content) ==
    /\ store' = [store EXCEPT ![f] = content]
    /\ blockers' =
         [r \in Request |->
            {b \in blockers[r] :
               b = f => content # Absent /\ content[ask[r].key] # Nobody}]

Unstored == UNCHANGED <<store, elsewhere, ever, lost, blockers>>

-----------------------------------------------------------------------------
(***************************************************************************)
(* prepareCreate.  Requests that the team, permission, key or variation    *)
(* checks turn down never get here: those look at the request alone.       *)
(***************************************************************************)
Submit(r, demand) ==
    /\ pc[r] = "idle"
    /\ ask' = [ask EXCEPT ![r] = demand]
    /\ blockers' =
         [blockers EXCEPT ![r] = {f \in File : Holds(f, demand.key)}]
    /\ Goto(r, "list")
    /\ UNCHANGED <<store, todo, seen, attempt, elsewhere, ever, lost>>

(* SEEDED FAULT: only the flag's own file is looked through.               *)
FilesToScanOwn(r) == {f \in File : Exists(f) /\ f = Target(r)}

FilesToScan(r) == {f \in File : Exists(f)}

ListFiles(r) ==
    /\ pc[r] = "list"
    /\ IF SingleFile /\ ~Exists(Target(r))
       THEN Answer(r, "refused") /\ UNCHANGED todo
       ELSE Goto(r, "scan") /\ todo' = [todo EXCEPT ![r] = FilesToScan(r)]
    /\ Unstored
    /\ UNCHANGED <<ask, seen, attempt>>

(* One round of locateKey, which goes by name; any order will do.  A file  *)
(* that has gone since the listing fails the request, like any error.      *)
Scan(r, f) ==
    /\ pc[r] = "scan"
    /\ f \in todo[r]
    /\ todo' = [todo EXCEPT ![r] = @ \ {f}]
    /\ \/ ~Exists(f) /\ Answer(r, "failed")
       \/ Holds(f, ask[r].key) /\ Answer(r, "duplicate")
       \/ Exists(f) /\ ~Holds(f, ask[r].key) /\ Goto(r, "scan")
    /\ Unstored
    /\ UNCHANGED <<ask, seen, attempt>>

(* The key is free.  A fileSha Studio never issued is ErrStaleView; which  *)
(* it knows is FlagEditing's matter.                                       *)
Located(r) ==
    /\ pc[r] = "scan"
    /\ todo[r] = {}
    /\ \/ Goto(r, IF SingleFile THEN "read" ELSE "first")
       \/ Answer(r, "refused")
    /\ Unstored
    /\ UNCHANGED <<ask, todo, seen, attempt>>

-----------------------------------------------------------------------------
(***************************************************************************)
(* createTeamFile.                                                         *)
(***************************************************************************)
FirstOfTeam(r) ==
    /\ pc[r] = "first"
    /\ Goto(r, IF Exists(Target(r)) THEN "read" ELSE "create")
    /\ Unstored
    /\ UNCHANGED <<ask, todo, seen, attempt>>

Ever(r) == ever' = ever \cup {[file |-> Target(r), key |-> ask[r].key, by |-> r]}

(* SEEDED FAULT: CreateFile overwrites a file that has appeared.           *)
MayCreateAnyway(r) == TRUE

(* If-None-Match: *, generation 0, no sha, a key the ConfigMap lacks.      *)
MayCreate(r) == ~Exists(Target(r))

CreateFile(r) ==
    /\ pc[r] = "create"
    /\ MayCreate(r)
    /\ Store(Target(r), [Empty EXCEPT ![ask[r].key] = r])
    /\ Ever(r)
    /\ UNCHANGED <<ask, todo, seen, attempt, elsewhere>>

CreateLands(r) ==
    /\ CreateFile(r)
    /\ Answer(r, "created")
    /\ UNCHANGED lost

(* Applied, but the answer is lost: createTeamFile takes it for a race.    *)
CreateLandsUnheard(r) ==
    /\ CreateFile(r)
    /\ Goto(r, "fallback")
    /\ lost' = lost \cup {r}

(* The file exists, or the storage refuses for a reason of its own.        *)
CreateRefused(r) ==
    /\ pc[r] = "create"
    /\ Goto(r, "fallback")
    /\ Unstored
    /\ UNCHANGED <<ask, todo, seen, attempt>>

(* SEEDED FAULT: the failed CreateFile is taken for a success.             *)
FallbackSaved(r) ==
    /\ pc[r] = "fallback"
    /\ Answer(r, IF Exists(Target(r)) THEN "created" ELSE "failed")
    /\ Unstored
    /\ UNCHANGED <<ask, todo, seen, attempt>>

(* The file can be read after all: fall back to a normal write.            *)
Fallback(r) ==
    /\ pc[r] = "fallback"
    /\ \/ Exists(Target(r)) /\ Goto(r, "read")
       \/ ~Exists(Target(r)) /\ Answer(r, "failed")
    /\ Unstored
    /\ UNCHANGED <<ask, todo, seen, attempt>>

-----------------------------------------------------------------------------
(***************************************************************************)
(* The backend's Write (ConditionalWrite) with buildCreate as Apply and a  *)
(* Changed that never says so.                                             *)
(***************************************************************************)

(* SEEDED FAULT: buildCreate replaces a flag that has appeared.            *)
BuildCreateBlind(r) ==
    /\ Exists(Target(r))
    /\ seen' = [seen EXCEPT ![r] = store[Target(r)]]
    /\ Goto(r, "put")

BuildCreate(r) ==
    \/ /\ ~Exists(Target(r))
       /\ Answer(r, "failed")
       /\ UNCHANGED seen
    \/ /\ Holds(Target(r), ask[r].key)
       /\ Answer(r, "duplicate")
       /\ UNCHANGED seen
    \/ /\ Exists(Target(r)) /\ ~Holds(Target(r), ask[r].key)
       /\ seen' = [seen EXCEPT ![r] = store[Target(r)]]
       /\ Goto(r, "put")

WriteReads(r) ==
    /\ pc[r] = "read"
    /\ BuildCreate(r)
    /\ Unstored
    /\ UNCHANGED <<ask, todo, attempt>>

MayPut(r) == store[Target(r)] = seen[r]

WritePuts(r) ==
    /\ pc[r] = "put"
    /\ MayPut(r)
    /\ Store(Target(r), [seen[r] EXCEPT ![ask[r].key] = r])
    /\ Ever(r)
    /\ \/ Answer(r, "created") /\ UNCHANGED lost
       \/ Answer(r, "failed") /\ lost' = lost \cup {r}
    /\ UNCHANGED <<ask, todo, seen, attempt, elsewhere>>

(* SEEDED FAULT: the attempts are not counted.                             *)
NextAttemptUncounted(r) == Goto(r, "read") /\ UNCHANGED attempt

NextAttempt(r) ==
    \/ /\ attempt[r] < Attempts
       /\ attempt' = [attempt EXCEPT ![r] = @ + 1]
       /\ Goto(r, "read")
    \/ /\ attempt[r] = Attempts
       /\ Answer(r, "keptChanging")
       /\ UNCHANGED attempt

(* The file is not as read, or only the version moved.                     *)
WriteRefused(r) ==
    /\ pc[r] = "put"
    /\ NextAttempt(r)
    /\ Unstored
    /\ UNCHANGED <<ask, todo, seen>>

-----------------------------------------------------------------------------
(* Any call of the storage may fail without effect.                        *)
StorageFails(r) ==
    /\ pc[r] \in {"list", "scan", "first", "fallback", "read", "put"}
    /\ pc[r] = "scan" => todo[r] # {}
    /\ Answer(r, "failed")
    /\ Unstored
    /\ UNCHANGED <<ask, todo, seen, attempt>>

(* Others add a flag or remove one, or add or remove a file: commits and   *)
(* uploads, and Studio's own deletes, renames and new environments.        *)
ElsewhereContent(f) ==
    IF Exists(f)
    THEN {Absent} \cup {[store[f] EXCEPT ![k] = a] : k \in Key, a \in {Outside, Nobody}}
    ELSE {Empty}

ChangeElsewhere(f) ==
    /\ elsewhere < MaxOutside
    /\ elsewhere' = elsewhere + 1
    /\ \E content \in ElsewhereContent(f) \ {store[f]} : Store(f, content)
    /\ UNCHANGED <<ask, pc, todo, seen, attempt, outcome, ever, lost>>

Create(r) ==
    \/ ListFiles(r) \/ Located(r) \/ \E f \in File : Scan(r, f)
    \/ FirstOfTeam(r) \/ CreateLands(r) \/ CreateLandsUnheard(r)
    \/ CreateRefused(r) \/ Fallback(r)
    \/ WriteReads(r) \/ WritePuts(r) \/ WriteRefused(r)
    \/ StorageFails(r)

Next ==
    \/ \E r \in Request : Create(r) \/ \E demand \in Asked : Submit(r, demand)
    \/ \E f \in File : ChangeElsewhere(f)

CreationSpec == Init /\ [][Next]_cvars

(* A handler's goroutine runs, and every call of the storage ends.         *)
FairCreationSpec == CreationSpec /\ \A r \in Request : WF_cvars(Create(r))
-----------------------------------------------------------------------------
(***************************************************************************)
(* Properties.                                                             *)
(***************************************************************************)
(* A create only adds: no step of one removes or replaces a flag of any    *)
(* file, whoever created it in between (crud_test.go:483 tries one such    *)
(* race; the team file's own creation and the fallback are others).        *)
CreatesOnlyAdd ==
    [][elsewhere' = elsewhere =>
         \A f \in File, k \in Key :
            Holds(f, k) => store'[f] # Absent /\ store'[f][k] = store[f][k]]_cvars

Put(r) == \E put \in ever : put.by = r

(* "created" was created; any other answer left nothing in the files,      *)
(* unless the storage lost the answer to the put; and only then can the    *)
(* flag a "duplicate" complains of be the request's own.                   *)
HonestAnswers ==
    \A r \in Request :
        /\ outcome[r] = "created" => Put(r)
        /\ outcome[r] \notin {"none", "created"} /\ Put(r) => r \in lost

(* A key that some file of the environment held all the time since the     *)
(* request arrived is not created a second time, in whatever file          *)
(* (README.md:265; locateKey reads every file, before anything is put).    *)
KnownKeysAreRefused ==
    \A r \in Request : Put(r) => blockers[r] = {}

(* Of the requests for one key in one file, at most one is told that it    *)
(* created the flag, unless the flag was removed in between elsewhere.     *)
OneWinner ==
    elsewhere = 0 =>
        \A r, s \in Request :
            outcome[r] = "created" /\ outcome[s] = "created" /\ ask[r] = ask[s]
                => r = s

(* "Flag keys must be unique across all files in an environment - Studio   *)
(* reports duplicates instead of letting one silently win" (README.md:265):*)
(* when nobody else changes anything, no two files hold the same key.      *)
KeysAreUnique ==
    elsewhere = 0 =>
        \A k \in Key :
            Cardinality({f \in File : Holds(f, k)}) <= 1

(* Every create is answered, however often its put is refused.             *)
EveryCreateAnswered ==
    \A r \in Request : pc[r] = "list" ~> pc[r] = "done"
=============================================================================
