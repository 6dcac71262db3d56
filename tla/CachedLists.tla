----------------------------- MODULE CachedLists -----------------------------
(***************************************************************************)
(* The two lists a replica caches, with a time to live: the names of the   *)
(* environments and the number of flags a team has in each (Service's      *)
(* envNames under envMu, teamIndex under teamMu).  A mutex is held over    *)
(* all the storage calls that fill its list, the inner one inside the      *)
(* outer; whatever Studio itself writes empties the lists afterwards.      *)
(*                                                                         *)
(* An environment is a directory that holds a flag file; flags are counted *)
(* for one team.  Time only shows in the lists' expiring.                  *)
(***************************************************************************)
EXTENDS Naturals, FiniteSets

CONSTANTS
    Env,        \* names of environments
    Request,    \* requests to this replica, made once
    Free,       \* a mutex nobody holds
    Nil,        \* no value: a list not cached, a request that names no Env
    NoJob,      \* the request has not arrived
    MaxEvents   \* bound: lists that expire, and directories added or removed
                \* elsewhere, together

Kind == {"environments", "teams", "createEnvironment", "write", "firstFlag"}
Listing == {"environments", "teams"}
Job == [kind: Listing, env: {Nil}] \cup [kind: Kind \ Listing, env: Env]

ASSUME ListsAssumption ==
    /\ Free \notin Request
    /\ Nil \notin Env /\ \A known \in SUBSET Env : Nil # known
    /\ NoJob \notin Job
    /\ MaxEvents \in Nat
    /\ IsFiniteSet(Request)

VARIABLES
    dirs,       \* storage: the environments there are
    flags,      \* storage: the team's flags in each
    envNames,   \* the cached names, or Nil
    teamIndex,  \* the cached counts, or Nil; an environment without an entry
                \* counts 0
    expired,    \* which of "env" and "team" is past its time to live
    envMu,      \* who holds envMu
    teamMu,     \* who holds teamMu
    job,        \* job[r]: what r asks for
    pc,         \* pc[r]: what r does next
    counting,   \* counting[r]: environmentNames is called by countTeamFlags
    pending,    \* pending[r]: the directories r still has to list
    names,      \* names[r]: what environmentNames has found or returned
    index,      \* index[r]: what countTeamFlags has counted or teamCounts
                \* returned
    outside,    \* the environments that others added or removed
    expiries,   \* how often a list has expired
    landed,     \* history: the requests that wrote to the storage
    due         \* history: due[r] is what was Answered when r arrived

locks == <<envMu, teamMu>>
lists == <<envNames, teamIndex, expired>>
storage == <<dirs, flags>>
locals == <<counting, pending, names, index>>
bounds == <<outside, expiries>>

lvars == <<storage, lists, locks, job, pc, locals, bounds, landed, due>>

Counts == [Env -> Nat]
None == [e \in Env |-> 0]

ListsTypeOK ==
    /\ dirs \subseteq Env
    /\ flags \in Counts
    /\ envNames # Nil => envNames \subseteq Env
    /\ teamIndex \in Counts \cup {Nil}
    /\ expired \subseteq {"env", "team"}
    /\ envMu \in Request \cup {Free} /\ teamMu \in Request \cup {Free}
    /\ job \in [Request -> Job \cup {NoJob}]
    /\ pc \in [Request -> {"idle", "teamLock", "envLock", "discover",
                           "count", "createFile", "createTeamFile", "write",
                           "dropEnv", "dropEnvFirst", "dropTeams",
                           "dropTeamsFirst", "failed", "done"}]
    /\ counting \in [Request -> BOOLEAN]
    /\ pending \in [Request -> SUBSET Env]
    /\ names \in [Request -> SUBSET Env]
    /\ index \in [Request -> Counts]
    /\ outside \subseteq Env
    /\ expiries \in 0..MaxEvents
    /\ landed \subseteq Request
    /\ due \in [Request -> [made: SUBSET Env, flags: Counts]]

Init ==
    /\ dirs \in SUBSET Env
    /\ flags = None
    /\ envNames = Nil /\ teamIndex = Nil /\ expired = {}
    /\ envMu = Free /\ teamMu = Free
    /\ job = [r \in Request |-> NoJob]
    /\ pc = [r \in Request |-> "idle"]
    /\ counting = [r \in Request |-> FALSE]
    /\ pending = [r \in Request |-> {}]
    /\ names = [r \in Request |-> {}]
    /\ index = [r \in Request |-> None]
    /\ outside = {} /\ expiries = 0
    /\ landed = {}
    /\ due = [r \in Request |-> [made |-> {}, flags |-> None]]

Goto(r, there) == pc' = [pc EXCEPT ![r] = there]

(* Where the handlers begin; permissions are checked on the request alone. *)
Entry ==
    [environments |-> "envLock", teams |-> "teamLock",
     createEnvironment |-> "envLock", write |-> "write",
     firstFlag |-> "createTeamFile"]

(* The environments and the flags whose creation has been answered.        *)
Answered ==
    LET Done(kinds) ==
          {r \in landed : pc[r] = "done" /\ job[r].kind \in kinds}
    IN [made |-> {job[r].env : r \in Done({"createEnvironment"})},
        flags |-> [e \in Env |->
                     Cardinality({r \in Done({"write", "firstFlag"}) :
                                    job[r].env = e})]]

Arrive(r, j) ==
    /\ pc[r] = "idle"
    /\ j.kind \in {"write", "firstFlag"} => j.env \in dirs
    /\ job' = [job EXCEPT ![r] = j]
    /\ due' = [due EXCEPT ![r] = Answered]
    /\ Goto(r, Entry[j.kind])
    /\ UNCHANGED <<storage, lists, locks, locals, bounds, landed>>

-----------------------------------------------------------------------------
(***************************************************************************)
(* environmentNames and discoverEnvironments.                              *)
(***************************************************************************)
(* What its caller does with the names: countTeamFlags counts,             *)
(* CreateEnvironment looks for its own, Environments and Teams answer.     *)
NamesReturned(r, found) ==
    /\ names' = [names EXCEPT ![r] = found]
    /\ CASE counting[r] ->
              /\ Goto(r, "count")
              /\ pending' = [pending EXCEPT ![r] = found]
         [] ~counting[r] /\ job[r].kind = "createEnvironment" ->
              /\ Goto(r, IF job[r].env \in found THEN "failed" ELSE "createFile")
              /\ UNCHANGED pending
         [] OTHER -> Goto(r, "done") /\ UNCHANGED pending

Cached(list, which) == list # Nil /\ which \notin expired

EnvironmentNamesCached(r) ==
    /\ pc[r] = "envLock"
    /\ envMu = Free
    /\ Cached(envNames, "env")
    /\ NamesReturned(r, envNames)
    /\ UNCHANGED <<storage, lists, locks, job, counting, index, bounds, landed, due>>

(* SEEDED FAULT: the mutex is released while the storage is asked.         *)
HoldEnvNot(r) == UNCHANGED envMu

HoldEnv(r) == envMu' = r

(* Not cached: ListDirectories, and then ListFiles for each.               *)
ListDirectories(r) ==
    /\ pc[r] = "envLock"
    /\ envMu = Free
    /\ ~Cached(envNames, "env")
    /\ HoldEnv(r)
    /\ pending' = [pending EXCEPT ![r] = dirs]
    /\ names' = [names EXCEPT ![r] = {}]
    /\ Goto(r, "discover")
    /\ UNCHANGED <<storage, lists, teamMu, job, counting, index, bounds, landed, due>>

(* A directory that is gone, or has no flag file, is no environment.       *)
ListFiles(r, e) ==
    /\ pc[r] = "discover"
    /\ e \in pending[r]
    /\ pending' = [pending EXCEPT ![r] = @ \ {e}]
    /\ names' = [names EXCEPT ![r] = @ \cup ({e} \cap dirs)]
    /\ UNCHANGED <<storage, lists, locks, job, pc, counting, index, bounds, landed, due>>

EnvironmentNamesFilled(r) ==
    /\ pc[r] = "discover"
    /\ pending[r] = {}
    /\ envNames' = names[r]
    /\ expired' = expired \ {"env"}
    /\ envMu' = Free
    /\ NamesReturned(r, names[r])
    /\ UNCHANGED <<storage, teamIndex, teamMu, job, counting, index, bounds, landed, due>>

-----------------------------------------------------------------------------
(***************************************************************************)
(* teamCounts and countTeamFlags.                                          *)
(***************************************************************************)
TeamCountsCached(r) ==
    /\ pc[r] = "teamLock"
    /\ teamMu = Free
    /\ Cached(teamIndex, "team")
    /\ index' = [index EXCEPT ![r] = teamIndex]
    /\ Goto(r, "envLock")
    /\ UNCHANGED <<storage, lists, locks, job, counting, pending, names, bounds, landed, due>>

StartCounting(r) ==
    /\ pc[r] = "teamLock"
    /\ teamMu = Free
    /\ ~Cached(teamIndex, "team")
    /\ teamMu' = r
    /\ counting' = [counting EXCEPT ![r] = TRUE]
    /\ Goto(r, "envLock")
    /\ UNCHANGED <<storage, lists, envMu, job, pending, names, index, bounds, landed, due>>

(* The files of one environment; one that is gone has no entry.            *)
CountFlags(r, e) ==
    /\ pc[r] = "count"
    /\ e \in pending[r]
    /\ pending' = [pending EXCEPT ![r] = @ \ {e}]
    /\ index' = [index EXCEPT ![r][e] = IF e \in dirs THEN flags[e] ELSE 0]
    /\ UNCHANGED <<storage, lists, locks, job, pc, counting, names, bounds, landed, due>>

TeamCountsFilled(r) ==
    /\ pc[r] = "count"
    /\ pending[r] = {}
    /\ teamIndex' = index[r]
    /\ expired' = expired \ {"team"}
    /\ teamMu' = Free
    /\ counting' = [counting EXCEPT ![r] = FALSE]
    /\ Goto(r, "envLock")
    /\ UNCHANGED <<storage, envNames, envMu, job, pending, names, index, bounds, landed, due>>

-----------------------------------------------------------------------------
(***************************************************************************)
(* What Studio writes, and the invalidation its callers defer.             *)
(***************************************************************************)
(* CreateEnvironment, createTeamFile: defer invalidateEnvironments.        *)
AfterCreate == "dropEnv"

(* Service.write: defer invalidateTeams.                                   *)
AfterWrite == "dropTeams"

AddFlag(e) == flags' = [flags EXCEPT ![e] = @ + 1]

(* The backends create no file twice; a directory may be there without it. *)
CreateFile(r) ==
    /\ pc[r] = "createFile"
    /\ job[r].env \in dirs => \A c \in landed : job[c] # job[r]
    /\ dirs' = dirs \cup {job[r].env}
    /\ landed' = landed \cup {r}
    /\ Goto(r, AfterCreate)
    /\ UNCHANGED <<flags, lists, locks, job, locals, bounds, due>>

CreateTeamFile(r) ==
    /\ pc[r] = "createTeamFile"
    /\ dirs' = dirs \cup {job[r].env}
    /\ AddFlag(job[r].env)
    /\ landed' = landed \cup {r}
    /\ Goto(r, AfterCreate)
    /\ UNCHANGED <<lists, locks, job, locals, bounds, due>>

Write(r) ==
    /\ pc[r] = "write"
    /\ job[r].env \in dirs
    /\ AddFlag(job[r].env)
    /\ landed' = landed \cup {r}
    /\ Goto(r, AfterWrite)
    /\ UNCHANGED <<dirs, lists, locks, job, locals, bounds, due>>

(* The invalidation is deferred whatever becomes of the write.  A team     *)
(* file that another request has created first is then written to.         *)
WriteFails(r) ==
    /\ \/ pc[r] \in {"createFile", "createTeamFile"} /\ Goto(r, AfterCreate)
       \/ pc[r] = "createTeamFile" /\ Goto(r, "dropEnvFirst")
       \/ pc[r] = "write" /\ Goto(r, AfterWrite)
    /\ UNCHANGED <<storage, lists, locks, job, locals, bounds, landed, due>>

(* The next lock invalidateEnvironments takes, and what follows it.        *)
Following ==
    [dropEnv |-> "dropTeams", dropEnvFirst |-> "dropTeamsFirst",
     dropTeams |-> "done", dropTeamsFirst |-> "write"]

(* SEEDED FAULT: envMu is unlocked by a defer, after invalidateTeams.      *)
InvalidateNamesHolding(r) ==
    /\ pc[r] \in {"dropEnv", "dropEnvFirst"}
    /\ envNames' = Nil
    /\ \/ envMu = Free /\ envMu' = r /\ Goto(r, pc[r])
       \/ envMu = r /\ teamMu = Free /\ envMu' = Free /\ Goto(r, Following[pc[r]])
    /\ UNCHANGED <<storage, teamIndex, expired, teamMu, job, locals, bounds, landed, due>>

(* SEEDED FAULT: the names are emptied without their mutex.                *)
InvalidateNamesUnlocked(r) ==
    /\ pc[r] \in {"dropEnv", "dropEnvFirst"}
    /\ envNames' = Nil
    /\ Goto(r, Following[pc[r]])
    /\ UNCHANGED <<storage, teamIndex, expired, locks, job, locals, bounds, landed, due>>

(* The first half of invalidateEnvironments.                               *)
InvalidateNames(r) ==
    /\ pc[r] \in {"dropEnv", "dropEnvFirst"}
    /\ envMu = Free
    /\ envNames' = Nil
    /\ Goto(r, Following[pc[r]])
    /\ UNCHANGED <<storage, teamIndex, expired, locks, job, locals, bounds, landed, due>>

InvalidateTeams(r) ==
    /\ pc[r] \in {"dropTeams", "dropTeamsFirst"}
    /\ teamMu = Free
    /\ teamIndex' = Nil
    /\ Goto(r, Following[pc[r]])
    /\ UNCHANGED <<storage, envNames, expired, locks, job, locals, bounds, landed, due>>

-----------------------------------------------------------------------------
Release(mu, r) == IF mu = r THEN Free ELSE mu

(* A listing or a read fails; the mutexes are released by defer.           *)
ListingFails(r) ==
    /\ pc[r] \in {"discover", "count"}
    /\ pc[r] = "count" => pending[r] # {}
    /\ envMu' = Release(envMu, r)
    /\ teamMu' = Release(teamMu, r)
    /\ Goto(r, "failed")
    /\ UNCHANGED <<storage, lists, job, locals, bounds, landed, due>>

Events == expiries + Cardinality(outside)

(* A list passes its time to live.                                         *)
Expire(which) ==
    /\ Events < MaxEvents
    /\ which \notin expired
    /\ which = "env" => envNames # Nil
    /\ which = "team" => teamIndex # Nil
    /\ expired' = expired \cup {which}
    /\ expiries' = expiries + 1
    /\ UNCHANGED <<storage, envNames, teamIndex, locks, job, pc, locals, outside, landed, due>>

(* Others add an environment's directory or remove it.                     *)
ChangeElsewhere(e) ==
    /\ e \notin outside
    /\ Events < MaxEvents
    /\ outside' = outside \cup {e}
    /\ IF e \in dirs
       THEN dirs' = dirs \ {e} /\ flags' = [flags EXCEPT ![e] = 0]
       ELSE dirs' = dirs \cup {e} /\ UNCHANGED flags
    /\ UNCHANGED <<lists, locks, job, pc, locals, expiries, landed, due>>

Step(r) ==
    \/ EnvironmentNamesCached(r) \/ ListDirectories(r)
    \/ EnvironmentNamesFilled(r)
    \/ TeamCountsCached(r) \/ StartCounting(r) \/ TeamCountsFilled(r)
    \/ \E e \in Env : ListFiles(r, e) \/ CountFlags(r, e)
    \/ CreateFile(r) \/ CreateTeamFile(r) \/ Write(r) \/ WriteFails(r)
    \/ InvalidateNames(r) \/ InvalidateTeams(r) \/ ListingFails(r)

Next ==
    \/ \E r \in Request :
         Step(r) \/ \E j \in Job : Arrive(r, j)
    \/ \E which \in {"env", "team"} : Expire(which)
    \/ \E e \in Env : ChangeElsewhere(e)

ListsSpec == Init /\ [][Next]_lvars
-----------------------------------------------------------------------------
(***************************************************************************)
(* Properties.                                                             *)
(***************************************************************************)
Told(r, kinds) == pc[r] = "done" /\ job[r].kind \in kinds

(* "creating an environment in Studio refreshes it straight away"          *)
(* (README.md:260): whoever asks this replica after the answer is shown    *)
(* the environment, also when another request was filling the list with an *)
(* older state of the storage meanwhile.                                   *)
OwnEnvironmentsShow ==
    \A r \in Request :
        Told(r, Listing) => due[r].made \ outside \subseteq names[r]

(* The environments that were there from the start or whose creation had   *)
(* been answered before r.                                                 *)
Settled(r) ==
    {e \in Env \ outside :
       \A c \in landed :
          job[c] = [kind |-> "createEnvironment", env |-> e] => e \in due[r].made}

(* The teams page counts every flag whose creation through this replica    *)
(* had been answered, in each environment it shows: the counts are never   *)
(* older than an invalidation, although they rest on names cached apart    *)
(* (teams.go countTeamFlags, service.go write).                            *)
OwnFlagsCounted ==
    \A r \in Request : \A e \in names[r] \cap Settled(r) :
        Told(r, {"teams"}) => index[r][e] >= due[r].flags[e]

(* Whoever changed something through this replica sees it in the lists.    *)
OwnChangesShow == OwnEnvironmentsShow /\ OwnFlagsCounted

(* The two mutexes, one inside the other and both over calls of the        *)
(* storage, and the invalidations that take them in turn never leave all   *)
(* unanswered requests waiting.  No step is ever repeated, so this is also *)
(* why every request is answered.                                          *)
Unanswered(r) == pc[r] \notin {"idle", "done", "failed"}

NoDeadlock ==
    (\E r \in Request : Unanswered(r)) => \E r \in Request : ENABLED Step(r)
=============================================================================
