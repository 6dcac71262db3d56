-------------------------- MODULE CachedLists_proofs --------------------------
(***************************************************************************)
(* Theorems about CachedLists, for any number of requests, environments    *)
(* and changes made elsewhere.                                             *)
(***************************************************************************)
EXTENDS CachedLists, FiniteSetTheorems, TLAPS

Listed == {"environments", "teams", "createEnvironment"}
Flagging == {"write", "firstFlag"}

LEMMA JobType ==
    ASSUME NEW j \in Job
    PROVE  /\ j.kind \in Kind /\ j # NoJob
           /\ j.kind \in Listing => j.env = Nil
           /\ j.kind \notin Listing => j.env \in Env
  BY ListsAssumption DEF Job, Kind, Listing

(* What the request asks for fits what it does.                            *)
Placed(r) ==
    /\ pc[r] = "idle" <=> job[r] = NoJob
    /\ pc[r] \in {"teamLock", "count"} => job[r].kind = "teams"
    /\ pc[r] \in {"envLock", "discover"} => job[r].kind \in Listed
    /\ pc[r] = "createFile" => job[r].kind = "createEnvironment"
    /\ pc[r] \in {"createTeamFile", "dropEnvFirst", "dropTeamsFirst"} =>
         job[r].kind = "firstFlag"
    /\ pc[r] = "write" => job[r].kind \in Flagging
    /\ pc[r] = "dropEnv" => job[r].kind \in {"createEnvironment", "firstFlag"}
    /\ pc[r] = "dropTeams" => job[r].kind \notin Listing

(* A mutex is held by whoever is in its critical section, and nobody else. *)
Locked(r) ==
    /\ envMu = r <=> pc[r] = "discover"
    /\ teamMu = r <=> counting[r] /\ pc[r] # "failed"
    /\ counting[r] => /\ pc[r] \in {"envLock", "discover", "count", "failed"}
                      /\ job[r].kind = "teams"
    /\ pc[r] = "count" => counting[r]

Orderly == IsFiniteSet(outside) /\ \A r \in Request : Placed(r) /\ Locked(r)

LEMMA EntryValues ==
    /\ Entry["environments"] = "envLock" /\ Entry["teams"] = "teamLock"
    /\ Entry["createEnvironment"] = "envLock" /\ Entry["write"] = "write"
    /\ Entry["firstFlag"] = "createTeamFile"
  BY DEF Entry

LEMMA FollowingValues ==
    /\ Following["dropEnv"] = "dropTeams"
    /\ Following["dropEnvFirst"] = "dropTeamsFirst"
    /\ Following["dropTeams"] = "done" /\ Following["dropTeamsFirst"] = "write"
  BY DEF Following

LEMMA InitTypes == Init => ListsTypeOK
  BY ListsAssumption
  DEF Init, ListsTypeOK, Counts, None, locks, lists, storage, locals, bounds

(* Where environmentNames' caller goes on, with the names it was given.    *)
LEMMA CallersGoOn ==
    ASSUME ListsTypeOK, NEW r \in Request, NEW found \in SUBSET Env,
           NamesReturned(r, found)
    PROVE  \E there \in {"count", "failed", "createFile", "done"},
              p \in {pending[r], found} :
             /\ names' = [names EXCEPT ![r] = found]
             /\ pc' = [pc EXCEPT ![r] = there]
             /\ pending' = [pending EXCEPT ![r] = p]
             /\ IF counting[r] THEN there = "count" /\ p = found
                ELSE IF job[r].kind = "createEnvironment"
                THEN there \in {"failed", "createFile"}
                ELSE there = "done"
<1>1. pending = [pending EXCEPT ![r] = pending[r]]
  BY DEF ListsTypeOK
<1>2. CASE counting[r]
  BY <1>2 DEF NamesReturned, Goto
<1>3. CASE ~counting[r] /\ job[r].kind = "createEnvironment"
  BY <1>1, <1>3 DEF NamesReturned, Goto
<1>4. CASE ~counting[r] /\ job[r].kind # "createEnvironment"
  BY <1>1, <1>4 DEF NamesReturned, Goto
<1>. QED  BY <1>2, <1>3, <1>4

LEMMA AnsweredType ==
    ASSUME ListsTypeOK, Orderly
    PROVE  Answered \in [made: SUBSET Env, flags: Counts]
<1>. DEFINE Done(kinds) ==
       {r \in landed : pc[r] = "done" /\ job[r].kind \in kinds}
<1>1. ASSUME NEW r \in Done({"createEnvironment"}) PROVE job[r].env \in Env
  BY JobType DEF ListsTypeOK, Orderly, Placed, Listing
<1>2. ASSUME NEW e \in Env
      PROVE  Cardinality({r \in Done({"write", "firstFlag"}) : job[r].env = e}) \in Nat
  <2>1. IsFiniteSet({r \in Done({"write", "firstFlag"}) : job[r].env = e})
    BY FS_Subset, ListsAssumption DEF ListsTypeOK
  <2>. QED  BY <2>1, FS_CardinalityType
<1>. QED  BY <1>1, <1>2 DEF Answered, Counts

LEMMA TypeStep ==
    ASSUME ListsTypeOK, Orderly, [Next]_lvars
    PROVE  ListsTypeOK'
<1>. USE DEF Goto, lists, storage, locals, bounds, locks
<1>1. ASSUME NEW r \in Request, EnvironmentNamesCached(r) PROVE ListsTypeOK'
  <2>1. envNames \in SUBSET Env
    BY <1>1 DEF EnvironmentNamesCached, Cached, ListsTypeOK
  <2>2. NamesReturned(r, envNames)
    BY <1>1 DEF EnvironmentNamesCached
  <2>3. PICK there \in {"count", "failed", "createFile", "done"},
             p \in {pending[r], envNames} :
               /\ names' = [names EXCEPT ![r] = envNames]
               /\ pc' = [pc EXCEPT ![r] = there]
               /\ pending' = [pending EXCEPT ![r] = p]
    BY <2>1, <2>2, CallersGoOn
  <2>. QED  BY <1>1, <2>1, <2>3 DEF EnvironmentNamesCached, ListsTypeOK
<1>2. ASSUME NEW r \in Request, ListDirectories(r) PROVE ListsTypeOK'
  BY <1>2 DEF ListDirectories, HoldEnv, ListsTypeOK
<1>3. ASSUME NEW r \in Request, EnvironmentNamesFilled(r) PROVE ListsTypeOK'
  <2>1. names[r] \in SUBSET Env
    BY DEF ListsTypeOK
  <2>2. NamesReturned(r, names[r])
    BY <1>3 DEF EnvironmentNamesFilled
  <2>3. PICK there \in {"count", "failed", "createFile", "done"},
             p \in {pending[r], names[r]} :
               /\ names' = [names EXCEPT ![r] = names[r]]
               /\ pc' = [pc EXCEPT ![r] = there]
               /\ pending' = [pending EXCEPT ![r] = p]
    BY <2>1, <2>2, CallersGoOn
  <2>. QED  BY <1>3, <2>1, <2>3 DEF EnvironmentNamesFilled, ListsTypeOK
<1>4. ASSUME NEW r \in Request, TeamCountsCached(r) PROVE ListsTypeOK'
  BY <1>4 DEF TeamCountsCached, Cached, ListsTypeOK
<1>5. ASSUME NEW r \in Request, StartCounting(r) PROVE ListsTypeOK'
  BY <1>5 DEF StartCounting, ListsTypeOK
<1>6. ASSUME NEW r \in Request, TeamCountsFilled(r) PROVE ListsTypeOK'
  BY <1>6 DEF TeamCountsFilled, ListsTypeOK
<1>7. ASSUME NEW r \in Request, NEW e \in Env, ListFiles(r, e) PROVE ListsTypeOK'
  BY <1>7 DEF ListFiles, ListsTypeOK
<1>8. ASSUME NEW r \in Request, NEW e \in Env, CountFlags(r, e) PROVE ListsTypeOK'
  BY <1>8 DEF CountFlags, ListsTypeOK, Counts
<1>9. ASSUME NEW r \in Request, CreateFile(r) PROVE ListsTypeOK'
  <2>1. job[r].env \in Env
    BY <1>9, JobType DEF CreateFile, Orderly, Placed, ListsTypeOK, Listing
  <2>. QED  BY <1>9, <2>1 DEF CreateFile, AfterCreate, ListsTypeOK
<1>10. ASSUME NEW r \in Request, CreateTeamFile(r) \/ Write(r) PROVE ListsTypeOK'
  <2>1. job[r].env \in Env
    BY <1>10, JobType
    DEF CreateTeamFile, Write, Orderly, Placed, ListsTypeOK, Listing, Flagging
  <2>2. [flags EXCEPT ![job[r].env] = @ + 1] \in Counts
    BY <2>1 DEF ListsTypeOK, Counts
  <2>. QED
    BY <1>10, <2>1, <2>2
    DEF CreateTeamFile, Write, AddFlag, AfterCreate, AfterWrite, ListsTypeOK
<1>11. ASSUME NEW r \in Request, WriteFails(r) PROVE ListsTypeOK'
  BY <1>11 DEF WriteFails, AfterCreate, AfterWrite, ListsTypeOK
<1>12. ASSUME NEW r \in Request, InvalidateNames(r) PROVE ListsTypeOK'
  BY <1>12, FollowingValues DEF InvalidateNames, ListsTypeOK
<1>13. ASSUME NEW r \in Request, InvalidateTeams(r) PROVE ListsTypeOK'
  BY <1>13, FollowingValues DEF InvalidateTeams, ListsTypeOK
<1>14. ASSUME NEW r \in Request, ListingFails(r) PROVE ListsTypeOK'
  BY <1>14 DEF ListingFails, Release, ListsTypeOK
<1>15. ASSUME NEW r \in Request, NEW j \in Job, Arrive(r, j) PROVE ListsTypeOK'
  <2>1. Entry[j.kind] \in {"envLock", "teamLock", "write", "createTeamFile"}
    BY EntryValues, JobType DEF Kind
  <2>. QED  BY <1>15, <2>1, AnsweredType DEF Arrive, ListsTypeOK
<1>16. ASSUME NEW which \in {"env", "team"}, Expire(which) PROVE ListsTypeOK'
  <2>1. Cardinality(outside) \in Nat /\ MaxEvents \in Nat
    BY FS_CardinalityType, ListsAssumption DEF Orderly
  <2>2. expiries' \in 0..MaxEvents
    BY <1>16, <2>1 DEF Expire, Events, ListsTypeOK
  <2>. QED  BY <1>16, <2>2 DEF Expire, ListsTypeOK
<1>17. ASSUME NEW e \in Env, ChangeElsewhere(e) PROVE ListsTypeOK'
  <2>1. dirs' \in SUBSET Env /\ flags' \in Counts
    <3>1. flags' = flags \/ flags' = [flags EXCEPT ![e] = 0]
      BY <1>17 DEF ChangeElsewhere
    <3>2. dirs' = dirs \ {e} \/ dirs' = dirs \cup {e}
      BY <1>17 DEF ChangeElsewhere
    <3>. QED  BY <3>1, <3>2 DEF ListsTypeOK, Counts
  <2>. QED  BY <1>17, <2>1 DEF ChangeElsewhere, ListsTypeOK
<1>18. CASE UNCHANGED lvars
  BY <1>18 DEF lvars, ListsTypeOK
<1>. QED
  BY <1>1, <1>2, <1>3, <1>4, <1>5, <1>6, <1>7, <1>8, <1>9, <1>10, <1>11, <1>12,
     <1>13, <1>14, <1>15, <1>16, <1>17, <1>18
  DEF Next, Step

-----------------------------------------------------------------------------
(* Who waits, and who holds what.                                          *)

(* A step of one request leaves the others where they are.                 *)
LEMMA OthersStay ==
    ASSUME ListsTypeOK, NEW r \in Request, NEW q \in Request, q # r,
           Step(r) \/ \E j \in Job : Arrive(r, j)
    PROVE  /\ pc'[q] = pc[q] /\ job'[q] = job[q] /\ due'[q] = due[q]
           /\ counting'[q] = counting[q] /\ pending'[q] = pending[q]
           /\ names'[q] = names[q] /\ index'[q] = index[q]
<1>1. CASE EnvironmentNamesCached(r) \/ EnvironmentNamesFilled(r)
  <2>1. PICK found \in SUBSET Env : NamesReturned(r, found)
    BY <1>1 DEF EnvironmentNamesCached, EnvironmentNamesFilled, Cached, ListsTypeOK
  <2>2. PICK there, p : /\ names' = [names EXCEPT ![r] = found]
                        /\ pc' = [pc EXCEPT ![r] = there]
                        /\ pending' = [pending EXCEPT ![r] = p]
    BY <2>1, CallersGoOn
  <2>. QED
    BY <1>1, <2>2 DEF EnvironmentNamesCached, EnvironmentNamesFilled, ListsTypeOK
<1>2. CASE \/ ListDirectories(r) \/ TeamCountsCached(r) \/ StartCounting(r)
           \/ TeamCountsFilled(r)
           \/ \E e \in Env : ListFiles(r, e) \/ CountFlags(r, e)
  BY <1>2
  DEF ListDirectories, TeamCountsCached, StartCounting, TeamCountsFilled, ListFiles,
      CountFlags, Goto, ListsTypeOK
<1>3. CASE \/ CreateFile(r) \/ CreateTeamFile(r) \/ Write(r) \/ WriteFails(r)
           \/ InvalidateNames(r) \/ InvalidateTeams(r) \/ ListingFails(r)
           \/ \E j \in Job : Arrive(r, j)
  BY <1>3
  DEF CreateFile, CreateTeamFile, Write, WriteFails, InvalidateNames,
      InvalidateTeams, ListingFails, Arrive, Goto, locals, ListsTypeOK
<1>. QED  BY <1>1, <1>2, <1>3 DEF Step

(* The mutexes change hands only at the step of whoever takes one that is  *)
(* free, or gives up its own.                                              *)
LEMMA OthersKeepTheirs ==
    ASSUME ListsTypeOK, Orderly, NEW r \in Request, NEW q \in Request, q # r,
           Step(r) \/ \E j \in Job : Arrive(r, j)
    PROVE  (envMu' = q <=> envMu = q) /\ (teamMu' = q <=> teamMu = q)
<1>1. Free \notin Request
  BY ListsAssumption
<1>2. CASE ListDirectories(r) \/ EnvironmentNamesFilled(r)
  BY <1>1, <1>2
  DEF ListDirectories, HoldEnv, EnvironmentNamesFilled, Orderly, Locked
<1>3. CASE StartCounting(r) \/ TeamCountsFilled(r)
  BY <1>1, <1>3 DEF StartCounting, TeamCountsFilled, Orderly, Locked
<1>4. CASE ListingFails(r)
  BY <1>1, <1>4 DEF ListingFails, Release
<1>5. CASE \/ EnvironmentNamesCached(r) \/ TeamCountsCached(r)
           \/ \E e \in Env : ListFiles(r, e) \/ CountFlags(r, e)
           \/ CreateFile(r) \/ CreateTeamFile(r) \/ Write(r) \/ WriteFails(r)
           \/ InvalidateNames(r) \/ InvalidateTeams(r)
           \/ \E j \in Job : Arrive(r, j)
  BY <1>5
  DEF EnvironmentNamesCached, TeamCountsCached, ListFiles, CountFlags, CreateFile,
      CreateTeamFile, Write, WriteFails, InvalidateNames, InvalidateTeams, Arrive,
      locks
<1>. QED  BY <1>2, <1>3, <1>4, <1>5 DEF Step

LEMMA OwnPlace ==
    ASSUME ListsTypeOK, Orderly, NEW r \in Request, Step(r)
    PROVE  Placed(r)' /\ Locked(r)'
<1>. USE ListsAssumption DEF Placed, Locked
<1>1. Placed(r) /\ Locked(r)
  BY DEF Orderly
<1>2. CASE EnvironmentNamesCached(r)
  <2>1. PICK there \in {"count", "failed", "createFile", "done"} :
          /\ pc' = [pc EXCEPT ![r] = there]
          /\ IF counting[r] THEN there = "count"
             ELSE IF job[r].kind = "createEnvironment"
             THEN there \in {"failed", "createFile"} ELSE there = "done"
    BY <1>2, CallersGoOn DEF EnvironmentNamesCached, Cached, ListsTypeOK
  <2>. QED  BY <1>1, <1>2, <2>1 DEF EnvironmentNamesCached, locks, ListsTypeOK
<1>3. CASE EnvironmentNamesFilled(r)
  <2>1. PICK there \in {"count", "failed", "createFile", "done"} :
          /\ pc' = [pc EXCEPT ![r] = there]
          /\ IF counting[r] THEN there = "count"
             ELSE IF job[r].kind = "createEnvironment"
             THEN there \in {"failed", "createFile"} ELSE there = "done"
    BY <1>3, CallersGoOn DEF EnvironmentNamesFilled, ListsTypeOK
  <2>. QED  BY <1>1, <1>3, <2>1 DEF EnvironmentNamesFilled, ListsTypeOK
<1>4. CASE ListDirectories(r)
  BY <1>1, <1>4 DEF ListDirectories, HoldEnv, Goto, ListsTypeOK
<1>5. CASE \E e \in Env : ListFiles(r, e) \/ CountFlags(r, e)
  BY <1>1, <1>5 DEF ListFiles, CountFlags, locks, ListsTypeOK
<1>6. CASE TeamCountsCached(r)
  BY <1>1, <1>6 DEF TeamCountsCached, Goto, locks, Listed, ListsTypeOK
<1>7. CASE StartCounting(r)
  BY <1>1, <1>7 DEF StartCounting, Goto, Listed, ListsTypeOK
<1>8. CASE TeamCountsFilled(r)
  BY <1>1, <1>8 DEF TeamCountsFilled, Goto, Listed, ListsTypeOK
<1>9. CASE CreateFile(r) \/ CreateTeamFile(r) \/ Write(r)
  BY <1>1, <1>9
  DEF CreateFile, CreateTeamFile, Write, AfterCreate, AfterWrite, Goto, locals, locks,
      Flagging, Listing, ListsTypeOK
<1>10. CASE WriteFails(r)
  BY <1>1, <1>10
  DEF WriteFails, AfterCreate, AfterWrite, Goto, locals, locks, Flagging, Listing,
      ListsTypeOK
<1>11. CASE InvalidateNames(r) \/ InvalidateTeams(r)
  BY <1>1, <1>11, FollowingValues
  DEF InvalidateNames, InvalidateTeams, Goto, locals, locks, Flagging, Listing,
      ListsTypeOK
<1>12. CASE ListingFails(r)
  BY <1>1, <1>12 DEF ListingFails, Release, Goto, locals, ListsTypeOK
<1>. QED
  BY <1>2, <1>3, <1>4, <1>5, <1>6, <1>7, <1>8, <1>9, <1>10, <1>11, <1>12 DEF Step

LEMMA ArrivalPlace ==
    ASSUME ListsTypeOK, Orderly, NEW r \in Request, NEW j \in Job, Arrive(r, j)
    PROVE  /\ Placed(r)' /\ Locked(r)'
           /\ pc'[r] \in {"envLock", "teamLock", "write", "createTeamFile"}
           /\ pc[r] = "idle" /\ job'[r] = j
<1>1. /\ pc[r] = "idle" /\ job'[r] = j /\ pc'[r] = Entry[j.kind]
      /\ UNCHANGED <<locks, counting>>
  BY DEF Arrive, Goto, locals, ListsTypeOK
<1>2. Placed(r) /\ Locked(r)
  BY DEF Orderly
<1>3. j.kind \in Kind /\ j # NoJob
  BY JobType
<1>. QED
  BY <1>1, <1>2, <1>3, EntryValues
  DEF Placed, Locked, Kind, Listed, Flagging, Listing, locks

LEMMA OrderlyStep ==
    ASSUME ListsTypeOK, Orderly, [Next]_lvars
    PROVE  Orderly'
<1>1. ASSUME NEW r \in Request, Step(r) \/ \E j \in Job : Arrive(r, j)
      PROVE  Orderly'
  <2>1. ASSUME NEW q \in Request, q # r PROVE Placed(q)' /\ Locked(q)'
    BY <1>1, <2>1, OthersStay, OthersKeepTheirs DEF Orderly, Placed, Locked
  <2>2. Placed(r)' /\ Locked(r)'
    BY <1>1, OwnPlace, ArrivalPlace
  <2>3. outside' = outside
    BY <1>1
    DEF Step, EnvironmentNamesCached, ListDirectories, ListFiles,
        EnvironmentNamesFilled, TeamCountsCached, StartCounting, CountFlags,
        TeamCountsFilled, CreateFile, CreateTeamFile, Write, WriteFails,
        InvalidateNames, InvalidateTeams, ListingFails, Arrive, bounds
  <2>. QED  BY <2>1, <2>2, <2>3 DEF Orderly
<1>2. ASSUME NEW which \in {"env", "team"}, Expire(which) PROVE Orderly'
  BY <1>2 DEF Expire, Orderly, Placed, Locked, locals, locks
<1>3. ASSUME NEW e \in Env, ChangeElsewhere(e) PROVE Orderly'
  <2>1. IsFiniteSet(outside')
    BY <1>3, FS_AddElement DEF ChangeElsewhere, Orderly
  <2>. QED  BY <1>3, <2>1 DEF ChangeElsewhere, Orderly, Placed, Locked, locals, locks
<1>4. CASE UNCHANGED lvars
  BY <1>4 DEF lvars, bounds, locals, locks, Orderly, Placed, Locked
<1>. QED  BY <1>1, <1>2, <1>3, <1>4 DEF Next

-----------------------------------------------------------------------------
(***************************************************************************)
(* What is in the storage, and who was told so.  An environment that was   *)
(* not changed elsewhere stays; it has one maker at most, and no fewer     *)
(* flags than have been put there.                                         *)
(***************************************************************************)
Makers(e) ==
    {c \in landed : job[c] = [kind |-> "createEnvironment", env |-> e]}

Flagged(e) == {c \in landed : job[c].kind \in Flagging /\ job[c].env = e}

AnsweredFlags(e) == {c \in Flagged(e) : pc[c] = "done"}

Recorded(r) ==
    /\ r \in landed => pc[r] \in {"dropEnv", "dropTeams", "done"}
    /\ r \in landed => job[r].kind \notin Listing
    /\ pc[r] # "idle" /\ job[r].kind \in Flagging =>
         job[r].env \in dirs \cup outside

Stored ==
    \A e \in Env \ outside :
        /\ Makers(e) # {} => e \in dirs
        /\ \A c, d \in Makers(e) : c = d
        /\ flags[e] >= Cardinality(Flagged(e))

(* What had been answered when a request arrived still has been.           *)
Owed(r) ==
    /\ \A e \in due[r].made : \E c \in Makers(e) : pc[c] = "done"
    /\ \A e \in Env : due[r].flags[e] <= Cardinality(AnsweredFlags(e))

StorageInv ==
    Stored /\ \A r \in Request : Recorded(r) /\ Owed(r)

(* A request keeps its job; an answered one does nothing more.             *)
LEMMA JobsStay ==
    ASSUME ListsTypeOK, Orderly, [Next]_lvars, NEW q \in Request, pc[q] # "idle"
    PROVE  /\ job'[q] = job[q] /\ due'[q] = due[q] /\ pc'[q] # "idle"
           /\ pc[q] = "done" => pc'[q] = "done" /\ names'[q] = names[q]
                                /\ index'[q] = index[q] /\ counting'[q] = counting[q]
<1>1. CASE Step(q)
  <2>1. job' = job /\ due' = due /\ pc[q] # "done"
    BY <1>1
    DEF Step, EnvironmentNamesCached, ListDirectories, ListFiles,
        EnvironmentNamesFilled, TeamCountsCached, StartCounting, CountFlags,
        TeamCountsFilled, CreateFile, CreateTeamFile, Write, WriteFails,
        InvalidateNames, InvalidateTeams, ListingFails
  <2>2. pc'[q] # "idle"
    <3>1. Placed(q)'
      BY <1>1, OwnPlace
    <3>2. job[q] # NoJob
      BY DEF Orderly, Placed
    <3>. QED  BY <2>1, <3>1, <3>2 DEF Placed
  <2>. QED  BY <2>1, <2>2
<1>2. ASSUME NEW j \in Job, Arrive(q, j) PROVE FALSE
  BY <1>2 DEF Arrive
<1>3. ASSUME NEW r \in Request, r # q, Step(r) \/ \E j \in Job : Arrive(r, j)
      PROVE  /\ job'[q] = job[q] /\ due'[q] = due[q] /\ pc'[q] = pc[q]
             /\ names'[q] = names[q] /\ index'[q] = index[q]
             /\ counting'[q] = counting[q]
  BY <1>3, OthersStay
<1>4. CASE \/ \E which \in {"env", "team"} : Expire(which)
           \/ \E e \in Env : ChangeElsewhere(e)
           \/ UNCHANGED lvars
  BY <1>4 DEF Expire, ChangeElsewhere, lvars, locals
<1>. QED  BY <1>1, <1>2, <1>3, <1>4 DEF Next

(* Every step but these leaves the storage alone.                          *)
LEMMA StorageStep ==
    ASSUME [Next]_lvars
    PROVE  \/ UNCHANGED <<dirs, flags, outside, landed>>
           \/ \E r \in Request : CreateFile(r) \/ CreateTeamFile(r) \/ Write(r)
           \/ \E e \in Env : ChangeElsewhere(e)
<1>1. ASSUME NEW r \in Request,
             \/ Step(r) /\ ~CreateFile(r) /\ ~CreateTeamFile(r) /\ ~Write(r)
             \/ \E j \in Job : Arrive(r, j)
      PROVE  UNCHANGED <<dirs, flags, outside, landed>>
  BY <1>1
  DEF Step, EnvironmentNamesCached, ListDirectories, ListFiles,
      EnvironmentNamesFilled, TeamCountsCached, StartCounting, CountFlags,
      TeamCountsFilled, WriteFails, InvalidateNames, InvalidateTeams, ListingFails,
      Arrive, bounds, storage
<1>2. CASE \/ \E which \in {"env", "team"} : Expire(which)
           \/ UNCHANGED lvars
  BY <1>2 DEF Expire, lvars, storage, bounds
<1>. QED  BY <1>1, <1>2 DEF Next

LEMMA LandedGrows ==
    ASSUME [Next]_lvars
    PROVE  landed \subseteq landed' /\ outside \subseteq outside'
  BY StorageStep DEF CreateFile, CreateTeamFile, Write, ChangeElsewhere, bounds

(* What has been made and answered stays so.                               *)
LEMMA AnswersStay ==
    ASSUME ListsTypeOK, Orderly, [Next]_lvars, StorageInv, NEW e
    PROVE  /\ Makers(e) \subseteq Makers(e)'
           /\ Flagged(e) \subseteq Flagged(e)'
           /\ AnsweredFlags(e) \subseteq AnsweredFlags(e)'
           /\ \A c \in Makers(e) : pc[c] = "done" => pc'[c] = "done"
           /\ IsFiniteSet(Flagged(e)')
           /\ Cardinality(AnsweredFlags(e)) \in Nat
           /\ Cardinality(AnsweredFlags(e)') \in Nat
           /\ Cardinality(AnsweredFlags(e)) <= Cardinality(AnsweredFlags(e)')
           /\ Cardinality(AnsweredFlags(e)) <= Cardinality(Flagged(e))
           /\ Cardinality(Flagged(e)) \in Nat
<1>1. \A c \in landed : /\ c \in Request /\ c \in landed' /\ pc[c] # "idle"
                        /\ job'[c] = job[c]
                        /\ pc[c] = "done" => pc'[c] = "done"
  BY LandedGrows, JobsStay DEF StorageInv, Recorded, ListsTypeOK
<1>2. /\ Makers(e) \subseteq Makers(e)' /\ Flagged(e) \subseteq Flagged(e)'
      /\ AnsweredFlags(e) \subseteq AnsweredFlags(e)'
      /\ \A c \in Makers(e) : pc[c] = "done" => pc'[c] = "done"
  BY <1>1 DEF Makers, Flagged, AnsweredFlags
<1>3. landed \subseteq Request /\ landed' \subseteq Request
  BY TypeStep DEF ListsTypeOK
<1>4. /\ Flagged(e) \subseteq Request /\ Flagged(e)' \subseteq Request
      /\ AnsweredFlags(e) \subseteq Flagged(e)
      /\ AnsweredFlags(e)' \subseteq Flagged(e)'
  BY <1>3 DEF Flagged, AnsweredFlags
<1>5. IsFiniteSet(Flagged(e)) /\ IsFiniteSet(Flagged(e)')
  BY <1>4, FS_Subset, ListsAssumption
<1>6. IsFiniteSet(AnsweredFlags(e)) /\ IsFiniteSet(AnsweredFlags(e)')
  BY <1>4, <1>5, FS_Subset
<1>7. /\ Cardinality(AnsweredFlags(e)) <= Cardinality(AnsweredFlags(e)')
      /\ Cardinality(AnsweredFlags(e)) <= Cardinality(Flagged(e))
  BY <1>2, <1>4, <1>5, <1>6, FS_Subset
<1>. QED  BY <1>2, <1>5, <1>6, <1>7, FS_CardinalityType

LEMMA JobIs ==
    ASSUME NEW j \in Job, j.kind \notin Listing
    PROVE  j = [kind |-> j.kind, env |-> j.env] /\ j.env \in Env
  BY DEF Job

(* Who is about to write has not yet written.                              *)
LEMMA WriterIs ==
    ASSUME ListsTypeOK, Orderly, StorageInv, NEW r \in Request,
           CreateFile(r) \/ CreateTeamFile(r) \/ Write(r)
    PROVE  /\ r \notin landed /\ landed' = landed \cup {r} /\ job' = job
           /\ outside' = outside
           /\ job[r] = [kind |-> job[r].kind, env |-> job[r].env]
           /\ job[r].env \in Env
           /\ IF CreateFile(r) THEN job[r].kind = "createEnvironment"
                               ELSE job[r].kind \in Flagging
           /\ dirs' = dirs \/ dirs' = dirs \cup {job[r].env}
           /\ pc'[r] \in {"dropEnv", "dropTeams"}
<1>1. /\ pc[r] \in {"createFile", "createTeamFile", "write"}
      /\ CreateFile(r) <=> pc[r] = "createFile"
      /\ landed' = landed \cup {r} /\ job' = job /\ outside' = outside
      /\ dirs' = dirs \/ dirs' = dirs \cup {job[r].env}
      /\ pc'[r] \in {"dropEnv", "dropTeams"}
  BY DEF CreateFile, CreateTeamFile, Write, bounds, Goto, AfterCreate, AfterWrite,
         ListsTypeOK
<1>2. /\ job[r].kind \in {"createEnvironment", "write", "firstFlag"}
      /\ job[r] \in Job
      /\ pc[r] = "createFile" <=> job[r].kind = "createEnvironment"
  BY <1>1 DEF Orderly, Placed, ListsTypeOK, Flagging
<1>. QED  BY <1>1, <1>2, JobIs DEF StorageInv, Recorded, Listing, Flagging

LEMMA StoredStep ==
    ASSUME ListsTypeOK, Orderly, StorageInv, [Next]_lvars
    PROVE  Stored'
<1> SUFFICES ASSUME NEW e \in Env, e \notin outside'
             PROVE  /\ Makers(e)' # {} => e \in dirs'
                    /\ \A c, d \in Makers(e)' : c = d
                    /\ flags'[e] >= Cardinality(Flagged(e)')
  BY DEF Stored
<1>1. /\ e \notin outside
      /\ Makers(e) # {} => e \in dirs
      /\ \A c, d \in Makers(e) : c = d
      /\ flags[e] >= Cardinality(Flagged(e)) /\ flags[e] \in Nat
      /\ Cardinality(Flagged(e)) \in Nat
  BY LandedGrows, AnswersStay DEF StorageInv, Stored, ListsTypeOK, Counts
<1>2. \A c \in landed : job'[c] = job[c]
  BY JobsStay DEF StorageInv, Recorded, ListsTypeOK
<1>3. CASE UNCHANGED <<dirs, flags, outside, landed>>
  <2>1. Makers(e)' = Makers(e) /\ Flagged(e)' = Flagged(e)
    BY <1>2, <1>3 DEF Makers, Flagged
  <2>. QED  BY <1>1, <1>3, <2>1
<1>4. ASSUME NEW r \in Request, CreateFile(r)
      PROVE  /\ Makers(e)' # {} => e \in dirs'
             /\ \A c, d \in Makers(e)' : c = d
             /\ flags'[e] >= Cardinality(Flagged(e)')
  <2>1. /\ landed' = landed \cup {r} /\ job' = job /\ flags' = flags
        /\ job[r] = [kind |-> "createEnvironment", env |-> job[r].env]
        /\ dirs' = dirs \cup {job[r].env}
        /\ job[r].env \in dirs => \A c \in landed : job[c] # job[r]
    BY <1>4, WriterIs DEF CreateFile
  <2>2. Flagged(e)' = Flagged(e)
    BY <2>1 DEF Flagged, Flagging
  <2>3. CASE e = job[r].env
    <3>1. Makers(e) = {}
      BY <1>1, <2>1, <2>3 DEF Makers
    <3>2. Makers(e)' = {r}
      BY <2>1, <2>3, <3>1 DEF Makers
    <3>. QED  BY <1>1, <2>1, <2>2, <2>3, <3>2
  <2>4. CASE e # job[r].env
    <3>1. [kind |-> "createEnvironment", env |-> e]
            # [kind |-> "createEnvironment", env |-> job[r].env]
      BY <2>4
    <3>2. Makers(e)' = Makers(e)
      BY <2>1, <3>1 DEF Makers
    <3>. QED  BY <1>1, <2>1, <2>2, <3>2
  <2>. QED  BY <2>3, <2>4
<1>5. ASSUME NEW r \in Request, CreateTeamFile(r) \/ Write(r)
      PROVE  /\ Makers(e)' # {} => e \in dirs'
             /\ \A c, d \in Makers(e)' : c = d
             /\ flags'[e] >= Cardinality(Flagged(e)')
  <2>1. /\ landed' = landed \cup {r} /\ r \notin landed /\ job' = job
        /\ flags' = [flags EXCEPT ![job[r].env] = @ + 1]
        /\ job[r].kind \in Flagging /\ job[r].env \in Env
        /\ dirs \subseteq dirs'
    <3>1. pc[r] # "createFile"
      BY <1>5 DEF CreateTeamFile, Write
    <3>. QED
      BY <1>5, <3>1, WriterIs DEF CreateTeamFile, Write, AddFlag, CreateFile
  <2>2. Makers(e)' = Makers(e)
    <3>1. job[r] # [kind |-> "createEnvironment", env |-> e]
      BY <2>1 DEF Flagging
    <3>. QED  BY <2>1, <3>1 DEF Makers
  <2>3. CASE e = job[r].env
    <3>1. Flagged(e)' = Flagged(e) \cup {r} /\ r \notin Flagged(e)
      BY <2>1, <2>3 DEF Flagged
    <3>2. IsFiniteSet(Flagged(e))
      BY FS_Subset, ListsAssumption DEF Flagged, ListsTypeOK
    <3>3. Cardinality(Flagged(e)') = Cardinality(Flagged(e)) + 1
      BY <3>1, <3>2, FS_AddElement
    <3>4. flags'[e] = flags[e] + 1
      BY <2>1, <2>3 DEF ListsTypeOK, Counts
    <3>. QED  BY <1>1, <2>1, <2>2, <3>3, <3>4
  <2>4. CASE e # job[r].env
    <3>1. Flagged(e)' = Flagged(e) /\ flags'[e] = flags[e]
      BY <2>1, <2>4 DEF Flagged, ListsTypeOK, Counts
    <3>. QED  BY <1>1, <2>1, <2>2, <3>1
  <2>. QED  BY <2>3, <2>4
<1>6. ASSUME NEW f \in Env, ChangeElsewhere(f)
      PROVE  /\ Makers(e)' # {} => e \in dirs'
             /\ \A c, d \in Makers(e)' : c = d
             /\ flags'[e] >= Cardinality(Flagged(e)')
  <2>1. /\ e # f /\ (e \in dirs' <=> e \in dirs)
        /\ landed' = landed /\ job' = job
        /\ flags' = flags \/ flags' = [flags EXCEPT ![f] = 0]
    BY <1>6 DEF ChangeElsewhere
  <2>2. Makers(e)' = Makers(e) /\ Flagged(e)' = Flagged(e) /\ flags'[e] = flags[e]
    BY <2>1 DEF Makers, Flagged, ListsTypeOK, Counts
  <2>. QED  BY <1>1, <2>1, <2>2
<1>. QED  BY <1>3, <1>4, <1>5, <1>6, StorageStep

(* Environments there once were are there, or were changed elsewhere.      *)
LEMMA DirsStay ==
    ASSUME [Next]_lvars
    PROVE  /\ dirs \cup outside \subseteq dirs' \cup outside'
           /\ \A e \in dirs : e \notin outside' => e \in dirs'
  BY StorageStep DEF CreateFile, CreateTeamFile, Write, ChangeElsewhere, bounds

LEMMA RecordedStep ==
    ASSUME ListsTypeOK, Orderly, StorageInv, [Next]_lvars, NEW q \in Request
    PROVE  Recorded(q)'
<1>1. Recorded(q)
  BY DEF StorageInv
<1>2. CASE q \in landed
  <2>1. /\ pc[q] \in {"dropEnv", "dropTeams", "done"} /\ job[q].kind \notin Listing
        /\ job'[q] = job[q]
    BY <1>1, <1>2, JobsStay DEF Recorded
  <2>2. pc'[q] \in {"dropEnv", "dropTeams", "done"}
    <3>1. CASE Step(q)
      <4>1. InvalidateNames(q) \/ InvalidateTeams(q)
        BY <2>1, <3>1
        DEF Step, EnvironmentNamesCached, ListDirectories, ListFiles,
            EnvironmentNamesFilled, TeamCountsCached, StartCounting, CountFlags,
            TeamCountsFilled, CreateFile, CreateTeamFile, Write, WriteFails,
            ListingFails
      <4>. QED
        BY <2>1, <4>1, FollowingValues
        DEF InvalidateNames, InvalidateTeams, Goto, ListsTypeOK
    <3>2. CASE ~Step(q)
      <4>1. pc'[q] = pc[q]
        BY <2>1, <3>2, OthersStay
        DEF Next, Arrive, Expire, ChangeElsewhere, lvars
      <4>. QED  BY <2>1, <4>1
    <3>. QED  BY <3>1, <3>2
  <2>. QED  BY <1>1, <2>1, <2>2, DirsStay DEF Recorded
<1>3. CASE q \notin landed
  <2>1. q \in landed' => /\ pc'[q] \in {"dropEnv", "dropTeams"}
                         /\ job'[q].kind \notin Listing
    <3>1. ASSUME NEW r \in Request, CreateFile(r) \/ CreateTeamFile(r) \/ Write(r),
                 q \in landed'
          PROVE  /\ pc'[q] \in {"dropEnv", "dropTeams"}
                 /\ job'[q].kind \notin Listing
      BY <1>3, <3>1, WriterIs DEF Listing, Flagging
    <3>. QED  BY <1>3, <3>1, StorageStep DEF ChangeElsewhere
  <2>2. pc'[q] # "idle" /\ job'[q].kind \in Flagging => job'[q].env \in dirs' \cup outside'
    <3>1. CASE pc[q] # "idle"
      BY <1>1, <3>1, JobsStay, DirsStay DEF Recorded
    <3>2. ASSUME NEW j \in Job, Arrive(q, j)
          PROVE  job'[q].kind \in Flagging => job'[q].env \in dirs' \cup outside'
      <4>1. job'[q] = j
        BY <3>2, ArrivalPlace
      <4>2. dirs' = dirs /\ (j.kind \in Flagging => j.env \in dirs)
        BY <3>2 DEF Arrive, storage, Flagging
      <4>. QED  BY <4>1, <4>2
    <3>3. CASE pc[q] = "idle" /\ ~\E j \in Job : Arrive(q, j)
      <4>1. ~Step(q)
        BY <3>3
        DEF Step, EnvironmentNamesCached, ListDirectories, ListFiles,
            EnvironmentNamesFilled, TeamCountsCached, StartCounting, CountFlags,
            TeamCountsFilled, CreateFile, CreateTeamFile, Write, WriteFails,
            InvalidateNames, InvalidateTeams, ListingFails
      <4>2. pc'[q] = pc[q]
        BY <3>3, <4>1, OthersStay DEF Next, Expire, ChangeElsewhere, lvars
      <4>. QED  BY <3>3, <4>2
    <3>. QED  BY <3>1, <3>2, <3>3
  <2>. QED  BY <2>1, <2>2 DEF Recorded
<1>. QED  BY <1>2, <1>3

LEMMA OwedStep ==
    ASSUME ListsTypeOK, Orderly, StorageInv, [Next]_lvars, NEW q \in Request
    PROVE  Owed(q)'
<1>1. Owed(q)
  BY DEF StorageInv
<1>2. CASE due'[q] = due[q]
  <2>1. ASSUME NEW e \in due[q].made PROVE \E c \in Makers(e)' : pc'[c] = "done"
    BY <1>1, <2>1, AnswersStay DEF Owed
  <2>2. ASSUME NEW e \in Env
        PROVE  due[q].flags[e] <= Cardinality(AnsweredFlags(e)')
    <3>1. due[q].flags[e] <= Cardinality(AnsweredFlags(e)) /\ due[q].flags[e] \in Nat
      BY <1>1 DEF Owed, ListsTypeOK, Counts
    <3>. QED  BY <3>1, AnswersStay
  <2>. QED  BY <1>2, <2>1, <2>2 DEF Owed
<1>3. ASSUME NEW j \in Job, Arrive(q, j) PROVE Owed(q)'
  <2>1. due'[q] = Answered
    BY <1>3 DEF Arrive, ListsTypeOK
  <2>2. ASSUME NEW e \in Answered.made PROVE \E c \in Makers(e)' : pc'[c] = "done"
    <3>1. PICK c \in landed : /\ pc[c] = "done" /\ job[c].kind = "createEnvironment"
                              /\ job[c].env = e
      BY DEF Answered
    <3>2. job[c] \in Job /\ job[c].kind \notin Listing
      BY <3>1 DEF Orderly, Placed, ListsTypeOK, Listing
    <3>3. c \in Makers(e)
      BY <3>1, <3>2, JobIs DEF Makers
    <3>. QED  BY <3>1, <3>3, AnswersStay
  <2>3. ASSUME NEW e \in Env
        PROVE  Answered.flags[e] <= Cardinality(AnsweredFlags(e)')
    <3>1. Answered.flags[e] = Cardinality(AnsweredFlags(e))
      <4>1. {r \in {c \in landed : pc[c] = "done" /\ job[c].kind \in Flagging} :
               job[r].env = e} = AnsweredFlags(e)
        BY DEF AnsweredFlags, Flagged
      <4>. QED  BY <4>1 DEF Answered, Flagging
    <3>. QED  BY <3>1, AnswersStay
  <2>. QED  BY <2>1, <2>2, <2>3 DEF Owed
<1>4. CASE due'[q] # due[q]
  <2>1. \E j \in Job : Arrive(q, j)
    <3>1. ~Step(q)
      BY <1>4
      DEF Step, EnvironmentNamesCached, ListDirectories, ListFiles,
          EnvironmentNamesFilled, TeamCountsCached, StartCounting, CountFlags,
          TeamCountsFilled, CreateFile, CreateTeamFile, Write, WriteFails,
          InvalidateNames, InvalidateTeams, ListingFails
    <3>. QED
      BY <1>4, <3>1, OthersStay DEF Next, Expire, ChangeElsewhere, lvars
  <2>. QED  BY <1>3, <2>1
<1>. QED  BY <1>2, <1>4

LEMMA StorageInvStep ==
    ASSUME ListsTypeOK, Orderly, StorageInv, [Next]_lvars
    PROVE  StorageInv'
  BY StoredStep, RecordedStep, OwedStep DEF StorageInv

-----------------------------------------------------------------------------
(***************************************************************************)
(* What the lists hold.  envNames, or the list being filled under envMu,   *)
(* has every environment whose makers are past invalidateEnvironments; the *)
(* counts, or those being taken under teamMu, have every answered flag of  *)
(* an environment whose makers are past invalidateTeams too.               *)
(***************************************************************************)
NamesThere ==
    /\ envNames # Nil => envNames \subseteq dirs \cup outside
    /\ \A r \in Request : names[r] \subseteq dirs \cup outside

NamesDropped(e) == \A c \in Makers(e) : pc[c] # "dropEnv"

NamesFresh ==
    \A e \in dirs \ outside : NamesDropped(e) =>
        /\ envNames # Nil => e \in envNames
        /\ \A r \in Request : pc[r] = "discover" => e \in names[r] \cup pending[r]

CountsDropped(e) == \A c \in Makers(e) : pc[c] = "done"

CountsFresh ==
    \A e \in dirs \ outside : CountsDropped(e) =>
        /\ teamIndex # Nil => teamIndex[e] >= Cardinality(AnsweredFlags(e))
        /\ \A r \in Request : pc[r] = "count" =>
             e \in pending[r] \/ index[r][e] >= Cardinality(AnsweredFlags(e))

(* A request for the teams page has its counts from teamCounts on.         *)
HasCounts(r) ==
    /\ job[r].kind = "teams" /\ ~counting[r]
    /\ pc[r] \in {"envLock", "discover", "done"}

Served(r) ==
    pc[r] # "idle" =>
        /\ Told(r, Listing) => due[r].made \ outside \subseteq names[r]
        /\ HasCounts(r) =>
             \A e \in Settled(r) \cap dirs : index[r][e] >= due[r].flags[e]

ListsInv ==
    /\ ListsTypeOK
    /\ Orderly
    /\ StorageInv
    /\ NamesThere
    /\ NamesFresh
    /\ CountsFresh
    /\ \A r \in Request : Served(r)

(* A directory comes with its maker, who has everything to invalidate yet. *)
LEMMA ThereBefore ==
    ASSUME ListsTypeOK, Orderly, StorageInv, [Next]_lvars,
           NEW e \in dirs' \ outside'
    PROVE  \/ e \in dirs \ outside
           \/ \E c \in Makers(e)' : pc'[c] = "dropEnv"
<1>1. e \notin outside /\ e \in Env
  BY LandedGrows, TypeStep DEF ListsTypeOK
<1>2. ASSUME NEW r \in Request, CreateFile(r), e \notin dirs
      PROVE  r \in Makers(e)' /\ pc'[r] = "dropEnv"
  <2>1. /\ landed' = landed \cup {r} /\ job' = job
        /\ job[r] = [kind |-> "createEnvironment", env |-> job[r].env]
        /\ e = job[r].env
    BY <1>2, WriterIs DEF CreateFile
  <2>2. pc'[r] = "dropEnv"
    BY <1>2 DEF CreateFile, AfterCreate, Goto, ListsTypeOK
  <2>. QED  BY <2>1, <2>2 DEF Makers
<1>3. ASSUME NEW r \in Request, CreateTeamFile(r) \/ Write(r)
      PROVE  e \in dirs
  <2>1. /\ dirs' = dirs \/ dirs' = dirs \cup {job[r].env}
        /\ job[r].env \in dirs \cup outside
    <3>1. pc[r] \in {"createTeamFile", "write"}
      BY <1>3 DEF CreateTeamFile, Write
    <3>2. job[r].kind \in Flagging
      BY <3>1 DEF Orderly, Placed, Flagging
    <3>. QED
      BY <1>3, <3>1, <3>2 DEF CreateTeamFile, Write, StorageInv, Recorded
  <2>. QED  BY <1>1, <2>1
<1>4. ASSUME NEW f \in Env, ChangeElsewhere(f) PROVE e \in dirs
  BY <1>4 DEF ChangeElsewhere
<1>. QED  BY <1>1, <1>2, <1>3, <1>4, StorageStep

(* What is dropped was dropped before, except at the very invalidation.    *)
LEMMA DroppedBefore ==
    ASSUME ListsTypeOK, Orderly, StorageInv, [Next]_lvars, NEW e
    PROVE  /\ NamesDropped(e)' =>
                NamesDropped(e) \/ \E c \in Request : InvalidateNames(c)
           /\ \/ \E c \in Request : InvalidateTeams(c)
              \/ /\ AnsweredFlags(e)' = AnsweredFlags(e)
                 /\ CountsDropped(e)' => CountsDropped(e)
<1>1. ASSUME NEW c \in Request, pc[c] = "dropEnv", pc'[c] # "dropEnv"
      PROVE  InvalidateNames(c)
  <2>1. Step(c)
    BY <1>1, OthersStay DEF Next, Arrive, Expire, ChangeElsewhere, lvars
  <2>. QED
    BY <1>1, <2>1
    DEF Step, EnvironmentNamesCached, ListDirectories, ListFiles,
        EnvironmentNamesFilled, TeamCountsCached, StartCounting, CountFlags,
        TeamCountsFilled, CreateFile, CreateTeamFile, Write, WriteFails,
        InvalidateTeams, ListingFails
<1>2. ASSUME NEW c \in landed', pc'[c] = "done", ~InvalidateTeams(c)
      PROVE  c \in landed /\ pc[c] = "done"
  <2>1. c \in landed
    BY <1>2, StorageStep, WriterIs DEF ChangeElsewhere
  <2>2. c \in Request /\ pc[c] \in {"dropEnv", "dropTeams", "done"}
    BY <2>1 DEF StorageInv, Recorded, ListsTypeOK
  <2>3. CASE Step(c)
    <3>1. InvalidateNames(c)
      BY <1>2, <2>2, <2>3
      DEF Step, EnvironmentNamesCached, ListDirectories, ListFiles,
          EnvironmentNamesFilled, TeamCountsCached, StartCounting, CountFlags,
          TeamCountsFilled, CreateFile, CreateTeamFile, Write, WriteFails,
          ListingFails
    <3>. QED
      BY <1>2, <2>2, <3>1, FollowingValues DEF InvalidateNames, Goto, ListsTypeOK
  <2>4. CASE ~Step(c)
    <3>1. pc'[c] = pc[c]
      BY <2>2, <2>4, OthersStay DEF Next, Arrive, Expire, ChangeElsewhere, lvars
    <3>. QED  BY <1>2, <2>1, <3>1
  <2>. QED  BY <2>3, <2>4
<1>3. NamesDropped(e)' => NamesDropped(e) \/ \E c \in Request : InvalidateNames(c)
  BY <1>1, AnswersStay DEF NamesDropped, Makers, ListsTypeOK
<1>4. ASSUME \A c \in Request : ~InvalidateTeams(c)
      PROVE  /\ AnsweredFlags(e)' = AnsweredFlags(e)
             /\ CountsDropped(e)' => CountsDropped(e)
  <2>1. \A c \in landed' : pc'[c] = "done" => c \in landed /\ pc[c] = "done"
    <3>1. landed' \subseteq Request
      BY TypeStep DEF ListsTypeOK
    <3>. QED  BY <1>2, <1>4, <3>1
  <2>2. \A c \in landed : job'[c] = job[c] /\ c \in Request
    BY JobsStay DEF StorageInv, Recorded, ListsTypeOK
  <2>3. AnsweredFlags(e)' \subseteq AnsweredFlags(e)
    BY <2>1, <2>2 DEF AnsweredFlags, Flagged
  <2>4. CountsDropped(e)' => CountsDropped(e)
    BY <2>1, AnswersStay DEF CountsDropped, Makers
  <2>. QED  BY <2>3, <2>4, AnswersStay
<1>. QED  BY <1>3, <1>4

LEMMA NamesThereStep ==
    ASSUME ListsTypeOK, Orderly, StorageInv, NamesThere, [Next]_lvars
    PROVE  NamesThere'
<1>1. dirs \cup outside \subseteq dirs' \cup outside'
  BY DirsStay
<1>2. ASSUME NEW r \in Request, NEW found \in SUBSET Env,
             found = envNames \/ found = names[r], NamesReturned(r, found),
             envNames' = envNames \/ envNames' = names[r]
      PROVE  NamesThere'
  <2>1. names' = [names EXCEPT ![r] = found]
    BY <1>2 DEF NamesReturned
  <2>. QED
    BY <1>1, <1>2, <2>1, ListsAssumption DEF NamesThere, ListsTypeOK
<1>3. ASSUME NEW r \in Request, EnvironmentNamesCached(r) \/ EnvironmentNamesFilled(r)
      PROVE  NamesThere'
  BY <1>2, <1>3
  DEF EnvironmentNamesCached, EnvironmentNamesFilled, Cached, lists, ListsTypeOK
<1>4. CASE /\ envNames' \in {envNames, Nil}
           /\ \/ names' = names
              \/ \E r \in Request : \E new \in SUBSET (names[r] \cup dirs) :
                   names' = [names EXCEPT ![r] = new]
  BY <1>1, <1>4 DEF NamesThere, ListsTypeOK
<1>5. ASSUME NEW r \in Request, ListDirectories(r) \/ \E e \in Env : ListFiles(r, e)
      PROVE  /\ envNames' = envNames
             /\ \E new \in SUBSET (names[r] \cup dirs) :
                  names' = [names EXCEPT ![r] = new]
  BY <1>5 DEF ListDirectories, ListFiles, lists, ListsTypeOK
<1>6. ASSUME NEW r \in Request,
             \/ TeamCountsCached(r) \/ StartCounting(r) \/ TeamCountsFilled(r)
             \/ \E e \in Env : CountFlags(r, e)
             \/ CreateFile(r) \/ CreateTeamFile(r) \/ Write(r) \/ WriteFails(r)
             \/ InvalidateNames(r) \/ InvalidateTeams(r) \/ ListingFails(r)
             \/ \E j \in Job : Arrive(r, j)
      PROVE  envNames' \in {envNames, Nil} /\ names' = names
  BY <1>6
  DEF TeamCountsCached, StartCounting, TeamCountsFilled, CountFlags, CreateFile,
      CreateTeamFile, Write, WriteFails, InvalidateNames, InvalidateTeams,
      ListingFails, Arrive, lists, locals
<1>7. CASE \/ \E which \in {"env", "team"} : Expire(which)
           \/ \E e \in Env : ChangeElsewhere(e)
           \/ UNCHANGED lvars
  BY <1>4, <1>7 DEF Expire, ChangeElsewhere, lvars, lists, locals
<1>. QED  BY <1>3, <1>4, <1>5, <1>6, <1>7 DEF Next, Step

(* What environmentNames returns has every environment that is past its    *)
(* invalidation, be it cached or just listed.                              *)
LEMMA NamesReturnedFresh ==
    ASSUME ListsTypeOK, NamesFresh, NEW r \in Request,
           EnvironmentNamesCached(r) \/ EnvironmentNamesFilled(r)
    PROVE  \E found \in SUBSET Env :
             /\ NamesReturned(r, found)
             /\ \A e \in dirs \ outside : NamesDropped(e) => e \in found
<1>1. CASE EnvironmentNamesCached(r)
  <2>1. envNames # Nil /\ envNames \in SUBSET Env /\ NamesReturned(r, envNames)
    BY <1>1 DEF EnvironmentNamesCached, Cached, ListsTypeOK
  <2>. QED  BY <2>1 DEF NamesFresh
<1>2. CASE EnvironmentNamesFilled(r)
  <2>1. /\ pc[r] = "discover" /\ pending[r] = {} /\ names[r] \in SUBSET Env
        /\ NamesReturned(r, names[r])
    BY <1>2 DEF EnvironmentNamesFilled, ListsTypeOK
  <2>. QED  BY <2>1 DEF NamesFresh
<1>. QED  BY <1>1, <1>2

LEMMA NamesFreshStep ==
    ASSUME ListsTypeOK, Orderly, StorageInv, NamesFresh, [Next]_lvars
    PROVE  NamesFresh'
<1> SUFFICES ASSUME NEW e \in dirs' \ outside', NamesDropped(e)'
             PROVE  /\ envNames' # Nil => e \in envNames'
                    /\ \A q \in Request :
                         pc'[q] = "discover" => e \in names'[q] \cup pending'[q]
  BY DEF NamesFresh
<1>1. e \in dirs \ outside
  BY ThereBefore DEF NamesDropped
<1>2. ASSUME NEW c \in Request, InvalidateNames(c)
      PROVE  /\ envNames' = Nil
             /\ \A q \in Request : pc'[q] # "discover"
  <2>1. envMu = Free /\ envNames' = Nil /\ envMu' = envMu
    BY <1>2 DEF InvalidateNames, locks
  <2>2. Orderly'
    BY OrderlyStep
  <2>3. \A q \in Request : envMu' # q
    BY <2>1, ListsAssumption
  <2>. QED  BY <2>1, <2>2, <2>3 DEF Orderly, Locked
<1>3. SUFFICES ASSUME \A c \in Request : ~InvalidateNames(c)
               PROVE  /\ envNames' # Nil => e \in envNames'
                      /\ \A q \in Request :
                           pc'[q] = "discover" => e \in names'[q] \cup pending'[q]
  BY <1>2
<1>4. /\ NamesDropped(e)
      /\ envNames # Nil => e \in envNames
      /\ \A q \in Request : pc[q] = "discover" => e \in names[q] \cup pending[q]
  BY <1>1, <1>3, DroppedBefore DEF NamesFresh
<1>5. ASSUME NEW r \in Request, Step(r) \/ \E j \in Job : Arrive(r, j),
             envNames' # Nil => e \in envNames',
             pc'[r] = "discover" => e \in names'[r] \cup pending'[r]
      PROVE  /\ envNames' # Nil => e \in envNames'
             /\ \A q \in Request :
                  pc'[q] = "discover" => e \in names'[q] \cup pending'[q]
  BY <1>4, <1>5, OthersStay
<1>6. ASSUME NEW r \in Request, EnvironmentNamesCached(r) \/ EnvironmentNamesFilled(r)
      PROVE  /\ envNames' # Nil => e \in envNames'
             /\ pc'[r] # "discover"
  <2>1. envNames' # Nil => e \in envNames'
    <3>1. CASE EnvironmentNamesCached(r)
      BY <1>4, <3>1 DEF EnvironmentNamesCached, lists
    <3>2. CASE EnvironmentNamesFilled(r)
      <4>1. envNames' = names[r] /\ pc[r] = "discover" /\ pending[r] = {}
        BY <3>2 DEF EnvironmentNamesFilled
      <4>. QED  BY <1>4, <4>1
    <3>. QED  BY <1>6, <3>1, <3>2
  <2>2. PICK found \in SUBSET Env : NamesReturned(r, found)
    BY <1>6, NamesReturnedFresh
  <2>3. \E there \in {"count", "failed", "createFile", "done"} :
          pc' = [pc EXCEPT ![r] = there]
    BY <2>2, CallersGoOn
  <2>. QED  BY <2>1, <2>3 DEF ListsTypeOK
<1>7. ASSUME NEW r \in Request, ListDirectories(r) \/ \E f \in Env : ListFiles(r, f)
      PROVE  envNames' = envNames /\ e \in names'[r] \cup pending'[r]
  <2>1. CASE ListDirectories(r)
    BY <1>1, <1>7, <2>1 DEF ListDirectories, lists, ListsTypeOK
  <2>2. ASSUME NEW f \in Env, ListFiles(r, f)
        PROVE  envNames' = envNames /\ e \in names'[r] \cup pending'[r]
    BY <1>1, <1>4, <2>2 DEF ListFiles, lists, ListsTypeOK
  <2>. QED  BY <1>7, <2>1, <2>2
<1>8. ASSUME NEW r \in Request,
             \/ TeamCountsCached(r) \/ StartCounting(r) \/ TeamCountsFilled(r)
             \/ \E f \in Env : CountFlags(r, f)
             \/ CreateFile(r) \/ CreateTeamFile(r) \/ Write(r) \/ WriteFails(r)
             \/ InvalidateTeams(r) \/ ListingFails(r)
             \/ \E j \in Job : Arrive(r, j)
      PROVE  envNames' = envNames /\ pc'[r] # "discover"
  <2>1. envNames' = envNames
    BY <1>8
    DEF TeamCountsCached, StartCounting, TeamCountsFilled, CountFlags, CreateFile,
        CreateTeamFile, Write, WriteFails, InvalidateTeams, ListingFails, Arrive, lists
  <2>2. CASE \E j \in Job : Arrive(r, j)
    BY <2>1, <2>2, ArrivalPlace
  <2>3. CASE \E f \in Env : CountFlags(r, f)
    BY <2>1, <2>3 DEF CountFlags
  <2>4. CASE TeamCountsCached(r) \/ StartCounting(r) \/ TeamCountsFilled(r)
    BY <2>1, <2>4 DEF TeamCountsCached, StartCounting, TeamCountsFilled, Goto, ListsTypeOK
  <2>5. CASE \/ CreateFile(r) \/ CreateTeamFile(r) \/ Write(r) \/ WriteFails(r)
             \/ InvalidateTeams(r) \/ ListingFails(r)
    BY <2>1, <2>5, FollowingValues
    DEF CreateFile, CreateTeamFile, Write, WriteFails, InvalidateTeams, ListingFails,
        AfterCreate, AfterWrite, Goto, ListsTypeOK
  <2>. QED  BY <1>8, <2>1, <2>2, <2>3, <2>4, <2>5
<1>9. CASE \/ \E which \in {"env", "team"} : Expire(which)
           \/ \E f \in Env : ChangeElsewhere(f)
           \/ UNCHANGED lvars
  <2>1. envNames' = envNames /\ pc' = pc /\ names' = names /\ pending' = pending
    BY <1>9 DEF Expire, ChangeElsewhere, lvars, lists, locals
  <2>. QED  BY <1>4, <2>1
<1>10. ASSUME NEW r \in Request, Step(r) \/ \E j \in Job : Arrive(r, j)
       PROVE  /\ envNames' # Nil => e \in envNames'
              /\ pc'[r] = "discover" => e \in names'[r] \cup pending'[r]
  BY <1>3, <1>4, <1>6, <1>7, <1>8, <1>10 DEF Step
<1>. QED  BY <1>5, <1>9, <1>10 DEF Next

LEMMA CountsFreshStep ==
    ASSUME ListsTypeOK, Orderly, StorageInv, NamesFresh, CountsFresh, [Next]_lvars
    PROVE  CountsFresh'
<1> SUFFICES ASSUME NEW e \in dirs' \ outside', CountsDropped(e)'
             PROVE  /\ teamIndex' # Nil =>
                         teamIndex'[e] >= Cardinality(AnsweredFlags(e)')
                    /\ \A q \in Request : pc'[q] = "count" =>
                         \/ e \in pending'[q]
                         \/ index'[q][e] >= Cardinality(AnsweredFlags(e)')
  BY DEF CountsFresh
<1>1. e \in dirs \ outside /\ e \in Env
  BY ThereBefore DEF CountsDropped, ListsTypeOK
<1>2. ASSUME NEW c \in Request, InvalidateTeams(c)
      PROVE  teamIndex' = Nil /\ \A q \in Request : pc'[q] # "count"
  <2>1. teamMu = Free /\ teamIndex' = Nil /\ teamMu' = teamMu
    BY <1>2 DEF InvalidateTeams, locks
  <2>2. Orderly'
    BY OrderlyStep
  <2>3. \A q \in Request : teamMu' # q
    BY <2>1, ListsAssumption
  <2>. QED  BY <2>1, <2>2, <2>3 DEF Orderly, Locked
<1>. DEFINE n == Cardinality(AnsweredFlags(e))
<1>3. SUFFICES ASSUME \A c \in Request : ~InvalidateTeams(c)
               PROVE  /\ teamIndex' # Nil => teamIndex'[e] >= n
                      /\ \A q \in Request : pc'[q] = "count" =>
                           e \in pending'[q] \/ index'[q][e] >= n
  BY <1>2, DroppedBefore
<1>4. /\ CountsDropped(e) /\ n \in Nat
      /\ teamIndex # Nil => teamIndex[e] >= n
      /\ \A q \in Request : pc[q] = "count" => e \in pending[q] \/ index[q][e] >= n
  BY <1>1, <1>3, DroppedBefore, AnswersStay DEF CountsFresh
<1>. HIDE DEF n
<1>5. ASSUME NEW r \in Request, Step(r) \/ \E j \in Job : Arrive(r, j),
             teamIndex' # Nil => teamIndex'[e] >= n,
             pc'[r] = "count" => e \in pending'[r] \/ index'[r][e] >= n
      PROVE  /\ teamIndex' # Nil => teamIndex'[e] >= n
             /\ \A q \in Request : pc'[q] = "count" =>
                  e \in pending'[q] \/ index'[q][e] >= n
  BY <1>4, <1>5, OthersStay
<1>6. ASSUME NEW r \in Request, EnvironmentNamesCached(r) \/ EnvironmentNamesFilled(r)
      PROVE  /\ teamIndex' = teamIndex
             /\ pc'[r] = "count" => e \in pending'[r]
  <2>1. teamIndex' = teamIndex
    BY <1>6 DEF EnvironmentNamesCached, EnvironmentNamesFilled, lists
  <2>2. PICK found \in SUBSET Env : NamesReturned(r, found) /\ e \in found
    BY <1>1, <1>4, <1>6, NamesReturnedFresh DEF CountsDropped, NamesDropped
  <2>3. \E there \in {"count", "failed", "createFile", "done"}, p \in {pending[r], found} :
          /\ pc' = [pc EXCEPT ![r] = there] /\ pending' = [pending EXCEPT ![r] = p]
          /\ there = "count" => p = found
    BY <2>2, CallersGoOn
  <2>. QED  BY <2>1, <2>2, <2>3 DEF ListsTypeOK
<1>7. ASSUME NEW r \in Request, NEW f \in Env, CountFlags(r, f)
      PROVE  teamIndex' = teamIndex /\ (e \in pending'[r] \/ index'[r][e] >= n)
  <2>1. /\ teamIndex' = teamIndex /\ pc[r] = "count"
        /\ pending'[r] = pending[r] \ {f}
        /\ index'[r] = [index[r] EXCEPT ![f] = IF f \in dirs THEN flags[f] ELSE 0]
    BY <1>7 DEF CountFlags, lists, ListsTypeOK
  <2>2. CASE f = e
    <3>1. index'[r][e] = flags[e]
      BY <1>1, <2>1, <2>2 DEF ListsTypeOK, Counts
    <3>2. flags[e] >= Cardinality(Flagged(e)) /\ Cardinality(Flagged(e)) >= n
      BY <1>1, AnswersStay DEF StorageInv, Stored, n
    <3>3. flags[e] \in Nat /\ Cardinality(Flagged(e)) \in Nat
      BY <1>1, AnswersStay DEF ListsTypeOK, Counts
    <3>. QED  BY <1>4, <2>1, <3>1, <3>2, <3>3
  <2>3. CASE f # e
    <3>1. index'[r][e] = index[r][e]
      BY <2>1, <2>3 DEF ListsTypeOK, Counts
    <3>. QED  BY <1>4, <2>1, <2>3, <3>1
  <2>. QED  BY <2>2, <2>3
<1>8. ASSUME NEW r \in Request, TeamCountsFilled(r)
      PROVE  teamIndex'[e] >= n /\ pc'[r] # "count"
  BY <1>4, <1>8 DEF TeamCountsFilled, Goto, ListsTypeOK
<1>9. ASSUME NEW r \in Request,
             \/ ListDirectories(r) \/ TeamCountsCached(r) \/ StartCounting(r)
             \/ \E f \in Env : ListFiles(r, f)
             \/ CreateFile(r) \/ CreateTeamFile(r) \/ Write(r) \/ WriteFails(r)
             \/ InvalidateNames(r) \/ ListingFails(r)
             \/ \E j \in Job : Arrive(r, j)
      PROVE  teamIndex' = teamIndex /\ pc'[r] # "count"
  <2>1. teamIndex' = teamIndex
    BY <1>9
    DEF ListDirectories, TeamCountsCached, StartCounting, ListFiles, CreateFile,
        CreateTeamFile, Write, WriteFails, InvalidateNames, ListingFails, Arrive, lists
  <2>2. CASE \E j \in Job : Arrive(r, j)
    BY <2>1, <2>2, ArrivalPlace
  <2>3. CASE \E f \in Env : ListFiles(r, f)
    BY <2>1, <2>3 DEF ListFiles
  <2>4. CASE ListDirectories(r) \/ TeamCountsCached(r) \/ StartCounting(r)
    BY <2>1, <2>4 DEF ListDirectories, TeamCountsCached, StartCounting, Goto, ListsTypeOK
  <2>5. CASE \/ CreateFile(r) \/ CreateTeamFile(r) \/ Write(r) \/ WriteFails(r)
             \/ InvalidateNames(r) \/ ListingFails(r)
    BY <2>1, <2>5, FollowingValues
    DEF CreateFile, CreateTeamFile, Write, WriteFails, InvalidateNames, ListingFails,
        AfterCreate, AfterWrite, Goto, ListsTypeOK
  <2>. QED  BY <1>9, <2>1, <2>2, <2>3, <2>4, <2>5
<1>10. CASE \/ \E which \in {"env", "team"} : Expire(which)
            \/ \E f \in Env : ChangeElsewhere(f)
            \/ UNCHANGED lvars
  BY <1>4, <1>10 DEF Expire, ChangeElsewhere, lvars, lists, locals
<1>11. ASSUME NEW r \in Request, Step(r) \/ \E j \in Job : Arrive(r, j)
       PROVE  /\ teamIndex' # Nil => teamIndex'[e] >= n
              /\ pc'[r] = "count" => e \in pending'[r] \/ index'[r][e] >= n
  BY <1>3, <1>4, <1>6, <1>7, <1>8, <1>9, <1>11 DEF Step
<1>. QED  BY <1>5, <1>10, <1>11 DEF Next

-----------------------------------------------------------------------------
(***************************************************************************)
(* What a request is told.                                                 *)
(***************************************************************************)
(* What was owed to a request is past its invalidations.                   *)
LEMMA OwedDropped ==
    ASSUME ListsTypeOK, Orderly, StorageInv, NEW q \in Request,
           NEW e \in due[q].made \ outside
    PROVE  e \in dirs \ outside /\ NamesDropped(e) /\ CountsDropped(e)
<1>1. PICK c \in Makers(e) : pc[c] = "done"
  BY DEF StorageInv, Owed
<1>2. e \in Env \ outside
  BY DEF ListsTypeOK
<1>3. e \in dirs /\ \A d \in Makers(e) : d = c
  BY <1>2 DEF StorageInv, Stored
<1>. QED  BY <1>1, <1>2, <1>3 DEF NamesDropped, CountsDropped

(* A settled environment was settled, and there, before.                   *)
LEMMA SettledBefore ==
    ASSUME ListsTypeOK, Orderly, StorageInv, [Next]_lvars,
           NEW q \in Request, pc[q] # "idle", NEW e \in Settled(q)' \cap dirs'
    PROVE  e \in Settled(q) \cap dirs /\ e \notin outside /\ CountsDropped(e)
<1>1. e \in Env /\ e \notin outside' /\ e \notin outside /\ due'[q] = due[q]
  BY JobsStay, LandedGrows DEF Settled
<1>2. \A c \in Makers(e)' : e \in due[q].made
  BY <1>1 DEF Settled, Makers
<1>3. \A c \in Makers(e) : e \in due[q].made
  BY <1>2, AnswersStay
<1>4. e \in Settled(q)
  BY <1>1, <1>3 DEF Settled, Makers
<1>5. e \in dirs
  <2>1. CASE e \in due[q].made
    BY <1>1, <2>1, OwedDropped
  <2>2. CASE e \notin due[q].made
    BY <1>1, <1>2, <2>2, ThereBefore
  <2>. QED  BY <2>1, <2>2
<1>6. CountsDropped(e)
  <2>1. CASE e \in due[q].made
    BY <1>1, <2>1, OwedDropped
  <2>2. CASE e \notin due[q].made
    BY <1>3, <2>2 DEF CountsDropped
  <2>. QED  BY <2>1, <2>2
<1>. QED  BY <1>1, <1>4, <1>5, <1>6

LEMMA ListingServed ==
    ASSUME ListsTypeOK, Orderly, StorageInv, NamesFresh, [Next]_lvars,
           NEW q \in Request, Served(q), pc[q] # "idle", Told(q, Listing)'
    PROVE  due'[q].made \ outside' \subseteq names'[q]
<1>1. /\ due'[q] = due[q] /\ job'[q] = job[q] /\ outside \subseteq outside'
      /\ job[q].kind \in Listing
  BY JobsStay, LandedGrows DEF Told
<1>2. CASE pc[q] = "done"
  BY <1>1, <1>2, JobsStay DEF Served, Told
<1>3. CASE pc[q] # "done"
  <2>1. Step(q)
    BY <1>3, OthersStay DEF Told, Next, Arrive, Expire, ChangeElsewhere, lvars
  <2>2. CASE EnvironmentNamesCached(q) \/ EnvironmentNamesFilled(q)
    <3>1. PICK found \in SUBSET Env :
            /\ NamesReturned(q, found)
            /\ \A e \in dirs \ outside : NamesDropped(e) => e \in found
      BY <2>2, NamesReturnedFresh
    <3>2. names'[q] = found
      BY <3>1 DEF NamesReturned, ListsTypeOK
    <3>. QED  BY <1>1, <3>1, <3>2, OwedDropped
  <2>3. CASE \/ CreateFile(q) \/ CreateTeamFile(q) \/ Write(q) \/ WriteFails(q)
             \/ InvalidateNames(q) \/ InvalidateTeams(q)
    BY <1>1, <2>3
    DEF CreateFile, CreateTeamFile, Write, WriteFails, InvalidateNames,
        InvalidateTeams, Orderly, Placed, Listing, Flagging
  <2>4. CASE \/ ListDirectories(q) \/ TeamCountsCached(q) \/ StartCounting(q)
             \/ TeamCountsFilled(q) \/ ListingFails(q)
             \/ \E e \in Env : ListFiles(q, e) \/ CountFlags(q, e)
    BY <1>3, <2>4
    DEF ListDirectories, TeamCountsCached, StartCounting, TeamCountsFilled,
        ListingFails, ListFiles, CountFlags, Goto, Told, ListsTypeOK
  <2>. QED  BY <2>1, <2>2, <2>3, <2>4 DEF Step
<1>. QED  BY <1>2, <1>3

LEMMA CountsServed ==
    ASSUME ListsTypeOK, Orderly, StorageInv, CountsFresh, [Next]_lvars,
           NEW q \in Request, Served(q), pc[q] # "idle", HasCounts(q)',
           NEW e \in Settled(q)' \cap dirs'
    PROVE  index'[q][e] >= due'[q].flags[e]
<1>1. /\ e \in Settled(q) \cap dirs /\ e \in dirs \ outside /\ e \in Env
      /\ CountsDropped(e) /\ due'[q] = due[q] /\ job'[q] = job[q]
  BY SettledBefore, JobsStay DEF ListsTypeOK
<1>2. CASE HasCounts(q)
  <2>1. index'[q] = index[q]
    <3>1. CASE Step(q)
      BY <1>2, <3>1
      DEF HasCounts, Step, EnvironmentNamesCached, ListDirectories, ListFiles,
          EnvironmentNamesFilled, TeamCountsCached, StartCounting, CountFlags,
          TeamCountsFilled, CreateFile, CreateTeamFile, Write, WriteFails,
          InvalidateNames, InvalidateTeams, ListingFails, locals
    <3>2. CASE ~Step(q)
      BY <1>2, <3>2, OthersStay
      DEF HasCounts, Next, Arrive, Expire, ChangeElsewhere, lvars, locals
    <3>. QED  BY <3>1, <3>2
  <2>. QED  BY <1>1, <1>2, <2>1 DEF Served
<1>3. CASE ~HasCounts(q)
  <2>1. Step(q)
    BY <1>1, <1>3, OthersStay
    DEF HasCounts, Next, Arrive, Expire, ChangeElsewhere, lvars, locals
  <2>2. TeamCountsCached(q) \/ TeamCountsFilled(q)
    <3>1. CASE EnvironmentNamesCached(q) \/ EnvironmentNamesFilled(q)
      <4>1. PICK found \in SUBSET Env : NamesReturned(q, found)
        BY <3>1
        DEF EnvironmentNamesCached, EnvironmentNamesFilled, Cached, ListsTypeOK
      <4>2. /\ counting'[q] = counting[q] /\ pc[q] \in {"envLock", "discover"}
        BY <3>1 DEF EnvironmentNamesCached, EnvironmentNamesFilled
      <4>3. counting[q] => pc'[q] = "count"
        BY <4>1 DEF NamesReturned, Goto, ListsTypeOK
      <4>. QED  BY <1>1, <1>3, <4>2, <4>3 DEF HasCounts
    <3>2. CASE \/ CreateFile(q) \/ CreateTeamFile(q) \/ Write(q) \/ WriteFails(q)
               \/ InvalidateNames(q) \/ InvalidateTeams(q)
      BY <1>1, <3>2
      DEF HasCounts, CreateFile, CreateTeamFile, Write, WriteFails, InvalidateNames,
          InvalidateTeams, Orderly, Placed, Listing, Flagging
    <3>3. CASE ListDirectories(q) \/ StartCounting(q) \/ ListingFails(q)
      BY <1>1, <1>3, <3>3
      DEF HasCounts, ListDirectories, StartCounting, ListingFails, Goto, locals,
          ListsTypeOK
    <3>4. CASE \E f \in Env : ListFiles(q, f) \/ CountFlags(q, f)
      BY <1>1, <1>3, <3>4 DEF HasCounts, ListFiles, CountFlags
    <3>. QED  BY <2>1, <3>1, <3>2, <3>3, <3>4 DEF Step
  <2>3. /\ due[q].flags[e] <= Cardinality(AnsweredFlags(e))
        /\ Cardinality(AnsweredFlags(e)) \in Nat /\ due[q].flags[e] \in Nat
    BY <1>1, AnswersStay DEF StorageInv, Owed, ListsTypeOK, Counts
  <2>4. index'[q][e] >= Cardinality(AnsweredFlags(e)) /\ index'[q][e] \in Nat
    <3>1. CASE TeamCountsCached(q)
      <4>1. index'[q] = teamIndex /\ teamIndex # Nil
        BY <3>1 DEF TeamCountsCached, Cached, ListsTypeOK
      <4>. QED  BY <1>1, <4>1 DEF CountsFresh, ListsTypeOK, Counts
    <3>2. CASE TeamCountsFilled(q)
      <4>1. index'[q] = index[q] /\ pc[q] = "count" /\ pending[q] = {}
        BY <3>2 DEF TeamCountsFilled
      <4>. QED  BY <1>1, <4>1 DEF CountsFresh, ListsTypeOK, Counts
    <3>. QED  BY <2>2, <3>1, <3>2
  <2>. QED  BY <1>1, <2>3, <2>4
<1>. QED  BY <1>2, <1>3

LEMMA ServedStep ==
    ASSUME ListsTypeOK, Orderly, StorageInv, NamesFresh, CountsFresh, [Next]_lvars,
           NEW q \in Request, Served(q)
    PROVE  Served(q)'
<1>1. CASE pc[q] # "idle"
  BY <1>1, ListingServed, CountsServed DEF Served
<1>2. ASSUME NEW j \in Job, Arrive(q, j) PROVE Served(q)'
  <2>1. /\ pc'[q] = Entry[j.kind] /\ job'[q] = j /\ j.kind \in Kind
    BY <1>2, JobType DEF Arrive, Goto, ListsTypeOK
  <2>2. pc'[q] # "done" /\ ~HasCounts(q)'
    BY <2>1, EntryValues DEF HasCounts, Kind
  <2>. QED  BY <2>2 DEF Served, Told
<1>3. CASE pc[q] = "idle" /\ ~\E j \in Job : Arrive(q, j)
  <2>1. ~Step(q)
    BY <1>3
    DEF Step, EnvironmentNamesCached, ListDirectories, ListFiles,
        EnvironmentNamesFilled, TeamCountsCached, StartCounting, CountFlags,
        TeamCountsFilled, CreateFile, CreateTeamFile, Write, WriteFails,
        InvalidateNames, InvalidateTeams, ListingFails
  <2>2. pc'[q] = "idle"
    BY <1>3, <2>1, OthersStay DEF Next, Expire, ChangeElsewhere, lvars
  <2>. QED  BY <2>2 DEF Served
<1>. QED  BY <1>1, <1>2, <1>3

-----------------------------------------------------------------------------
LEMMA ListsBegin == Init => ListsInv
<1>. SUFFICES ASSUME Init PROVE ListsInv
  OBVIOUS
<1>1. /\ landed = {} /\ outside = {} /\ envNames = Nil /\ teamIndex = Nil
      /\ \A r \in Request : /\ pc[r] = "idle" /\ job[r] = NoJob /\ names[r] = {}
                            /\ ~counting[r] /\ due[r] = [made |-> {}, flags |-> None]
      /\ envMu = Free /\ teamMu = Free /\ flags = None
  BY DEF Init
<1>2. \A e : Makers(e) = {} /\ Flagged(e) = {} /\ AnsweredFlags(e) = {}
  BY <1>1 DEF Makers, Flagged, AnsweredFlags
<1>3. Cardinality({}) = 0
  BY FS_EmptySet
<1>4. Orderly
  BY <1>1, FS_EmptySet, ListsAssumption DEF Orderly, Placed, Locked
<1>5. StorageInv
  BY <1>1, <1>2, <1>3 DEF StorageInv, Stored, Recorded, Owed, None
<1>6. NamesThere /\ NamesFresh /\ CountsFresh /\ \A r \in Request : Served(r)
  BY <1>1 DEF NamesThere, NamesFresh, CountsFresh, Served
<1>. QED  BY <1>4, <1>5, <1>6, InitTypes DEF ListsInv

LEMMA ListsInvStep == ListsInv /\ [Next]_lvars => ListsInv'
<1>. SUFFICES ASSUME ListsInv, [Next]_lvars PROVE ListsInv'
  OBVIOUS
<1>1. /\ ListsTypeOK /\ Orderly /\ StorageInv
      /\ NamesThere /\ NamesFresh /\ CountsFresh
      /\ \A r \in Request : Served(r)
  BY DEF ListsInv
<1>2. ListsTypeOK' /\ Orderly' /\ StorageInv'
  BY <1>1, TypeStep, OrderlyStep, StorageInvStep
<1>3. NamesThere' /\ NamesFresh' /\ CountsFresh'
  BY <1>1, NamesThereStep, NamesFreshStep, CountsFreshStep
<1>4. \A r \in Request : Served(r)'
  BY <1>1, ServedStep
<1>. QED  BY <1>2, <1>3, <1>4 DEF ListsInv

(***************************************************************************)
(* The locks, the storage and the two lists agree as described above, in   *)
(* every reachable state of a replica, for however many requests.          *)
(***************************************************************************)
THEOREM ListsInvariance == ListsSpec => []ListsInv
  BY ListsBegin, ListsInvStep, PTL DEF ListsSpec

(* Every variable keeps its type: the two lists are Nil or hold names and  *)
(* counts of environments, and the mutexes are held by requests.           *)
THEOREM ListsTypes == ListsSpec => []ListsTypeOK
<1>1. ListsInv => ListsTypeOK
  BY DEF ListsInv
<1>. QED  BY <1>1, ListsInvariance, PTL

(* A list shown after Studio has answered the creation of an environment   *)
(* names it, and the teams page counts every flag whose creation had been  *)
(* answered, whoever was filling a list from an older state of the storage *)
(* meanwhile: invalidateEnvironments and invalidateTeams take the mutexes  *)
(* that environmentNames and teamCounts hold while they fill the lists.    *)
THEOREM OwnChangesAlwaysShow == ListsSpec => []OwnChangesShow
<1>1. ListsInv => OwnChangesShow
  <2>. SUFFICES ASSUME ListsInv PROVE OwnChangesShow
    OBVIOUS
  <2>1. \A r \in Request : Served(r) /\ Locked(r)
    BY DEF ListsInv, Orderly
  <2>2. OwnEnvironmentsShow
    BY <2>1 DEF OwnEnvironmentsShow, Served, Told
  <2>3. ASSUME NEW r \in Request, NEW e \in names[r] \cap Settled(r),
               Told(r, {"teams"})
        PROVE  index[r][e] >= due[r].flags[e]
    <3>1. HasCounts(r) /\ pc[r] # "idle"
      BY <2>1, <2>3 DEF HasCounts, Told, Locked
    <3>2. e \in Settled(r) \cap dirs
      BY <2>3 DEF ListsInv, NamesThere, Settled
    <3>. QED  BY <2>1, <3>1, <3>2 DEF Served
  <2>. QED  BY <2>2, <2>3 DEF OwnChangesShow, OwnFlagsCounted
<1>. QED  BY <1>1, ListsInvariance, PTL

(* A request waits while the mutex its next step takes is somebody's.      *)
Waits(r) ==
    \/ pc[r] \in {"envLock", "dropEnv", "dropEnvFirst"} /\ envMu # Free
    \/ pc[r] \in {"teamLock", "dropTeams", "dropTeamsFirst"} /\ teamMu # Free

NotAllWait ==
    (\E r \in Request : Unanswered(r)) =>
        \E r \in Request : Unanswered(r) /\ ~Waits(r)

(* The unanswered requests never wait for each other in a circle: whoever  *)
(* holds envMu waits for nobody, whoever holds teamMu at most for envMu,   *)
(* and the invalidations hold none (environmentNames, countTeamFlags,      *)
(* invalidateEnvironments).  NoDeadlock says the same with ENABLED.        *)
THEOREM SomebodyGoesOn == ListsSpec => []NotAllWait
<1>1. ListsInv => NotAllWait
  <2>. SUFFICES ASSUME ListsInv, NEW u \in Request, Unanswered(u)
                PROVE  \E r \in Request : Unanswered(r) /\ ~Waits(r)
    BY DEF NotAllWait
  <2>1. /\ \A r \in Request : Locked(r)
        /\ envMu \in Request \cup {Free} /\ teamMu \in Request \cup {Free}
    BY DEF ListsInv, Orderly, ListsTypeOK
  <2>2. CASE envMu # Free
    <3>1. envMu \in Request /\ pc[envMu] = "discover"
      BY <2>1, <2>2 DEF Locked
    <3>. QED  BY <3>1 DEF Waits, Unanswered
  <2>3. CASE envMu = Free /\ teamMu # Free
    <3>1. teamMu \in Request /\ pc[teamMu] \in {"envLock", "discover", "count"}
      BY <2>1, <2>3 DEF Locked
    <3>. QED  BY <2>3, <3>1 DEF Waits, Unanswered
  <2>4. CASE envMu = Free /\ teamMu = Free
    BY <2>4 DEF Waits
  <2>. QED  BY <2>2, <2>3, <2>4
<1>. QED  BY <1>1, ListsInvariance, PTL
=============================================================================
