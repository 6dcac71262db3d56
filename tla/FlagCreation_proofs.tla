------------------------- MODULE FlagCreation_proofs -------------------------
(***************************************************************************)
(* Theorems about FlagCreation, for every set of files, keys and requests, *)
(* both layouts, and however often the environment changes elsewhere.      *)
(***************************************************************************)
EXTENDS FlagCreation, TLAPS

-----------------------------------------------------------------------------
(***************************************************************************)
(* The inductive invariant: what a request knows when it is about to make  *)
(* each of its calls.                                                      *)
(***************************************************************************)
Arrived(r) == pc[r] # "idle" => ask[r] \in Demand

(* The files in blockers hold the key.                                     *)
BlockersHold(r) ==
    /\ pc[r] = "idle" => blockers[r] = {}
    /\ \A f \in blockers[r] : Holds(f, ask[r].key)

(* A file that may hold the key is still to be read, and past locateKey    *)
(* there is none; so none is there when the flag is put.                   *)
Searching(r) ==
    /\ pc[r] = "scan" => blockers[r] \subseteq todo[r]
    /\ pc[r] \in {"first", "create", "fallback", "read", "put"} =>
           blockers[r] = {}
    /\ Put(r) => blockers[r] = {}

(* Before its last call a request has put nothing, unless its CreateFile's *)
(* answer was lost.                                                        *)
Unput(r) ==
    /\ pc[r] \in {"idle", "list", "scan", "first", "create"} => ~Put(r)
    /\ pc[r] # "done" /\ Put(r) => r \in lost
    /\ pc[r] # "done" => outcome[r] = "none"

Honest(r) ==
    /\ outcome[r] = "created" => Put(r)
    /\ outcome[r] \notin {"none", "created"} /\ Put(r) => r \in lost

(* What Write puts back had no flag of that name when it was read.         *)
SeenFree(r) == pc[r] = "put" => seen[r][ask[r].key] = Nobody

Knows(r) ==
    /\ Arrived(r)
    /\ BlockersHold(r)
    /\ Searching(r)
    /\ Unput(r)
    /\ Honest(r)
    /\ SeenFree(r)

Inv == CreationTypeOK /\ \A r \in Request : Knows(r)

-----------------------------------------------------------------------------
(* Files.                                                                  *)

(* A file with one more flag in it is a file.                              *)
LEMMA WithFlag ==
    ASSUME NEW content \in Content, NEW k \in Key, NEW a \in Author \cup {Nobody}
    PROVE  [content EXCEPT ![k] = a] \in Content
  BY DEF Content

(* A new file is a file.                                                   *)
LEMMA EmptyType == Empty \in Content
  BY DEF Empty, Content

(* Storing keeps the types, touches no other file, and only ever takes     *)
(* files out of blockers: those that do not hold the key any more.         *)
LEMMA Stored ==
    ASSUME CreationTypeOK, \A r \in Request : BlockersHold(r),
           NEW f \in File, NEW content \in Content \cup {Absent},
           Store(f, content)
    PROVE  /\ store' \in [File -> Content \cup {Absent}]
           /\ store'[f] = content
           /\ \A g \in File \ {f} : store'[g] = store[g]
           /\ blockers' \in [Request -> SUBSET File]
           /\ \A r \in Request : blockers'[r] \subseteq blockers[r]
           /\ \A r \in Request : \A b \in blockers'[r] :
                 store'[b] # Absent /\ store'[b][ask[r].key] # Nobody
<1>1. store' \in [File -> Content \cup {Absent}] /\ store'[f] = content
  BY DEF Store, CreationTypeOK
<1>2. \A g \in File \ {f} : store'[g] = store[g]
  BY DEF Store, CreationTypeOK
<1>3. \A r \in Request :
        blockers'[r] = {b \in blockers[r] :
                          b = f => content # Absent /\ content[ask[r].key] # Nobody}
  BY DEF Store
<1>4. blockers' \in [Request -> SUBSET File]
  BY DEF Store, CreationTypeOK
<1>5. ASSUME NEW r \in Request, NEW b \in blockers'[r]
      PROVE  store'[b] # Absent /\ store'[b][ask[r].key] # Nobody
  <2>1. b \in blockers[r] /\ b \in File
    BY <1>3, <1>5 DEF CreationTypeOK
  <2>2. CASE b = f
    BY <1>1, <1>3, <1>5, <2>2
  <2>3. CASE b # f
    BY <1>2, <2>1, <2>3 DEF BlockersHold, Holds, Exists
  <2>. QED  BY <2>2, <2>3
<1>. QED  BY <1>1, <1>2, <1>3, <1>4, <1>5

-----------------------------------------------------------------------------
(***************************************************************************)
(* Types.                                                                  *)
(***************************************************************************)
(* Nobody has asked yet.                                                   *)
LEMMA InitInv == Init => Inv
<1>. SUFFICES ASSUME Init PROVE Inv
  OBVIOUS
<1>1. CreationTypeOK
  BY EmptyType, CreationAssumption DEF Init, CreationTypeOK, Exists, Outcome
<1>2. ASSUME NEW r \in Request PROVE Knows(r)
  BY DEF Init, Knows, Arrived, BlockersHold, Searching, Unput, Honest,
         SeenFree, Put
<1>. QED  BY <1>1, <1>2 DEF Inv

(* What a put adds to the history.                                         *)
LEMMA EverType ==
    ASSUME CreationTypeOK, NEW r \in Request, ask[r] \in Demand, Ever(r)
    PROVE  ever' \subseteq [file: File, key: Key, by: Request]
  BY DEF CreationTypeOK, Ever, Target, Demand

(* Every step keeps the types; what is put is a file because the request   *)
(* has asked for a key by then.                                            *)
LEMMA TypeStep ==
    ASSUME Inv, Next
    PROVE  CreationTypeOK'
<1>. USE CreationAssumption DEF Inv, Knows
<1>1. ASSUME NEW r \in Request, NEW demand \in Asked, Submit(r, demand)
      PROVE  CreationTypeOK'
  BY <1>1 DEF Submit, Goto, CreationTypeOK
<1>2. ASSUME NEW r \in Request, ListFiles(r)
      PROVE  CreationTypeOK'
  BY <1>2 DEF ListFiles, FilesToScan, Goto, Answer, Unstored, CreationTypeOK, Outcome
<1>3. ASSUME NEW r \in Request, NEW f \in File, Scan(r, f)
      PROVE  CreationTypeOK'
  BY <1>3 DEF Scan, Goto, Answer, Unstored, CreationTypeOK, Outcome
<1>4. ASSUME NEW r \in Request,
             Located(r) \/ FirstOfTeam(r) \/ CreateRefused(r) \/ Fallback(r)
               \/ StorageFails(r)
      PROVE  CreationTypeOK'
  BY <1>4 DEF Located, FirstOfTeam, CreateRefused, Fallback, StorageFails,
              Goto, Answer, Unstored, CreationTypeOK, Outcome
<1>5. ASSUME NEW r \in Request, CreateFile(r)
      PROVE  /\ store' \in [File -> Content \cup {Absent}]
             /\ blockers' \in [Request -> SUBSET File]
             /\ ever' \subseteq [file: File, key: Key, by: Request]
  <2>1. ask[r] \in Demand
    BY <1>5 DEF CreateFile, Arrived
  <2>2. [Empty EXCEPT ![ask[r].key] = r] \in Content
    BY <2>1, EmptyType, WithFlag DEF Demand, Author
  <2>. QED  BY <1>5, <2>1, <2>2, Stored, EverType DEF CreateFile, Target, Demand
<1>6. ASSUME NEW r \in Request, CreateLands(r) \/ CreateLandsUnheard(r)
      PROVE  CreationTypeOK'
  <2>1. CreateFile(r)
    BY <1>6 DEF CreateLands, CreateLandsUnheard
  <2>. QED  BY <1>5, <1>6, <2>1 DEF CreateFile, CreateLands, CreateLandsUnheard,
                  Goto, Answer, CreationTypeOK, Outcome
<1>7. ASSUME NEW r \in Request, WriteReads(r)
      PROVE  CreationTypeOK'
  <2>1. Exists(Target(r)) => store[Target(r)] \in Content
    BY <1>7 DEF WriteReads, Arrived, Target, Demand, Exists, CreationTypeOK
  <2>. QED  BY <1>7, <2>1 DEF WriteReads, BuildCreate, Goto, Answer, Unstored,
                              CreationTypeOK, Outcome
<1>8. ASSUME NEW r \in Request, WritePuts(r)
      PROVE  CreationTypeOK'
  <2>1. ask[r] \in Demand
    BY <1>8 DEF WritePuts, Arrived
  <2>2. [seen[r] EXCEPT ![ask[r].key] = r] \in Content
    BY <2>1, WithFlag DEF Demand, Author, CreationTypeOK
  <2>3. /\ store' \in [File -> Content \cup {Absent}]
        /\ blockers' \in [Request -> SUBSET File]
        /\ ever' \subseteq [file: File, key: Key, by: Request]
    BY <1>8, <2>1, <2>2, Stored, EverType DEF WritePuts, Target, Demand
  <2>. QED  BY <1>8, <2>3 DEF WritePuts, Answer, CreationTypeOK, Outcome
<1>9. ASSUME NEW r \in Request, WriteRefused(r)
      PROVE  CreationTypeOK'
  <2>1. attempt' \in [Request -> 1..Attempts]
    BY <1>9 DEF WriteRefused, NextAttempt, CreationTypeOK
  <2>. QED  BY <1>9, <2>1 DEF WriteRefused, NextAttempt, Goto, Answer, Unstored,
                              CreationTypeOK, Outcome
<1>10. ASSUME NEW f \in File, ChangeElsewhere(f)
       PROVE  CreationTypeOK'
  <2>1. PICK content \in ElsewhereContent(f) : Store(f, content)
    BY <1>10 DEF ChangeElsewhere
  <2>2. content \in Content \cup {Absent}
    <3>1. Exists(f) => store[f] \in Content
      BY DEF Exists, CreationTypeOK
    <3>. QED  BY <2>1, <3>1, EmptyType, WithFlag DEF ElsewhereContent, Author
  <2>3. /\ store' \in [File -> Content \cup {Absent}]
        /\ blockers' \in [Request -> SUBSET File]
    BY <2>1, <2>2, Stored
  <2>. QED  BY <1>10, <2>3 DEF ChangeElsewhere, CreationTypeOK
<1>. QED
  BY <1>1, <1>2, <1>3, <1>4, <1>6, <1>7, <1>8, <1>9, <1>10 DEF Next, Create

-----------------------------------------------------------------------------
(***************************************************************************)
(* What the requests know.                                                 *)
(***************************************************************************)
(* A request that takes no step keeps what it knows, whatever the others   *)
(* put and whatever happens elsewhere: the files in blockers get fewer.    *)
LEMMA Bystander ==
    ASSUME NEW s \in Request, Knows(s),
           pc'[s] = pc[s], ask'[s] = ask[s], todo'[s] = todo[s],
           seen'[s] = seen[s], outcome'[s] = outcome[s],
           Put(s)' = Put(s), lost \subseteq lost',
           blockers'[s] \subseteq blockers[s],
           \A b \in blockers'[s] : Holds(b, ask[s].key)'
    PROVE  Knows(s)'
  BY DEF Knows, Arrived, BlockersHold, Searching, Unput, Honest, SeenFree

(* The step of one request moves nothing that belongs to another.          *)
LEMMA Others ==
    ASSUME Inv, NEW r \in Request, NEW s \in Request \ {r},
           Create(r)
    PROVE  /\ pc'[s] = pc[s] /\ ask'[s] = ask[s] /\ todo'[s] = todo[s]
           /\ seen'[s] = seen[s] /\ outcome'[s] = outcome[s]
  BY DEF Create, ListFiles, Scan, Located, FirstOfTeam, CreateLands,
         CreateLandsUnheard, CreateFile, CreateRefused, Fallback, WriteReads,
         BuildCreate, WritePuts, WriteRefused, NextAttempt, StorageFails,
         Goto, Answer, Inv, CreationTypeOK

(* A step that leaves the storage alone is no concern of the others.       *)
LEMMA QuietForOthers ==
    ASSUME Inv, NEW r \in Request, NEW s \in Request \ {r},
           Create(r), Unstored
    PROVE  Knows(s)'
<1>1. Put(s)' = Put(s) /\ lost \subseteq lost' /\ blockers'[s] = blockers[s]
  BY DEF Unstored, Put
<1>2. \A b \in blockers'[s] : Holds(b, ask[s].key)'
  BY <1>1, Others DEF Inv, Knows, BlockersHold, Unstored, Holds, Exists
<1>3. Knows(s)
  BY DEF Inv
<1>. QED  BY <1>1, <1>2, <1>3, Others, Bystander

(* The put of r changes what others know of the storage, and no more.      *)
LEMMA PutForOthers ==
    ASSUME Inv, NEW r \in Request, NEW s \in Request \ {r}, Create(r),
           NEW content \in Content, Target(r) \in File,
           Store(Target(r), content), Ever(r), lost \subseteq lost'
    PROVE  Knows(s)'
<1>1. CreationTypeOK /\ (\A q \in Request : BlockersHold(q)) /\ Knows(s)
  BY DEF Inv, Knows
<1>2. blockers'[s] \subseteq blockers[s]
  BY <1>1, Stored
<1>3. \A b \in blockers'[s] : Holds(b, ask[s].key)'
  BY <1>1, Stored, Others DEF Holds, Exists
<1>4. Put(s)' = Put(s)
  BY DEF Ever, Put
<1>. QED  BY <1>1, <1>2, <1>3, <1>4, Others, Bystander

(* A put of r with the key that it asked for, made when no file held the   *)
(* key all along.                                                          *)
LEMMA PutForSelf ==
    ASSUME Inv, NEW r \in Request, blockers[r] = {},
           NEW content \in Content, Target(r) \in File,
           Store(Target(r), content), Ever(r)
    PROVE  Put(r)' /\ blockers'[r] = {}
<1>1. Put(r)'
  <2>. DEFINE put == [file |-> Target(r), key |-> ask[r].key, by |-> r]
  <2>1. put \in ever' /\ put.by = r
    BY DEF Ever
  <2>. QED  BY <2>1 DEF Put
<1>2. blockers'[r] \subseteq blockers[r]
  BY Stored DEF Inv, Knows
<1>. QED  BY <1>1, <1>2

(* The steps of prepareCreate and createTeamFile that store nothing, and   *)
(* the reads and refusals of Write.                                        *)
LEMMA QuietForSelf ==
    ASSUME Inv, NEW r \in Request,
           \/ ListFiles(r) \/ Located(r) \/ (\E f \in File : Scan(r, f))
           \/ FirstOfTeam(r) \/ CreateRefused(r) \/ Fallback(r)
           \/ WriteReads(r) \/ WriteRefused(r) \/ StorageFails(r)
    PROVE  Unstored /\ Knows(r)'
<1>. USE DEF Inv, Knows, CreationTypeOK
<1>0. /\ Unstored /\ ask' = ask /\ blockers' = blockers /\ pc[r] # "idle"
      /\ pc[r] # "done"
  BY DEF ListFiles, Scan, Located, FirstOfTeam, CreateRefused, Fallback,
         WriteReads, WriteRefused, StorageFails, Unstored
<1>1. Put(r)' = Put(r) /\ lost' = lost
  BY <1>0 DEF Put, Unstored
<1>2. Arrived(r)'
  BY <1>0 DEF Arrived
<1>3. BlockersHold(r)'
  <2>1. \A f \in blockers'[r] : Holds(f, ask[r].key)'
    BY <1>0 DEF BlockersHold, Unstored, Holds, Exists
  <2>2. pc'[r] # "idle"
    BY DEF ListFiles, Scan, Located, FirstOfTeam, CreateRefused, Fallback,
           WriteReads, BuildCreate, WriteRefused, NextAttempt, StorageFails,
           Goto, Answer
  <2>. QED  BY <1>0, <2>1, <2>2 DEF BlockersHold
<1>4. Searching(r)'
  <2>1. CASE ListFiles(r)
    <3>1. \A f \in blockers[r] : f \in FilesToScan(r)
      BY DEF BlockersHold, Holds, FilesToScan
    <3>. QED  BY <1>0, <1>1, <2>1, <3>1 DEF Searching, ListFiles, Goto, Answer
  <2>2. ASSUME NEW f \in File, Scan(r, f) PROVE Searching(r)'
    <3>1. pc'[r] = "scan" => f \notin blockers[r]
      BY <2>2 DEF BlockersHold, Scan, Goto, Answer
    <3>. QED  BY <1>0, <1>1, <2>2, <3>1 DEF Searching, Scan, Goto, Answer
  <2>3. CASE Located(r)
    BY <1>0, <1>1, <2>3 DEF Searching, Located, Goto, Answer
  <2>4. CASE FirstOfTeam(r) \/ CreateRefused(r) \/ Fallback(r) \/ WriteReads(r)
               \/ WriteRefused(r) \/ StorageFails(r)
    BY <1>0, <1>1, <2>4
    DEF Searching, FirstOfTeam, CreateRefused, Fallback, WriteReads,
        BuildCreate, WriteRefused, NextAttempt, StorageFails, Goto, Answer
  <2>. QED  BY <2>1, <2>2, <2>3, <2>4
<1>5. Unput(r)'
  BY <1>1 DEF Unput, ListFiles, Scan, Located, FirstOfTeam, CreateRefused,
              Fallback, WriteReads, BuildCreate, WriteRefused, NextAttempt,
              StorageFails, Goto, Answer
<1>6. Honest(r)'
  <2>1. outcome'[r] = "created" => Put(r)
    BY <1>0 DEF Unput, ListFiles, Scan, Located, FirstOfTeam, CreateRefused,
                Fallback, WriteReads, BuildCreate, WriteRefused, NextAttempt,
                StorageFails, Goto, Answer
  <2>2. Put(r) => r \in lost
    BY <1>0 DEF Unput
  <2>. QED  BY <1>1, <2>1, <2>2 DEF Honest
<1>7. SeenFree(r)'
  BY <1>0 DEF SeenFree, ListFiles, Scan, Located, FirstOfTeam, CreateRefused,
              Fallback, WriteReads, BuildCreate, WriteRefused, NextAttempt,
              StorageFails, Goto, Answer, Holds, Content
<1>. QED  BY <1>0, <1>2, <1>3, <1>4, <1>5, <1>6, <1>7

(* The put of a created file, and that of Write.                           *)
LEMMA Putting ==
    ASSUME Inv, NEW r \in Request,
           CreateLands(r) \/ CreateLandsUnheard(r) \/ WritePuts(r)
    PROVE  /\ Create(r) /\ Target(r) \in File /\ Ever(r) /\ ask' = ask
           /\ blockers[r] = {} /\ lost \subseteq lost'
           /\ \E content \in Content : Store(Target(r), content)
<1>1. Create(r) /\ Ever(r) /\ pc[r] \in {"create", "put"} /\ ask' = ask
  BY DEF Create, CreateLands, CreateLandsUnheard, CreateFile, WritePuts
<1>2. ask[r] \in Demand /\ Target(r) \in File /\ blockers[r] = {}
  BY <1>1 DEF Inv, Knows, Arrived, Searching, Target, Demand
<1>3. lost \subseteq lost'
  BY DEF CreateLands, CreateLandsUnheard, WritePuts
<1>4. \E content \in Content : Store(Target(r), content)
  <2>1. [Empty EXCEPT ![ask[r].key] = r] \in Content
    BY <1>2, EmptyType, WithFlag DEF Demand, Author
  <2>2. [seen[r] EXCEPT ![ask[r].key] = r] \in Content
    BY <1>2, WithFlag DEF Demand, Author, Inv, CreationTypeOK
  <2>. QED
    BY <2>1, <2>2 DEF CreateLands, CreateLandsUnheard, CreateFile, WritePuts
<1>. QED  BY <1>1, <1>2, <1>3, <1>4

(* A put keeps what everybody knows, its own request included.             *)
LEMMA PuttingKnows ==
    ASSUME Inv, NEW r \in Request,
           CreateLands(r) \/ CreateLandsUnheard(r) \/ WritePuts(r),
           NEW s \in Request
    PROVE  Knows(s)'
<1>1. PICK content \in Content : Store(Target(r), content)
  BY Putting
<1>2. CASE s # r
  BY <1>1, <1>2, Putting, PutForOthers
<1>3. CASE s = r
  <2>1. Put(r)' /\ blockers'[r] = {}
    BY <1>1, Putting, PutForSelf
  <2>2. /\ pc'[r] \in {"fallback", "done"}
        /\ pc'[r] # "done" => r \in lost' /\ outcome'[r] = "none"
        /\ outcome'[r] \notin {"none", "created"} => r \in lost'
    BY DEF CreateLands, CreateLandsUnheard, CreateFile, WritePuts, Goto,
           Answer, Inv, CreationTypeOK, Knows, Unput
  <2>3. ask'[r] \in Demand
    BY Putting DEF CreateLands, CreateLandsUnheard, CreateFile, WritePuts,
                   Inv, Knows, Arrived
  <2>. QED  BY <1>3, <2>1, <2>2, <2>3
            DEF Knows, Arrived, BlockersHold, Searching, Unput, Honest, SeenFree
<1>. QED  BY <1>2, <1>3

(* On arrival the blockers are the files that hold the key.                *)
LEMMA SubmitKnows ==
    ASSUME Inv, NEW r \in Request, NEW demand \in Asked, Submit(r, demand),
           NEW s \in Request
    PROVE  Knows(s)'
<1>. USE DEF Inv, CreationTypeOK, Submit, Goto
<1>1. Put(s)' = Put(s) /\ Knows(s)
  BY DEF Put
<1>2. CASE s # r
  <2>1. \A b \in blockers'[s] : Holds(b, ask[s].key)'
    BY <1>1, <1>2 DEF Knows, BlockersHold, Holds, Exists
  <2>. QED  BY <1>1, <1>2, <2>1, Bystander
<1>3. CASE s = r
  <2>1. pc'[r] = "list" /\ outcome'[r] = "none" /\ ~Put(r)'
    BY <1>1, <1>3 DEF Knows, Unput
  <2>2. ask'[r] = demand /\ demand \in Demand
    BY CreationAssumption
  <2>3. \A b \in blockers'[r] : Holds(b, ask[r].key)'
    BY <2>2 DEF Holds, Exists
  <2>. QED  BY <1>3, <2>1, <2>2, <2>3
            DEF Knows, Arrived, BlockersHold, Searching, Unput, Honest, SeenFree
<1>. QED  BY <1>2, <1>3

(* Changes made elsewhere can only take files out of the blockers.         *)
LEMMA ElsewhereKnows ==
    ASSUME Inv, NEW f \in File, ChangeElsewhere(f), NEW s \in Request
    PROVE  Knows(s)'
<1>1. PICK content \in ElsewhereContent(f) : Store(f, content)
  BY DEF ChangeElsewhere
<1>2. content \in Content \cup {Absent}
  <2>1. Exists(f) => store[f] \in Content
    BY DEF Exists, Inv, CreationTypeOK
  <2>. QED  BY <1>1, <2>1, EmptyType, WithFlag DEF ElsewhereContent, Author
<1>3. CreationTypeOK /\ (\A q \in Request : BlockersHold(q)) /\ Knows(s)
  BY DEF Inv, Knows
<1>4. /\ blockers'[s] \subseteq blockers[s]
      /\ \A b \in blockers'[s] : Holds(b, ask[s].key)'
  BY <1>1, <1>2, <1>3, Stored DEF ChangeElsewhere, Holds, Exists
<1>5. Put(s)' = Put(s)
  BY DEF ChangeElsewhere, Put
<1>. QED  BY <1>3, <1>4, <1>5, Bystander DEF ChangeElsewhere

(* Every step keeps what everybody knows.                                  *)
LEMMA KnowsStep ==
    ASSUME Inv, Next, NEW s \in Request
    PROVE  Knows(s)'
<1>1. ASSUME NEW r \in Request, Create(r)
      PROVE  Knows(s)'
  <2>1. CASE CreateLands(r) \/ CreateLandsUnheard(r) \/ WritePuts(r)
    BY <2>1, PuttingKnows
  <2>2. CASE \/ ListFiles(r) \/ Located(r) \/ (\E f \in File : Scan(r, f))
             \/ FirstOfTeam(r) \/ CreateRefused(r) \/ Fallback(r)
             \/ WriteReads(r) \/ WriteRefused(r) \/ StorageFails(r)
    BY <1>1, <2>2, QuietForSelf, QuietForOthers
  <2>. QED  BY <1>1, <2>1, <2>2 DEF Create
<1>. QED  BY <1>1, SubmitKnows, ElsewhereKnows DEF Next

-----------------------------------------------------------------------------
(***************************************************************************)
(* Theorems.                                                               *)
(***************************************************************************)
(* A step of somebody else's variables changes nothing.                    *)
LEMMA StutterInv == Inv /\ UNCHANGED cvars => Inv'
  BY DEF Inv, cvars, CreationTypeOK, Knows, Arrived, BlockersHold, Searching,
         Unput, Honest, SeenFree, Put, Holds, Exists

(* The invariant holds in every state a create can bring about.            *)
THEOREM CreationInvariance == CreationSpec => []Inv
<1>1. Inv /\ [Next]_cvars => Inv'
  BY TypeStep, KnowsStep, StutterInv DEF Inv
<1>. QED  BY InitInv, <1>1, PTL DEF CreationSpec

(* The variables keep their types; no create makes more than Attempts puts *)
(* (the backends' Write).                                                  *)
THEOREM CreationTypes == CreationSpec => []CreationTypeOK
<1>1. Inv => CreationTypeOK
  BY DEF Inv
<1>. QED  BY CreationInvariance, <1>1, PTL

(* "created" is true, and whoever is told otherwise has left nothing       *)
(* behind, unless an answer of the storage was lost (service.go Create).   *)
THEOREM CreatesAnswerTruly == CreationSpec => []HonestAnswers
<1>1. Inv => HonestAnswers
  BY DEF Inv, Knows, Honest, HonestAnswers
<1>. QED  BY CreationInvariance, <1>1, PTL

(* A key that was there before the request, and stayed, is never created a *)
(* second time (service.go locateKey).                                     *)
THEOREM KnownKeysStayUnique == CreationSpec => []KnownKeysAreRefused
<1>1. Inv => KnownKeysAreRefused
  BY DEF Inv, Knows, Searching, KnownKeysAreRefused
<1>. QED  BY CreationInvariance, <1>1, PTL

(* What a step does to the flag of key k in file f, if there is one.       *)
Kept(f, k) ==
    Holds(f, k) => store'[f] # Absent /\ store'[f][k] = store[f][k]

(* No step of a create takes a flag away or replaces it.                   *)
LEMMA FlagsAreKept ==
    ASSUME Inv, Next, elsewhere' = elsewhere, NEW f \in File, NEW k \in Key
    PROVE  Kept(f, k)
<1>. USE DEF Kept
<1>1. ASSUME NEW r \in Request, NEW content, Target(r) \in File,
             ask[r].key \in Key, Store(Target(r), content),
             \/ ~Exists(Target(r))
             \/ /\ store[Target(r)][ask[r].key] = Nobody
                /\ Exists(Target(r))
                /\ content = [store[Target(r)] EXCEPT ![ask[r].key] = r]
      PROVE  Kept(f, k)
  <2>1. store' = [store EXCEPT ![Target(r)] = content]
    BY <1>1 DEF Store
  <2>2. CASE f # Target(r)
    BY <2>1, <2>2, <1>1 DEF Inv, CreationTypeOK, Holds, Exists
  <2>3. CASE f = Target(r) /\ Exists(f)
    <3>1. store[f] \in Content
      BY <2>3 DEF Inv, CreationTypeOK, Exists
    <3>2. content \in Content /\ content # Absent
      <4>1. content \in Content
        BY <1>1, <2>3, <3>1, WithFlag DEF Author
      <4>. QED  BY <4>1, CreationAssumption
    <3>. QED  BY <1>1, <2>1, <2>3, <3>1, <3>2
              DEF Inv, CreationTypeOK, Holds, Content
  <2>. QED  BY <2>2, <2>3 DEF Holds
<1>2. ASSUME NEW r \in Request,
             CreateLands(r) \/ CreateLandsUnheard(r) \/ WritePuts(r)
      PROVE  Kept(f, k)
  <2>1. ask[r] \in Demand
    BY <1>2 DEF Inv, Knows, Arrived, CreateLands, CreateLandsUnheard,
                      CreateFile, WritePuts
  <2>2. CASE CreateLands(r) \/ CreateLandsUnheard(r)
    BY <1>1, <2>1, <2>2 DEF CreateLands, CreateLandsUnheard, CreateFile,
                            MayCreate, Target, Demand
  <2>3. CASE WritePuts(r)
    <3>1. store[Target(r)] = seen[r] /\ seen[r] \in Content
      BY <2>3 DEF WritePuts, MayPut, Inv, CreationTypeOK
    <3>2. Exists(Target(r)) /\ store[Target(r)][ask[r].key] = Nobody
      BY <2>3, <3>1, CreationAssumption
      DEF WritePuts, Inv, Knows, SeenFree, Exists
    <3>. QED  BY <1>1, <2>1, <2>3, <3>1, <3>2 DEF WritePuts, Target, Demand
  <2>. QED  BY <1>2, <2>2, <2>3
<1>3. CASE store' = store
  BY <1>3 DEF Holds, Exists
<1>4. ASSUME NEW r \in Request, Create(r),
             ~(CreateLands(r) \/ CreateLandsUnheard(r) \/ WritePuts(r))
      PROVE  store' = store
  BY <1>4, QuietForSelf DEF Create, Unstored
<1>5. ASSUME NEW r \in Request, NEW demand \in Asked, Submit(r, demand)
      PROVE  store' = store
  BY <1>5 DEF Submit
<1>6. ASSUME NEW g \in File, ChangeElsewhere(g)
      PROVE  FALSE
  BY <1>6 DEF ChangeElsewhere, Inv, CreationTypeOK
<1>. QED  BY <1>2, <1>3, <1>4, <1>5, <1>6 DEF Next

(* No create removes or replaces a flag, in whichever of its races it is   *)
(* put (service.go createTeamFile, buildCreate, and the conditional puts). *)
THEOREM CreatesOnlyAddFlags == CreationSpec => CreatesOnlyAdd
<1>1. Inv /\ [Next]_cvars =>
        [elsewhere' = elsewhere =>
           \A f \in File, k \in Key :
             Holds(f, k) => store'[f] # Absent /\ store'[f][k] = store[f][k]]_cvars
  BY FlagsAreKept DEF Kept
<1>. QED  BY CreationInvariance, <1>1, PTL DEF CreationSpec, CreatesOnlyAdd

-----------------------------------------------------------------------------
(* As long as nothing changes elsewhere, what a request has put is there:  *)
(* so nobody else can have put it too.                                     *)
Stays(r) ==
    elsewhere = 0 /\ Put(r) =>
        store[Target(r)] # Absent /\ store[Target(r)][ask[r].key] = r

LEMMA StaysStep ==
    ASSUME Inv, Inv', Next, NEW s \in Request, Stays(s), elsewhere' = 0, Put(s)'
    PROVE  store'[Target(s)'] # Absent /\ store'[Target(s)'][ask'[s].key] = s
<1>1. ASSUME NEW g \in File, ChangeElsewhere(g) PROVE FALSE
  BY <1>1 DEF ChangeElsewhere, Inv, CreationTypeOK
<1>2. elsewhere' = elsewhere
  BY <1>1, QuietForSelf
  DEF Next, Create, Submit, Unstored, CreateLands, CreateLandsUnheard,
      CreateFile, WritePuts
<1>3. CASE Put(s)
  <2>1. pc[s] # "idle" /\ ask[s] \in Demand
    BY <1>3 DEF Inv, Knows, Unput, Arrived
  <2>2. ask'[s] = ask[s]
    BY <1>1, <2>1
    DEF Next, Create, Submit, ListFiles, Scan, Located, FirstOfTeam,
        CreateLands, CreateLandsUnheard, CreateFile, CreateRefused, Fallback,
        WriteReads, WritePuts, WriteRefused, StorageFails, Inv, CreationTypeOK
  <2>3. store[Target(s)] # Absent /\ store[Target(s)][ask[s].key] = s
    BY <1>2, <1>3 DEF Stays
  <2>4. s # Nobody
    BY CreationAssumption DEF Author
  <2>5. Target(s) \in File /\ ask[s].key \in Key /\ Holds(Target(s), ask[s].key)
    BY <2>1, <2>3, <2>4 DEF Target, Demand, Holds, Exists
  <2>6. Kept(Target(s), ask[s].key)
    BY <1>2, <2>5, FlagsAreKept
  <2>. QED  BY <2>2, <2>3, <2>5, <2>6 DEF Kept, Target
<1>4. CASE ~Put(s)
  <2>1. ever' # ever
    BY <1>4 DEF Put
  <2>2. PICK r \in Request :
          CreateLands(r) \/ CreateLandsUnheard(r) \/ WritePuts(r)
    BY <1>1, <2>1, QuietForSelf DEF Next, Create, Submit, Unstored
  <2>3. Ever(r) /\ ask' = ask /\ Target(r) \in File
    BY <2>2, Putting
  <2>4. r = s
    BY <1>4, <2>3 DEF Ever, Put
  <2>5. ask[s] \in Demand
    BY <2>2, <2>4 DEF Inv, Knows, Arrived, CreateLands, CreateLandsUnheard,
                      CreateFile, WritePuts
  <2>6. \E content \in Content :
          /\ content[ask[s].key] = s
          /\ Store(Target(s), content)
    <3>1. ask[s].key \in Key /\ s \in Author
      BY <2>5 DEF Demand, Author
    <3>2. ASSUME NEW old \in Content
          PROVE  /\ [old EXCEPT ![ask[s].key] = s] \in Content
                 /\ [old EXCEPT ![ask[s].key] = s][ask[s].key] = s
      BY <3>1, WithFlag DEF Content
    <3>3. seen[s] \in Content
      BY DEF Inv, CreationTypeOK
    <3>. QED
      BY <2>2, <2>4, <3>2, <3>3, EmptyType
      DEF CreateLands, CreateLandsUnheard, CreateFile, WritePuts
  <2>. QED
    BY <2>3, <2>4, <2>6, CreationAssumption DEF Store, Target, Inv, CreationTypeOK
<1>. QED  BY <1>3, <1>4

(* Whoever is told that it created the flag is the only one, unless the    *)
(* files were changed elsewhere (service.go createTeamFile, buildCreate).  *)
THEOREM OneCreates == CreationSpec => []OneWinner
<1>. DEFINE AllStay == \A r \in Request : Stays(r)
<1>1. Init => AllStay
  BY DEF Init, Stays, Put
<1>2. Inv /\ Inv' /\ AllStay /\ [Next]_cvars => AllStay'
  <2>1. ASSUME Inv, Inv', AllStay, Next, NEW s \in Request
        PROVE  Stays(s)'
    BY <2>1, StaysStep DEF Stays
  <2>2. CASE UNCHANGED cvars
    BY <2>2 DEF cvars, Stays, Put, Target
  <2>. QED  BY <2>1, <2>2
<1>3. Inv /\ AllStay => OneWinner
  <2>. SUFFICES ASSUME Inv, AllStay, elsewhere = 0,
                       NEW r \in Request, NEW s \in Request,
                       outcome[r] = "created", outcome[s] = "created",
                       ask[r] = ask[s]
                PROVE  r = s
    BY DEF OneWinner
  <2>1. Put(r) /\ Put(s)
    BY DEF Inv, Knows, Honest
  <2>. QED  BY <2>1 DEF Stays, Target
<1>. QED  BY <1>1, <1>2, <1>3, CreationInvariance, PTL DEF CreationSpec
=============================================================================
