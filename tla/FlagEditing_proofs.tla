-------------------------- MODULE FlagEditing_proofs --------------------------
(***************************************************************************)
(* Theorems about FlagEditing, for any number of replicas and requests,    *)
(* any history limit, with restarts and overflows or without.              *)
(***************************************************************************)
EXTENDS FlagEditing, ConditionalWrite_proofs

-----------------------------------------------------------------------------
(***************************************************************************)
(* The inductive invariant.  Write is handed whatever form and found hold  *)
(* when a request gets there, so its callers are truthful only if both are *)
(* from the moment the request arrives: the fileSha is that of a version   *)
(* some page has shown, which can be parsed, and a snapshot is the flag    *)
(* that very version held.                                                 *)
(***************************************************************************)
ShownReadable == \A v \in shown : Held(v) # Garbled

Formed(r) ==
    stage[r] # "new" =>
        /\ form[r] \in Form
        /\ form[r].base \in shown \cup {0}
        /\ Looking(r) \/ form[r].edit \in Asked

(* Whoever only looks at the flags goes no further than that.              *)
Editing(r) ==
    stage[r] \in {"lookup", "check", "locate", "write"} => ~Looking(r)

SnapshotTrue(r) ==
    /\ stage[r] = "new" => found[r] = NoFlag
    /\ found[r] # NoFlag =>
         /\ form[r].base # 0
         /\ Held(form[r].base)[form[r].edit.key] = found[r]

GotReadable(r) ==
    stage[r] = "remember" => got[r] # 0 /\ Held(got[r]) # Garbled

(* Write runs for a request from the moment the handler calls it, with     *)
(* what the handler has.                                                   *)
Handed(r) ==
    /\ stage[r] \notin {"write", "done"} => pc[r] = "idle"
    /\ pc[r] # "idle" => call[r] = [edit |-> form[r].edit,
                                    base |-> form[r].base,
                                    loaded |-> found[r]]

RequestInv(r) ==
    Formed(r) /\ Editing(r) /\ SnapshotTrue(r) /\ GotReadable(r) /\ Handed(r)

EditingInv ==
    /\ EditingTypeOK
    /\ Inv
    /\ ShownReadable
    /\ \A r \in Request : RequestInv(r)

-----------------------------------------------------------------------------
(* What the handlers read.                                                 *)

(* A request that has arrived names a version there is, or none.           *)
LEMMA FormType ==
    ASSUME EditingInv, NEW r \in Request, stage[r] # "new"
    PROVE  /\ form[r].at \in Replica
           /\ form[r].base \in 0..Current
           /\ form[r].base # 0 => form[r].base \in shown
  BY DEF EditingInv, RequestInv, Formed, Form, EditingTypeOK, Current

(* The snapshot of a version that can be parsed is a flag, or none.        *)
LEMMA LookedUpType ==
    ASSUME EditingTypeOK, ShownReadable,
           NEW n \in Replica, NEW v \in shown \cup {0}, NEW k \in Key
    PROVE  /\ LookedUp(n, v, k) \in Flag \cup {NoFlag}
           /\ LookedUp(n, v, k) # NoFlag => v # 0 /\ Held(v)[k] = LookedUp(n, v, k)
<1>1. CASE v = 0
  BY <1>1 DEF LookedUp
<1>2. CASE v # 0
  <2>1. v \in 1..Current /\ Held(v) # Garbled
    BY <1>2 DEF EditingTypeOK, ShownReadable
  <2>2. Held(v) \in File
    BY <2>1, HeldType DEF EditingTypeOK, Content
  <2>. QED  BY <1>2, <2>2 DEF LookedUp, File
<1>. QED  BY <1>1, <1>2

-----------------------------------------------------------------------------
(***************************************************************************)
(* FlagEditing implements WriteSpec: of its steps only those of Write, the *)
(* calls of it, and edits made elsewhere touch what Write sees.            *)
(***************************************************************************)
LEMMA CallsAreStarts ==
    ASSUME EditingInv, NEW r \in Request,
           stage[r] \in {"check", "locate"}, CallWrite(r)
    PROVE  Start(r, form[r].edit, form[r].base) /\ form[r].edit \in Asked
<1>1. /\ pc[r] = "idle" /\ ~Looking(r) /\ form[r].edit \in Asked
      /\ form[r].base \in 0..Current /\ form[r].base \in shown \cup {0}
  BY FormType
  DEF EditingInv, RequestInv, Handed, Editing, Formed
<1>2. found[r] \in Shown(form[r].base, form[r].edit.key)
  <2>1. CASE found[r] = NoFlag
    BY <2>1 DEF Shown
  <2>2. CASE found[r] # NoFlag
    <3>1. /\ form[r].base # 0 /\ form[r].base \in shown
          /\ Held(form[r].base)[form[r].edit.key] = found[r]
      BY <1>1, <2>2 DEF EditingInv, RequestInv, SnapshotTrue
    <3>2. Held(form[r].base) # Garbled
      BY <3>1 DEF EditingInv, ShownReadable
    <3>. QED  BY <3>1, <3>2 DEF Shown
  <2>. QED  BY <2>1, <2>2
<1>. QED  BY <1>1, <1>2 DEF CallWrite, Start

LEMMA StepsOfWrite ==
    ASSUME EditingInv, [EditingNext]_vars
    PROVE  [Next]_wvars
<1>1. ASSUME NEW r \in Request, Submit(r) \/ Browse(r) \/ Abandoned(r)
      PROVE  UNCHANGED wvars
  BY <1>1 DEF Submit, Arrive, Browse, Abandoned
<1>2. ASSUME NEW r \in Request, Handle(r)
      PROVE  [Next]_wvars
  <2>1. CASE Get(r) \/ GetRemembers(r) \/ LookUp(r) \/ Reply(r)
    BY <2>1 DEF Get, GetRemembers, LookUp, Reply
  <2>2. CASE Check(r) \/ Locate(r)
    <3>1. \/ UNCHANGED wvars
          \/ stage[r] \in {"check", "locate"} /\ CallWrite(r)
      BY <2>2 DEF Check, Locate
    <3>2. ASSUME stage[r] \in {"check", "locate"}, CallWrite(r)
          PROVE  Next
      <4>1. Start(r, form[r].edit, form[r].base) /\ form[r].edit \in Asked
        BY <3>2, CallsAreStarts
      <4>2. form[r].base \in 0..Current
        BY <4>1 DEF Start
      <4>. QED  BY <4>1, <4>2 DEF Next
    <3>. QED  BY <3>1, <3>2
  <2>3. CASE Write(r)
    BY <2>3 DEF Next
  <2>. QED  BY <1>2, <2>1, <2>2, <2>3 DEF Handle
<1>3. ASSUME NEW content \in OutsideContent, EditElsewhere(content)
      PROVE  Next
  BY <1>3 DEF Next
<1>4. ASSUME NEW n \in Replica, Forget(n) \/ Restart(n)
      PROVE  UNCHANGED wvars
  BY <1>4 DEF Forget, Restart
<1>5. CASE UNCHANGED vars
  BY <1>5 DEF vars
<1>. QED  BY <1>1, <1>2, <1>3, <1>4, <1>5 DEF EditingNext

-----------------------------------------------------------------------------
(* The invariant.                                                          *)

LEMMA EditingBegins == EditingInit => EditingInv
<1> SUFFICES ASSUME EditingInit PROVE EditingInv
  OBVIOUS
<1>1. Inv
  BY InvHolds DEF EditingInit
<1>2. Current = 1 /\ Held(1) # Garbled
  BY DataAssumption DEF EditingInit, Init, Current, Held
<1>3. EditingTypeOK
  BY <1>1, <1>2, EditingAssumption
  DEF Inv, EditingInit, EditingTypeOK, Stages
<1>4. ASSUME NEW r \in Request PROVE RequestInv(r)
  BY DEF EditingInit, Init, RequestInv, Formed, Editing, SnapshotTrue,
         GotReadable, Handed
<1>. QED
  BY <1>1, <1>2, <1>3, <1>4 DEF EditingInv, EditingInit, ShownReadable

(* What Write does for one request shows at that request only.             *)
LEMMA WriteTouchesOwn ==
    ASSUME TypeOK, NEW r \in Request, Write(r)
    PROVE  /\ call' = call /\ pc[r] # "idle" /\ pc'[r] # "idle"
           /\ \A q \in Request : q # r => pc'[q] = pc[q]
<1>1. call' = call /\ pc[r] # "idle"
  BY DEF Write, ReadFails, Conflicts, Objects, NothingToDo, Builds, Applies,
         PutLands, PutLandsUnheard, PutFails, PutRefused, PutResent
<1>2. \E p \in {"read", "put", "done"} : pc' = [pc EXCEPT ![r] = p]
  BY DEF Write, ReadFails, Conflicts, Objects, NothingToDo, Builds, Applies,
         PutLands, PutLandsUnheard, PutFails, PutRefused, PutResent, TryAgain,
         Reread, FallOut, Return
<1>. QED  BY <1>1, <1>2 DEF TypeOK

(* Versions that were shown or read stay as they are.                      *)
LEMMA VersionsStay ==
    ASSUME EditingInv, [EditingNext]_vars
    PROVE  /\ Current \in Nat /\ Current' \in Nat /\ Current' >= Current
           /\ \A v \in 1..Current : log'[v].content = Held(v)
  BY StepsOfWrite, LogGrows DEF EditingInv, Inv, Held

(* A request whose handler does not move keeps what is known of it.        *)
LEMMA Undisturbed ==
    ASSUME EditingInv, [EditingNext]_vars, NEW q \in Request,
           stage'[q] = stage[q], form'[q] = form[q], got'[q] = got[q],
           found'[q] = found[q], shown \subseteq shown',
           \/ pc'[q] = pc[q] /\ call'[q] = call[q]
           \/ pc[q] # "idle" /\ pc'[q] # "idle" /\ call'[q] = call[q]
    PROVE  RequestInv(q)'
<1>1. RequestInv(q)
  BY DEF EditingInv
<1>2. got[q] \in 0..Current /\ Current \in Nat
  BY VersionsStay DEF EditingInv, EditingTypeOK
<1>3. Formed(q)' /\ Editing(q)' /\ Handed(q)'
  BY <1>1 DEF RequestInv, Formed, Editing, Looking, Handed
<1>4. SnapshotTrue(q)'
  <2>1. CASE found[q] = NoFlag
    BY <2>1 DEF SnapshotTrue
  <2>2. CASE found[q] # NoFlag
    <3>1. /\ stage[q] # "new" /\ form[q].base # 0
          /\ Held(form[q].base)[form[q].edit.key] = found[q]
      BY <1>1, <2>2 DEF RequestInv, SnapshotTrue
    <3>2. form[q].base \in 1..Current
      BY <1>2, <3>1, FormType
    <3>. QED  BY <3>1, <3>2, VersionsStay DEF SnapshotTrue, Held
  <2>. QED  BY <2>1, <2>2
<1>5. GotReadable(q)'
  BY <1>1, <1>2, VersionsStay DEF RequestInv, GotReadable, Held
<1>. QED  BY <1>3, <1>4, <1>5 DEF RequestInv

(* A step of Write or of somebody else: the replicas do not move.          *)
LEMMA ReplicasWait ==
    ASSUME EditingInv, [EditingNext]_vars, UNCHANGED svars,
           \A q \in Request :
              \/ pc'[q] = pc[q] /\ call'[q] = call[q]
              \/ pc[q] # "idle" /\ pc'[q] # "idle" /\ call'[q] = call[q]
    PROVE  EditingInv'
<1>1. Inv'
  BY StepsOfWrite, InvStep DEF EditingInv
<1>2. EditingTypeOK'
  BY <1>1, VersionsStay DEF EditingInv, Inv, EditingTypeOK, svars
<1>3. ShownReadable'
  BY VersionsStay DEF EditingInv, EditingTypeOK, ShownReadable, svars, Held
<1>4. ASSUME NEW q \in Request PROVE RequestInv(q)'
  BY <1>4, Undisturbed DEF svars
<1>. QED  BY <1>1, <1>2, <1>3, <1>4 DEF EditingInv

(* A step of one handler that leaves Write alone: what is left to show.    *)
LEMMA HandlerSteps ==
    ASSUME EditingInv, [EditingNext]_vars, UNCHANGED wvars,
           EditingTypeOK', shown' = shown \/ ShownReadable',
           NEW r \in Request, RequestInv(r)',
           \A q \in Request \ {r} :
              /\ stage'[q] = stage[q] /\ form'[q] = form[q]
              /\ got'[q] = got[q] /\ found'[q] = found[q],
           shown \subseteq shown'
    PROVE  EditingInv'
<1>1. Inv'
  BY StepsOfWrite, InvStep DEF EditingInv
<1>2. ShownReadable'
  BY DEF EditingInv, ShownReadable, wvars, Held
<1>3. ASSUME NEW q \in Request, q # r PROVE RequestInv(q)'
  BY <1>3, Undisturbed DEF wvars
<1>. QED  BY <1>1, <1>2, <1>3 DEF EditingInv

LEMMA ArriveStep ==
    ASSUME EditingInv, [EditingNext]_vars, NEW r \in Request, NEW n \in Replica,
           NEW e \in Asked, NEW v \in shown \cup {0}, Arrive(r, n, e, v)
    PROVE  EditingInv'
<1>. DEFINE new == [at |-> n, edit |-> e, base |-> v]
<1>1. e \in Edit /\ e.key \in Key /\ v \in Nat
  BY BackendAssumption DEF Edit, EditingInv, EditingTypeOK
<1>2. /\ new \in Form /\ form' = [form EXCEPT ![r] = new]
      /\ stage' = [stage EXCEPT ![r] = "get"] /\ stage[r] = "new"
      /\ UNCHANGED <<wvars, cache, history, shown, got, early>>
  BY <1>1 DEF Arrive, Advance, Form
<1>3. PICK f \in Flag \cup {NoFlag} :
        /\ found' = [found EXCEPT ![r] = f]
        /\ f # NoFlag => v # 0 /\ Held(v)[e.key] = f
  <2>. DEFINE f == IF LooksUpFirst(e) THEN LookedUp(n, v, e.key) ELSE NoFlag
  <2>1. f \in Flag \cup {NoFlag} /\ (f # NoFlag => v # 0 /\ Held(v)[e.key] = f)
    BY <1>1, LookedUpType DEF EditingInv
  <2>2. found' = [found EXCEPT ![r] = f]
    BY DEF Arrive
  <2>. QED  BY <2>1, <2>2
<1>4. EditingTypeOK'
  BY <1>2, <1>3 DEF EditingInv, EditingTypeOK, TypeOK, wvars, Current, Stages
<1>5. /\ stage'[r] = "get" /\ form'[r] = new /\ found'[r] = f
      /\ pc[r] = "idle" /\ pc'[r] = "idle" /\ log' = log
  BY <1>2, <1>3 DEF EditingInv, EditingTypeOK, RequestInv, Handed, wvars
<1>6. RequestInv(r)'
  <2>1. Formed(r)'
    BY <1>2, <1>5 DEF Formed, Looking
  <2>2. SnapshotTrue(r)'
    BY <1>3, <1>5 DEF SnapshotTrue, Held
  <2>3. Editing(r)' /\ GotReadable(r)' /\ Handed(r)'
    BY <1>5 DEF Editing, GotReadable, Handed
  <2>. QED  BY <2>1, <2>2, <2>3 DEF RequestInv
<1>. QED
  BY <1>2, <1>3, <1>4, <1>6, HandlerSteps DEF EditingInv, EditingTypeOK

LEMMA BrowseStep ==
    ASSUME EditingInv, [EditingNext]_vars, NEW r \in Request, Browse(r)
    PROVE  EditingInv'
<1>1. PICK n \in Replica :
        /\ stage[r] = "new"
        /\ form' = [form EXCEPT ![r] = [at |-> n, edit |-> NoCall, base |-> 0]]
        /\ stage' = [stage EXCEPT ![r] = "get"]
        /\ UNCHANGED <<wvars, cache, history, shown, got, found, early>>
  BY DEF Browse, Advance
<1>2. [at |-> n, edit |-> NoCall, base |-> 0] \in Form
  BY DEF Form
<1>3. EditingTypeOK'
  BY <1>1, <1>2 DEF EditingInv, EditingTypeOK, TypeOK, wvars, Current, Stages
<1>4. /\ stage'[r] = "get" /\ form'[r] = [at |-> n, edit |-> NoCall, base |-> 0]
      /\ found'[r] = NoFlag /\ pc[r] = "idle" /\ pc'[r] = "idle"
  BY <1>1 DEF EditingInv, EditingTypeOK, RequestInv, Handed, SnapshotTrue, wvars
<1>5. RequestInv(r)'
  BY <1>2, <1>4 DEF RequestInv, Formed, Looking, SnapshotTrue, Editing, GotReadable,
                    Handed
<1>. QED
  BY <1>1, <1>3, <1>5, HandlerSteps DEF EditingInv, EditingTypeOK

LEMMA GetStep ==
    ASSUME EditingInv, [EditingNext]_vars, NEW r \in Request, Get(r) \/ Abandoned(r)
    PROVE  EditingInv'
<1>1. /\ stage[r] \notin {"new", "write", "done"}
      /\ UNCHANGED <<wvars, cache, history, shown, form, found>>
  BY DEF Get, Abandoned
<1>2. /\ stage[r] \notin {"new", "write", "done"} => RequestInv(r)
      /\ Current \in 1..Current
  BY CurrentIsVersion DEF EditingInv, EditingTypeOK
<1>3. CASE /\ Held(Current) # Garbled
           /\ got' = [got EXCEPT ![r] = Current]
           /\ stage' = [stage EXCEPT ![r] = "remember"]
           /\ early' = early
  <2>1. EditingTypeOK'
    BY <1>1, <1>2, <1>3
    DEF EditingInv, EditingTypeOK, TypeOK, wvars, Current, Stages
  <2>2. stage'[r] = "remember" /\ got'[r] = Current
    BY <1>2, <1>3 DEF EditingInv, EditingTypeOK
  <2>3. RequestInv(r)'
    BY <1>1, <1>2, <1>3, <2>2
    DEF RequestInv, Formed, Looking, SnapshotTrue, Editing, GotReadable, Handed,
        Held, wvars
  <2>. QED
    BY <1>1, <1>3, <2>1, <2>3, HandlerSteps DEF EditingInv, EditingTypeOK
<1>4. CASE stage' = [stage EXCEPT ![r] = "done"] /\ got' = got
           /\ early' = [early EXCEPT ![r] = "failed"]
  <2>1. EditingTypeOK'
    BY <1>1, <1>4
    DEF EditingInv, EditingTypeOK, TypeOK, wvars, Current, Stages
  <2>2. stage'[r] = "done"
    BY <1>4 DEF EditingInv, EditingTypeOK
  <2>3. RequestInv(r)'
    BY <1>1, <1>2, <2>2
    DEF RequestInv, Formed, Looking, SnapshotTrue, Editing, GotReadable, Handed,
        Held, wvars
  <2>. QED
    BY <1>1, <1>4, <2>1, <2>3, HandlerSteps DEF EditingInv, EditingTypeOK
<1>. QED
  BY <1>3, <1>4 DEF Get, Abandoned, Advance, AnswerEarly

(* A replica remembers only versions there are.                            *)
LEMMA RememberTypes ==
    ASSUME EditingTypeOK, NEW n \in Replica, NEW v \in 1..Current, Remember(n, v)
    PROVE  /\ cache' \in [Replica -> 0..Current]
           /\ history' \in [Replica -> SUBSET (1..Current)]
  BY DEF Remember, Kept, EditingTypeOK

LEMMA GetRemembersStep ==
    ASSUME EditingInv, [EditingNext]_vars, NEW r \in Request, GetRemembers(r)
    PROVE  EditingInv'
<1>1. /\ stage[r] = "remember" /\ Remember(form[r].at, got[r])
      /\ shown' = IF Looking(r) THEN shown \cup {got[r]} ELSE shown
      /\ UNCHANGED <<wvars, form, got, found>>
  BY DEF GetRemembers
<1>2. /\ form[r].at \in Replica /\ got[r] \in 1..Current /\ Held(got[r]) # Garbled
      /\ RequestInv(r)
  BY <1>1, FormType, VersionsStay
  DEF EditingInv, EditingTypeOK, RequestInv, GotReadable
<1>3. /\ cache' \in [Replica -> 0..Current]
      /\ history' \in [Replica -> SUBSET (1..Current)]
  BY <1>1, <1>2, RememberTypes DEF EditingInv
<1>4. /\ shown' \subseteq 1..Current /\ shown \subseteq shown'
      /\ \A v \in shown' : Held(v) # Garbled
  BY <1>1, <1>2 DEF EditingInv, EditingTypeOK, ShownReadable
<1>5. PICK s \in {"done", "check", "lookup"} :
        /\ stage' = [stage EXCEPT ![r] = s]
        /\ s # "done" => ~Looking(r)
        /\ early' = early \/ early' = [early EXCEPT ![r] = "notFound"]
  BY DEF GetRemembers, Advance, AnswerEarly
<1>6. EditingTypeOK'
  BY <1>1, <1>3, <1>4, <1>5
  DEF EditingInv, EditingTypeOK, TypeOK, wvars, Current, Stages
<1>7. stage'[r] = s
  BY <1>5 DEF EditingInv, EditingTypeOK
<1>8. RequestInv(r)'
  BY <1>1, <1>2, <1>4, <1>5, <1>7
  DEF RequestInv, Formed, Looking, SnapshotTrue, Editing, GotReadable, Handed,
      Held, wvars
<1>9. ShownReadable'
  BY <1>1, <1>4 DEF ShownReadable, Held, wvars
<1>. QED
  BY <1>1, <1>4, <1>5, <1>6, <1>8, <1>9, HandlerSteps DEF EditingInv, EditingTypeOK

LEMMA LookUpStep ==
    ASSUME EditingInv, [EditingNext]_vars, NEW r \in Request, LookUp(r)
    PROVE  EditingInv'
<1>. DEFINE f == LookedUp(form[r].at, form[r].base, form[r].edit.key)
<1>1. /\ stage[r] = "lookup" /\ found' = [found EXCEPT ![r] = f]
      /\ stage' = [stage EXCEPT ![r] = "check"]
      /\ UNCHANGED <<wvars, cache, history, shown, form, got, early>>
  BY DEF LookUp, Advance
<1>2. /\ form[r].at \in Replica /\ form[r].base \in shown \cup {0}
      /\ form[r].edit.key \in Key /\ RequestInv(r)
  BY <1>1, FormType, BackendAssumption
  DEF EditingInv, RequestInv, Formed, Editing, Edit
<1>3. /\ f \in Flag \cup {NoFlag}
      /\ f # NoFlag => form[r].base # 0 /\ Held(form[r].base)[form[r].edit.key] = f
  BY <1>2, LookedUpType DEF EditingInv
<1>4. EditingTypeOK'
  BY <1>1, <1>3 DEF EditingInv, EditingTypeOK, TypeOK, wvars, Current, Stages
<1>5. stage'[r] = "check" /\ found'[r] = f /\ log' = log /\ form' = form
  BY <1>1 DEF EditingInv, EditingTypeOK, wvars
<1>6. SnapshotTrue(r)'
  BY <1>3, <1>5 DEF SnapshotTrue, Held
<1>7. RequestInv(r)'
  BY <1>1, <1>2, <1>5, <1>6
  DEF RequestInv, Formed, Looking, Editing, GotReadable, Handed, wvars
<1>. QED
  BY <1>1, <1>4, <1>7, HandlerSteps DEF EditingInv, EditingTypeOK

(* The steps at which a handler calls Write or turns a request down.       *)
LEMMA CallWriteStep ==
    ASSUME EditingInv, [EditingNext]_vars, NEW r \in Request,
           stage[r] \in {"check", "locate"}, CallWrite(r)
    PROVE  EditingInv'
<1>1. /\ stage' = [stage EXCEPT ![r] = "write"]
      /\ call' = [call EXCEPT ![r] = [edit |-> form[r].edit,
                                      base |-> form[r].base,
                                      loaded |-> found[r]]]
      /\ pc' = [pc EXCEPT ![r] = "read"] /\ log' = log
      /\ UNCHANGED <<cache, history, shown, form, got, found, early>>
  BY DEF CallWrite, Advance
<1>2. Inv'
  BY StepsOfWrite, InvStep DEF EditingInv
<1>3. EditingTypeOK'
  BY <1>1, <1>2 DEF EditingInv, Inv, EditingTypeOK, Current, Stages
<1>4. ShownReadable'
  BY <1>1 DEF EditingInv, ShownReadable, Held
<1>5. RequestInv(r)'
  BY <1>1
  DEF EditingInv, EditingTypeOK, TypeOK, RequestInv, Formed, Looking, Editing,
      SnapshotTrue, GotReadable, Handed, Held
<1>6. ASSUME NEW q \in Request, q # r PROVE RequestInv(q)'
  BY <1>1, <1>6, Undisturbed DEF EditingInv, EditingTypeOK, TypeOK
<1>. QED  BY <1>2, <1>3, <1>4, <1>5, <1>6 DEF EditingInv

LEMMA AdvanceStep ==
    ASSUME EditingInv, [EditingNext]_vars, NEW r \in Request,
           \/ stage[r] \in {"check", "locate"}
           \/ stage[r] = "write" /\ pc[r] = "done",
           NEW s \in {"locate", "done"}, s = "locate" => stage[r] = "check",
           stage' = [stage EXCEPT ![r] = s],
           \/ early' = early
           \/ \E o \in {"staleView", "refused", "failed"} :
                early' = [early EXCEPT ![r] = o],
           UNCHANGED <<wvars, cache, history, shown, form, got, found>>
    PROVE  EditingInv'
<1>1. EditingTypeOK'
  BY DEF EditingInv, EditingTypeOK, TypeOK, wvars, Current, Stages
<1>2. stage'[r] = s
  BY DEF EditingInv, EditingTypeOK
<1>3. RequestInv(r)'
  BY <1>2
  DEF EditingInv, RequestInv, Formed, Looking, SnapshotTrue, Editing, GotReadable,
      Handed, Held, wvars
<1>. QED
  BY <1>1, <1>3, HandlerSteps DEF EditingInv, EditingTypeOK

(* The service loses what it remembers: no request knows.                  *)
LEMMA ForgettingStep ==
    ASSUME EditingInv, [EditingNext]_vars, NEW n \in Replica,
           Forget(n) \/ Restart(n)
    PROVE  EditingInv'
<1>1. UNCHANGED <<wvars, shown, stage, form, got, found, early>>
  BY DEF Forget, Restart
<1>2. /\ cache' \in [Replica -> 0..Current]
      /\ history' \in [Replica -> SUBSET (1..Current)]
  <2>1. 0 \in 0..Current
    BY VersionsStay
  <2>2. CASE Forget(n)
    BY <2>2 DEF Forget, EditingInv, EditingTypeOK
  <2>3. CASE Restart(n)
    BY <2>1, <2>3 DEF Restart, EditingInv, EditingTypeOK
  <2>. QED  BY <2>2, <2>3
<1>3. EditingTypeOK'
  BY <1>1, <1>2 DEF EditingInv, EditingTypeOK, TypeOK, wvars, Current
<1>4. ASSUME NEW q \in Request PROVE RequestInv(q)'
  BY <1>1, <1>4, Undisturbed DEF wvars
<1>5. Inv'
  BY StepsOfWrite, InvStep DEF EditingInv
<1>6. ShownReadable'
  BY <1>1 DEF EditingInv, ShownReadable, Held, wvars
<1>. QED  BY <1>3, <1>4, <1>5, <1>6 DEF EditingInv

LEMMA HandleStep ==
    ASSUME EditingInv, [EditingNext]_vars, NEW r \in Request, Handle(r)
    PROVE  EditingInv'
<1>1. CASE Get(r)
  BY <1>1, GetStep
<1>2. CASE GetRemembers(r)
  BY <1>2, GetRemembersStep
<1>3. CASE LookUp(r)
  BY <1>3, LookUpStep
<1>4. CASE Check(r)
  <2>1. CASE CallWrite(r)
    BY <1>4, <2>1, CallWriteStep DEF Check
  <2>2. CASE /\ stage[r] = "check" /\ AnswerEarly(r, "staleView")
             /\ UNCHANGED <<wvars, cache, history, shown, form, got, found>>
    BY <2>2, AdvanceStep DEF AnswerEarly, Advance
  <2>3. CASE /\ stage[r] = "check" /\ Advance(r, "locate")
             /\ UNCHANGED <<wvars, cache, history, shown, form, got, found, early>>
    BY <2>3, AdvanceStep DEF Advance
  <2>. QED  BY <1>4, <2>1, <2>2, <2>3 DEF Check
<1>5. CASE Locate(r)
  <2>1. CASE CallWrite(r)
    BY <1>5, <2>1, CallWriteStep DEF Locate
  <2>2. ASSUME NEW o \in {"refused", "failed"},
               stage[r] = "locate", AnswerEarly(r, o),
               UNCHANGED <<wvars, cache, history, shown, form, got, found>>
        PROVE  EditingInv'
    BY <2>2, AdvanceStep DEF AnswerEarly, Advance
  <2>. QED  BY <1>5, <2>1, <2>2 DEF Locate
<1>6. CASE Write(r) /\ UNCHANGED svars
  BY <1>6, WriteTouchesOwn, ReplicasWait DEF EditingInv, EditingTypeOK
<1>7. CASE Reply(r)
  BY <1>7, AdvanceStep DEF Reply, Advance
<1>. QED
  BY <1>1, <1>2, <1>3, <1>4, <1>5, <1>6, <1>7 DEF Handle

LEMMA EditingStep == EditingInv /\ [EditingNext]_vars => EditingInv'
<1> SUFFICES ASSUME EditingInv, [EditingNext]_vars PROVE EditingInv'
  OBVIOUS
<1>1. ASSUME NEW r \in Request, Submit(r)
      PROVE  EditingInv'
  <2>1. PICK n \in Replica, e \in Asked, v \in shown \cup {0} : Arrive(r, n, e, v)
    BY <1>1 DEF Submit
  <2>. QED  BY <2>1, ArriveStep
<1>2. ASSUME NEW r \in Request, Browse(r) \/ Handle(r) \/ Abandoned(r)
      PROVE  EditingInv'
  BY <1>2, BrowseStep, HandleStep, GetStep
<1>3. ASSUME NEW content \in OutsideContent,
             EditElsewhere(content), UNCHANGED svars
      PROVE  EditingInv'
  BY <1>3, ReplicasWait DEF EditElsewhere
<1>4. ASSUME NEW n \in Replica, Forget(n) \/ Restart(n)
      PROVE  EditingInv'
  BY <1>4, ForgettingStep
<1>5. CASE UNCHANGED vars
  BY <1>5, ReplicasWait DEF vars, wvars
<1>. QED
  BY <1>1, <1>2, <1>3, <1>4, <1>5 DEF EditingNext

-----------------------------------------------------------------------------
(* The theorems.                                                           *)

(* Throughout, a request in progress holds a fileSha some page was given   *)
(* and a snapshot of that very version, or none.                           *)
THEOREM EditingInvariance == EditingSpec => []EditingInv
  BY EditingBegins, EditingStep, PTL DEF EditingSpec

(* The types of the handlers' and the caches' variables: no cache holds    *)
(* and no request names a version there never was.                         *)
THEOREM EditingTypes == EditingSpec => []EditingTypeOK
<1>1. EditingInv => EditingTypeOK
  BY DEF EditingInv
<1>. QED  BY <1>1, EditingInvariance, PTL

(* The replicas are callers as ConditionalWrite has them: whatever a       *)
(* restart or an overflow forgot, and whichever version the cache went by  *)
(* to find the file, Write is handed a snapshot of the version of its      *)
(* BaseVersion or none at all.                                             *)
THEOREM CallersAreTruthful == EditingSpec => ImplementsWriteSpec
<1>1. EditingInit => Init
  BY DEF EditingInit
<1>. QED
  BY <1>1, EditingInvariance, StepsOfWrite, PTL
  DEF EditingSpec, ImplementsWriteSpec, WriteSpec

(* So all that is proved of the loop is true of it here, behind any number *)
(* of replicas: nothing lost or overwritten unseen, answers that are true, *)
(* and each edit made as if at one instant.                                *)
THEOREM EditsThroughReplicas ==
    EditingSpec => /\ []CommitsAreEdits
                   /\ []NoUnseenOverwrite
                   /\ []AnswersAreTrue
                   /\ ImplementsAtomicEdits
<1>1. ImplementsWriteSpec <=> WriteSpec
  BY DEF ImplementsWriteSpec
<1>. QED
  BY <1>1, CallersAreTruthful, NothingLost, NothingUnseenOverwritten, AnswersTrue,
     Refinement, PTL

-----------------------------------------------------------------------------
(***************************************************************************)
(* Stale views.  Between Get and Check the replica knows the version that  *)
(* Get read: it remembered it, and the entry survives as long as history   *)
(* is not emptied under the request.  A restart ends the request first;    *)
(* what is assumed away is an overflow, by versions of other files         *)
(* (~MayForget) or of this one (Roomy).                                    *)
(***************************************************************************)
Roomy == Current <= HistoryLimit

Remembering(r) == stage[r] \in {"lookup", "check", "locate"}

Known(r) ==
    /\ Remembering(r) => got[r] # 0 /\ knownSHA(form[r].at, got[r])
    /\ early[r] = "staleView" =>
         /\ stage[r] = "done" /\ got[r] # 0 /\ form[r].base # 0
         /\ ~SameVersion(got[r], form[r].base)

KnownInv == \A r \in Request : Known(r)

LEMMA SameVersionTransitive ==
    ASSUME NEW u, NEW v, NEW w, SameVersion(u, v), SameVersion(v, w)
    PROVE  SameVersion(u, w) /\ SameVersion(v, u)
  BY DEF SameVersion

(* With room for every version there has been, remembering forgets none.   *)
LEMMA RememberKeeps ==
    ASSUME EditingInv, Roomy, NEW n \in Replica, NEW v \in 1..Current, Remember(n, v)
    PROVE  /\ history'[n] = Kept(n, v)
           /\ \A m \in Replica : history[m] \subseteq history'[m]
<1>1. Kept(n, v) \subseteq 1..Current /\ Current \in Nat
  BY CurrentIsVersion DEF Kept, EditingInv, EditingTypeOK
<1>2. IsFiniteSet(1..Current) /\ Cardinality(1..Current) = Current
  BY <1>1, FS_Interval
<1>3. Cardinality(Kept(n, v)) \in Nat /\ Cardinality(Kept(n, v)) <= Current
  BY <1>1, <1>2, FS_Subset, FS_CardinalityType
<1>4. ~(Cardinality(Kept(n, v)) > HistoryLimit)
  BY <1>1, <1>3, EditingAssumption DEF Roomy
<1>. QED  BY <1>4 DEF Remember, Kept, EditingInv, EditingTypeOK

(* A request that does not move knows what it knew, if its replica does.   *)
LEMMA KnowsStill ==
    ASSUME EditingInv, [EditingNext]_vars, NEW q \in Request, Known(q),
           stage'[q] = stage[q], form'[q] = form[q], got'[q] = got[q],
           early'[q] = early[q],
           Remembering(q) => history[form[q].at] \subseteq history'[form[q].at]
    PROVE  Known(q)'
<1>1. got[q] \in 0..Current /\ got[q] \in Nat
  BY VersionsStay DEF EditingInv, EditingTypeOK
<1>2. ASSUME Remembering(q) PROVE knownSHA(form[q].at, got[q])'
  <2>1. form[q].at \in Replica
    BY <1>2, FormType DEF Remembering
  <2>2. PICK u \in history[form[q].at] : SameVersion(u, got[q])
    BY <1>2 DEF Known, knownSHA
  <2>3. u \in 1..Current /\ got[q] \in 1..Current
    BY <1>1, <1>2, <2>1 DEF EditingInv, EditingTypeOK, Known
  <2>4. SameVersion(u, got[q])'
    BY <2>2, <2>3, VersionsStay DEF SameVersion, Held
  <2>. QED  BY <1>2, <2>2, <2>4 DEF knownSHA
<1>3. ASSUME early[q] = "staleView" PROVE ~SameVersion(got[q], form[q].base)'
  <2>1. got[q] \in 1..Current /\ form[q].base \in 1..Current
    BY <1>1, <1>3, FormType DEF Known
  <2>. QED  BY <1>3, <2>1, VersionsStay DEF Known, SameVersion, Held
<1>. QED  BY <1>2, <1>3 DEF Known, Remembering

(* A step of one handler at which no replica forgets anything.             *)
LEMMA KnowsAfter ==
    ASSUME EditingInv, [EditingNext]_vars, KnownInv, NEW r \in Request, Known(r)',
           \A q \in Request \ {r} :
              /\ stage'[q] = stage[q] /\ form'[q] = form[q]
              /\ got'[q] = got[q] /\ early'[q] = early[q],
           \A m \in Replica : history[m] \subseteq history'[m]
    PROVE  KnownInv'
<1>1. ASSUME NEW q \in Request, q # r PROVE Known(q)'
  BY <1>1, KnowsStill, FormType DEF KnownInv, Remembering
<1>. QED  BY <1>1 DEF KnownInv

LEMMA KnownStep ==
    ASSUME ~MayForget, EditingInv, EditingTypeOK', Roomy, KnownInv, [EditingNext]_vars
    PROVE  KnownInv'
<1>1. ASSUME NEW r \in Request, Submit(r) \/ Browse(r)
      PROVE  KnownInv'
  <2>1. PICK form1 : /\ stage[r] = "new" /\ stage' = [stage EXCEPT ![r] = "get"]
                     /\ form' = [form EXCEPT ![r] = form1]
                     /\ UNCHANGED <<history, got, early>>
    BY <1>1 DEF Submit, Arrive, Browse, Advance
  <2>2. early'[r] # "staleView" /\ ~Remembering(r)'
    BY <2>1 DEF EditingInv, EditingTypeOK, KnownInv, Known, Remembering
  <2>3. Known(r)'
    BY <2>2 DEF Known
  <2>. QED  BY <2>1, <2>3, KnowsAfter DEF EditingInv, EditingTypeOK
<1>2. ASSUME NEW r \in Request, Get(r) \/ Abandoned(r) \/ Locate(r) \/ Reply(r)
      PROVE  KnownInv'
  <2>1. PICK s \in Stages :
          /\ s \notin {"lookup", "check", "locate"}
          /\ stage[r] # "done" /\ stage' = [stage EXCEPT ![r] = s]
          /\ form' = form /\ history' = history
    BY <1>2 DEF Get, Abandoned, Locate, Reply, CallWrite, AnswerEarly, Advance, Stages
  <2>2. PICK o \in {early[r], "failed", "refused"}, v \in {got[r], Current} :
          /\ early' = [early EXCEPT ![r] = o]
          /\ got' = [got EXCEPT ![r] = v]
    BY <1>2
    DEF Get, Abandoned, Locate, Reply, CallWrite, AnswerEarly, EditingInv, EditingTypeOK
  <2>3. early'[r] # "staleView" /\ ~Remembering(r)'
    BY <2>1, <2>2 DEF EditingInv, EditingTypeOK, KnownInv, Known, Remembering
  <2>4. Known(r)'
    BY <2>3 DEF Known
  <2>. QED  BY <2>1, <2>2, <2>4, KnowsAfter DEF EditingInv, EditingTypeOK
<1>3. ASSUME NEW r \in Request, GetRemembers(r)
      PROVE  KnownInv'
  <2>1. /\ form[r].at \in Replica /\ got[r] \in 1..Current
        /\ stage[r] = "remember" /\ Remember(form[r].at, got[r])
        /\ UNCHANGED <<wvars, form, got>>
    BY <1>3, FormType, VersionsStay
    DEF GetRemembers, EditingInv, EditingTypeOK, RequestInv, GotReadable
  <2>2. /\ history'[form[r].at] = Kept(form[r].at, got[r])
        /\ \A m \in Replica : history[m] \subseteq history'[m]
    BY <2>1, RememberKeeps
  <2>3. \E u \in Kept(form[r].at, got[r]) : SameVersion(u, got[r])
    BY DEF Kept, knownSHA, SameVersion
  <2>4. knownSHA(form[r].at, got[r])'
    BY <2>1, <2>2, <2>3 DEF knownSHA, SameVersion, Held, wvars
  <2>5. PICK s \in Stages, o \in {early[r], "notFound"} :
          /\ stage' = [stage EXCEPT ![r] = s]
          /\ early' = [early EXCEPT ![r] = o]
    BY <1>3
    DEF GetRemembers, AnswerEarly, Advance, EditingInv, EditingTypeOK, Stages
  <2>6. early'[r] # "staleView"
    BY <2>1, <2>5 DEF EditingInv, EditingTypeOK, KnownInv, Known
  <2>7. Known(r)'
    BY <2>1, <2>4, <2>6 DEF Known
  <2>. QED  BY <2>1, <2>2, <2>5, <2>7, KnowsAfter DEF EditingInv, EditingTypeOK
<1>4. ASSUME NEW r \in Request, LookUp(r) \/ Check(r)
      PROVE  KnownInv'
  <2>1. /\ Remembering(r) /\ got[r] # 0 /\ knownSHA(form[r].at, got[r])
        /\ early[r] # "staleView"
    BY <1>4 DEF LookUp, Check, KnownInv, Known, Remembering
  <2>2. PICK s : /\ stage' = [stage EXCEPT ![r] = s]
                 /\ UNCHANGED <<log, history, form, got>>
    BY <1>4 DEF LookUp, Check, CallWrite, AnswerEarly, Advance, wvars
  <2>3. \/ early' = early
        \/ /\ s = "done" /\ Untrusted(r)
           /\ early' = [early EXCEPT ![r] = "staleView"]
    <3>1. CASE LookUp(r)
      BY <3>1 DEF LookUp
    <3>2. CASE Check(r)
      <4>1. stage'[r] = s
        BY <2>2 DEF EditingInv, EditingTypeOK
      <4>2. ASSUME AnswerEarly(r, "staleView") PROVE stage'[r] = "done"
        BY <4>2 DEF AnswerEarly, Advance, EditingInv, EditingTypeOK
      <4>. QED  BY <3>2, <4>1, <4>2 DEF Check, CallWrite, AnswerEarly
    <3>. QED  BY <1>4, <3>1, <3>2
  <2>4. Known(r)'
    <3>1. stage'[r] = s
      BY <2>2 DEF EditingInv, EditingTypeOK
    <3>2. knownSHA(form[r].at, got[r])' /\ form'[r] = form[r] /\ got'[r] = got[r]
      BY <2>1, <2>2 DEF knownSHA, SameVersion, Held
    <3>3. CASE early' = early
      BY <2>1, <3>2, <3>3 DEF Known
    <3>4. CASE /\ s = "done" /\ Untrusted(r)
               /\ early' = [early EXCEPT ![r] = "staleView"]
      <4>1. ~SameVersion(got[r], form[r].base) /\ form[r].base # 0
        BY <2>1, <3>4, SameVersionTransitive DEF Untrusted, knownSHA
      <4>2. ~SameVersion(got[r], form[r].base)'
        BY <2>2, <4>1 DEF SameVersion, Held
      <4>. QED  BY <2>1, <3>1, <3>2, <3>4, <4>1, <4>2 DEF Known, Remembering
    <3>. QED  BY <2>3, <3>3, <3>4
  <2>5. \A q \in Request \ {r} : stage'[q] = stage[q] /\ early'[q] = early[q]
    BY <2>2, <2>3 DEF EditingInv, EditingTypeOK
  <2>. QED  BY <2>2, <2>4, <2>5, KnowsAfter
<1>5. CASE UNCHANGED svars
  <2>1. ASSUME NEW q \in Request PROVE Known(q)'
    BY <1>5, <2>1, KnowsStill DEF svars, KnownInv
  <2>. QED  BY <2>1 DEF KnownInv
<1>6. ASSUME NEW n \in Replica, Restart(n)
      PROVE  KnownInv'
  <2>1. ASSUME NEW q \in Request PROVE Known(q)'
    <3>1. UNCHANGED <<stage, form, got, early>>
      BY <1>6 DEF Restart
    <3>2. Remembering(q) => history[form[q].at] \subseteq history'[form[q].at]
      BY <1>6, FormType DEF Restart, Remembering, EditingInv, EditingTypeOK
    <3>. QED  BY <2>1, <3>1, <3>2, KnowsStill DEF KnownInv
  <2>. QED  BY <2>1 DEF KnownInv
<1>7. ASSUME NEW n \in Replica, Forget(n)
      PROVE  FALSE
  BY <1>7 DEF Forget
<1>. QED
  BY <1>1, <1>2, <1>3, <1>4, <1>5, <1>6, <1>7 DEF EditingNext, Handle, vars

(* "Your view of this flag is out of date" is never said to a page whose   *)
(* version is the one Get just read, on whichever replica and through      *)
(* restarts, as long as no history overflows.                              *)
THEOREM StaleViewsTrue ==
    ASSUME ~MayForget
    PROVE  EditingSpec /\ [](Current <= HistoryLimit) => []StaleViewsAreStale
<1>1. EditingInit => KnownInv
  BY DEF EditingInit, KnownInv, Known, Remembering
<1>2. /\ EditingInv /\ EditingInv' /\ Current <= HistoryLimit /\ KnownInv
      /\ [EditingNext]_vars
      => KnownInv'
  BY KnownStep DEF EditingInv, Roomy
<1>3. KnownInv => StaleViewsAreStale
  BY DEF KnownInv, Known, StaleViewsAreStale
<1>. QED
  BY <1>1, <1>2, <1>3, EditingInvariance, PTL DEF EditingSpec

-----------------------------------------------------------------------------
(***************************************************************************)
(* Conflicts.  What sends a save through without its snapshot is a replica *)
(* that does not know the page's version, or that finds the flag's file by *)
(* a version without the flag.  One replica that is never restarted and    *)
(* whose history has room knows every version a page shows; the flag then  *)
(* goes unguarded only if it was missing from the file at some time.       *)
(***************************************************************************)
OneReplica ==
    /\ \A m, n \in Replica : m = n
    /\ Warm = Replica /\ ~MayRestart /\ ~MayForget

HeldBy(v, k) == Held(v) # Garbled /\ Has(Held(v), k)

GapBefore(v, k) == \E u \in 1 .. v - 1 : ~HeldBy(u, k)

Remembered ==
    \A n \in Replica : cache[n] # 0 /\ \A v \in shown : knownSHA(n, v)

(* The handlers that look the flag up do so on arrival, or before Check.   *)
LookedUpBy(r) ==
    \/ stage[r] \in {"check", "locate"}
    \/ pc[r] # "idle"
    \/ stage[r] # "new" /\ LooksUpFirst(form[r].edit)

Guarded(r) ==
    stage[r] # "new" /\ form[r].base # 0 =>
        /\ HeldBy(form[r].base, form[r].edit.key)
        /\ form[r].edit.kind # "rename" /\ LookedUpBy(r) =>
             found[r] # NoFlag \/ GapBefore(Current + 1, form[r].edit.key)

CommitsGuarded(r) ==
    \A v \in Studio(r) :
        call[r].base # 0 /\ call[r].edit.kind # "rename" =>
            call[r].loaded # NoFlag \/ GapBefore(v, call[r].edit.key)

GuardedInv ==
    Remembered /\ \A r \in Request : Guarded(r) /\ CommitsGuarded(r)

(* What was missing from the file stays a gap in its history.              *)
LEMMA GapsStay ==
    ASSUME EditingInv, [EditingNext]_vars, NEW k
    PROVE  /\ \A v \in 1..Current : HeldBy(v, k) => HeldBy(v, k)'
           /\ \A v \in 1..Current : GapBefore(v, k) => GapBefore(v, k)'
           /\ GapBefore(Current + 1, k) => GapBefore(Current + 1, k)'
<1>1. /\ Current \in Nat /\ Current' \in Nat /\ Current' >= Current
      /\ \A v \in 1..Current : HeldBy(v, k)' <=> HeldBy(v, k)
  BY VersionsStay DEF HeldBy, Held
<1>2. ASSUME NEW v \in 1 .. Current + 1, NEW w \in Nat, w >= v, GapBefore(v, k)
      PROVE  \E u \in 1 .. w - 1 : ~HeldBy(u, k)'
  <2>1. PICK u \in 1 .. v - 1 : ~HeldBy(u, k)
    BY <1>2 DEF GapBefore
  <2>2. u \in 1..Current /\ u \in 1 .. w - 1
    BY <1>1, <1>2, <2>1
  <2>. QED  BY <1>1, <2>1, <2>2
<1>3. \A v \in 1..Current : GapBefore(v, k) => GapBefore(v, k)'
  BY <1>1, <1>2 DEF GapBefore
<1>4. GapBefore(Current + 1, k) => GapBefore(Current + 1, k)'
  <2>1. /\ Current + 1 \in 1 .. Current + 1
        /\ Current' + 1 \in Nat /\ Current' + 1 >= Current + 1
    <3>1. Current \in Nat /\ Current' \in Nat /\ Current' >= Current
      BY <1>1
    <3>. QED  BY <3>1 DEF Current
  <2>2. GapBefore(Current + 1, k)' <=> \E u \in 1 .. (Current' + 1) - 1 : ~HeldBy(u, k)'
    BY DEF GapBefore
  <2>. QED  BY <1>2, <2>1, <2>2
<1>. QED  BY <1>1, <1>3, <1>4

(* The replica finds the flag of any version a page shows, if the file     *)
(* always had it.                                                          *)
LEMMA LookedUpFinds ==
    ASSUME EditingInv, Remembered,
           NEW n \in Replica, NEW v \in shown, NEW k \in Key, HeldBy(v, k)
    PROVE  LookedUp(n, v, k) # NoFlag \/ GapBefore(Current + 1, k)
<1>1. cache[n] \in 1..Current /\ v # 0 /\ Current \in Nat
  BY CurrentIsVersion DEF Remembered, EditingInv, EditingTypeOK
<1>2. CASE HeldBy(cache[n], k)
  BY <1>1, <1>2 DEF Remembered, LookedUp, HeldBy, Has
<1>3. CASE ~HeldBy(cache[n], k)
  BY <1>1, <1>3 DEF GapBefore
<1>. QED  BY <1>2, <1>3

LEMMA RememberedStep ==
    ASSUME OneReplica, EditingInv, Roomy, Remembered, [EditingNext]_vars
    PROVE  Remembered'
<1>1. ASSUME NEW n \in Replica, cache'[n] # 0, history[n] \subseteq history'[n],
             NEW v \in shown
      PROVE  knownSHA(n, v)'
  <2>1. PICK u \in history[n] : SameVersion(u, v)
    BY <1>1 DEF Remembered, knownSHA
  <2>2. u \in 1..Current /\ v \in 1..Current
    BY <1>1 DEF EditingInv, EditingTypeOK
  <2>. QED
    BY <1>1, <2>1, <2>2, VersionsStay DEF knownSHA, SameVersion, Held
<1>2. CASE UNCHANGED <<cache, history, shown>>
  BY <1>1, <1>2 DEF Remembered
<1>3. ASSUME NEW r \in Request, GetRemembers(r)
      PROVE  Remembered'
  <2>1. /\ form[r].at \in Replica /\ got[r] \in 1..Current
        /\ Remember(form[r].at, got[r]) /\ UNCHANGED <<wvars, form, got>>
        /\ shown' \subseteq shown \cup {got[r]}
    BY <1>3, FormType, VersionsStay
    DEF GetRemembers, EditingInv, EditingTypeOK, RequestInv, GotReadable
  <2>2. /\ history'[form[r].at] = Kept(form[r].at, got[r])
        /\ \A m \in Replica : history[m] \subseteq history'[m]
    BY <2>1, RememberKeeps
  <2>3. \A n \in Replica : n = form[r].at /\ cache'[n] = got[r]
    BY <2>1 DEF OneReplica, Remember, EditingInv, EditingTypeOK
  <2>4. \E u \in Kept(form[r].at, got[r]) : SameVersion(u, got[r])
    BY DEF Kept, knownSHA, SameVersion
  <2>5. knownSHA(form[r].at, got[r])'
    BY <2>1, <2>2, <2>4 DEF knownSHA, SameVersion, Held, wvars
  <2>6. ASSUME NEW n \in Replica PROVE cache'[n] # 0
    BY <2>1, <2>3
  <2>7. ASSUME NEW n \in Replica, NEW v \in shown' PROVE knownSHA(n, v)'
    <3>1. CASE v \in shown
      BY <1>1, <2>2, <2>6, <3>1
    <3>2. CASE v = got[r]
      BY <2>1, <2>3, <2>5, <3>2 DEF knownSHA, SameVersion, Held, wvars
    <3>. QED  BY <2>1, <3>1, <3>2
  <2>. QED  BY <2>6, <2>7 DEF Remembered
<1>4. ASSUME NEW n \in Replica, Forget(n) \/ Restart(n)
      PROVE  FALSE
  BY <1>4 DEF OneReplica, Forget, Restart
<1>5. ASSUME NEW r \in Request,
             \/ Submit(r) \/ Browse(r) \/ Get(r) \/ LookUp(r) \/ Check(r)
             \/ Locate(r) \/ Reply(r) \/ Abandoned(r)
      PROVE  UNCHANGED <<cache, history, shown>>
  BY <1>5
  DEF Submit, Arrive, Browse, Get, LookUp, Check, CallWrite, Locate, Reply, Abandoned
<1>. QED
  BY <1>2, <1>3, <1>4, <1>5 DEF EditingNext, Handle, vars, svars

(* A request that comes no nearer to Write stays guarded.                  *)
LEMMA GuardedStill ==
    ASSUME EditingInv, [EditingNext]_vars, NEW q \in Request, Guarded(q),
           form'[q] = form[q], found'[q] = found[q],
           stage[q] # "new" \/ stage'[q] = "new",
           form[q].edit.kind # "rename" /\ LookedUpBy(q)' => LookedUpBy(q)
    PROVE  Guarded(q)'
<1> SUFFICES ASSUME stage[q] # "new", form[q].base # 0
             PROVE  Guarded(q)'
  BY DEF Guarded
<1>1. form[q].base \in 1..Current
  BY FormType, VersionsStay
<1>. DEFINE k == form[q].edit.key
<1>2. HeldBy(form[q].base, k)'
  <2>1. HeldBy(form[q].base, k)
    BY DEF Guarded
  <2>. QED  BY <1>1, <2>1, GapsStay DEF HeldBy, Held
<1>3. GapBefore(Current + 1, k) => GapBefore(Current + 1, form[q].edit.key)'
  BY GapsStay DEF GapBefore, HeldBy, Held
<1>. QED  BY <1>2, <1>3 DEF Guarded

LEMMA GuardedStep ==
    ASSUME EditingInv, Remembered, [EditingNext]_vars,
           NEW q \in Request, Guarded(q)
    PROVE  Guarded(q)'
<1>1. ASSUME NEW n \in Replica, NEW e \in Asked, NEW v \in shown \cup {0},
             v # 0 => Has(Held(v), e.key), Arrive(q, n, e, v)
      PROVE  Guarded(q)'
  <2> SUFFICES ASSUME v # 0 PROVE Guarded(q)'
    BY <1>1 DEF Guarded, Arrive, EditingInv, EditingTypeOK
  <2>1. /\ form'[q] = [at |-> n, edit |-> e, base |-> v] /\ log' = log
        /\ stage'[q] = "get" /\ pc'[q] = "idle"
        /\ LooksUpFirst(e) => found'[q] = LookedUp(n, v, e.key)
    BY <1>1
    DEF Arrive, Advance, EditingInv, EditingTypeOK, RequestInv, Handed, wvars
  <2>2. HeldBy(v, e.key) /\ e.key \in Key
    BY <1>1, BackendAssumption DEF HeldBy, EditingInv, ShownReadable, Edit
  <2>3. LookedUp(n, v, e.key) # NoFlag \/ GapBefore(Current + 1, e.key)
    BY <2>2, LookedUpFinds
  <2>4. (GapBefore(Current + 1, e.key) <=> GapBefore(Current + 1, e.key)')
        /\ HeldBy(v, e.key)'
    BY <2>1, <2>2 DEF GapBefore, HeldBy, Held, Current
  <2>. QED
    BY <2>1, <2>3, <2>4
    DEF Guarded, LookedUpBy, GapBefore, HeldBy, Held
<1>2. CASE Submit(q)
  BY <1>1, <1>2 DEF Submit
<1>3. CASE Browse(q)
  BY <1>3 DEF Browse, Guarded, EditingInv, EditingTypeOK
<1>4. CASE LookUp(q)
  <2> SUFFICES ASSUME form[q].base # 0 PROVE Guarded(q)'
    BY <1>4 DEF LookUp, Guarded
  <2>. DEFINE k == form[q].edit.key
  <2>1. /\ stage[q] = "lookup" /\ UNCHANGED <<wvars, form>>
        /\ found'[q] = LookedUp(form[q].at, form[q].base, k)
    BY <1>4 DEF LookUp, EditingInv, EditingTypeOK
  <2>2. /\ form[q].at \in Replica /\ form[q].base \in shown /\ k \in Key
        /\ HeldBy(form[q].base, k)
    BY <2>1, FormType, BackendAssumption
    DEF Guarded, EditingInv, RequestInv, Formed, Editing, Edit
  <2>3. found'[q] # NoFlag \/ GapBefore(Current + 1, k)
    BY <2>1, <2>2, LookedUpFinds
  <2>. QED
    BY <2>1, <2>2, <2>3 DEF Guarded, GapBefore, HeldBy, Held, Current, wvars
<1>5. CASE GetRemembers(q)
  <2>1. /\ stage[q] = "remember" /\ UNCHANGED <<wvars, form, found>>
        /\ \/ stage'[q] \in {"done", "lookup"}
           \/ LooksUpFirst(form[q].edit) \/ form[q].edit.kind = "rename"
    BY <1>5 DEF GetRemembers, AnswerEarly, Advance, EditingInv, EditingTypeOK
  <2>. QED  BY <2>1, GuardedStill DEF LookedUpBy, wvars
<1>6. CASE CallWrite(q) /\ stage[q] \in {"check", "locate"}
  BY <1>6, GuardedStill DEF CallWrite, LookedUpBy
<1>7. CASE Get(q) \/ Reply(q) \/ Abandoned(q) \/ Check(q) \/ Locate(q)
  <2> SUFFICES ASSUME ~(CallWrite(q) /\ stage[q] \in {"check", "locate"})
               PROVE  Guarded(q)'
    BY <1>6
  <2>1. /\ UNCHANGED <<wvars, form, found>>
        /\ stage[q] # "new"
        /\ stage'[q] \in {"check", "locate"} => stage[q] = "check"
    BY <1>7
    DEF Get, Reply, Abandoned, Check, Locate, AnswerEarly, Advance,
        EditingInv, EditingTypeOK
  <2>. QED  BY <2>1, GuardedStill DEF LookedUpBy, wvars
<1>8. ASSUME NEW r \in Request, r # q,
             Submit(r) \/ Browse(r) \/ Handle(r) \/ Abandoned(r)
      PROVE  Guarded(q)'
  <2>1. /\ stage'[q] = stage[q] /\ form'[q] = form[q] /\ found'[q] = found[q]
    BY <1>8
    DEF Submit, Arrive, Browse, Handle, Abandoned, Get, GetRemembers, LookUp, Check,
        Locate, Reply, CallWrite, AnswerEarly, Advance, svars,
        EditingInv, EditingTypeOK
  <2>2. pc'[q] = pc[q]
    <3>1. CASE Write(r)
      BY <1>8, <3>1, WriteTouchesOwn DEF EditingInv, EditingTypeOK
    <3>2. CASE ~Write(r)
      BY <1>8, <3>2
      DEF Submit, Arrive, Browse, Handle, Abandoned, Get, GetRemembers, LookUp, Check,
          Locate, Reply, CallWrite, wvars, EditingInv, EditingTypeOK, TypeOK
    <3>. QED  BY <3>1, <3>2
  <2>. QED  BY <2>1, <2>2, GuardedStill DEF LookedUpBy
<1>9. CASE Write(q) /\ UNCHANGED svars
  BY <1>9, WriteTouchesOwn, GuardedStill
  DEF EditingInv, EditingTypeOK, LookedUpBy, svars
<1>10. CASE \/ \E content \in OutsideContent :
                 EditElsewhere(content) /\ UNCHANGED svars
            \/ \E n \in Replica : Forget(n) \/ Restart(n)
            \/ UNCHANGED vars
  <2>1. UNCHANGED <<stage, form, found, pc>>
    BY <1>10 DEF EditElsewhere, Forget, Restart, vars, svars, wvars
  <2>. QED  BY <2>1, GuardedStill DEF LookedUpBy
<1>. QED
  BY <1>2, <1>3, <1>4, <1>5, <1>7, <1>8, <1>9, <1>10 DEF EditingNext, Handle

LEMMA CommitsGuardedStep ==
    ASSUME EditingInv, [EditingNext]_vars,
           NEW q \in Request, Guarded(q), CommitsGuarded(q)
    PROVE  CommitsGuarded(q)'
<1> SUFFICES ASSUME NEW v \in Studio(q)', call'[q].base # 0,
                    call'[q].edit.kind # "rename"
             PROVE  call'[q].loaded # NoFlag \/ GapBefore(v, call[q].edit.key)'
  BY DEF CommitsGuarded
<1>1. Inv /\ [Next]_wvars /\ Current \in Nat /\ Current' \in Nat
  BY StepsOfWrite, VersionsStay DEF EditingInv
<1>2. CASE v \in 1..Current
  <2>1. v \in Studio(q)
    BY <1>1, <1>2, LogGrows DEF Studio, Inv
  <2>2. call'[q] = call[q]
    BY <1>1, <2>1, CallsStay DEF Inv, CommitsFit
  <2>. QED
    BY <1>2, <2>1, <2>2, GapsStay DEF CommitsGuarded, GapBefore, HeldBy, Held
<1>3. CASE v \notin 1..Current
  <2>1. v = Current + 1 /\ pc[q] = "put" /\ call' = call
    BY <1>1, <1>3, NewVersion
  <2>2. /\ call[q] = [edit |-> form[q].edit, base |-> form[q].base,
                      loaded |-> found[q]]
        /\ stage[q] # "new"
    BY <2>1 DEF EditingInv, RequestInv, Handed
  <2>3. call[q].loaded # NoFlag \/ GapBefore(Current + 1, call[q].edit.key)
    BY <2>1, <2>2 DEF Guarded, LookedUpBy
  <2>4. ASSUME NEW k, GapBefore(Current + 1, k)
        PROVE  \E u \in 1 .. v - 1 : ~HeldBy(u, k)'
    <3>1. PICK u \in 1..Current : ~HeldBy(u, k)
      BY <1>1, <2>4 DEF GapBefore
    <3>. QED  BY <1>1, <2>1, <3>1, VersionsStay DEF HeldBy, Held
  <2>. QED  BY <2>1, <2>3, <2>4 DEF GapBefore, HeldBy, Held
<1>. QED  BY <1>2, <1>3

LEMMA GuardedBegins ==
    ASSUME OneReplica, EditingInit
    PROVE  GuardedInv
<1>1. Current = 1 /\ \A r \in Request : Studio(r) = {}
  BY DEF EditingInit, Init, Current, Studio
<1>2. \A r \in Request : Guarded(r) /\ CommitsGuarded(r)
  BY <1>1 DEF EditingInit, Guarded, CommitsGuarded
<1>3. Remembered
  BY DEF OneReplica, EditingInit, Remembered, knownSHA, SameVersion
<1>. QED  BY <1>2, <1>3 DEF GuardedInv

LEMMA GuardedInvStep ==
    ASSUME OneReplica, EditingInv, Roomy, GuardedInv, [EditingNext]_vars
    PROVE  GuardedInv'
<1>1. Remembered'
  BY RememberedStep DEF GuardedInv
<1>2. ASSUME NEW q \in Request PROVE Guarded(q)' /\ CommitsGuarded(q)'
  BY <1>2, GuardedStep, CommitsGuardedStep DEF GuardedInv
<1>. QED  BY <1>1, <1>2 DEF GuardedInv

(* Whoever has a snapshot was compared with it by Write.                   *)
LEMMA SnapshotsAreCompared ==
    ASSUME EditingInv, NEW r \in Request, NEW v \in Studio(r), call[r].loaded # NoFlag
    PROVE  LET k == call[r].edit.key IN
           Same(Compared, Held(call[r].base)[k], Held(v - 1)[k])
<1>. DEFINE k == call[r].edit.key
<1>1. /\ pc[r] # "idle" /\ call[r] # NoCall
      /\ ~flagChanged(call[r].loaded, k, Held(v - 1))
      /\ Held(call[r].base)[k] = call[r].loaded
  BY DEF EditingInv, Inv, CommitsFit, Fits, Called, ShownTruly
<1>2. Has(Held(v - 1), k) /\ sameFlagState(call[r].loaded, Held(v - 1)[k])
  BY <1>1 DEF flagChanged
<1>. QED  BY <1>1, <1>2 DEF Same, Has, sameFlagState

(* A single replica, kept running and with room in its history: no save or *)
(* delete with a fileSha commits over a change, in the compared fields, of *)
(* a flag that every version of the file up to there has.  Of the flag of  *)
(* a file that was once unreadable, or once without it, nothing is said:   *)
(* CachedFilesFor may have gone by that version.                           *)
THEOREM LastingFlagsConflict ==
    ASSUME OneReplica
    PROVE  EditingSpec /\ [](Current <= HistoryLimit) =>
           [](\A r \in Request : \A v \in Studio(r) :
                LET k == call[r].edit.key IN
                /\ call[r].base # 0 /\ call[r].edit.kind # "rename"
                /\ \A u \in 1 .. v - 1 : Held(u) # Garbled /\ Has(Held(u), k)
                => Same(Compared, Held(call[r].base)[k], Held(v - 1)[k]))
<1>1. EditingInit => GuardedInv
  BY GuardedBegins
<1>2. EditingInv /\ Current <= HistoryLimit /\ GuardedInv /\ [EditingNext]_vars
      => GuardedInv'
  BY GuardedInvStep DEF Roomy
<1>3. EditingInv /\ GuardedInv =>
        \A r \in Request : \A v \in Studio(r) :
          LET k == call[r].edit.key IN
          /\ call[r].base # 0 /\ call[r].edit.kind # "rename"
          /\ \A u \in 1 .. v - 1 : Held(u) # Garbled /\ Has(Held(u), k)
          => Same(Compared, Held(call[r].base)[k], Held(v - 1)[k])
  BY SnapshotsAreCompared DEF GuardedInv, CommitsGuarded, GapBefore, HeldBy
<1>. QED
  BY <1>1, <1>2, <1>3, EditingInvariance, PTL DEF EditingSpec

(* Where flags neither come nor go, README's "Your flag changed underneath *)
(* you" holds of every save and delete with a fileSha, for the fields that *)
(* are compared.                                                           *)
FlagsStay == \A u, v \in 1..Current : \A k \in Key : HeldBy(u, k) <=> HeldBy(v, k)

THEOREM ChangesConflict ==
    ASSUME OneReplica
    PROVE  EditingSpec /\ [](Current <= HistoryLimit) /\ []FlagsStay
             => []ComparedChangesConflict
<1>1. EditingInit => GuardedInv
  BY GuardedBegins
<1>2. EditingInv /\ Current <= HistoryLimit /\ GuardedInv /\ [EditingNext]_vars
      => GuardedInv'
  BY GuardedInvStep DEF Roomy
<1>3. EditingInv /\ GuardedInv /\ FlagsStay => ComparedChangesConflict
  <2> SUFFICES ASSUME EditingInv, GuardedInv, FlagsStay,
                      NEW r \in Request, NEW v \in Studio(r),
                      call[r].base # 0, call[r].edit.kind # "rename"
               PROVE  call[r].loaded # NoFlag
    BY SnapshotsAreCompared DEF ComparedChangesConflict
  <2>. DEFINE k == call[r].edit.key
  <2>1. pc[r] # "idle" /\ stage[r] # "new"
    BY DEF EditingInv, Inv, CommitsFit, RequestInv, Handed
  <2>2. call[r].base = form[r].base /\ call[r].edit = form[r].edit
    <3>1. call[r] = [edit |-> form[r].edit, base |-> form[r].base,
                     loaded |-> found[r]]
      BY <2>1 DEF EditingInv, RequestInv, Handed
    <3>. QED  BY <3>1
  <2>3. HeldBy(call[r].base, k)
    BY <2>1, <2>2 DEF GuardedInv, Guarded
  <2>4. call[r].base \in 1..Current /\ Current \in Nat
    BY <2>1, <2>2, FormType
    DEF EditingInv, EditingTypeOK, TypeOK, Current
  <2>5. k \in Key
    <3>1. call[r].edit \in Edit
      BY <2>1, CallType DEF EditingInv, Inv
    <3>. QED  BY <3>1 DEF Edit
  <2>6. ASSUME NEW u \in 1 .. v - 1 PROVE HeldBy(u, k)
    <3>1. u \in 1..Current
      BY <2>4, <2>6 DEF Studio
    <3>. QED  BY <2>3, <2>4, <2>5, <3>1 DEF FlagsStay
  <2>. QED  BY <2>6 DEF GuardedInv, CommitsGuarded, GapBefore
<1>. QED
  BY <1>1, <1>2, <1>3, EditingInvariance, PTL DEF EditingSpec

=============================================================================
