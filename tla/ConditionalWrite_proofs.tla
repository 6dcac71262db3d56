----------------------- MODULE ConditionalWrite_proofs -----------------------
(***************************************************************************)
(* Theorems about ConditionalWrite, for every set of requests, keys and    *)
(* fields, every bound on attempts, both kinds of version, and spurious    *)
(* refusals and repeated puts or not.                                      *)
(***************************************************************************)
EXTENDS ConditionalWrite, FiniteSetTheorems, TLAPS

-----------------------------------------------------------------------------
(* What the operators on files return.                                     *)

(* Apply has content to put only if the edit is possible and GOFF accepts  *)
(* the file with it (the closures of Save, Delete and Rename).             *)
LEMMA NoObjection ==
    ASSUME NEW edit, NEW content, NEW t,
           Objection(edit, content, t) = "none"
    PROVE  /\ Possible(edit, content)
           /\ Valid(Edited(edit, content, t))
  BY DEF Objection

(* An edit that is possible turns a file into a file.                      *)
LEMMA EditedType ==
    ASSUME NEW edit \in Edit, NEW content \in Content, NEW t \in Time,
           Possible(edit, content)
    PROVE  Edited(edit, content, t) \in File
<1>. DEFINE flag == content[edit.key]
<1>1. content \in File /\ edit.key \in Key /\ flag \in Flag
  BY DEF Content, Possible, Has, File, Edit
<1>2. CASE edit.kind = "set"
  <2>1. edit.field \in Field /\ edit.value \in Value
    BY <1>2 DEF Edit
  <2>2. [flag EXCEPT !.fields[edit.field] = edit.value] \in Flag
    BY <1>1, <2>1 DEF Flag
  <2>3. Stamped([flag EXCEPT !.fields[edit.field] = edit.value], t) \in Flag
    BY <2>2 DEF Flag, Stamped
  <2>. QED  BY <1>1, <1>2, <2>3 DEF Edited, File
<1>3. CASE edit.kind = "delete"
  BY <1>1, <1>3 DEF Edited, File
<1>4. CASE edit.kind = "rename"
  <2>1. Stamped(flag, t) \in Flag
    BY <1>1 DEF Flag, Stamped
  <2>. QED  BY <1>1, <1>4, <2>1 DEF Edited, File, Edit
<1>. QED  BY <1>2, <1>3, <1>4 DEF Edit

(* A flag counts as unchanged in any content that holds the very same one. *)
LEMMA SameFlagUnchanged ==
    ASSUME NEW content, NEW k, NEW loaded,
           loaded # NoFlag => content # Garbled /\ content[k] = loaded
    PROVE  ~flagChanged(loaded, k, content)
  BY DEF flagChanged, sameFlagState, Has

-----------------------------------------------------------------------------
(***************************************************************************)
(* The inductive invariant.  TypeOK is not inductive alone (what Builds    *)
(* puts in next is a file only because call[r] is a call by then), and the *)
(* properties of committed versions rest on what a request in its put      *)
(* phase knows about the version it read.                                  *)
(***************************************************************************)

(* after is r's edit made to before, which still shows what r was shown    *)
Fits(r, before, after) ==
    /\ ~flagChanged(call[r].loaded, call[r].edit.key, before)
    /\ \E t \in Time : /\ Objection(call[r].edit, before, t) = "none"
                       /\ after = Edited(call[r].edit, before, t)

Called == \A r \in Request : call[r] = NoCall <=> pc[r] = "idle"

Answered == \A r \in Request : outcome[r] = "none" <=> pc[r] # "done"

ShownTruly ==
    \A r \in Request : call[r] # NoCall =>
        /\ call[r].base \in 0..Current
        /\ call[r].loaded # NoFlag =>
             /\ call[r].base # 0
             /\ Held(call[r].base) # Garbled
             /\ Held(call[r].base)[call[r].edit.key] = call[r].loaded

BuiltOnSeen ==
    \A r \in Request : pc[r] = "put" =>
        /\ seen[r] \in 1..Current
        /\ Fits(r, Held(seen[r]), next[r])

CommitsFit ==
    \A r \in Request : \A v \in Studio(r) :
        /\ pc[r] # "idle"
        /\ Fits(r, Held(v - 1), Held(v))

Inv ==
    /\ TypeOK
    /\ Called
    /\ Answered
    /\ ShownTruly
    /\ BuiltOnSeen
    /\ CommitsFit

-----------------------------------------------------------------------------
(* The log.                                                                *)

(* What the file holds at a version there is.                              *)
LEMMA HeldType ==
    ASSUME TypeOK, NEW v \in 1..Current
    PROVE  Held(v) \in Content
<1>1. log[v] \in Version
  BY DEF TypeOK, Current
<1>. QED  BY <1>1 DEF Held, Version

(* The log is never empty, so what is current is one of its versions.      *)
LEMMA CurrentIsVersion ==
    ASSUME TypeOK
    PROVE  Current \in 1..Current
  BY DEF TypeOK, Current

(* A new version comes after the others and disturbs none of them.         *)
LEMMA Appended ==
    ASSUME TypeOK, NEW e \in Version, log' = Append(log, e)
    PROVE  /\ log' \in Seq(Version)
           /\ Current' = Current + 1
           /\ log'[Current'] = e
           /\ \A v \in 1..Current : log'[v] = log[v]
  BY DEF TypeOK, Current

(* The calls under way are well-formed.                                    *)
LEMMA CallType ==
    ASSUME TypeOK, Called, NEW r \in Request, pc[r] # "idle"
    PROVE  /\ call[r] \in Call
           /\ call[r].edit \in Edit
           /\ call[r].base \in Nat
           /\ call[r].loaded \in Flag \cup {NoFlag}
  BY DEF TypeOK, Called, Call

(* What the service passes to Write is a call, and truthful about what the *)
(* file held at its base version.                                          *)
LEMMA StartedCall ==
    ASSUME TypeOK, NEW r \in Request, NEW e \in Asked, NEW base \in 0..Current,
           Start(r, e, base)
    PROVE  \E c \in Call :
             /\ call' = [call EXCEPT ![r] = c]
             /\ c.base = base
             /\ c.loaded # NoFlag => /\ base # 0
                                     /\ Held(base) # Garbled
                                     /\ Held(base)[c.edit.key] = c.loaded
<1>1. PICK loaded \in Shown(base, e.key) :
        call' = [call EXCEPT
                   ![r] = [edit |-> e, base |-> base, loaded |-> loaded]]
  BY DEF Start
<1>2. e \in Edit /\ e.key \in Key /\ base \in Nat
  BY BackendAssumption DEF Edit, Current
<1>3. CASE base = 0 \/ Held(base) = Garbled
  <2>1. loaded = NoFlag
    BY <1>1, <1>3 DEF Shown
  <2>2. [edit |-> e, base |-> base, loaded |-> loaded] \in Call
    BY <1>2, <2>1 DEF Call
  <2>. QED  BY <1>1, <2>1, <2>2
<1>4. CASE base # 0 /\ Held(base) # Garbled
  <2>1. loaded \in {Held(base)[e.key], NoFlag}
    BY <1>1, <1>4 DEF Shown
  <2>2. Held(base) \in File
    <3>1. base \in 1..Current
      BY <1>4, CurrentIsVersion DEF Current
    <3>. QED  BY <1>4, <3>1, HeldType DEF Content
  <2>3. loaded \in Flag \cup {NoFlag}
    BY <1>2, <2>1, <2>2 DEF File
  <2>4. [edit |-> e, base |-> base, loaded |-> loaded] \in Call
    BY <1>2, <2>3 DEF Call
  <2>. QED  BY <1>1, <1>4, <2>1, <2>4
<1>. QED  BY <1>3, <1>4

-----------------------------------------------------------------------------
(* The variables of the loop keep their types: in particular the attempt   *)
(* counter stays within Attempts and everything put is a file.             *)
LEMMA TypeStep == TypeOK /\ Called /\ [Next]_wvars => TypeOK'
<1> SUFFICES ASSUME TypeOK, Called, [Next]_wvars PROVE TypeOK'
  OBVIOUS
<1>1. ASSUME NEW r \in Request, NEW e \in Asked, NEW base \in 0..Current,
             Start(r, e, base)
      PROVE  TypeOK'
  <2>1. PICK c \in Call : call' = [call EXCEPT ![r] = c]
    BY <1>1, StartedCall
  <2>. QED  BY <1>1, <2>1 DEF Start, TypeOK
<1>2. ASSUME NEW r \in Request, ReadFails(r)
      PROVE  TypeOK'
  BY <1>2 DEF ReadFails, Return, Outcome, TypeOK
<1>3. ASSUME NEW r \in Request, Conflicts(r)
      PROVE  TypeOK'
  BY <1>3 DEF Conflicts, Return, Outcome, TypeOK
<1>4. ASSUME NEW r \in Request, NEW t \in Time, Objects(r, t)
      PROVE  TypeOK'
  <2>1. Objection(call[r].edit, Held(Current), t) \in Outcome
    BY DEF Objection, Outcome
  <2>. QED  BY <1>4, <2>1 DEF Objects, Applies, Return, TypeOK
<1>5. ASSUME NEW r \in Request, NEW t \in Time, NothingToDo(r, t)
      PROVE  TypeOK'
  BY <1>5 DEF NothingToDo, Applies, Return, Outcome, TypeOK
<1>6. ASSUME NEW r \in Request, NEW t \in Time, Builds(r, t)
      PROVE  TypeOK'
  <2>1. Edited(call[r].edit, Held(Current), t) \in Content
    <3>1. Possible(call[r].edit, Held(Current))
      BY <1>6, NoObjection DEF Builds
    <3>2. call[r].edit \in Edit
      BY <1>6, CallType DEF Builds, Applies
    <3>3. Held(Current) \in Content
      BY CurrentIsVersion, HeldType
    <3>. QED  BY <3>1, <3>2, <3>3, EditedType DEF Content
  <2>2. Current \in Nat
    BY CurrentIsVersion DEF Current, TypeOK
  <2>. QED  BY <1>6, <2>1, <2>2 DEF Builds, Applies, TypeOK
<1>7. ASSUME NEW r \in Request, PutLands(r) \/ PutLandsUnheard(r)
      PROVE  TypeOK'
  <2>1. [content |-> next[r], by |-> r] \in Version
    BY DEF TypeOK, Version
  <2>2. log' \in Seq(Version) /\ Len(log') > 0
    BY <1>7, <2>1, Appended, CurrentIsVersion
    DEF PutLands, PutLandsUnheard, Record, Current
  <2>. QED
    BY <1>7, <2>2 DEF PutLands, PutLandsUnheard, Return, Outcome, TypeOK
<1>8. ASSUME NEW r \in Request, PutFails(r)
      PROVE  TypeOK'
  BY <1>8 DEF PutFails, Return, Outcome, TypeOK
<1>9. ASSUME NEW r \in Request, PutRefused(r) \/ PutResent(r)
      PROVE  TypeOK'
  <2>1. [content |-> next[r], by |-> r] \in Version
    BY DEF TypeOK, Version
  <2>2. log' \in Seq(Version) /\ Len(log') > 0
    BY <1>9, <2>1, Appended, CurrentIsVersion
    DEF PutRefused, PutResent, Record, Current, TypeOK
  <2>3. TryAgain(r) /\ UNCHANGED <<call, seen, next>>
    BY <1>9 DEF PutRefused, PutResent
  <2>4. CASE MayTryAgain(r) /\ Reread(r)
    BY <2>2, <2>3, <2>4, BackendAssumption
    DEF TryAgain, MayTryAgain, Reread, TypeOK
  <2>5. CASE FallOut(r)
    BY <2>2, <2>3, <2>5 DEF TryAgain, FallOut, Return, Outcome, TypeOK
  <2>. QED  BY <2>3, <2>4, <2>5 DEF TryAgain
<1>10. ASSUME NEW content \in OutsideContent, EditElsewhere(content)
       PROVE  TypeOK'
  <2>1. [content |-> content, by |-> Outside] \in Version
    BY BackendAssumption DEF Version
  <2>2. log' \in Seq(Version) /\ Len(log') > 0
    BY <1>10, <2>1, Appended, CurrentIsVersion DEF EditElsewhere, Current
  <2>. QED  BY <1>10, <2>2 DEF EditElsewhere, TypeOK
<1>11. CASE UNCHANGED wvars
  BY <1>11 DEF wvars, TypeOK
<1>. QED
  BY <1>1, <1>2, <1>3, <1>4, <1>5, <1>6, <1>7, <1>8, <1>9, <1>10, <1>11
  DEF Next, Write

(* A request has a call exactly from the moment it starts.                 *)
LEMMA CalledStep == TypeOK /\ Called /\ [Next]_wvars => Called'
<1> SUFFICES ASSUME TypeOK, Called, [Next]_wvars PROVE Called'
  OBVIOUS
<1>1. ASSUME NEW r \in Request, NEW e \in Asked, NEW base \in 0..Current,
             Start(r, e, base)
      PROVE  Called'
  <2>1. PICK c \in Call : call' = [call EXCEPT ![r] = c]
    BY <1>1, StartedCall
  <2>2. call'[r] # NoCall
    BY <2>1, CallAssumption DEF TypeOK
  <2>. QED  BY <1>1, <2>1, <2>2 DEF Start, Called, TypeOK
<1>2. ASSUME NEW r \in Request, Write(r)
      PROVE  Called'
  <2>1. call' = call /\ pc[r] # "idle"
    BY <1>2
    DEF Write, ReadFails, Conflicts, Objects, NothingToDo, Builds, Applies,
        PutLands, PutLandsUnheard, PutFails, PutRefused, PutResent
  <2>2. \E p \in {"read", "put", "done"} : pc' = [pc EXCEPT ![r] = p]
    BY <1>2
    DEF Write, ReadFails, Conflicts, Objects, NothingToDo, Builds, Applies,
        PutLands, PutLandsUnheard, PutFails, PutRefused, PutResent, TryAgain,
        Reread, FallOut, Return
  <2>. QED  BY <2>1, <2>2 DEF Called, TypeOK
<1>3. ASSUME NEW content \in OutsideContent, EditElsewhere(content)
      PROVE  Called'
  BY <1>3 DEF EditElsewhere, Called
<1>4. CASE UNCHANGED wvars
  BY <1>4 DEF wvars, Called
<1>. QED  BY <1>1, <1>2, <1>3, <1>4 DEF Next

(* A request has its answer exactly when it is done.                       *)
LEMMA AnsweredStep == TypeOK /\ Answered /\ [Next]_wvars => Answered'
<1> SUFFICES ASSUME TypeOK, Answered, [Next]_wvars PROVE Answered'
  OBVIOUS
<1>1. ASSUME NEW r \in Request, NEW o, o # "none", Return(r, o)
      PROVE  Answered'
  BY <1>1 DEF Return, Answered, TypeOK
<1>2. ASSUME NEW r \in Request, NEW p \in {"read", "put"}, pc[r] # "done",
             pc' = [pc EXCEPT ![r] = p], outcome' = outcome
      PROVE  Answered'
  BY <1>2 DEF Answered, TypeOK
<1>3. ASSUME NEW r \in Request, NEW e \in Asked, NEW base \in 0..Current,
             Start(r, e, base)
      PROVE  Answered'
  BY <1>2, <1>3 DEF Start
<1>4. ASSUME NEW r \in Request, Write(r)
      PROVE  Answered'
  <2>1. CASE ReadFails(r) \/ PutFails(r) \/ PutLandsUnheard(r)
    BY <1>1, <2>1 DEF ReadFails, PutFails, PutLandsUnheard
  <2>2. CASE Conflicts(r) \/ PutLands(r)
    BY <1>1, <2>2 DEF Conflicts, PutLands
  <2>3. CASE \E t \in Time : Objects(r, t)
    BY <1>1, <2>3 DEF Objects
  <2>4. CASE \E t \in Time : NothingToDo(r, t)
    BY <1>1, <2>4 DEF NothingToDo
  <2>5. CASE \E t \in Time : Builds(r, t)
    BY <1>2, <2>5 DEF Builds, Applies
  <2>6. CASE PutRefused(r) \/ PutResent(r)
    <3>1. pc[r] = "put" /\ TryAgain(r)
      BY <2>6 DEF PutRefused, PutResent
    <3>. QED  BY <1>1, <1>2, <3>1 DEF TryAgain, Reread, FallOut
  <2>. QED  BY <1>4, <2>1, <2>2, <2>3, <2>4, <2>5, <2>6 DEF Write
<1>5. ASSUME NEW content \in OutsideContent, EditElsewhere(content)
      PROVE  Answered'
  BY <1>5 DEF EditElsewhere, Answered
<1>6. CASE UNCHANGED wvars
  BY <1>6 DEF wvars, Answered
<1>. QED  BY <1>3, <1>4, <1>5, <1>6 DEF Next

-----------------------------------------------------------------------------
(* What one step does to the log and to the calls.                         *)

(* Versions are only added, one at a time, and by a request only from its  *)
(* put phase, on top of the content it read.                               *)
LEMMA LogStep ==
    ASSUME TypeOK, [Next]_wvars
    PROVE  \/ log' = log
           \/ \E r \in Request :
                /\ pc[r] = "put" /\ Unmoved(r) /\ call' = call
                /\ log' = Append(log, [content |-> next[r], by |-> r])
           \/ \E content \in OutsideContent :
                /\ UNCHANGED <<call, pc>>
                /\ log' = Append(log, [content |-> content, by |-> Outside])
<1>1. ASSUME NEW r \in Request, NEW e \in Asked, NEW base \in 0..Current,
             Start(r, e, base)
      PROVE  log' = log
  BY <1>1 DEF Start
<1>2. ASSUME NEW r \in Request, Write(r)
      PROVE  \/ log' = log
             \/ /\ pc[r] = "put" /\ Unmoved(r) /\ call' = call
                /\ log' = Append(log, [content |-> next[r], by |-> r])
  BY <1>2
  DEF Write, ReadFails, Conflicts, Objects, NothingToDo, Builds, Applies,
      PutLands, PutLandsUnheard, PutFails, PutRefused, PutResent, Record
<1>3. ASSUME NEW content \in OutsideContent, EditElsewhere(content)
      PROVE  /\ UNCHANGED <<call, pc>>
             /\ log' = Append(log, [content |-> content, by |-> Outside])
  BY <1>3 DEF EditElsewhere
<1>. QED  BY <1>1, <1>2, <1>3 DEF Next, wvars

(* In any step the versions already there stay as they are.                *)
LEMMA LogGrows ==
    ASSUME TypeOK, [Next]_wvars
    PROVE  /\ Current \in Nat /\ Current' \in Nat /\ Current' >= Current
           /\ \A v \in 1..Current : log'[v] = log[v] /\ v \in 1..Current'
<1>1. Current \in Nat
  BY DEF TypeOK, Current
<1>2. CASE log' = log
  BY <1>1, <1>2 DEF Current
<1>3. ASSUME NEW e \in Version, log' = Append(log, e)
      PROVE  /\ Current' \in Nat /\ Current' >= Current
             /\ \A v \in 1..Current : log'[v] = log[v] /\ v \in 1..Current'
  <2>1. Current' = Current + 1 /\ \A v \in 1..Current : log'[v] = log[v]
    BY <1>3, Appended
  <2>. QED  BY <1>1, <2>1
<1>4. \A r \in Request : [content |-> next[r], by |-> r] \in Version
  BY DEF TypeOK, Version
<1>5. \A c \in OutsideContent : [content |-> c, by |-> Outside] \in Version
  BY BackendAssumption DEF Version
<1>. QED  BY <1>1, <1>2, <1>3, <1>4, <1>5, LogStep

(* A call, once made, is never altered.                                    *)
LEMMA CallsStay ==
    ASSUME TypeOK, Called, [Next]_wvars,
           NEW r \in Request, pc[r] # "idle"
    PROVE  call'[r] = call[r] /\ pc'[r] # "idle"
<1>1. ASSUME NEW q \in Request, NEW e \in Asked, NEW base \in 0..Current,
             Start(q, e, base)
      PROVE  call'[r] = call[r] /\ pc'[r] # "idle"
  <2>1. PICK c \in Call : call' = [call EXCEPT ![q] = c]
    BY <1>1, StartedCall
  <2>. QED  BY <1>1, <2>1 DEF Start, TypeOK
<1>2. ASSUME NEW q \in Request, Write(q)
      PROVE  call'[r] = call[r] /\ pc'[r] # "idle"
  <2>1. call' = call
    BY <1>2
    DEF Write, ReadFails, Conflicts, Objects, NothingToDo, Builds, Applies,
        PutLands, PutLandsUnheard, PutFails, PutRefused, PutResent
  <2>2. \E p \in {"read", "put", "done"} : pc' = [pc EXCEPT ![q] = p]
    BY <1>2
    DEF Write, ReadFails, Conflicts, Objects, NothingToDo, Builds, Applies,
        PutLands, PutLandsUnheard, PutFails, PutRefused, PutResent, TryAgain,
        Reread, FallOut, Return
  <2>. QED  BY <2>1, <2>2 DEF TypeOK
<1>3. ASSUME NEW content \in OutsideContent, EditElsewhere(content)
      PROVE  call'[r] = call[r] /\ pc'[r] # "idle"
  BY <1>3 DEF EditElsewhere
<1>4. CASE UNCHANGED wvars
  BY <1>4 DEF wvars
<1>. QED  BY <1>1, <1>2, <1>3, <1>4 DEF Next

-----------------------------------------------------------------------------
(* The invariant, conjunct by conjunct.                                    *)

(* What a request was shown stays what the file held at its base version.  *)
LEMMA ShownTrulyStep ==
    TypeOK /\ Called /\ ShownTruly /\ [Next]_wvars => ShownTruly'
<1> SUFFICES ASSUME TypeOK, Called, ShownTruly, [Next]_wvars,
                    NEW q \in Request, call'[q] # NoCall
             PROVE  /\ call'[q].base \in 0..Current'
                    /\ call'[q].loaded # NoFlag =>
                         /\ call'[q].base # 0
                         /\ log'[call'[q].base].content # Garbled
                         /\ log'[call'[q].base].content[call'[q].edit.key]
                              = call'[q].loaded
  BY DEF ShownTruly, Held
<1>1. /\ Current \in Nat /\ Current' \in Nat /\ Current' >= Current
      /\ \A v \in 1..Current : log'[v] = log[v]
  BY LogGrows
<1>2. ASSUME NEW c, c.base \in 0..Current,
             c.loaded # NoFlag => /\ c.base # 0
                                  /\ Held(c.base) # Garbled
                                  /\ Held(c.base)[c.edit.key] = c.loaded,
             call'[q] = c
      PROVE  /\ call'[q].base \in 0..Current'
             /\ call'[q].loaded # NoFlag =>
                  /\ call'[q].base # 0
                  /\ log'[call'[q].base].content # Garbled
                  /\ log'[call'[q].base].content[call'[q].edit.key]
                       = call'[q].loaded
  <2>1. c.base \in 0..Current'
    BY <1>1, <1>2
  <2>2. c.base # 0 => log'[c.base] = log[c.base]
    BY <1>1, <1>2
  <2>. QED  BY <1>2, <2>1, <2>2 DEF Held
<1>3. CASE call'[q] = call[q]
  BY <1>2, <1>3 DEF ShownTruly
<1>4. ASSUME NEW r \in Request, NEW e \in Asked, NEW base \in 0..Current,
             Start(r, e, base), call'[q] # call[q]
      PROVE  /\ call'[q].base \in 0..Current'
             /\ call'[q].loaded # NoFlag =>
                  /\ call'[q].base # 0
                  /\ log'[call'[q].base].content # Garbled
                  /\ log'[call'[q].base].content[call'[q].edit.key]
                       = call'[q].loaded
  <2>1. PICK c \in Call :
          /\ call' = [call EXCEPT ![r] = c]
          /\ c.base = base
          /\ c.loaded # NoFlag => /\ base # 0
                                  /\ Held(base) # Garbled
                                  /\ Held(base)[c.edit.key] = c.loaded
    BY <1>4, StartedCall
  <2>2. call'[q] = c
    BY <1>4, <2>1 DEF TypeOK
  <2>. QED  BY <1>2, <2>1, <2>2
<1>5. CASE ~\E r \in Request : \E e \in Asked, base \in 0..Current :
             Start(r, e, base)
  <2>1. call' = call
    BY <1>5
    DEF Next, EditElsewhere, wvars, Write, ReadFails, Conflicts, Objects,
        NothingToDo, Builds, Applies, PutLands, PutLandsUnheard, PutFails,
        PutRefused, PutResent
  <2>. QED  BY <1>3, <2>1
<1>. QED  BY <1>3, <1>4, <1>5

(* Two versions the storage cannot tell apart hold the same content.       *)
LEMMA SameVersionSameContent ==
    ASSUME NEW v, NEW w, SameVersion(v, w)
    PROVE  Held(v) = Held(w)
  BY DEF SameVersion

(* A request that is not overtaken may treat its flag as unchanged: either *)
(* the file has not moved, and loaded is what it holds, or Changed said so *)
LEMMA NotOvertaken ==
    ASSUME TypeOK, Called, ShownTruly,
           NEW r \in Request, pc[r] = "read", ~Overtaken(r)
    PROVE  ~flagChanged(call[r].loaded, call[r].edit.key, Held(Current))
<1>1. CASE Moved(r)
  BY <1>1 DEF Overtaken
<1>2. CASE ~Moved(r) /\ call[r].loaded # NoFlag
  <2>1. call[r] # NoCall
    BY DEF Called
  <2>2. /\ call[r].base # 0
        /\ Held(call[r].base) # Garbled
        /\ Held(call[r].base)[call[r].edit.key] = call[r].loaded
    BY <1>2, <2>1 DEF ShownTruly
  <2>3. Held(Current) = Held(call[r].base)
    BY <1>2, <2>2, SameVersionSameContent DEF Moved
  <2>. QED  BY <2>2, <2>3, SameFlagUnchanged
<1>3. CASE call[r].loaded = NoFlag
  BY <1>3 DEF flagChanged
<1>. QED  BY <1>1, <1>2, <1>3

(* What a request is about to put was built from the version it read.      *)
LEMMA BuiltOnSeenStep ==
    TypeOK /\ Called /\ ShownTruly /\ BuiltOnSeen /\ [Next]_wvars
        => BuiltOnSeen'
<1> SUFFICES ASSUME TypeOK, Called, ShownTruly, BuiltOnSeen, [Next]_wvars,
                    NEW q \in Request, pc'[q] = "put"
             PROVE  (seen[q] \in 1..Current /\ Fits(q, Held(seen[q]), next[q]))'
  BY DEF BuiltOnSeen
<1>1. /\ Current \in Nat /\ Current' \in Nat /\ Current' >= Current
      /\ \A v \in 1..Current : log'[v] = log[v]
  BY LogGrows
<1>2. CASE pc[q] = "put" /\ seen'[q] = seen[q] /\ next'[q] = next[q]
  <2>1. seen[q] \in 1..Current /\ Fits(q, Held(seen[q]), next[q])
    BY <1>2 DEF BuiltOnSeen
  <2>2. call'[q] = call[q]
    BY <1>2, CallsStay
  <2>3. seen'[q] \in 1..Current' /\ log'[seen[q]] = log[seen[q]]
    BY <1>1, <1>2, <2>1
  <2>. QED  BY <1>2, <2>1, <2>2, <2>3 DEF Fits, Held
<1>3. ASSUME NEW t \in Time, Builds(q, t)
      PROVE  (seen[q] \in 1..Current /\ Fits(q, Held(seen[q]), next[q]))'
  <2>1. /\ pc[q] = "read" /\ ~Overtaken(q)
        /\ call' = call /\ log' = log
        /\ seen'[q] = Current
        /\ Objection(call[q].edit, Held(Current), t) = "none"
        /\ next'[q] = Edited(call[q].edit, Held(Current), t)
    BY <1>3 DEF Builds, Applies, TypeOK
  <2>2. ~flagChanged(call[q].loaded, call[q].edit.key, Held(Current))
    BY <2>1, NotOvertaken
  <2>3. Current \in 1..Current
    BY CurrentIsVersion
  <2>. QED  BY <2>1, <2>2, <2>3 DEF Fits, Held, Current
<1>4. ASSUME NEW r \in Request, NEW e \in Asked, NEW base \in 0..Current,
             Start(r, e, base)
      PROVE  pc[q] = "put" /\ seen'[q] = seen[q] /\ next'[q] = next[q]
  BY <1>4 DEF Start, TypeOK
<1>5. ASSUME NEW r \in Request, Write(r), ~\E t \in Time : Builds(q, t)
      PROVE  pc[q] = "put" /\ seen'[q] = seen[q] /\ next'[q] = next[q]
  <2>1. CASE \E t \in Time : Builds(r, t)
    <3>1. r # q
      BY <1>5, <2>1
    <3>2. /\ \E x : seen' = [seen EXCEPT ![r] = x]
          /\ \E x : next' = [next EXCEPT ![r] = x]
          /\ pc' = [pc EXCEPT ![r] = "put"]
      BY <2>1 DEF Builds
    <3>. QED  BY <3>1, <3>2 DEF TypeOK
  <2>2. CASE ~\E t \in Time : Builds(r, t)
    <3>1. seen' = seen /\ next' = next
      BY <1>5, <2>2
      DEF Write, ReadFails, Conflicts, Objects, NothingToDo, Applies, PutLands,
          PutLandsUnheard, PutFails, PutRefused, PutResent
    <3>2. \E p \in {"read", "done"} : pc' = [pc EXCEPT ![r] = p]
      BY <1>5, <2>2
      DEF Write, ReadFails, Conflicts, Objects, NothingToDo, Applies, PutLands,
          PutLandsUnheard, PutFails, PutRefused, PutResent, TryAgain, Reread,
          FallOut, Return
    <3>. QED  BY <3>1, <3>2 DEF TypeOK
  <2>. QED  BY <2>1, <2>2
<1>6. ASSUME NEW content \in OutsideContent, EditElsewhere(content)
      PROVE  pc[q] = "put" /\ seen'[q] = seen[q] /\ next'[q] = next[q]
  BY <1>6 DEF EditElsewhere
<1>7. CASE UNCHANGED wvars
  BY <1>2, <1>7 DEF wvars
<1>. QED  BY <1>2, <1>3, <1>4, <1>5, <1>6, <1>7 DEF Next

(* A version a step adds for a request is what it built, put on top of the *)
(* version it read, and one it had called Write for.                       *)
LEMMA NewVersion ==
    ASSUME Inv, [Next]_wvars,
           NEW q \in Request, NEW v \in Studio(q)', v \notin 1..Current
    PROVE  /\ v = Current + 1 /\ pc[q] = "put" /\ Unmoved(q) /\ call' = call
           /\ log'[v].content = next[q] /\ log'[v - 1] = log[Current]
<1>1. TypeOK /\ Current \in Nat /\ Current' \in Nat
  BY LogGrows DEF Inv
<1>2. v \in 2..Current' /\ log'[v].by = q
  BY DEF Studio
<1>3. PICK r \in Request :
        /\ pc[r] = "put" /\ Unmoved(r) /\ call' = call
        /\ log' = Append(log, [content |-> next[r], by |-> r])
  <2>1. log' # log
    BY <1>1, <1>2 DEF Current
  <2>2. ASSUME NEW c \in OutsideContent,
               log' = Append(log, [content |-> c, by |-> Outside])
        PROVE  FALSE
    <3>1. [content |-> c, by |-> Outside] \in Version
      BY BackendAssumption DEF Version
    <3>2. /\ Current' = Current + 1
          /\ log'[Current'] = [content |-> c, by |-> Outside]
      BY <1>1, <2>2, <3>1, Appended
    <3>3. v = Current'
      BY <1>1, <1>2, <3>2
    <3>. QED  BY <1>2, <3>2, <3>3, BackendAssumption
  <2>. QED  BY <1>1, <2>1, <2>2, LogStep
<1>4. /\ Current' = Current + 1
      /\ log'[Current'] = [content |-> next[r], by |-> r]
      /\ \A w \in 1..Current : log'[w] = log[w]
  <2>1. [content |-> next[r], by |-> r] \in Version
    BY <1>1 DEF TypeOK, Version
  <2>. QED  BY <1>1, <1>3, <2>1, Appended
<1>5. v = Current + 1 /\ r = q /\ log'[v].content = next[q]
  BY <1>1, <1>2, <1>4
<1>6. log'[v - 1] = log[Current]
  BY <1>1, <1>4, <1>5, CurrentIsVersion
<1>. QED  BY <1>3, <1>5, <1>6

(* Every committed version is its request's edit of the one before it: the *)
(* put landed only while the storage still had what the request had read.  *)
LEMMA CommitsFitStep == Inv /\ [Next]_wvars => CommitsFit'
<1> SUFFICES ASSUME Inv, [Next]_wvars,
                    NEW q \in Request, NEW v \in Studio(q)'
             PROVE  (pc[q] # "idle" /\ Fits(q, Held(v - 1), Held(v)))'
  BY DEF CommitsFit
<1>1. /\ TypeOK /\ Called /\ BuiltOnSeen /\ CommitsFit
      /\ Current \in Nat /\ Current' \in Nat
  BY LogGrows DEF Inv
<1>2. v \in 2..Current' /\ log'[v].by = q
  BY DEF Studio
<1>3. CASE v \in 1..Current
  <2>1. log'[v] = log[v] /\ log'[v - 1] = log[v - 1]
    BY <1>1, <1>2, <1>3, LogGrows
  <2>2. v \in Studio(q)
    BY <1>1, <1>2, <1>3, <2>1 DEF Studio
  <2>3. pc[q] # "idle" /\ Fits(q, Held(v - 1), Held(v))
    BY <1>1, <2>2 DEF CommitsFit
  <2>4. call'[q] = call[q] /\ pc'[q] # "idle"
    BY <1>1, <2>3, CallsStay
  <2>. QED  BY <2>1, <2>3, <2>4 DEF Fits, Held
<1>4. CASE v \notin 1..Current
  <2>1. /\ v = Current + 1 /\ pc[q] = "put" /\ Unmoved(q) /\ call' = call
        /\ log'[v].content = next[q] /\ log'[v - 1] = log[Current]
    BY <1>4, NewVersion
  <2>2. Held(Current) = Held(seen[q]) /\ Fits(q, Held(seen[q]), next[q])
    BY <1>1, <2>1, SameVersionSameContent DEF Unmoved, BuiltOnSeen
  <2>3. pc'[q] # "idle"
    BY <1>1, <2>1, CallsStay
  <2>. QED  BY <2>1, <2>2, <2>3 DEF Fits, Held
<1>. QED  BY <1>3, <1>4

(* Inv holds before the first request, and every step keeps it.            *)
LEMMA InvHolds == Init => Inv
<1> SUFFICES ASSUME Init PROVE Inv
  OBVIOUS
<1>1. TypeOK
  BY BackendAssumption DEF Init, TypeOK, Version, Content, Outcome
<1>2. Called /\ Answered /\ ShownTruly /\ BuiltOnSeen
  BY DEF Init, Called, Answered, ShownTruly, BuiltOnSeen
<1>3. Current = 1
  BY DEF Init, Current
<1>4. CommitsFit
  BY <1>3 DEF CommitsFit, Studio
<1>. QED  BY <1>1, <1>2, <1>4 DEF Inv

LEMMA InvStep == Inv /\ [Next]_wvars => Inv'
  BY TypeStep, CalledStep, AnsweredStep, ShownTrulyStep, BuiltOnSeenStep,
     CommitsFitStep
  DEF Inv

-----------------------------------------------------------------------------
(* Theorems.                                                               *)

(* Inv is an inductive invariant of the loop.                              *)
THEOREM Invariance == WriteSpec => []Inv
  BY InvHolds, InvStep, PTL DEF WriteSpec

(* The types of the loop's variables: attempts never exceed the bound.     *)
THEOREM TypeCorrect == WriteSpec => []TypeOK
<1>1. Inv => TypeOK
  BY DEF Inv
<1>. QED  BY <1>1, Invariance, PTL

(* No lost update: every version Studio writes is exactly one request's    *)
(* edit, accepted by GOFF, of the version directly before it.              *)
THEOREM NothingLost == WriteSpec => []CommitsAreEdits
<1>1. Inv => CommitsAreEdits
  BY DEF Inv, CommitsFit, Fits, CommitsAreEdits
<1>. QED  BY <1>1, Invariance, PTL

(* Whatever Studio writes, GOFF's validation accepts the whole file.       *)
THEOREM NothingRejected == WriteSpec => []OnlyAcceptedFiles
<1>1. Inv => OnlyAcceptedFiles
  <2> SUFFICES ASSUME Inv, NEW r \in Request, NEW v \in Studio(r)
               PROVE  Valid(Held(v))
    BY DEF OnlyAcceptedFiles, Valid
  <2>1. Fits(r, Held(v - 1), Held(v))
    BY DEF Inv, CommitsFit
  <2>. QED  BY <2>1, NoObjection DEF Fits
<1>. QED  BY <1>1, Invariance, PTL

(* A request that shows the flag it loaded never commits over a version in *)
(* which that flag has gone or has changed in a compared field.            *)
THEOREM NothingUnseenOverwritten == WriteSpec => []NoUnseenOverwrite
<1>1. Inv => NoUnseenOverwrite
  BY DEF Inv, CommitsFit, Fits, NoUnseenOverwrite
<1>. QED  BY <1>1, Invariance, PTL

-----------------------------------------------------------------------------
(* The answers.                                                            *)

(***************************************************************************)
(* What a request may be told rests on what it has done so far.  Until it  *)
(* has its answer it has committed nothing, unless a library repeated its  *)
(* put; a retry it does not admit to did not happen; and somebody else     *)
(* wrote a version for every attempt it has used up.                       *)
(***************************************************************************)
Landed(r) ==
    /\ Studio(r) # {} => \/ outcome[r] \in {"saved", "failed"}
                         \/ r \in Resending /\ retried[r]
    /\ outcome[r] = "saved" => Studio(r) # {}
    /\ r \notin Resending => \A v, w \in Studio(r) : v = w

Fresh(r) ==
    ~retried[r] /\ pc[r] # "idle" /\ call[r].base # 0 =>
        /\ pc[r] = "put" => SameVersion(seen[r], call[r].base)
        /\ outcome[r] = "saved" =>
             \A v \in Studio(r) : SameVersion(v - 1, call[r].base)

RealConflict(r) ==
    r \notin Resending /\ outcome[r] = "conflict" =>
        /\ pc[r] # "idle"
        /\ \E v \in call[r].base + 1 .. Current :
             /\ log[v].by # r
             /\ flagChanged(call[r].loaded, call[r].edit.key, Held(v))

Crowded(r) ==
    r \notin Resending /\ ~Spurious =>
        /\ pc[r] \in {"idle", "read"} => attempt[r] <= Current
        /\ pc[r] = "put" => attempt[r] <= seen[r]
        /\ outcome[r] = "keptChanging" => Attempts < Current

Told(r) == Landed(r) /\ Fresh(r) /\ RealConflict(r) /\ Crowded(r)

InvTold == Inv /\ \A r \in Request : Told(r)

(* A new version is its author's, and nobody else's.                       *)
LEMMA StudioGrows ==
    ASSUME TypeOK, NEW e \in Version, log' = Append(log, e), NEW q \in Request
    PROVE  /\ e.by # q => Studio(q)' = Studio(q)
           /\ e.by = q => Studio(q)' = Studio(q) \cup {Current + 1}
<1>1. /\ Current \in Nat \ {0} /\ Current' = Current + 1
      /\ log'[Current + 1] = e
      /\ \A v \in 1..Current : log'[v] = log[v]
  BY Appended, CurrentIsVersion DEF TypeOK, Current
<1>2. Studio(q)' = {v \in 2..Current + 1 : log'[v].by = q}
  BY <1>1 DEF Studio
<1>3. ASSUME NEW v
      PROVE  v \in Studio(q)' <=> v \in Studio(q) \/ (v = Current + 1 /\ e.by = q)
  <2>1. CASE v \in 2..Current
    <3>1. v \in 1..Current /\ v # Current + 1 /\ v \in 2..Current + 1
      BY <1>1, <2>1
    <3>2. log'[v] = log[v]
      BY <1>1, <3>1
    <3>. QED  BY <1>2, <2>1, <3>1, <3>2 DEF Studio
  <2>2. CASE v \notin 2..Current
    <3>1. v \in 2..Current + 1 <=> v = Current + 1
      BY <1>1, <2>2
    <3>. QED  BY <1>1, <1>2, <2>2, <3>1 DEF Studio
  <2>. QED  BY <2>1, <2>2
<1>. QED  BY <1>3

(* Versions there are do not become distinguishable, or indistinguishable. *)
LEMMA SameVersionStays ==
    ASSUME TypeOK, [Next]_wvars, NEW v \in 1..Current, NEW w \in 1..Current,
           SameVersion(v, w)
    PROVE  SameVersion(v, w)'
<1>1. log'[v] = log[v] /\ log'[w] = log[w]
  BY LogGrows
<1>. QED  BY <1>1 DEF SameVersion, Held

(* Steps of others and edits elsewhere leave a request where it is, with   *)
(* the same commits.                                                       *)
LEMMA Bystander ==
    ASSUME TypeOK, [Next]_wvars, NEW q \in Request, ~Write(q),
           ~\E e \in Asked, base \in 0..Current : Start(q, e, base)
    PROVE  /\ call'[q] = call[q] /\ pc'[q] = pc[q] /\ attempt'[q] = attempt[q]
           /\ retried'[q] = retried[q] /\ seen'[q] = seen[q]
           /\ outcome'[q] = outcome[q]
           /\ Studio(q)' = Studio(q)
<1>1. ASSUME NEW r \in Request, r # q, NEW e \in Asked,
             NEW base \in 0..Current, Start(r, e, base)
      PROVE  /\ call'[q] = call[q] /\ pc'[q] = pc[q]
             /\ UNCHANGED <<log, attempt, retried, seen, outcome>>
  BY <1>1 DEF Start, TypeOK
<1>2. ASSUME NEW r \in Request, r # q, Write(r)
      PROVE  /\ call' = call /\ pc'[q] = pc[q] /\ attempt'[q] = attempt[q]
             /\ retried'[q] = retried[q] /\ seen'[q] = seen[q]
             /\ outcome'[q] = outcome[q]
             /\ Studio(q)' = Studio(q)
  <2>1. call' = call
    BY <1>2
    DEF Write, ReadFails, Conflicts, Objects, NothingToDo, Builds, Applies,
        PutLands, PutLandsUnheard, PutFails, PutRefused, PutResent
  <2>2. /\ \E x : pc' = [pc EXCEPT ![r] = x]
        /\ outcome' = outcome \/ \E x : outcome' = [outcome EXCEPT ![r] = x]
    BY <1>2
    DEF Write, ReadFails, Conflicts, Objects, NothingToDo, Builds, Applies,
        PutLands, PutLandsUnheard, PutFails, PutRefused, PutResent, TryAgain,
        Reread, FallOut, Return
  <2>3. attempt' = attempt \/ \E x : attempt' = [attempt EXCEPT ![r] = x]
    BY <1>2
    DEF Write, ReadFails, Conflicts, Objects, NothingToDo, Builds, Applies,
        PutLands, PutLandsUnheard, PutFails, PutRefused, PutResent, TryAgain,
        Reread, FallOut
  <2>4. /\ retried' = retried \/ \E x : retried' = [retried EXCEPT ![r] = x]
        /\ seen' = seen \/ \E x : seen' = [seen EXCEPT ![r] = x]
    BY <1>2
    DEF Write, ReadFails, Conflicts, Objects, NothingToDo, Builds, Applies,
        PutLands, PutLandsUnheard, PutFails, PutRefused, PutResent, TryAgain
  <2>5. \/ log' = log
        \/ log' = Append(log, [content |-> next[r], by |-> r])
    BY <1>2
    DEF Write, ReadFails, Conflicts, Objects, NothingToDo, Builds, Applies,
        PutLands, PutLandsUnheard, PutFails, PutRefused, PutResent, Record
  <2>6. Studio(q)' = Studio(q)
    <3>1. CASE log' = log
      BY <3>1 DEF Studio, Current
    <3>2. CASE log' = Append(log, [content |-> next[r], by |-> r])
      <4>1. [content |-> next[r], by |-> r] \in Version
        BY DEF TypeOK, Version
      <4>. QED  BY <1>2, <3>2, <4>1, StudioGrows
    <3>. QED  BY <2>5, <3>1, <3>2
  <2>. QED  BY <1>2, <2>1, <2>2, <2>3, <2>4, <2>6 DEF TypeOK
<1>3. ASSUME NEW content \in OutsideContent, EditElsewhere(content)
      PROVE  /\ UNCHANGED <<call, pc, attempt, retried, seen, outcome>>
             /\ Studio(q)' = Studio(q)
  <2>1. [content |-> content, by |-> Outside] \in Version
    BY BackendAssumption DEF Version
  <2>2. log' = Append(log, [content |-> content, by |-> Outside])
    BY <1>3 DEF EditElsewhere
  <2>3. Outside # q
    BY BackendAssumption
  <2>. QED  BY <1>3, <2>1, <2>2, <2>3, StudioGrows DEF EditElsewhere
<1>4. ASSUME log' = log
      PROVE  Studio(q)' = Studio(q)
  BY <1>4 DEF Studio, Current
<1>5. CASE UNCHANGED wvars
  BY <1>4, <1>5 DEF wvars
<1>6. CASE \E r \in Request, e \in Asked, base \in 0..Current : Start(r, e, base)
  BY <1>1, <1>4, <1>6
<1>7. CASE \E r \in Request : Write(r)
  BY <1>2, <1>7
<1>8. CASE \E content \in OutsideContent : EditElsewhere(content)
  BY <1>3, <1>8
<1>. QED  BY <1>5, <1>6, <1>7, <1>8 DEF Next

(* A request's own step, by what it does to its own part of the state.     *)
LEMMA OwnStep ==
    ASSUME Inv, NEW q \in Request, Write(q)
    PROVE  /\ call' = call
           /\ \/ /\ pc[q] = "read" /\ log' = log
                 /\ \/ /\ pc'[q] = "done"
                       /\ outcome'[q] \notin {"saved", "conflict", "keptChanging"}
                    \/ /\ pc'[q] = "done" /\ outcome'[q] = "conflict"
                       /\ Overtaken(q)
                    \/ /\ pc'[q] = "put" /\ outcome'[q] = outcome[q]
                       /\ seen'[q] = Current /\ attempt'[q] = attempt[q]
                       /\ retried'[q] = (retried[q] \/ Moved(q))
              \/ /\ pc[q] = "put" /\ Unmoved(q)
                 /\ log' = Append(log, [content |-> next[q], by |-> q])
                 /\ \/ /\ pc'[q] = "done" /\ outcome'[q] \in {"saved", "failed"}
                       /\ seen'[q] = seen[q] /\ retried'[q] = retried[q]
                    \/ /\ q \in Resending /\ retried'[q]
                       /\ \/ pc'[q] = "read" /\ outcome'[q] = outcome[q]
                          \/ pc'[q] = "done" /\ outcome'[q] = "keptChanging"
              \/ /\ pc[q] = "put" /\ log' = log
                 /\ \/ pc'[q] = "done" /\ outcome'[q] = "failed"
                    \/ /\ ~Unmoved(q) \/ Spurious
                       /\ retried'[q]
                       /\ \/ /\ pc'[q] = "read" /\ outcome'[q] = outcome[q]
                             /\ attempt'[q] = attempt[q] + 1
                          \/ /\ pc'[q] = "done" /\ outcome'[q] = "keptChanging"
                             /\ attempt[q] >= Attempts
<1>. USE DEF Return
<1>1. TypeOK
  BY DEF Inv
<1>2. CASE ReadFails(q)
  BY <1>1, <1>2 DEF ReadFails, TypeOK
<1>3. CASE Conflicts(q)
  BY <1>1, <1>3 DEF Conflicts, TypeOK
<1>4. ASSUME NEW t \in Time, Objects(q, t)
      PROVE  /\ call' = call /\ pc[q] = "read" /\ log' = log
             /\ pc'[q] = "done"
             /\ outcome'[q] \notin {"saved", "conflict", "keptChanging"}
  <2>1. Objection(call[q].edit, Held(Current), t)
          \notin {"saved", "conflict", "keptChanging"}
    BY DEF Objection
  <2>. QED  BY <1>1, <1>4, <2>1 DEF Objects, Applies, TypeOK
<1>5. ASSUME NEW t \in Time, NothingToDo(q, t)
      PROVE  /\ call' = call /\ pc[q] = "read" /\ log' = log
             /\ pc'[q] = "done" /\ outcome'[q] = "unchanged"
  BY <1>1, <1>5 DEF NothingToDo, Applies, TypeOK
<1>6. ASSUME NEW t \in Time, Builds(q, t)
      PROVE  /\ call' = call /\ pc[q] = "read" /\ log' = log
             /\ pc'[q] = "put" /\ outcome'[q] = outcome[q]
             /\ seen'[q] = Current /\ attempt'[q] = attempt[q]
             /\ retried'[q] = (retried[q] \/ Moved(q))
  BY <1>1, <1>6 DEF Builds, Applies, TypeOK
<1>7. CASE PutLands(q) \/ PutLandsUnheard(q)
  BY <1>1, <1>7 DEF PutLands, PutLandsUnheard, Record, TypeOK
<1>8. CASE PutFails(q)
  BY <1>1, <1>8 DEF PutFails, TypeOK
<1>9. ASSUME pc[q] = "put", TryAgain(q)
      PROVE  /\ retried'[q]
             /\ \/ /\ pc'[q] = "read" /\ outcome'[q] = outcome[q]
                   /\ attempt'[q] = attempt[q] + 1
                \/ /\ pc'[q] = "done" /\ outcome'[q] = "keptChanging"
                   /\ attempt[q] >= Attempts
  BY <1>1, <1>9, BackendAssumption
  DEF TryAgain, MayTryAgain, Reread, FallOut, TypeOK
<1>10. CASE PutRefused(q)
  BY <1>9, <1>10 DEF PutRefused
<1>11. CASE PutResent(q)
  BY <1>9, <1>11 DEF PutResent, Record
<1>. QED
  BY <1>2, <1>3, <1>4, <1>5, <1>6, <1>7, <1>8, <1>10, <1>11 DEF Write

(* A request that starts has nothing behind it.                            *)
LEMMA StartStep ==
    ASSUME Inv, NEW q \in Request,
           NEW e \in Asked, NEW base \in 0..Current, Start(q, e, base)
    PROVE  /\ pc[q] = "idle" /\ pc'[q] = "read" /\ attempt'[q] = attempt[q]
           /\ outcome[q] = "none" /\ outcome'[q] = "none"
           /\ Current' = Current
           /\ Studio(q) = {} /\ Studio(q)' = {}
<1>1. /\ pc[q] = "idle" /\ pc'[q] = "read"
      /\ UNCHANGED <<log, attempt, outcome>>
  BY DEF Start, Inv, TypeOK
<1>2. outcome[q] = "none"
  BY <1>1 DEF Inv, Answered
<1>3. Studio(q) = {}
  BY <1>1 DEF Inv, CommitsFit
<1>. QED  BY <1>1, <1>2, <1>3 DEF Studio, Current

(* What a request's own step adds to its commits.                          *)
LEMMA OwnCommit ==
    ASSUME TypeOK, NEW q \in Request,
           log' = Append(log, [content |-> next[q], by |-> q])
    PROVE  /\ log' # log /\ Current' = Current + 1
           /\ Studio(q)' = Studio(q) \cup {Current + 1}
<1>1. [content |-> next[q], by |-> q] \in Version
  BY DEF TypeOK, Version
<1>2. Current' = Current + 1 /\ Current \in Nat
  BY <1>1, Appended DEF TypeOK, Current
<1>3. log' # log
  BY <1>2 DEF Current
<1>. QED  BY <1>1, <1>2, <1>3, StudioGrows

(* A commit is the request's only one, and it gets its answer with it.     *)
LEMMA LandedStep ==
    ASSUME Inv, [Next]_wvars, NEW q \in Request, Landed(q)
    PROVE  Landed(q)'
<1>1. TypeOK
  BY DEF Inv
<1>2. CASE /\ ~Write(q)
           /\ ~\E e \in Asked, base \in 0..Current : Start(q, e, base)
  BY <1>1, <1>2, Bystander DEF Landed
<1>3. CASE \E e \in Asked, base \in 0..Current : Start(q, e, base)
  BY <1>3, StartStep DEF Landed
<1>4. CASE Write(q)
  <2>1. pc[q] # "done" /\ outcome[q] = "none"
    BY <1>4, OwnStep DEF Inv, Answered
  <2>2. (q \in Resending /\ retried[q]) \/ Studio(q) = {}
    BY <2>1 DEF Landed
  <2>3. retried[q] => retried'[q]
    BY <1>1, <1>4
    DEF Write, ReadFails, Conflicts, Objects, NothingToDo, Builds, Applies,
        PutLands, PutLandsUnheard, PutFails, PutRefused, PutResent, TryAgain,
        TypeOK
  <2>4. CASE log' = log
    <3>1. Studio(q)' = Studio(q)
      BY <2>4 DEF Studio, Current
    <3>2. log' # Append(log, [content |-> next[q], by |-> q])
      BY <1>1, <2>4, OwnCommit
    <3>3. outcome'[q] # "saved"
      BY <1>4, <2>1, <3>2, OwnStep
    <3>. QED  BY <2>1, <2>2, <2>3, <3>1, <3>3 DEF Landed
  <2>5. CASE log' # log
    <3>1. /\ log' = Append(log, [content |-> next[q], by |-> q])
          /\ \/ outcome'[q] \in {"saved", "failed"}
             \/ q \in Resending /\ retried'[q]
      BY <1>4, <2>5, OwnStep
    <3>2. Studio(q)' = Studio(q) \cup {Current + 1}
      BY <1>1, <3>1, OwnCommit
    <3>. QED  BY <2>2, <2>3, <3>1, <3>2 DEF Landed
  <2>. QED  BY <2>4, <2>5
<1>. QED  BY <1>2, <1>3, <1>4

(* Without an admitted retry, what is put is built on the version seen by  *)
(* the user.                                                               *)
LEMMA FreshStep ==
    ASSUME Inv, [Next]_wvars, NEW q \in Request, Landed(q), Fresh(q)
    PROVE  Fresh(q)'
<1>. USE DEF SameVersion
<1>1. TypeOK /\ Called /\ BuiltOnSeen /\ Current \in Nat
  BY LogGrows DEF Inv
<1>2. ASSUME pc[q] # "idle", call[q].base # 0
      PROVE  call[q].base \in 1..Current /\ call'[q] = call[q]
  BY <1>1, <1>2, CallsStay DEF Inv, Called, ShownTruly
<1>3. ASSUME NEW v \in Studio(q)
      PROVE  v - 1 \in 1..Current
  BY <1>1, <1>3 DEF Studio
<1>4. pc[q] = "put" => seen[q] \in 1..Current
  BY <1>1 DEF BuiltOnSeen
<1>5. CASE /\ ~Write(q)
           /\ ~\E e \in Asked, base \in 0..Current : Start(q, e, base)
  <2>1. /\ pc'[q] = pc[q] /\ call'[q] = call[q] /\ retried'[q] = retried[q]
        /\ seen'[q] = seen[q] /\ outcome'[q] = outcome[q]
        /\ Studio(q)' = Studio(q)
    BY <1>1, <1>5, Bystander
  <2>. QED
    BY <1>1, <1>2, <1>3, <1>4, <2>1, SameVersionStays DEF Fresh
<1>6. CASE \E e \in Asked, base \in 0..Current : Start(q, e, base)
  BY <1>6, StartStep DEF Fresh
<1>7. CASE Write(q)
  <2> SUFFICES ASSUME ~retried'[q], call'[q].base # 0
               PROVE  /\ pc'[q] = "put" =>
                           SameVersion(seen[q], call[q].base)'
                      /\ outcome'[q] = "saved" =>
                           \A v \in Studio(q)' :
                              SameVersion(v - 1, call[q].base)'
    BY DEF Fresh
  <2>1. /\ pc[q] \in {"read", "put"} /\ call'[q] = call[q] /\ outcome[q] = "none"
        /\ call[q].base \in 1..Current
    BY <1>2, <1>7, OwnStep DEF Inv, Answered
  <2>2. CASE pc[q] = "read"
    <3>1. /\ log' = log /\ outcome'[q] # "saved"
          /\ pc'[q] = "put" => seen'[q] = Current /\ ~Moved(q)
      BY <1>7, <2>1, <2>2, OwnStep
    <3>2. pc'[q] = "put" => SameVersion(Current, call[q].base)
      BY <2>1, <3>1 DEF Moved
    <3>. QED  BY <2>1, <3>1, <3>2 DEF Held
  <2>3. CASE pc[q] = "put"
    <3>1. /\ pc'[q] # "put"
          /\ outcome'[q] = "saved" =>
               /\ Unmoved(q) /\ ~retried[q]
               /\ log' = Append(log, [content |-> next[q], by |-> q])
      BY <1>7, <2>1, <2>3, OwnStep
    <3>2. ASSUME outcome'[q] = "saved", NEW v \in Studio(q)'
          PROVE  SameVersion(v - 1, call[q].base)'
      <4>1. SameVersion(Current, seen[q]) /\ SameVersion(seen[q], call[q].base)
        BY <2>1, <2>3, <3>1, <3>2 DEF Unmoved, Fresh
      <4>2. SameVersion(Current, call[q].base)
        BY <4>1
      <4>3. Studio(q) = {}
        BY <2>1, <3>1, <3>2 DEF Landed
      <4>4. v = Current + 1
        BY <1>1, <3>1, <3>2, <4>3, OwnCommit
      <4>5. v - 1 = Current /\ Current \in 1..Current
        BY <1>1, <4>4, CurrentIsVersion
      <4>6. log'[Current] = log[Current] /\ log'[call[q].base] = log[call[q].base]
        BY <1>1, <2>1, <4>5, LogGrows
      <4>. QED  BY <2>1, <4>2, <4>5, <4>6 DEF Held
    <3>. QED  BY <3>1, <3>2
  <2>. QED  BY <2>1, <2>2, <2>3
<1>. QED  BY <1>5, <1>6, <1>7

(* A conflict is somebody else's change, since the version the user saw.   *)
LEMMA RealConflictStep ==
    ASSUME Inv, [Next]_wvars, NEW q \in Request, Landed(q), RealConflict(q)
    PROVE  RealConflict(q)'
<1>1. TypeOK /\ Called /\ Current \in Nat
  BY LogGrows DEF Inv
<1>2. CASE pc[q] # "idle" /\ outcome[q] = "conflict" /\ outcome'[q] = "conflict"
  <2> SUFFICES ASSUME q \notin Resending PROVE RealConflict(q)'
    BY DEF RealConflict
  <2>1. PICK v \in call[q].base + 1 .. Current :
          /\ log[v].by # q
          /\ flagChanged(call[q].loaded, call[q].edit.key, Held(v))
    BY <1>2 DEF RealConflict
  <2>2. call'[q] = call[q] /\ pc'[q] # "idle" /\ call[q].base \in Nat
    BY <1>1, <1>2, CallsStay, CallType
  <2>3. v \in 1..Current
    BY <1>1, <2>1, <2>2
  <2>4. log'[v] = log[v] /\ Current' \in Nat /\ Current' >= Current
    BY <1>1, <2>3, LogGrows
  <2>5. v \in call'[q].base + 1 .. Current'
    BY <1>1, <2>1, <2>2, <2>4
  <2>. QED  BY <2>1, <2>2, <2>4, <2>5 DEF RealConflict, Held
<1>3. CASE /\ ~Write(q)
           /\ ~\E e \in Asked, base \in 0..Current : Start(q, e, base)
  <2>1. outcome'[q] = outcome[q]
    BY <1>1, <1>3, Bystander
  <2>. QED  BY <1>2, <2>1 DEF RealConflict
<1>4. CASE \E e \in Asked, base \in 0..Current : Start(q, e, base)
  BY <1>4, StartStep DEF RealConflict
<1>5. CASE Write(q)
  <2>1. pc[q] \in {"read", "put"} /\ outcome[q] = "none" /\ call' = call
    BY <1>5, OwnStep DEF Inv, Answered
  <2> SUFFICES ASSUME q \notin Resending, outcome'[q] = "conflict"
               PROVE  RealConflict(q)'
    BY DEF RealConflict
  <2>2. pc[q] = "read" /\ log' = log /\ pc'[q] = "done" /\ Overtaken(q)
    BY <1>5, <2>1, OwnStep
  <2>3. Studio(q) = {}
    BY <2>1 DEF Landed
  <2>4. call[q].base \in 1..Current /\ call[q].base # Current
    BY <1>1, <2>1, <2>2
    DEF Inv, Called, ShownTruly, Overtaken, Moved, SameVersion
  <2>5. Current \in call[q].base + 1 .. Current /\ Current \in 2..Current
    BY <1>1, <2>4
  <2>6. log[Current].by # q
    BY <2>3, <2>5 DEF Studio
  <2>7. flagChanged(call[q].loaded, call[q].edit.key, Held(Current))
    BY <2>2 DEF Overtaken
  <2>. QED  BY <2>1, <2>2, <2>5, <2>6, <2>7 DEF RealConflict, Held, Current
<1>. QED  BY <1>3, <1>4, <1>5

(* An attempt is used up only by a version that was not there before.      *)
LEMMA CrowdedStep ==
    ASSUME Inv, [Next]_wvars, NEW q \in Request, Landed(q), Crowded(q)
    PROVE  Crowded(q)'
<1>1. /\ TypeOK /\ BuiltOnSeen /\ Attempts \in Nat
      /\ Current \in Nat /\ Current' \in Nat /\ Current' >= Current
      /\ attempt[q] \in Nat
  BY LogGrows, BackendAssumption DEF Inv, TypeOK
<1> SUFFICES ASSUME q \notin Resending, ~Spurious PROVE Crowded(q)'
  BY DEF Crowded
<1>2. CASE /\ ~Write(q)
           /\ ~\E e \in Asked, base \in 0..Current : Start(q, e, base)
  <2>1. /\ pc'[q] = pc[q] /\ attempt'[q] = attempt[q] /\ seen'[q] = seen[q]
        /\ outcome'[q] = outcome[q]
    BY <1>1, <1>2, Bystander
  <2>. QED  BY <1>1, <2>1 DEF Crowded
<1>3. CASE \E e \in Asked, base \in 0..Current : Start(q, e, base)
  BY <1>3, StartStep DEF Crowded
<1>4. CASE Write(q)
  <2>1. outcome[q] = "none"
    BY <1>4, OwnStep DEF Inv, Answered
  <2>2. CASE pc[q] = "read"
    <3>1. \/ pc'[q] = "done" /\ outcome'[q] # "keptChanging"
          \/ /\ pc'[q] = "put" /\ outcome'[q] = "none"
             /\ seen'[q] = Current /\ attempt'[q] = attempt[q]
      BY <1>4, <2>1, <2>2, OwnStep
    <3>2. attempt[q] <= Current
      BY <2>2 DEF Crowded
    <3>. QED  BY <3>1, <3>2 DEF Crowded
  <2>3. CASE pc[q] = "put"
    <3>1. attempt[q] <= seen[q] /\ seen[q] \in 1..Current
      BY <1>1, <2>3 DEF Crowded, BuiltOnSeen
    <3>2. \/ pc'[q] = "done" /\ outcome'[q] # "keptChanging"
          \/ /\ ~Unmoved(q)
             /\ \/ /\ pc'[q] = "read" /\ outcome'[q] = "none"
                   /\ attempt'[q] = attempt[q] + 1
                \/ /\ pc'[q] = "done" /\ outcome'[q] = "keptChanging"
                   /\ attempt[q] >= Attempts
      BY <1>4, <2>1, <2>3, OwnStep
    <3>3. ~Unmoved(q) => seen[q] < Current
      BY <1>1, <3>1 DEF Unmoved, SameVersion
    <3>4. ~Unmoved(q) => attempt[q] + 1 <= Current'
      BY <1>1, <3>1, <3>3
    <3>. QED  BY <1>1, <3>2, <3>4 DEF Crowded
  <2>. QED  BY <1>4, <2>2, <2>3, OwnStep
<1>. QED  BY <1>2, <1>3, <1>4

(* With what requests may be told the invariant is inductive too.          *)
THEOREM AnswersInvariance == WriteSpec => []InvTold
<1>1. Init /\ Inv => InvTold
  <2> SUFFICES ASSUME Init, Inv, NEW q \in Request PROVE Told(q)
    BY DEF InvTold
  <2>1. /\ Current = 1 /\ pc[q] = "idle" /\ attempt[q] = 1
        /\ outcome[q] = "none"
    BY DEF Init, Current
  <2>2. Studio(q) = {}
    BY <2>1 DEF Studio
  <2>. QED
    BY <2>1, <2>2 DEF Told, Landed, Fresh, RealConflict, Crowded
<1>2. InvTold /\ Inv' /\ [Next]_wvars => InvTold'
  BY LandedStep, FreshStep, RealConflictStep, CrowdedStep DEF InvTold, Told
<1>. QED  BY <1>1, <1>2, Invariance, PTL DEF WriteSpec

(* A request is committed at most once, however often it is attempted,     *)
(* unless a library repeats its put.                                       *)
THEOREM OnlyOnce == WriteSpec => []CommittedOnce
<1>1. InvTold => CommittedOnce
  <2> SUFFICES ASSUME InvTold, NEW r \in Request \ Resending
               PROVE  Cardinality(Studio(r)) <= 1
    BY DEF CommittedOnce
  <2>1. \A v, w \in Studio(r) : v = w
    BY DEF InvTold, Told, Landed
  <2>2. CASE Studio(r) = {}
    BY <2>2, FS_EmptySet
  <2>3. CASE Studio(r) # {}
    <3>1. PICK v : Studio(r) = {v}
      BY <2>1, <2>3
    <3>2. Cardinality({v}) = 1
      BY FS_Singleton
    <3>. QED  BY <3>1, <3>2
  <2>. QED  BY <2>2, <2>3
<1>. QED  BY <1>1, AnswersInvariance, PTL

(* What the user is told is true, in all four parts.                       *)
THEOREM AnswersTrue == WriteSpec => []AnswersAreTrue
<1>1. InvTold => HonestAnswers
  BY DEF InvTold, Told, Landed, HonestAnswers
<1>2. InvTold => ConflictsAreReal
  BY DEF InvTold, Told, RealConflict, ConflictsAreReal
<1>3. InvTold => KeptChangingIsTrue
  <2> SUFFICES ASSUME InvTold, NEW r \in Request, r \notin Resending,
                      ~Spurious, outcome[r] = "keptChanging"
               PROVE  Cardinality({v \in 2..Current : log[v].by # r}) >= Attempts
    BY DEF KeptChangingIsTrue
  <2>1. Studio(r) = {} /\ Attempts < Current
    BY DEF InvTold, Told, Landed, Crowded
  <2>2. {v \in 2..Current : log[v].by # r} = 2..Current
    BY <2>1 DEF Studio
  <2>3. Attempts \in Nat \ {0} /\ Current \in Nat
    BY BackendAssumption DEF InvTold, Inv, TypeOK, Current
  <2>4. Cardinality(2..Current) = Current - 1
    BY <2>1, <2>3, FS_Interval
  <2>5. Cardinality({v \in 2..Current : log[v].by # r}) = Current - 1
    BY <2>2, <2>4, Zenon
  <2>6. Current - 1 >= Attempts
    BY <2>1, <2>3
  <2>. QED  BY <2>5, <2>6
<1>4. InvTold => QuietSavesAreFresh
  <2> SUFFICES ASSUME InvTold, NEW r \in Request, NEW v \in Studio(r),
                      outcome[r] = "saved", ~retried[r], call[r].base # 0
               PROVE  SameVersion(v - 1, call[r].base)
    BY DEF QuietSavesAreFresh
  <2>1. pc[r] # "idle" /\ Fresh(r)
    BY DEF InvTold, Told, Inv, Answered
  <2>. QED  BY <2>1 DEF Fresh
<1>. QED
  BY <1>1, <1>2, <1>3, <1>4, AnswersInvariance, PTL DEF AnswersAreTrue

-----------------------------------------------------------------------------
(* The loop implements AtomicEdits.                                        *)

(* The abstract specification speaks of files in the same words.           *)
LEMMA SameWords ==
    ASSUME NEW e, NEW c, NEW t, NEW l, NEW k
    PROVE  /\ Atomic!Edited(e, c, t) = Edited(e, c, t)
           /\ Atomic!Objection(e, c, t) = Objection(e, c, t)
           /\ Atomic!flagChanged(l, k, c) <=> flagChanged(l, k, c)
           /\ Atomic!File = File /\ Atomic!Content = Content
           /\ Atomic!Demand = [edit: Edit, loaded: Flag \cup {NoFlag}]
<1>1. Atomic!Edited(e, c, t) = Edited(e, c, t)
  BY DEF Edited, Atomic!Edited, Stamped, Atomic!Stamped
<1>2. Atomic!Possible(e, c) <=> Possible(e, c)
  BY DEF Possible, Atomic!Possible, Has, Atomic!Has
<1>3. Atomic!Valid(Edited(e, c, t)) <=> Valid(Edited(e, c, t))
  BY DEF Valid, Atomic!Valid, Has, Atomic!Has
<1>4. Atomic!Objection(e, c, t) = Objection(e, c, t)
  BY <1>1, <1>2, <1>3 DEF Objection, Atomic!Objection
<1>5. Atomic!flagChanged(l, k, c) <=> flagChanged(l, k, c)
  BY DEF flagChanged, Atomic!flagChanged, sameFlagState,
         Atomic!sameFlagState, Has, Atomic!Has
<1>6. Atomic!File = File /\ Atomic!Content = Content
  BY DEF File, Atomic!File, Flag, Atomic!Flag, Content, Atomic!Content
<1>7. Atomic!Demand = [edit: Edit, loaded: Flag \cup {NoFlag}]
  BY DEF Atomic!Demand, Edit, Atomic!Edit, Flag, Atomic!Flag
<1>. QED  BY <1>1, <1>4, <1>5, <1>6, <1>7

(* A request under way is pending, with the demand it was called with.     *)
LEMMA UnderWay ==
    ASSUME Inv, NEW r \in Request, pc[r] \notin {"idle", "done"}
    PROVE  /\ Atomic!Pending(r)
           /\ demandBar[r].edit = call[r].edit
           /\ demandBar[r].loaded = call[r].loaded
<1>1. call[r] # NoCall /\ outcome[r] = "none"
  BY DEF Inv, Called, Answered
<1>2. demandBar[r] = [edit |-> call[r].edit, loaded |-> call[r].loaded]
  BY <1>1 DEF demandBar
<1>3. demandBar[r] # NoCall
  BY <1>2, CallType, CallAssumption DEF Inv
<1>. QED  BY <1>1, <1>2, <1>3 DEF Atomic!Pending, outcomeBar

(* The mapped variables move only with the log, the calls and the answers. *)
LEMMA BarsStay ==
    /\ call' = call => demandBar' = demandBar
    /\ outcome' = outcome => outcomeBar' = outcomeBar
    /\ log' = log => Held(Current)' = Held(Current)
  BY DEF demandBar, outcomeBar, Held, Current

(* An answer of Write is an answer to the abstract request.                *)
LEMMA Answers ==
    ASSUME TypeOK, NEW r \in Request, NEW o, Return(r, o)
    PROVE  Atomic!Answer(r, IF o = "unchanged" THEN "saved" ELSE o)
  BY DEF TypeOK, Return, Atomic!Answer, outcomeBar

(* A put that lands takes effect on what the file holds at that moment.    *)
LEMMA LandingTakesEffect ==
    ASSUME Inv, NEW r \in Request, pc[r] = "put", Unmoved(r), Record(r)
    PROVE  /\ Atomic!Permitted(r)
           /\ \E t \in Time :
                /\ Atomic!Objection(demandBar[r].edit, Held(Current), t) = "none"
                /\ Held(Current)'
                     = Atomic!Edited(demandBar[r].edit, Held(Current), t)
<1>1. Fits(r, Held(seen[r]), next[r])
  BY DEF Inv, BuiltOnSeen
<1>2. Held(Current) = Held(seen[r])
  BY SameVersionSameContent DEF Unmoved
<1>3. Held(Current)' = next[r]
  <2>1. [content |-> next[r], by |-> r] \in Version
    BY DEF Inv, TypeOK, Version
  <2>2. log'[Current'] = [content |-> next[r], by |-> r]
    BY <2>1, Appended DEF Inv, Record
  <2>. QED  BY <2>2 DEF Held
<1>4. /\ demandBar[r].edit = call[r].edit
      /\ demandBar[r].loaded = call[r].loaded
  BY UnderWay
<1>5. Atomic!Permitted(r)
  BY <1>1, <1>2, <1>4, SameWords DEF Atomic!Permitted, Fits
<1>. QED  BY <1>1, <1>2, <1>3, <1>4, <1>5, SameWords DEF Fits

(* Every step of the loop is a step of AtomicEdits, or none: the put that  *)
(* lands is where a request takes effect.                                  *)
LEMMA StepSimulation ==
    Inv /\ [Next]_wvars => [Atomic!Next]_(Atomic!vars)
<1> SUFFICES ASSUME Inv, [Next]_wvars
             PROVE  Atomic!Next \/ UNCHANGED Atomic!vars
  OBVIOUS
<1>1. TypeOK /\ Called
  BY DEF Inv
<1>2. ASSUME NEW r \in Request, NEW e \in Asked, NEW base \in 0..Current,
             Start(r, e, base)
      PROVE  Atomic!Next
  <2>1. PICK c \in Call : call' = [call EXCEPT ![r] = c]
    BY <1>1, <1>2, StartedCall
  <2>. DEFINE d == [edit |-> c.edit, loaded |-> c.loaded]
  <2>2. d \in Atomic!Demand
    BY <2>1, SameWords DEF Call
  <2>3. demandBar[r] = NoCall /\ c # NoCall
    BY <1>1, <1>2, CallAssumption DEF Start, Called, demandBar
  <2>4. demandBar' = [demandBar EXCEPT ![r] = d]
    BY <1>1, <2>1, <2>3 DEF demandBar, TypeOK
  <2>5. Held(Current)' = Held(Current) /\ outcomeBar' = outcomeBar
    BY <1>2, BarsStay DEF Start
  <2>. QED  BY <2>2, <2>3, <2>4, <2>5 DEF Atomic!Next, Atomic!Ask
<1>3. ASSUME NEW r \in Request, NEW o \in {"keptChanging", "failed"},
             pc[r] \in {"read", "put"}, Return(r, o), UNCHANGED <<log, call>>
      PROVE  Atomic!TurnDown(r)
  BY <1>1, <1>3, UnderWay, Answers, BarsStay DEF Atomic!TurnDown
<1>4. ASSUME NEW r \in Request, Conflicts(r)
      PROVE  Atomic!TurnDown(r)
  <2>1. ~Atomic!Permitted(r)
    BY <1>4, UnderWay, SameWords DEF Conflicts, Overtaken, Atomic!Permitted
  <2>. QED
    BY <1>1, <1>4, <2>1, UnderWay, Answers, BarsStay
    DEF Conflicts, Atomic!TurnDown
<1>5. ASSUME NEW r \in Request, NEW t \in Time, Applies(r, t)
      PROVE  Atomic!Permitted(r)
  <2>1. ~flagChanged(call[r].loaded, call[r].edit.key, Held(Current))
    BY <1>5, NotOvertaken DEF Applies, Inv
  <2>. QED  BY <1>5, <2>1, UnderWay, SameWords DEF Applies, Atomic!Permitted
<1>6. ASSUME NEW r \in Request, NEW t \in Time, Objects(r, t)
      PROVE  Atomic!TurnDown(r)
  <2>. DEFINE no == Objection(call[r].edit, Held(Current), t)
  <2>1. no # "none" /\ no # "unchanged"
    BY <1>6 DEF Objects, Objection
  <2>2. Atomic!Objection(demandBar[r].edit, Held(Current), t) = no
    BY <1>6, UnderWay, SameWords DEF Objects, Applies
  <2>3. Atomic!Answer(r, no)
    BY <1>1, <1>6, <2>1, Answers DEF Objects
  <2>4. Atomic!Permitted(r) /\ Atomic!Pending(r)
    BY <1>5, <1>6, UnderWay DEF Objects, Applies
  <2>5. UNCHANGED <<Held(Current), demandBar>>
    BY <1>6, BarsStay DEF Objects, Applies
  <2>. QED  BY <2>1, <2>2, <2>3, <2>4, <2>5 DEF Atomic!TurnDown
<1>7. ASSUME NEW r \in Request, NEW t \in Time, NothingToDo(r, t)
      PROVE  Atomic!TakeEffect(r)
  <2>1. /\ Atomic!Objection(demandBar[r].edit, Held(Current), t) = "none"
        /\ Atomic!Edited(demandBar[r].edit, Held(Current), t) = Held(Current)
    BY <1>7, UnderWay, SameWords DEF NothingToDo, Applies
  <2>2. Atomic!Answer(r, "saved")
    BY <1>1, <1>7, Answers DEF NothingToDo
  <2>3. Atomic!Permitted(r) /\ Atomic!Pending(r)
    BY <1>5, <1>7, UnderWay DEF NothingToDo, Applies
  <2>4. UNCHANGED <<Held(Current), demandBar>>
    BY <1>7, BarsStay DEF NothingToDo, Applies
  <2>. QED  BY <2>1, <2>2, <2>3, <2>4 DEF Atomic!TakeEffect
<1>8. ASSUME NEW r \in Request, NEW t \in Time, Builds(r, t)
      PROVE  UNCHANGED Atomic!vars
  BY <1>8, BarsStay DEF Builds, Applies, Atomic!vars
<1>9. ASSUME NEW r \in Request, NEW o \in {"saved", "failed"},
             pc[r] = "put", Unmoved(r), Record(r), Return(r, o), call' = call
      PROVE  Atomic!TakeEffect(r)
  <2>1. Atomic!Answer(r, o)
    BY <1>1, <1>9, Answers
  <2>. QED
    BY <1>9, <2>1, LandingTakesEffect, UnderWay, BarsStay
    DEF Atomic!TakeEffect
<1>10. ASSUME NEW r \in Request, PutRefused(r)
       PROVE  Atomic!TurnDown(r) \/ UNCHANGED Atomic!vars
  <2>1. pc[r] = "put" /\ UNCHANGED <<log, call>>
    BY <1>10 DEF PutRefused
  <2>2. CASE Reread(r)
    BY <2>1, <2>2, BarsStay DEF Reread, Atomic!vars
  <2>3. CASE FallOut(r)
    BY <1>3, <2>1, <2>3 DEF FallOut
  <2>. QED  BY <1>10, <2>2, <2>3 DEF PutRefused, TryAgain
<1>11. ASSUME NEW r \in Request, PutResent(r)
       PROVE  Atomic!TakeEffect(r)
  <2>1. /\ r \in Resending /\ pc[r] = "put" /\ Unmoved(r) /\ Record(r)
        /\ call' = call
    BY <1>11 DEF PutResent
  <2>2. UNCHANGED outcomeBar \/ Atomic!Answer(r, "keptChanging")
    <3>1. CASE Reread(r)
      BY <3>1, BarsStay DEF Reread
    <3>2. CASE FallOut(r)
      BY <1>1, <3>2, Answers DEF FallOut
    <3>. QED  BY <1>11, <3>1, <3>2 DEF PutResent, TryAgain
  <2>. QED
    BY <2>1, <2>2, LandingTakesEffect, UnderWay, BarsStay
    DEF Atomic!TakeEffect
<1>12. ASSUME NEW content \in OutsideContent, EditElsewhere(content)
       PROVE  Atomic!Next
  <2>1. [content |-> content, by |-> Outside] \in Version
    BY BackendAssumption DEF Version
  <2>2. log'[Current'] = [content |-> content, by |-> Outside]
    BY <1>1, <1>12, <2>1, Appended DEF EditElsewhere
  <2>3. Held(Current)' = content /\ content \in Atomic!Content
    BY <2>2, BackendAssumption, SameWords DEF Held
  <2>4. UNCHANGED <<demandBar, outcomeBar>>
    BY <1>12, BarsStay DEF EditElsewhere
  <2>. QED  BY <2>3, <2>4 DEF Atomic!Next, Atomic!EditElsewhere
<1>13. CASE UNCHANGED wvars
  BY <1>13, BarsStay DEF wvars, Atomic!vars
<1>14. ASSUME NEW r \in Request, Write(r)
       PROVE  Atomic!Next \/ UNCHANGED Atomic!vars
  <2>1. CASE ReadFails(r) \/ PutFails(r)
    BY <1>3, <2>1 DEF ReadFails, PutFails, Atomic!Next
  <2>2. CASE PutLands(r) \/ PutLandsUnheard(r)
    BY <1>9, <2>2 DEF PutLands, PutLandsUnheard, Atomic!Next
  <2>. QED
    BY <1>4, <1>6, <1>7, <1>8, <1>10, <1>11, <1>14, <2>1, <2>2
    DEF Write, Atomic!Next
<1>. QED  BY <1>2, <1>12, <1>13, <1>14 DEF Next

(* The read-check-put loop implements AtomicEdits: every request takes     *)
(* effect, or is turned down, as if at one instant.                        *)
THEOREM Refinement == WriteSpec => ImplementsAtomicEdits
<1>1. Init => Atomic!Init
  <2> SUFFICES ASSUME Init PROVE Atomic!Init
    OBVIOUS
  <2>1. Held(Current) \in Atomic!File
    BY SameWords DEF Init, Held, Current
  <2>. QED  BY <2>1 DEF Init, Atomic!Init, demandBar, outcomeBar
<1>2. Inv /\ [Next]_wvars => [Atomic!Next]_(Atomic!vars)
  BY StepSimulation
<1>. QED
  BY <1>1, <1>2, Invariance, PTL
  DEF WriteSpec, ImplementsAtomicEdits, Atomic!Spec
=============================================================================
