----------------------------- MODULE Files_proofs -----------------------------
(***************************************************************************)
(* Proofs about FileBackend, for any number of calls and of flags: that    *)
(* calls that come one at a time always leave a whole file in place, and   *)
(* keep what the calls before them did, wherever the process is killed.    *)
(* And about YamlSplice, for files of any length: that an edit of a flag   *)
(* leaves every other line as and where it is, and what the other flags    *)
(* say.                                                                    *)
(***************************************************************************)
EXTENDS FileBackend, YamlSplice, FiniteSetTheorems, SequenceTheorems, TLAPS

LEMMA EmptyIsContent == Empty \in Content
  BY DEF Empty, Content

LEMMA WithAuthor ==
    ASSUME NEW content \in Content, NEW k \in Key, NEW r \in Request
    PROVE  [content EXCEPT ![k] = r] \in Content
  BY DEF Content, Author

LEMMA FileInitTypes == Init => FileTypeOK
<1> SUFFICES ASSUME Init PROVE FileTypeOK
  OBVIOUS
<1>1. CASE disk = <<>> /\ live = NoFile /\ log = <<>>
  <2>1. disk \in Seq(Bytes) /\ log \in Seq([by : Author, content : Bytes])
    BY <1>1
  <2> QED
    BY <1>1, <2>1, EmptyIsContent DEF Init, FileTypeOK, Outcome
<1>2. ASSUME NEW content \in [Key -> {Original}],
             disk = <<content>>, live = 1,
             log = <<[by |-> Original, content |-> content]>>
      PROVE  FileTypeOK
  <2>1. content \in Bytes
    BY <1>2 DEF Bytes, Content, Author
  <2>2. disk \in Seq(Bytes) /\ live \in DOMAIN disk
    BY <1>2, <2>1
  <2>3. log \in Seq([by : Author, content : Bytes])
    BY <1>2, <2>1 DEF Author
  <2> QED
    BY <2>2, <2>3, EmptyIsContent DEF Init, FileTypeOK, Outcome
<1> QED
  BY <1>1, <1>2 DEF Init

(***************************************************************************)
(* Writing over an inode keeps the disk's type and its length.             *)
(***************************************************************************)
LEMMA Overwritten ==
    ASSUME NEW d \in Seq(Bytes), NEW i, NEW bytes \in Bytes
    PROVE  LET after == [d EXCEPT ![i] = bytes]
           IN  after \in Seq(Bytes) /\ DOMAIN after = DOMAIN d
<1> DEFINE after == [d EXCEPT ![i] = bytes]
<1>1. Len(d) \in Nat /\ d \in [1..Len(d) -> Bytes]
  OBVIOUS
<1>2. after \in [1..Len(d) -> Bytes]
  BY <1>1
<1>3. after \in Seq(Bytes)
  BY <1>1, <1>2 
<1> QED
  BY <1>1, <1>2, <1>3

LEMMA Allocated ==
    ASSUME NEW d \in Seq(Bytes)
    PROVE  LET after == Append(d, Blank)
           IN  /\ after \in Seq(Bytes) /\ Len(after) \in DOMAIN after
               /\ DOMAIN d \subseteq DOMAIN after /\ Len(after) \notin DOMAIN d
               /\ Len(after) \in Nat
               /\ after[Len(after)] = Blank /\ \A i \in DOMAIN d : after[i] = d[i]
  BY DEF Bytes

LEMMA FileStepTypes == FileTypeOK /\ [Next]_fvars => FileTypeOK'
<1> SUFFICES ASSUME FileTypeOK, [Next]_fvars PROVE FileTypeOK'
  OBVIOUS
<1>0. /\ disk \in Seq(Bytes) /\ next \in [Request -> Content] /\ log \in Seq([by: Author, content: Bytes])
      /\ DOMAIN disk \subseteq Nat
  BY DEF FileTypeOK
<1>1. ASSUME NEW r \in Request, Save(r) PROVE FileTypeOK'
  BY <1>1 DEF Save, Goto, FileTypeOK
<1>2. ASSUME NEW r \in Request, CreateFile(r) PROVE FileTypeOK'
  BY <1>2 DEF CreateFile, Goto, FileTypeOK
<1>3. ASSUME NEW r \in Request, NEW content \in Content, Begin(r, content),
             UNCHANGED <<disk, live, tmp, key, shown, fd, log>>
      PROVE  FileTypeOK'
  <2>1. overlapped' \in BOOLEAN
    BY <1>3 DEF Begin, FileTypeOK
  <2> QED
    BY <1>3, <2>1 DEF Begin, Goto, FileTypeOK
<1>4. ASSUME NEW r \in Request, Write(r) PROVE FileTypeOK'
  <2>1. CASE disk[live] \in Content /\ Begin(r, [Base(r) EXCEPT ![key[r]] = r])
    <3>1. key[r] \in Key
      BY DEF FileTypeOK
    <3> QED
      BY <1>3, <1>4, <2>1, <3>1, WithAuthor DEF Write, Base
  <2>2. CASE Return(r, "conflict") /\ UNCHANGED <<next, overlapped>>
    BY <1>4, <2>2 DEF Write, Return, FileTypeOK, Outcome
  <2> QED
    BY <1>4, <2>1, <2>2 DEF Write
<1>5. ASSUME NEW r \in Request, Stat(r) PROVE FileTypeOK'
  <2>1. CASE Begin(r, [Empty EXCEPT ![key[r]] = r])
    <3>1. key[r] \in Key
      BY DEF FileTypeOK
    <3> QED
      BY <1>3, <1>5, <2>1, <3>1, EmptyIsContent, WithAuthor DEF Stat
  <2>2. CASE Return(r, "exists") /\ UNCHANGED <<next, overlapped>>
    BY <1>5, <2>2 DEF Stat, Return, FileTypeOK, Outcome
  <2> QED
    BY <1>5, <2>1, <2>2 DEF Stat
<1>6. ASSUME NEW r \in Request, Open(r) PROVE FileTypeOK'
  <2>1. CASE tmp = NoFile /\ disk' = Append(disk, Blank) /\ tmp' = Len(disk')
             /\ fd' = [fd EXCEPT ![r] = Len(disk')]
    BY <1>0, <1>6, <2>1, Allocated DEF Open, Goto, FileTypeOK
  <2>2. CASE tmp # NoFile /\ disk' = [disk EXCEPT ![tmp] = Blank]
             /\ fd' = [fd EXCEPT ![r] = tmp] /\ UNCHANGED tmp
    <3>1. Blank \in Bytes
      BY DEF Bytes
    <3>2. disk' \in Seq(Bytes) /\ DOMAIN disk' = DOMAIN disk
      BY <1>0, <2>2, <3>1, Overwritten
    <3> QED
      BY <1>0, <1>6, <2>2, <3>2 DEF Open, Goto, FileTypeOK
  <2> QED
    BY <1>6, <2>1, <2>2 DEF Open
<1>7. ASSUME NEW r \in Request, WriteTemp(r) PROVE FileTypeOK'
  <2>1. PICK bytes \in Written(r) : disk' = [disk EXCEPT ![fd[r]] = bytes]
    BY <1>7 DEF WriteTemp
  <2>2. bytes \in Bytes
    BY <1>0, <2>1 DEF Written, Bytes
  <2>3. disk' \in Seq(Bytes) /\ DOMAIN disk' = DOMAIN disk
    BY <1>0, <2>1, <2>2, Overwritten
  <2> QED
    BY <1>7, <2>3 DEF WriteTemp, Goto, FileTypeOK
<1>8. ASSUME NEW r \in Request, WriteTempFails(r) PROVE FileTypeOK'
  <2>1. Mixed \in Bytes
    BY DEF Bytes
  <2>2. disk' \in Seq(Bytes) /\ DOMAIN disk' = DOMAIN disk
    BY <1>0, <1>8, <2>1, Overwritten DEF WriteTempFails
  <2> QED
    BY <1>8, <2>2 DEF WriteTempFails, Return, FileTypeOK, Outcome
<1>9. ASSUME NEW r \in Request, Rename(r) PROVE FileTypeOK'
  <2>1. CASE tmp # NoFile /\ live' = tmp /\ tmp' = NoFile
             /\ log' = Append(log, [by |-> r, content |-> disk[tmp]]) /\ Return(r, "saved")
    <3>1. [by |-> r, content |-> disk[tmp]] \in [by : Author, content : Bytes]
      BY <1>0, <2>1 DEF FileTypeOK, Author
    <3>2. log' \in Seq([by : Author, content : Bytes])
      BY <1>0, <2>1, <3>1
    <3> QED
      BY <1>9, <2>1, <3>2 DEF Rename, Return, FileTypeOK, Outcome
  <2>2. CASE Return(r, "failed") /\ UNCHANGED <<live, tmp, log>>
    BY <1>9, <2>2 DEF Rename, Return, FileTypeOK, Outcome
  <2> QED
    BY <1>9, <2>1, <2>2 DEF Rename
<1>10. CASE Crash
  <2>1. PICK torn : disk' = [i \in DOMAIN disk |-> IF i \in torn THEN Mixed ELSE disk[i]]
    BY <1>10 DEF Crash
  <2>2. disk' \in Seq(Bytes) /\ DOMAIN disk' = DOMAIN disk
    BY <1>0, <2>1 DEF Bytes
  <2> QED
    BY <1>10, <2>2 DEF Crash, FileTypeOK, Outcome
<1>11. CASE UNCHANGED fvars
  BY <1>11 DEF fvars, FileTypeOK
<1> QED
  BY <1>1, <1>2, <1>4, <1>5, <1>6, <1>7, <1>8, <1>9, <1>10, <1>11 DEF Next

(***************************************************************************)
(* The types; nothing is ever open or in place that is not on the disk.    *)
(***************************************************************************)
THEOREM FileTypes == FileSpec => []FileTypeOK
  BY FileInitTypes, FileStepTypes, PTL DEF FileSpec
-----------------------------------------------------------------------------
(***************************************************************************)
(* What holds as long as calls come one at a time.  A call that writes     *)
(* knows what <path>.tmp holds, and it is not the file in place; the next  *)
(* content is one edit away from that file; and the file is what the log   *)
(* says.                                                                   *)
(***************************************************************************)
Temporary(r) ==
    /\ pc[r] = "write" => tmp # NoFile /\ fd[r] = tmp /\ disk[tmp] = Blank
    /\ pc[r] = "rename" => tmp # NoFile /\ disk[tmp] = next[r]
    /\ live # NoFile => \E k \in Key : next[r] = [disk[live] EXCEPT ![k] = r]

InPlace ==
    /\ live # NoFile => /\ disk[live] \in Content
                        /\ log # <<>> /\ log[Len(log)].content = disk[live]
    /\ live = NoFile => log = <<>>

OneAtATime ==
    /\ \A r, s \in UnderWay : r = s
    /\ tmp # NoFile => tmp # live
    /\ \A r \in UnderWay : Temporary(r)
    /\ InPlace
    /\ EditsBuildOn

AloneInv == FileTypeOK /\ (~overlapped => OneAtATime)

LEMMA AloneInit == Init => AloneInv
<1> SUFFICES ASSUME Init PROVE OneAtATime
  BY FileInitTypes DEF AloneInv
<1>1. UnderWay = {} /\ tmp = NoFile
  BY DEF Init, UnderWay
<1>2. CASE disk = <<>> /\ live = NoFile /\ log = <<>>
  BY <1>1, <1>2 DEF OneAtATime, InPlace, EditsBuildOn
<1>3. ASSUME NEW content \in [Key -> {Original}],
             disk = <<content>>, live = 1,
             log = <<[by |-> Original, content |-> content]>>
      PROVE  OneAtATime
  <2>1. content \in Content
    BY DEF Content, Author
  <2>2. InPlace
    BY <1>3, <2>1, FileAssumption DEF InPlace
  <2>3. EditsBuildOn
    BY <1>3 DEF EditsBuildOn
  <2> QED
    BY <1>1, <2>2, <2>3 DEF OneAtATime
<1> QED
  BY <1>2, <1>3 DEF Init

(***************************************************************************)
(* A step that moves no name and no file but the temporary one, and starts *)
(* no call, leaves all but the calls under way as it is.                   *)
(***************************************************************************)
LEMMA OnlyTemporaryMoves ==
    ASSUME OneAtATime, UnderWay' \subseteq UnderWay,
           live' = live, log' = log, next' = next,
           live # NoFile => disk'[live] = disk[live],
           tmp' # NoFile => tmp' # live,
           \A r \in UnderWay' :
             /\ pc'[r] = "write" => tmp' # NoFile /\ fd'[r] = tmp' /\ disk'[tmp'] = Blank
             /\ pc'[r] = "rename" => tmp' # NoFile /\ disk'[tmp'] = next[r]
    PROVE  OneAtATime'
<1>1. InPlace'
  BY DEF OneAtATime, InPlace
<1>2. EditsBuildOn'
  BY DEF OneAtATime, EditsBuildOn
<1>3. ASSUME NEW r \in UnderWay' PROVE Temporary(r)'
  <2>1. r \in UnderWay
    OBVIOUS
  <2>2. Temporary(r)
    BY <2>1 DEF OneAtATime
  <2>3. /\ pc'[r] = "write" => tmp' # NoFile /\ fd'[r] = tmp' /\ disk'[tmp'] = Blank
        /\ pc'[r] = "rename" => tmp' # NoFile /\ disk'[tmp'] = next'[r]
    OBVIOUS
  <2>4. live' # NoFile => \E k \in Key : next'[r] = [disk'[live'] EXCEPT ![k] = r]
    BY <2>2 DEF Temporary
  <2> QED
    BY <2>3, <2>4 DEF Temporary
<1>4. \A r, s \in UnderWay' : r = s
  BY DEF OneAtATime
<1> QED
  BY <1>1, <1>2, <1>3, <1>4 DEF OneAtATime

(***************************************************************************)
(* The first call under way prepares an edit of the file in place.         *)
(***************************************************************************)
LEMMA OneBegins ==
    ASSUME FileTypeOK, ~overlapped => OneAtATime, NEW r \in Request,
           NEW content \in Content, Begin(r, content), ~overlapped',
           UNCHANGED <<disk, live, tmp, key, shown, fd, log>>,
           live # NoFile => \E k \in Key : content = [disk[live] EXCEPT ![k] = r]
    PROVE  OneAtATime'
<1>1. UnderWay = {} /\ OneAtATime
  BY DEF Begin
<1>2. pc'[r] = "open" /\ next'[r] = content
  BY DEF Begin, Goto, FileTypeOK
<1>3. UnderWay' \subseteq {r}
  BY <1>1 DEF UnderWay, Begin, Goto, FileTypeOK
<1>4. Temporary(r)'
  BY <1>2 DEF Temporary
<1>5. InPlace' /\ EditsBuildOn'
  BY <1>1 DEF OneAtATime, InPlace, EditsBuildOn
<1> QED
  BY <1>1, <1>3, <1>4, <1>5 DEF OneAtATime

LEMMA AloneStep == AloneInv /\ [Next]_fvars => AloneInv'
<1> SUFFICES ASSUME AloneInv, [Next]_fvars, ~overlapped' PROVE OneAtATime'
  BY FileStepTypes DEF AloneInv
<1>0. FileTypeOK
  BY DEF AloneInv
<1>1. /\ disk \in Seq(Bytes) /\ next \in [Request -> Content]
      /\ log \in Seq([by: Author, content: Bytes])
      /\ DOMAIN disk = 1..Len(disk) /\ Len(disk) \in Nat
      /\ live # NoFile => live \in DOMAIN disk
      /\ tmp # NoFile => tmp \in DOMAIN disk
  BY <1>0 DEF FileTypeOK
<1>2. ASSUME ~overlapped PROVE OneAtATime
  BY <1>2 DEF AloneInv
<1>3. ASSUME NEW r \in Request, Save(r) \/ CreateFile(r) PROVE OneAtATime'
  <2>1. OneAtATime
    BY <1>2, <1>3 DEF Save, CreateFile
  <2>2. UnderWay' = UnderWay /\ \A s \in UnderWay' : pc'[s] = pc[s]
    BY <1>0, <1>3 DEF Save, CreateFile, Goto, UnderWay, FileTypeOK
  <2> QED
    BY <1>3, <2>1, <2>2, OnlyTemporaryMoves DEF Save, CreateFile, OneAtATime, Temporary
<1>4. ASSUME NEW r \in Request, Return(r, "conflict") \/ Return(r, "exists"),
             pc[r] \in {"read", "stat"},
             UNCHANGED <<disk, live, tmp, next, fd, log, overlapped>>
      PROVE  OneAtATime'
  <2>1. OneAtATime
    BY <1>2, <1>4
  <2>2. UnderWay' = UnderWay /\ \A s \in UnderWay' : pc'[s] = pc[s]
    BY <1>0, <1>4 DEF Return, UnderWay, FileTypeOK
  <2> QED
    BY <1>4, <2>1, <2>2, OnlyTemporaryMoves DEF OneAtATime, Temporary
<1>5. ASSUME NEW r \in Request, Write(r) PROVE OneAtATime'
  <2>1. CASE disk[live] \in Content /\ Begin(r, [Base(r) EXCEPT ![key[r]] = r])
    <3>1. key[r] \in Key
      BY <1>0 DEF FileTypeOK
    <3>2. [Base(r) EXCEPT ![key[r]] = r] \in Content
      BY <2>1, <3>1, WithAuthor DEF Base
    <3> QED
      BY <1>0, <1>2, <1>5, <2>1, <3>1, <3>2, OneBegins DEF Write, Base
  <2>2. CASE Return(r, "conflict") /\ UNCHANGED <<next, overlapped>>
    BY <1>4, <1>5, <2>2 DEF Write
  <2> QED
    BY <1>5, <2>1, <2>2 DEF Write
<1>6. ASSUME NEW r \in Request, Stat(r) PROVE OneAtATime'
  <2>1. CASE live = NoFile /\ Begin(r, [Empty EXCEPT ![key[r]] = r])
    <3>1. key[r] \in Key
      BY <1>0 DEF FileTypeOK
    <3>2. [Empty EXCEPT ![key[r]] = r] \in Content
      BY <3>1, WithAuthor, EmptyIsContent
    <3> QED
      BY <1>0, <1>2, <1>6, <2>1, <3>2, OneBegins DEF Stat
  <2>2. CASE Return(r, "exists") /\ UNCHANGED <<next, overlapped>>
    BY <1>4, <1>6, <2>2 DEF Stat
  <2> QED
    BY <1>6, <2>1, <2>2 DEF Stat
<1>7. ASSUME NEW r \in Request, Open(r) PROVE OneAtATime'
  <2>1. OneAtATime /\ r \in UnderWay
    BY <1>2, <1>7 DEF Open, UnderWay
  <2>2. UnderWay' \subseteq {r} /\ UnderWay' \subseteq UnderWay /\ pc'[r] = "write"
    BY <1>0, <1>7, <2>1 DEF Open, Goto, UnderWay, OneAtATime, FileTypeOK
  <2>3. /\ tmp' # NoFile /\ tmp' # live /\ fd'[r] = tmp' /\ disk'[tmp'] = Blank
        /\ live # NoFile => disk'[live] = disk[live]
    <3>1. CASE tmp = NoFile /\ disk' = Append(disk, Blank) /\ tmp' = Len(disk')
               /\ fd' = [fd EXCEPT ![r] = Len(disk')]
      BY <1>0, <1>1, <3>1, Allocated, FileAssumption DEF FileTypeOK
    <3>2. CASE tmp # NoFile /\ disk' = [disk EXCEPT ![tmp] = Blank]
               /\ fd' = [fd EXCEPT ![r] = tmp] /\ UNCHANGED tmp
      BY <1>0, <1>1, <2>1, <3>2 DEF FileTypeOK, OneAtATime
    <3> QED
      BY <1>7, <3>1, <3>2 DEF Open
  <2> QED
    BY <1>7, <2>1, <2>2, <2>3, OnlyTemporaryMoves DEF Open
<1>8. ASSUME NEW r \in Request, WriteTemp(r) PROVE OneAtATime'
  <2>1. OneAtATime /\ r \in UnderWay
    BY <1>2, <1>8 DEF WriteTemp, UnderWay
  <2>2. tmp # NoFile /\ tmp # live /\ fd[r] = tmp /\ disk[tmp] = Blank
    BY <1>8, <2>1 DEF OneAtATime, Temporary, WriteTemp
  <2>3. UnderWay' \subseteq {r} /\ UnderWay' \subseteq UnderWay /\ pc'[r] = "rename"
    BY <1>0, <1>8, <2>1 DEF WriteTemp, Goto, UnderWay, OneAtATime, FileTypeOK
  <2>4. disk' = [disk EXCEPT ![tmp] = next[r]]
    BY <1>8, <2>2 DEF WriteTemp, Written
  <2>5. disk'[tmp] = next[r] /\ (live # NoFile => disk'[live] = disk[live])
    BY <1>1, <2>2, <2>4
  <2> QED
    BY <1>8, <2>1, <2>2, <2>3, <2>5, OnlyTemporaryMoves DEF WriteTemp
<1>9. ASSUME NEW r \in Request, WriteTempFails(r) PROVE OneAtATime'
  <2>1. OneAtATime /\ r \in UnderWay
    BY <1>2, <1>9 DEF WriteTempFails, UnderWay
  <2>2. tmp # NoFile /\ tmp # live /\ fd[r] = tmp
    BY <1>9, <2>1 DEF OneAtATime, Temporary, WriteTempFails
  <2>3. UnderWay' = {}
    BY <1>0, <1>9, <2>1 DEF WriteTempFails, Return, UnderWay, OneAtATime, FileTypeOK
  <2>4. live # NoFile => disk'[live] = disk[live]
    BY <1>1, <1>9, <2>2 DEF WriteTempFails
  <2> QED
    BY <1>9, <2>1, <2>2, <2>3, <2>4, OnlyTemporaryMoves DEF WriteTempFails
<1>10. ASSUME NEW r \in Request, Rename(r) PROVE OneAtATime'
  <2>1. OneAtATime /\ r \in UnderWay
    BY <1>2, <1>10 DEF Rename, UnderWay
  <2>2. tmp # NoFile /\ disk[tmp] = next[r] /\ next[r] \in Content
    BY <1>1, <1>10, <2>1 DEF OneAtATime, Temporary, Rename
  <2>3. /\ live' = tmp /\ tmp' = NoFile /\ disk' = disk /\ next' = next
        /\ log' = Append(log, [by |-> r, content |-> next[r]])
    BY <1>10, <2>2 DEF Rename
  <2>4. UnderWay' = {}
    BY <1>0, <1>10, <2>1, <2>2 DEF Rename, Return, UnderWay, OneAtATime, FileTypeOK
  <2>5. /\ Len(log) \in Nat /\ Len(log') = Len(log) + 1
        /\ \A i \in 1..Len(log) : log'[i] = log[i]
        /\ log'[Len(log')].by = r /\ log'[Len(log')].content = next[r]
    BY <1>1, <2>3
  <2>6. InPlace'
    BY <2>2, <2>3, <2>5 DEF InPlace
  <2>7. EditsBuildOn'
    <3> SUFFICES ASSUME NEW i \in 2..Len(log')
                 PROVE  \E k \in Key :
                          /\ log'[i - 1].content \in Content
                          /\ log'[i].content = [log'[i - 1].content EXCEPT ![k] = log'[i].by]
      BY DEF EditsBuildOn
    <3>1. CASE i \in 2..Len(log)
      <4>1. log'[i] = log[i] /\ log'[i - 1] = log[i - 1]
        BY <2>5, <3>1
      <4> QED
        BY <2>1, <3>1, <4>1 DEF OneAtATime, EditsBuildOn
    <3>2. CASE i = Len(log')
      <4>1. i - 1 = Len(log) /\ Len(log) \in 1..Len(log) /\ log # <<>>
        BY <2>5, <3>2
      <4>2. live # NoFile /\ log[Len(log)].content = disk[live] /\ disk[live] \in Content
        BY <2>1, <4>1 DEF OneAtATime, InPlace
      <4>3. PICK k \in Key : next[r] = [disk[live] EXCEPT ![k] = r]
        BY <2>1, <4>2 DEF OneAtATime, Temporary
      <4> QED
        BY <2>5, <3>2, <4>1, <4>2, <4>3
    <3> QED
      BY <2>5, <3>1, <3>2
  <2> QED
    BY <2>3, <2>4, <2>6, <2>7 DEF OneAtATime
<1>11. CASE Crash
  <2>1. OneAtATime
    BY <1>2, <1>11 DEF Crash
  <2>2. UnderWay' = {}
    BY <1>0, <1>11 DEF Crash, UnderWay, FileTypeOK
  <2>3. PICK torn \in SUBSET {fd[r] : r \in {w \in Request : pc[w] = "write"}} :
             disk' = [i \in DOMAIN disk |-> IF i \in torn THEN Mixed ELSE disk[i]]
    BY <1>11 DEF Crash
  <2>4. live \notin torn
    BY <2>1 DEF OneAtATime, Temporary, UnderWay
  <2>5. live # NoFile => disk'[live] = disk[live]
    BY <1>1, <2>3, <2>4
  <2> QED
    BY <1>11, <2>1, <2>2, <2>5, OnlyTemporaryMoves DEF Crash, OneAtATime
<1>12. CASE UNCHANGED fvars
  BY <1>2, <1>12 DEF fvars, OneAtATime, Temporary, InPlace, EditsBuildOn, UnderWay
<1> QED
  BY <1>3, <1>5, <1>6, <1>7, <1>8, <1>9, <1>10, <1>11, <1>12 DEF Next

(* AloneInv is an invariant.                                               *)
LEMMA Alone == FileSpec => []AloneInv
  BY AloneInit, AloneStep, PTL DEF FileSpec

(***************************************************************************)
(* Calls that come one at a time leave a whole file in place in every      *)
(* state, whenever the process is killed or the disk is full: writeAtomic  *)
(* writes next to the file and renames.                                    *)
(***************************************************************************)
THEOREM WholeFilesAlone == FileSpec => []WholeWhenAlone
<1>1. AloneInv => WholeWhenAlone
  BY DEF AloneInv, OneAtATime, InPlace, WholeWhenAlone, OnlyWholeFiles
<1> QED
  BY <1>1, Alone, PTL

(***************************************************************************)
(* And each of them builds on the file the one before it left.             *)
(***************************************************************************)
THEOREM NothingLostAlone == FileSpec => []NothingLostWhenAlone
<1>1. AloneInv => NothingLostWhenAlone
  BY DEF AloneInv, OneAtATime, NothingLostWhenAlone
<1> QED
  BY <1>1, Alone, PTL

(***************************************************************************)
(* Both: with one call at a time the file backend is safe.                 *)
(***************************************************************************)
THEOREM SafeAlone == FileSpec => []SafeWhenAlone
<1>1. WholeWhenAlone /\ NothingLostWhenAlone => SafeWhenAlone
  BY DEF SafeWhenAlone
<1> QED
  BY <1>1, WholeFilesAlone, NothingLostAlone, PTL

-------------------------------------------------------------------------------
(***************************************************************************)
(* Least and greatest numbers.                                             *)
(***************************************************************************)
LEMMA LeastOf ==
    ASSUME NEW S \in SUBSET Nat, S # {}
    PROVE  Min(S) \in S /\ \A x \in S : Min(S) <= x
<1>1. \E n \in S : \A m \in S : ~(<<m, n>> \in OpToRel(<, Nat))
  BY NatLessThanWellFounded, WFMin
<1>2. \A m, n \in Nat : <<m, n>> \in OpToRel(<, Nat) <=> m < n
  BY DEF OpToRel
<1>3. PICK n \in S : \A m \in S : ~(m < n)
  BY <1>1, <1>2
<1>4. \A m \in S : n <= m
  BY <1>3
<1>. QED  BY <1>4 DEF Min

LEMMA LeastIs ==
    ASSUME NEW S \in SUBSET Nat, NEW x \in S, \A y \in S : x <= y
    PROVE  Min(S) = x
<1>1. Min(S) \in S /\ Min(S) <= x /\ x <= Min(S)
  BY LeastOf
<1>2. Min(S) \in Nat /\ x \in Nat
  BY <1>1
<1>. QED  BY <1>1, <1>2

LEMMA GreatestOf ==
    ASSUME NEW n \in Nat, NEW S \in SUBSET (0..n), S # {}
    PROVE  Max(S) \in S /\ \A x \in S : x <= Max(S)
<1>. DEFINE T == {n - x : x \in S}
<1>1. T \in SUBSET Nat /\ T # {}
  <2>1. \A x \in S : x \in 0..n
    OBVIOUS
  <2>2. \A x \in S : n - x \in Nat
    BY <2>1
  <2>. QED  BY <2>2
<1>2. PICK t \in T : \A u \in T : t <= u
  <2>. HIDE DEF T
  <2>. QED  BY <1>1, LeastOf
<1>3. PICK x \in S : t = n - x
  BY <1>2
<1>4. ASSUME NEW y \in S PROVE y <= x
  <2>1. n - y \in T
    BY <1>4
  <2>2. n - x <= n - y
    BY <1>2, <1>3, <2>1
  <2>3. x \in 0..n /\ y \in 0..n
    OBVIOUS
  <2>. QED  BY <2>2, <2>3
<1>. QED  BY <1>4 DEF Max

LEMMA GreatestIs ==
    ASSUME NEW n \in Nat, NEW S \in SUBSET (0..n), NEW x \in S, \A y \in S : y <= x
    PROVE  Max(S) = x
<1>1. Max(S) \in S /\ x <= Max(S) /\ Max(S) <= x
  BY GreatestOf
<1>2. Max(S) \in 0..n /\ x \in 0..n
  BY <1>1
<1>. QED  BY <1>1, <1>2

--------------------------------------------------------------------------------
(***************************************************************************)
(* The items of a list at some places.  A place's rank is its number among *)
(* them.                                                                   *)
(***************************************************************************)
LEMMA FinitePlaces ==
    ASSUME NEW n \in Nat, NEW A \in SUBSET (1..n)
    PROVE  IsFiniteSet(A) /\ Cardinality(A) \in Nat
<1>1. IsFiniteSet(1..n)
  BY FS_Interval
<1>2. IsFiniteSet(A)
  BY <1>1, FS_Subset
<1>. QED  BY <1>2, FS_CardinalityType

LEMMA RankType ==
    ASSUME NEW n \in Nat, NEW A \in SUBSET (1..n), NEW i \in A
    PROVE  Rank(A, i) \in 1..Cardinality(A)
<1>. DEFINE B == {j \in A : j <= i}
<1>1. IsFiniteSet(A) /\ Cardinality(A) \in Nat
  BY FinitePlaces
<1>2. IsFiniteSet(B) /\ Cardinality(B) <= Cardinality(A)
  BY <1>1, FS_Subset
<1>3. i \in B
  OBVIOUS
<1>4. Cardinality(B) \in Nat /\ Cardinality(B) # 0
  <2>. HIDE DEF B
  <2>. QED  BY <1>2, <1>3, FS_EmptySet, FS_CardinalityType
<1>5. Rank(A, i) = Cardinality(B)
  BY DEF Rank
<1>. HIDE DEF B
<1>. QED  BY <1>1, <1>2, <1>4, <1>5

LEMMA RankIsMonotone ==
    ASSUME NEW n \in Nat, NEW A \in SUBSET (1..n), NEW i \in A, NEW j \in A, i < j
    PROVE  Rank(A, i) < Rank(A, j)
<1>. DEFINE B == {h \in A : h <= i}
            C == {h \in A : h <= j}
<1>1. B \in SUBSET C /\ j \in C /\ j \notin B
  <2>1. \A h \in A : h \in 1..n
    OBVIOUS
  <2>2. i \in 1..n /\ j \in 1..n
    OBVIOUS
  <2>3. \A h \in A : h <= i => h <= j
    BY <2>1, <2>2
  <2>4. ~(j <= i) /\ j <= j
    BY <2>2
  <2>. QED  BY <2>3, <2>4
<1>2. IsFiniteSet(C)
  BY FinitePlaces, FS_Subset
<1>3. Cardinality(B) <= Cardinality(C) /\ Cardinality(B) # Cardinality(C)
  <2>. HIDE DEF B, C
  <2>. QED  BY <1>1, <1>2, FS_Subset
<1>4. Cardinality(B) \in Nat /\ Cardinality(C) \in Nat
  <2>. HIDE DEF B, C
  <2>. QED  BY <1>1, <1>2, FS_Subset, FS_CardinalityType
<1>5. Rank(A, i) = Cardinality(B) /\ Rank(A, j) = Cardinality(C)
  BY DEF Rank
<1>. HIDE DEF B, C
<1>. QED  BY <1>3, <1>4, <1>5

LEMMA EachRank ==
    ASSUME NEW n \in Nat, NEW A \in SUBSET (1..n), NEW m \in 1..Cardinality(A)
    PROVE  \E i \in A : Rank(A, i) = m
<1>. DEFINE N == Cardinality(A)
            f == [i \in A |-> Rank(A, i)]
<1>1. N \in Nat /\ IsFiniteSet(1..N) /\ Cardinality(1..N) = N
  <2>1. N \in Nat
    BY FinitePlaces
  <2>. HIDE DEF N
  <2>2. IsFiniteSet(1..N) /\ Cardinality(1..N) = IF 1 > N THEN 0 ELSE N - 1 + 1
    BY <2>1, FS_Interval
  <2>. QED  BY <2>1, <2>2
<1>2. f \in [A -> 1..N]
  BY RankType
<1>3. ASSUME NEW i \in A, NEW j \in A, f[i] = f[j] PROVE i = j
  <2>1. Rank(A, i) = Rank(A, j) /\ Rank(A, i) \in 1..N
    BY <1>2, <1>3
  <2>2. ~(i < j) /\ ~(j < i)
    <3>1. i < j => Rank(A, i) < Rank(A, j)
      BY RankIsMonotone
    <3>2. j < i => Rank(A, j) < Rank(A, i)
      BY RankIsMonotone
    <3>3. Rank(A, i) \in Nat /\ ~(Rank(A, i) < Rank(A, i))
      BY <1>1, <2>1
    <3>. QED  BY <2>1, <3>1, <3>2, <3>3
  <2>3. i \in 1..n /\ j \in 1..n
    OBVIOUS
  <2>. QED  BY <2>2, <2>3
<1>4. f \in Injection(A, 1..N)
  BY <1>2, <1>3 DEF Injection, IsInjective
<1>5. f \in Surjection(A, 1..N)
  <2>. HIDE DEF f
  <2>. QED  BY <1>1, <1>4, FS_Injection
<1>. QED  BY <1>5 DEF Surjection

LEMMA KeptItems ==
    ASSUME NEW n \in Nat, NEW A \in SUBSET (1..n), NEW list
    PROVE  /\ Kept(list, A) = [m \in 1..Cardinality(A) |-> Kept(list, A)[m]]
           /\ \A i \in A : Kept(list, A)[Rank(A, i)] = list[i]
<1>1. ASSUME NEW i \in A PROVE Kept(list, A)[Rank(A, i)] = list[i]
  <2>. DEFINE h == CHOOSE j \in A : Rank(A, j) = Rank(A, i)
  <2>1. h \in A /\ Rank(A, h) = Rank(A, i)
    OBVIOUS
  <2>2. h = i
    <3>. HIDE DEF h
    <3>1. Rank(A, i) \in 1..Cardinality(A)
      BY RankType
    <3>2. ~(i < h) /\ ~(h < i)
      BY <2>1, <3>1, RankIsMonotone
    <3>3. i \in 1..n /\ h \in 1..n
      BY <2>1
    <3>. QED  BY <3>2, <3>3
  <2>3. Rank(A, i) \in 1..Cardinality(A)
    BY RankType
  <2>. QED  BY <2>2, <2>3 DEF Kept
<1>2. Kept(list, A) = [m \in 1..Cardinality(A) |-> Kept(list, A)[m]]
  BY DEF Kept
<1>. QED  BY <1>1, <1>2

LEMMA KeptType ==
    ASSUME NEW S, NEW list \in Seq(S), NEW A \in SUBSET DOMAIN list
    PROVE  /\ Kept(list, A) \in Seq(S)
           /\ Len(Kept(list, A)) = Cardinality(A)
           /\ \A m \in 1..Cardinality(A) :
                \E i \in A : Rank(A, i) = m /\ Kept(list, A)[m] = list[i]
<1>1. Len(list) \in Nat /\ A \in SUBSET (1..Len(list))
  OBVIOUS
<1>2. Cardinality(A) \in Nat
  BY <1>1, FinitePlaces
<1>3. ASSUME NEW m \in 1..Cardinality(A)
      PROVE  \E i \in A : Rank(A, i) = m /\ Kept(list, A)[m] = list[i]
  BY <1>1, EachRank, KeptItems
<1>4. \A m \in 1..Cardinality(A) : Kept(list, A)[m] \in S
  BY <1>1, <1>3
<1>5. Kept(list, A) \in [1..Cardinality(A) -> S]
  BY <1>1, <1>4, KeptItems
<1>. QED  BY <1>2, <1>3, <1>5

\* From the places of one list to those of another, in their order.
Matches(map, s, A, t, B) ==
    /\ map \in [A -> B]
    /\ \A b \in B : \E i \in A : map[i] = b
    /\ \A i, j \in A : i < j => map[i] < map[j]
    /\ \A i \in A : t[map[i]] = s[i]

LEMMA MatchIsBijective ==
    ASSUME NEW n \in Nat, NEW A \in SUBSET (1..n),
           NEW m \in Nat, NEW B \in SUBSET (1..m),
           NEW map, NEW s, NEW t, Matches(map, s, A, t, B)
    PROVE  \A i, j \in A : (i <= j <=> map[i] <= map[j]) /\ (map[i] = map[j] => i = j)
<1>. SUFFICES ASSUME NEW i \in A, NEW j \in A
              PROVE  (i <= j <=> map[i] <= map[j]) /\ (map[i] = map[j] => i = j)
  OBVIOUS
<1>1. /\ map[i] \in 1..m /\ map[j] \in 1..m
      /\ i \in 1..n /\ j \in 1..n
  BY DEF Matches
<1>2. i < j => map[i] < map[j]
  BY DEF Matches
<1>3. j < i => map[j] < map[i]
  BY DEF Matches
<1>. QED  BY <1>1, <1>2, <1>3

ArePlaces(A) == \E n \in Nat : A \in SUBSET (1..n)

LEMMA KeptSame ==
    ASSUME NEW A, ArePlaces(A), NEW B, ArePlaces(B),
           NEW map, NEW s, NEW t, Matches(map, s, A, t, B)
    PROVE  Kept(s, A) = Kept(t, B)
<1>a. PICK n \in Nat : A \in SUBSET (1..n)
  BY DEF ArePlaces
<1>b. PICK m \in Nat : B \in SUBSET (1..m)
  BY DEF ArePlaces
<1>. USE <1>a, <1>b
<1>1. map \in [A -> B] /\ \A b \in B : \E i \in A : map[i] = b
  BY DEF Matches
<1>2. \A i, j \in A : (i <= j <=> map[i] <= map[j]) /\ (map[i] = map[j] => i = j)
  BY MatchIsBijective
<1>3. Cardinality(A) = Cardinality(B)
  <2>1. map \in Bijection(A, B)
    BY <1>1, <1>2 DEF Bijection, Injection, IsInjective, Surjection
  <2>. QED  BY <2>1, FinitePlaces, FS_Bijection DEF ExistsBijection
<1>4. ASSUME NEW i \in A PROVE Rank(B, map[i]) = Rank(A, i)
  <2>. DEFINE C == {j \in A : j <= i}
              D == {j \in B : j <= map[i]}
              f == [j \in C |-> map[j]]
  <2>1. f \in [C -> D]
    BY <1>1, <1>2
  <2>2. \A x, y \in C : f[x] = f[y] => x = y
    BY <1>2
  <2>3. ASSUME NEW d \in D PROVE \E j \in C : f[j] = d
    <3>1. PICK j \in A : map[j] = d
      BY <1>1
    <3>2. j \in C
      BY <1>2, <3>1
    <3>. QED  BY <3>1, <3>2
  <2>4. f \in Bijection(C, D)
    BY <2>1, <2>2, <2>3 DEF Bijection, Injection, IsInjective, Surjection
  <2>5. IsFiniteSet(C)
    BY FinitePlaces, FS_Subset
  <2>6. Cardinality(C) = Cardinality(D)
    <3>. HIDE DEF C, D, f
    <3>. QED  BY <2>4, <2>5, FS_Bijection DEF ExistsBijection
  <2>. QED  BY <2>6 DEF Rank
<1>5. ASSUME NEW p \in 1..Cardinality(A) PROVE Kept(s, A)[p] = Kept(t, B)[p]
  <2>1. PICK i \in A : Rank(A, i) = p
    BY EachRank
  <2>2. Kept(s, A)[p] = s[i]
    BY <2>1, KeptItems
  <2>3. Kept(t, B)[p] = t[map[i]]
    <3>1. \A b \in B : Kept(t, B)[Rank(B, b)] = t[b]
      BY KeptItems
    <3>. QED  BY <1>1, <1>4, <2>1, <3>1
  <2>. QED  BY <2>2, <2>3 DEF Matches
<1>. QED  BY <1>3, <1>5, KeptItems

--------------------------------------------------------------------------------
(***************************************************************************)
(* Flags in a text.  A flag's lines are its key and the settings under it. *)
(***************************************************************************)
IsText(s) == s \in Seq(TextLine) /\ IsFlagFile(s)

KeysDiffer(s) == \A i, j \in FlagLines(s) : s[i].name = s[j].name => i = j

Stands(s, k, a, b) ==
    /\ a \in FlagLines(s) /\ s[a].name = k /\ b \in a..Len(s)
    /\ \A i \in (a + 1)..b : s[i].line = "setting"
    /\ b < Len(s) => s[b + 1].line # "setting"

LEMMA Places ==
    ASSUME NEW S, NEW s \in Seq(S)
    PROVE  Len(s) \in Nat /\ DOMAIN s = 1..Len(s) /\ \A i \in 1..Len(s) : s[i] \in S
  OBVIOUS

LEMMA EachStands ==
    ASSUME NEW s, IsText(s), NEW a \in FlagLines(s)
    PROVE  \E b \in a..Len(s) : Stands(s, s[a].name, a, b)
<1>. DEFINE T == {i \in a..Len(s) : \A j \in (a + 1)..i : s[j].line = "setting"}
<1>1. Len(s) \in Nat /\ DOMAIN s = 1..Len(s)
  BY DEF IsText
<1>2. a \in 1..Len(s)
  BY <1>1 DEF FlagLines
<1>3. a \in T /\ T \in SUBSET (0..Len(s))
  BY <1>1, <1>2
<1>4. PICK b \in T : \A i \in T : i <= b
  <2>. HIDE DEF T
  <2>. QED  BY <1>1, <1>3, GreatestOf
<1>5. ASSUME b < Len(s), s[b + 1].line = "setting" PROVE FALSE
  <2>1. b \in a..Len(s) /\ b + 1 \in a..Len(s)
    BY <1>1, <1>2, <1>4, <1>5
  <2>2. ASSUME NEW j \in (a + 1)..(b + 1) PROVE s[j].line = "setting"
    <3>1. j = b + 1 \/ j \in (a + 1)..b
      BY <2>1
    <3>. QED  BY <1>4, <1>5, <3>1
  <2>3. b + 1 \in T
    BY <2>1, <2>2
  <2>4. b + 1 <= b
    BY <1>4, <2>3
  <2>. QED  BY <2>1, <2>4
<1>. QED  BY <1>4, <1>5 DEF Stands

LEMMA NothingBetweenFlags ==
    ASSUME NEW s, IsText(s), NEW k, NEW a, NEW b, Stands(s, k, a, b),
           NEW e \in b..Len(s), \A i \in (b + 1)..e : s[i].line # "flag"
    PROVE  \A i \in (b + 1)..e : IsBlankOrComment(s[i])
<1>. DEFINE T == {i \in (b + 1)..e : s[i].line = "setting"}
<1>1. Len(s) \in Nat /\ DOMAIN s = 1..Len(s) /\ \A i \in 1..Len(s) : s[i] \in TextLine
  BY Places DEF IsText
<1>2. a \in 1..Len(s) /\ b \in a..Len(s)
  BY <1>1 DEF Stands, FlagLines
<1>3. T = {}
  <2>1. SUFFICES ASSUME T # {} PROVE FALSE
    OBVIOUS
  <2>2. T \in SUBSET Nat
    BY <1>1, <1>2
  <2>3. PICK i \in T : \A j \in T : i <= j
    <3>. HIDE DEF T
    <3>. QED  BY <2>1, <2>2, LeastOf
  <2>4. i \in (b + 1)..e /\ s[i].line = "setting"
    BY <2>3
  <2>5. i # b + 1
    BY <1>1, <1>2, <2>4 DEF Stands
  <2>6. i \in 1..Len(s) /\ i - 1 \in (b + 1)..e
    BY <1>1, <1>2, <2>4, <2>5
  <2>7. s[i - 1].line \in {"flag", "setting"}
    BY <1>1, <2>4, <2>6 DEF IsText, IsFlagFile
  <2>8. i - 1 \in T
    BY <2>6, <2>7
  <2>9. i <= i - 1
    BY <2>3, <2>8
  <2>. QED  BY <2>6, <2>9
<1>4. ASSUME NEW i \in (b + 1)..e PROVE IsBlankOrComment(s[i])
  <2>1. i \in 1..Len(s)
    BY <1>1, <1>2
  <2>2. s[i].line \in {"flag", "setting", "blank", "comment"}
    BY <1>1, <2>1 DEF TextLine
  <2>. QED  BY <1>3, <1>4, <2>2 DEF IsBlankOrComment
<1>. QED  BY <1>4

LEMMA BlockIs ==
    ASSUME NEW s, IsText(s), KeysDiffer(s),
           NEW k, NEW a, NEW b, Stands(s, k, a, b)
    PROVE  Start(s, k) = a /\ BlockOf(s, k) = a..b
<1>1. Len(s) \in Nat /\ DOMAIN s = 1..Len(s)
  BY DEF IsText
<1>2. a \in 1..Len(s) /\ b \in a..Len(s) /\ a \in FlagLines(s) /\ s[a].name = k
  BY <1>1 DEF Stands, FlagLines
<1>3. Start(s, k) = a
  BY <1>2 DEF Start, KeysDiffer
<1>. DEFINE after == {i \in FlagLines(s) : i > a}
            end == IF after = {} THEN Len(s) ELSE Min(after) - 1
            T == {i \in a..end : ~IsBlankOrComment(s[i])}
<1>4. BlockOf(s, k) = a..Max(T)
  BY <1>3 DEF BlockOf
<1>5. \A i \in after : i \in (b + 1)..Len(s)
  BY <1>1, <1>2 DEF Stands, FlagLines
<1>6. end \in b..Len(s) /\ \A i \in (b + 1)..end : s[i].line # "flag"
  <2>1. CASE after = {}
    <3>1. \A i \in (b + 1)..Len(s) : i \in DOMAIN s /\ i > a
      BY <1>1, <1>2
    <3>2. \A i \in (b + 1)..Len(s) : s[i].line # "flag"
      BY <2>1, <3>1 DEF FlagLines
    <3>. QED  BY <1>1, <1>2, <2>1, <3>2
  <2>2. CASE after # {}
    <3>1. after \in SUBSET Nat
      <4>. HIDE DEF after
      <4>1. \A i \in (b + 1)..Len(s) : i \in Nat
        BY <1>1, <1>2
      <4>. QED  BY <1>5, <4>1
    <3>2. Min(after) \in after /\ \A i \in after : Min(after) <= i
      <4>. HIDE DEF after
      <4>. QED  BY <2>2, <3>1, LeastOf
    <3>3. end = Min(after) - 1
      BY <2>2
    <3>. HIDE DEF end
    <3>4. Min(after) \in (b + 1)..Len(s)
      BY <1>5, <3>2
    <3>5. ASSUME NEW i \in (b + 1)..end, s[i].line = "flag" PROVE FALSE
      <4>1. i \in 1..Len(s) /\ i > a /\ i < Min(after)
        BY <1>1, <1>2, <3>3, <3>4
      <4>2. i \in after
        BY <1>1, <3>5, <4>1 DEF FlagLines
      <4>3. Min(after) <= i
        BY <3>2, <4>2
      <4>. QED  BY <1>1, <1>2, <3>4, <4>1, <4>3
    <3>. QED  BY <1>1, <1>2, <3>3, <3>4, <3>5
  <2>. QED  BY <2>1, <2>2
<1>. HIDE DEF end
<1>7. \A i \in (b + 1)..end : IsBlankOrComment(s[i])
  BY <1>6, NothingBetweenFlags
<1>8. ~IsBlankOrComment(s[b])
  <2>1. b = a \/ b \in (a + 1)..b
    BY <1>1, <1>2
  <2>2. s[b].line \in {"flag", "setting"}
    BY <2>1 DEF Stands, FlagLines
  <2>. QED  BY <2>2 DEF IsBlankOrComment
<1>9. T \in SUBSET (0..Len(s)) /\ b \in T
  BY <1>1, <1>2, <1>6, <1>8
<1>10. \A i \in T : i <= b
  <2>1. SUFFICES ASSUME NEW i \in T, ~(i <= b) PROVE FALSE
    OBVIOUS
  <2>2. i \in a..end /\ ~IsBlankOrComment(s[i])
    BY <2>1
  <2>3. i \in (b + 1)..end
    BY <1>1, <1>2, <1>6, <2>1, <2>2
  <2>. QED  BY <1>7, <2>2, <2>3
<1>11. Max(T) = b
  <2>. HIDE DEF T
  <2>. QED  BY <1>1, <1>9, <1>10, GreatestIs
<1>. QED  BY <1>3, <1>4, <1>11

LEMMA TheirsAre ==
    ASSUME NEW s, IsText(s), NEW k, NEW a, NEW b, Stands(s, k, a, b),
           NEW keys, \A f \in FlagLines(s) : s[f].name \in keys <=> f = a,
           NEW i \in DOMAIN s
    PROVE  IsTheirs(s, i, keys) <=> i \in a..b
<1>1. Len(s) \in Nat /\ DOMAIN s = 1..Len(s) /\ \A j \in FlagLines(s) : j \in 1..Len(s)
  BY DEF IsText, FlagLines
<1>2. a \in 1..Len(s) /\ b \in a..Len(s) /\ a \in FlagLines(s) /\ s[a].name = k
  BY <1>1 DEF Stands, FlagLines
<1>3. ASSUME i \in a..b PROVE IsTheirs(s, i, keys)
  <2>1. i = a \/ i \in (a + 1)..b
    BY <1>1, <1>2, <1>3
  <2>2. s[i].line \in {"flag", "setting"}
    BY <2>1 DEF Stands, FlagLines
  <2>3. ASSUME NEW h \in FlagLines(s) PROVE h <= a \/ i < h
    <3>1. h \in 1..Len(s) /\ h \notin (a + 1)..b
      BY <1>1 DEF Stands, FlagLines
    <3>. QED  BY <1>1, <1>2, <1>3, <3>1
  <2>. QED  BY <1>1, <1>2, <1>3, <2>2, <2>3 DEF IsTheirs
<1>4. ASSUME IsTheirs(s, i, keys) PROVE i \in a..b
  <2>1. /\ a <= i /\ s[i].line \in {"flag", "setting"}
        /\ \A h \in FlagLines(s) : h <= a \/ i < h
    BY <1>4 DEF IsTheirs
  <2>2. i \in 1..Len(s)
    BY <1>1
  <2>3. ASSUME i > b PROVE FALSE
    <3>1. i \in b..Len(s) /\ i \in (b + 1)..i
      BY <1>1, <1>2, <2>2, <2>3
    <3>2. ASSUME NEW h \in (b + 1)..i PROVE s[h].line # "flag"
      <4>1. h \in 1..Len(s) /\ ~(h <= a) /\ ~(i < h)
        BY <1>1, <1>2, <2>2, <2>3
      <4>. QED  BY <1>1, <2>1, <4>1 DEF FlagLines
    <3>3. IsBlankOrComment(s[i])
      BY <3>1, <3>2, NothingBetweenFlags
    <3>. QED  BY <2>1, <3>3 DEF IsBlankOrComment
  <2>. QED  BY <1>1, <1>2, <2>1, <2>2, <2>3
<1>. QED  BY <1>3, <1>4

--------------------------------------------------------------------------------
(***************************************************************************)
(* Replacing lines a..b of s by lines a..c of t.  What stands elsewhere    *)
(* keeps its order; Moved is where it goes.                                *)
(***************************************************************************)
Replaces(s, t, a, b, c) ==
    /\ a \in 1..(Len(s) + 1) /\ b \in (a - 1)..Len(s)
    /\ c \in (a - 1)..Len(t) /\ Len(t) - c = Len(s) - b
    /\ \A i \in 1..(a - 1) : t[i] = s[i]
    /\ \A i \in (b + 1)..Len(s) : t[i + (c - b)] = s[i]

Moved(a, b, c, i) == IF i < a THEN i ELSE i + (c - b)

PutAt(t, a, new) == \A m \in 1..Len(new) : t[a - 1 + m] = new[m]

Elsewhere(s, a, b) == 1..(a - 1) \cup (b + 1)..Len(s)

Pieced(s, a, b, new) == SubSeq(s, 1, a - 1) \o new \o SubSeq(s, b + 1, Len(s))

LEMMA PiecedIs ==
    ASSUME NEW S, NEW s \in Seq(S), NEW new \in Seq(S),
           NEW a \in 1..(Len(s) + 1), NEW b \in (a - 1)..Len(s)
    PROVE  LET t == Pieced(s, a, b, new)
               c == a - 1 + Len(new)
           IN  t \in Seq(S) /\ Replaces(s, t, a, b, c) /\ PutAt(t, a, new)
<1>. DEFINE t == Pieced(s, a, b, new)
            c == a - 1 + Len(new)
            before == SubSeq(s, 1, a - 1)
            after == SubSeq(s, b + 1, Len(s))
<1>1. Len(s) \in Nat /\ Len(new) \in Nat /\ \A i \in 1..Len(s) : s[i] \in S
  OBVIOUS
<1>3. t = before \o new \o after
  BY DEF Pieced
<1>4. /\ before \in Seq(S) /\ Len(before) = a - 1
      /\ \A i \in 1..(a - 1) : before[i] = s[i]
  <2>1. \A i \in 1..(a - 1) : s[i] \in S
    BY <1>1
  <2>2. /\ before \in Seq(S) /\ Len(before) = IF 1 <= a - 1 THEN a - 1 - 1 + 1 ELSE 0
        /\ \A i \in 1..(a - 1 - 1 + 1) : before[i] = s[1 + i - 1]
    BY <1>1, <2>1, SubSeqProperties
  <2>3. \A i \in 1..(a - 1) : i \in 1..(a - 1 - 1 + 1) /\ 1 + i - 1 = i
    BY <1>1
  <2>. QED  BY <1>1, <2>2, <2>3
<1>5. /\ after \in Seq(S) /\ Len(after) = Len(s) - b
      /\ \A i \in 1..(Len(s) - b) : after[i] = s[b + i]
  <2>1. \A i \in (b + 1)..Len(s) : s[i] \in S
    BY <1>1
  <2>2. /\ after \in Seq(S)
        /\ Len(after) = IF b + 1 <= Len(s) THEN Len(s) - (b + 1) + 1 ELSE 0
        /\ \A i \in 1..(Len(s) - (b + 1) + 1) : after[i] = s[b + 1 + i - 1]
    BY <1>1, <2>1, SubSeqProperties
  <2>3. \A i \in 1..(Len(s) - b) : i \in 1..(Len(s) - (b + 1) + 1) /\ b + 1 + i - 1 = b + i
    BY <1>1
  <2>. QED  BY <1>1, <2>2, <2>3
<1>. HIDE DEF before, after, t
<1>6. /\ before \o new \in Seq(S) /\ Len(before \o new) = c
      /\ \A i \in 1..c : (before \o new)[i] = IF i <= a - 1 THEN before[i] ELSE new[i - (a - 1)]
  <2>1. /\ before \o new \in Seq(S) /\ Len(before \o new) = Len(before) + Len(new)
        /\ \A i \in 1..(Len(before) + Len(new)) :
             (before \o new)[i] = IF i <= Len(before) THEN before[i] ELSE new[i - Len(before)]
    BY <1>4, ConcatProperties
  <2>2. Len(before) = a - 1 /\ Len(before) + Len(new) = c
    BY <1>1, <1>4
  <2>. HIDE DEF c
  <2>. QED  BY <2>1, <2>2
<1>7. /\ t \in Seq(S) /\ Len(t) = c + (Len(s) - b)
      /\ \A i \in 1..Len(t) : t[i] = IF i <= c THEN (before \o new)[i] ELSE after[i - c]
  <2>. DEFINE front == before \o new
  <2>1. front \in Seq(S) /\ Len(front) = c /\ t = front \o after
    BY <1>3, <1>6
  <2>. HIDE DEF front
  <2>2. /\ front \o after \in Seq(S)
        /\ Len(front \o after) = Len(front) + Len(after)
        /\ \A i \in 1..(Len(front) + Len(after)) :
             (front \o after)[i] = IF i <= Len(front) THEN front[i] ELSE after[i - Len(front)]
    <3>1. front \in Seq(S) /\ after \in Seq(S)
      BY <1>5, <2>1
    <3>. QED  BY <3>1, ConcatProperties
  <2>. HIDE DEF c
  <2>3. /\ t \in Seq(S) /\ Len(t) = c + (Len(s) - b)
        /\ \A i \in 1..Len(t) : t[i] = IF i <= c THEN front[i] ELSE after[i - c]
    BY <1>5, <2>1, <2>2
  <2>. QED  BY <2>3 DEF front
<1>8. ASSUME NEW i \in 1..(a - 1) PROVE t[i] = s[i]
  <2>1. i \in 1..Len(t) /\ i \in 1..c /\ i <= c /\ i <= a - 1
    BY <1>1, <1>7
  <2>. QED  BY <1>4, <1>6, <1>7, <2>1
<1>9. ASSUME NEW m \in 1..Len(new) PROVE t[a - 1 + m] = new[m]
  <2>1. /\ a - 1 + m \in 1..Len(t) /\ a - 1 + m \in 1..c /\ a - 1 + m <= c
        /\ ~(a - 1 + m <= a - 1) /\ a - 1 + m - (a - 1) = m
    BY <1>1, <1>7
  <2>2. t[a - 1 + m] = (before \o new)[a - 1 + m]
    BY <1>7, <2>1
  <2>3. (before \o new)[a - 1 + m] = new[a - 1 + m - (a - 1)]
    BY <1>6, <2>1
  <2>. QED  BY <2>1, <2>2, <2>3
<1>10. ASSUME NEW i \in (b + 1)..Len(s) PROVE t[i + (c - b)] = s[i]
  <2>1. c \in Nat
    BY <1>1
  <2>. HIDE DEF c
  <2>2. PICK j \in 1..(Len(s) - b) : j = i - b
    BY <1>1
  <2>3. PICK p \in 1..Len(t) : p = c + j
    <3>1. c + j \in 1..Len(t)
      BY <1>1, <1>7, <2>1
    <3>. QED  BY <3>1
  <2>4. t[p] = after[j]
    <3>1. t[p] = after[p - c]
      BY <1>1, <1>7, <2>1, <2>3
    <3>2. p - c = j
      BY <1>1, <2>1, <2>3
    <3>. QED  BY <3>1, <3>2
  <2>5. after[j] = s[b + j]
    BY <1>5
  <2>6. p = i + (c - b) /\ b + j = i
    BY <1>1, <2>1, <2>2, <2>3
  <2>. QED  BY <2>4, <2>5, <2>6
<1>11. Replaces(s, t, a, b, c)
  BY <1>1, <1>7, <1>8, <1>10 DEF Replaces
<1>12. PutAt(t, a, new)
  BY <1>9 DEF PutAt
<1>. QED  BY <1>7, <1>11, <1>12 DEF t

LEMMA SplicedIs ==
    ASSUME NEW S, NEW s \in Seq(S), NEW new, NEW a \in 1..Len(s), NEW b \in a..Len(s)
    PROVE  Splice(s, a..b, new) = Pieced(s, a, b, new)
<1>1. Len(s) \in Nat
  OBVIOUS
<1>2. a..b \in SUBSET Nat /\ a..b \in SUBSET (0..Len(s)) /\ a \in a..b /\ b \in a..b
  BY <1>1
<1>3. (\A y \in a..b : a <= y) /\ (\A y \in a..b : y <= b)
  BY <1>1
<1>4. Min(a..b) = a /\ Max(a..b) = b
  BY <1>1, <1>2, <1>3, LeastIs, GreatestIs
<1>. QED  BY <1>4 DEF Splice, Pieced

LEMMA MovedIs ==
    ASSUME NEW s, NEW t, NEW a, NEW b, NEW c, Len(s) \in Nat, Len(t) \in Nat,
           Replaces(s, t, a, b, c)
    PROVE  /\ \A i \in Elsewhere(s, a, b) :
                /\ i \in 1..Len(s) /\ i \notin a..b
                /\ Moved(a, b, c, i) \in 1..Len(t) /\ Moved(a, b, c, i) \notin a..c
                /\ t[Moved(a, b, c, i)] = s[i]
           /\ \A i, j \in Elsewhere(s, a, b) :
                i < j <=> Moved(a, b, c, i) < Moved(a, b, c, j)
           /\ \A m \in 1..Len(t) : m \notin a..c =>
                \E i \in Elsewhere(s, a, b) : Moved(a, b, c, i) = m
<1>. USE DEF Replaces, Moved, Elsewhere
<1>1. ASSUME NEW i \in Elsewhere(s, a, b)
      PROVE  /\ i \in 1..Len(s) /\ i \notin a..b
             /\ Moved(a, b, c, i) \in 1..Len(t) /\ Moved(a, b, c, i) \notin a..c
             /\ t[Moved(a, b, c, i)] = s[i]
  <2>1. CASE i \in 1..(a - 1)
    BY <2>1
  <2>2. CASE i \in (b + 1)..Len(s)
    <3>1. ~(i < a)
      BY <2>2
    <3>. QED  BY <2>2, <3>1
  <2>. QED  BY <2>1, <2>2
<1>2. ASSUME NEW i \in Elsewhere(s, a, b), NEW j \in Elsewhere(s, a, b)
      PROVE  i < j <=> Moved(a, b, c, i) < Moved(a, b, c, j)
  OBVIOUS
<1>3. ASSUME NEW m \in 1..Len(t), m \notin a..c
      PROVE  \E i \in Elsewhere(s, a, b) : Moved(a, b, c, i) = m
  <2>1. CASE m < a
    <3>1. m \in Elsewhere(s, a, b) /\ Moved(a, b, c, m) = m
      BY <2>1
    <3>. QED  BY <3>1
  <2>2. CASE ~(m < a)
    <3>1. m - (c - b) \in (b + 1)..Len(s) /\ ~(m - (c - b) < a)
      BY <1>3, <2>2
    <3>2. m - (c - b) \in Elsewhere(s, a, b) /\ Moved(a, b, c, m - (c - b)) = m
      BY <3>1
    <3>. QED  BY <3>2
  <2>. QED  BY <2>1, <2>2
<1>. QED  BY <1>1, <1>2, <1>3

\* What is not about the flags of keys stays as it is, if these are the lines
\* that are replaced and those that replace them.
LEMMA WithoutReplaced ==
    ASSUME NEW s, NEW t, DOMAIN s = 1..Len(s), DOMAIN t = 1..Len(t),
           Len(s) \in Nat, Len(t) \in Nat,
           NEW a, NEW b, NEW c, Replaces(s, t, a, b, c), NEW keys,
           \A i \in 1..Len(s) : IsTheirs(s, i, keys) <=> i \in a..b,
           \A i \in 1..Len(t) : IsTheirs(t, i, keys) <=> i \in a..c
    PROVE  Without(s, keys) = Without(t, keys)
<1>. DEFINE m(i) == Moved(a, b, c, i)
            A == {i \in 1..Len(s) : i \notin a..b}
            B == {i \in 1..Len(t) : i \notin a..c}
            C == {i \in A : \E j \in A : i <= j /\ s[j].line # "blank"}
            D == {i \in B : \E j \in B : i <= j /\ t[j].line # "blank"}
            map == [i \in C |-> m(i)]
<1>1. A = Elsewhere(s, a, b)
  BY DEF Elsewhere, Replaces
<1>2. /\ \A i \in A : m(i) \in B /\ t[m(i)] = s[i] /\ i \in 1..Len(s)
      /\ \A i, j \in A : i < j <=> m(i) < m(j)
      /\ \A n \in B : \E i \in A : m(i) = n
  BY <1>1, MovedIs
<1>3. Without(s, keys) = Kept(s, C)
  <2>1. A = {i \in DOMAIN s : ~IsTheirs(s, i, keys)}
    OBVIOUS
  <2>. QED  BY <2>1 DEF Without
<1>4. Without(t, keys) = Kept(t, D)
  <2>1. B = {i \in DOMAIN t : ~IsTheirs(t, i, keys)}
    OBVIOUS
  <2>. QED  BY <2>1 DEF Without
<1>5. \A i, j \in A : i <= j <=> m(i) <= m(j)
  <2>. HIDE DEF m
  <2>1. SUFFICES ASSUME NEW i \in A, NEW j \in A PROVE i <= j <=> m(i) <= m(j)
    OBVIOUS
  <2>2. m(i) \in 1..Len(t) /\ m(j) \in 1..Len(t) /\ i \in 1..Len(s) /\ j \in 1..Len(s)
    BY <1>2
  <2>3. (i < j <=> m(i) < m(j)) /\ (j < i <=> m(j) < m(i))
    BY <1>2
  <2>. QED  BY <2>2, <2>3
<1>6. Matches(map, s, C, t, D)
  <2>. HIDE DEF m, A, B
  <2>1. ASSUME NEW i \in C PROVE m(i) \in D
    <3>1. PICK j \in A : i <= j /\ s[j].line # "blank"
      OBVIOUS
    <3>2. m(i) \in B /\ m(j) \in B /\ m(i) <= m(j) /\ t[m(j)].line # "blank"
      BY <1>2, <1>5, <3>1
    <3>. QED  BY <3>2
  <2>2. ASSUME NEW d \in D PROVE \E i \in C : m(i) = d
    <3>1. PICK e \in B : d <= e /\ t[e].line # "blank"
      OBVIOUS
    <3>2. PICK i \in A : m(i) = d
      BY <1>2
    <3>3. PICK j \in A : m(j) = e
      BY <1>2
    <3>4. i <= j /\ s[j].line # "blank"
      BY <1>2, <1>5, <3>1, <3>2, <3>3
    <3>5. i \in C
      BY <3>4
    <3>. QED  BY <3>2, <3>5
  <2>3. map \in [C -> D]
    BY <2>1
  <2>4. \A d \in D : \E i \in C : map[i] = d
    BY <2>2
  <2>5. \A i, j \in C : i < j => map[i] < map[j]
    BY <1>2
  <2>6. \A i \in C : t[map[i]] = s[i]
    BY <1>2
  <2>. QED  BY <2>3, <2>4, <2>5, <2>6 DEF Matches
<1>7. C \in SUBSET (1..Len(s)) /\ D \in SUBSET (1..Len(t))
  OBVIOUS
<1>8. Kept(s, C) = Kept(t, D)
  <2>. HIDE DEF map, C, D, A, B, m
  <2>1. ArePlaces(C) /\ ArePlaces(D)
    BY <1>7 DEF ArePlaces
  <2>. QED  BY <1>6, <2>1, KeptSame
<1>. QED  BY <1>3, <1>4, <1>8

--------------------------------------------------------------------------------
(***************************************************************************)
(* An edit: lines a..b of s are replaced by lines a..c of t, which are a   *)
(* flag's, and what has an anchor among them had it before.                *)
(***************************************************************************)
LineFits(t, i) ==
    /\ t[i].line = "flag" => t[i].name \in FlagKeys
    /\ t[i].line = "setting" =>
         /\ t[i].name \in ToSet(Settings) \cup {"<<"}
         /\ t[i].name = "<<" => t[i].form = "alias"

SameMark(x, y) == x.form = y.form /\ x.anchor = y.anchor /\ x.value = y.value

IsMerge(line) == line.line = "setting" /\ line.name = "<<"

AnchorsStem(s, t, a, b, c) ==
    \E from : \A p \in a..c : t[p].form = "anchor" =>
                \E i \in a..b : from[i] = p /\ SameMark(s[i], t[p])

Edits(s, t, a, b, c) ==
    /\ Replaces(s, t, a, b, c)
    /\ a <= b => s[a].line # "setting"
    /\ b < Len(s) => s[b + 1].line # "setting"
    /\ a <= c => t[a].line # "setting"
    /\ a < c => t[a].line = "flag"
    /\ \A i \in (a + 1)..c : t[i].line = "setting"
    /\ \A i \in a..c : LineFits(t, i)
    /\ AnchorsStem(s, t, a, b, c)
    /\ (\E i \in a..c : IsMerge(t[i])) => (\E i \in a..b : IsMerge(s[i]))

LEMMA EditedIsText ==
    ASSUME NEW s, IsText(s), NEW t, t \in Seq(TextLine),
           NEW a, NEW b, NEW c, Edits(s, t, a, b, c)
    PROVE  IsText(t)
<1>1. /\ Len(s) \in Nat /\ DOMAIN s = 1..Len(s)
      /\ Len(t) \in Nat /\ DOMAIN t = 1..Len(t)
  BY DEF IsText
<1>2. Replaces(s, t, a, b, c)
  BY DEF Edits
<1>3. ASSUME NEW i \in 1..Len(t) PROVE LineFits(t, i)
  <2>1. CASE i \in a..c
    BY <2>1 DEF Edits
  <2>2. CASE i \notin a..c
    <3>1. PICK j \in Elsewhere(s, a, b) : Moved(a, b, c, j) = i
      BY <1>1, <1>2, <2>2, MovedIs
    <3>2. j \in DOMAIN s /\ t[i] = s[j]
      BY <1>1, <1>2, <3>1, MovedIs
    <3>. QED  BY <3>2 DEF IsText, IsFlagFile, LineFits
  <2>. QED  BY <2>1, <2>2
<1>4. ASSUME NEW i \in 1..Len(t), t[i].line = "setting"
      PROVE  i > 1 /\ t[i - 1].line \in {"flag", "setting"}
  <2>1. CASE i \in a..c
    <3>1. i # a /\ t[a].line = "flag"
      BY <1>1, <1>2, <1>4, <2>1 DEF Edits, Replaces
    <3>2. i - 1 = a \/ i - 1 \in (a + 1)..c
      BY <1>1, <1>2, <2>1, <3>1 DEF Replaces
    <3>3. i > 1
      BY <1>1, <1>2, <2>1, <3>1 DEF Replaces
    <3>. QED  BY <3>1, <3>2, <3>3 DEF Edits
  <2>2. CASE i \notin a..c
    <3>1. PICK j \in Elsewhere(s, a, b) : Moved(a, b, c, j) = i
      BY <1>1, <1>2, <2>2, MovedIs
    <3>2. j \in 1..Len(s) /\ t[i] = s[j]
      BY <1>1, <1>2, <3>1, MovedIs
    <3>3. j > 1 /\ s[j - 1].line \in {"flag", "setting"}
      BY <1>1, <1>4, <3>2 DEF IsText, IsFlagFile
    <3>4. j # b + 1
      BY <1>1, <1>2, <1>4, <3>2 DEF Edits, Replaces
    <3>5. j - 1 \in Elsewhere(s, a, b) /\ Moved(a, b, c, j - 1) = i - 1
      <4>1. a \in 1..(Len(s) + 1) /\ b \in (a - 1)..Len(s) /\ c \in (a - 1)..Len(t)
        BY <1>2 DEF Replaces
      <4>2. j \in 1..(a - 1) \/ j \in (b + 1)..Len(s)
        BY <3>1 DEF Elsewhere
      <4>3. CASE j \in 1..(a - 1)
        BY <1>1, <3>1, <3>3, <4>1, <4>3 DEF Elsewhere, Moved
      <4>4. CASE j \in (b + 1)..Len(s)
        <5>1. j - 1 \in (b + 1)..Len(s) /\ ~(j - 1 < a) /\ ~(j < a)
          BY <1>1, <3>4, <4>1, <4>4
        <5>. QED  BY <1>1, <3>1, <4>1, <5>1 DEF Elsewhere, Moved
      <4>. QED  BY <4>2, <4>3, <4>4
    <3>. QED  BY <1>1, <1>2, <3>3, <3>5, MovedIs
  <2>. QED  BY <2>1, <2>2
<1>. QED  BY <1>1, <1>3, <1>4 DEF IsText, IsFlagFile, LineFits

LEMMA EditedElsewhere ==
    ASSUME NEW s, IsText(s), NEW t, IsText(t),
           NEW a, NEW b, NEW c, Edits(s, t, a, b, c)
    PROVE  /\ \A i \in Elsewhere(s, a, b) :
                /\ i \in DOMAIN s /\ i \notin a..b
                /\ Moved(a, b, c, i) \in DOMAIN t /\ Moved(a, b, c, i) \notin a..c
                /\ t[Moved(a, b, c, i)] = s[i]
           /\ \A i, j \in Elsewhere(s, a, b) :
                /\ i < j <=> Moved(a, b, c, i) < Moved(a, b, c, j)
                /\ i <= j <=> Moved(a, b, c, i) <= Moved(a, b, c, j)
           /\ \A p \in DOMAIN t : p \notin a..c =>
                \E i \in Elsewhere(s, a, b) : Moved(a, b, c, i) = p
           /\ \A i \in DOMAIN s : i \notin a..b => i \in Elsewhere(s, a, b)
<1>1. /\ Len(s) \in Nat /\ DOMAIN s = 1..Len(s)
      /\ Len(t) \in Nat /\ DOMAIN t = 1..Len(t)
  BY DEF IsText
<1>2. Replaces(s, t, a, b, c)
  BY DEF Edits
<1>3. ASSUME NEW i \in Elsewhere(s, a, b), NEW j \in Elsewhere(s, a, b)
      PROVE  i <= j <=> Moved(a, b, c, i) <= Moved(a, b, c, j)
  <2>1. /\ i < j <=> Moved(a, b, c, i) < Moved(a, b, c, j)
        /\ j < i <=> Moved(a, b, c, j) < Moved(a, b, c, i)
    BY <1>1, <1>2, MovedIs
  <2>2. /\ i \in 1..Len(s) /\ j \in 1..Len(s)
        /\ Moved(a, b, c, i) \in 1..Len(t) /\ Moved(a, b, c, j) \in 1..Len(t)
    BY <1>1, <1>2, MovedIs
  <2>. QED  BY <2>1, <2>2
<1>4. ASSUME NEW i \in DOMAIN s, i \notin a..b PROVE i \in Elsewhere(s, a, b)
  BY <1>1, <1>2, <1>4 DEF Replaces, Elsewhere
<1>5. \A i \in Elsewhere(s, a, b) :
        /\ i \in 1..Len(s) /\ i \notin a..b
        /\ Moved(a, b, c, i) \in 1..Len(t) /\ Moved(a, b, c, i) \notin a..c
        /\ t[Moved(a, b, c, i)] = s[i]
  BY <1>1, <1>2, MovedIs
<1>6. \A i, j \in Elsewhere(s, a, b) : i < j <=> Moved(a, b, c, i) < Moved(a, b, c, j)
  BY <1>1, <1>2, MovedIs
<1>7. \A p \in 1..Len(t) : p \notin a..c => \E i \in Elsewhere(s, a, b) : Moved(a, b, c, i) = p
  BY <1>1, <1>2, MovedIs
<1>. QED  BY <1>1, <1>3, <1>4, <1>5, <1>6, <1>7

\* A flag of its own that the edit is not about goes elsewhere as a whole.
MoveAsOne(a, b, c, g, e) ==
    \A i \in g..e : Moved(a, b, c, i) = Moved(a, b, c, g) + (i - g)

LEMMA OthersMove ==
    ASSUME NEW s, IsText(s), NEW t, IsText(t),
           NEW a, NEW b, NEW c, Edits(s, t, a, b, c),
           NEW k, NEW g, g \notin a..b, NEW e, Stands(s, k, g, e)
    PROVE  /\ \A i \in g..e : i \in Elsewhere(s, a, b)
           /\ Stands(t, k, Moved(a, b, c, g), Moved(a, b, c, e))
           /\ MoveAsOne(a, b, c, g, e)
<1>1. /\ Len(s) \in Nat /\ DOMAIN s = 1..Len(s)
      /\ Len(t) \in Nat /\ DOMAIN t = 1..Len(t)
  BY DEF IsText
<1>2. Replaces(s, t, a, b, c)
  BY DEF Edits
<1>3. a \in 1..(Len(s) + 1) /\ b \in (a - 1)..Len(s) /\ c \in (a - 1)..Len(t)
  BY <1>2 DEF Replaces
<1>4. g \in 1..Len(s) /\ e \in g..Len(s) /\ s[g].line = "flag" /\ s[g].name = k
  BY <1>1 DEF Stands, FlagLines
<1>5. e < a \/ b < g
  <2>1. SUFFICES ASSUME ~(e < a), ~(b < g) PROVE FALSE
    OBVIOUS
  <2>2. g < a /\ a \in (g + 1)..e /\ (a <= b \/ (a = b + 1 /\ b < Len(s)))
    BY <1>1, <1>3, <1>4, <2>1
  <2>. QED  BY <2>2 DEF Edits, Stands
<1>6. \A i \in g..e : i \in Elsewhere(s, a, b) /\ Moved(a, b, c, i) = Moved(a, b, c, g) + (i - g)
  BY <1>1, <1>3, <1>4, <1>5 DEF Elsewhere, Moved
<1>. DEFINE d == Moved(a, b, c, g) - g
<1>7. d \in Int /\ \A i \in g..e : Moved(a, b, c, i) = i + d
  BY <1>1, <1>3, <1>4, <1>6 DEF Moved
<1>8. g \in g..e /\ e \in g..e
  BY <1>4
<1>. HIDE DEF d
<1>9. \A i \in g..e : i + d \in 1..Len(t) /\ t[i + d] = s[i]
  BY <1>1, <1>6, <1>7, EditedElsewhere
<1>10. g + d \in FlagLines(t) /\ t[g + d].name = k /\ e + d \in (g + d)..Len(t)
  BY <1>1, <1>4, <1>7, <1>8, <1>9 DEF FlagLines
<1>11. ASSUME NEW p \in (g + d + 1)..(e + d) PROVE t[p].line = "setting"
  <2>1. p - d \in (g + 1)..e /\ p - d \in g..e /\ (p - d) + d = p
    BY <1>1, <1>4, <1>7
  <2>. QED  BY <1>9, <2>1 DEF Stands
<1>12. ASSUME e + d < Len(t) PROVE t[e + d + 1].line # "setting"
  <2>1. Moved(a, b, c, e) = e + d /\ e \in Elsewhere(s, a, b)
    BY <1>6, <1>7, <1>8
  <2>2. CASE e + d + 1 \in a..c
    <3>1. e + d + 1 = a
      BY <1>1, <1>3, <1>4, <1>7, <2>1, <2>2 DEF Moved, Elsewhere
    <3>. QED  BY <1>3, <2>2, <3>1 DEF Edits
  <2>3. CASE e + d + 1 \notin a..c
    <3>1. PICK j \in Elsewhere(s, a, b) : Moved(a, b, c, j) = e + d + 1
      <4>1. e + d + 1 \in 1..Len(t)
        BY <1>1, <1>4, <1>7, <1>9, <1>8, <1>12
      <4>. QED  BY <1>1, <2>3, <4>1, EditedElsewhere
    <3>2. j \in 1..Len(s) /\ t[e + d + 1] = s[j]
      BY <1>1, <3>1, EditedElsewhere
    <3>3. j = e + 1 \/ j = b + 1
      <4>1. CASE e < a
        <5>1. Moved(a, b, c, e) = e
          BY <4>1 DEF Moved
        <5>2. Moved(a, b, c, j) = e + 1 /\ e + 1 \notin a..c
          BY <1>4, <1>7, <2>1, <2>3, <3>1, <5>1
        <5>. QED  BY <1>1, <1>3, <1>4, <3>1, <3>2, <4>1, <5>2 DEF Moved, Elsewhere
      <4>2. CASE b < g
        <5>1. Moved(a, b, c, e) = e + (c - b)
          BY <1>3, <1>4, <4>2 DEF Moved
        <5>2. Moved(a, b, c, j) = e + (c - b) + 1
          BY <1>1, <1>3, <1>4, <1>7, <2>1, <3>1, <5>1
        <5>. QED  BY <1>1, <1>3, <1>4, <3>2, <4>2, <5>2 DEF Moved
      <4>. QED  BY <1>5, <4>1, <4>2
    <3>4. s[j].line # "setting"
      <4>1. /\ b < Len(s) => s[b + 1].line # "setting"
            /\ e < Len(s) => s[e + 1].line # "setting"
        BY DEF Edits, Stands
      <4>. QED  BY <1>1, <1>3, <1>4, <3>2, <3>3, <4>1
    <3>. QED  BY <3>2, <3>4
  <2>. QED  BY <2>2, <2>3
<1>13. Moved(a, b, c, g) = g + d /\ Moved(a, b, c, e) = e + d
  BY <1>7, <1>8
<1>14. Stands(t, k, g + d, e + d)
  BY <1>10, <1>11, <1>12 DEF Stands
<1>15. MoveAsOne(a, b, c, g, e)
  BY <1>6 DEF MoveAsOne
<1>. QED  BY <1>6, <1>13, <1>14, <1>15

(***************************************************************************)
(* What is not about keys stays, whether their flag is replaced, removed   *)
(* or new.                                                                 *)
(***************************************************************************)
LEMMA FlagReplaced ==
    ASSUME NEW s, IsText(s), NEW t, IsText(t),
           NEW a, NEW b, NEW c, Edits(s, t, a, b, c), NEW keys,
           NEW k \in keys, Stands(s, k, a, b), NEW to \in keys, Stands(t, to, a, c),
           \A f \in FlagLines(s) : s[f].name \in keys => f = a
    PROVE  Without(t, keys) = Without(s, keys)
<1>1. /\ Len(s) \in Nat /\ DOMAIN s = 1..Len(s)
      /\ Len(t) \in Nat /\ DOMAIN t = 1..Len(t)
  BY DEF IsText
<1>2. Replaces(s, t, a, b, c)
  BY DEF Edits
<1>3. /\ a \in FlagLines(s) /\ s[a].name \in keys /\ a \in 1..Len(s) /\ b \in a..Len(s)
      /\ a \in FlagLines(t) /\ t[a].name \in keys /\ a \in 1..Len(t) /\ c \in a..Len(t)
  BY <1>1 DEF Stands, FlagLines
<1>4. ASSUME NEW f \in FlagLines(t), t[f].name \in keys PROVE f = a
  <2>1. SUFFICES ASSUME f # a PROVE FALSE
    OBVIOUS
  <2>2. f \in 1..Len(t) /\ t[f].line = "flag"
    BY <1>1 DEF FlagLines
  <2>3. f \notin (a + 1)..c
    BY <2>2 DEF Edits
  <2>4. f \notin a..c
    BY <1>1, <1>3, <2>1, <2>2, <2>3
  <2>5. PICK i \in Elsewhere(s, a, b) : Moved(a, b, c, i) = f
    BY <1>1, <2>2, <2>4, EditedElsewhere
  <2>6. i \in DOMAIN s /\ t[f] = s[i] /\ i \notin a..b
    BY <2>5, EditedElsewhere
  <2>7. i = a
    BY <1>4, <2>2, <2>6 DEF FlagLines
  <2>. QED  BY <1>1, <1>3, <2>6, <2>7
<1>5. \A i \in DOMAIN s : IsTheirs(s, i, keys) <=> i \in a..b
  BY <1>3, TheirsAre
<1>6. \A i \in DOMAIN t : IsTheirs(t, i, keys) <=> i \in a..c
  BY <1>3, <1>4, TheirsAre
<1>. QED  BY <1>1, <1>2, <1>5, <1>6, WithoutReplaced

LEMMA FlagRemoved ==
    ASSUME NEW s, IsText(s), NEW t, IsText(t),
           NEW a, NEW b, NEW c, a..c = {}, Edits(s, t, a, b, c),
           NEW k, Stands(s, k, a, b),
           \A f \in FlagLines(s) : s[f].name = k => f = a
    PROVE  Without(t, {k}) = Without(s, {k})
<1>1. /\ Len(s) \in Nat /\ DOMAIN s = 1..Len(s)
      /\ Len(t) \in Nat /\ DOMAIN t = 1..Len(t)
  BY DEF IsText
<1>2. Replaces(s, t, a, b, c)
  BY DEF Edits
<1>3. a \in FlagLines(s) /\ s[a].name = k /\ a \in 1..Len(s) /\ b \in a..Len(s)
  BY <1>1 DEF Stands, FlagLines
<1>4. ASSUME NEW f \in FlagLines(t) PROVE t[f].name # k
  <2>1. SUFFICES ASSUME t[f].name = k PROVE FALSE
    OBVIOUS
  <2>2. f \in 1..Len(t) /\ t[f].line = "flag" /\ f \notin a..c
    BY <1>1, <1>3 DEF FlagLines
  <2>3. PICK i \in Elsewhere(s, a, b) : Moved(a, b, c, i) = f
    BY <1>1, <2>2, EditedElsewhere
  <2>4. i \in DOMAIN s /\ t[f] = s[i] /\ i \notin a..b
    BY <2>3, EditedElsewhere
  <2>5. i = a
    BY <2>1, <2>2, <2>4 DEF FlagLines
  <2>. QED  BY <1>1, <1>3, <2>4, <2>5
<1>5. PICK keys : keys = {k}
  OBVIOUS
<1>6. \A i \in DOMAIN s : IsTheirs(s, i, keys) <=> i \in a..b
  BY <1>3, <1>5, TheirsAre
<1>7. \A i \in DOMAIN t : IsTheirs(t, i, keys) <=> i \in a..c
  BY <1>4, <1>5 DEF IsTheirs
<1>8. Without(s, keys) = Without(t, keys)
  BY <1>1, <1>2, <1>6, <1>7, WithoutReplaced
<1>. QED  BY <1>5, <1>8

\* The blank lines at the end.
BlanksAre(s, a, b) ==
    /\ \A i \in a..b : s[i].line = "blank"
    /\ a > 1 => s[a - 1].line # "blank"

LEMMA FlagAppended ==
    ASSUME NEW s, IsText(s), NEW t, IsText(t),
           NEW a, NEW b, b = Len(s), NEW c, c = Len(t), Edits(s, t, a, b, c),
           NEW k, Stands(t, k, a, c), ~HasFlag(s, k), BlanksAre(s, a, b)
    PROVE  Without(t, {k}) = Without(s, {k})
<1>1. /\ Len(s) \in Nat /\ DOMAIN s = 1..Len(s)
      /\ Len(t) \in Nat /\ DOMAIN t = 1..Len(t)
  BY DEF IsText
<1>2. /\ a \in 1..(Len(s) + 1) /\ c \in a..Len(t) /\ a \in 1..Len(t)
      /\ \A i \in 1..(a - 1) : t[i] = s[i]
  BY <1>1 DEF Edits, Replaces, Stands, FlagLines
<1>3. \A i \in DOMAIN s : ~IsTheirs(s, i, {k})
  BY DEF IsTheirs, HasFlag
<1>4. ASSUME NEW f \in FlagLines(t) PROVE t[f].name = k <=> f = a
  <2>1. f \in 1..Len(t) /\ t[f].line = "flag"
    BY <1>1 DEF FlagLines
  <2>2. t[a].name = k
    BY DEF Stands
  <2>3. ASSUME t[f].name = k, f # a PROVE FALSE
    <3>1. f \notin (a + 1)..c
      BY <2>1 DEF Edits
    <3>2. f \in 1..(a - 1)
      BY <1>1, <1>2, <2>1, <2>3, <3>1
    <3>3. f \in DOMAIN s /\ t[f] = s[f]
      BY <1>1, <1>2, <3>2
    <3>. QED  BY <2>1, <2>3, <3>3 DEF HasFlag, FlagLines
  <2>. QED  BY <2>2, <2>3
<1>5. \A i \in DOMAIN t : IsTheirs(t, i, {k}) <=> i \in a..c
  BY <1>4, TheirsAre
<1>6. {i \in DOMAIN s : ~IsTheirs(s, i, {k})} = 1..Len(s)
  BY <1>1, <1>3
<1>7. {i \in DOMAIN t : ~IsTheirs(t, i, {k})} = 1..(a - 1)
  <2>1. \A i \in 1..Len(t) : i \notin a..c <=> i \in 1..(a - 1)
    BY <1>1, <1>2
  <2>2. 1..(a - 1) \subseteq 1..Len(t)
    BY <1>1, <1>2
  <2>. QED  BY <1>1, <1>5, <2>1, <2>2
<1>8. {i \in 1..Len(s) : \E j \in 1..Len(s) : i <= j /\ s[j].line # "blank"} = 1..(a - 1)
  <2>1. ASSUME NEW i \in 1..(a - 1)
        PROVE  i \in 1..Len(s) /\ \E j \in 1..Len(s) : i <= j /\ s[j].line # "blank"
    <3>1. a > 1 /\ a - 1 \in 1..Len(s) /\ i <= a - 1 /\ i \in 1..Len(s)
      BY <1>1, <1>2
    <3>. QED  BY <3>1 DEF BlanksAre
  <2>2. ASSUME NEW i \in 1..Len(s), NEW j \in 1..Len(s), i <= j, s[j].line # "blank"
        PROVE  i \in 1..(a - 1)
    <3>1. j \notin a..b
      BY <2>2 DEF BlanksAre
    <3>. QED  BY <1>1, <1>2, <2>2, <3>1
  <2>. QED  BY <2>1, <2>2
<1>9. {i \in 1..(a - 1) : \E j \in 1..(a - 1) : i <= j /\ t[j].line # "blank"} = 1..(a - 1)
  <2>1. ASSUME NEW i \in 1..(a - 1)
        PROVE  \E j \in 1..(a - 1) : i <= j /\ t[j].line # "blank"
    <3>1. a > 1 /\ a - 1 \in 1..(a - 1) /\ i <= a - 1 /\ t[a - 1] = s[a - 1]
      BY <1>1, <1>2
    <3>. QED  BY <3>1 DEF BlanksAre
  <2>. QED  BY <2>1
<1>10. Without(s, {k}) = Kept(s, 1..(a - 1))
  BY <1>6, <1>8 DEF Without
<1>11. Without(t, {k}) = Kept(t, 1..(a - 1))
  <2>1. PICK others : others = {i \in DOMAIN t : ~IsTheirs(t, i, {k})}
    OBVIOUS
  <2>2. PICK some : some = {i \in others : \E j \in others : i <= j /\ t[j].line # "blank"}
    OBVIOUS
  <2>3. PICK front : front = 1..(a - 1)
    OBVIOUS
  <2>4. others = front
    BY <1>7, <2>1, <2>3
  <2>5. some = front
    BY <1>9, <2>2, <2>3, <2>4
  <2>6. Without(t, {k}) = Kept(t, some)
    BY <2>1, <2>2 DEF Without
  <2>. QED  BY <2>3, <2>5, <2>6
<1>. DEFINE same == [i \in 1..(a - 1) |-> i]
<1>12. Matches(same, s, 1..(a - 1), t, 1..(a - 1))
  BY <1>2 DEF Matches
<1>13. ArePlaces(1..(a - 1))
  <2>1. 1..(a - 1) \in SUBSET (1..Len(s))
    BY <1>1, <1>2
  <2>. QED  BY <1>1, <2>1 DEF ArePlaces
<1>. HIDE DEF same
<1>14. Kept(s, 1..(a - 1)) = Kept(t, 1..(a - 1))
  BY <1>12, <1>13, KeptSame
<1>. QED  BY <1>10, <1>11, <1>14

(***************************************************************************)
(* What the others say.  Nobody takes over settings, and no name is given  *)
(* to two anchors.                                                         *)
(***************************************************************************)
NoMerges(s) == \A i \in DOMAIN s : ~IsMerge(s[i])

AnchorsDiffer(s) ==
    \A i, j \in DOMAIN s :
      s[i].form = "anchor" /\ s[j].form = "anchor" /\ s[i].anchor = s[j].anchor => i = j

AliasesMeet(s) == \A i \in DOMAIN s : s[i].form = "alias" => Anchors(s, i) # {}

MergesMeet(s) == \A i \in DOMAIN s : IsMerge(s[i]) => s[Max(Anchors(s, i))].line = "flag"

LEMMA AnchorIs ==
    ASSUME NEW s, IsText(s), AliasesMeet(s), NEW i \in DOMAIN s, s[i].form = "alias"
    PROVE  \E j \in DOMAIN s : /\ j = Max(Anchors(s, i)) /\ s[j].form = "anchor"
                              /\ s[j].anchor = s[i].anchor
<1>1. Len(s) \in Nat /\ DOMAIN s = 1..Len(s)
  BY DEF IsText
<1>2. Anchors(s, i) \in SUBSET (0..Len(s)) /\ Anchors(s, i) # {}
  BY <1>1 DEF Anchors, AliasesMeet
<1>3. PICK j \in Anchors(s, i) : j = Max(Anchors(s, i))
  BY <1>1, <1>2, GreatestOf
<1>4. i \in 1..Len(s) /\ j \in 1..(i - 1) /\ s[j].form = "anchor" /\ s[j].anchor = s[i].anchor
  BY <1>1 DEF Anchors
<1>5. j \in DOMAIN s
  BY <1>1, <1>4
<1>. QED  BY <1>3, <1>4, <1>5

LEMMA AnchorsStay ==
    ASSUME NEW s, IsText(s), NEW t, IsText(t),
           NEW a, NEW b, NEW c, Edits(s, t, a, b, c)
    PROVE  /\ \A p \in DOMAIN t : t[p].form = "anchor" =>
                \E i \in DOMAIN s : SameMark(s[i], t[p])
           /\ AnchorsDiffer(s) => AnchorsDiffer(t)
           /\ NoMerges(s) => NoMerges(t)
<1>1. /\ Len(s) \in Nat /\ DOMAIN s = 1..Len(s)
      /\ Len(t) \in Nat /\ DOMAIN t = 1..Len(t)
  BY DEF IsText
<1>2. a \in 1..(Len(s) + 1) /\ b \in (a - 1)..Len(s)
  BY DEF Edits, Replaces
<1>3. \A i \in a..b : i \in DOMAIN s /\ i \notin Elsewhere(s, a, b)
  BY <1>1, <1>2 DEF Elsewhere
<1>4. PICK from : \A p \in a..c : t[p].form = "anchor" =>
                    \E i \in a..b : from[i] = p /\ SameMark(s[i], t[p])
  BY DEF Edits, AnchorsStem
<1>. DEFINE To(i) == IF i \in a..b THEN from[i] ELSE Moved(a, b, c, i)
<1>5. ASSUME NEW p \in DOMAIN t, t[p].form = "anchor"
      PROVE  \E i \in DOMAIN s : To(i) = p /\ SameMark(s[i], t[p])
  <2>1. CASE p \in a..c
    <3>1. PICK i \in a..b : from[i] = p /\ SameMark(s[i], t[p])
      BY <1>4, <1>5, <2>1
    <3>2. i \in DOMAIN s /\ To(i) = p
      BY <1>3, <3>1
    <3>. QED  BY <3>1, <3>2
  <2>2. CASE p \notin a..c
    <3>1. PICK i \in Elsewhere(s, a, b) : Moved(a, b, c, i) = p
      BY <2>2, EditedElsewhere
    <3>2. i \in DOMAIN s /\ i \notin a..b /\ t[p] = s[i]
      BY <3>1, EditedElsewhere
    <3>. QED  BY <3>1, <3>2 DEF SameMark
  <2>. QED  BY <2>1, <2>2
<1>. HIDE DEF To
<1>6. ASSUME AnchorsDiffer(s), NEW p \in DOMAIN t, NEW q \in DOMAIN t,
             t[p].form = "anchor", t[q].form = "anchor", t[p].anchor = t[q].anchor
      PROVE  p = q
  <2>1. PICK i \in DOMAIN s : To(i) = p /\ SameMark(s[i], t[p])
    BY <1>5, <1>6
  <2>2. PICK j \in DOMAIN s : To(j) = q /\ SameMark(s[j], t[q])
    BY <1>5, <1>6
  <2>3. i = j
    BY <1>6, <2>1, <2>2 DEF AnchorsDiffer, SameMark
  <2>. QED  BY <2>1, <2>2, <2>3
<1>7. ASSUME NoMerges(s), NEW p \in DOMAIN t PROVE ~IsMerge(t[p])
  <2>1. CASE p \in a..c
    BY <1>3, <1>7, <2>1 DEF Edits, NoMerges
  <2>2. CASE p \notin a..c
    <3>1. PICK i \in Elsewhere(s, a, b) : Moved(a, b, c, i) = p
      BY <2>2, EditedElsewhere
    <3>2. i \in DOMAIN s /\ t[p] = s[i]
      BY <3>1, EditedElsewhere
    <3>. QED  BY <1>7, <3>2 DEF NoMerges
  <2>. QED  BY <2>1, <2>2
<1>. QED  BY <1>5, <1>6, <1>7 DEF AnchorsDiffer, NoMerges

LEMMA ValueStays ==
    ASSUME NEW s, IsText(s), NEW t, IsText(t),
           NEW a, NEW b, NEW c, Edits(s, t, a, b, c),
           AliasesMeet(s), AliasesMeet(t), AnchorsDiffer(s),
           NEW i \in Elsewhere(s, a, b)
    PROVE  Value(t, Moved(a, b, c, i)) = Value(s, i)
<1>. DEFINE m == Moved(a, b, c, i)
<1>1. i \in DOMAIN s /\ m \in DOMAIN t /\ t[m] = s[i]
  BY EditedElsewhere
<1>. HIDE DEF m
<1>2. CASE s[i].form # "alias"
  BY <1>1, <1>2 DEF Value, m
<1>3. CASE s[i].form = "alias"
  <2>1. PICK j \in DOMAIN s : /\ j = Max(Anchors(s, i)) /\ s[j].form = "anchor"
                             /\ s[j].anchor = s[i].anchor
    BY <1>1, <1>3, AnchorIs
  <2>2. PICK p \in DOMAIN t : /\ p = Max(Anchors(t, m)) /\ t[p].form = "anchor"
                             /\ t[p].anchor = t[m].anchor
    BY <1>1, <1>3, AnchorIs
  <2>3. PICK h \in DOMAIN s : SameMark(s[h], t[p])
    BY <2>2, AnchorsStay
  <2>4. h = j
    BY <1>1, <2>1, <2>2, <2>3 DEF SameMark, AnchorsDiffer
  <2>5. t[p].value = s[j].value
    BY <2>3, <2>4 DEF SameMark
  <2>. QED  BY <1>1, <1>3, <2>1, <2>2, <2>5 DEF Value, m
<1>. QED  BY <1>2, <1>3

LEMMA MeaningStays ==
    ASSUME NEW s, IsText(s), KeysDiffer(s), AliasesMeet(s),
           NEW t, IsText(t), KeysDiffer(t), AliasesMeet(t),
           NoMerges(s), AnchorsDiffer(s),
           NEW a, NEW b, NEW c, Edits(s, t, a, b, c),
           NEW g \in FlagLines(s), g \notin a..b
    PROVE  HasFlag(t, s[g].name) /\ ReadFlag(t, s[g].name) = ReadFlag(s, s[g].name)
<1>. DEFINE k == s[g].name
            m(i) == Moved(a, b, c, i)
<1>1. /\ Len(s) \in Nat /\ DOMAIN s = 1..Len(s)
      /\ Len(t) \in Nat /\ DOMAIN t = 1..Len(t)
  BY DEF IsText
<1>2. PICK e \in g..Len(s) : Stands(s, k, g, e)
  BY EachStands
<1>. HIDE DEF k
<1>3. /\ \A i \in g..e : i \in Elsewhere(s, a, b)
      /\ Stands(t, k, m(g), m(e))
      /\ \A i \in g..e : m(i) = m(g) + (i - g)
  <2>1. MoveAsOne(a, b, c, g, e)
    BY <1>2, OthersMove
  <2>2. \A i \in g..e : m(i) = m(g) + (i - g)
    BY <2>1 DEF MoveAsOne
  <2>3. (\A i \in g..e : i \in Elsewhere(s, a, b)) /\ Stands(t, k, m(g), m(e))
    BY <1>2, OthersMove
  <2>. QED  BY <2>2, <2>3
<1>4. BlockOf(s, k) = g..e /\ BlockOf(t, k) = m(g)..m(e)
  BY <1>2, <1>3, BlockIs
<1>5. /\ g \in 1..Len(s) /\ e \in g..Len(s) /\ m(g) \in 1..Len(t) /\ m(e) \in m(g)..Len(t)
      /\ m(e) = m(g) + (e - g)
  <2>. HIDE DEF m
  <2>1. g \in 1..Len(s) /\ e \in g..Len(s) /\ m(g) \in 1..Len(t) /\ m(e) \in m(g)..Len(t)
    BY <1>1, <1>2, <1>3 DEF FlagLines, Stands
  <2>2. e \in g..e
    BY <1>1, <2>1
  <2>. QED  BY <1>3, <2>1, <2>2
<1>6. \A i \in g..e : /\ i \in DOMAIN s /\ m(i) \in DOMAIN t /\ m(i) \in m(g)..m(e)
                      /\ t[m(i)] = s[i]
                      /\ Value(t, m(i)) = Value(s, i)
  <2>1. ASSUME NEW i \in g..e
        PROVE  /\ i \in DOMAIN s /\ m(i) \in DOMAIN t /\ t[m(i)] = s[i]
               /\ Value(t, m(i)) = Value(s, i)
    BY <1>3, EditedElsewhere, ValueStays
  <2>2. ASSUME NEW i \in g..e PROVE m(i) \in m(g)..m(e)
    <3>. HIDE DEF m
    <3>. QED  BY <1>3, <1>5
  <2>. QED  BY <2>1, <2>2
<1>7. \A p \in m(g)..m(e) : \E i \in g..e : m(i) = p
  <2>. HIDE DEF m
  <2>1. ASSUME NEW p \in m(g)..m(e) PROVE \E i \in g..e : m(i) = p
    <3>1. PICK i \in g..e : p = m(g) + (i - g)
      <4>1. PICK n \in 1..Len(t) : n = m(g)
        BY <1>5
      <4>2. p \in n..(n + (e - g))
        BY <1>5, <4>1
      <4>3. p - n + g \in g..e /\ p = n + (p - n + g - g)
        BY <1>1, <1>5, <4>2
      <4>4. PICK i \in g..e : i = p - n + g
        BY <4>3
      <4>5. p = n + (i - g)
        BY <1>1, <1>5, <4>2, <4>4
      <4>. QED  BY <4>1, <4>4, <4>5
    <3>2. m(i) = m(g) + (i - g)
      BY <1>3
    <3>. QED  BY <3>1, <3>2
  <2>. QED  BY <2>1
<1>8. \A i, j \in g..e : m(i) <= m(j) <=> i <= j
  <2>. HIDE DEF m
  <2>. QED  BY <1>3, <1>5
<1>. HIDE DEF m
<1>9. HasFlag(t, k)
  BY <1>3 DEF Stands, HasFlag
<1>10. NoMerges(t)
  BY AnchorsStay
<1>11. SettingLines(s, k, "<<") = {} /\ SettingLines(t, k, "<<") = {}
  <2>1. \A p \in m(g)..m(e) : p \in DOMAIN t
    BY <1>6, <1>7
  <2>. QED  BY <1>4, <1>6, <1>10, <2>1 DEF SettingLines, NoMerges, IsMerge
<1>12. ASSUME NEW name PROVE Reads(t, k, name) = Reads(s, k, name)
  <2>. DEFINE own == SettingLines(s, k, name)
              now == SettingLines(t, k, name)
  <2>1. own \subseteq g..e /\ own \in SUBSET Nat
    BY <1>4, <1>5 DEF SettingLines
  <2>2. now \subseteq m(g)..m(e) /\ now \in SUBSET Nat
    BY <1>4, <1>5 DEF SettingLines
  <2>3. /\ \A i \in own : m(i) \in now
        /\ \A p \in now : \E i \in own : m(i) = p
    BY <1>4, <1>6, <1>7 DEF SettingLines
  <2>. HIDE DEF own, now
  <2>4. CASE own = {}
    <3>1. now = {}
      BY <2>3, <2>4
    <3>. QED  BY <1>11, <2>4, <3>1 DEF Reads, own, now
  <2>5. CASE own # {}
    <3>1. Min(own) \in own /\ \A i \in own : Min(own) <= i
      BY <2>1, <2>5, LeastOf
    <3>2. m(Min(own)) \in now
      BY <2>3, <3>1
    <3>3. \A p \in now : m(Min(own)) <= p
      <4>1. ASSUME NEW p \in now PROVE m(Min(own)) <= p
        <5>1. PICK i \in own : m(i) = p
          BY <2>3
        <5>2. Min(own) <= i /\ i \in g..e /\ Min(own) \in g..e
          BY <2>1, <3>1
        <5>3. m(Min(own)) <= m(i)
          BY <1>8, <5>2
        <5>. QED  BY <5>1, <5>3
      <4>. QED  BY <4>1
    <3>4. Min(now) = m(Min(own))
      BY <2>2, <3>2, <3>3, LeastIs
    <3>5. Value(t, Min(now)) = Value(s, Min(own))
      BY <1>6, <2>1, <3>1, <3>4
    <3>6. now # {}
      BY <3>2
    <3>. QED  BY <2>5, <3>5, <3>6 DEF Reads, own, now
  <2>. QED  BY <2>4, <2>5
<1>. QED  BY <1>9, <1>12 DEF ReadFlag, k

--------------------------------------------------------------------------------
(***************************************************************************)
(* The lines an edit writes.                                               *)
(***************************************************************************)
TextValues == FlagValues \cup {Yes, Nothing} \cup 0..MaxTextEdits

TypedFlag(flag) == \A name \in ToSet(Settings) : flag[name] \in TextValues

LEMMA SettingNames ==
    /\ ToSet(Settings) = {"variations", "disable", "metadata"}
    /\ Settings \in Seq(ToSet(Settings)) /\ DOMAIN Settings = 1..3
    /\ "<<" \notin ToSet(Settings)
<1>. DEFINE names == {"variations", "disable", "metadata"}
<1>1. Settings \in Seq(names) /\ Len(Settings) = 3 /\ DOMAIN Settings = 1..3
  BY DEF Settings
<1>2. Settings[1] = "variations" /\ Settings[2] = "disable" /\ Settings[3] = "metadata"
  BY DEF Settings
<1>3. ToSet(Settings) \subseteq names
  <2>. HIDE DEF names
  <2>1. \A i \in DOMAIN Settings : Settings[i] \in names
    BY <1>1
  <2>. QED  BY <2>1 DEF ToSet
<1>4. 1 \in DOMAIN Settings /\ 2 \in DOMAIN Settings /\ 3 \in DOMAIN Settings
  BY <1>1
<1>5. names \subseteq ToSet(Settings)
  <2>1. \A i \in DOMAIN Settings : Settings[i] \in ToSet(Settings)
    BY DEF ToSet
  <2>2. /\ Settings[1] \in ToSet(Settings) /\ Settings[2] \in ToSet(Settings)
        /\ Settings[3] \in ToSet(Settings)
    BY <1>4, <2>1
  <2>. QED  BY <1>2, <2>2
<1>6. ToSet(Settings) = names
  BY <1>3, <1>5
<1>. HIDE DEF names
<1>7. Settings \in Seq(ToSet(Settings)) /\ DOMAIN Settings = 1..3
  BY <1>1, <1>6
<1>8. "<<" \notin names
  BY DEF names
<1>. QED  BY <1>6, <1>7, <1>8 DEF names

LEMMA SettingLine ==
    ASSUME NEW name \in ToSet(Settings), NEW value \in TextValues
    PROVE  /\ Setting(name, value) \in TextLine
           /\ Setting(name, value).line = "setting" /\ Setting(name, value).form = "plain"
           /\ Setting(name, value).name = name
BY DEF Setting, Line, TextLine, TextValues

LEMMA KeyLineIs ==
    ASSUME NEW k \in FlagKeys
    PROVE  /\ KeyLine(k) \in TextLine
           /\ KeyLine(k).line = "flag" /\ KeyLine(k).form = "plain" /\ KeyLine(k).name = k
BY DEF KeyLine, Line, TextLine

LEMMA SettingsOfIs ==
    ASSUME NEW flag, TypedFlag(flag), NEW names
    PROVE  /\ SettingsOf(flag, names) \in Seq(TextLine)
           /\ \A m \in 1..Len(SettingsOf(flag, names)) :
                /\ SettingsOf(flag, names)[m].line = "setting"
                /\ SettingsOf(flag, names)[m].form = "plain"
                /\ SettingsOf(flag, names)[m].name \in ToSet(Settings)
<1>. DEFINE places == {i \in DOMAIN Settings : Settings[i] \in names}
            list == Kept(Settings, places)
<1>1. list \in Seq(ToSet(Settings))
  <2>1. places \in SUBSET DOMAIN Settings
    OBVIOUS
  <2>. HIDE DEF places
  <2>. QED  BY <2>1, SettingNames, KeptType
<1>2. SettingsOf(flag, names) = [i \in DOMAIN list |-> Setting(list[i], flag[list[i]])]
  BY DEF SettingsOf
<1>. HIDE DEF list
<1>3. Len(list) \in Nat /\ DOMAIN list = 1..Len(list) /\ \A i \in 1..Len(list) : list[i] \in ToSet(Settings)
  BY <1>1
<1>4. \A i \in 1..Len(list) :
        /\ Setting(list[i], flag[list[i]]) \in TextLine
        /\ Setting(list[i], flag[list[i]]).line = "setting"
        /\ Setting(list[i], flag[list[i]]).form = "plain"
        /\ Setting(list[i], flag[list[i]]).name \in ToSet(Settings)
  BY <1>3, SettingLine DEF TypedFlag
<1>5. SettingsOf(flag, names) \in [1..Len(list) -> TextLine]
  BY <1>2, <1>3, <1>4
<1>6. SettingsOf(flag, names) \in Seq(TextLine) /\ Len(SettingsOf(flag, names)) = Len(list)
  BY <1>3, <1>5
<1>. QED  BY <1>2, <1>3, <1>4, <1>6

--------------------------------------------------------------------------------
(***************************************************************************)
(* What a flag reads as.                                                   *)
(***************************************************************************)
LEMMA ValueType ==
    ASSUME NEW s, IsText(s), AliasesMeet(s), NEW i \in DOMAIN s
    PROVE  Value(s, i) \in TextValues
<1>1. \A j \in DOMAIN s : s[j].value \in TextValues
  <2>1. \A j \in DOMAIN s : s[j] \in TextLine
    BY DEF IsText
  <2>. QED  BY <2>1 DEF TextLine, TextValues
<1>2. CASE s[i].form = "alias"
  <2>1. PICK j \in DOMAIN s : j = Max(Anchors(s, i))
    BY <1>2, AnchorIs
  <2>. QED  BY <1>1, <1>2, <2>1 DEF Value
<1>3. CASE s[i].form # "alias"
  BY <1>1, <1>3 DEF Value
<1>. QED  BY <1>2, <1>3

LEMMA FlagType ==
    ASSUME NEW s, IsText(s), KeysDiffer(s), AliasesMeet(s), MergesMeet(s),
           NEW g \in FlagLines(s)
    PROVE  TypedFlag(ReadFlag(s, s[g].name))
<1>1. KeysDiffer(s) /\ AliasesMeet(s)
  OBVIOUS
<1>2. Len(s) \in Nat /\ DOMAIN s = 1..Len(s)
  BY DEF IsText
<1>3. ASSUME NEW f \in FlagLines(s)
      PROVE  \A name : SettingLines(s, s[f].name, name) \in SUBSET DOMAIN s
  <2>1. PICK e \in f..Len(s) : Stands(s, s[f].name, f, e)
    BY EachStands
  <2>2. BlockOf(s, s[f].name) = f..e
    BY <1>1, <2>1, BlockIs
  <2>3. f \in 1..Len(s)
    BY <1>2 DEF FlagLines
  <2>4. f..e \in SUBSET DOMAIN s
    BY <1>2, <2>1, <2>3
  <2>. QED  BY <2>2, <2>4 DEF SettingLines
<1>4. ASSUME NEW S, S \in SUBSET DOMAIN s, S # {}
      PROVE  Min(S) \in S /\ Value(s, Min(S)) \in TextValues
  <2>1. S \in SUBSET Nat
    BY <1>2, <1>4
  <2>2. Min(S) \in S
    BY <1>4, <2>1, LeastOf
  <2>. QED  BY <1>1, <1>4, <2>2, ValueType
<1>5. ASSUME NEW name PROVE Reads(s, s[g].name, name) \in TextValues
  <2>. DEFINE k == s[g].name
              own == SettingLines(s, k, name)
              merge == SettingLines(s, k, "<<")
              base == s[Max(Anchors(s, Min(merge)))].name
              theirs == SettingLines(s, base, name)
  <2>1. \/ own # {} /\ Reads(s, k, name) = Value(s, Min(own))
        \/ merge # {} /\ theirs # {} /\ Reads(s, k, name) = Value(s, Min(theirs))
        \/ Reads(s, k, name) = Nothing
    BY DEF Reads
  <2>2. own \in SUBSET DOMAIN s /\ merge \in SUBSET DOMAIN s
    BY <1>3
  <2>3. ASSUME merge # {} PROVE theirs \in SUBSET DOMAIN s
    <3>1. Min(merge) \in merge
      <4>. HIDE DEF merge
      <4>. QED  BY <1>4, <2>2, <2>3
    <3>2. Min(merge) \in DOMAIN s /\ s[Min(merge)].line = "setting" /\ s[Min(merge)].name = "<<"
      BY <2>2, <3>1 DEF SettingLines
    <3>. DEFINE i == Min(merge)
    <3>. HIDE DEF i
    <3>3. i \in DOMAIN s /\ s[i].line = "setting" /\ s[i].name = "<<" /\ i = Min(merge)
      BY <3>2 DEF i
    <3>4. s[i].form = "alias" /\ s[Max(Anchors(s, i))].line = "flag"
      BY <3>3 DEF IsText, IsFlagFile, MergesMeet, IsMerge
    <3>5. PICK j \in DOMAIN s : j = Max(Anchors(s, i))
      BY <1>1, <3>3, <3>4, AnchorIs
    <3>6. j \in FlagLines(s) /\ base = s[j].name
      BY <3>3, <3>4, <3>5 DEF FlagLines
    <3>. HIDE DEF base
    <3>. QED  BY <1>3, <3>6
  <2>4. Nothing \in TextValues
    BY DEF TextValues
  <2>. HIDE DEF k, own, merge, base, theirs
  <2>5. own # {} => Value(s, Min(own)) \in TextValues
    BY <1>4, <2>2
  <2>6. merge # {} /\ theirs # {} => Value(s, Min(theirs)) \in TextValues
    BY <1>4, <2>3
  <2>7. Reads(s, k, name) \in TextValues
    BY <2>1, <2>4, <2>5, <2>6
  <2>. QED  BY <2>7 DEF k
<1>6. TypedFlag(ReadFlag(s, s[g].name))
  BY <1>5 DEF TypedFlag, ReadFlag
<1>. QED  BY <1>6

--------------------------------------------------------------------------------
(***************************************************************************)
(* A flag's new text: its key, and settings, of which those that have an   *)
(* anchor had it before.                                                   *)
(***************************************************************************)
FlagText(s, k, a, b, new) ==
    /\ new \in Seq(TextLine) /\ 1 \in DOMAIN new
    /\ new[1].line = "flag" /\ new[1].name = k
    /\ \A m \in DOMAIN new : m # 1 =>
         /\ new[m].line = "setting"
         /\ new[m].name \in ToSet(Settings) \cup {"<<"}
         /\ new[m].name = "<<" => new[m].form = "alias"
    /\ \E from : \A m \in DOMAIN new : new[m].form = "anchor" =>
                   \E i \in a..b : from[i] = m /\ SameMark(s[i], new[m])
    /\ \A m \in DOMAIN new : IsMerge(new[m]) => \E i \in a..b : IsMerge(s[i])

LEMMA RenderedIs ==
    ASSUME NEW s, IsText(s), KeysDiffer(s), AliasesMeet(s),
           NEW k, NEW a, NEW b, Stands(s, k, a, b),
           NEW flag, TypedFlag(flag)
    PROVE  FlagText(s, k, a, b, Rendered(s, k, flag))
<1>. DEFINE changed == Changed(s, k, flag)
            edited == [i \in DOMAIN s |->
                         IF i \in changed THEN Setting(s[i].name, flag[s[i].name]) ELSE s[i]]
            Gone(line) == line.line = "setting" /\ line.form = "plain" /\ line.value = Nothing
            places == {i \in a..b : ~Gone(edited[i])}
            names == {name \in ToSet(Settings) :
                        SettingLines(s, k, name) = {} /\ flag[name] # Nothing}
            kept == Kept(edited, places)
            added == SettingsOf(flag, names)
<1>1. Len(s) \in Nat /\ DOMAIN s = 1..Len(s) /\ \A i \in 1..Len(s) : s[i] \in TextLine
  BY Places DEF IsText
<1>2. a \in 1..Len(s) /\ b \in a..Len(s) /\ s[a].line = "flag" /\ s[a].name = k
  BY <1>1 DEF Stands, FlagLines
<1>3. BlockOf(s, k) = a..b
  BY BlockIs
<1>4. Rendered(s, k, flag) = kept \o added
  BY <1>3 DEF Rendered
<1>5. \A i \in changed : /\ i \in a..b /\ s[i].line = "setting"
                         /\ s[i].name \in ToSet(Settings)
  BY <1>1, <1>2, <1>3 DEF Changed, IsText, IsFlagFile
<1>. HIDE DEF changed
<1>6. ASSUME NEW i \in changed
      PROVE  /\ edited[i] \in TextLine /\ edited[i].line = "setting" /\ edited[i].form = "plain"
             /\ edited[i].name \in ToSet(Settings)
  <2>1. i \in DOMAIN s /\ s[i].name \in ToSet(Settings)
    BY <1>1, <1>2, <1>5
  <2>2. edited[i] = Setting(s[i].name, flag[s[i].name])
    BY <2>1
  <2>3. flag[s[i].name] \in TextValues
    BY <2>1 DEF TypedFlag
  <2>. HIDE DEF edited
  <2>. QED  BY <2>1, <2>2, <2>3, SettingLine
<1>7. \A i \in DOMAIN s : i \notin changed => edited[i] = s[i]
  OBVIOUS
<1>8. edited \in Seq(TextLine) /\ Len(edited) = Len(s) /\ DOMAIN edited = 1..Len(s)
  <2>1. \A i \in 1..Len(s) : edited[i] \in TextLine
    BY <1>1, <1>6, <1>7
  <2>2. edited \in [1..Len(s) -> TextLine]
    BY <1>1, <2>1
  <2>. HIDE DEF edited
  <2>. QED  BY <1>1, <2>2
<1>. HIDE DEF edited
<1>9. edited[a] = s[a] /\ a \in places
  <2>1. a \in DOMAIN s /\ a \notin changed /\ a \in a..b
    BY <1>1, <1>2, <1>5
  <2>. QED  BY <1>2, <1>7, <2>1
<1>10. places \in SUBSET DOMAIN edited /\ places \subseteq a..b
  BY <1>1, <1>2, <1>8
<1>11. places \in SUBSET (1..Len(s))
  BY <1>8, <1>10
<1>. HIDE DEF places
<1>12. /\ kept \in Seq(TextLine) /\ Len(kept) = Cardinality(places)
       /\ DOMAIN kept = 1..Cardinality(places) /\ Cardinality(places) \in Nat
       /\ \A m \in 1..Cardinality(places) :
            \E i \in places : Rank(places, i) = m /\ kept[m] = edited[i]
  <2>1. /\ kept \in Seq(TextLine) /\ Len(kept) = Cardinality(places)
        /\ \A m \in 1..Cardinality(places) :
             \E i \in places : Rank(places, i) = m /\ kept[m] = edited[i]
    BY <1>8, <1>10, KeptType
  <2>2. Cardinality(places) \in Nat
    BY <1>1, <1>11, FinitePlaces
  <2>. HIDE DEF kept
  <2>. QED  BY <2>1, <2>2
<1>13. Rank(places, a) = 1
  <2>1. \A j \in places : j <= a <=> j = a
    BY <1>1, <1>2, <1>10
  <2>2. {j \in places : j <= a} = {a}
    BY <1>9, <2>1
  <2>. QED  BY <2>2, FS_Singleton DEF Rank
<1>14. 1 \in 1..Cardinality(places) /\ kept[1] = s[a]
  <2>1. Rank(places, a) \in 1..Cardinality(places)
    BY <1>1, <1>9, <1>11, RankType
  <2>2. kept[Rank(places, a)] = edited[a]
    BY <1>1, <1>9, <1>11, KeptItems
  <2>. HIDE DEF kept
  <2>. QED  BY <1>9, <1>13, <2>1, <2>2
<1>. DEFINE from == [i \in a..b |-> Rank(places, i)]
<1>15. ASSUME NEW m \in 1..Cardinality(places)
       PROVE  \E i \in a..b : /\ from[i] = m
                              /\ (i = a) <=> (m = 1)
                              /\ \/ kept[m] = s[i]
                                 \/ /\ kept[m].line = "setting" /\ kept[m].form = "plain"
                                    /\ kept[m].name \in ToSet(Settings)
  <2>1. PICK i \in places : Rank(places, i) = m /\ kept[m] = edited[i]
    BY <1>12
  <2>2. i \in a..b /\ i \in DOMAIN s /\ a \in 1..Len(s)
    BY <1>1, <1>2, <1>10
  <2>3. (i = a) <=> (m = 1)
    <3>1. i # a => a < i
      BY <1>1, <2>2
    <3>2. a < i => Rank(places, a) < Rank(places, i)
      BY <1>1, <1>9, <1>11, RankIsMonotone
    <3>. QED  BY <1>13, <2>1, <3>1, <3>2
  <2>. HIDE DEF kept
  <2>4. \/ kept[m] = s[i]
        \/ /\ kept[m].line = "setting" /\ kept[m].form = "plain"
           /\ kept[m].name \in ToSet(Settings)
    BY <1>6, <1>7, <2>1, <2>2
  <2>. QED  BY <2>1, <2>2, <2>3, <2>4
<1>16. /\ added \in Seq(TextLine) /\ Len(added) \in Nat
       /\ \A m \in 1..Len(added) : /\ added[m].line = "setting" /\ added[m].form = "plain"
                                   /\ added[m].name \in ToSet(Settings)
  <2>. HIDE DEF names
  <2>. QED  BY SettingsOfIs
<1>. HIDE DEF kept, added, from
<1>. DEFINE R == kept \o added
<1>17. /\ R \in Seq(TextLine) /\ Len(R) = Len(kept) + Len(added) /\ DOMAIN R = 1..Len(R)
       /\ \A m \in 1..Len(R) : R[m] = IF m <= Len(kept) THEN kept[m] ELSE added[m - Len(kept)]
  BY <1>12, <1>16
<1>. HIDE DEF R
<1>18. ASSUME NEW m \in DOMAIN R
       PROVE  \/ \E i \in a..b : from[i] = m /\ R[m] = s[i] /\ ((i = a) <=> (m = 1))
              \/ /\ R[m].line = "setting" /\ R[m].form = "plain" /\ m # 1
                 /\ R[m].name \in ToSet(Settings)
  <2>1. CASE m <= Len(kept)
    <3>1. m \in 1..Cardinality(places) /\ R[m] = kept[m]
      BY <1>12, <1>17, <2>1
    <3>2. PICK i \in a..b : /\ from[i] = m
                            /\ (i = a) <=> (m = 1)
                            /\ \/ kept[m] = s[i]
                               \/ /\ kept[m].line = "setting" /\ kept[m].form = "plain"
                                  /\ kept[m].name \in ToSet(Settings)
      BY <1>15, <3>1
    <3>3. m = 1 => kept[m] = s[i]
      BY <1>14, <3>2
    <3>. QED  BY <3>1, <3>2, <3>3
  <2>2. CASE ~(m <= Len(kept))
    <3>1. m - Len(kept) \in 1..Len(added) /\ R[m] = added[m - Len(kept)] /\ m # 1
      BY <1>12, <1>14, <1>16, <1>17, <2>2
    <3>. QED  BY <1>16, <3>1
  <2>. QED  BY <2>1, <2>2
<1>19. 1 \in DOMAIN R /\ R[1] = s[a]
  BY <1>12, <1>14, <1>16, <1>17
<1>20. "<<" \notin ToSet(Settings)
  BY SettingNames
<1>21. ASSUME NEW m \in DOMAIN R, m # 1
       PROVE  /\ R[m].line = "setting"
              /\ R[m].name \in ToSet(Settings) \cup {"<<"}
              /\ R[m].name = "<<" => R[m].form = "alias"
  <2>1. ASSUME NEW i \in a..b, i # a
        PROVE  /\ s[i].line = "setting"
               /\ s[i].name \in ToSet(Settings) \cup {"<<"}
               /\ s[i].name = "<<" => s[i].form = "alias"
    <3>1. i \in (a + 1)..b /\ i \in DOMAIN s
      BY <1>1, <1>2, <2>1
    <3>2. s[i].line = "setting"
      BY <3>1 DEF Stands
    <3>. QED  BY <3>1, <3>2 DEF IsText, IsFlagFile
  <2>. QED  BY <1>18, <1>20, <1>21, <2>1
<1>22. \A m \in DOMAIN R : R[m].form = "anchor" =>
         \E i \in a..b : from[i] = m /\ SameMark(s[i], R[m])
  BY <1>18 DEF SameMark
<1>23. \A m \in DOMAIN R : IsMerge(R[m]) => \E i \in a..b : IsMerge(s[i])
  BY <1>18, <1>20 DEF IsMerge
<1>24. FlagText(s, k, a, b, R)
  BY <1>2, <1>17, <1>19, <1>21, <1>22, <1>23 DEF FlagText
<1>. QED  BY <1>4, <1>24 DEF R

LEMMA FlagPut ==
    ASSUME NEW s, IsText(s), NEW k \in FlagKeys,
           NEW a \in 1..(Len(s) + 1), NEW b \in (a - 1)..Len(s),
           a <= b => s[a].line # "setting", b < Len(s) => s[b + 1].line # "setting",
           NEW new, FlagText(s, k, a, b, new)
    PROVE  \E c : /\ Pieced(s, a, b, new) \in Seq(TextLine)
                  /\ Edits(s, Pieced(s, a, b, new), a, b, c)
                  /\ Stands(Pieced(s, a, b, new), k, a, c)
<1>. DEFINE t == Pieced(s, a, b, new)
            c == a - 1 + Len(new)
<1>1. /\ Len(s) \in Nat /\ DOMAIN s = 1..Len(s) /\ s \in Seq(TextLine)
      /\ new \in Seq(TextLine) /\ Len(new) \in Nat /\ DOMAIN new = 1..Len(new)
  BY DEF IsText, FlagText
<1>2. a \in 1..(Len(s) + 1) /\ b \in (a - 1)..Len(s)
  OBVIOUS
<1>3. /\ t \in Seq(TextLine) /\ Replaces(s, t, a, b, c)
      /\ \A m \in 1..Len(new) : t[a - 1 + m] = new[m]
  <2>1. t \in Seq(TextLine) /\ Replaces(s, t, a, b, c) /\ PutAt(t, a, new)
    BY <1>1, <1>2, PiecedIs
  <2>. QED  BY <2>1 DEF PutAt
<1>. HIDE DEF t
<1>4. 1 \in 1..Len(new) /\ c \in a..Len(t) /\ Len(t) \in Nat /\ DOMAIN t = 1..Len(t)
      /\ Len(t) - c = Len(s) - b
  BY <1>1, <1>2, <1>3 DEF FlagText, Replaces
<1>5. \A p \in a..c : p - (a - 1) \in 1..Len(new) /\ t[p] = new[p - (a - 1)]
                      /\ (p # a => p - (a - 1) # 1)
  <2>1. ASSUME NEW p \in a..c
        PROVE  p - (a - 1) \in 1..Len(new) /\ t[p] = new[p - (a - 1)]
               /\ (p # a => p - (a - 1) # 1)
    <3>1. /\ p - (a - 1) \in 1..Len(new) /\ a - 1 + (p - (a - 1)) = p
          /\ (p # a => p - (a - 1) # 1)
      BY <1>1, <1>2, <1>4
    <3>. QED  BY <1>3, <3>1
  <2>. QED  BY <2>1
<1>. HIDE DEF c
<1>6. t[a].line = "flag" /\ t[a].name = k /\ a \in a..c
  <2>1. a \in a..c /\ a - (a - 1) = 1
    BY <1>2, <1>4
  <2>. QED  BY <1>5, <2>1 DEF FlagText
<1>7. \A p \in a..c : p # a => /\ t[p].line = "setting"
                               /\ t[p].name \in ToSet(Settings) \cup {"<<"}
                               /\ t[p].name = "<<" => t[p].form = "alias"
  BY <1>1, <1>5 DEF FlagText
<1>8. \A p \in (a + 1)..c : t[p].line = "setting"
  <2>1. \A p \in (a + 1)..c : p \in a..c /\ p # a
    BY <1>2, <1>4
  <2>. QED  BY <1>7, <2>1
<1>9. \A p \in a..c : LineFits(t, p)
  BY <1>2, <1>6, <1>7 DEF LineFits
<1>10. AnchorsStem(s, t, a, b, c)
  <2>1. PICK from : \A m \in DOMAIN new : new[m].form = "anchor" =>
                      \E i \in a..b : from[i] = m /\ SameMark(s[i], new[m])
    BY DEF FlagText
  <2>. DEFINE to == [i \in a..b |-> from[i] + (a - 1)]
  <2>2. ASSUME NEW p \in a..c, t[p].form = "anchor"
        PROVE  \E i \in a..b : to[i] = p /\ SameMark(s[i], t[p])
    <3>1. PICK m \in 1..Len(new) : m = p - (a - 1) /\ t[p] = new[m]
      BY <1>5
    <3>2. PICK i \in a..b : from[i] = m /\ SameMark(s[i], new[m])
      BY <1>1, <2>1, <2>2, <3>1
    <3>3. to[i] = m + (a - 1)
      BY <3>2
    <3>4. m + (a - 1) = p
      BY <1>1, <1>2, <1>4, <3>1
    <3>. QED  BY <3>1, <3>2, <3>3, <3>4
  <2>. HIDE DEF to
  <2>. QED  BY <2>2 DEF AnchorsStem
<1>11. (\E p \in a..c : IsMerge(t[p])) => (\E i \in a..b : IsMerge(s[i]))
  BY <1>1, <1>5 DEF FlagText
<1>12. Edits(s, t, a, b, c)
  BY <1>3, <1>6, <1>8, <1>9, <1>10, <1>11 DEF c, Edits
<1>13. c < Len(t) => t[c + 1].line # "setting"
  <2>1. SUFFICES ASSUME c < Len(t) PROVE t[c + 1].line # "setting"
    OBVIOUS
  <2>2. b + 1 \in (b + 1)..Len(s) /\ b + 1 + (c - b) = c + 1 /\ b < Len(s)
    BY <1>1, <1>2, <1>4, <2>1
  <2>3. t[b + 1 + (c - b)] = s[b + 1]
    BY <1>3, <2>2 DEF c, Replaces
  <2>. QED  BY <2>2, <2>3
<1>14. Stands(t, k, a, c)
  BY <1>4, <1>2, <1>6, <1>8, <1>13 DEF Stands, FlagLines
<1>. QED  BY <1>3, <1>12, <1>14 DEF t

LEMMA FlagSpliced ==
    ASSUME NEW s, IsText(s), NEW k, NEW a, NEW b, Stands(s, k, a, b),
           NEW new, FlagText(s, k, a, b, new)
    PROVE  \E c : /\ Splice(s, a..b, new) \in Seq(TextLine)
                  /\ Edits(s, Splice(s, a..b, new), a, b, c)
                  /\ Stands(Splice(s, a..b, new), k, a, c)
<1>1. Len(s) \in Nat /\ DOMAIN s = 1..Len(s) /\ s \in Seq(TextLine)
  BY DEF IsText
<1>2. /\ a \in 1..Len(s) /\ b \in a..Len(s) /\ s[a].name = k
      /\ s[a].line = "flag" /\ k \in FlagKeys
  BY <1>1 DEF Stands, FlagLines, IsText, IsFlagFile
<1>3. a \in 1..(Len(s) + 1) /\ b \in (a - 1)..Len(s)
  BY <1>1, <1>2
<1>4. b < Len(s) => s[b + 1].line # "setting"
  BY DEF Stands
<1>5. s[a].line # "setting"
  BY <1>2
<1>6. Splice(s, a..b, new) = Pieced(s, a, b, new)
  BY <1>1, <1>2, SplicedIs
<1>. QED  BY <1>2, <1>3, <1>4, <1>5, <1>6, FlagPut

LEMMA FlagCut ==
    ASSUME NEW s, IsText(s), NEW k, NEW a, NEW b, Stands(s, k, a, b)
    PROVE  \E c : /\ Splice(s, a..b, <<>>) \in Seq(TextLine) /\ a..c = {}
                  /\ Edits(s, Splice(s, a..b, <<>>), a, b, c)
<1>. DEFINE t == Splice(s, a..b, <<>>)
            c == a - 1 + Len(<<>>)
<1>1. /\ Len(s) \in Nat /\ DOMAIN s = 1..Len(s) /\ s \in Seq(TextLine)
      /\ <<>> \in Seq(TextLine) /\ Len(<<>>) = 0
  BY DEF IsText
<1>2. a \in 1..Len(s) /\ b \in a..Len(s) /\ s[a].line = "flag"
  BY <1>1 DEF Stands, FlagLines
<1>3. t \in Seq(TextLine) /\ Replaces(s, t, a, b, c)
  <2>1. a \in 1..(Len(s) + 1) /\ b \in (a - 1)..Len(s)
    BY <1>1, <1>2
  <2>2. t = Pieced(s, a, b, <<>>)
    BY <1>1, <1>2, SplicedIs
  <2>3. /\ Pieced(s, a, b, <<>>) \in Seq(TextLine)
        /\ Replaces(s, Pieced(s, a, b, <<>>), a, b, c)
    BY <1>1, <2>1, PiecedIs
  <2>. QED  BY <2>2, <2>3
<1>. HIDE DEF t
<1>4. c = a - 1 /\ a..c = {} /\ ~(a <= c) /\ ~(a < c) /\ (a + 1)..c = {}
  BY <1>1, <1>2
<1>. HIDE DEF c
<1>5. b < Len(s) => s[b + 1].line # "setting"
  BY DEF Stands
<1>6. AnchorsStem(s, t, a, b, c)
  BY <1>4 DEF AnchorsStem
<1>7. Edits(s, t, a, b, c)
  BY <1>2, <1>3, <1>4, <1>5, <1>6 DEF Edits
<1>. QED  BY <1>3, <1>4, <1>7 DEF t

\* A key in place of another, where it stands.
LEMMA Renamed ==
    ASSUME NEW s, IsText(s), ValidText(s), NEW k, NEW a, NEW b, Stands(s, k, a, b),
           NEW to \in FlagKeys, ~HasFlag(s, to)
    PROVE  /\ IsText(WithKey(s, k, to)) /\ KeysDiffer(WithKey(s, k, to))
           /\ AliasesMeet(WithKey(s, k, to)) /\ MergesMeet(WithKey(s, k, to))
           /\ Stands(WithKey(s, k, to), to, a, b)
           /\ \A t, c : Edits(WithKey(s, k, to), t, a, b, c) => Edits(s, t, a, b, c)
<1>. DEFINE n == WithKey(s, k, to)
<1>1. /\ Len(s) \in Nat /\ DOMAIN s = 1..Len(s) /\ s \in Seq(TextLine)
      /\ \A i \in 1..Len(s) : s[i] \in TextLine
  BY DEF IsText
<1>2. a \in 1..Len(s) /\ b \in a..Len(s) /\ s[a].line = "flag" /\ s[a].name = k
  BY <1>1 DEF Stands, FlagLines
<1>3. KeysDiffer(s) /\ AliasesMeet(s) /\ MergesMeet(s)
  BY DEF ValidText, KeysDiffer, AliasesMeet, MergesMeet, IsMerge
<1>4. n = [s EXCEPT ![a] = [s[a] EXCEPT !.name = to]]
  BY <1>3, BlockIs DEF WithKey
<1>. HIDE DEF n
<1>5. /\ DOMAIN n = 1..Len(s)
      /\ \A i \in 1..Len(s) : i # a => n[i] = s[i]
      /\ n[a] = [s[a] EXCEPT !.name = to]
  BY <1>1, <1>2, <1>4
<1>6. /\ n[a] \in TextLine /\ n[a].line = "flag" /\ n[a].name = to
      /\ SameMark(s[a], n[a])
  <2>1. s[a] \in TextLine /\ to \in FlagKeys
    BY <1>1, <1>2
  <2>. QED  BY <1>2, <1>5, <2>1 DEF TextLine, SameMark
<1>7. n \in Seq(TextLine) /\ Len(n) = Len(s)
  <2>1. \A i \in 1..Len(s) : n[i] \in TextLine
    BY <1>1, <1>5, <1>6
  <2>2. n \in [1..Len(s) -> TextLine]
    BY <1>1, <1>4, <2>1
  <2>. QED  BY <1>1, <2>2
<1>8. \A i \in 1..Len(s) : n[i].line = s[i].line /\ SameMark(s[i], n[i])
                           /\ (i # a => n[i].name = s[i].name)
  BY <1>2, <1>5, <1>6 DEF SameMark
<1>9. IsFlagFile(n)
  <2>1. ASSUME NEW i \in DOMAIN n
        PROVE  /\ n[i].line = "flag" => n[i].name \in FlagKeys
               /\ n[i].line = "setting" =>
                    /\ n[i].name \in ToSet(Settings) \cup {"<<"}
                    /\ n[i].name = "<<" => n[i].form = "alias"
                    /\ i > 1 /\ n[i - 1].line \in {"flag", "setting"}
    <3>1. CASE i = a
      BY <1>6, <3>1
    <3>2. CASE i # a
      <4>1. n[i] = s[i] /\ i \in DOMAIN s
        BY <1>1, <1>5, <3>2
      <4>2. ASSUME s[i].line = "setting" PROVE n[i - 1].line \in {"flag", "setting"}
        <5>1. i > 1 /\ s[i - 1].line \in {"flag", "setting"}
          BY <4>1, <4>2 DEF IsText, IsFlagFile
        <5>2. i - 1 \in 1..Len(s)
          BY <1>1, <4>1, <5>1
        <5>. QED  BY <1>8, <5>1, <5>2
      <4>. QED  BY <4>1, <4>2 DEF IsText, IsFlagFile
    <3>. QED  BY <3>1, <3>2
  <2>. QED  BY <2>1 DEF IsFlagFile
<1>10. IsText(n)
  BY <1>7, <1>9 DEF IsText
<1>11. FlagLines(n) = FlagLines(s) /\ a \in FlagLines(s)
  BY <1>1, <1>2, <1>5, <1>8 DEF FlagLines
<1>12. \A i \in FlagLines(s) : i # a => n[i].name = s[i].name /\ n[i].name # to
  BY <1>1, <1>8 DEF FlagLines, HasFlag
<1>13. KeysDiffer(n)
  BY <1>3, <1>6, <1>11, <1>12 DEF KeysDiffer
<1>14. ASSUME NEW i \in DOMAIN n, n[i].form = "alias" PROVE Anchors(n, i) # {}
  <2>1. i \in DOMAIN s /\ s[i].form = "alias" /\ s[i].anchor = n[i].anchor
    BY <1>1, <1>5, <1>8, <1>14 DEF SameMark
  <2>2. PICK j \in 1..(i - 1) : s[j].form = "anchor" /\ s[j].anchor = s[i].anchor
    BY <1>3, <2>1 DEF AliasesMeet, Anchors
  <2>3. j \in 1..Len(s)
    BY <1>1, <2>1, <2>2
  <2>4. n[j].form = "anchor" /\ n[j].anchor = n[i].anchor
    BY <1>8, <2>1, <2>2, <2>3 DEF SameMark
  <2>. QED  BY <2>2, <2>4 DEF Anchors
<1>15. \A i \in (a + 1)..b : i \in 1..Len(s)
  BY <1>1, <1>2
<1>16. Stands(n, to, a, b)
  <2>1. b < Len(s) => b + 1 \in 1..Len(s)
    BY <1>1, <1>2
  <2>. QED  BY <1>6, <1>7, <1>8, <1>11, <1>15, <2>1 DEF Stands
<1>17. ASSUME NEW t, NEW c, Edits(n, t, a, b, c) PROVE Edits(s, t, a, b, c)
  <2>1. Replaces(s, t, a, b, c)
    <3>1. \A i \in 1..(a - 1) : n[i] = s[i]
      BY <1>1, <1>2, <1>5
    <3>2. \A i \in (b + 1)..Len(s) : n[i] = s[i]
      BY <1>1, <1>2, <1>5
    <3>. QED  BY <1>7, <1>17, <3>1, <3>2 DEF Edits, Replaces
  <2>2. \A i \in a..b : i \in 1..Len(s)
    BY <1>1, <1>2
  <2>3. AnchorsStem(s, t, a, b, c)
    <3>1. PICK from : \A p \in a..c : t[p].form = "anchor" =>
                        \E i \in a..b : from[i] = p /\ SameMark(n[i], t[p])
      BY <1>17 DEF Edits, AnchorsStem
    <3>2. \A p \in a..c : t[p].form = "anchor" =>
            \E i \in a..b : from[i] = p /\ SameMark(s[i], t[p])
      BY <1>8, <2>2, <3>1 DEF SameMark
    <3>. QED  BY <3>2 DEF AnchorsStem
  <2>4. (\E i \in a..b : IsMerge(n[i])) => (\E i \in a..b : IsMerge(s[i]))
    BY <1>6, <1>8, <2>2 DEF IsMerge
  <2>5. b < Len(s) => s[b + 1].line # "setting"
    BY DEF Stands
  <2>6. /\ a < c => t[a].line = "flag"
        /\ a <= c => t[a].line # "setting"
        /\ \A i \in (a + 1)..c : t[i].line = "setting"
        /\ \A i \in a..c : LineFits(t, i)
        /\ (\E i \in a..c : IsMerge(t[i])) => (\E i \in a..b : IsMerge(n[i]))
    BY <1>17 DEF Edits
  <2>. QED  BY <1>2, <2>1, <2>3, <2>4, <2>5, <2>6 DEF Edits
<1>18. ASSUME NEW i \in DOMAIN n, IsMerge(n[i]) PROVE n[Max(Anchors(n, i))].line = "flag"
  <2>1. i \in DOMAIN s /\ n[i] = s[i]
    BY <1>1, <1>5, <1>6, <1>18 DEF IsMerge
  <2>2. Anchors(n, i) = Anchors(s, i)
    <3>1. \A j \in 1..(i - 1) : j \in 1..Len(s)
      BY <1>1, <2>1
    <3>2. \A j \in 1..(i - 1) : n[j].form = s[j].form /\ n[j].anchor = s[j].anchor
      BY <1>8, <3>1 DEF SameMark
    <3>. QED  BY <2>1, <3>2 DEF Anchors
  <2>3. s[i].form = "alias" /\ s[Max(Anchors(s, i))].line = "flag"
    BY <1>3, <1>18, <2>1 DEF IsText, IsFlagFile, MergesMeet, IsMerge
  <2>4. Max(Anchors(s, i)) \in DOMAIN s
    BY <1>3, <2>1, <2>3, AnchorIs
  <2>. QED  BY <1>1, <1>8, <2>2, <2>3, <2>4
<1>. QED  BY <1>10, <1>13, <1>14, <1>16, <1>17, <1>18 DEF n, AliasesMeet, MergesMeet

LEMMA FlagAdded ==
    ASSUME NEW s, IsText(s), NEW k \in FlagKeys, NEW flag, TypedFlag(flag)
    PROVE  \E a, c : /\ AppendFlag(s, k, flag) \in Seq(TextLine)
                     /\ Edits(s, AppendFlag(s, k, flag), a, Len(s), c)
                     /\ Stands(AppendFlag(s, k, flag), k, a, c)
                     /\ c = Len(AppendFlag(s, k, flag))
                     /\ BlanksAre(s, a, Len(s))
<1>. DEFINE kept == {i \in DOMAIN s : s[i].line # "blank"}
            end == IF kept = {} THEN 0 ELSE Max(kept)
            added == SettingsOf(flag, {name \in ToSet(Settings) : flag[name] # Nothing})
            new == <<KeyLine(k)>> \o added
            a == end + 1
<1>1. Len(s) \in Nat /\ DOMAIN s = 1..Len(s) /\ s \in Seq(TextLine)
  BY DEF IsText
<1>2. /\ end \in 0..Len(s)
      /\ \A i \in 1..Len(s) : i > end => s[i].line = "blank"
      /\ end > 0 => s[end].line # "blank"
  <2>1. CASE kept = {}
    BY <1>1, <2>1
  <2>2. CASE kept # {}
    <3>1. kept \in SUBSET (0..Len(s)) /\ kept \in SUBSET (1..Len(s))
      BY <1>1
    <3>2. Max(kept) \in kept /\ \A i \in kept : i <= Max(kept)
      <4>. HIDE DEF kept
      <4>. QED  BY <1>1, <2>2, <3>1, GreatestOf
    <3>3. end = Max(kept)
      BY <2>2
    <3>. HIDE DEF end
    <3>4. end \in 1..Len(s) /\ s[end].line # "blank"
      BY <1>1, <3>2, <3>3
    <3>5. ASSUME NEW i \in 1..Len(s), i > end, s[i].line # "blank" PROVE FALSE
      <4>1. i \in kept
        BY <1>1, <3>5
      <4>2. i <= end
        BY <3>2, <3>3, <4>1
      <4>. QED  BY <1>1, <3>4, <3>5, <4>2
    <3>. QED  BY <1>1, <3>4, <3>5
  <2>. QED  BY <2>1, <2>2
<1>3. AppendFlag(s, k, flag) = SubSeq(s, 1, end) \o <<KeyLine(k)>> \o added
  BY DEF AppendFlag
<1>. HIDE DEF end
<1>4. /\ added \in Seq(TextLine)
      /\ \A m \in 1..Len(added) :
           /\ added[m].line = "setting" /\ added[m].form = "plain"
           /\ added[m].name \in ToSet(Settings)
  <2>1. PICK names : names = {name \in ToSet(Settings) : flag[name] # Nothing}
    OBVIOUS
  <2>2. added = SettingsOf(flag, names)
    BY <2>1
  <2>. HIDE DEF added
  <2>. QED  BY <2>2, SettingsOfIs
<1>. HIDE DEF added
<1>5. <<KeyLine(k)>> \in Seq(TextLine) /\ Len(<<KeyLine(k)>>) = 1 /\ <<KeyLine(k)>>[1] = KeyLine(k)
  BY KeyLineIs
<1>6. /\ new \in Seq(TextLine) /\ Len(new) = 1 + Len(added) /\ Len(added) \in Nat
      /\ DOMAIN new = 1..(1 + Len(added)) /\ new[1] = KeyLine(k)
      /\ \A m \in 1..(1 + Len(added)) : m # 1 => new[m] = added[m - 1]
  <2>. DEFINE head == <<KeyLine(k)>>
  <2>1. head \in Seq(TextLine) /\ Len(head) = 1 /\ head[1] = KeyLine(k)
    BY <1>5
  <2>2. new = head \o added
    OBVIOUS
  <2>. HIDE DEF head, new
  <2>3. /\ head \o added \in Seq(TextLine) /\ Len(head \o added) = Len(head) + Len(added)
        /\ \A m \in 1..(Len(head) + Len(added)) :
             (head \o added)[m] = IF m <= Len(head) THEN head[m] ELSE added[m - Len(head)]
    BY <1>4, <2>1, ConcatProperties
  <2>4. /\ new \in Seq(TextLine) /\ Len(new) = 1 + Len(added) /\ Len(added) \in Nat
        /\ \A m \in 1..(1 + Len(added)) : new[m] = IF m <= 1 THEN head[m] ELSE added[m - 1]
    BY <1>4, <2>1, <2>2, <2>3
  <2>5. DOMAIN new = 1..(1 + Len(added)) /\ 1 \in 1..(1 + Len(added))
    BY <2>4
  <2>6. new[1] = KeyLine(k)
    BY <2>1, <2>4, <2>5
  <2>7. \A m \in 1..(1 + Len(added)) : m # 1 => new[m] = added[m - 1]
    BY <2>4
  <2>. QED  BY <2>4, <2>5, <2>6, <2>7
<1>. HIDE DEF new
<1>7. \A m \in DOMAIN new : m # 1 => /\ new[m].line = "setting" /\ new[m].form = "plain"
                                     /\ new[m].name \in ToSet(Settings)
  <2>1. \A m \in 1..(1 + Len(added)) : m # 1 => m - 1 \in 1..Len(added)
    BY <1>6
  <2>. QED  BY <1>4, <1>6, <2>1
<1>8. new[1].line = "flag" /\ new[1].form = "plain" /\ new[1].name = k
  BY <1>6, KeyLineIs
<1>9. "<<" \notin ToSet(Settings)
  BY SettingNames
<1>10. FlagText(s, k, a, Len(s), new)
  <2>1. 1 \in DOMAIN new
    BY <1>6
  <2>2. \A m \in DOMAIN new : ~IsMerge(new[m]) /\ new[m].form # "anchor"
    BY <1>7, <1>8, <1>9 DEF IsMerge
  <2>. QED  BY <1>6, <1>7, <1>8, <1>9, <2>1, <2>2 DEF FlagText
<1>11. a \in 1..(Len(s) + 1) /\ Len(s) \in (a - 1)..Len(s) /\ a - 1 = end
  BY <1>1, <1>2
<1>12. AppendFlag(s, k, flag) = Pieced(s, a, Len(s), new)
  <2>1. SubSeq(s, 1, end) \in Seq(TextLine)
    BY <1>1, <1>2, SubSeqProperties
  <2>2. SubSeq(s, Len(s) + 1, Len(s)) = <<>>
    BY <1>1, SubSeqEmpty
  <2>3. AppendFlag(s, k, flag) = SubSeq(s, 1, end) \o new
    <3>. DEFINE front == SubSeq(s, 1, end)
                head == <<KeyLine(k)>>
    <3>1. AppendFlag(s, k, flag) = (front \o head) \o added
      BY <1>3
    <3>2. front \in Seq(TextLine) /\ head \in Seq(TextLine)
      BY <1>5, <2>1
    <3>3. new = head \o added
      BY DEF new
    <3>. HIDE DEF a, front, head
    <3>4. (front \o head) \o added = front \o (head \o added)
      BY <1>4, <3>2, ConcatAssociative
    <3>5. AppendFlag(s, k, flag) = front \o new
      BY <3>1, <3>3, <3>4
    <3>. QED  BY <3>5 DEF front
  <2>4. SubSeq(s, 1, end) \o new \in Seq(TextLine)
    BY <1>6, <2>1, ConcatProperties
  <2>5. (SubSeq(s, 1, end) \o new) \o <<>> = SubSeq(s, 1, end) \o new
    BY <2>4, ConcatEmptySeq
  <2>6. Pieced(s, a, Len(s), new) = (SubSeq(s, 1, end) \o new) \o <<>>
    BY <1>11, <2>2 DEF Pieced
  <2>. QED  BY <2>3, <2>5, <2>6
<1>13. \A i \in a..Len(s) : s[i].line = "blank"
  <2>1. \A i \in a..Len(s) : i \in 1..Len(s) /\ i > end
    BY <1>1, <1>2
  <2>. QED  BY <1>2, <2>1
<1>14. a > 1 => s[a - 1].line # "blank"
  BY <1>1, <1>2, <1>11
<1>15. a <= Len(s) => s[a].line # "setting"
  BY <1>1, <1>11, <1>13
<1>. HIDE DEF a
<1>16. PICK c : /\ AppendFlag(s, k, flag) \in Seq(TextLine)
                /\ Edits(s, AppendFlag(s, k, flag), a, Len(s), c)
                /\ Stands(AppendFlag(s, k, flag), k, a, c)
  <2>1. ~(Len(s) < Len(s))
    BY <1>1
  <2>. QED  BY <1>1, <1>10, <1>11, <1>12, <1>15, <2>1, FlagPut
<1>17. c = Len(AppendFlag(s, k, flag))
  <2>1. Len(AppendFlag(s, k, flag)) \in Nat
    BY <1>16
  <2>2. /\ c \in (a - 1)..Len(AppendFlag(s, k, flag))
        /\ Len(AppendFlag(s, k, flag)) - c = Len(s) - Len(s)
    BY <1>16 DEF Edits, Replaces
  <2>. QED  BY <1>1, <1>11, <2>1, <2>2
<1>18. BlanksAre(s, a, Len(s))
  BY <1>13, <1>14 DEF BlanksAre
<1>. QED  BY <1>16, <1>17, <1>18

LEMMA LineAdded ==
    ASSUME NEW s, IsText(s), NEW i \in FlagLines(s) \cup {Len(s) + 1},
           NEW line \in TextLine, IsBlankOrComment(line), line.form = "plain"
    PROVE  /\ InsertAt(s, i, line) \in Seq(TextLine)
           /\ \E b, c : Edits(s, InsertAt(s, i, line), i, b, c)
<1>. DEFINE t == InsertAt(s, i, line)
            b == i - 1
            new == <<line>>
<1>1. Len(s) \in Nat /\ DOMAIN s = 1..Len(s) /\ s \in Seq(TextLine)
  BY DEF IsText
<1>2. i \in 1..(Len(s) + 1) /\ b \in (i - 1)..Len(s) /\ b + 1 = i
  BY <1>1 DEF FlagLines
<1>3. new \in Seq(TextLine) /\ Len(new) = 1 /\ new[1] = line
  OBVIOUS
<1>4. t = Pieced(s, i, b, new)
  BY <1>2 DEF InsertAt, Pieced
<1>. HIDE DEF new, t, b
<1>. DEFINE c == i - 1 + Len(new)
<1>5. t \in Seq(TextLine) /\ Replaces(s, t, i, b, c) /\ PutAt(t, i, new)
  BY <1>1, <1>2, <1>3, <1>4, PiecedIs
<1>6. c = i
  BY <1>2, <1>3
<1>7. t[i] = line
  <2>1. 1 \in 1..Len(new) /\ i - 1 + 1 = i
    BY <1>2, <1>3
  <2>. QED  BY <1>3, <1>5, <2>1 DEF PutAt
<1>. HIDE DEF c
<1>8. t[i].line \in {"blank", "comment"} /\ t[i].form = "plain"
  BY <1>7 DEF IsBlankOrComment
<1>9. b < Len(s) => s[b + 1].line # "setting"
  BY <1>1, <1>2 DEF FlagLines
<1>10. \A p \in i..c : p = i
  BY <1>2, <1>6
<1>11. (i + 1)..c = {} /\ ~(i < c) /\ ~(i <= b)
  BY <1>1, <1>2, <1>6
<1>12. \A p \in i..c : LineFits(t, p) /\ t[p].form # "anchor" /\ ~IsMerge(t[p])
  BY <1>8, <1>10 DEF LineFits, IsMerge
<1>13. AnchorsStem(s, t, i, b, c)
  BY <1>12 DEF AnchorsStem
<1>14. Edits(s, t, i, b, c)
  BY <1>5, <1>8, <1>9, <1>11, <1>12, <1>13 DEF Edits
<1>. QED  BY <1>5, <1>14 DEF t

--------------------------------------------------------------------------------
(***************************************************************************)
(* Each edit replaces the lines of the flags it is about.                  *)
(***************************************************************************)
EditAbout(s, t, keys) ==
    \E a, b, c :
      /\ t \in Seq(TextLine) /\ Edits(s, t, a, b, c)
      /\ \A g \in FlagLines(s) : s[g].name \notin keys => g \notin a..b

LEMMA ValidIs ==
    ASSUME NEW s, ValidText(s)
    PROVE  KeysDiffer(s) /\ AliasesMeet(s) /\ MergesMeet(s)
BY DEF ValidText, KeysDiffer, AliasesMeet, MergesMeet, IsMerge

LEMMA FlagStands ==
    ASSUME NEW s, IsText(s), KeysDiffer(s), NEW k, HasFlag(s, k)
    PROVE  \E a, b : /\ Stands(s, k, a, b) /\ a \in FlagLines(s) /\ s[a].name = k
                     /\ \A f \in FlagLines(s) : s[f].name = k => f = a
                     /\ \A f \in FlagLines(s) : s[f].name # k => f \notin a..b
<1>1. PICK a \in FlagLines(s) : s[a].name = k
  BY DEF HasFlag
<1>2. PICK b \in a..Len(s) : Stands(s, k, a, b)
  BY <1>1, EachStands
<1>3. a \in 1..Len(s) /\ Len(s) \in Nat
  BY DEF FlagLines, IsText
<1>4. ASSUME NEW f \in FlagLines(s), s[f].name # k PROVE f \notin a..b
  <2>1. f \in 1..Len(s) /\ s[f].line = "flag"
    BY DEF FlagLines, IsText
  <2>2. f \notin (a + 1)..b
    BY <1>2, <2>1 DEF Stands
  <2>. QED  BY <1>1, <1>3, <1>4, <2>1, <2>2
<1>. QED  BY <1>1, <1>2, <1>4 DEF KeysDiffer

LEMMA SavedIs ==
    ASSUME NEW s, IsText(s), ValidText(s), NEW k, HasFlag(s, k),
           NEW flag, TypedFlag(flag), NEW t \in Edited(s, k, flag)
    PROVE  EditAbout(s, t, {k}) /\ Without(t, {k}) = Without(s, {k})
<1>1. KeysDiffer(s) /\ AliasesMeet(s)
  BY ValidIs
<1>2. PICK a, b : /\ Stands(s, k, a, b) /\ a \in FlagLines(s) /\ s[a].name = k
                  /\ \A f \in FlagLines(s) : s[f].name = k => f = a
                  /\ \A f \in FlagLines(s) : s[f].name # k => f \notin a..b
  BY <1>1, FlagStands
<1>3. t = Splice(s, a..b, Rendered(s, k, flag))
  BY <1>1, <1>2, BlockIs DEF Edited, SpliceFlag
<1>4. FlagText(s, k, a, b, Rendered(s, k, flag))
  BY <1>1, <1>2, RenderedIs
<1>5. PICK c : t \in Seq(TextLine) /\ Edits(s, t, a, b, c) /\ Stands(t, k, a, c)
  BY <1>2, <1>3, <1>4, FlagSpliced
<1>6. IsText(t)
  BY <1>5, EditedIsText
<1>7. PICK keys : keys = {k}
  OBVIOUS
<1>8. Without(t, keys) = Without(s, keys)
  BY <1>2, <1>5, <1>6, <1>7, FlagReplaced
<1>9. EditAbout(s, t, keys)
  BY <1>2, <1>5, <1>7 DEF EditAbout
<1>. QED  BY <1>7, <1>8, <1>9

LEMMA RenamedIs ==
    ASSUME NEW s, IsText(s), ValidText(s), NEW k, HasFlag(s, k),
           NEW to \in FlagKeys, ~HasFlag(s, to),
           NEW flag, TypedFlag(flag), NEW t \in Edited(WithKey(s, k, to), to, flag)
    PROVE  EditAbout(s, t, {k, to}) /\ Without(t, {k, to}) = Without(s, {k, to})
<1>. DEFINE n == WithKey(s, k, to)
<1>1. KeysDiffer(s) /\ AliasesMeet(s)
  BY ValidIs
<1>2. PICK a, b : /\ Stands(s, k, a, b) /\ a \in FlagLines(s) /\ s[a].name = k
                  /\ \A f \in FlagLines(s) : s[f].name = k => f = a
                  /\ \A f \in FlagLines(s) : s[f].name # k => f \notin a..b
  BY <1>1, FlagStands
<1>3. /\ IsText(n) /\ KeysDiffer(n) /\ AliasesMeet(n) /\ Stands(n, to, a, b)
      /\ \A u, c : Edits(n, u, a, b, c) => Edits(s, u, a, b, c)
  BY <1>2, Renamed
<1>. HIDE DEF n
<1>4. t = Splice(n, a..b, Rendered(n, to, flag))
  BY <1>3, BlockIs DEF Edited, SpliceFlag, n
<1>5. FlagText(n, to, a, b, Rendered(n, to, flag))
  BY <1>3, RenderedIs
<1>6. PICK c : t \in Seq(TextLine) /\ Edits(n, t, a, b, c) /\ Stands(t, to, a, c)
  BY <1>3, <1>4, <1>5, FlagSpliced
<1>7. Edits(s, t, a, b, c)
  BY <1>3, <1>6
<1>8. IsText(t)
  BY <1>6, <1>7, EditedIsText
<1>9. PICK keys : keys = {k, to}
  OBVIOUS
<1>10. \A f \in FlagLines(s) : s[f].name \in keys => f = a
  BY <1>2, <1>9 DEF HasFlag
<1>11. Without(t, keys) = Without(s, keys)
  BY <1>2, <1>6, <1>7, <1>8, <1>9, <1>10, FlagReplaced
<1>12. EditAbout(s, t, keys)
  BY <1>2, <1>6, <1>7, <1>9 DEF EditAbout
<1>. QED  BY <1>9, <1>11, <1>12

LEMMA DeletedIs ==
    ASSUME NEW s, IsText(s), ValidText(s), NEW k, HasFlag(s, k)
    PROVE  /\ EditAbout(s, SpliceDelete(s, k), {k})
           /\ Without(SpliceDelete(s, k), {k}) = Without(s, {k})
<1>1. KeysDiffer(s)
  BY ValidIs
<1>2. PICK a, b : /\ Stands(s, k, a, b) /\ a \in FlagLines(s) /\ s[a].name = k
                  /\ \A f \in FlagLines(s) : s[f].name = k => f = a
                  /\ \A f \in FlagLines(s) : s[f].name # k => f \notin a..b
  BY <1>1, FlagStands
<1>3. PICK t : t = SpliceDelete(s, k)
  OBVIOUS
<1>4. t = Splice(s, a..b, <<>>)
  BY <1>1, <1>2, <1>3, BlockIs DEF SpliceDelete
<1>5. PICK c : t \in Seq(TextLine) /\ a..c = {} /\ Edits(s, t, a, b, c)
  BY <1>2, <1>4, FlagCut
<1>6. IsText(t)
  BY <1>5, EditedIsText
<1>7. Without(t, {k}) = Without(s, {k})
  BY <1>2, <1>5, <1>6, FlagRemoved
<1>8. PICK keys : keys = {k}
  OBVIOUS
<1>9. EditAbout(s, t, keys)
  BY <1>2, <1>5, <1>8 DEF EditAbout
<1>. QED  BY <1>3, <1>7, <1>8, <1>9

LEMMA CreatedIs ==
    ASSUME NEW s, IsText(s), NEW k \in FlagKeys, ~HasFlag(s, k),
           NEW flag, TypedFlag(flag)
    PROVE  /\ EditAbout(s, AppendFlag(s, k, flag), {k})
           /\ Without(AppendFlag(s, k, flag), {k}) = Without(s, {k})
<1>1. PICK t : t = AppendFlag(s, k, flag)
  OBVIOUS
<1>2. PICK a, c : /\ t \in Seq(TextLine) /\ Edits(s, t, a, Len(s), c)
                  /\ Stands(t, k, a, c) /\ c = Len(t)
                  /\ BlanksAre(s, a, Len(s))
  BY <1>1, FlagAdded
<1>3. IsText(t)
  BY <1>2, EditedIsText
<1>4. Without(t, {k}) = Without(s, {k})
  <2>1. PICK b : b = Len(s)
    OBVIOUS
  <2>2. Edits(s, t, a, b, c) /\ BlanksAre(s, a, b)
    BY <1>2, <2>1
  <2>. QED  BY <1>2, <1>3, <2>1, <2>2, FlagAppended
<1>5. \A g \in FlagLines(s) : g \notin a..Len(s)
  BY <1>2 DEF FlagLines, BlanksAre
<1>6. EditAbout(s, t, {k})
  BY <1>2, <1>5 DEF EditAbout
<1>. QED  BY <1>1, <1>4, <1>6

LEMMA WrittenIs ==
    ASSUME NEW s, IsText(s), NEW i \in FlagLines(s) \cup {Len(s) + 1},
           NEW line \in TextLine, IsBlankOrComment(line), line.form = "plain"
    PROVE  EditAbout(s, InsertAt(s, i, line), FlagKeys)
<1>1. PICK t : t = InsertAt(s, i, line)
  OBVIOUS
<1>2. PICK b, c : t \in Seq(TextLine) /\ Edits(s, t, i, b, c)
  BY <1>1, LineAdded
<1>3. \A g \in FlagLines(s) : s[g].name \in FlagKeys
  BY DEF FlagLines, IsText, IsFlagFile
<1>4. EditAbout(s, t, FlagKeys)
  BY <1>2, <1>3 DEF EditAbout
<1>. QED  BY <1>1, <1>4

--------------------------------------------------------------------------------
(***************************************************************************)
(* The file stays the text of a flag file, which yaml.v3 and GOFF take.    *)
(***************************************************************************)
TextInv == TextTypeOK /\ IsText(lines) /\ ValidText(lines)

LEMMA PutsKeeps ==
    ASSUME TextInv, NEW keys \in SUBSET FlagKeys, NEW some,
           NEW text, EditAbout(lines, text, some), Puts(text, keys)
    PROVE  TextInv'
<1>1. PICK a, b, c : text \in Seq(TextLine) /\ Edits(lines, text, a, b, c)
  BY DEF EditAbout
<1>2. IsText(text)
  BY <1>1, EditedIsText DEF TextInv
<1>3. textEdits \in 0..MaxTextEdits /\ textEdits < MaxTextEdits /\ MaxTextEdits \in Nat
  BY TextAssumption DEF TextInv, TextTypeOK, Puts
<1>4. textEdits + 1 \in 0..MaxTextEdits
  BY <1>3
<1>5. lines' = text /\ textEdits' = textEdits + 1 /\ about' = keys /\ ValidText(text)
  BY DEF Puts
<1>6. ValidText(lines')
  BY <1>5
<1>7. IsText(lines')
  BY <1>2, <1>5
<1>. QED  BY <1>4, <1>5, <1>6, <1>7 DEF TextInv, TextTypeOK, IsText, ValidText

\* What a step of Studio does, and what one between flags does.
LEMMA TextSteps ==
    ASSUME TextInv, TextNext
    PROVE  /\ TextInv'
           /\ \E keys : EditAbout(lines, lines', keys)
           /\ about' # {} => /\ EditAbout(lines, lines', about')
                             /\ Without(lines', about') = Without(lines, about')
<1>1. IsText(lines) /\ ValidText(lines) /\ KeysDiffer(lines) /\ AliasesMeet(lines) /\ MergesMeet(lines)
  BY ValidIs DEF TextInv
<1>2. ASSUME NEW keys \in SUBSET FlagKeys, NEW text, EditAbout(lines, text, keys),
             Without(text, keys) = Without(lines, keys), Puts(text, keys)
      PROVE  /\ TextInv'
             /\ EditAbout(lines, lines', keys)
             /\ about' = keys /\ Without(lines', keys) = Without(lines, keys)
  <2>1. lines' = text /\ about' = keys
    BY <1>2 DEF Puts
  <2>2. TextInv'
    BY <1>2, PutsKeeps
  <2>. QED  BY <1>2, <2>1, <2>2
<1>3. textEdits + 1 \in TextValues \/ ~(textEdits < MaxTextEdits)
  BY TextAssumption DEF TextInv, TextTypeOK, TextValues
<1>4. ToSet(Settings) = {"variations", "disable", "metadata"}
  BY SettingNames
<1>5. ASSUME NEW k \in FlagKeys, SaveSetting(k)
      PROVE  /\ TextInv' /\ EditAbout(lines, lines', about')
             /\ Without(lines', about') = Without(lines, about')
  <2>1. PICK flag \in {[ReadFlag(lines, k) EXCEPT !.variations = v, !.metadata = textEdits + 1] :
                         v \in FlagValues}
                      \cup {[ReadFlag(lines, k) EXCEPT !.disable = d, !.metadata = textEdits + 1] :
                              d \in {Yes, Nothing}} :
               HasFlag(lines, k) /\ \E text \in Edited(lines, k, flag) : Puts(text, {k})
    BY <1>5 DEF SaveSetting
  <2>2. PICK text \in Edited(lines, k, flag) : Puts(text, {k})
    BY <2>1
  <2>3. TypedFlag(ReadFlag(lines, k))
    BY <1>1, <2>1, FlagType DEF HasFlag
  <2>4. textEdits + 1 \in TextValues
    BY <1>3, <2>2 DEF Puts
  <2>5. TypedFlag(flag)
    <3>. DEFINE read == ReadFlag(lines, k)
    <3>1. DOMAIN read = ToSet(Settings)
      BY DEF ReadFlag
    <3>. HIDE DEF read
    <3>2. ASSUME NEW name \in ToSet(Settings), NEW v \in TextValues,
                 flag = [read EXCEPT !.variations = v, !.metadata = textEdits + 1]
          PROVE  flag[name] \in TextValues
      BY <2>3, <2>4, <3>1, <3>2 DEF TypedFlag, read
    <3>3. ASSUME NEW name \in ToSet(Settings), NEW v \in TextValues,
                 flag = [read EXCEPT !.disable = v, !.metadata = textEdits + 1]
          PROVE  flag[name] \in TextValues
      BY <2>3, <2>4, <3>1, <3>3 DEF TypedFlag, read
    <3>4. \E v \in TextValues : \/ flag = [read EXCEPT !.variations = v, !.metadata = textEdits + 1]
                                \/ flag = [read EXCEPT !.disable = v, !.metadata = textEdits + 1]
      BY <2>1 DEF read, TextValues
    <3>. QED  BY <3>2, <3>3, <3>4 DEF TypedFlag
  <2>6. EditAbout(lines, text, {k}) /\ Without(text, {k}) = Without(lines, {k})
    BY <1>1, <2>1, <2>2, <2>5, SavedIs
  <2>. QED  BY <1>2, <2>2, <2>6
<1>6. ASSUME NEW k \in FlagKeys, CreateFlag(k)
      PROVE  /\ TextInv' /\ EditAbout(lines, lines', about')
             /\ Without(lines', about') = Without(lines, about')
  <2>1. PICK v \in FlagValues, d \in {Yes, Nothing} :
          Puts(AppendFlag(lines, k, [variations |-> v, disable |-> d,
                                     metadata |-> textEdits + 1]), {k})
    BY <1>6 DEF CreateFlag
  <2>2. PICK flag : flag = [variations |-> v, disable |-> d, metadata |-> textEdits + 1]
    OBVIOUS
  <2>3. textEdits + 1 \in TextValues
    BY <1>3, <2>1 DEF Puts
  <2>4. TypedFlag(flag)
    BY <1>4, <2>2, <2>3 DEF TypedFlag, TextValues
  <2>5. /\ EditAbout(lines, AppendFlag(lines, k, flag), {k})
        /\ Without(AppendFlag(lines, k, flag), {k}) = Without(lines, {k})
    BY <1>1, <1>6, <2>4, CreatedIs DEF CreateFlag
  <2>. QED  BY <1>2, <2>1, <2>2, <2>5
<1>7. ASSUME NEW k \in FlagKeys, DeleteFlag(k)
      PROVE  /\ TextInv' /\ EditAbout(lines, lines', about')
             /\ Without(lines', about') = Without(lines, about')
  <2>1. HasFlag(lines, k) /\ Puts(SpliceDelete(lines, k), {k})
    BY <1>7 DEF DeleteFlag
  <2>2. /\ EditAbout(lines, SpliceDelete(lines, k), {k})
        /\ Without(SpliceDelete(lines, k), {k}) = Without(lines, {k})
    BY <1>1, <2>1, DeletedIs
  <2>. QED  BY <1>2, <2>1, <2>2
<1>8. ASSUME NEW k \in FlagKeys, NEW to \in FlagKeys, RenameFlag(k, to)
      PROVE  /\ TextInv' /\ EditAbout(lines, lines', about')
             /\ Without(lines', about') = Without(lines, about')
  <2>. DEFINE named == WithKey(lines, k, to)
              flag == [ReadFlag(named, to) EXCEPT !.metadata = textEdits + 1]
  <2>1. PICK text \in Edited(named, to, flag) : Puts(text, {k, to})
    BY <1>8 DEF RenameFlag
  <2>2. HasFlag(lines, k) /\ ~HasFlag(lines, to)
    BY <1>8 DEF RenameFlag
  <2>3. PICK a, b : Stands(lines, k, a, b)
    BY <1>1, <2>2, FlagStands
  <2>4. /\ IsText(named) /\ KeysDiffer(named) /\ AliasesMeet(named) /\ MergesMeet(named)
        /\ Stands(named, to, a, b)
    BY <1>1, <2>2, <2>3, Renamed
  <2>5. TypedFlag(ReadFlag(named, to))
    <3>. HIDE DEF named
    <3>. QED  BY <2>4, FlagType DEF Stands
  <2>6. textEdits + 1 \in TextValues
    BY <1>3, <2>1 DEF Puts
  <2>7. TypedFlag(flag)
    <3>. DEFINE read == ReadFlag(named, to)
    <3>1. DOMAIN read = ToSet(Settings)
      BY DEF ReadFlag
    <3>. HIDE DEF read
    <3>2. flag = [read EXCEPT !.metadata = textEdits + 1]
      BY DEF read
    <3>. HIDE DEF flag
    <3>. QED  BY <2>5, <2>6, <3>1, <3>2 DEF TypedFlag, read
  <2>. HIDE DEF flag
  <2>8. EditAbout(lines, text, {k, to}) /\ Without(text, {k, to}) = Without(lines, {k, to})
    BY <1>1, <2>1, <2>2, <2>7, RenamedIs
  <2>. QED  BY <1>2, <2>1, <2>8
<1>9. ASSUME WriteBetweenFlags
      PROVE  TextInv' /\ EditAbout(lines, lines', FlagKeys) /\ about' = {}
  <2>1. PICK i \in FlagLines(lines) \cup {Len(lines) + 1},
             line \in {CommentLine(textEdits + 1), BlankLine(textEdits + 1)} :
          Puts(InsertAt(lines, i, line), {})
    BY <1>9 DEF WriteBetweenFlags
  <2>2. textEdits + 1 \in TextValues
    BY <1>3, <2>1 DEF Puts
  <2>3. line \in TextLine /\ IsBlankOrComment(line) /\ line.form = "plain"
    BY <2>2 DEF CommentLine, BlankLine, Line, TextLine, TextValues, IsBlankOrComment
  <2>4. PICK text : text = InsertAt(lines, i, line)
    OBVIOUS
  <2>5. EditAbout(lines, text, FlagKeys)
    BY <1>1, <2>3, <2>4, WrittenIs
  <2>6. Puts(text, {})
    BY <2>1, <2>4
  <2>7. TextInv'
    BY <2>5, <2>6, PutsKeeps
  <2>. QED  BY <2>5, <2>6, <2>7 DEF Puts
<1>. QED  BY <1>5, <1>6, <1>7, <1>8, <1>9 DEF TextNext

(***************************************************************************)
(* Whatever is edited how often, and refused or not: the file stays one    *)
(* that Parse of yamldoc.go and GOFF take, each flag once, its settings    *)
(* under its key, and every alias after what it refers to.                 *)
(***************************************************************************)
THEOREM TextInvariance == TextSpec => []TextInv
<1>1. TextInit => TextInv
  BY TextAssumption DEF TextInit, TextInv, TextTypeOK, IsText
<1>2. TextInv /\ [TextNext]_textVars => TextInv'
  <2>1. TextInv /\ TextNext => TextInv'
    BY TextSteps
  <2>2. TextInv /\ UNCHANGED textVars => TextInv'
    BY DEF TextInv, TextTypeOK, IsText, IsFlagFile, ValidText, textVars
  <2>. QED  BY <2>1, <2>2
<1>. QED  BY <1>1, <1>2, PTL DEF TextSpec

(***************************************************************************)
(* Every line an edit renders has the type of the lines it parsed.         *)
(***************************************************************************)
THEOREM TextTypes == TextSpec => []TextTypeOK
<1>1. TextInv => TextTypeOK
  BY DEF TextInv
<1>. QED  BY <1>1, TextInvariance, PTL

(***************************************************************************)
(* README.md:444, "a save that touches one flag produces a diff that       *)
(* touches only that flag": Splice and appendFlag of yamldoc.go leave the  *)
(* text of every other flag, and all that stands between flags, as and     *)
(* where it is, for files of any length with any anchors and aliases.      *)
(***************************************************************************)
THEOREM OthersAlwaysKeepTheirText == TextSpec => OthersKeepTheirText
<1>1. TextInv /\ [TextNext]_textVars =>
        [about' # {} => Without(lines', about') = Without(lines, about')]_textVars
  BY TextSteps
<1>. QED  BY <1>1, TextInvariance, PTL DEF TextSpec, OthersKeepTheirText

NothingShared == NoMerges(lines) /\ AnchorsDiffer(lines)

(***************************************************************************)
(* yamldoc.go:369, an edit does not "silently change" another flag through *)
(* an anchor: where no flag takes over another's settings, and no anchor   *)
(* is named twice, every other flag reads as it did, whatever aliases it   *)
(* has.  Neither hypothesis can go: with either of the two texts of        *)
(* MCSplice, TLC finds the property violated.                              *)
(***************************************************************************)
THEOREM OthersAlwaysKeepTheirMeaning ==
    ASSUME \A text \in FirstTexts : NoMerges(text) /\ AnchorsDiffer(text)
    PROVE  TextSpec => OthersKeepTheirMeaning
<1>1. TextInit => NothingShared
  BY DEF TextInit, NothingShared
<1>2. TextInv /\ NothingShared /\ [TextNext]_textVars => NothingShared'
  <2>1. SUFFICES ASSUME TextInv, NothingShared, TextNext PROVE NothingShared'
    BY DEF NothingShared, NoMerges, AnchorsDiffer, textVars
  <2>2. PICK t : t = lines'
    OBVIOUS
  <2>3. PICK keys : EditAbout(lines, t, keys)
    BY <2>1, <2>2, TextSteps
  <2>4. PICK a, b, c : t \in Seq(TextLine) /\ Edits(lines, t, a, b, c)
    BY <2>3 DEF EditAbout
  <2>5. IsText(lines) /\ IsText(t)
    BY <2>1, <2>4, EditedIsText DEF TextInv
  <2>6. NoMerges(t) /\ AnchorsDiffer(t)
    BY <2>1, <2>4, <2>5, AnchorsStay DEF NothingShared
  <2>. QED  BY <2>2, <2>6 DEF NothingShared, NoMerges, AnchorsDiffer
<1>3. TextInv /\ TextInv' /\ NothingShared /\ [TextNext]_textVars =>
        [about' # {} =>
           \A k \in FlagKeys \ about' : HasFlag(lines, k) =>
             HasFlag(lines', k) /\ ReadFlag(lines', k) = ReadFlag(lines, k)]_textVars
  <2>1. SUFFICES ASSUME TextInv, TextInv', NothingShared, TextNext, about' # {},
                        NEW k \in FlagKeys \ about', HasFlag(lines, k)
                 PROVE  HasFlag(lines', k) /\ ReadFlag(lines', k) = ReadFlag(lines, k)
    OBVIOUS
  <2>2. PICK t : t = lines'
    OBVIOUS
  <2>3. EditAbout(lines, t, about')
    BY <2>1, <2>2, TextSteps
  <2>4. PICK a, b, c :
          /\ Edits(lines, t, a, b, c)
          /\ \A g \in FlagLines(lines) : lines[g].name \notin about' => g \notin a..b
    BY <2>3 DEF EditAbout
  <2>5. IsText(lines) /\ KeysDiffer(lines) /\ AliasesMeet(lines)
    BY <2>1, ValidIs DEF TextInv
  <2>6. IsText(t) /\ ValidText(t)
    BY <2>1, <2>2 DEF TextInv, IsText, IsFlagFile, ValidText
  <2>7. KeysDiffer(t) /\ AliasesMeet(t)
    BY <2>6, ValidIs
  <2>8. PICK g \in FlagLines(lines) : lines[g].name = k
    BY <2>1 DEF HasFlag
  <2>9. g \notin a..b
    BY <2>1, <2>4, <2>8
  <2>10. NoMerges(lines) /\ AnchorsDiffer(lines)
    BY <2>1 DEF NothingShared
  <2>11. HasFlag(t, k) /\ ReadFlag(t, k) = ReadFlag(lines, k)
    BY <2>4, <2>5, <2>6, <2>7, <2>8, <2>9, <2>10, MeaningStays
  <2>. QED  BY <2>2, <2>11
<1>. QED  BY <1>1, <1>2, <1>3, TextInvariance, PTL DEF TextSpec, OthersKeepTheirMeaning
===============================================================================
