----------------------------- MODULE FileBackend -----------------------------
(***************************************************************************)
(* storage.FileBackend: Write and CreateFile on one file of a local        *)
(* directory.  Nothing is conditional here: the file is read, the edit     *)
(* applied, the result written to <path>.tmp and renamed over the file     *)
(* (writeAtomic).  All writers share the name <path>.tmp, so what a rename *)
(* moves need not be what its caller wrote.                                *)
(*                                                                         *)
(* Files are inodes: disk[i] is what inode i holds, and a name points to   *)
(* one.  The requests are saves of one flag each, from a page that showed  *)
(* the file, and creations; a save stamps the flag, so it always has       *)
(* something to write.                                                     *)
(***************************************************************************)
EXTENDS Naturals, Sequences

CONSTANTS
    Key,
    Request,    \* one save or creation each
    Original,   \* who set the flags there from the start
    Nobody,     \* the key is not in the file
    NoFile,     \* the name points to no inode
    Blank,      \* a file of no bytes
    Mixed       \* bytes that no edit made: a torn or an overwritten write

Author == Request \cup {Original}
Content == [Key -> Author \cup {Nobody}]
Bytes == Content \cup {Blank, Mixed}

ASSUME FileAssumption ==
    /\ Original \notin Request /\ Nobody \notin Author
    /\ Blank \notin Content /\ Mixed \notin Content /\ Blank # Mixed
    /\ NoFile \notin Nat

VARIABLES
    disk,       \* the inodes
    live,       \* the inode <path> names, or NoFile
    tmp,        \* the inode <path>.tmp names, or NoFile
    pc,         \* pc[r]: the call r makes next
    key,        \* key[r]: the flag r sets
    shown,      \* shown[r]: what r's page showed
    next,       \* next[r]: the content r is writing
    fd,         \* fd[r]: the inode r has open
    outcome,    \* outcome[r]: what Write or CreateFile returned
    log,        \* history: what was renamed into place, and by whom
    overlapped  \* history: two calls have been under way at once

fvars == <<disk, live, tmp, pc, key, shown, next, fd, outcome, log, overlapped>>

Outcome == {"none", "saved", "conflict", "exists", "failed"}

FileTypeOK ==
    /\ disk \in Seq(Bytes)
    /\ live \in {NoFile} \cup DOMAIN disk
    /\ tmp \in {NoFile} \cup DOMAIN disk
    /\ pc \in [Request -> {"idle", "read", "stat", "open", "write", "rename", "done"}]
    /\ key \in [Request -> Key]
    /\ shown \in [Request -> Content]
    /\ next \in [Request -> Content]
    /\ fd \in [Request -> Nat]
    /\ outcome \in [Request -> Outcome]
    /\ log \in Seq([by: Author, content: Bytes])
    /\ overlapped \in BOOLEAN

Empty == [k \in Key |-> Nobody]

Init ==
    /\ \/ disk = <<>> /\ live = NoFile /\ log = <<>>
       \/ \E content \in [Key -> {Original}] :
            /\ disk = <<content>> /\ live = 1
            /\ log = <<[by |-> Original, content |-> content]>>
    /\ tmp = NoFile
    /\ pc = [r \in Request |-> "idle"]
    /\ key \in [Request -> Key]
    /\ shown = [r \in Request |-> Empty]
    /\ next = [r \in Request |-> Empty]
    /\ fd = [r \in Request |-> 0]
    /\ outcome = [r \in Request |-> "none"]
    /\ overlapped = FALSE

UnderWay == {r \in Request : pc[r] \in {"open", "write", "rename"}}

Goto(r, there) == pc' = [pc EXCEPT ![r] = there] /\ UNCHANGED outcome
Return(r, o) ==
    /\ pc' = [pc EXCEPT ![r] = "done"]
    /\ outcome' = [outcome EXCEPT ![r] = o]

-----------------------------------------------------------------------------
(* The user has a page of the file before them and saves a flag on it.     *)
Save(r) ==
    /\ pc[r] = "idle"
    /\ live # NoFile
    /\ disk[live] \in Content
    /\ disk[live][key[r]] # Nobody
    /\ shown' = [shown EXCEPT ![r] = disk[live]]
    /\ Goto(r, "read")
    /\ UNCHANGED <<disk, live, tmp, key, next, fd, log, overlapped>>

(* The file of a team's first flag.                                        *)
CreateFile(r) ==
    /\ pc[r] = "idle"
    /\ live = NoFile
    /\ Goto(r, "stat")
    /\ UNCHANGED <<disk, live, tmp, key, shown, next, fd, log, overlapped>>

Begin(r, content) ==
    /\ next' = [next EXCEPT ![r] = content]
    /\ overlapped' = (overlapped \/ UnderWay # {})
    /\ Goto(r, "open")

(* What Apply is given.                                                    *)
Base(r) == disk[live]

(* ReadFile, the version check with Changed, and Apply.                    *)
Write(r) ==
    /\ pc[r] = "read"
    /\ \/ /\ disk[live] \in Content
          /\ disk[live][key[r]] = shown[r][key[r]]
          /\ Begin(r, [Base(r) EXCEPT ![key[r]] = r])
       \/ /\ disk[live] \in Content => disk[live][key[r]] # shown[r][key[r]]
          /\ Return(r, "conflict")
          /\ UNCHANGED <<next, overlapped>>
    /\ UNCHANGED <<disk, live, tmp, key, shown, fd, log>>

(* os.Stat, in CreateFile.                                                 *)
Stat(r) ==
    /\ pc[r] = "stat"
    /\ \/ /\ live = NoFile
          /\ Begin(r, [Empty EXCEPT ![key[r]] = r])
       \/ /\ live # NoFile
          /\ Return(r, "exists")
          /\ UNCHANGED <<next, overlapped>>
    /\ UNCHANGED <<disk, live, tmp, key, shown, fd, log>>

-----------------------------------------------------------------------------
(***************************************************************************)
(* writeAtomic: os.WriteFile opens <path>.tmp with O_CREATE and O_TRUNC,   *)
(* writes and closes; os.Rename moves whatever that name points to.        *)
(***************************************************************************)

(* SEEDED FAULT: the file is opened in place of <path>.tmp.                *)
OpenInPlace(r) ==
    /\ pc[r] = "open"
    /\ live # NoFile
    /\ disk' = [disk EXCEPT ![live] = Blank]
    /\ tmp' = live
    /\ fd' = [fd EXCEPT ![r] = live]
    /\ Goto(r, "write")
    /\ UNCHANGED <<live, key, shown, next, log, overlapped>>

Open(r) ==
    /\ pc[r] = "open"
    /\ \/ /\ tmp = NoFile
          /\ disk' = Append(disk, Blank)
          /\ tmp' = Len(disk')
          /\ fd' = [fd EXCEPT ![r] = Len(disk')]
       \/ /\ tmp # NoFile
          /\ disk' = [disk EXCEPT ![tmp] = Blank]
          /\ fd' = [fd EXCEPT ![r] = tmp]
          /\ UNCHANGED tmp
    /\ Goto(r, "write")
    /\ UNCHANGED <<live, key, shown, next, log, overlapped>>

(* Over bytes that are already there, the longer content's tail remains.   *)
Written(r) ==
    IF disk[fd[r]] = Blank THEN {next[r]} ELSE {next[r], Mixed}

WriteTemp(r) ==
    /\ pc[r] = "write"
    /\ \E bytes \in Written(r) : disk' = [disk EXCEPT ![fd[r]] = bytes]
    /\ Goto(r, "rename")
    /\ UNCHANGED <<live, tmp, key, shown, next, fd, log, overlapped>>

(* The disk is full; some of it is written.                                *)
WriteTempFails(r) ==
    /\ pc[r] = "write"
    /\ disk' = [disk EXCEPT ![fd[r]] = Mixed]
    /\ Return(r, "failed")
    /\ UNCHANGED <<live, tmp, key, shown, next, fd, log, overlapped>>

Rename(r) ==
    /\ pc[r] = "rename"
    /\ \/ /\ tmp # NoFile
          /\ live' = tmp
          /\ tmp' = NoFile
          /\ log' = Append(log, [by |-> r, content |-> disk[tmp]])
          /\ Return(r, "saved")
       \/ /\ tmp = NoFile
          /\ Return(r, "failed")
          /\ UNCHANGED <<live, tmp, log>>
    /\ UNCHANGED <<disk, key, shown, next, fd, overlapped>>

(* The process is killed: nobody removes <path>.tmp, and the write under   *)
(* way may be cut short.                                                   *)
Crash ==
    /\ UnderWay # {}
    /\ pc' = [r \in Request |-> IF r \in UnderWay THEN "done" ELSE pc[r]]
    /\ outcome' = [r \in Request |-> IF r \in UnderWay THEN "failed" ELSE outcome[r]]
    /\ disk' \in {[i \in DOMAIN disk |->
                     IF i \in torn THEN Mixed ELSE disk[i]] :
                    torn \in SUBSET {fd[r] : r \in {w \in Request : pc[w] = "write"}}}
    /\ UNCHANGED <<live, tmp, key, shown, next, fd, log, overlapped>>

Next ==
    \/ \E r \in Request :
         \/ Save(r) \/ CreateFile(r) \/ Write(r) \/ Stat(r)
         \/ Open(r) \/ WriteTemp(r) \/ WriteTempFails(r) \/ Rename(r)
    \/ Crash

FileSpec == Init /\ [][Next]_fvars
-----------------------------------------------------------------------------
(***************************************************************************)
(* Properties.                                                             *)
(***************************************************************************)
OnlyWholeFiles == live # NoFile => disk[live] \in Content

(* "Studio never commits a file that fails" GOFF's validation              *)
(* (README.md:450): what is put in place is never bytes that nothing       *)
(* validated, the beginning of one file and the end of another.            *)
NoMixedFile == live # NoFile => disk[live] # Mixed

(* Each file put in place is one edit away from the one before it, so that *)
(* an edit to another flag is never lost: "re-apply to fresh content and   *)
(* commit" (README.md:422).                                                *)
EditsBuildOn ==
    \A i \in 2..Len(log) : \E k \in Key :
        /\ log[i - 1].content \in Content
        /\ log[i].content = [log[i - 1].content EXCEPT ![k] = log[i].by]

(* While calls come one at a time, the file is whole in every state, even  *)
(* if the process is killed or the disk fills up half way: the temporary   *)
(* file and the rename.                                                    *)
WholeWhenAlone == ~overlapped => OnlyWholeFiles

(* And each save keeps what the saves before it did, also when the page it *)
(* came from is older than they are.                                       *)
NothingLostWhenAlone == ~overlapped => EditsBuildOn

(* Called by one user at a time, the file backend is as safe as the others.*)
SafeWhenAlone == WholeWhenAlone /\ NothingLostWhenAlone
=============================================================================
