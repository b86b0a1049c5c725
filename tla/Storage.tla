-------------------------------- MODULE Storage --------------------------------
(***************************************************************************)
(* What is kept in flash: the file commands of FilesystemLittleFS.cpp, the *)
(* objects of Utl/Flashable.h, and the check of App.h that erases all of   *)
(* it when the firmware is another one than before.                        *)
(*                                                                         *)
(* A command is the calls to littlefs it makes, in `todo`.  Each of these  *)
(* happens in one step, as littlefs promises: a file is created (empty) by *)
(* lfs_file_open, and what is written comes into being at lfs_file_close.  *)
(* Only lfs_format takes two.  Power may fail between any two steps, and   *)
(* any firmware may be there when it comes back.  Every call may fail, at  *)
(* the start of the application too, but for lfs_format.                   *)
(***************************************************************************)
EXTENDS Sequences, FiniteSets

CONSTANTS
  Firmwares,    \* versions of the firmware, as GetVersionAsInt() tells them
  Ids,          \* ids of the application's Flashables, as file names
  Names,        \* other files
  Values,       \* what objects and files hold
  VersionId,    \* "special NVS slot 0", where the version is
  NoFile, Empty,
  Junk          \* zeros, or parts of this and that

ASSUME StorageAssumption ==
  /\ VersionId \notin Ids \cup Names /\ Ids \cap Names = {}
  /\ Empty # Junk /\ {Empty, Junk} \cap (Values \cup {VersionId}) = {}
  /\ NoFile \notin [by : Firmwares, data : Values \cup {Empty, Junk, VersionId}]

VARIABLES
  firmware,    \* the version that is in flash
  phase,       \* off, mount, check, store, run
  formatted,   \* is there a file system?
  files,       \* and its files: who wrote what, or NoFile
  todo,        \* calls to littlefs still to be made
  file,        \* the open file's contents, not yet on flash
  promised,    \* what each Flashable may be found to hold
  moved,       \* the last Move since other commands: [from, to, what], or NoFile
  unnoticed,   \* did the command go on after a call that failed?
  trouble,     \* has storing the version failed, or lfs.format erased it?
  kept         \* what it left when it stopped without, until it runs again

vars == <<firmware, phase, formatted, files, todo, file, promised, moved, unnoticed, trouble, kept>>

Paths == Ids \cup Names \cup {VersionId}
NoFiles == [p \in Paths |-> NoFile]

Init ==
  /\ firmware \in Firmwares /\ phase = "off"
  /\ formatted = FALSE /\ files = NoFiles
  /\ todo = <<>> /\ file = NoFile
  /\ promised = [i \in Ids |-> {NoFile}] /\ moved = NoFile /\ kept = NoFile
  /\ unnoticed = FALSE /\ trouble = FALSE

-----------------------------------------------------------------------------
(* littlefs, and what is made of it.                                       *)

Remove(p) == <<[op |-> "remove", path |-> p]>>
Touch(p) == <<[op |-> "open", path |-> p], [op |-> "close", path |-> p]>>
Store(p, d) == <<[op |-> "open", path |-> p], [op |-> "write", path |-> p, data |-> d],
                 [op |-> "close", path |-> p]>>
Trunc(p) == <<[op |-> "open", path |-> p], [op |-> "trunc", path |-> p],
              [op |-> "close", path |-> p]>>
NukeFilesystem == <<[op |-> "erase"], [op |-> "format"]>>

(* Write() makes room by removing what is there.                           *)
Write(p, d) == Remove(p) \o Store(p, d)

FileExists(p) == files[p] # NoFile
Complete(p) == FileExists(p) /\ files[p].data # Empty  \* its size is sizeof(T)
Data(d) == [by |-> firmware, data |-> d]

(* Writing starts at the front and does not shorten: what there was before *)
(* may show behind it, but for objects, which have their sizes.            *)
Written(p, d) ==
  IF p \in Names /\ file.data # Empty THEN {Data(d), Data(Junk)} ELSE {Data(d)}

(* One call.                                                               *)
Call(c) ==
  CASE c.op = "remove" -> files' = [files EXCEPT ![c.path] = NoFile] /\ UNCHANGED file
    [] c.op = "open"   -> /\ files' = IF FileExists(c.path) THEN files
                                      ELSE [files EXCEPT ![c.path] = Data(Empty)]
                          /\ file' = files'[c.path]
    [] c.op = "write"  -> file' \in Written(c.path, c.data) /\ UNCHANGED files
    [] c.op = "trunc"  -> file' = Data(Empty) /\ UNCHANGED files
    [] c.op = "close"  -> files' = [files EXCEPT ![c.path] = file] /\ file' = NoFile
    [] OTHER           -> files' = NoFiles /\ UNCHANGED file

Promises(c) ==
  CASE c.op = "close" /\ c.path \in Ids -> [promised EXCEPT ![c.path] = {file}]
    [] c.op = "remove" /\ c.path \in Ids -> [promised EXCEPT ![c.path] = {NoFile}]
    [] c.op \in {"erase", "format"} -> [i \in Ids |-> {NoFile}]
    [] OTHER -> promised

Step ==
  /\ todo # <<>>
  /\ todo' = Tail(todo)
  /\ Call(Head(todo))
  /\ formatted' = CASE Head(todo).op = "erase"  -> FALSE
                    [] Head(todo).op = "format" -> TRUE
                    [] OTHER                    -> formatted
  /\ promised' = Promises(Head(todo))
  /\ moved' = IF Head(todo).op = "erase" THEN NoFile ELSE moved
  /\ trouble' = (trouble \/ (phase = "run" /\ Head(todo).op \in {"erase", "format"}))
  /\ UNCHANGED <<firmware, phase, unnoticed, kept>>

(* A call fails, and nothing comes of it: what was written to a file that  *)
(* cannot be closed is lost.  A command gives up when it cannot open or    *)
(* write, and goes on when it cannot remove or close.                      *)
Fail ==
  /\ todo # <<>> /\ Head(todo).op \notin {"erase", "format"}
  /\ todo' = IF Head(todo).op \in {"remove", "close"} THEN Tail(todo) ELSE <<>>
  /\ file' = NoFile
  /\ unnoticed' = (unnoticed \/ todo' # <<>>)
  /\ trouble' = (trouble \/ phase = "store")
  /\ UNCHANGED <<firmware, phase, formatted, files, promised, moved, kept>>

-----------------------------------------------------------------------------
(* Power, and the start of the application.                                *)

Reset ==
  /\ phase # "off"
  /\ phase' = "off" /\ todo' = <<>> /\ file' = NoFile
  /\ kept' = CASE phase # "run" -> kept
               [] trouble        -> NoFile
               [] OTHER          -> [by |-> firmware, files |-> files]
  /\ UNCHANGED <<firmware, formatted, files, promised, moved, unnoticed, trouble>>

(* Any firmware may have been put into the flash meanwhile.                *)
PowerOn ==
  /\ phase = "off" /\ phase' = "mount"
  /\ firmware' \in Firmwares
  /\ kept' = IF kept # NoFile /\ kept.by # firmware' THEN NoFile ELSE kept
  /\ UNCHANGED <<formatted, files, todo, file, promised, moved, unnoticed, trouble>>

Starting(p) == phase = p /\ todo = <<>> /\ UNCHANGED <<firmware, formatted, files, file,
                                                       promised, moved, unnoticed>>

(* FilesystemLittleFS::Init: a file system that is not there is made.      *)
LfsMount ==
  /\ Starting("mount") /\ UNCHANGED <<trouble, kept>>
  /\ IF formatted THEN phase' = "check" /\ UNCHANGED todo
                  ELSE todo' = NukeFilesystem /\ UNCHANGED phase

Nuke ==
  /\ phase' = "store" /\ todo' = NukeFilesystem \o Store(VersionId, VersionId)
  /\ trouble' = FALSE

(* Mutant: a version that was stored is good.                              *)
NukeIfNotFound ==
  /\ Starting("check") /\ UNCHANGED kept
  /\ IF Complete(VersionId) THEN phase' = "run" /\ UNCHANGED <<todo, trouble>> ELSE Nuke

(* Mutant: always start from nothing.                                      *)
NukeAlways == Starting("check") /\ UNCHANGED kept /\ Nuke

(* The scheme in the comment there: whatever is not stored by this firmware*)
(* goes, and then the version is stored.  So it is with a version that     *)
(* cannot be read, and then nothing is kept.                               *)
NukeAppStorageFlashIfFirmwareChanged ==
  LET same == Complete(VersionId) /\ files[VersionId].by = firmware IN
  /\ Starting("check")
  /\ \/ same /\ phase' = "run" /\ kept' = NoFile /\ UNCHANGED <<todo, trouble>>
     \/ ~same /\ Nuke /\ UNCHANGED kept
     \/ same /\ Nuke /\ kept' = NoFile

Run ==
  /\ Starting("store")
  /\ phase' = "run" /\ kept' = NoFile /\ UNCHANGED <<todo, trouble>>

-----------------------------------------------------------------------------
(* What the application and the shell do.                                  *)

Command(calls) == phase = "run" /\ todo = <<>> /\ todo' = calls
                    /\ UNCHANGED <<firmware, phase, formatted, files, file, trouble, kept>>

Nothing == UNCHANGED promised /\ moved' = NoFile /\ unnoticed' = FALSE

(* Mutant: an object is written as a file is.                              *)
PutRewrites(i, v) ==
  /\ FileExists(i) => Complete(i)
  /\ Command(Write(i, v))
  /\ promised' = [promised EXCEPT ![i] = @ \cup {Data(v)} \cup
                    IF FileExists(i) THEN {} ELSE {Data(Empty)}]
  /\ moved' = NoFile /\ unnoticed' = FALSE

(* Flashable::Put: refused when something of another size is there.        *)
Put(i, v) ==
  /\ FileExists(i) => Complete(i)
  /\ Command(Store(i, v))
  /\ promised' = [promised EXCEPT ![i] = @ \cup {Data(v)} \cup
                    IF FileExists(i) THEN {} ELSE {Data(Empty)}]
  /\ moved' = NoFile /\ unnoticed' = FALSE

(* Flashable::Delete.                                                      *)
Delete(i) == Command(Remove(i)) /\ Nothing

FileCommand(p) ==
  /\ Nothing
  /\ \/ \E d \in Values : Command(Write(p, d))
     \/ Command(Touch(p))
     \/ Command(Trunc(p))
     \/ Command(Remove(p))

(* The string that Read() returns: empty when the file is, when it cannot  *)
(* be opened or its size not told, and of the right size with something    *)
(* else in it when it cannot be read.                                      *)
Read(p) == IF files[p].data = Empty THEN {Empty} ELSE {files[p].data, Empty, Junk}

(* Mutant: renamed by removing first.                                      *)
MoveRemovesFirst(from, to) ==
  /\ FileExists(from)
  /\ Command(Remove(from) \o Write(to, files[from].data))
  /\ moved' = IF from # to THEN [from |-> from, to |-> to, what |-> files[from].data] ELSE NoFile
  /\ unnoticed' = FALSE /\ UNCHANGED promised

(* Writes what it has read, whatever that was.                             *)
Copy(from, to) ==
  /\ FileExists(from)
  /\ \E d \in Read(from) : Command(Write(to, d))
  /\ Nothing

(* Copy, and Remove if that went well.                                     *)
Move(from, to) ==
  /\ FileExists(from)
  /\ \E d \in Read(from) :
       Command(Write(to, d) \o Remove(from)) /\ unnoticed' = (d # files[from].data)
  /\ moved' = IF from # to THEN [from |-> from, to |-> to, what |-> files[from].data] ELSE NoFile
  /\ UNCHANGED promised

(* The shell's lfs.format.                                                 *)
Format == Command(NukeFilesystem) /\ Nothing

Next ==
  \/ Step \/ Fail \/ Reset \/ PowerOn
  \/ LfsMount \/ NukeAppStorageFlashIfFirmwareChanged \/ Run
  \/ \E i \in Ids : Delete(i) \/ \E v \in Values : Put(i, v)
  \/ \E p \in Names : FileCommand(p) \/ \E to \in Names : Copy(p, to) \/ Move(p, to)
  \/ Format

Spec == Init /\ [][Next]_vars

-----------------------------------------------------------------------------
(* An application never finds what another firmware stored, where ids may  *)
(* have meant other objects: the scheme of App.h, whenever power failed.   *)
StorageIsOurs ==
  phase = "run" => \A p \in Paths : FileExists(p) => files[p].by = firmware

(* "upon reboot of same firmware, no change": the application finds what   *)
(* it left, whatever it was doing when power failed and however often the  *)
(* start was interrupted since, but when a call failed as the version was  *)
(* stored, or now that it is read, or lfs.format has erased it.            *)
SameFirmwareNoChange ==
  [][phase # "run" /\ phase' = "run" /\ kept # NoFile => files' = kept.files]_vars

(* A Flashable holds what was last put, or what was being put when power   *)
(* failed: Put() replaces the file's contents in place.                    *)
PutOldOrNew == \A i \in Ids : files[i] \in promised[i]

(* What was moved is in one of the two places, or in both, at every moment *)
(* and after every failure, but those that the code goes on after: reading *)
(* what it moves, and removing or closing the file that it writes.         *)
MoveKeepsData ==
  moved # NoFile /\ ~unnoticed => \E p \in {moved.from, moved.to} :
                                    FileExists(p) /\ files[p].data = moved.what

================================================================================
