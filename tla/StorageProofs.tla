---------------------------- MODULE StorageProofs ----------------------------
(***************************************************************************)
(* Proofs about Storage, for any firmware, objects, files and values, and  *)
(* whichever calls fail.                                                   *)
(***************************************************************************)
EXTENDS Storage, SequenceTheorems, TLAPS

-----------------------------------------------------------------------------
(* The calls that commands are made of.                                    *)

Contents == Values \cup {Empty, Junk, VersionId}
File == [by : Firmwares, data : Contents]

Nukes == [op : {"erase", "format"}]
CallsOn(P) ==
  [op : {"remove", "open", "trunc", "close"}, path : P] \cup
  [op : {"write"}, path : P, data : Contents]
Calls == CallsOn(Paths) \cup Nukes

(* What the application makes: calls on its own files.                     *)
AppCalls == CallsOn(Ids \cup Names) \cup Nukes

Rm(p) == [op |-> "remove", path |-> p]
Op(p) == [op |-> "open", path |-> p]
Wr(p, d) == [op |-> "write", path |-> p, data |-> d]
Tr(p) == [op |-> "trunc", path |-> p]
Cl(p) == [op |-> "close", path |-> p]
Er == [op |-> "erase"]
Fo == [op |-> "format"]

LEMMA Joined ==
  ASSUME NEW S, NEW s \in Seq(S), NEW t \in Seq(S), NEW r \in Seq(S),
         Len(r) = Len(s) + Len(t),
         \A i \in 1 .. Len(r) : r[i] = IF i <= Len(s) THEN s[i] ELSE t[i - Len(s)]
  PROVE  s \o t = r
<1>1. s \o t \in Seq(S) /\ Len(s \o t) = Len(r)
  BY ConcatProperties
<1>2. \A i \in 1 .. Len(s \o t) : (s \o t)[i] = r[i]
  BY <1>1, ConcatProperties
<1> QED
  BY <1>1, <1>2, SeqEqual

LEMMA Joined13 ==
  ASSUME NEW a, NEW b, NEW c, NEW d
  PROVE  <<a>> \o <<b, c, d>> = <<a, b, c, d>>
<1> DEFINE S == {a, b, c, d}  s == <<a>>  t == <<b, c, d>>  r == <<a, b, c, d>>
<1>1. s \in Seq(S) /\ t \in Seq(S) /\ r \in Seq(S)
  OBVIOUS
<1>2. Len(s) = 1 /\ Len(t) = 3 /\ Len(r) = 4
  OBVIOUS
<1>3. \A i \in 1 .. 4 : r[i] = IF i <= 1 THEN s[i] ELSE t[i - 1]
  OBVIOUS
<1> HIDE DEF S, s, t, r
<1>4. Len(r) = Len(s) + Len(t)
  BY <1>2
<1>5. \A i \in 1 .. Len(r) : r[i] = IF i <= Len(s) THEN s[i] ELSE t[i - Len(s)]
  BY <1>2, <1>3
<1>6. s \o t = r
  BY <1>1, <1>4, <1>5, Joined, Zenon
<1> QED
  BY <1>6 DEF s, t, r

LEMMA Joined23 ==
  ASSUME NEW a, NEW b, NEW c, NEW d, NEW e
  PROVE  <<a, b>> \o <<c, d, e>> = <<a, b, c, d, e>>
<1> DEFINE S == {a, b, c, d, e}  s == <<a, b>>  t == <<c, d, e>>  r == <<a, b, c, d, e>>
<1>1. s \in Seq(S) /\ t \in Seq(S) /\ r \in Seq(S)
  OBVIOUS
<1>2. Len(s) = 2 /\ Len(t) = 3 /\ Len(r) = 5
  OBVIOUS
<1>3. \A i \in 1 .. 5 : r[i] = IF i <= 2 THEN s[i] ELSE t[i - 2]
  OBVIOUS
<1> HIDE DEF S, s, t, r
<1>4. Len(r) = Len(s) + Len(t)
  BY <1>2
<1>5. \A i \in 1 .. Len(r) : r[i] = IF i <= Len(s) THEN s[i] ELSE t[i - Len(s)]
  BY <1>2, <1>3
<1>6. s \o t = r
  BY <1>1, <1>4, <1>5, Joined, Zenon
<1> QED
  BY <1>6 DEF s, t, r

LEMMA Joined41 ==
  ASSUME NEW a, NEW b, NEW c, NEW d, NEW e
  PROVE  <<a, b, c, d>> \o <<e>> = <<a, b, c, d, e>>
<1> DEFINE S == {a, b, c, d, e}  s == <<a, b, c, d>>  t == <<e>>  r == <<a, b, c, d, e>>
<1>1. s \in Seq(S) /\ t \in Seq(S) /\ r \in Seq(S)
  OBVIOUS
<1>2. Len(s) = 4 /\ Len(t) = 1 /\ Len(r) = 5
  OBVIOUS
<1>3. \A i \in 1 .. 5 : r[i] = IF i <= 4 THEN s[i] ELSE t[i - 4]
  OBVIOUS
<1> HIDE DEF S, s, t, r
<1>4. Len(r) = Len(s) + Len(t)
  BY <1>2
<1>5. \A i \in 1 .. Len(r) : r[i] = IF i <= Len(s) THEN s[i] ELSE t[i - Len(s)]
  BY <1>2, <1>3
<1>6. s \o t = r
  BY <1>1, <1>4, <1>5, Joined, Zenon
<1> QED
  BY <1>6 DEF s, t, r

LEMMA CommandsAre ==
  ASSUME NEW p, NEW q, NEW d
  PROVE  /\ Remove(p) = <<Rm(p)>>
         /\ Touch(p) = <<Op(p), Cl(p)>>
         /\ Store(p, d) = <<Op(p), Wr(p, d), Cl(p)>>
         /\ Trunc(p) = <<Op(p), Tr(p), Cl(p)>>
         /\ NukeFilesystem = <<Er, Fo>>
         /\ Write(p, d) = <<Rm(p), Op(p), Wr(p, d), Cl(p)>>
         /\ Write(p, d) \o Remove(q) = <<Rm(p), Op(p), Wr(p, d), Cl(p), Rm(q)>>
         /\ NukeFilesystem \o Store(p, d) = <<Er, Fo, Op(p), Wr(p, d), Cl(p)>>
<1> USE DEF Rm, Op, Wr, Tr, Cl, Er, Fo
<1>1. Write(p, d) = <<Rm(p), Op(p), Wr(p, d), Cl(p)>>
  BY Joined13 DEF Write, Remove, Store
<1>2. Write(p, d) \o Remove(q) = <<Rm(p), Op(p), Wr(p, d), Cl(p), Rm(q)>>
  BY <1>1, Joined41 DEF Remove
<1>3. NukeFilesystem \o Store(p, d) = <<Er, Fo, Op(p), Wr(p, d), Cl(p)>>
  BY Joined23 DEF NukeFilesystem, Store
<1> QED
  BY <1>1, <1>2, <1>3 DEF Remove, Touch, Store, Trunc, NukeFilesystem

LEMMA CallFacts ==
  ASSUME NEW c \in Calls
  PROVE  /\ c.op \in {"remove", "open", "write", "trunc", "close", "erase", "format"}
         /\ c.op \notin {"erase", "format"} => c.path \in Paths
         /\ c.op = "write" => c.data \in Contents
BY DEF Calls, CallsOn, Nukes

LEMMA AppCallFacts ==
  ASSUME NEW c \in AppCalls
  PROVE  c \in Calls /\ (c.op \notin {"erase", "format"} => c.path \in Ids \cup Names)
BY DEF Calls, AppCalls, CallsOn, Nukes, Paths

LEMMA CallsIn ==
  ASSUME NEW P, NEW p \in P, NEW d \in Contents
  PROVE  /\ Rm(p) \in CallsOn(P) /\ Op(p) \in CallsOn(P)
         /\ Wr(p, d) \in CallsOn(P) /\ Tr(p) \in CallsOn(P) /\ Cl(p) \in CallsOn(P)
         /\ Er \in Nukes /\ Fo \in Nukes
BY DEF CallsOn, Nukes, Rm, Op, Wr, Tr, Cl, Er, Fo

(* A command is made of the application's calls; only Put() opens an       *)
(* object's file, and this is the first call it makes.                     *)
Opens(c) == c.op = "open" /\ c.path \in Ids
Late == {c \in Calls : ~Opens(c)}

LEMMA CommandCalls ==
  ASSUME NEW p \in Ids \cup Names, NEW q \in Ids \cup Names, NEW d \in Contents
  PROVE  \A t \in {Remove(p), Touch(p), Store(p, d), Trunc(p), Write(p, d),
                   Write(p, d) \o Remove(q), NukeFilesystem} :
           t \in Seq(AppCalls) /\ t # <<>>
<1>1. /\ Rm(p) \in AppCalls /\ Op(p) \in AppCalls /\ Wr(p, d) \in AppCalls
      /\ Tr(p) \in AppCalls /\ Cl(p) \in AppCalls /\ Rm(q) \in AppCalls
      /\ Er \in AppCalls /\ Fo \in AppCalls
  BY CallsIn DEF AppCalls
<1>2. /\ <<Rm(p)>> \in Seq(AppCalls) /\ <<Op(p), Cl(p)>> \in Seq(AppCalls)
      /\ <<Op(p), Wr(p, d), Cl(p)>> \in Seq(AppCalls)
      /\ <<Op(p), Tr(p), Cl(p)>> \in Seq(AppCalls)
      /\ <<Rm(p), Op(p), Wr(p, d), Cl(p)>> \in Seq(AppCalls)
      /\ <<Rm(p), Op(p), Wr(p, d), Cl(p), Rm(q)>> \in Seq(AppCalls)
      /\ <<Er, Fo>> \in Seq(AppCalls)
  BY <1>1
<1>3. /\ <<Rm(p)>> # <<>> /\ <<Op(p), Cl(p)>> # <<>>
      /\ <<Op(p), Wr(p, d), Cl(p)>> # <<>> /\ <<Op(p), Tr(p), Cl(p)>> # <<>>
      /\ <<Rm(p), Op(p), Wr(p, d), Cl(p)>> # <<>>
      /\ <<Rm(p), Op(p), Wr(p, d), Cl(p), Rm(q)>> # <<>> /\ <<Er, Fo>> # <<>>
  OBVIOUS
<1> QED
  BY <1>2, <1>3, CommandsAre

(* How the version is stored.                                              *)
StoreVersion == NukeFilesystem \o Store(VersionId, VersionId)

LEMMA StoreVersionIs ==
  /\ StoreVersion = <<Er, Fo, Op(VersionId), Wr(VersionId, VersionId), Cl(VersionId)>>
  /\ StoreVersion \in Seq(Calls) /\ StoreVersion # <<>> /\ Head(StoreVersion).op = "erase"
<1> DEFINE V == VersionId
<1>1. StoreVersion = <<Er, Fo, Op(V), Wr(V, V), Cl(V)>>
  BY CommandsAre DEF StoreVersion
<1>2. Er \in Calls /\ Fo \in Calls /\ Op(V) \in Calls /\ Wr(V, V) \in Calls /\ Cl(V) \in Calls
  <2>1. V \in Paths /\ V \in Contents
    BY DEF Paths, Contents
  <2> QED
    BY <2>1, CallsIn DEF Calls
<1>3. <<Er, Fo, Op(V), Wr(V, V), Cl(V)>> \in Seq(Calls)
  BY <1>2
<1>4. Head(<<Er, Fo, Op(V), Wr(V, V), Cl(V)>>) = Er
  OBVIOUS
<1> QED
  BY <1>1, <1>3, <1>4 DEF Er

-----------------------------------------------------------------------------
(* Types.                                                                  *)

Types ==
  /\ firmware \in Firmwares /\ phase \in {"off", "mount", "check", "store", "run"}
  /\ files \in [Paths -> File \cup {NoFile}] /\ file \in File \cup {NoFile}
  /\ todo \in Seq(Calls)
  /\ phase \in {"off", "check"} => todo = <<>>
  /\ phase = "mount" => todo \in Seq(Nukes)
  /\ phase = "run" => todo \in Seq(AppCalls)
  /\ phase \in {"off", "mount", "check"} => file = NoFile

(* What each step but those of littlefs makes of phase and todo.           *)
MoveCalls(p, q, d) == Write(p, d) \o Remove(q)

Commands ==
  {Remove(p) : p \in Ids \cup Names} \cup {Touch(p) : p \in Names} \cup {Trunc(p) : p \in Names}
  \cup {Store(i, v) : i \in Ids, v \in Values} \cup {NukeFilesystem}
  \cup {Write(p, d) : p \in Names, d \in Contents}
  \cup {MoveCalls(p, q, d) : p \in Names, q \in Names, d \in Contents}

LEMMA CopyAndMove ==
  ASSUME NEW p \in Names, NEW q \in Names, NEW d \in Contents
  PROVE  Write(q, d) \in Commands /\ Write(q, d) \o Remove(p) \in Commands
<1>1. Write(q, d) \in {Write(f, e) : f \in Names, e \in Contents}
  OBVIOUS
<1>2. MoveCalls(q, p, d) \in {MoveCalls(f, g, e) : f \in Names, g \in Names, e \in Contents}
  OBVIOUS
<1>3. Write(q, d) \in Commands /\ MoveCalls(q, p, d) \in Commands
  BY <1>1, <1>2 DEF Commands
<1> QED
  BY <1>3 DEF MoveCalls

LEMMA CommandsTyped ==
  ASSUME NEW t \in Commands
  PROVE  t \in Seq(AppCalls) /\ t \in Seq(Calls) /\ t # <<>>
<1>1. Values \subseteq Contents /\ Empty \in Contents /\ Ids \cup Names \subseteq Paths
  BY DEF Contents, Paths
<1>2. \A p, q \in Ids \cup Names, d \in Contents :
        \A s \in {Remove(p), Touch(p), Store(p, d), Trunc(p), Write(p, d),
                  Write(p, d) \o Remove(q), NukeFilesystem} :
          s \in Seq(AppCalls) /\ s # <<>>
  BY CommandCalls, Zenon
<1>3. NukeFilesystem \in Seq(AppCalls) /\ NukeFilesystem # <<>>
  <2>1. <<Er, Fo>> \in Seq(AppCalls) /\ <<Er, Fo>> # <<>>
    BY DEF Er, Fo, AppCalls, Nukes
  <2> QED
    BY <2>1, CommandsAre
<1>4. t \in Seq(AppCalls) /\ t # <<>>
  <2>1. CASE \E p \in Ids \cup Names : t = Remove(p)
    BY <2>1, <1>1, <1>2
  <2>2. CASE \E p \in Names : t = Touch(p) \/ t = Trunc(p)
    BY <2>2, <1>1, <1>2
  <2>3. CASE \E i \in Ids, v \in Values : t = Store(i, v)
    BY <2>3, <1>1, <1>2
  <2>4. CASE t = NukeFilesystem
    BY <2>4, <1>3
  <2>5. CASE \E p \in Names, d \in Contents : t = Write(p, d)
    BY <2>5, <1>1, <1>2
  <2>6. CASE \E p, q \in Names, d \in Contents : t = MoveCalls(p, q, d)
    BY <2>6, <1>1, <1>2 DEF MoveCalls
  <2> QED
    BY <2>1, <2>2, <2>3, <2>4, <2>5, <2>6 DEF Commands
<1>5. AppCalls \subseteq Calls
  BY AppCallFacts
<1> QED
  BY <1>4, <1>5

(* A command of the application, whichever.                                *)
AppCommand == \E t \in Commands : Command(t)

LEMMA ReadsContents ==
  ASSUME Types, NEW p \in Names, FileExists(p)
  PROVE  Read(p) \subseteq Contents
<1>1. files[p] \in File
  BY DEF Types, FileExists, Paths
<1> QED
  BY <1>1 DEF File, Read, Contents

LEMMA NextCases ==
  ASSUME Types, Next
  PROVE  \/ Step \/ Fail \/ Reset \/ PowerOn
         \/ LfsMount \/ NukeAppStorageFlashIfFirmwareChanged \/ Run
         \/ AppCommand
<1>1. Values \subseteq Contents
  BY DEF Contents
<1>2. ASSUME NEW i \in Ids, Delete(i)
      PROVE  AppCommand
  <2>1. Remove(i) \in Commands
    BY DEF Commands
  <2> QED
    BY <1>2, <2>1 DEF Delete, AppCommand
<1>3. ASSUME NEW i \in Ids, NEW v \in Values, Put(i, v)
      PROVE  AppCommand
  <2>1. Store(i, v) \in Commands
    BY DEF Commands
  <2> QED
    BY <1>3, <2>1 DEF Put, AppCommand
<1>4. ASSUME NEW p \in Names, FileCommand(p)
      PROVE  AppCommand
  <2>1. \A d \in Values : Write(p, d) \in Commands
    BY <1>1 DEF Commands
  <2>2. Touch(p) \in Commands /\ Trunc(p) \in Commands /\ Remove(p) \in Commands
    BY DEF Commands
  <2> QED
    BY <1>4, <2>1, <2>2 DEF FileCommand, AppCommand
<1>5. ASSUME NEW p \in Names, NEW q \in Names, Copy(p, q) \/ Move(p, q)
      PROVE  AppCommand
  <2>1. PICK d \in Read(p) : Command(Write(q, d)) \/ Command(Write(q, d) \o Remove(p))
    BY <1>5 DEF Copy, Move
  <2>2. d \in Contents
    BY <1>5, ReadsContents DEF Copy, Move
  <2>3. Write(q, d) \in Commands /\ Write(q, d) \o Remove(p) \in Commands
    BY <2>2, CopyAndMove
  <2> QED
    BY <2>1, <2>3 DEF AppCommand
<1>6. ASSUME Format
      PROVE  AppCommand
  <2>1. NukeFilesystem \in Commands
    BY DEF Commands
  <2> QED
    BY <1>6, <2>1 DEF Format, AppCommand
<1> QED
  BY <1>2, <1>3, <1>4, <1>5, <1>6 DEF Next

LEMMA TypesInit == Init => Types
<1> SUFFICES ASSUME Init PROVE Types
  OBVIOUS
<1>1. files \in [Paths -> File \cup {NoFile}] /\ todo = <<>>
  BY DEF Init, NoFiles
<1>2. todo \in Seq(Calls)
  BY <1>1
<1> QED
  BY <1>1, <1>2 DEF Init, Types

(* The call made, and the calls left.                                      *)
LEMMA StepCalls ==
  ASSUME Types, Step
  PROVE  /\ Head(todo) \in Calls /\ todo' \in Seq(Calls)
         /\ phase = "mount" => Head(todo) \in Nukes /\ todo' \in Seq(Nukes)
         /\ phase = "run" => Head(todo) \in AppCalls /\ todo' \in Seq(AppCalls)
         /\ phase \in {"mount", "store", "run"}
BY HeadTailProperties DEF Types, Step

LEMMA CallTyped ==
  ASSUME Types, NEW c \in Calls, Call(c)
  PROVE  files' \in [Paths -> File \cup {NoFile}] /\ file' \in File \cup {NoFile}
<1>1. \A d \in Contents : Data(d) \in File
  BY DEF Types, Data, File
<1>2. Empty \in Contents
  BY DEF Contents
<1> USE CallFacts DEF Types
<1>3. CASE c.op = "remove"
  BY <1>3 DEF Call
<1>4. CASE c.op = "open"
  BY <1>1, <1>2, <1>4 DEF Call
<1>5. CASE c.op = "write"
  <2>1. file' \in {Data(c.data), Data(Junk)} /\ files' = files
    BY <1>5 DEF Call, Written
  <2> QED
    BY <1>1, <1>5, <2>1 DEF Contents
<1>8. CASE c.op = "trunc"
  BY <1>1, <1>2, <1>8 DEF Call
<1>6. CASE c.op = "close"
  BY <1>6 DEF Call
<1>7. CASE c.op \in {"erase", "format"}
  BY <1>7 DEF Call, NoFiles
<1> QED
  BY <1>3, <1>4, <1>5, <1>6, <1>7, <1>8

LEMMA TypesNext ==
  ASSUME Types, [Next]_vars
  PROVE  Types'
<1>1. CASE Step
  <2>1. Call(Head(todo)) /\ UNCHANGED <<firmware, phase>>
    BY <1>1 DEF Step
  <2>2. files' \in [Paths -> File \cup {NoFile}] /\ file' \in File \cup {NoFile}
    BY <1>1, <2>1, StepCalls, CallTyped
  <2>3. ASSUME phase = "mount" PROVE file' = file
    BY <1>1, <2>1, <2>3, StepCalls DEF Call, Nukes
  <2> QED
    BY <1>1, <2>1, <2>2, <2>3, StepCalls DEF Types
<1>2. CASE Fail
  <2>1. <<>> \in Seq(Calls) /\ <<>> \in Seq(AppCalls) /\ <<>> \in Seq(Nukes)
    OBVIOUS
  <2>2. /\ Tail(todo) \in Seq(Calls)
        /\ phase = "mount" => Tail(todo) \in Seq(Nukes)
        /\ phase = "run" => Tail(todo) \in Seq(AppCalls)
    BY <1>2, HeadTailProperties DEF Fail, Types
  <2>3. todo' \in {<<>>, Tail(todo)} /\ file' = NoFile /\ UNCHANGED <<firmware, phase, files>>
        /\ todo # <<>>
    BY <1>2 DEF Fail
  <2> QED
    BY <2>1, <2>2, <2>3 DEF Types
<1>3. CASE Reset
  <2>1. <<>> \in Seq(Calls)
    OBVIOUS
  <2> QED
    BY <1>3, <2>1 DEF Reset, Types
<1>4. CASE PowerOn
  <2>1. <<>> \in Seq(Nukes)
    OBVIOUS
  <2> QED
    BY <1>4, <2>1 DEF PowerOn, Types
<1>5. CASE LfsMount
  <2>1. <<Er, Fo>> \in Seq(Nukes) /\ <<Er, Fo>> \in Seq(Calls)
    BY DEF Er, Fo, Calls, Nukes
  <2> QED
    BY <1>5, <2>1, CommandsAre DEF LfsMount, Starting, Types
<1>6. CASE NukeAppStorageFlashIfFirmwareChanged
  <2>1. <<>> \in Seq(AppCalls)
    OBVIOUS
  <2> QED
    BY <1>6, <2>1, StoreVersionIs
    DEF NukeAppStorageFlashIfFirmwareChanged, Nuke, StoreVersion, Starting, Types
<1>7. CASE Run
  <2>1. <<>> \in Seq(AppCalls)
    OBVIOUS
  <2> QED
    BY <1>7, <2>1 DEF Run, Starting, Types
<1>8. CASE AppCommand
  <2>1. PICK t \in Commands : Command(t)
    BY <1>8 DEF AppCommand
  <2> QED
    BY <2>1, CommandsTyped DEF Command, Types
<1>9. CASE UNCHANGED vars
  BY <1>9 DEF vars, Types
<1> QED
  BY <1>1, <1>2, <1>3, <1>4, <1>5, <1>6, <1>7, <1>8, <1>9, NextCases

-----------------------------------------------------------------------------
(* Whose the files are.                                                    *)

Ours == \A p \in Paths : FileExists(p) => files[p].by = firmware

(* A version is stored among files of that firmware only, and an erasing   *)
(* is still to come when the firmware's own are not the only ones.         *)
OwnersInv ==
  /\ file # NoFile => file.by = firmware
  /\ Complete(VersionId) =>
       \A p \in Paths : FileExists(p) => files[p].by = files[VersionId].by
  /\ phase = "store" => Ours \/ (todo # <<>> /\ Head(todo).op = "erase")
  /\ phase = "run" => Ours

LEMMA OwnersInit == Init => OwnersInv
BY DEF Init, OwnersInv, NoFiles, Complete, FileExists, Paths

LEMMA OursIsOwners ==
  ASSUME Ours
  PROVE  Complete(VersionId) =>
           \A p \in Paths : FileExists(p) => files[p].by = files[VersionId].by
BY DEF Ours, Complete, Paths

(* Calls keep the firmware's own files its own, and erasing makes them so. *)
LEMMA CallKeepsOurs ==
  ASSUME Types, OwnersInv, NEW c \in Calls, Call(c), firmware' = firmware,
         Ours \/ c.op \in {"erase", "format"}
  PROVE  Ours' /\ (file' # NoFile => file'.by = firmware)
<1>1. \A d : Data(d).by = firmware
  BY DEF Data
<1>2. \A d \in Contents : Data(d) # NoFile
  <2>1. \A d \in Contents : Data(d) \in File
    BY DEF Types, Data, File
  <2> QED
    BY <2>1, StorageAssumption DEF File, Contents
<1> USE CallFacts DEF Types, Ours, OwnersInv, FileExists
<1>3. CASE c.op = "remove"
  BY <1>3 DEF Call
<1>4. CASE c.op = "open"
  BY <1>1, <1>2, <1>4 DEF Call
<1>5. CASE c.op \in {"write", "trunc"}
  BY <1>1, <1>2, <1>5 DEF Call, Written
<1>6. CASE c.op = "close"
  BY <1>6 DEF Call
<1>7. CASE c.op \in {"erase", "format"}
  BY <1>7 DEF Call, NoFiles
<1> QED
  BY <1>3, <1>4, <1>5, <1>6, <1>7

LEMMA OwnersNext ==
  ASSUME Types, OwnersInv, [Next]_vars
  PROVE  OwnersInv'
<1>1. CASE Step
  <2>1. Call(Head(todo)) /\ UNCHANGED <<firmware, phase>> /\ todo # <<>>
    BY <1>1 DEF Step
  <2>2. Ours \/ Head(todo).op \in {"erase", "format"}
    BY <1>1, StepCalls DEF OwnersInv, Nukes
  <2>3. Ours' /\ (file' # NoFile => file'.by = firmware')
    BY <1>1, <2>1, <2>2, StepCalls, CallKeepsOurs
  <2>4. (Complete(VersionId) =>
           \A p \in Paths : FileExists(p) => files[p].by = files[VersionId].by)'
    BY <2>3 DEF Ours, Complete, FileExists, Paths
  <2> QED
    BY <2>3, <2>4 DEF OwnersInv
<1>2. CASE Fail
  BY <1>2 DEF Fail, OwnersInv, Ours, Complete, FileExists
<1>3. CASE Reset
  BY <1>3 DEF Reset, OwnersInv, Ours, Complete, FileExists
<1>4. CASE PowerOn
  BY <1>4 DEF PowerOn, Types, OwnersInv, Complete, FileExists
<1>5. CASE LfsMount
  BY <1>5 DEF LfsMount, Starting, OwnersInv, Complete, FileExists
<1>6. CASE NukeAppStorageFlashIfFirmwareChanged
  <2>1. CASE Complete(VersionId) /\ files[VersionId].by = firmware
    <3>1. Ours
      BY <2>1 DEF OwnersInv, Ours
    <3> QED
      BY <1>6, <2>1, <3>1
      DEF NukeAppStorageFlashIfFirmwareChanged, Nuke, Starting, OwnersInv, Ours, Complete, FileExists
  <2>2. CASE ~(Complete(VersionId) /\ files[VersionId].by = firmware)
    BY <1>6, <2>2, StoreVersionIs
    DEF NukeAppStorageFlashIfFirmwareChanged, Nuke, Starting, StoreVersion, OwnersInv, Complete, FileExists
  <2> QED
    BY <2>1, <2>2
<1>7. CASE Run
  BY <1>7 DEF Run, Starting, OwnersInv, Ours, Complete, FileExists
<1>8. CASE AppCommand
  BY <1>8 DEF AppCommand, Command, OwnersInv, Ours, Complete, FileExists
<1>9. CASE UNCHANGED vars
  BY <1>9 DEF vars, OwnersInv, Ours, Complete, FileExists
<1> QED
  BY <1>1, <1>2, <1>3, <1>4, <1>5, <1>6, <1>7, <1>8, <1>9, NextCases

(* An application never finds what another firmware stored, wherever power *)
(* failed in NukeAppStorageFlashIfFirmwareChanged().                       *)
THEOREM StorageOnlyOurs == Spec => []StorageIsOurs
<1>1. Init => Types /\ OwnersInv
  BY TypesInit, OwnersInit
<1>2. Types /\ OwnersInv /\ [Next]_vars => (Types /\ OwnersInv)'
  BY TypesNext, OwnersNext
<1>3. OwnersInv => StorageIsOurs
  BY DEF OwnersInv, Ours, StorageIsOurs
<1> QED
  BY <1>1, <1>2, <1>3, PTL DEF Spec

-----------------------------------------------------------------------------
(* What a Flashable holds.                                                 *)

PutInv ==
  /\ promised \in [Ids -> SUBSET (File \cup {NoFile})]
  /\ \A i \in Ids : files[i] \in promised[i]
  /\ todo # <<>> =>
       /\ Tail(todo) \in Seq(Late)
       /\ Opens(Head(todo)) =>
            \/ FileExists(Head(todo).path)
            \/ Data(Empty) \in promised[Head(todo).path]

LEMMA PutInit == Init => PutInv
BY DEF Init, PutInv, NoFiles, Paths

(* Only the first call of a command opens an object's file, and only Put() *)
(* makes such a command.                                                   *)
LEMMA LateCalls ==
  ASSUME NEW p \in Paths, NEW q \in Paths, NEW d \in Contents
  PROVE  /\ \A t \in {Remove(p), Touch(p), Store(p, d), Trunc(p), NukeFilesystem} :
              Tail(t) \in Seq(Late) /\ (Opens(Head(t)) => Head(t).path = p)
         /\ ~Opens(Head(Remove(p))) /\ ~Opens(Head(NukeFilesystem))
         /\ p \notin Ids =>
              \A t \in {Write(p, d), Write(p, d) \o Remove(q), NukeFilesystem \o Store(p, d)} :
                Tail(t) \in Seq(Late) /\ ~Opens(Head(t))
<1>1. Empty \in Contents
  BY DEF Contents
<1>2. /\ Rm(p) \in Late /\ Rm(q) \in Late /\ Wr(p, d) \in Late /\ Tr(p) \in Late
      /\ Cl(p) \in Late /\ Er \in Late /\ Fo \in Late /\ (p \notin Ids => Op(p) \in Late)
  BY <1>1, CallsIn DEF Late, Calls, Opens, Rm, Op, Wr, Tr, Cl, Er, Fo
<1>3. ~Opens(Rm(p)) /\ ~Opens(Er) /\ Op(p).path = p
  BY DEF Opens, Rm, Er, Op
<1>4. /\ Tail(<<Rm(p)>>) \in Seq(Late) /\ Head(<<Rm(p)>>) = Rm(p)
      /\ Tail(<<Op(p), Cl(p)>>) \in Seq(Late) /\ Head(<<Op(p), Cl(p)>>) = Op(p)
      /\ Tail(<<Op(p), Wr(p, d), Cl(p)>>) \in Seq(Late)
      /\ Head(<<Op(p), Wr(p, d), Cl(p)>>) = Op(p)
      /\ Tail(<<Op(p), Tr(p), Cl(p)>>) \in Seq(Late)
      /\ Head(<<Op(p), Tr(p), Cl(p)>>) = Op(p)
      /\ Tail(<<Er, Fo>>) \in Seq(Late) /\ Head(<<Er, Fo>>) = Er
  <2>1. <<>> \in Seq(Late) /\ <<Cl(p)>> \in Seq(Late) /\ <<Wr(p, d), Cl(p)>> \in Seq(Late)
        /\ <<Tr(p), Cl(p)>> \in Seq(Late) /\ <<Fo>> \in Seq(Late)
    BY <1>2
  <2> QED
    BY <2>1
<1>5. ASSUME p \notin Ids
      PROVE  /\ Tail(<<Rm(p), Op(p), Wr(p, d), Cl(p)>>) \in Seq(Late)
             /\ Head(<<Rm(p), Op(p), Wr(p, d), Cl(p)>>) = Rm(p)
             /\ Tail(<<Rm(p), Op(p), Wr(p, d), Cl(p), Rm(q)>>) \in Seq(Late)
             /\ Head(<<Rm(p), Op(p), Wr(p, d), Cl(p), Rm(q)>>) = Rm(p)
             /\ Tail(<<Er, Fo, Op(p), Wr(p, d), Cl(p)>>) \in Seq(Late)
             /\ Head(<<Er, Fo, Op(p), Wr(p, d), Cl(p)>>) = Er
  <2>1. <<Op(p), Wr(p, d), Cl(p)>> \in Seq(Late) /\ <<Op(p), Wr(p, d), Cl(p), Rm(q)>> \in Seq(Late)
        /\ <<Fo, Op(p), Wr(p, d), Cl(p)>> \in Seq(Late)
    BY <1>2, <1>5
  <2> QED
    BY <2>1
<1>6. \A t \in {Remove(p), Touch(p), Store(p, d), Trunc(p), NukeFilesystem} :
        Tail(t) \in Seq(Late) /\ (Opens(Head(t)) => Head(t).path = p)
  BY <1>3, <1>4, CommandsAre
<1>7. ~Opens(Head(Remove(p))) /\ ~Opens(Head(NukeFilesystem))
  BY <1>3, <1>4, CommandsAre
<1>8. ASSUME p \notin Ids,
             NEW t \in {Write(p, d), Write(p, d) \o Remove(q), NukeFilesystem \o Store(p, d)}
      PROVE  Tail(t) \in Seq(Late) /\ ~Opens(Head(t))
  <2>1. CASE t = Write(p, d)
    BY <1>3, <1>5, <1>8, <2>1, CommandsAre
  <2>2. CASE t = Write(p, d) \o Remove(q)
    BY <1>3, <1>5, <1>8, <2>2, CommandsAre
  <2>3. CASE t = NukeFilesystem \o Store(p, d)
    BY <1>3, <1>5, <1>8, <2>3, CommandsAre
  <2> QED
    BY <1>8, <2>1, <2>2, <2>3
<1> QED
  BY <1>6, <1>7, <1>8

(* What a call makes of the objects it has promised.                       *)
LEMMA CallKeepsPromises ==
  ASSUME Types, PutInv, NEW c \in Calls, Call(c), promised' = Promises(c),
         Opens(c) => FileExists(c.path) \/ Data(Empty) \in promised[c.path]
  PROVE  /\ promised' \in [Ids -> SUBSET (File \cup {NoFile})]
         /\ \A i \in Ids : files'[i] \in promised'[i]
<1> USE CallFacts DEF Types, PutInv, Paths
<1>3. CASE c.op = "remove"
  BY <1>3 DEF Call, Promises
<1>4. CASE c.op = "open"
  <2>1. promised' = promised
    BY <1>4 DEF Promises
  <2>2. \A i \in Ids : files'[i] = files[i] \/ (c.path = i /\ ~FileExists(i) /\ files'[i] = Data(Empty))
    BY <1>4 DEF Call
  <2> QED
    BY <1>4, <2>1, <2>2 DEF Opens
<1>5. CASE c.op \in {"write", "trunc"}
  BY <1>5 DEF Call, Promises
<1>6. CASE c.op = "close"
  BY <1>6 DEF Call, Promises
<1>7. CASE c.op \in {"erase", "format"}
  BY <1>7 DEF Call, Promises, NoFiles
<1> QED
  BY <1>3, <1>4, <1>5, <1>6, <1>7

LEMMA PutNext ==
  ASSUME Types, PutInv, [Next]_vars
  PROVE  PutInv'
<1>1. CASE Step
  <2>1. Call(Head(todo)) /\ promised' = Promises(Head(todo)) /\ todo # <<>> /\ todo' = Tail(todo)
    BY <1>1 DEF Step
  <2>2. Opens(Head(todo)) =>
          FileExists(Head(todo).path) \/ Data(Empty) \in promised[Head(todo).path]
    BY <2>1 DEF PutInv
  <2>3. /\ promised' \in [Ids -> SUBSET (File \cup {NoFile})]
        /\ \A i \in Ids : files'[i] \in promised'[i]
    BY <1>1, <2>1, <2>2, StepCalls, CallKeepsPromises
  <2>4. todo' \in Seq(Late)
    BY <2>1 DEF PutInv
  <2>5. ASSUME todo' # <<>> PROVE Tail(todo') \in Seq(Late) /\ Head(todo') \in Late
    BY <2>4, <2>5, HeadTailProperties
  <2> QED
    BY <2>3, <2>5 DEF PutInv, Late
<1>2. CASE Fail
  <2>1. todo' \in {<<>>, Tail(todo)} /\ UNCHANGED <<files, promised>> /\ todo # <<>>
    BY <1>2 DEF Fail
  <2>2. ASSUME todo' # <<>> PROVE Tail(todo') \in Seq(Late) /\ Head(todo') \in Late
    BY <2>1, <2>2, HeadTailProperties DEF PutInv
  <2> QED
    BY <2>1, <2>2 DEF PutInv, Late
<1>3. CASE Reset
  BY <1>3 DEF Reset, PutInv
<1>4. CASE PowerOn
  BY <1>4 DEF PowerOn, PutInv, Types
<1>5. CASE LfsMount
  <2>1. todo' # <<>> => todo' = NukeFilesystem
    BY <1>5 DEF LfsMount, Starting
  <2>2. Tail(NukeFilesystem) \in Seq(Late) /\ ~Opens(Head(NukeFilesystem))
    BY LateCalls DEF Paths, Contents
  <2> QED
    BY <1>5, <2>1, <2>2 DEF LfsMount, Starting, PutInv
<1>6. CASE NukeAppStorageFlashIfFirmwareChanged
  <2>1. todo' # <<>> => todo' = NukeFilesystem \o Store(VersionId, VersionId)
    BY <1>6 DEF NukeAppStorageFlashIfFirmwareChanged, Nuke, Starting
  <2>2. VersionId \in Paths /\ VersionId \in Contents /\ VersionId \notin Ids
    BY StorageAssumption DEF Paths, Contents
  <2>3. /\ Tail(NukeFilesystem \o Store(VersionId, VersionId)) \in Seq(Late)
        /\ ~Opens(Head(NukeFilesystem \o Store(VersionId, VersionId)))
    BY <2>2, LateCalls
  <2> QED
    BY <1>6, <2>1, <2>3 DEF NukeAppStorageFlashIfFirmwareChanged, Nuke, Starting, PutInv
<1>7. CASE Run
  BY <1>7 DEF Run, Starting, PutInv
<1>8. ASSUME NEW i \in Ids, NEW v \in Values, Put(i, v)
      PROVE  PutInv'
  <2>1. todo' = Store(i, v) /\ UNCHANGED <<firmware, files>>
    BY <1>8 DEF Put, Command
  <2>2. Tail(todo') \in Seq(Late) /\ (Opens(Head(todo')) => Head(todo').path = i)
    BY <2>1, LateCalls DEF Paths, Contents
  <2>3. Data(v) \in File /\ Data(Empty) \in File
    BY DEF Types, Data, File, Contents
  <2>4. promised' \in [Ids -> SUBSET (File \cup {NoFile})] /\ promised[i] \subseteq promised'[i]
        /\ (FileExists(i) \/ Data(Empty) \in promised'[i])
        /\ \A j \in Ids : promised[j] \subseteq promised'[j]
    BY <1>8, <2>3 DEF Put, PutInv
  <2> QED
    BY <2>1, <2>2, <2>4 DEF PutInv, FileExists, Data
<1>9. ASSUME NEW t, Command(t), t # <<>> => Tail(t) \in Seq(Late) /\ ~Opens(Head(t)),
             promised' = promised
      PROVE  PutInv'
  BY <1>9 DEF Command, PutInv
<1>10. ASSUME NEW i \in Ids, Delete(i)
       PROVE  PutInv'
  <2>1. Tail(Remove(i)) \in Seq(Late) /\ ~Opens(Head(Remove(i)))
    BY LateCalls DEF Paths, Contents
  <2> QED
    BY <1>9, <1>10, <2>1 DEF Delete, Nothing
<1>11. ASSUME NEW p \in Names, FileCommand(p)
       PROVE  PutInv'
  <2>1. PICK t \in {Write(p, d) : d \in Values} \cup {Touch(p), Trunc(p), Remove(p)} : Command(t)
    BY <1>11 DEF FileCommand
  <2>2. p \in Paths /\ p \notin Ids /\ Values \subseteq Contents /\ Empty \in Contents
    BY StorageAssumption DEF Paths, Contents
  <2>3. Tail(t) \in Seq(Late) /\ ~Opens(Head(t))
    BY <2>2, LateCalls DEF Opens
  <2> QED
    BY <1>9, <1>11, <2>1, <2>3 DEF FileCommand, Nothing
<1>12. ASSUME NEW p \in Names, NEW q \in Names, Copy(p, q) \/ Move(p, q)
       PROVE  PutInv'
  <2>1. PICK d \in Read(p) : Command(Write(q, d)) \/ Command(Write(q, d) \o Remove(p))
    BY <1>12 DEF Copy, Move
  <2>2. d \in Contents
    BY <1>12, ReadsContents DEF Copy, Move
  <2>3. p \in Paths /\ q \in Paths /\ q \notin Ids
    BY StorageAssumption DEF Paths
  <2>4. \A t \in {Write(q, d), Write(q, d) \o Remove(p)} : Tail(t) \in Seq(Late) /\ ~Opens(Head(t))
    BY <2>2, <2>3, LateCalls
  <2>5. promised' = promised
    BY <1>12 DEF Copy, Move, Nothing
  <2> QED
    BY <1>9, <2>1, <2>4, <2>5
<1>13. CASE Format
  <2>1. Tail(NukeFilesystem) \in Seq(Late) /\ ~Opens(Head(NukeFilesystem))
    BY LateCalls DEF Paths, Contents
  <2> QED
    BY <1>9, <1>13, <2>1 DEF Format, Nothing
<1>14. CASE UNCHANGED vars
  BY <1>14 DEF vars, PutInv, Opens, FileExists, Data
<1> QED
  BY <1>1, <1>2, <1>3, <1>4, <1>5, <1>6, <1>7, <1>8, <1>10, <1>11, <1>12, <1>13, <1>14 DEF Next

(* A Flashable holds what was last put or was being put, whichever call of *)
(* Put() failed and whenever power did.                                    *)
THEOREM PutKeepsOldOrNew == Spec => []PutOldOrNew
<1>1. Init => Types /\ PutInv
  BY TypesInit, PutInit
<1>2. Types /\ PutInv /\ [Next]_vars => (Types /\ PutInv)'
  BY TypesNext, PutNext
<1>3. PutInv => PutOldOrNew
  BY DEF PutInv, PutOldOrNew
<1> QED
  BY <1>1, <1>2, <1>3, PTL DEF Spec

-----------------------------------------------------------------------------
(* Moving.                                                                 *)

Has(p) == FileExists(p) /\ files[p].data = moved.what

(* Until the copy is closed the old file has it, and then the new one.     *)
MoveInv ==
  moved # NoFile /\ ~unnoticed =>
    /\ moved.from # moved.to /\ moved.from \in Names /\ moved.to \in Names
    /\ moved.what \in Contents
    /\ LET from == moved.from  to == moved.to  w == moved.what IN
         \/ /\ Has(from)
            /\ \/ todo = <<Rm(to), Op(to), Wr(to, w), Cl(to), Rm(from)>>
               \/ todo = <<Op(to), Wr(to, w), Cl(to), Rm(from)>> /\ ~FileExists(to)
               \/ todo = <<Wr(to, w), Cl(to), Rm(from)>> /\ file = Data(Empty)
               \/ todo = <<Cl(to), Rm(from)>> /\ file # NoFile /\ file.data = w
         \/ Has(to) /\ todo = <<Rm(from)>>
         \/ /\ Has(from) \/ Has(to)
            /\ todo = <<>> \/ Head(todo) = Er

LEMMA MoveInit == Init => MoveInv
BY DEF Init, MoveInv

LEMMA MoveStep ==
  ASSUME Types, MoveInv, Step, moved' # NoFile, ~unnoticed'
  PROVE  MoveInv'
<1> DEFINE from == moved.from  to == moved.to  w == moved.what
<1>1. /\ moved' = moved /\ moved # NoFile /\ ~unnoticed /\ Head(todo) # Er /\ todo # <<>>
      /\ firmware' = firmware
  BY DEF Step, Er
<1>2. todo' = Tail(todo) /\ Call(Head(todo))
  BY DEF Step
<1>3. from # to /\ from \in Paths /\ to \in Paths /\ w \in Contents
  BY <1>1 DEF MoveInv, Paths
<1>4. \A d \in Contents : Data(d) # NoFile /\ Data(d).data = d
  <2>1. \A d \in Contents : Data(d) \in File /\ Data(d).data = d
    BY DEF Types, Data, File
  <2> QED
    BY <2>1, StorageAssumption DEF File, Contents
<1>5. CASE todo = <<Rm(to), Op(to), Wr(to, w), Cl(to), Rm(from)>> /\ Has(from)
  <2>1. Head(todo) = Rm(to) /\ Tail(todo) = <<Op(to), Wr(to, w), Cl(to), Rm(from)>>
    BY <1>5
  <2>2. files'[from] = files[from] /\ files'[to] = NoFile
    BY <1>2, <1>3, <2>1 DEF Call, Rm, Types
  <2> QED
    BY <1>1, <1>2, <1>5, <2>1, <2>2 DEF MoveInv, Has, FileExists
<1>6. CASE todo = <<Op(to), Wr(to, w), Cl(to), Rm(from)>> /\ Has(from) /\ ~FileExists(to)
  <2>1. Head(todo) = Op(to) /\ Tail(todo) = <<Wr(to, w), Cl(to), Rm(from)>>
    BY <1>6
  <2>2. files'[from] = files[from] /\ file' = Data(Empty)
    BY <1>2, <1>3, <1>6, <2>1 DEF Call, Op, Types
  <2> QED
    BY <1>1, <1>2, <1>6, <2>1, <2>2 DEF MoveInv, Has, FileExists, Data
<1>7. CASE todo = <<Wr(to, w), Cl(to), Rm(from)>> /\ Has(from) /\ file = Data(Empty)
  <2>1. Head(todo) = Wr(to, w) /\ Tail(todo) = <<Cl(to), Rm(from)>>
    BY <1>7
  <2>2. files' = files /\ file' = Data(w)
    BY <1>2, <1>7, <2>1 DEF Call, Wr, Written, Data
  <2> QED
    BY <1>1, <1>2, <1>3, <1>4, <1>7, <2>1, <2>2 DEF MoveInv, Has, FileExists
<1>8. CASE todo = <<Cl(to), Rm(from)>> /\ Has(from) /\ file # NoFile /\ file.data = w
  <2>1. Head(todo) = Cl(to) /\ Tail(todo) = <<Rm(from)>>
    BY <1>8
  <2>2. files'[to] = file
    BY <1>2, <1>3, <2>1 DEF Call, Cl, Types
  <2> QED
    BY <1>1, <1>2, <1>8, <2>1, <2>2 DEF MoveInv, Has, FileExists
<1>9. CASE todo = <<Rm(from)>> /\ Has(to)
  <2>1. Head(todo) = Rm(from) /\ Tail(todo) = <<>>
    BY <1>9
  <2>2. files'[to] = files[to]
    BY <1>2, <1>3, <2>1 DEF Call, Rm, Types
  <2> QED
    BY <1>1, <1>2, <1>9, <2>1, <2>2 DEF MoveInv, Has, FileExists
<1> QED
  BY <1>1, <1>5, <1>6, <1>7, <1>8, <1>9 DEF MoveInv

LEMMA MoveNext ==
  ASSUME Types, MoveInv, [Next]_vars
  PROVE  MoveInv'
<1>1. SUFFICES ASSUME moved' # NoFile, ~unnoticed' PROVE MoveInv'
  BY DEF MoveInv
<1>2. CASE Step
  BY <1>1, <1>2, MoveStep
<1>3. ASSUME UNCHANGED <<files, moved>>, ~unnoticed, todo' = <<>>
      PROVE  MoveInv'
  BY <1>1, <1>3 DEF MoveInv, Has, FileExists
<1>4. CASE Fail
  <2>1. UNCHANGED <<files, moved>> /\ unnoticed' = (unnoticed \/ todo' # <<>>)
    BY <1>4 DEF Fail
  <2>2. ~unnoticed /\ todo' = <<>>
    BY <1>1, <2>1, Zenon
  <2> QED
    BY <1>3, <2>1, <2>2
<1>15. CASE Reset
  BY <1>1, <1>3, <1>15 DEF Reset
<1>5. ASSUME UNCHANGED <<files, moved, unnoticed>>, todo = <<>>, todo' = <<>> \/ Head(todo') = Er
      PROVE  MoveInv'
  BY <1>1, <1>5 DEF MoveInv, Has, FileExists
<1>6. CASE PowerOn
  BY <1>5, <1>6 DEF PowerOn, Types
<1>7. CASE LfsMount
  <2>1. Head(NukeFilesystem) = Er
    BY CommandsAre
  <2> QED
    BY <1>5, <1>7, <2>1 DEF LfsMount, Starting
<1>8. CASE NukeAppStorageFlashIfFirmwareChanged
  <2>1. Head(StoreVersion) = Er
    BY StoreVersionIs
  <2> QED
    BY <1>5, <1>8, <2>1 DEF NukeAppStorageFlashIfFirmwareChanged, Nuke, StoreVersion, Starting
<1>9. CASE Run
  BY <1>5, <1>9 DEF Run, Starting
<1>10. ASSUME NEW i \in Ids, Delete(i) \/ \E v \in Values : Put(i, v)
       PROVE  FALSE
  BY <1>1, <1>10 DEF Delete, Put, Nothing
<1>11. ASSUME NEW p \in Names, NEW q \in Names, FileCommand(p) \/ Copy(p, q)
       PROVE  FALSE
  BY <1>1, <1>11 DEF FileCommand, Copy, Nothing
<1>12. ASSUME NEW p \in Names, NEW q \in Names, Move(p, q)
       PROVE  MoveInv'
  <2>1. /\ FileExists(p) /\ files' = files
        /\ todo' = Write(q, files[p].data) \o Remove(p)
    BY <1>1, <1>12 DEF Move, Command
  <2>2. p # q /\ moved' = [from |-> p, to |-> q, what |-> files[p].data]
    BY <1>1, <1>12 DEF Move
  <2>3. files[p].data \in Contents
    <3>1. files[p] \in File
      BY <2>1 DEF Types, FileExists, Paths
    <3> QED
      BY <3>1 DEF File
  <2>4. todo' = <<Rm(q), Op(q), Wr(q, files[p].data), Cl(q), Rm(p)>>
    BY <2>1, CommandsAre
  <2> QED
    BY <2>1, <2>2, <2>3, <2>4 DEF MoveInv, Has, FileExists
<1>13. CASE Format
  BY <1>1, <1>13 DEF Format, Nothing
<1>14. CASE UNCHANGED vars
  BY <1>14 DEF vars, MoveInv, Has, FileExists, Data
<1> QED
  BY <1>2, <1>4, <1>6, <1>7, <1>8, <1>9, <1>10, <1>11, <1>12, <1>13, <1>14, <1>15 DEF Next

(* What Move() moves is in one place or the other, at every moment, unless *)
(* the code went on after a call that failed.                              *)
THEOREM MoveLosesNothing == Spec => []MoveKeepsData
<1>1. Init => Types /\ MoveInv
  BY TypesInit, MoveInit
<1>2. Types /\ MoveInv /\ [Next]_vars => (Types /\ MoveInv)'
  BY TypesNext, MoveNext
<1>3. MoveInv => MoveKeepsData
  BY DEF MoveInv, MoveKeepsData, Has
<1> QED
  BY <1>1, <1>2, <1>3, PTL DEF Spec

-----------------------------------------------------------------------------
(* What a start keeps.                                                     *)

(* Storing the version: a file system first, and then the file.            *)
StoreTodo ==
  LET V == VersionId IN
  \/ Head(todo) = Er /\ todo = <<Er, Fo, Op(V), Wr(V, V), Cl(V)>>
  \/ todo = <<Fo, Op(V), Wr(V, V), Cl(V)>>
  \/ formatted /\ todo = <<Op(V), Wr(V, V), Cl(V)>>
  \/ formatted /\ todo = <<Wr(V, V), Cl(V)>>
  \/ formatted /\ todo = <<Cl(V)>> /\ file = Data(V)
  \/ formatted /\ todo = <<>> /\ Complete(V)

(* A kept state with its version is there until the application runs.      *)
KeptHere ==
  /\ files = kept.files /\ formatted
  /\ Complete(VersionId) /\ files[VersionId].by = kept.by

KeptInv ==
  /\ phase = "run" => trouble \/ (Complete(VersionId) /\ formatted)
  /\ phase = "check" => formatted
  /\ phase = "store" => trouble \/ StoreTodo
  /\ kept # NoFile =>
       /\ phase \in {"off", "mount", "check"} /\ KeptHere /\ todo = <<>>
       /\ phase \in {"mount", "check"} => kept.by = firmware

LEMMA KeptInit == Init => KeptInv
BY DEF Init, KeptInv

LEMMA StoreStep ==
  ASSUME Types, StoreTodo, Step
  PROVE  StoreTodo'
<1> DEFINE V == VersionId
<1>1. todo' = Tail(todo) /\ Call(Head(todo)) /\ todo # <<>>
  BY DEF Step
<1>2. Head(todo).op # "erase" /\ formatted => formatted'
  BY DEF Step
<1>3. V \in Paths /\ V \in Contents
  BY DEF Paths, Contents
<1>4. Data(V) # NoFile /\ Data(V).data # Empty
  <2>1. Data(V) \in File /\ Data(V).data = V
    BY <1>3 DEF Types, Data, File
  <2> QED
    BY <2>1, StorageAssumption DEF File, Contents
<1>5. CASE todo = <<Er, Fo, Op(V), Wr(V, V), Cl(V)>>
  BY <1>1, <1>5 DEF StoreTodo
<1>6. CASE todo = <<Fo, Op(V), Wr(V, V), Cl(V)>>
  <2>1. Head(todo) = Fo /\ Tail(todo) = <<Op(V), Wr(V, V), Cl(V)>>
    BY <1>6
  <2>2. formatted'
    BY <2>1 DEF Step, Fo
  <2> QED
    BY <1>1, <2>1, <2>2 DEF StoreTodo
<1>7. CASE todo = <<Op(V), Wr(V, V), Cl(V)>> /\ formatted
  <2>1. Head(todo) = Op(V) /\ Tail(todo) = <<Wr(V, V), Cl(V)>>
    BY <1>7
  <2> QED
    BY <1>1, <1>2, <1>7, <2>1 DEF StoreTodo, Op
<1>8. CASE todo = <<Wr(V, V), Cl(V)>> /\ formatted
  <2>1. Head(todo) = Wr(V, V) /\ Tail(todo) = <<Cl(V)>>
    BY <1>8
  <2>2. file' = Data(V) /\ firmware' = firmware
    BY <1>1, <2>1, StorageAssumption DEF Call, Wr, Written, Step
  <2> QED
    BY <1>1, <1>2, <1>8, <2>1, <2>2 DEF StoreTodo, Wr, Data
<1>9. CASE todo = <<Cl(V)>> /\ formatted /\ file = Data(V)
  <2>1. Head(todo) = Cl(V) /\ Tail(todo) = <<>>
    BY <1>9
  <2>2. files'[V] = Data(V)
    BY <1>1, <1>3, <1>9, <2>1 DEF Call, Cl, Types
  <2> QED
    BY <1>1, <1>2, <1>4, <1>9, <2>1, <2>2 DEF StoreTodo, Cl, Complete, FileExists
<1> QED
  BY <1>1, <1>5, <1>6, <1>7, <1>8, <1>9 DEF StoreTodo

LEMMA KeptNext ==
  ASSUME Types, OwnersInv, KeptInv, [Next]_vars
  PROVE  KeptInv'
<1> DEFINE V == VersionId
<1>1. V \in Paths /\ V \notin Ids \cup Names
  BY StorageAssumption DEF Paths
<1>2. CASE Step
  <2>1. UNCHANGED <<phase, kept>> /\ Call(Head(todo)) /\ todo # <<>>
    BY <1>2 DEF Step
  <2>2. ASSUME phase = "store" PROVE trouble' \/ StoreTodo'
    BY <1>2, <2>2, StoreStep DEF KeptInv, Step
  <2>3. ASSUME phase = "run"
        PROVE  trouble' \/ (Complete(V) /\ formatted)'
    <3> DEFINE c == Head(todo)
    <3>1. c \in AppCalls
      BY <1>2, <2>3, StepCalls
    <3>2. CASE c.op \in {"erase", "format"}
      BY <1>2, <2>3, <3>2 DEF Step
    <3>3. CASE c.op \notin {"erase", "format"}
      <4>1. c.path # V /\ c \in Calls
        BY <1>1, <3>1, <3>3, AppCallFacts
      <4>2. files'[V] = files[V]
        <5>1. Call(c) /\ c.op \in {"remove", "open", "write", "trunc", "close"}
          BY <2>1, <3>3, <4>1, CallFacts
        <5>2. files' = files \/ \E d : files' = [files EXCEPT ![c.path] = d]
          BY <5>1 DEF Call
        <5> QED
          BY <1>1, <4>1, <5>2 DEF Types
      <4>3. formatted' = formatted
        BY <1>2, <3>3 DEF Step
      <4> QED
        <5>1. CASE trouble
          BY <1>2, <5>1 DEF Step
        <5>2. CASE ~trouble
          BY <2>3, <4>2, <4>3, <5>2 DEF KeptInv, Complete, FileExists
        <5> QED
          BY <5>1, <5>2
    <3> QED
      BY <3>2, <3>3
  <2>4. phase \in {"mount", "store", "run"}
    BY <1>2, StepCalls
  <2> QED
    BY <2>1, <2>2, <2>3, <2>4 DEF KeptInv
<1>3. CASE Fail
  BY <1>3 DEF Fail, KeptInv, KeptHere, Complete, FileExists
<1>4. CASE Reset
  <2>1. CASE phase = "run" /\ ~trouble
    <3>1. Complete(V) /\ formatted /\ files[V].by = firmware
      BY <1>1, <2>1 DEF KeptInv, OwnersInv, Ours, Complete
    <3>2. kept'.by = firmware /\ kept'.files = files
      BY <1>4, <2>1 DEF Reset
    <3> QED
      BY <1>4, <2>1, <3>1, <3>2 DEF Reset, KeptInv, KeptHere, Complete, FileExists
  <2>2. CASE phase = "run" /\ trouble
    BY <1>4, <2>2 DEF Reset, KeptInv
  <2>3. CASE phase # "run"
    BY <1>4, <2>3 DEF Reset, Types, KeptInv, KeptHere, Complete, FileExists
  <2> QED
    BY <2>1, <2>2, <2>3
<1>5. CASE PowerOn
  BY <1>5 DEF PowerOn, Types, KeptInv, KeptHere, Complete, FileExists
<1>6. CASE LfsMount
  BY <1>6 DEF LfsMount, Starting, KeptInv, KeptHere, Complete, FileExists
<1>7. CASE NukeAppStorageFlashIfFirmwareChanged
  <2> DEFINE same == Complete(V) /\ files[V].by = firmware
  <2>1. phase = "check" /\ UNCHANGED <<firmware, formatted, files>>
    BY <1>7 DEF NukeAppStorageFlashIfFirmwareChanged, Starting
  <2>2. CASE same /\ phase' = "run" /\ kept' = NoFile
    BY <2>1, <2>2 DEF KeptInv, Complete, FileExists
  <2>3. CASE Nuke /\ (same => kept' = NoFile) /\ (~same => kept' = kept)
    <3>1. kept' = NoFile
      BY <2>1, <2>3 DEF KeptInv, KeptHere
    <3>2. todo' = <<Er, Fo, Op(V), Wr(V, V), Cl(V)>> /\ phase' = "store"
      BY <2>3, StoreVersionIs DEF Nuke, StoreVersion
    <3> QED
      BY <3>1, <3>2 DEF KeptInv, StoreTodo
  <2> QED
    BY <1>7, <2>2, <2>3 DEF NukeAppStorageFlashIfFirmwareChanged
<1>8. CASE Run
  BY <1>8 DEF Run, Starting, KeptInv, StoreTodo, Complete, FileExists
<1>9. CASE AppCommand
  BY <1>9 DEF AppCommand, Command, KeptInv, Complete, FileExists
<1>10. CASE UNCHANGED vars
  BY <1>10 DEF vars, KeptInv, KeptHere, StoreTodo, Complete, FileExists, Data
<1> QED
  BY <1>2, <1>3, <1>4, <1>5, <1>6, <1>7, <1>8, <1>9, <1>10, NextCases

(* What the application left it finds again, however often the start was   *)
(* interrupted in between, unless storing or reading the version failed or *)
(* lfs.format erased it.                                                   *)
THEOREM SameFirmwareFindsIt == Spec => SameFirmwareNoChange
<1>1. Init => Types /\ OwnersInv /\ KeptInv
  BY TypesInit, OwnersInit, KeptInit
<1>2. Types /\ OwnersInv /\ KeptInv /\ [Next]_vars => (Types /\ OwnersInv /\ KeptInv)'
  BY TypesNext, OwnersNext, KeptNext
<1>3. ASSUME Types, KeptInv, [Next]_vars, phase # "run", phase' = "run", kept # NoFile
      PROVE  files' = kept.files
  <2>1. ASSUME UNCHANGED phase PROVE FALSE
    BY <1>3, <2>1
  <2>2. CASE NukeAppStorageFlashIfFirmwareChanged
    BY <1>3, <2>2 DEF NukeAppStorageFlashIfFirmwareChanged, Nuke, Starting, KeptInv, KeptHere
  <2>3. CASE Run
    BY <1>3, <2>3 DEF Run, Starting, KeptInv
  <2>4. CASE Step \/ Fail \/ AppCommand \/ UNCHANGED vars
    BY <2>1, <2>4 DEF Step, Fail, AppCommand, Command, vars
  <2>5. CASE Reset \/ PowerOn \/ LfsMount
    BY <1>3, <2>5 DEF Reset, PowerOn, LfsMount, Starting
  <2> QED
    BY <1>3, <2>2, <2>3, <2>4, <2>5, NextCases
<1>4. Types /\ KeptInv /\ [Next]_vars =>
        [phase # "run" /\ phase' = "run" /\ kept # NoFile => files' = kept.files]_vars
  BY <1>3
<1> QED
  BY <1>1, <1>2, <1>4, PTL DEF Spec, SameFirmwareNoChange
=============================================================================
