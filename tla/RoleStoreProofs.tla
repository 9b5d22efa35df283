-------------------------- MODULE RoleStoreProofs --------------------------
(***************************************************************************)
(* For any number of callers, files, calls and faults: the tree is sound,  *)
(* no file is removed that nobody asked to remove, unless two calls run    *)
(* beside each other and one is a Create that fails, and calls that follow *)
(* one another and leave the metadata file to the store leave a role that  *)
(* is listed, or nothing.                                                  *)
(***************************************************************************)
EXTENDS RoleStore, TLAPS

\* Steps of the calls that name a file.
FileSteps == {"put", "place", "write", "text", "find", "unlink", "move", "look", "prune"}

\* A call has its arguments, and has read the clock before it writes the metadata.
ArgInv ==
    \A c \in Callers :
        /\ pc[c] \in FileSteps => file[c] \in Names
        /\ pc[c] = "move" => target[c] \in Names
        /\ pc[c] \in {"make", "open", "made", "close"} => stamp[c] # 0

Idle(c) == pc[c] = "idle"

\* What an uninterrupted call finds and leaves at each of its steps.
Sound == IF dir THEN meta = "whole" ELSE files = {} /\ meta = "none"

Sequential(c) ==
    /\ pc[c] = "mkdir" => ~dir /\ Sound
    /\ pc[c] \in {"fill", "make"} => dir
    /\ pc[c] # "text"
    /\ pc[c] \in {"made", "close"} => dir /\ meta = "empty" /\ handle[c] = inode
    /\ pc[c] \in {"place", "stamp", "open"} => dir /\ Sound
    /\ pc[c] \notin {"fill", "make", "made", "close", "undo"} => Sound

AloneInv ==
    alone /\ ~named =>
        /\ \A c, d \in Callers : ~Idle(c) /\ ~Idle(d) => c = d
        /\ (\A c \in Callers : Idle(c)) => Sound
        /\ \A c \in Callers : ~Idle(c) => Sequential(c)

IInv == TypeOK /\ ArgInv /\ AloneInv

\* No role, no call.
LEMMA InitInv == Init => IInv
<1>1. Init => DiskTypes /\ TreeOK
  <2>. SUFFICES ASSUME Init PROVE DiskTypes /\ TreeOK
    OBVIOUS
  <2>1. dir = FALSE /\ sub = FALSE /\ files = {} /\ meta = "none" /\ updated = 0 /\ inode = 0
    BY DEF Init
  <2>2. files \cap Nested = {}
    BY <2>1
  <2>. QED
    BY <2>1, <2>2 DEF DiskTypes, TreeOK, Metas
<1>2. Init => CallTypes
  <2>. SUFFICES ASSUME Init PROVE CallTypes
    OBVIOUS
  <2>1. pc \in [Callers -> PCs]
    BY DEF Init, PCs
  <2>2. /\ file \in [Callers -> Names \cup {NoFile}]
        /\ target \in [Callers -> Names \cup {NoFile}]
        /\ rest \in [Callers -> SUBSET Names] /\ wrote \in [Callers -> SUBSET Names]
    BY DEF Init
  <2>3. /\ crossed \in [Callers -> BOOLEAN] /\ stamp \in [Callers -> Times \cup {0}]
        /\ handle \in [Callers -> Nat]
    BY DEF Init
  <2>. QED
    BY <2>1, <2>2, <2>3 DEF CallTypes
<1>3. Init => WatchTypes /\ BoundTypes
  <2>1. Init => WatchTypes
    BY DEF Init, WatchTypes
  <2>2. Init => BoundTypes
    <3>. SUFFICES ASSUME clock = 0, calls = 0, faults = 0 PROVE BoundTypes
      BY DEF Init
    <3>. QED
      BY RoleStoreAssumption DEF BoundTypes
  <2>. QED
    BY <2>1, <2>2
<1>4. Init => ArgInv
  BY DEF Init, ArgInv, FileSteps
<1>5. Init => AloneInv
  BY DEF Init, AloneInv, Idle, Sound
<1>. QED
  BY <1>1, <1>2, <1>3, <1>4, <1>5 DEF IInv, TypeOK

-----------------------------------------------------------------------------
(* Types                                                                   *)

\* Idle callers' variables are reset.
LEMMA ReturnTyped ==
  ASSUME CallTypes, ArgInv, NEW C \in SUBSET Callers, Return(C)
  PROVE  /\ CallTypes' /\ ArgInv'
         /\ \A c \in C : pc'[c] = "idle"
         /\ \A c \in Callers \ C : pc'[c] = pc[c]
BY DEF CallTypes, ArgInv, FileSteps, Return, PCs

\* A call goes on.
LEMMA GotoTyped ==
  ASSUME CallTypes, NEW c \in Callers, NEW l \in PCs, Goto(c, l)
  PROVE  /\ pc' \in [Callers -> PCs]
         /\ pc'[c] = l
         /\ \A d \in Callers \ {c} : pc'[d] = pc[d]
BY DEF CallTypes, Goto

\* A call goes on with what it has; the metadata's steps need a time.
LEMMA GotoWith ==
  ASSUME CallTypes, ArgInv, NEW c \in Callers, NEW l \in PCs, Goto(c, l),
         UNCHANGED <<argVars, touchVars>>,
         l \notin {"make", "open", "made", "close"},
         l \in FileSteps => file[c] \in Names,
         l = "move" => target[c] \in Names
  PROVE  CallTypes' /\ ArgInv'
<1>1. UNCHANGED <<file, target, rest, wrote, crossed, stamp, handle>>
  BY DEF argVars, touchVars
<1>. QED
  BY <1>1, GotoTyped DEF CallTypes, ArgInv

\* A step that only looks.
LEMMA LookTyped ==
  ASSUME TypeOK, ArgInv, NEW c \in Callers, NEW l \in PCs, Look(c, l),
         l \notin {"make", "open", "made", "close"},
         l \in FileSteps => file[c] \in Names,
         l # "move"
  PROVE  TypeOK' /\ ArgInv'
<1>1. UNCHANGED <<argVars, touchVars>> /\ Goto(c, l)
  BY DEF Look
<1>2. UNCHANGED <<dir, sub, files, meta, updated, inode, known, owed, alone, named,
                  clock, calls, faults>>
  BY DEF Look, diskVars, metaVars, boundVars
<1>3. CallTypes' /\ ArgInv'
  BY <1>1, GotoWith DEF TypeOK
<1>. QED
  BY <1>2, <1>3 DEF TypeOK, DiskTypes, TreeOK, WatchTypes, BoundTypes

\* A call that returns an error changes nothing on the volume.
LEMMA ErrorTyped ==
  ASSUME TypeOK, ArgInv, NEW c \in Callers, Error(c)
  PROVE  TypeOK' /\ ArgInv'
<1>1. Return({c}) /\ owed' = owed \ {c}
  BY DEF Error
<1>2. UNCHANGED <<dir, sub, files, meta, updated, inode, known, alone, named,
                  clock, calls, faults>>
  BY DEF Error, diskVars, metaVars, boundVars
<1>3. CallTypes' /\ ArgInv'
  BY <1>1, ReturnTyped DEF TypeOK
<1>. QED
  BY <1>1, <1>2, <1>3 DEF TypeOK, DiskTypes, TreeOK, WatchTypes, BoundTypes

\* A fault is counted.
LEMMA FaultTyped ==
  ASSUME BoundTypes, Fault
  PROVE  BoundTypes'
BY RoleStoreAssumption DEF BoundTypes, Fault

\* A call begins.
LEMMA BeginTyped ==
  ASSUME TypeOK, ArgInv, NEW c \in Callers, Call(c)
  PROVE  TypeOK' /\ ArgInv'
<1>1. PICK l \in {"create", "put", "find", "touch", "count"},
           f \in Names \cup {NoFile}, t \in Names \cup {NoFile},
           S \in SUBSET Names :
             Begin(c, l, f, t, S) /\ (l \in {"put", "find"} => f \in Names)
  <2>1. CASE Create(c)
    BY <2>1, RoleStoreAssumption DEF Create, Names, Files
  <2>2. CASE PutFile(c) \/ DeleteFile(c) \/ RenameFile(c)
    BY <2>2 DEF PutFile, DeleteFile, RenameFile
  <2>3. CASE UpdateDescription(c) \/ Delete(c)
    BY <2>3 DEF UpdateDescription, Delete
  <2>. QED
    BY <2>1, <2>2, <2>3 DEF Call
<1>2. Goto(c, l) /\ l \in PCs
  BY <1>1 DEF Begin, PCs
<1>3. UNCHANGED <<dir, sub, files, meta, updated, inode, stamp, handle, wrote, known,
                  named, clock, faults>>
  BY <1>1 DEF Begin, diskVars, metaVars, touchVars
<1>4. /\ file' \in [Callers -> Names \cup {NoFile}]
      /\ target' \in [Callers -> Names \cup {NoFile}]
      /\ rest' \in [Callers -> SUBSET Names]
      /\ crossed' \in [Callers -> BOOLEAN]
      /\ file'[c] = f
      /\ \A d \in Callers \ {c} : file'[d] = file[d] /\ target'[d] = target[d]
  BY <1>1 DEF Begin, TypeOK, CallTypes, Busy
<1>5. CallTypes' /\ ArgInv'
  BY <1>1, <1>2, <1>3, <1>4, GotoTyped DEF TypeOK, CallTypes, ArgInv, FileSteps
<1>6. BoundTypes' /\ WatchTypes'
  BY <1>1, <1>3, RoleStoreAssumption DEF Begin, TypeOK, BoundTypes, WatchTypes, Busy
<1>. QED
  BY <1>3, <1>5, <1>6 DEF TypeOK, DiskTypes, TreeOK

\* The role's directory is removed.
LEMMA RemoveTyped ==
  ASSUME DiskTypes, RemoveAll
  PROVE  DiskTypes' /\ TreeOK'
<1>1. /\ dir' = FALSE /\ sub' = FALSE /\ files' = {} /\ meta' = "none"
      /\ updated' = 0 /\ inode' = inode
  BY DEF RemoveAll
<1>2. files' \cap Nested = {}
  BY <1>1
<1>. QED
  BY <1>1, <1>2 DEF DiskTypes, TreeOK, Metas

\* A part of it is removed.
LEMMA PartTyped ==
  ASSUME TypeOK, RemovePart
  PROVE  DiskTypes' /\ TreeOK' /\ BoundTypes' /\ alone' = FALSE
<1>1. Fault /\ dir /\ dir' = dir /\ inode' = inode /\ alone' = FALSE
  BY DEF RemovePart
<1>2. files' \subseteq files
  BY DEF RemovePart
<1>4. sub' \in BOOLEAN
  BY DEF RemovePart, TypeOK, DiskTypes
<1>5. files' \cap Nested # {} => sub'
  <2>1. CASE sub' = sub
    BY <1>2, <2>1 DEF TypeOK, TreeOK
  <2>. QED
    BY <2>1 DEF RemovePart
<1>3. meta' \in Metas /\ updated' \in IF meta' = "whole" THEN Times ELSE {0}
  BY DEF RemovePart, TypeOK, DiskTypes, Metas
<1>. QED
  BY <1>1, <1>2, <1>3, <1>4, <1>5, FaultTyped DEF TypeOK, DiskTypes, TreeOK

\* Either way, of Undo and Remove.
LEMMA RemovalTyped ==
  ASSUME TypeOK, (RemoveAll /\ UNCHANGED <<alone, boundVars>>) \/ RemovePart
  PROVE  DiskTypes' /\ TreeOK' /\ BoundTypes' /\ alone' \in BOOLEAN
<1>1. CASE RemoveAll /\ UNCHANGED <<alone, boundVars>>
  BY <1>1, RemoveTyped DEF TypeOK, WatchTypes, BoundTypes, boundVars
<1>. QED
  BY <1>1, PartTyped

\* A file's directory is made.
LEMMA ParentTyped ==
  ASSUME DiskTypes, TreeOK, NEW f \in Names \cup {NoFile}, MakeParent(f)
  PROVE  /\ dir' = TRUE /\ sub' \in BOOLEAN
         /\ sub => sub'
         /\ f \in Nested => sub'
BY DEF DiskTypes, MakeParent

\* A caller's text is one that can be read, with a time, or one that cannot.
LEMMA TextTyped ==
  ASSUME TypeOK, CallersText
  PROVE  /\ meta' \in {"whole", "garbled"} /\ meta' \in Metas
         /\ updated' \in IF meta' = "whole" THEN Times ELSE {0}
<1>1. CASE meta' = "garbled" /\ updated' = 0
  BY <1>1 DEF Metas
<1>2. CASE meta' = "whole" /\ updated' \in 1 .. clock
  BY <1>2 DEF Metas, TypeOK, BoundTypes, Times
<1>. QED
  BY <1>1, <1>2 DEF CallersText

LEMMA InodeTyped == TypeOK => Inode \in Nat
BY DEF TypeOK, DiskTypes, Inode

\* The metadata file is not a nested one.
LEMMA MetadataApart == Metadata \notin Files /\ Metadata \notin Nested /\ Metadata \in Names
BY RoleStoreAssumption DEF Files, Names

\* The steps of Create, up to the metadata.
LEMMA CreateTyped ==
  ASSUME TypeOK, ArgInv, NEW c \in Callers,
         Mkdir(c) \/ Fill(c) \/ Undo(c)
  PROVE  TypeOK' /\ ArgInv'
<1>1. CASE Mkdir(c)
  <2>1. Goto(c, "fill") /\ "fill" \in PCs /\ UNCHANGED <<argVars, touchVars>>
    BY <1>1 DEF Mkdir, PCs
  <2>2. CallTypes' /\ ArgInv'
    BY <2>1, GotoWith DEF TypeOK, FileSteps
  <2>3. dir' = TRUE /\ UNCHANGED <<sub, files, meta, updated, inode, known, owed, alone,
                                   named, clock, calls, faults>>
    BY <1>1 DEF Mkdir, metaVars, boundVars
  <2>. QED
    BY <2>2, <2>3 DEF TypeOK, DiskTypes, TreeOK, WatchTypes, BoundTypes
<1>2. CASE Undo(c)
  <2>1. Return({c}) /\ owed' = owed \ {c} /\ UNCHANGED <<known, named>>
    BY <1>2 DEF Undo
  <2>2. CallTypes' /\ ArgInv'
    BY <2>1, ReturnTyped DEF TypeOK
  <2>3. DiskTypes' /\ TreeOK' /\ BoundTypes' /\ alone' \in BOOLEAN
    BY <1>2, RemovalTyped DEF Undo
  <2>. QED
    BY <2>1, <2>2, <2>3 DEF TypeOK, WatchTypes
<1>3. CASE Fill(c)
  <2>1. UNCHANGED <<file, target, crossed, handle, known, alone, calls, faults>>
    BY <1>3 DEF Fill
  <2>2. ASSUME NEW f \in rest[c],
               rest' = [rest EXCEPT ![c] = @ \ {f}],
               wrote' = [wrote EXCEPT ![c] = @ \cup {f}],
               MakeParent(f), Owe(c), UNCHANGED <<pc, stamp, clock>>,
               \/ /\ f \in Files
                  /\ files' = files \cup {f}
                  /\ UNCHANGED <<metaVars, named>>
               \/ /\ f = Metadata
                  /\ CallersText
                  /\ inode' = Inode
                  /\ named' = (named \/ meta # "none")
                  /\ UNCHANGED files
        PROVE  TypeOK' /\ ArgInv'
    <3>2. f \in Names
      BY DEF TypeOK, CallTypes
    <3>3. dir' = TRUE /\ sub' \in BOOLEAN /\ (sub => sub') /\ (f \in Nested => sub')
      BY <2>2, <3>2, ParentTyped DEF TypeOK
    <3>4. DiskTypes' /\ TreeOK' /\ named' \in BOOLEAN
      <4>1. CASE f \in Files
        <5>1. UNCHANGED <<meta, updated, inode, named>> /\ files' = files \cup {f}
          BY <2>2, <4>1, MetadataApart DEF metaVars
        <5>. QED
          BY <3>3, <4>1, <5>1 DEF TypeOK, DiskTypes, TreeOK, WatchTypes
      <4>2. CASE f = Metadata
        <5>1. CallersText /\ inode' = Inode /\ files' = files /\ named' \in BOOLEAN
          BY <2>2, <4>2, MetadataApart DEF TypeOK, WatchTypes
        <5>. QED
          BY <3>3, <5>1, TextTyped, InodeTyped DEF TypeOK, DiskTypes, TreeOK
      <4>. QED
        BY <2>2, <4>1, <4>2
    <3>5. CallTypes' /\ ArgInv'
      BY <2>1, <2>2, <3>2 DEF TypeOK, CallTypes, ArgInv
    <3>6. WatchTypes' /\ BoundTypes'
      BY <2>1, <2>2, <3>4 DEF TypeOK, WatchTypes, BoundTypes, Owe
    <3>. QED
      BY <3>4, <3>5, <3>6 DEF TypeOK
  <2>3. CASE /\ clock' = clock + 1
             /\ stamp' = [stamp EXCEPT ![c] = clock']
             /\ Goto(c, "make")
             /\ UNCHANGED <<diskVars, rest, wrote, owed, named>>
    <3>1. UNCHANGED <<dir, sub, files, meta, updated, inode, rest, wrote, owed, named>>
      BY <2>3 DEF diskVars, metaVars
    <3>2. clock' \in Times
      BY <2>3 DEF TypeOK, BoundTypes, Times
    <3>3. stamp' \in [Callers -> Times \cup {0}] /\ stamp'[c] # 0
      BY <2>3, <3>2 DEF TypeOK, CallTypes, Times
    <3>4. pc' \in [Callers -> PCs] /\ pc'[c] = "make" /\ \A d \in Callers \ {c} : pc'[d] = pc[d]
      BY <2>3, GotoTyped DEF TypeOK, PCs
    <3>5. \A d \in Callers \ {c} : stamp'[d] = stamp[d]
      BY <2>3 DEF TypeOK, CallTypes
    <3>6. CallTypes' /\ ArgInv'
      BY <2>1, <2>3, <3>1, <3>3, <3>4, <3>5 DEF TypeOK, CallTypes, ArgInv, FileSteps
    <3>. QED
      BY <2>1, <3>1, <3>2, <3>6
      DEF TypeOK, DiskTypes, TreeOK, WatchTypes, BoundTypes, Times
  <2>. QED
    BY <1>3, <2>2, <2>3 DEF Fill
<1>. QED
  BY <1>1, <1>2, <1>3

\* A step that fails.
LEMMA FailsTyped ==
  ASSUME TypeOK, ArgInv, NEW c \in Callers, Fails(c)
  PROVE  TypeOK' /\ ArgInv'
<1>1. CallTypes' /\ ArgInv'
  <2>1. CASE Goto(c, "undo") /\ UNCHANGED <<argVars, touchVars>>
    BY <2>1, GotoWith DEF TypeOK, PCs, FileSteps
  <2>2. CASE Return({c})
    BY <2>2, ReturnTyped DEF TypeOK
  <2>. QED
    BY <2>1, <2>2 DEF Fails
<1>2. UNCHANGED <<dir, sub, meta, updated, inode, known, named>> /\ owed' = owed \ {c}
  BY DEF Fails, metaVars
<1>3. BoundTypes' /\ alone' \in BOOLEAN
  <2>1. CASE Fault /\ alone' = (alone /\ pc[c] # "close")
    BY <2>1, FaultTyped DEF TypeOK
  <2>2. CASE UNCHANGED <<alone, named, boundVars>>
    BY <2>2 DEF TypeOK, WatchTypes, BoundTypes, boundVars
  <2>. QED
    BY <2>1, <2>2 DEF Fails
<1>4. files' \subseteq Files /\ TreeOK'
  <2>1. CASE files' = files
    BY <1>2, <2>1 DEF TypeOK, DiskTypes, TreeOK
  <2>2. CASE /\ pc[c] = "write" /\ file[c] \in Files /\ HasParent(file[c])
             /\ files' = files \cup {file[c]}
    BY <1>2, <2>2 DEF TypeOK, DiskTypes, TreeOK, HasParent
  <2>. QED
    BY <2>1, <2>2 DEF Fails
<1>. QED
  BY <1>1, <1>2, <1>3, <1>4 DEF TypeOK, DiskTypes, WatchTypes

\* PutFile opens the metadata file, named by the caller.
LEMMA OpenNamedTyped ==
  ASSUME TypeOK, ArgInv, NEW c \in Callers, WriteFile(c), file[c] = Metadata, ~Error(c)
  PROVE  TypeOK' /\ ArgInv'
<1>1. /\ pc[c] = "write" /\ HasParent(Metadata) /\ meta' = "empty" /\ updated' = 0
      /\ inode' = Inode /\ handle' = [handle EXCEPT ![c] = inode']
      /\ named' = TRUE /\ Goto(c, "text")
      /\ UNCHANGED <<dir, sub, files, file, target, rest, wrote, crossed, stamp, known,
                     owed, alone, clock, calls, faults>>
  BY MetadataApart DEF WriteFile, argVars, boundVars
<1>2. inode' \in Nat
  BY <1>1, InodeTyped
<1>3. dir
  BY <1>1, MetadataApart DEF HasParent
<1>4. handle' \in [Callers -> Nat]
  BY <1>1, <1>2 DEF TypeOK, CallTypes
<1>5. CallTypes' /\ ArgInv'
  BY <1>1, <1>4, MetadataApart, GotoTyped DEF TypeOK, PCs, CallTypes, ArgInv, FileSteps
<1>. QED
  BY <1>1, <1>2, <1>3, <1>5
  DEF TypeOK, DiskTypes, Metas, TreeOK, WatchTypes, BoundTypes

\* The steps that change files and their directories.
LEMMA FilesTyped ==
  ASSUME TypeOK, ArgInv, NEW c \in Callers,
         \/ Place(c) \/ WriteFile(c) \/ WriteText(c) \/ Unlink(c) \/ Move(c) \/ Prune(c)
  PROVE  TypeOK' /\ ArgInv'
<1>1. CASE Error(c)
  BY <1>1, ErrorTyped
<1>2. CASE WriteFile(c) /\ file[c] = Metadata /\ ~Error(c)
  BY <1>2, OpenNamedTyped
<1>3. CASE ~Error(c) /\ ~(WriteFile(c) /\ file[c] = Metadata)
  <2>0. file[c] \in Names /\ (Move(c) => target[c] \in Names)
    BY DEF ArgInv, FileSteps, Place, WriteFile, WriteText, Unlink, Move, Prune
  <2>5. target[c] \in Names \cup {NoFile}
    BY DEF TypeOK, CallTypes
  <2>1. PICK l \in {"write", "move", "touch", "look"} :
           Goto(c, l) /\ UNCHANGED <<argVars, touchVars>>
    BY <1>3 DEF Place, WriteFile, WriteText, Unlink, Move, Prune, Left
  <2>2. CallTypes' /\ ArgInv'
    <3>1. l = "move" => target[c] \in Names
      BY <1>3, <2>1, <2>5, GotoTyped
      DEF TypeOK, PCs, Place, WriteFile, WriteText, Unlink, Move, Prune, Left
    <3>. QED
      BY <2>0, <2>1, <3>1, GotoWith DEF TypeOK, PCs
  <2>3. UNCHANGED <<known, alone, clock, calls, faults>>
    BY <1>3 DEF Place, WriteFile, WriteText, Unlink, Move, Prune, boundVars
  <2>4. owed' \in SUBSET Callers /\ named' \in BOOLEAN
    BY <1>3
    DEF TypeOK, WatchTypes, Place, WriteFile, WriteText, Unlink, Move, Prune, Owe
  <2>6. DiskTypes' /\ TreeOK'
    <3>1. CASE Place(c)
      <4>1. PICK f \in Names \cup {NoFile} :
               MakeParent(f) /\ UNCHANGED <<files, meta, updated, inode>>
        BY <2>0, <2>5, <3>1 DEF Place, metaVars
      <4>. QED
        BY <4>1, ParentTyped DEF TypeOK, DiskTypes, TreeOK
    <3>2. CASE WriteFile(c)
      <4>1. /\ HasParent(file[c]) /\ files' = files \cup {file[c]} /\ file[c] \in Files
            /\ UNCHANGED <<dir, sub, meta, updated, inode>>
        BY <1>3, <3>2 DEF WriteFile, metaVars
      <4>. QED
        BY <4>1 DEF TypeOK, DiskTypes, TreeOK, HasParent
    <3>6. CASE WriteText(c)
      <4>1. UNCHANGED <<dir, sub, files, inode>>
        BY <3>6 DEF WriteText
      <4>2. UNCHANGED <<meta, updated>> \/ (meta # "none" /\ CallersText)
        BY <3>6 DEF WriteText
      <4>3. CASE UNCHANGED <<meta, updated>>
        BY <4>1, <4>3 DEF TypeOK, DiskTypes, TreeOK
      <4>4. CASE meta # "none" /\ CallersText
        BY <4>1, <4>4, TextTyped DEF TypeOK, DiskTypes, TreeOK
      <4>. QED
        BY <4>2, <4>3, <4>4
    <3>3. CASE Unlink(c)
      <4>1. UNCHANGED <<dir, sub, inode>> /\ files' \subseteq files
        BY <1>3, <3>3 DEF Unlink, metaVars
      <4>2. UNCHANGED <<meta, updated>> \/ (meta' = "none" /\ updated' = 0)
        BY <1>3, <3>3 DEF Unlink, metaVars
      <4>3. meta' \in Metas /\ updated' \in (IF meta' = "whole" THEN Times ELSE {0})
        BY <4>2 DEF TypeOK, DiskTypes, Metas
      <4>. QED
        BY <4>1, <4>2, <4>3 DEF TypeOK, DiskTypes, TreeOK
    <3>4. CASE Move(c)
      <4>1. HasParent(target[c]) /\ UNCHANGED <<dir, sub>>
        BY <1>3, <3>4 DEF Move
      <4>2. CASE files' \subseteq files \cup {target[c]} /\ target[c] \in Files
                 /\ UNCHANGED <<meta, updated, inode>>
        BY <4>1, <4>2 DEF TypeOK, DiskTypes, TreeOK, HasParent
      <4>3. CASE files' \subseteq files /\ target[c] = Metadata /\ CallersText
                 /\ inode' = inode + 1
        <5>1. dir
          BY <4>1, <4>3, MetadataApart DEF HasParent
        <5>2. inode' \in Nat
          BY <4>3 DEF TypeOK, DiskTypes
        <5>. QED
          BY <4>1, <4>3, <5>1, <5>2, TextTyped DEF TypeOK, DiskTypes, TreeOK
      <4>4. CASE files' \subseteq files \cup {target[c]} /\ target[c] \in Files
                 /\ meta' = "none" /\ updated' = 0 /\ inode' = inode
        BY <4>1, <4>4 DEF TypeOK, DiskTypes, TreeOK, HasParent, Metas
      <4>. QED
        BY <1>3, <3>4, <4>2, <4>3, <4>4 DEF Move, metaVars
    <3>5. CASE Prune(c)
      <4>1. /\ sub' = (sub /\ files \cap Nested # {})
            /\ UNCHANGED <<dir, files, meta, updated, inode>>
        BY <3>5 DEF Prune, metaVars
      <4>. QED
        BY <4>1 DEF TypeOK, DiskTypes, TreeOK
    <3>. QED
      BY <3>1, <3>2, <3>3, <3>4, <3>5, <3>6
  <2>. QED
    BY <2>2, <2>3, <2>4, <2>6 DEF TypeOK, WatchTypes, BoundTypes
<1>. QED
  BY <1>1, <1>2, <1>3

\* The steps that only look, or return an error.
LEMMA LooksTyped ==
  ASSUME TypeOK, ArgInv, NEW c \in Callers,
         \/ CreateStat(c) \/ PutStat(c) \/ Find(c) \/ LookEmpty(c)
         \/ ReadMetadata(c) \/ CountAgents(c)
  PROVE  TypeOK' /\ ArgInv'
<1>1. CASE Error(c)
  BY <1>1, ErrorTyped
<1>2. CASE \E l \in {"mkdir", "stamp", "remove", "touch"} : Look(c, l)
  BY <1>2, LookTyped DEF PCs, FileSteps
<1>3. CASE \E l \in {"place", "unlink", "prune"} : Look(c, l)
  <2>1. pc[c] \in FileSteps \/ ~(PutStat(c) \/ Find(c) \/ LookEmpty(c))
    BY DEF FileSteps, PutStat, Find, LookEmpty
  <2>2. pc[c] \in FileSteps \/ Error(c) \/ \E l \in {"mkdir", "stamp", "remove"} : Look(c, l)
    BY <2>1 DEF CreateStat, ReadMetadata, CountAgents
  <2>3. CASE pc[c] \in FileSteps
    BY <1>3, <2>3, LookTyped DEF PCs, ArgInv
  <2>. QED
    BY <1>1, <1>2, <2>2, <2>3
<1>. QED
  BY <1>1, <1>2, <1>3
  DEF CreateStat, PutStat, Find, LookEmpty, ReadMetadata, CountAgents

\* The steps that write the metadata.
LEMMA MetadataTyped ==
  ASSUME TypeOK, ArgInv, NEW c \in Callers, Stamp(c) \/ Open(c) \/ Close(c)
  PROVE  TypeOK' /\ ArgInv'
<1>1. CASE Stamp(c)
  <2>1. /\ clock' = clock + 1 /\ stamp' = [stamp EXCEPT ![c] = clock']
        /\ Goto(c, "open") /\ "open" \in PCs
        /\ UNCHANGED <<dir, sub, files, meta, updated, inode, file, target, rest,
                       wrote, crossed, handle, known, owed, alone, named, calls, faults>>
    BY <1>1 DEF Stamp, diskVars, metaVars, argVars, PCs
  <2>2. clock' \in Times /\ clock' \in Nat
    BY <2>1 DEF TypeOK, BoundTypes, Times
  <2>3. /\ stamp' \in [Callers -> Times \cup {0}] /\ stamp'[c] # 0
        /\ \A d \in Callers \ {c} : stamp'[d] = stamp[d]
    BY <2>1, <2>2 DEF TypeOK, CallTypes, Times
  <2>4. CallTypes' /\ ArgInv'
    BY <2>1, <2>3, GotoTyped DEF TypeOK, CallTypes, ArgInv, FileSteps
  <2>. QED
    BY <2>1, <2>2, <2>4 DEF TypeOK, DiskTypes, TreeOK, WatchTypes, BoundTypes
<1>2. CASE Open(c)
  <2>1. /\ dir /\ meta' = "empty" /\ updated' = 0
        /\ inode' = Inode
        /\ handle' = [handle EXCEPT ![c] = inode']
        /\ \E l \in {"made", "close"} \cap PCs : Goto(c, l)
        /\ UNCHANGED <<dir, sub, files, file, target, rest, wrote, crossed, stamp,
                       known, owed, alone, named, clock, calls, faults>>
    BY <1>2 DEF Open, argVars, boundVars, PCs
  <2>2. inode' \in Nat
    BY <2>1, InodeTyped
  <2>3. handle' \in [Callers -> Nat]
    BY <2>1, <2>2 DEF TypeOK, CallTypes
  <2>4. stamp[c] # 0
    BY <1>2 DEF ArgInv, Open
  <2>5. CallTypes' /\ ArgInv'
    BY <2>1, <2>3, <2>4, GotoTyped DEF TypeOK, CallTypes, ArgInv, FileSteps
  <2>. QED
    BY <2>1, <2>2, <2>5
    DEF TypeOK, DiskTypes, Metas, TreeOK, WatchTypes, BoundTypes
<1>3. CASE Close(c)
  <2>1. /\ Return({c})
        /\ UNCHANGED <<dir, sub, files, inode, known, owed, alone, named, clock,
                       calls, faults>>
    BY <1>3 DEF Close, boundVars
  <2>2. CallTypes' /\ ArgInv'
    BY <2>1, ReturnTyped DEF TypeOK
  <2>3. stamp[c] \in Times
    BY <1>3 DEF TypeOK, CallTypes, ArgInv, Close
  <2>4. /\ meta' \in Metas
        /\ updated' \in IF meta' = "whole" THEN Times ELSE {0}
        /\ meta' # "none" => meta # "none"
    BY <1>3, <2>3 DEF TypeOK, DiskTypes, Metas, Close
  <2>. QED
    BY <2>1, <2>2, <2>4 DEF TypeOK, DiskTypes, TreeOK, WatchTypes, BoundTypes
<1>. QED
  BY <1>1, <1>2, <1>3

\* Delete's last step, restarts and the watcher.
LEMMA OthersTyped ==
  ASSUME TypeOK, ArgInv,
         (\E c \in Callers : Remove(c)) \/ Restart \/ Scan \/ WatcherRestarts
  PROVE  TypeOK' /\ ArgInv'
<1>1. ASSUME NEW c \in Callers, Remove(c) PROVE TypeOK' /\ ArgInv'
  <2>1. Return({c}) /\ UNCHANGED <<known, owed, named>>
    BY <1>1 DEF Remove
  <2>2. CallTypes' /\ ArgInv'
    BY <2>1, ReturnTyped DEF TypeOK
  <2>3. DiskTypes' /\ TreeOK' /\ BoundTypes' /\ alone' \in BOOLEAN
    BY <1>1, RemovalTyped DEF Remove
  <2>. QED
    BY <2>1, <2>2, <2>3 DEF TypeOK, WatchTypes
<1>2. CASE Restart
  <2>1. Return(Callers) /\ Fault /\ owed' \in SUBSET owed
        /\ UNCHANGED <<dir, sub, files, meta, updated, inode, known, named>>
    BY <1>2 DEF Restart, diskVars, metaVars
  <2>2. CallTypes' /\ ArgInv'
    BY <2>1, ReturnTyped DEF TypeOK
  <2>3. alone' = FALSE
    BY <1>2 DEF Restart
  <2>. QED
    BY <2>1, <2>2, <2>3, FaultTyped DEF TypeOK, DiskTypes, TreeOK, WatchTypes
<1>3. CASE Scan \/ WatcherRestarts
  <2>1. UNCHANGED <<dir, sub, files, meta, updated, inode,
                    pc, file, target, rest, wrote, crossed, stamp, handle, named>>
        /\ owed' = {}
    BY <1>3 DEF Scan, WatcherRestarts, diskVars, metaVars, callVars, argVars, touchVars
  <2>2. known' \in Times \cup {0}
    BY <1>3 DEF Scan, WatcherRestarts, TypeOK, DiskTypes
  <2>3. BoundTypes' /\ alone' \in BOOLEAN
    <3>1. CASE Scan
      BY <3>1 DEF Scan, TypeOK, WatchTypes, BoundTypes, boundVars
    <3>2. CASE WatcherRestarts
      BY <3>2, FaultTyped DEF WatcherRestarts, TypeOK, WatchTypes
    <3>. QED
      BY <1>3, <3>1, <3>2
  <2>. QED
    BY <2>1, <2>2, <2>3 DEF TypeOK, DiskTypes, TreeOK, CallTypes, WatchTypes, ArgInv
<1>. QED
  BY <1>1, <1>2, <1>3

\* Every step keeps the types and the arguments.
LEMMA NextTyped ==
  ASSUME TypeOK, ArgInv, [Next]_vars
  PROVE  TypeOK' /\ ArgInv'
<1>1. CASE UNCHANGED vars
  BY <1>1
  DEF TypeOK, DiskTypes, TreeOK, CallTypes, WatchTypes, BoundTypes, ArgInv,
      vars, diskVars, metaVars, callVars, argVars, touchVars, boundVars
<1>2. ASSUME NEW c \in Callers, Call(c) PROVE TypeOK' /\ ArgInv'
  BY <1>2, BeginTyped
<1>3. ASSUME NEW c \in Callers, CallStep(c) PROVE TypeOK' /\ ArgInv'
  BY <1>3, CreateTyped, FailsTyped, FilesTyped, LooksTyped, MetadataTyped, OthersTyped
  DEF CallStep
<1>4. CASE Restart \/ Scan \/ WatcherRestarts
  BY <1>4, OthersTyped
<1>. QED
  BY <1>1, <1>2, <1>3, <1>4 DEF Next

\* Types, and the shape of the directory tree, hold whatever calls do at the
\* same time.
THEOREM TypeCorrect == Spec => []TypeOK
<1>1. Init => TypeOK /\ ArgInv
  BY InitInv DEF IInv
<1>2. TypeOK /\ ArgInv /\ [Next]_vars => (TypeOK /\ ArgInv)'
  BY NextTyped
<1>. QED
  BY <1>1, <1>2, PTL DEF Spec

-----------------------------------------------------------------------------
(* Removals                                                                *)

\* Steps of a Create after it looked for the directory.
Creating == {"mkdir", "fill", "undo", "make", "made"}

\* Who runs beside another call knows it; the files that a Create finds when no
\* call ran beside it are those that it wrote.
OwnInv ==
    /\ \A c, d \in Callers : c # d /\ Busy(c) /\ Busy(d) => crossed[c]
    /\ \A c \in Callers : pc[c] \in Creating /\ ~crossed[c] => files \subseteq wrote[c]

\* A call that begins has the others know it.
LEMMA BeginOwn ==
  ASSUME TypeOK, OwnInv, NEW c \in Callers, Call(c)
  PROVE  OwnInv'
<1>1. PICK l \in {"create", "put", "find", "touch", "count"} :
         /\ pc[c] = "idle" /\ Goto(c, l)
         /\ crossed' = [d \in Callers |-> IF d = c THEN \E b \in Callers : Busy(b)
                                          ELSE crossed[d] \/ Busy(d)]
         /\ UNCHANGED <<files, wrote>>
  BY DEF Call, Create, PutFile, DeleteFile, RenameFile, UpdateDescription, Delete,
         Begin, diskVars
<1>2. pc'[c] = l /\ \A d \in Callers \ {c} : pc'[d] = pc[d]
  BY <1>1, GotoTyped DEF TypeOK, PCs
<1>3. ASSUME NEW a \in Callers, NEW d \in Callers, a # d, Busy(a)', Busy(d)'
      PROVE  crossed'[a]
  <2>1. CASE a = c
    BY <1>1, <1>2, <1>3, <2>1 DEF Busy
  <2>2. CASE a # c
    BY <1>1, <1>2, <1>3, <2>2 DEF Busy
  <2>. QED
    BY <2>1, <2>2
<1>4. ASSUME NEW a \in Callers, pc'[a] \in Creating, ~crossed'[a]
      PROVE  files' \subseteq wrote'[a]
  <2>1. a # c
    BY <1>2, <1>4 DEF Creating
  <2>2. pc[a] = pc'[a] /\ ~crossed[a]
    BY <1>1, <1>2, <1>4, <2>1
  <2>. QED
    BY <1>1, <1>4, <2>2 DEF OwnInv
<1>. QED
  BY <1>3, <1>4 DEF OwnInv

\* Steps of c that leave its record alone, or end the call.
LEMMA StepOwn ==
  ASSUME TypeOK, OwnInv, NEW c \in Callers, Busy(c),
         \A d \in Callers \ {c} :
            pc'[d] = pc[d] /\ crossed'[d] = crossed[d] /\ wrote'[d] = wrote[d],
         pc'[c] = "idle" \/ crossed'[c] = crossed[c],
         pc'[c] \in Creating /\ ~crossed[c] => files' \subseteq wrote'[c]
  PROVE  OwnInv'
<1>1. ASSUME NEW a \in Callers, NEW d \in Callers, a # d, Busy(a)', Busy(d)'
      PROVE  crossed'[a]
  BY <1>1 DEF OwnInv, Busy
<1>2. ASSUME NEW a \in Callers, pc'[a] \in Creating, ~crossed'[a]
      PROVE  files' \subseteq wrote'[a]
  <2>1. CASE a = c
    BY <1>2, <2>1 DEF Creating
  <2>2. CASE a # c
    BY <1>2, <2>2 DEF OwnInv, Busy, Creating
  <2>. QED
    BY <2>1, <2>2
<1>. QED
  BY <1>1, <1>2 DEF OwnInv

\* What a call that returns leaves to the others.
LEMMA ReturnOwn ==
  ASSUME TypeOK, NEW c \in Callers, Return({c})
  PROVE  /\ pc'[c] = "idle"
         /\ \A d \in Callers \ {c} :
              pc'[d] = pc[d] /\ crossed'[d] = crossed[d] /\ wrote'[d] = wrote[d]
BY DEF Return, TypeOK, CallTypes

\* The steps of the calls keep the records.
LEMMA CallStepOwn ==
  ASSUME TypeOK, OwnInv, NEW c \in Callers, CallStep(c)
  PROVE  OwnInv'
<1>1. Busy(c)
  BY DEF CallStep, Busy, CreateStat, Mkdir, Fill, Undo, Fails, PutStat, Place,
         WriteFile, WriteText, Find, Unlink, Move, LookEmpty, Prune, ReadMetadata,
         Stamp, Open, Close, CountAgents, Remove
<1>2. CASE Return({c})
  BY <1>1, <1>2, ReturnOwn, StepOwn DEF Creating
<1>3. CASE ~Return({c})
  <2>1. /\ (\E l \in PCs : Goto(c, l)) \/ pc' = pc
        /\ crossed' = crossed
    BY <1>3
    DEF CallStep, CreateStat, Mkdir, Fill, Undo, Fails, PutStat, Place, WriteFile,
        WriteText, Find, Unlink, Move, LookEmpty, Prune, ReadMetadata, Stamp, Open,
        Close, CountAgents, Remove, Look, Error, Left, PCs, argVars
  <2>2. \A d \in Callers \ {c} : pc'[d] = pc[d]
    BY <2>1, GotoTyped DEF TypeOK
  <2>3. \A d \in Callers \ {c} : wrote'[d] = wrote[d]
    <3>1. CASE Fill(c)
      BY <3>1 DEF Fill, TypeOK, CallTypes
    <3>2. CASE ~Fill(c)
      <4>1. wrote' = wrote
        BY <1>3, <3>2
        DEF CallStep, CreateStat, Mkdir, Undo, Fails, PutStat, Place, WriteFile,
            WriteText, Find, Unlink, Move, LookEmpty, Prune, ReadMetadata, Stamp,
            Open, Close, CountAgents, Remove, Look, Error, argVars
      <4>. QED
        BY <4>1
    <3>. QED
      BY <3>1, <3>2
  <2>4. ASSUME pc'[c] \in Creating, ~crossed[c] PROVE files' \subseteq wrote'[c]
    <3>1. CASE CreateStat(c)
      <4>1. ~dir /\ files' = files
        BY <1>3, <3>1 DEF CreateStat, Error, Look, diskVars
      <4>. QED
        BY <4>1 DEF TypeOK, TreeOK
    <3>2. CASE Mkdir(c) \/ Open(c)
      <4>1. pc[c] \in {"mkdir", "make", "open"} /\ UNCHANGED <<files, wrote>>
        BY <3>2 DEF Mkdir, Open, argVars
      <4>2. pc[c] = "open" => Goto(c, "close")
        BY <3>2 DEF Mkdir, Open
      <4>3. pc[c] # "open"
        BY <2>4, <4>2, GotoTyped DEF TypeOK, PCs, Creating
      <4>. QED
        BY <2>4, <4>1, <4>3 DEF OwnInv, Creating
    <3>3. CASE Fill(c)
      <4>1. files \subseteq wrote[c]
        BY <2>4, <3>3 DEF OwnInv, Fill, Creating
      <4>2. \/ \E f \in rest[c] : /\ wrote' = [wrote EXCEPT ![c] = @ \cup {f}]
                                  /\ files' \subseteq files \cup {f}
            \/ UNCHANGED <<files, wrote>>
        BY <3>3 DEF Fill, diskVars
      <4>3. wrote \in [Callers -> SUBSET Names]
        BY DEF TypeOK, CallTypes
      <4>. QED
        BY <4>1, <4>2, <4>3
    <3>4. CASE Fails(c)
      <4>1. pc[c] \in {"fill", "make", "made"} /\ wrote' = wrote
        BY <1>3, <3>4 DEF Fails, argVars
      <4>2. files' = files
        BY <3>4, <4>1 DEF Fails
      <4>. QED
        BY <2>4, <4>1, <4>2 DEF OwnInv, Creating
    <3>5. CASE \/ PutStat(c) \/ Place(c) \/ WriteFile(c) \/ WriteText(c) \/ Find(c)
               \/ Unlink(c) \/ Move(c) \/ LookEmpty(c) \/ Prune(c)
               \/ ReadMetadata(c) \/ Stamp(c) \/ CountAgents(c)
      <4>1. PICK l \in {"place", "write", "text", "move", "unlink", "look", "prune",
                        "touch", "stamp", "open", "remove"} : Goto(c, l)
        BY <1>3, <3>5
        DEF PutStat, Place, WriteFile, WriteText, Find, Unlink, Move, LookEmpty, Prune,
            ReadMetadata, Stamp, CountAgents, Look, Error, Left
      <4>2. pc'[c] = l
        BY <4>1, GotoTyped DEF TypeOK, PCs
      <4>. QED
        BY <2>4, <4>2 DEF Creating
    <3>6. ~(Undo(c) \/ Close(c) \/ Remove(c))
      BY <1>3 DEF Undo, Close, Remove
    <3>. QED
      BY <3>1, <3>2, <3>3, <3>4, <3>5, <3>6 DEF CallStep
  <2>. QED
    BY <1>1, <2>1, <2>2, <2>3, <2>4, StepOwn
<1>. QED
  BY <1>2, <1>3

\* Every step keeps the records.
LEMMA NextOwn ==
  ASSUME TypeOK, OwnInv, [Next]_vars
  PROVE  OwnInv'
<1>1. CASE Restart
  <2>1. \A c \in Callers : pc'[c] = "idle"
    BY <1>1 DEF Restart, Return
  <2>. QED
    BY <2>1 DEF OwnInv, Busy, Creating
<1>2. CASE Scan \/ WatcherRestarts \/ UNCHANGED vars
  <2>1. UNCHANGED <<pc, crossed, wrote, files>>
    BY <1>2 DEF Scan, WatcherRestarts, vars, diskVars, callVars, argVars
  <2>. QED
    BY <2>1 DEF OwnInv, Busy
<1>. QED
  BY <1>1, <1>2, BeginOwn, CallStepOwn DEF Next

\* What a step may remove.
Asked ==
    \A f \in files \ files' :
        \E c \in Callers :
           /\ pc'[c] # pc[c]
           /\ \/ pc[c] = "remove"
              \/ pc[c] \in {"unlink", "move"} /\ file[c] = f
              \/ pc[c] = "undo" /\ (f \in wrote[c] \/ crossed[c])

\* Only a call that asks for it removes a file.
LEMMA StepAsked ==
  ASSUME TypeOK, ArgInv, OwnInv, [Next]_vars
  PROVE  [Asked]_vars
<1>1. CASE files' = files
  BY <1>1 DEF Asked
<1>2. ASSUME NEW c \in Callers, Fill(c) \/ WriteFile(c) \/ Fails(c) PROVE Asked
  <2>1. files \subseteq files'
    BY <1>2 DEF Fill, WriteFile, Fails, Error, diskVars
  <2>. QED
    BY <2>1 DEF Asked
<1>3. ASSUME NEW c \in Callers, Undo(c) \/ Remove(c) PROVE Asked
  <2>1. pc[c] \in {"undo", "remove"} /\ Return({c})
    BY <1>3 DEF Undo, Remove
  <2>2. pc'[c] = "idle"
    BY <2>1, ReturnTyped DEF TypeOK
  <2>3. pc[c] = "undo" => \A f \in files : f \in wrote[c] \/ crossed[c]
    BY DEF OwnInv, Creating
  <2>. QED
    BY <2>1, <2>2, <2>3 DEF Asked
<1>4. ASSUME NEW c \in Callers, Unlink(c) \/ Move(c), ~Error(c) PROVE Asked
  <2>1. pc[c] \in {"unlink", "move"} /\ files \ files' \subseteq {file[c]}
    BY <1>4 DEF Unlink, Move
  <2>2. Goto(c, "look") \/ Goto(c, "touch")
    BY <1>4 DEF Unlink, Move, Left
  <2>3. pc'[c] \in {"look", "touch"}
    BY <2>2, GotoTyped DEF TypeOK, PCs
  <2>. QED
    BY <2>1, <2>3 DEF Asked
<1>5. CASE UNCHANGED vars
  BY <1>5
<1>6. ASSUME NEW c \in Callers, Call(c) PROVE files' = files
  BY <1>6
  DEF Call, Create, PutFile, DeleteFile, RenameFile, UpdateDescription, Delete,
      Begin, diskVars
<1>7. ASSUME NEW c \in Callers,
             \/ CreateStat(c) \/ Mkdir(c) \/ PutStat(c) \/ Place(c)
             \/ Find(c) \/ LookEmpty(c) \/ Prune(c) \/ ReadMetadata(c)
             \/ Stamp(c) \/ Open(c) \/ Close(c) \/ CountAgents(c) \/ WriteText(c)
      PROVE  files' = files
  BY <1>7
  DEF CreateStat, Mkdir, PutStat, Place, WriteText, Find, LookEmpty, Prune,
      ReadMetadata, Stamp, Open, Close, CountAgents, Look, Error, diskVars
<1>8. ASSUME NEW c \in Callers, Error(c) PROVE files' = files
  BY <1>8 DEF Error, diskVars
<1>9. CASE Restart \/ Scan \/ WatcherRestarts
  BY <1>1, <1>9 DEF Restart, Scan, WatcherRestarts, diskVars
<1>. QED
  BY <1>1, <1>2, <1>3, <1>4, <1>5, <1>6, <1>7, <1>8, <1>9 DEF Next, CallStep

\* Only a call that asks for it removes a file; the undo of a Create takes what
\* the Create did not write only if another call ran beside it.
THEOREM RemovalsAsked == Spec => OnlyAskedRemovals
<1>1. Init => TypeOK /\ ArgInv /\ OwnInv
  BY InitInv DEF IInv, Init, OwnInv, Busy, Creating
<1>2. TypeOK /\ ArgInv /\ OwnInv /\ [Next]_vars => (TypeOK /\ ArgInv /\ OwnInv)'
  BY NextTyped, NextOwn
<1>3. TypeOK /\ ArgInv /\ OwnInv /\ [Next]_vars => [Asked]_vars
  BY StepAsked
<1>. QED
  BY <1>1, <1>2, <1>3, PTL DEF Spec, OnlyAskedRemovals, Asked

-----------------------------------------------------------------------------
(* Calls that follow one another                                           *)

\* What holds of a call that runs alone.
After(c) == IF Idle(c) THEN Sound ELSE Sequential(c)

\* A step of a call that runs alone leaves what its next step expects.
LEMMA LookAlone ==
  ASSUME TypeOK, ArgInv, NEW c \in Callers, Sequential(c),
         \/ CreateStat(c) \/ PutStat(c) \/ Find(c) \/ LookEmpty(c)
         \/ ReadMetadata(c) \/ CountAgents(c) \/ Stamp(c)
  PROVE  After(c)'
<1>1. UNCHANGED <<dir, files, meta, inode>>
  BY DEF CreateStat, PutStat, Find, LookEmpty, ReadMetadata, CountAgents, Stamp,
         Look, Error, diskVars, metaVars
<1>2. Sound /\ Sound'
  BY <1>1
  DEF Sequential, Sound, CreateStat, PutStat, Find, LookEmpty, ReadMetadata,
      CountAgents, Stamp
<1>3. CASE Error(c)
  <2>1. pc'[c] = "idle"
    BY <1>3, ReturnTyped DEF Error, TypeOK
  <2>. QED
    BY <1>2, <2>1 DEF After, Idle
<1>4. CASE \/ CreateStat(c) /\ Goto(c, "mkdir") /\ ~dir
           \/ (PutStat(c) \/ Find(c)) /\ Goto(c, "place") /\ dir
           \/ Find(c) /\ Goto(c, "unlink")
           \/ LookEmpty(c) /\ (Goto(c, "prune") \/ Goto(c, "touch"))
           \/ ReadMetadata(c) /\ Goto(c, "stamp") /\ dir
           \/ CountAgents(c) /\ Goto(c, "remove")
           \/ Stamp(c) /\ Goto(c, "open") /\ dir
  <2>1. \/ pc'[c] = "mkdir" /\ ~dir'
        \/ pc'[c] \in {"place", "stamp", "open"} /\ dir'
        \/ pc'[c] \in {"unlink", "prune", "touch", "remove"}
    BY <1>1, <1>4 DEF Goto, TypeOK, CallTypes
  <2>. QED
    BY <1>2, <2>1 DEF After, Idle, Sequential
<1>. QED
  BY <1>2, <1>3, <1>4
  DEF CreateStat, PutStat, Find, LookEmpty, ReadMetadata, CountAgents, Stamp,
      Look, Present, Sequential, Sound, TypeOK, TreeOK

LEMMA FilesAlone ==
  ASSUME TypeOK, ArgInv, NEW c \in Callers, Sequential(c),
         \/ Place(c) \/ WriteFile(c) \/ WriteText(c) \/ Unlink(c) \/ Move(c) \/ Prune(c),
         ~named'
  PROVE  After(c)'
<1>0. ~WriteText(c)
  BY DEF Sequential, WriteText
<1>1. Sound
  BY <1>0 DEF Sequential, Place, WriteFile, Unlink, Move, Prune
<1>2. CASE Error(c)
  <2>1. pc'[c] = "idle" /\ UNCHANGED <<dir, files, meta>>
    BY <1>2, ReturnTyped DEF Error, TypeOK, diskVars, metaVars
  <2>. QED
    BY <1>1, <2>1 DEF After, Idle, Sound
<1>3. CASE ~Error(c)
  <2>1. Goto(c, "write") \/ Goto(c, "move") \/ Goto(c, "look") \/ Goto(c, "touch")
    BY <1>0, <1>3 DEF Place, WriteFile, Unlink, Move, Prune, Left
  <2>2. pc'[c] \in {"write", "move", "look", "touch"}
    BY <2>1 DEF Goto, TypeOK, CallTypes
  <2>3. meta' = meta
    BY <1>0, <1>3 DEF Place, WriteFile, Unlink, Move, Prune, metaVars
  <2>4. Sound'
    <3>1. CASE Place(c)
      BY <1>1, <2>3, <3>1 DEF Sequential, Sound, Place, MakeParent
    <3>2. CASE ~Place(c)
      <4>1. dir' = dir
        BY <1>0, <1>3, <3>2 DEF WriteFile, Unlink, Move, Prune
      <4>2. files' # {} => files # {} \/ dir
        BY <1>0, <1>3, <3>2
        DEF WriteFile, Unlink, Move, Prune, HasParent, TypeOK, TreeOK
      <4>. QED
        BY <1>1, <2>3, <4>1, <4>2 DEF Sound
    <3>. QED
      BY <3>1, <3>2
  <2>. QED
    BY <2>2, <2>4 DEF After, Idle, Sequential
<1>. QED
  BY <1>2, <1>3

LEMMA MetadataAlone ==
  ASSUME TypeOK, ArgInv, NEW c \in Callers, Sequential(c),
         Mkdir(c) \/ Fill(c) \/ Undo(c) \/ Open(c) \/ Close(c) \/ Remove(c),
         alone'
  PROVE  After(c)'
<1>1. CASE Mkdir(c)
  <2>1. pc'[c] = "fill" /\ dir' = TRUE
    BY <1>1 DEF Mkdir, Goto, TypeOK, CallTypes
  <2>. QED
    BY <2>1 DEF After, Idle, Sequential
<1>2. CASE Fill(c)
  <2>1. dir
    BY <1>2 DEF Fill, Sequential
  <2>2. dir'
    BY <1>2, <2>1 DEF Fill, MakeParent, diskVars
  <2>3. pc'[c] \in {"fill", "make"}
    BY <1>2 DEF Fill, Goto, TypeOK, CallTypes
  <2>. QED
    BY <2>2, <2>3 DEF After, Idle, Sequential
<1>3. CASE Open(c)
  <2>1. pc'[c] \in {"made", "close"} /\ dir' /\ meta' = "empty"
    BY <1>3 DEF Open, Goto, TypeOK, CallTypes
  <2>2. handle'[c] = inode'
    BY <1>3 DEF Open, TypeOK, CallTypes
  <2>. QED
    BY <2>1, <2>2 DEF After, Idle, Sequential
<1>4. CASE Close(c)
  <2>1. dir /\ meta = "empty" /\ handle[c] = inode
    BY <1>4 DEF Close, Sequential
  <2>2. meta' = "whole" /\ dir'
    BY <1>4, <2>1 DEF Close
  <2>3. pc'[c] = "idle"
    BY <1>4, ReturnTyped DEF Close, TypeOK
  <2>. QED
    BY <2>2, <2>3 DEF After, Idle, Sound
<1>5. CASE Undo(c) \/ Remove(c)
  <2>1. dir' = FALSE /\ files' = {} /\ meta' = "none"
    BY <1>5 DEF Undo, Remove, RemoveAll, RemovePart
  <2>2. pc'[c] = "idle"
    BY <1>5, ReturnTyped DEF Undo, Remove, TypeOK
  <2>. QED
    BY <2>1, <2>2 DEF After, Idle, Sound
<1>. QED
  BY <1>1, <1>2, <1>3, <1>4, <1>5

\* A step that fails, but for the write of the metadata it emptied.
LEMMA FailsAlone ==
  ASSUME TypeOK, ArgInv, NEW c \in Callers, Sequential(c), Fails(c), alone'
  PROVE  alone /\ named' = named /\ After(c)'
<1>1. alone /\ pc[c] # "close" /\ pc[c] # "text" /\ named' = named
  BY DEF Fails, Sequential
<1>2. CASE Goto(c, "undo")
  <2>1. pc'[c] = "undo"
    BY <1>2 DEF Goto, TypeOK, CallTypes
  <2>. QED
    BY <1>1, <2>1 DEF After, Idle, Sequential
<1>3. CASE pc[c] \notin {"fill", "make", "made"} /\ Return({c})
  <2>1. pc'[c] = "idle" /\ UNCHANGED <<dir, meta>>
    BY <1>3, ReturnTyped DEF TypeOK, Fails, metaVars
  <2>2. pc[c] \in {"mkdir", "place", "write", "unlink", "move", "open"}
    BY <1>1, <1>3 DEF Fails
  <2>3. Sound
    BY <2>2 DEF Sequential
  <2>4. files' # {} => files # {} \/ dir
    BY DEF Fails, HasParent, TypeOK, TreeOK
  <2>. QED
    BY <1>1, <2>1, <2>3, <2>4 DEF After, Idle, Sound
<1>. QED
  BY <1>2, <1>3 DEF Fails

\* One call at a time keeps the invariant.
LEMMA OneKeepsAlone ==
  ASSUME TypeOK, ArgInv, AloneInv, NEW c \in Callers, ~Idle(c), alone, ~named,
         \A d \in Callers \ {c} : pc'[d] = pc[d],
         Sequential(c) => After(c)'
  PROVE  AloneInv'
<1>1. Sequential(c) /\ After(c)'
  BY DEF AloneInv
<1>2. \A d \in Callers \ {c} : Idle(d) /\ Idle(d)'
  BY DEF AloneInv, Idle
<1>. QED
  BY <1>1, <1>2 DEF AloneInv, After

\* The steps of the calls.
LEMMA CallStepAlone ==
  ASSUME TypeOK, ArgInv, AloneInv, NEW c \in Callers, CallStep(c)
  PROVE  AloneInv'
<1>. SUFFICES ASSUME alone', ~named' PROVE AloneInv'
  BY DEF AloneInv
<1>1. ~Idle(c)
  BY DEF CallStep, Idle, CreateStat, Mkdir, Fill, Undo, Fails, PutStat, Place,
         WriteFile, WriteText, Find, Unlink, Move, LookEmpty, Prune, ReadMetadata,
         Stamp, Open, Close, CountAgents, Remove
<1>2. ~Fails(c) => alone' = alone \/ RemovePart
  BY DEF CallStep, CreateStat, Mkdir, Fill, Undo, PutStat, Place, WriteFile,
         WriteText, Find, Unlink, Move, LookEmpty, Prune, ReadMetadata, Stamp, Open,
         Close, CountAgents, Remove, Look, Error
<1>3. alone
  BY <1>2 DEF Fails, RemovePart
<1>5. ~named
  BY DEF CallStep, CreateStat, Mkdir, Fill, Undo, Fails, PutStat, Place, WriteFile,
         WriteText, Find, Unlink, Move, LookEmpty, Prune, ReadMetadata, Stamp, Open,
         Close, CountAgents, Remove, Look, Error
<1>4. Sequential(c)
  BY <1>1, <1>3, <1>5 DEF AloneInv
<1>6. \A d \in Callers \ {c} : pc'[d] = pc[d]
  <2>1. (\E l \in PCs : Goto(c, l)) \/ Return({c}) \/ pc' = pc
    BY DEF CallStep, CreateStat, Mkdir, Fill, Undo, Fails, PutStat, Place,
           WriteFile, WriteText, Find, Unlink, Move, LookEmpty, Prune, ReadMetadata,
           Stamp, Open, Close, CountAgents, Remove, Look, Error, Left, PCs
  <2>. QED
    BY <2>1, GotoTyped, ReturnTyped DEF TypeOK
<1>7. After(c)'
  BY <1>4, LookAlone, FilesAlone, MetadataAlone, FailsAlone DEF CallStep
<1>. QED
  BY <1>1, <1>3, <1>5, <1>6, <1>7, OneKeepsAlone

\* A call that begins.
LEMMA BeginAlone ==
  ASSUME TypeOK, ArgInv, AloneInv, NEW c \in Callers, Call(c)
  PROVE  AloneInv'
<1>. SUFFICES ASSUME alone', ~named' PROVE AloneInv'
  BY DEF AloneInv
<1>1. PICK l \in {"create", "put", "find", "touch", "count"} :
         /\ Goto(c, l)
         /\ alone /\ \A d \in Callers : Idle(d)
         /\ UNCHANGED <<dir, files, meta, named>>
  BY DEF Call, Create, PutFile, DeleteFile, RenameFile, UpdateDescription, Delete,
         Begin, Busy, Idle, diskVars, metaVars
<1>2. Sound /\ Sound'
  BY <1>1 DEF AloneInv, Sound
<1>3. pc'[c] = l /\ \A d \in Callers \ {c} : pc'[d] = pc[d]
  BY <1>1 DEF Goto, TypeOK, CallTypes
<1>4. Sequential(c)' /\ \A d \in Callers \ {c} : Idle(d)'
  BY <1>1, <1>2, <1>3 DEF Sequential, Idle
<1>. QED
  BY <1>2, <1>4 DEF AloneInv

\* The invariant, for any number of concurrent calls.
LEMMA Invariance == Spec => []IInv
<1>1. Init => IInv
  BY InitInv
<1>2. ASSUME IInv, [Next]_vars PROVE AloneInv'
  <2>1. ASSUME NEW c \in Callers, Call(c) PROVE AloneInv'
    BY <1>2, <2>1, BeginAlone DEF IInv
  <2>2. ASSUME NEW c \in Callers, CallStep(c) PROVE AloneInv'
    BY <1>2, <2>2, CallStepAlone DEF IInv
  <2>3. CASE Restart \/ WatcherRestarts
    <3>1. CASE Restart
      BY <3>1 DEF Restart, AloneInv
    <3>2. CASE WatcherRestarts
      <4>1. UNCHANGED <<dir, files, meta, inode, pc, handle, alone, named>>
        BY <3>2 DEF WatcherRestarts, diskVars, metaVars, callVars, touchVars
      <4>. QED
        BY <1>2, <4>1 DEF IInv, AloneInv, Idle, Sound, Sequential
    <3>. QED
      BY <2>3, <3>1, <3>2
  <2>4. CASE Scan \/ UNCHANGED vars
    <3>1. UNCHANGED <<dir, files, meta, inode, pc, handle, alone, named>>
      BY <2>4 DEF Scan, vars, diskVars, metaVars, callVars, touchVars
    <3>. QED
      BY <1>2, <3>1 DEF IInv, AloneInv, Idle, Sound, Sequential
  <2>. QED
    BY <1>2, <2>1, <2>2, <2>3, <2>4 DEF Next
<1>3. IInv /\ [Next]_vars => IInv'
  BY <1>2, NextTyped DEF IInv
<1>. QED
  BY <1>1, <1>3, PTL DEF Spec

\* Calls that follow one another leave a role that is listed, or nothing.
THEOREM AloneHolds == Spec => []AloneIsSound
<1>1. IInv => AloneIsSound
  BY DEF IInv, AloneInv, AloneIsSound, Idle, Busy, Sound
<1>. QED
  BY <1>1, Invariance, PTL
=============================================================================
