----------------------------- MODULE RoleStore -----------------------------
(***************************************************************************)
(* One role on the shared volume, between the backend's role store         *)
(* (internal/backend/k8sclient/role_fs.go) and the operator's role watcher *)
(* (internal/operator/controller/agent_controller.go).                     *)
(*                                                                         *)
(* A role is a directory of files and a metadata file whose update time    *)
(* the watcher compares.  The store's calls take no lock: each is a        *)
(* sequence of file-system steps, and those of concurrent calls interleave.*)
(* os.WriteFile empties the file before it writes.                         *)
(*                                                                         *)
(* validatePath takes the metadata file for one like the others: a caller  *)
(* may write, delete or rename it by its name.                             *)
(*                                                                         *)
(* Contents, descriptions, and what a Delete does to the role's Gitea user *)
(* and token secret are left out; so is whether an agent uses the role.    *)
(* Callers name files: neither a directory nor a name below the metadata   *)
(* file's.                                                                 *)
(***************************************************************************)
EXTENDS Naturals, FiniteSets

CONSTANTS
    Callers,    \* goroutines of the backend that may be inside a call
    Top,        \* files in the role's directory
    Nested,     \* files in one directory of it
    Metadata,   \* the name of the metadata file
    NoFile,     \* none of them
    Initial,    \* the sets of files with which a role is created
    MaxCalls,   \* bound on the calls
    MaxFaults   \* bound on failing steps and restarts

ASSUME RoleStoreAssumption ==
    /\ NoFile \notin Top \cup Nested \cup {Metadata}
    /\ Metadata \notin Top \cup Nested
    /\ Top \cap Nested = {}
    /\ Initial \subseteq SUBSET (Top \cup Nested \cup {Metadata})
    /\ MaxCalls \in Nat
    /\ MaxFaults \in Nat

Files == Top \cup Nested
Names == Files \cup {Metadata}

\* Update times: no reading of the clock equals another.
Times == Nat \ {0}

\* The metadata file: absent, with its text, or with none that can be parsed.
Metas == {"none", "whole", "empty", "garbled"}

PCs == {"idle",
        "create", "mkdir", "fill", "undo",
        "put", "place", "write", "text",
        "find", "unlink", "move", "look", "prune",
        "touch", "stamp", "make", "open", "made", "close",
        "count", "remove"}

VARIABLES
    \* the volume
    dir,      \* the role's directory exists
    sub,      \* the directory of the nested files exists
    files,    \* the role's files
    meta,     \* what .metadata.json is
    updated,  \* its update time; 0 if it is not whole
    inode,    \* identity of the metadata file: grows when it is made anew
    \* the store's calls
    pc,
    file,     \* the file of the call
    target,   \* RenameFile's new name
    rest,     \* files Create has yet to write
    stamp,    \* the update time a call writes
    handle,   \* identity of the metadata file a call has open
    wrote,    \* observability: files Create has written
    crossed,  \* observability: another call ran beside the call
    \* the role watcher
    known,    \* lastUpdatedAt of the role, or 0: not known
    \* observability only
    owed,     \* calls that changed a file the watcher knew the role of, and
              \* have not failed, since the watcher last reported the role
    alone,    \* no two calls overlapped, none was cut short between emptying
              \* and writing the metadata, or in removing the directory
    named,    \* a call changed, by its name, metadata that was there
    \* bounds
    clock,    \* readings of the clock
    calls, faults

metaVars  == <<meta, updated, inode>>
diskVars  == <<dir, sub, files, metaVars>>
argVars   == <<file, target, rest, wrote, crossed>>
touchVars == <<stamp, handle>>
callVars  == <<pc, argVars, touchVars>>
boundVars == <<clock, calls, faults>>
vars == <<diskVars, callVars, known, owed, alone, named, boundVars>>

\* The backend and the operator run; there is no role.
Init ==
    /\ dir = FALSE
    /\ sub = FALSE
    /\ files = {}
    /\ meta = "none"
    /\ updated = 0
    /\ inode = 0
    /\ pc = [c \in Callers |-> "idle"]
    /\ file = [c \in Callers |-> NoFile]
    /\ target = [c \in Callers |-> NoFile]
    /\ rest = [c \in Callers |-> {}]
    /\ stamp = [c \in Callers |-> 0]
    /\ handle = [c \in Callers |-> 0]
    /\ wrote = [c \in Callers |-> {}]
    /\ crossed = [c \in Callers |-> FALSE]
    /\ known = 0
    /\ owed = {}
    /\ alone = TRUE
    /\ named = FALSE
    /\ clock = 0
    /\ calls = 0
    /\ faults = 0

Fault ==
    /\ faults < MaxFaults
    /\ faults' = faults + 1
    /\ UNCHANGED <<clock, calls>>

Goto(c, l) == pc' = [pc EXCEPT ![c] = l]

\* The callers in C are idle: their calls' variables are gone.
Return(C) ==
    /\ pc' = [c \in Callers |-> IF c \in C THEN "idle" ELSE pc[c]]
    /\ file' = [c \in Callers |-> IF c \in C THEN NoFile ELSE file[c]]
    /\ target' = [c \in Callers |-> IF c \in C THEN NoFile ELSE target[c]]
    /\ rest' = [c \in Callers |-> IF c \in C THEN {} ELSE rest[c]]
    /\ stamp' = [c \in Callers |-> IF c \in C THEN 0 ELSE stamp[c]]
    /\ handle' = [c \in Callers |-> IF c \in C THEN 0 ELSE handle[c]]
    /\ wrote' = [c \in Callers |-> IF c \in C THEN {} ELSE wrote[c]]
    /\ crossed' = [c \in Callers |-> c \notin C /\ crossed[c]]

Busy(c) == pc[c] # "idle"

\* A step of c that reads the volume and goes on at l.
Look(c, l) ==
    /\ Goto(c, l)
    /\ UNCHANGED <<diskVars, argVars, touchVars, known, owed, alone, named, boundVars>>

\* c returns an error; what it changed before is not owed a report.
Error(c) ==
    /\ Return({c})
    /\ owed' = owed \ {c}
    /\ UNCHANGED <<diskVars, known, alone, named, boundVars>>

\* The role's directory and everything in it are removed.
RemoveAll ==
    /\ dir' = FALSE
    /\ sub' = FALSE
    /\ files' = {}
    /\ meta' = "none"
    /\ updated' = 0
    /\ UNCHANGED inode

\* The removal fails, perhaps at what another call just wrote: a part is left.
RemovePart ==
    /\ Fault
    /\ dir
    /\ files' \in SUBSET files
    /\ \/ sub' = sub
       \/ sub' = FALSE /\ files' \cap Nested = {}
    /\ \/ UNCHANGED <<meta, updated>>
       \/ meta' = "none" /\ updated' = 0
    /\ alone' = FALSE
    /\ UNCHANGED <<dir, inode>>

\* MkdirAll of the directory of f.
MakeParent(f) ==
    /\ dir' = TRUE
    /\ sub' = (sub \/ f \in Nested)

\* Whether f can be opened for writing.
HasParent(f) == IF f \in Nested THEN sub ELSE dir

\* Whether the file is there.
Present(f) == IF f = Metadata THEN meta # "none" ELSE f \in files

\* The metadata file has become the caller's text: one that cannot be parsed, or
\* one with an update time that the role had before.
CallersText ==
    \/ meta' = "garbled" /\ updated' = 0
    \/ /\ meta' = "whole"
       /\ updated' \in {t \in 1 .. clock : \A c \in Callers : t # stamp[c]}

\* A metadata file that is not there is made.
Inode == IF meta = "none" THEN inode + 1 ELSE inode

\* c has changed a file.
Owe(c) == owed' = IF known = 0 THEN owed \ {c} ELSE owed \cup {c}

-----------------------------------------------------------------------------
(* The calls                                                               *)

Begin(c, l, f, t, S) ==
    /\ pc[c] = "idle"
    /\ calls < MaxCalls
    /\ calls' = calls + 1
    /\ Goto(c, l)
    /\ file' = [file EXCEPT ![c] = f]
    /\ target' = [target EXCEPT ![c] = t]
    /\ rest' = [rest EXCEPT ![c] = S]
    /\ owed' = owed \ {c}
    /\ alone' = (alone /\ ~\E d \in Callers : Busy(d))
    /\ crossed' = [d \in Callers |-> IF d = c THEN \E b \in Callers : Busy(b)
                                    ELSE crossed[d] \/ Busy(d)]
    /\ UNCHANGED <<diskVars, touchVars, wrote, known, named, clock, faults>>

\* Create, also by SeedBuiltinRoles when the backend starts.
Create(c) == \E S \in Initial : Begin(c, "create", NoFile, NoFile, S)

PutFile(c) == \E f \in Names : Begin(c, "put", f, NoFile, {})
DeleteFile(c) == \E f \in Names : Begin(c, "find", f, NoFile, {})
\* (Renaming a file to itself is left out: nothing but the touch remains.)
RenameFile(c) ==
    \E f \in Names : \E t \in Names \ {f} : Begin(c, "find", f, t, {})
UpdateDescription(c) == Begin(c, "touch", NoFile, NoFile, {})
Delete(c) == Begin(c, "count", NoFile, NoFile, {})

Call(c) ==
    \/ Create(c) \/ PutFile(c) \/ DeleteFile(c) \/ RenameFile(c)
    \/ UpdateDescription(c) \/ Delete(c)

-----------------------------------------------------------------------------
(* Create                                                                  *)

\* Mutant of CreateStat: the directory is not looked for.
CreateStatAny(c) ==
    /\ pc[c] = "create"
    /\ Look(c, "mkdir")

\* Create refuses a role whose directory is there.
CreateStat(c) ==
    /\ pc[c] = "create"
    /\ IF dir THEN Error(c) ELSE Look(c, "mkdir")

Mkdir(c) ==
    /\ pc[c] = "mkdir"
    /\ dir' = TRUE
    /\ Goto(c, "fill")
    /\ UNCHANGED <<sub, files, metaVars, argVars, touchVars, known, owed,
                   alone, named, boundVars>>

\* The files in the order of a Go map, which is none; then the time is read
\* for the metadata.  A text for the metadata among them will be written over.
Fill(c) ==
    /\ pc[c] = "fill"
    /\ \/ \E f \in rest[c] :
             /\ rest' = [rest EXCEPT ![c] = @ \ {f}]
             /\ wrote' = [wrote EXCEPT ![c] = @ \cup {f}]
             /\ MakeParent(f)
             /\ Owe(c)
             /\ \/ /\ f \in Files
                   /\ files' = files \cup {f}
                   /\ UNCHANGED <<metaVars, named>>
                \/ /\ f = Metadata
                   /\ CallersText
                   /\ inode' = Inode
                   /\ named' = (named \/ meta # "none")
                   /\ UNCHANGED files
             /\ UNCHANGED <<pc, stamp, clock>>
       \/ /\ rest[c] = {}
          /\ clock' = clock + 1
          /\ stamp' = [stamp EXCEPT ![c] = clock']
          /\ Goto(c, "make")
          /\ UNCHANGED <<diskVars, rest, wrote, owed, named>>
    /\ UNCHANGED <<file, target, crossed, handle, known, alone, calls, faults>>

\* A path of Create is invalid, a file-system call fails, or there is no
\* directory for the metadata.  A Create that got as far as its files undoes
\* them; other calls leave what they did, which may be an empty file.
Fails(c) ==
    /\ \/ /\ pc[c] \in {"mkdir", "fill", "place", "write", "text", "unlink",
                        "move", "make", "open", "made", "close"}
          /\ Fault
          /\ alone' = (alone /\ pc[c] # "close")
       \/ /\ pc[c] \in {"make", "open"}
          /\ ~dir
          /\ UNCHANGED <<alone, named, boundVars>>
    /\ IF pc[c] \in {"fill", "make", "made"}
       THEN Goto(c, "undo") /\ UNCHANGED <<argVars, touchVars>>
       ELSE Return({c})
    /\ \/ UNCHANGED files
       \/ /\ pc[c] = "write"
          /\ file[c] \in Files
          /\ HasParent(file[c])
          /\ files' = files \cup {file[c]}
    /\ owed' = owed \ {c}
    /\ UNCHANGED <<dir, sub, metaVars, known, named>>

\* A Create that fails removes the directory, whoever made it; the error of
\* the removal is dropped.
Undo(c) ==
    /\ pc[c] = "undo"
    /\ \/ RemoveAll /\ UNCHANGED <<alone, boundVars>>
       \/ RemovePart
    /\ Return({c})
    /\ owed' = owed \ {c}
    /\ UNCHANGED <<known, named>>

-----------------------------------------------------------------------------
(* PutFile, DeleteFile, RenameFile                                         *)

\* Mutant of PutStat: the role is not looked for.
PutStatAny(c) ==
    /\ pc[c] = "put"
    /\ Look(c, "place")

\* PutFile looks for the metadata file, readable or not.
PutStat(c) ==
    /\ pc[c] = "put"
    /\ IF meta = "none" THEN Error(c) ELSE Look(c, "place")

\* MkdirAll of the directory of the file, or of RenameFile's new name.
Place(c) ==
    /\ pc[c] = "place"
    /\ MakeParent(IF target[c] = NoFile THEN file[c] ELSE target[c])
    /\ Goto(c, IF target[c] = NoFile THEN "write" ELSE "move")
    /\ UNCHANGED <<files, metaVars, argVars, touchVars, known, owed, alone, named,
                   boundVars>>

\* Mutant of WriteFile: the directory is taken for granted.
WriteFileAnyway(c) ==
    /\ pc[c] = "write"
    /\ files' = files \cup {file[c]}
    /\ Owe(c)
    /\ Goto(c, "touch")
    /\ UNCHANGED <<dir, sub, metaVars, argVars, touchVars, known, alone, named, boundVars>>

\* PutFile opens the file and empties it, unless its directory is gone again.
WriteFile(c) ==
    /\ pc[c] = "write"
    /\ \/ /\ HasParent(file[c])
          /\ file[c] \in Files
          /\ files' = files \cup {file[c]}
          /\ Owe(c)
          /\ Goto(c, "touch")
          /\ UNCHANGED <<dir, sub, metaVars, argVars, touchVars, known,
                         alone, named, boundVars>>
       \/ /\ HasParent(file[c])
          /\ file[c] = Metadata
          /\ meta' = "empty"
          /\ updated' = 0
          /\ inode' = Inode
          /\ handle' = [handle EXCEPT ![c] = inode']
          /\ named' = TRUE
          /\ Goto(c, "text")
          /\ UNCHANGED <<dir, sub, files, argVars, stamp, known, owed, alone,
                         boundVars>>
       \/ /\ ~HasParent(file[c])
          /\ Error(c)

\* It writes the text into the metadata file it opened, be that in use or not.
WriteText(c) ==
    /\ pc[c] = "text"
    /\ \/ meta # "none" /\ handle[c] = inode /\ CallersText
       \/ (meta = "none" \/ handle[c] # inode) /\ UNCHANGED <<meta, updated>>
    /\ Owe(c)
    /\ Goto(c, "touch")
    /\ UNCHANGED <<dir, sub, files, inode, argVars, touchVars, known, alone, named,
                   boundVars>>

\* DeleteFile and RenameFile look for the file.
Find(c) ==
    /\ pc[c] = "find"
    /\ IF ~Present(file[c]) THEN Error(c)
       ELSE Look(c, IF target[c] = NoFile THEN "unlink" ELSE "place")

\* After a file left its directory: cleanEmptyParents, if it was a nested one.
Left(c) == Goto(c, IF file[c] \in Nested THEN "look" ELSE "touch")

\* Without its metadata the directory is no role any more; the call goes on, to
\* find that out when it wants to touch it.
Unlink(c) ==
    /\ pc[c] = "unlink"
    /\ \/ /\ Present(file[c])
          /\ \/ /\ file[c] \in Files
                /\ files' = files \ {file[c]}
                /\ UNCHANGED <<metaVars, named>>
             \/ /\ file[c] = Metadata
                /\ meta' = "none"
                /\ updated' = 0
                /\ named' = TRUE
                /\ UNCHANGED <<files, inode>>
          /\ Owe(c)
          /\ Left(c)
          /\ UNCHANGED <<dir, sub, argVars, touchVars, known, alone, boundVars>>
       \/ /\ ~Present(file[c])
          /\ Error(c)

\* os.Rename replaces a file of the new name.
Move(c) ==
    /\ pc[c] = "move"
    /\ \/ /\ Present(file[c])
          /\ HasParent(target[c])
          /\ \/ /\ file[c] \in Files /\ target[c] \in Files
                /\ files' = (files \ {file[c]}) \cup {target[c]}
                /\ UNCHANGED <<metaVars, named>>
             \/ /\ file[c] \in Files /\ target[c] = Metadata
                /\ files' = files \ {file[c]}
                /\ CallersText
                /\ inode' = inode + 1
                /\ named' = TRUE
             \/ /\ file[c] = Metadata /\ target[c] \in Files
                /\ files' = files \cup {target[c]}
                /\ meta' = "none"
                /\ updated' = 0
                /\ named' = TRUE
                /\ UNCHANGED inode
          /\ Owe(c)
          /\ Left(c)
          /\ UNCHANGED <<dir, sub, argVars, touchVars, known, alone, boundVars>>
       \/ /\ ~Present(file[c]) \/ ~HasParent(target[c])
          /\ Error(c)

\* cleanEmptyParents reads the directory.
LookEmpty(c) ==
    /\ pc[c] = "look"
    /\ Look(c, IF sub /\ files \cap Nested = {} THEN "prune" ELSE "touch")

\* os.Remove removes an empty directory only.
Prune(c) ==
    /\ pc[c] = "prune"
    /\ sub' = (sub /\ files \cap Nested # {})
    /\ Goto(c, "touch")
    /\ UNCHANGED <<dir, files, metaVars, argVars, touchVars, known, owed,
                   alone, named, boundVars>>

-----------------------------------------------------------------------------
(* The metadata                                                            *)

\* readMetadata.
ReadMetadata(c) ==
    /\ pc[c] = "touch"
    /\ IF meta # "whole" THEN Error(c) ELSE Look(c, "stamp")

\* The update time is that of the clock now.
Stamp(c) ==
    /\ pc[c] = "stamp"
    /\ clock' = clock + 1
    /\ stamp' = [stamp EXCEPT ![c] = clock']
    /\ Goto(c, "open")
    /\ UNCHANGED <<diskVars, argVars, handle, known, owed, alone, named, calls, faults>>

\* writeMetadata opens the metadata file and empties it, or makes a new one.
Open(c) ==
    /\ pc[c] \in {"make", "open"}
    /\ dir
    /\ meta' = "empty"
    /\ updated' = 0
    /\ inode' = Inode
    /\ handle' = [handle EXCEPT ![c] = inode']
    /\ Goto(c, IF pc[c] = "make" THEN "made" ELSE "close")
    /\ UNCHANGED <<dir, sub, files, argVars, stamp, known, owed, alone, named,
                   boundVars>>

\* It writes the text from the start of what is now in the file it opened: a
\* shorter text over a longer one of a concurrent call leaves the other's end.
\* What the reply then reads (Get, os.Stat) changes nothing.
Close(c) ==
    /\ pc[c] \in {"made", "close"}
    /\ \/ /\ meta # "none" /\ handle[c] = inode
          /\ meta' = "whole"
          /\ updated' = stamp[c]
       \/ /\ meta \in {"whole", "garbled"} /\ handle[c] = inode
          /\ meta' = "garbled"
          /\ updated' = 0
       \/ /\ meta = "none" \/ handle[c] # inode
          /\ UNCHANGED <<meta, updated>>
    /\ Return({c})
    /\ UNCHANGED <<dir, sub, files, inode, known, owed,
                   alone, named, boundVars>>

-----------------------------------------------------------------------------
(* Delete                                                                  *)

\* Delete goes on if no agent uses the role and its directory is there.
CountAgents(c) ==
    /\ pc[c] = "count"
    /\ \/ /\ dir
          /\ Look(c, "remove")
       \/ Error(c)

Remove(c) ==
    /\ pc[c] = "remove"
    /\ \/ RemoveAll /\ UNCHANGED <<alone, boundVars>>
       \/ RemovePart
    /\ Return({c})
    /\ UNCHANGED <<known, owed, named>>

-----------------------------------------------------------------------------
\* The backend is killed and started again.
Restart ==
    /\ Fault
    /\ alone' = FALSE
    /\ \E c \in Callers : Busy(c)
    /\ Return(Callers)
    /\ owed' = {c \in owed : ~Busy(c)}
    /\ UNCHANGED <<diskVars, known, named>>

\* Mutant of Differs: a later time only.
Later(time) == time > known

\* scanForChanges compares the update time.
Differs(time) == time # known

\* The watcher's scan: a role that changed, or is gone, is reported, a role seen
\* for the first time is noted, and one whose metadata cannot be read is skipped.
\* The role's agents are listed from the manager's cache, which is filled before
\* the watcher starts: that enqueueAgentsForRole drops an error of it is left out.
Scan ==
    /\ \/ /\ dir
          /\ meta = "whole"
          /\ Differs(updated)
          /\ known' = updated
       \/ /\ ~dir
          /\ known # 0
          /\ known' = 0
    /\ owed' = {}
    /\ UNCHANGED <<diskVars, callVars, alone, named, boundVars>>

\* The operator restarts: its watcher knows nothing, and all agents are
\* reconciled.
WatcherRestarts ==
    /\ Fault
    /\ known # 0
    /\ known' = 0
    /\ owed' = {}
    /\ UNCHANGED <<diskVars, callVars, alone, named>>

-----------------------------------------------------------------------------
CallStep(c) ==
    \/ CreateStat(c) \/ Mkdir(c) \/ Fill(c) \/ Undo(c) \/ Fails(c)
    \/ PutStat(c) \/ Place(c) \/ WriteFile(c) \/ WriteText(c)
    \/ Find(c) \/ Unlink(c) \/ Move(c) \/ LookEmpty(c) \/ Prune(c)
    \/ ReadMetadata(c) \/ Stamp(c) \/ Open(c) \/ Close(c)
    \/ CountAgents(c) \/ Remove(c)

Next ==
    \/ \E c \in Callers : Call(c) \/ CallStep(c)
    \/ Restart
    \/ Scan
    \/ WatcherRestarts

Spec == Init /\ [][Next]_vars

\* While calls are under way one of them goes on, which brings each to its end,
\* since a call is a bounded number of steps; the watcher scans every ten seconds.
FairSpec == Spec /\ WF_vars(\E c \in Callers : CallStep(c)) /\ WF_vars(Scan)

-----------------------------------------------------------------------------
DiskTypes ==
    /\ dir \in BOOLEAN
    /\ sub \in BOOLEAN
    /\ files \subseteq Files
    /\ meta \in Metas
    /\ updated \in IF meta = "whole" THEN Times ELSE {0}
    /\ inode \in Nat

\* What is on the volume has its directory.
TreeOK ==
    /\ files # {} \/ sub \/ meta # "none" => dir
    /\ files \cap Nested # {} => sub

CallTypes ==
    /\ pc \in [Callers -> PCs]
    /\ file \in [Callers -> Names \cup {NoFile}]
    /\ target \in [Callers -> Names \cup {NoFile}]
    /\ rest \in [Callers -> SUBSET Names]
    /\ wrote \in [Callers -> SUBSET Names]
    /\ crossed \in [Callers -> BOOLEAN]
    /\ stamp \in [Callers -> Times \cup {0}]
    /\ handle \in [Callers -> Nat]

WatchTypes ==
    /\ known \in Times \cup {0}
    /\ owed \subseteq Callers
    /\ alone \in BOOLEAN
    /\ named \in BOOLEAN

BoundTypes == clock \in Nat /\ calls \in 0 .. MaxCalls /\ faults \in 0 .. MaxFaults

\* Types, and the shape of the directory tree, whatever calls make and remove
\* directories at the same time.
TypeOK == DiskTypes /\ TreeOK /\ CallTypes /\ WatchTypes /\ BoundTypes

\* A file disappears only by a call that asks for it: tidying up after one file
\* (role_fs.go:507) never takes another that a concurrent call just wrote, and the
\* undo of a failed Create (role_fs.go:242-268) takes what it did not write itself
\* only if another call ran beside it.  Then it does: of two Creates that both
\* found no directory (role_fs.go:204) the one that fails removes the other's role.
OnlyAskedRemovals ==
    [][\A f \in files \ files' :
          \E c \in Callers :
             /\ pc'[c] # pc[c]
             /\ \/ pc[c] = "remove"
                \/ pc[c] \in {"unlink", "move"} /\ file[c] = f
                \/ pc[c] = "undo" /\ (f \in wrote[c] \/ crossed[c])]_vars

\* Calls that follow one another leave a role that is listed, or nothing: no
\* sequence of them makes a directory that Create takes for a role and List does
\* not, whichever steps fail, but for three ways: a caller changes the metadata
\* by its name (validatePath allows it, role_fs.go:94-105), a process or a write
\* ends between emptying the metadata and writing it, a removal fails half-way
\* (role_fs.go:320).
AloneIsSound ==
    alone /\ ~named /\ (\A c \in Callers : ~Busy(c))
        => IF dir THEN meta = "whole" ELSE files = {} /\ meta = "none"

\* The metadata file stays unreadable.
Broken == meta # "whole" /\ \A c \in Callers : ~Busy(c)

\* A caller's text has the update time that the watcher knows.
PutBack == named /\ dir /\ updated = known

\* A change to the files of a role the watcher knows is reported after the
\* change, in whatever order concurrent calls write their update times, unless
\* the metadata cannot be read any more, or a caller wrote it by its name and put
\* back the update time that the watcher had seen.
ChangeIsReported ==
    \A c \in Callers :
        c \in owed /\ ~Busy(c) ~> c \notin owed \/ (dir /\ Broken) \/ PutBack
=============================================================================
