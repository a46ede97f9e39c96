------------------------------ MODULE HubLock ------------------------------
(***************************************************************************)
(* src/src/lock.ts: one lock file per database keeps a second hub from     *)
(* starting.  The file holds the pid of its creator.  A start that finds   *)
(* the file asks whether that process lives, and if not removes the file   *)
(* and creates its own.  Each step is one system call; other processes     *)
(* start, stop and crash between any two of them.                          *)
(*                                                                         *)
(* A hub of the model is one process, with a pid of its own.               *)
(***************************************************************************)
CONSTANTS Hubs,      \* the processes that ever start a hub, by their pid
          NoPid,     \* no pid, no file
          Overlap    \* may a start begin while another one is under way?

ASSUME HubLockAssumption ==
    /\ NoPid \notin Hubs
    /\ Overlap \in BOOLEAN

VARIABLES
    at,        \* where each process stands
    file,      \* the lock file: who created it, and the pid written in it
    holder     \* the pid that a start has read from the file

lockVars == <<at, file, holder>>

Starting == {"creating", "writing", "reading", "checking", "removing", "recreating",
             "opening"}
Steps    == Starting \union {"new", "running", "closed", "refused", "ended"}

File   == [by : Hubs, pid : Hubs \union {NoPid}]
NoFile == [by |-> NoPid, pid |-> NoPid]

HubLockTypeOK ==
    /\ at \in [Hubs -> Steps]
    /\ file \in File \union {NoFile}
    /\ holder \in [Hubs -> Hubs \union {NoPid}]

Alive(h) == at[h] \notin {"new", "refused", "ended"}

HubLockInit ==
    /\ at = [h \in Hubs |-> "new"]
    /\ file = NoFile
    /\ holder = [h \in Hubs |-> NoPid]

Goes(h, from, to) == at[h] = from /\ at' = [at EXCEPT ![h] = to]

-----------------------------------------------------------------------------

Start(h) ==
    /\ Goes(h, "new", "creating")
    /\ ~Overlap => \A o \in Hubs : at[o] \notin Starting
    /\ UNCHANGED <<file, holder>>

(* write: openSync(path, "wx"), which either creates the file or fails.    *)
Create(h, from, otherwise) ==
    /\ IF file = NoFile
       THEN Goes(h, from, "writing") /\ file' = [by |-> h, pid |-> NoPid]
       ELSE Goes(h, from, otherwise) /\ UNCHANGED file
    /\ UNCHANGED holder

(* writeSync on the open file, which another process may have removed and  *)
(* replaced meanwhile: then the pid goes to a file that no path names.     *)
WritePid(h) ==
    /\ Goes(h, "writing", "opening")
    /\ file' = IF file.by = h THEN [file EXCEPT !.pid = h] ELSE file
    /\ UNCHANGED holder

(* holderPid: no file and an empty file both name nobody.                  *)
ReadHolder(h) ==
    /\ Goes(h, "reading", "checking")
    /\ holder' = [holder EXCEPT ![h] = file.pid]
    /\ UNCHANGED file

(* Mutant: a file that names nobody belongs to somebody.                   *)
HolderUnlessDead(h) == holder[h] = NoPid \/ Alive(holder[h])

(* Mutant: the holder is not asked whether it lives.                       *)
HolderNeverLives(h) == FALSE

HolderLives(h) == holder[h] # NoPid /\ Alive(holder[h])

CheckHolder(h) ==
    /\ Goes(h, "checking", IF HolderLives(h) THEN "refused" ELSE "removing")
    /\ UNCHANGED <<file, holder>>

RemoveFile(h) ==
    /\ Goes(h, "removing", "recreating")
    /\ file' = NoFile
    /\ UNCHANGED holder

(* startHub opens the database and serves, or fails and releases the lock. *)
Opens(h) ==
    /\ Goes(h, "opening", "running")
    /\ UNCHANGED <<file, holder>>

OpenFails(h) ==
    /\ Goes(h, "opening", "closed")
    /\ file' = NoFile
    /\ UNCHANGED holder

(* Mutant: the hub goes on serving after it has released the lock.         *)
StopReleasesFirst(h) ==
    /\ at[h] = "running"
    /\ file' = NoFile
    /\ UNCHANGED <<at, holder>>

(* stop: the database is closed, then the lock file is removed, whoever    *)
(* created it; nothing awaits in between, and the process exits.           *)
Stops(h) ==
    /\ Goes(h, "running", "closed")
    /\ file' = NoFile
    /\ UNCHANGED holder

(* The process ends: at its last line, by a crash, or because its port is  *)
(* taken, which throws past the release.                                   *)
Ends(h) ==
    /\ Alive(h)
    /\ at' = [at EXCEPT ![h] = "ended"]
    /\ UNCHANGED <<file, holder>>

HubLockNext ==
    \E h \in Hubs :
        \/ Start(h)
        \/ Create(h, "creating", "reading")
        \/ WritePid(h)
        \/ ReadHolder(h)
        \/ CheckHolder(h)
        \/ RemoveFile(h)
        \/ Create(h, "recreating", "refused")
        \/ Opens(h)
        \/ OpenFails(h)
        \/ Stops(h)
        \/ Ends(h)

HubLockSpec == HubLockInit /\ [][HubLockNext]_lockVars

-----------------------------------------------------------------------------

Running == {h \in Hubs : at[h] = "running"}

(* "One hub per database" (lock.ts): two hubs never serve at once.  It     *)
(* holds when starts do not overlap, whatever crashes and stops interleave *)
(* with a start, and fails when two starts overlap.                        *)
OneHub == \A h, o \in Running : h = o

(* `sheppard stop` and `update` find the running hub through the file      *)
(* (activeHubPid): as long as one runs, the file is its own and names it.  *)
RunningHubIsNamed == \A h \in Running : file = [by |-> h, pid |-> h]

(* "A lock file left behind by a crash names a process that no longer      *)
(* exists, so it is reclaimed rather than requiring manual cleanup"        *)
(* (lock.ts): a start is refused only while another process is alive, at   *)
(* whatever point the last one crashed.                                    *)
RefusedForTheLiving ==
    [][\A h \in Hubs : (at[h] # "refused" /\ at'[h] = "refused") =>
          \E o \in Hubs \ {h} : Alive(o)]_lockVars

=============================================================================
