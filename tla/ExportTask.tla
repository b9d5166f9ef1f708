------------------------------ MODULE ExportTask ------------------------------
(***************************************************************************)
(* Exports of the back office (admin/exports.go, cmd/central/main.go).  A  *)
(* request records a task and builds its file before it answers: a partial *)
(* file first, then the file, then the word in the database.  An hourly    *)
(* loop removes what has expired, and every download checks again who may  *)
(* have the file.  The requester may go away and the process may stop at   *)
(* any point; a file and its row are never changed in one step.            *)
(***************************************************************************)
EXTENDS Integers, FiniteSets

CONSTANTS
  Tasks, Admins,
  OwnerOf,      \* export_task.requested_by
  Readers,      \* admins who may download for others (admin_user.read)
  Scoped,       \* tasks of resources that need an unrestricted scope
  MaxBreaks     \* bound: requests cut off, writes that fail, restarts

ASSUME ExportConstants ==
  /\ OwnerOf \in [Tasks -> Admins] /\ Scoped \subseteq Tasks /\ Readers \subseteq Admins
  /\ MaxBreaks \in Nat /\ {"idle", "remove"} \cap Tasks = {}

VARIABLES
  task,       \* export_task.status
  path,       \* tasks with a file_path
  lapsed,     \* tasks whose expires_at has passed
  build,      \* how far the request that builds a task has come
  partial,    \* tasks with a .partial file on disk
  file,       \* tasks with a file on disk: none, whole
  sweep,      \* CleanupExpired: the tasks it has listed, and the one it is at
  entitled,    \* admins who have the permission of the resource
  everywhere, \* admins whose data scope is unrestricted
  read,       \* downloads that were allowed: task and admin, file not yet sent
  breaks

diskVars == <<partial, file>>
accessVars == <<entitled, everywhere>>
exportVars == <<task, path, lapsed, build, diskVars, sweep, accessVars, read, breaks>>

NoSweep == [todo |-> {}, at |-> "idle"]

ExportInit ==
  /\ task = [t \in Tasks |-> "none"] /\ path = {} /\ lapsed = {}
  /\ build = [t \in Tasks |-> "idle"] /\ partial = {} /\ file = {}
  /\ sweep = NoSweep
  /\ entitled = Admins /\ everywhere = Admins
  /\ read = {} /\ breaks = 0

Break == breaks < MaxBreaks /\ breaks' = breaks + 1

Allowed(a, t) == a \in entitled /\ (t \in Scoped => a \in everywhere)

---------------------------------------------------------------------------
(* The world                                                               *)

Lapse(t) ==
  /\ task[t] # "none" /\ t \notin lapsed
  /\ lapsed' = lapsed \cup {t}
  /\ UNCHANGED <<task, path, build, diskVars, sweep, accessVars, read, breaks>>

Withdraw(a) ==
  /\ \/ entitled' = entitled \ {a} /\ UNCHANGED everywhere
     \/ everywhere' = everywhere \ {a} /\ UNCHANGED entitled
  /\ UNCHANGED <<task, path, lapsed, build, diskVars, sweep, read, breaks>>

---------------------------------------------------------------------------
(* createTask and run                                                      *)

\* The same request again is answered from the row and builds nothing.
CreateTask(t) ==
  /\ task[t] = "none" /\ Allowed(OwnerOf[t], t)
  /\ task' = [task EXCEPT ![t] = "pending"]
  /\ build' = [build EXCEPT ![t] = "fetch"]
  /\ UNCHANGED <<path, lapsed, diskVars, sweep, accessVars, read, breaks>>

Step(t, from, to) == build[t] = from /\ build' = [build EXCEPT ![t] = to]

\* run looks at the scope once more, takes the rows and opens the partial file.
Fetch(t) ==
  /\ t \in Scoped => OwnerOf[t] \in everywhere
  /\ Step(t, "fetch", "write")
  /\ partial' = partial \cup {t}
  /\ UNCHANGED <<task, path, lapsed, file, sweep, accessVars, read, breaks>>

Rename(t) ==
  /\ Step(t, "write", "complete")
  /\ partial' = partial \ {t} /\ file' = file \cup {t}
  /\ UNCHANGED <<task, path, lapsed, sweep, accessVars, read, breaks>>

Complete(t) ==
  /\ Step(t, "complete", "idle")
  /\ task' = [task EXCEPT ![t] = "completed"] /\ path' = path \cup {t}
  /\ UNCHANGED <<lapsed, diskVars, sweep, accessVars, read, breaks>>

\* A step that fails leaves no partial file; the word that it failed is
\* written with the context of the request, which may be over.
Fail(t) ==
  /\ build[t] \in {"fetch", "write"}
  /\ IF build[t] = "fetch" /\ t \in Scoped /\ OwnerOf[t] \notin everywhere
     THEN UNCHANGED breaks ELSE Break
  /\ build' = [build EXCEPT ![t] = "idle"]
  /\ partial' = partial \ {t}
  /\ task' \in {task, [task EXCEPT ![t] = "failed"]}
  /\ UNCHANGED <<path, lapsed, file, sweep, accessVars, read>>

\* The process stops, or the last write fails: what is on disk stays there.
Stop(t) ==
  /\ build[t] \in {"fetch", "write", "complete"} /\ Break
  /\ build' = [build EXCEPT ![t] = "idle"]
  /\ UNCHANGED <<task, path, lapsed, diskVars, sweep, accessVars, read>>

---------------------------------------------------------------------------
(* CleanupExpired                                                          *)

\* Mutant: a task that never ended is cleaned up as well.
Expirable_Any(t) == task[t] \in {"pending", "completed", "failed"}

Expirable(t) == task[t] \in {"completed", "failed"}

ListExpired ==
  /\ sweep = NoSweep
  /\ \E t \in lapsed : Expirable(t)
  /\ sweep' = [todo |-> {t \in lapsed : Expirable(t)}, at |-> "remove"]
  /\ UNCHANGED <<task, path, lapsed, build, diskVars, accessVars, read, breaks>>

\* The file goes first, by the path the task number gives.
RemoveFile(t) ==
  /\ sweep.at = "remove" /\ t \in sweep.todo
  /\ file' = IF t \in path THEN file \ {t} ELSE file
  /\ sweep' = [todo |-> sweep.todo \ {t}, at |-> t]
  /\ UNCHANGED <<task, path, lapsed, build, partial, accessVars, read, breaks>>

MarkExpired ==
  /\ sweep.at \in Tasks
  /\ task' = IF Expirable(sweep.at) THEN [task EXCEPT ![sweep.at] = "expired"] ELSE task
  /\ sweep' = IF sweep.todo = {} THEN NoSweep ELSE [sweep EXCEPT !.at = "remove"]
  /\ UNCHANGED <<path, lapsed, build, diskVars, accessVars, read, breaks>>

\* A removal or a write fails, or the process stops; the next hour lists again.
SweepStops ==
  /\ sweep # NoSweep /\ Break
  /\ sweep' = NoSweep
  /\ UNCHANGED <<task, path, lapsed, build, diskVars, accessVars, read>>

---------------------------------------------------------------------------
(* downloadTask                                                            *)

\* What download makes of expires_at: the driver gives it in a format that
\* it does not read, and a time it cannot read has not passed.
PastExpiry(t) == FALSE

Download(a, t) ==
  /\ a = OwnerOf[t] \/ a \in Readers
  /\ task[t] = "completed" /\ t \in path /\ Allowed(a, t)
  /\ ~PastExpiry(t)
  /\ <<a, t>> \notin read
  /\ read' = read \cup {<<a, t>>}
  /\ UNCHANGED <<task, path, lapsed, build, diskVars, sweep, accessVars, breaks>>

\* The row is not held any more when the file is sent: it may be gone.
Send(a, t) ==
  /\ <<a, t>> \in read
  /\ read' = read \ {<<a, t>>}
  /\ UNCHANGED <<task, path, lapsed, build, diskVars, sweep, accessVars, breaks>>

ExportNext ==
  \/ \E t \in Tasks :
       \/ Lapse(t) \/ CreateTask(t) \/ Fetch(t) \/ Rename(t) \/ Complete(t)
       \/ Fail(t) \/ Stop(t) \/ RemoveFile(t)
       \/ \E a \in Admins : Download(a, t) \/ Send(a, t)
  \/ \E a \in Admins : Withdraw(a)
  \/ ListExpired \/ MarkExpired \/ SweepStops

ExportSpec == ExportInit /\ [][ExportNext]_exportVars

---------------------------------------------------------------------------
(* Properties                                                              *)

(* Nothing is left of a task that has expired or failed: whatever stops     *)
(* half way, a row says so only when its file is gone, and a row that says  *)
(* there is a file has one or is about to be marked (exports.go:65-92,      *)
(* 346-347).                                                                *)
ExpiredLeavesNoFile ==
  /\ \A t \in Tasks : task[t] \in {"expired", "failed"} => t \notin file
  /\ \A t \in path : task[t] = "completed" /\ t \notin file => t \in lapsed

(* A download after the expiry is refused (exports.go:474-475).  It is not, *)
(* until the hourly loop has come by.                                       *)
ExpiredIsRefused ==
  [][\A a \in Admins, t \in lapsed : <<a, t>> \in read' => <<a, t>> \in read]_exportVars

(* A task whose building has ended says how it ended (exports.go:347): one  *)
(* whose request was cut off stays pending for good.                        *)
EndIsOnRecord == \A t \in Tasks : task[t] = "pending" => build[t] # "idle"
=============================================================================
