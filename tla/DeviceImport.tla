---------------------------- MODULE DeviceImport ----------------------------
(***************************************************************************)
(* A list of devices goes from the back office to the gateway.  Central    *)
(* pins the parameters of every device at its first import                 *)
(* (device_import_identity), keeps the list as a job (device_import), and  *)
(* runs the job as often as an operator asks for: it locks the job's row,  *)
(* asks the gateway to provision the devices, and registers them           *)
(* (device_meta) once the gateway has confirmed.  The gateway carries a    *)
(* list out as a whole or not at all, and pins the parameters of every     *)
(* device in turn (device_provision).  A call may be given up after ten    *)
(* seconds and still be carried out later; central may crash in it; and a  *)
(* device may be provisioned behind central's back, as the simulator does. *)
(*                                                                         *)
(* Tables are partial functions on their keys.  The gateway's device and   *)
(* device_provision rows are written together and stand for one another.   *)
(* Vendors are of the one adapter the gateway supports, which meters       *)
(* everything a station's price can ask for.  Who may act on which station *)
(* is left out, and so is the importing operator: a list repeated by its   *)
(* operator only runs the job, which a retry by any other does as well.    *)
(* The number of ports stands for all that a list says of a device besides *)
(* its vendor and its station.                                             *)
(***************************************************************************)
EXTENDS Naturals, FiniteSets

CONSTANTS Imports,      \* import ids, chosen by the client
          Units,        \* devices
          Seeded,       \* devices a seed registered with no vendor (cmd/devseed)
          Vendors, Sites,
          Lists,        \* the lists of devices an operator may send
          Direct,       \* the lists the gateway may be sent by another client
          MaxPorts,     \* ports of a device of the adapter (20)
          MaxAttempts,  \* bound: runs of a job that are counted
          MaxLate       \* bound: calls of a job given up and still on their way

Params == [vendor : Vendors, site : Sites, ports : Nat]
NoVendor == "none"
Entry == [vendor : Vendors \cup {NoVendor}, site : Sites, on : BOOLEAN]

ASSUME ImportConstants ==
  /\ Seeded \subseteq Units
  /\ \A list \in Lists \cup Direct : DOMAIN list \subseteq Units /\ list \in [DOMAIN list -> Params]
  /\ NoVendor \notin Vendors
  /\ MaxPorts \in Nat /\ MaxAttempts \in Nat /\ MaxLate \in Nat
  /\ Sites # {}

VARIABLES
  enabled,    \* gateway: the vendors with status enabled
  open,       \* central: the stations with status active
  identity,   \* central: device_import_identity
  job,        \* central: device_import
  run,        \* central: how far the run that holds the job's row is
  late,       \* calls a run gave up that may still reach the gateway
  provision,  \* gateway: device_provision and device
  meta        \* central: device_meta

importVars == <<enabled, open, identity, job, run, late, provision, meta>>

ImportJob == [list : Lists, status : {"pending", "failed", "completed"},
              attempts : 0..MaxAttempts]

ImportTypeOK ==
  /\ enabled \subseteq Vendors /\ open \subseteq Sites
  /\ DOMAIN identity \subseteq Units /\ identity \in [DOMAIN identity -> Params]
  /\ DOMAIN job \subseteq Imports /\ job \in [DOMAIN job -> ImportJob]
  /\ run \in [Imports -> {"idle", "calling", "accepted", "failed"}]
  /\ late \in [Imports -> 0..MaxLate]
  /\ DOMAIN provision \subseteq Units /\ provision \in [DOMAIN provision -> Params]
  /\ DOMAIN meta \subseteq Units /\ meta \in [DOMAIN meta -> Entry]

\* The rows of `new` inserted into a table, those already there left as they are.
Inserted(table, new) ==
  [k \in DOMAIN table \cup DOMAIN new |-> IF k \in DOMAIN table THEN table[k] ELSE new[k]]

\* No row of `new` differs from the one the table has under its key.
Agrees(table, new) == \A k \in DOMAIN table \cap DOMAIN new : table[k] = new[k]

List(i) == job[i].list

ImportInit ==
  /\ enabled = Vendors /\ open = Sites
  /\ identity = <<>> /\ job = <<>> /\ provision = <<>>
  /\ run = [i \in Imports |-> "idle"]
  /\ late = [i \in Imports |-> 0]
  /\ \E s \in Sites :
       meta = [d \in Seeded |-> [vendor |-> NoVendor, site |-> s, on |-> TRUE]]
-----------------------------------------------------------------------------
\* createImport of a list that was not sent under this id before.  The vendors are
\* read from the gateway before the transaction; one that is disabled in between
\* is the same as one disabled right after it.
Create(i, list) ==
  /\ i \notin DOMAIN job
  /\ \A d \in DOMAIN list : list[d].vendor \in enabled /\ list[d].site \in open
  /\ Agrees(identity, list)
  /\ identity' = Inserted(identity, list)
  /\ job' = Inserted(job, [j \in {i} |-> [list |-> list, status |-> "pending", attempts |-> 0]])
  /\ UNCHANGED <<enabled, open, run, late, provision, meta>>

\* runImport, called by createImport (also of a list sent again) and by retryImport:
\* it locks the row and sends the list.  The row is locked until the run ends.
Call(i) ==
  /\ i \in DOMAIN job /\ job[i].status # "completed"
  /\ job[i].attempts < MaxAttempts
  /\ run[i] = "idle"
  /\ run' = [run EXCEPT ![i] = "calling"]
  /\ UNCHANGED <<enabled, open, identity, job, late, provision, meta>>

\* A plausible slip: a device that is there already is taken for the one asked for.
Accepts_Present(list) ==
  \A d \in DOMAIN list : list[d].vendor \in enabled /\ list[d].ports <= MaxPorts

\* provision: the whole list in one transaction of the gateway.
Accepts(list) ==
  /\ \A d \in DOMAIN list : list[d].vendor \in enabled /\ list[d].ports <= MaxPorts
  /\ Agrees(provision, list)
Carried(list) == IF Accepts(list) THEN Inserted(provision, list) ELSE provision

Provision(i) ==
  /\ run[i] = "calling"
  /\ provision' = Carried(List(i))
  /\ run' = [run EXCEPT ![i] = IF Accepts(List(i)) THEN "accepted" ELSE "failed"]
  /\ UNCHANGED <<enabled, open, identity, job, late, meta>>

\* A call given up by its run arrives after all.
ProvisionLate(i) ==
  /\ late[i] > 0
  /\ late' = [late EXCEPT ![i] = @ - 1]
  /\ provision' = Carried(List(i))
  /\ UNCHANGED <<enabled, open, identity, job, run, meta>>

\* cmd/simulator-dc589 provisions its own board.
ProvisionDirect(list) ==
  /\ provision' = Carried(list)
  /\ UNCHANGED <<enabled, open, identity, job, run, late, meta>>

\* How many calls of the job are on their way once its run no longer waits.
Abandoned(i) == [late EXCEPT ![i] = IF run[i] = "calling" THEN @ + 1 ELSE @]

\* Ten seconds without an answer, or the answer is lost.
GiveUp(i) ==
  /\ run[i] \in {"calling", "accepted"}
  /\ late[i] < MaxLate
  /\ run' = [run EXCEPT ![i] = "failed"]
  /\ late' = Abandoned(i)
  /\ UNCHANGED <<enabled, open, identity, job, provision, meta>>

\* Central stops in the transaction of the run, or the database ends it.
CrashRun(i) ==
  /\ run[i] # "idle"
  /\ late[i] < MaxLate
  /\ run' = [run EXCEPT ![i] = "idle"]
  /\ late' = Abandoned(i)
  /\ UNCHANGED <<enabled, open, identity, job, provision, meta>>

\* The transaction of the run commits, and counts it.
Ended(i, status) ==
  [job EXCEPT ![i] = [list |-> @.list, status |-> status, attempts |-> @.attempts + 1]]

FailRun(i) ==
  /\ run[i] = "failed"
  /\ job' = Ended(i, "failed")
  /\ run' = [run EXCEPT ![i] = "idle"]
  /\ UNCHANGED <<enabled, open, identity, late, provision, meta>>

\* A device registered before with another vendor or station ends the run.
Registrable(list) ==
  \A d \in DOMAIN list \cap DOMAIN meta :
    meta[d].vendor = list[d].vendor /\ meta[d].site = list[d].site

Entries(list) ==
  [d \in DOMAIN list |-> [vendor |-> list[d].vendor, site |-> list[d].site, on |-> TRUE]]

\* A plausible slip: the list is written over the devices that are there.
CompleteRun_Overwrites(i) ==
  /\ run[i] = "accepted"
  /\ Registrable(List(i))
  /\ meta' = Inserted(Entries(List(i)), meta)
  /\ job' = Ended(i, "completed")
  /\ run' = [run EXCEPT ![i] = "idle"]
  /\ UNCHANGED <<enabled, open, identity, late, provision>>

CompleteRun(i) ==
  /\ run[i] = "accepted"
  /\ Registrable(List(i))
  /\ meta' = Inserted(meta, Entries(List(i)))
  /\ job' = Ended(i, "completed")
  /\ run' = [run EXCEPT ![i] = "idle"]
  /\ UNCHANGED <<enabled, open, identity, late, provision>>

ConflictRun(i) ==
  /\ run[i] = "accepted"
  /\ ~Registrable(List(i))
  /\ run' = [run EXCEPT ![i] = "idle"]
  /\ UNCHANGED <<enabled, open, identity, job, late, provision, meta>>

\* updateVendor, saveStation and setDeviceStatus: what they may change of an
\* existing vendor, station or device that an import looks at.
SetVendor(v) ==
  /\ enabled' \in {enabled \cup {v}, enabled \ {v}}
  /\ UNCHANGED <<open, identity, job, run, late, provision, meta>>

SetSite(s) ==
  /\ open' \in {open \cup {s}, open \ {s}}
  /\ UNCHANGED <<enabled, identity, job, run, late, provision, meta>>

SetUnit(d) ==
  /\ d \in DOMAIN meta
  /\ \E on \in BOOLEAN : meta' = [meta EXCEPT ![d].on = on]
  /\ UNCHANGED <<enabled, open, identity, job, run, late, provision>>

ImportNext ==
  \/ \E i \in Imports, list \in Lists : Create(i, list)
  \/ \E i \in Imports :
       \/ Call(i) \/ Provision(i) \/ ProvisionLate(i)
       \/ GiveUp(i) \/ CrashRun(i) \/ FailRun(i) \/ CompleteRun(i) \/ ConflictRun(i)
  \/ \E list \in Direct : ProvisionDirect(list)
  \/ \E v \in Vendors : SetVendor(v)
  \/ \E s \in Sites : SetSite(s)
  \/ \E d \in Units : SetUnit(d)

ImportSpec == ImportInit /\ [][ImportNext]_importVars
-----------------------------------------------------------------------------
\* A device the back office sells charges on is one the gateway knows under the
\* same vendor and station, whatever was given up, crashed or sent twice on the way
\* (runImport against provision; a seeded device has no vendor and is exempt).
RegisteredIsProvisioned ==
  \A d \in DOMAIN meta : meta[d].vendor # NoVendor =>
    /\ d \in DOMAIN provision
    /\ provision[d].vendor = meta[d].vendor /\ provision[d].site = meta[d].site

\* A job that says completed has registered its whole list, each device as the list
\* has it, and the gateway holds exactly these parameters (runImport).
CompletedIsRegistered ==
  \A i \in DOMAIN job : job[i].status = "completed" =>
    \A d \in DOMAIN List(i) :
      /\ d \in DOMAIN meta
      /\ meta[d].vendor = List(i)[d].vendor /\ meta[d].site = List(i)[d].site
      /\ d \in DOMAIN provision /\ provision[d] = List(i)[d]

\* Two jobs never have different words for one device, whoever sent them and whatever
\* became of them (createImport: device_import_identity).
JobsAgree ==
  \A i, j \in DOMAIN job : Agrees(List(i), List(j))

\* All three, for the run: what is registered was confirmed, whole and under one
\* word for each device (createImport, runImport, provision).
ImportsHold == RegisteredIsProvisioned /\ CompletedIsRegistered /\ JobsAgree

\* Importing a device again never moves it, nor puts a device back into operation
\* that was taken out of it: only setDeviceStatus changes a registered device.
SettingsStand ==
  [][\A d \in DOMAIN meta :
       /\ d \in DOMAIN meta'
       /\ meta'[d] = meta[d] \/ SetUnit(d)]_importVars
=============================================================================
