-------------------------- MODULE BackofficeProofs --------------------------
(***************************************************************************)
(* Imports of devices, fault reports and feedback, exports, invoices, and  *)
(* the events and reports that leave the system, for any number of them,   *)
(* of workers, failures and crashes.  Each part states its inductive       *)
(* invariant and shows that every step keeps it; what the runs check       *)
(* follows.  The parts share nothing, and are proved one by one.           *)
(***************************************************************************)
EXTENDS DeviceImport, Casework, ExportTask, Invoice, EventDelivery, RegulatoryReport,
        FiniteSetTheorems, TLAPS

(***************************************************************************)
(* Imports. A registered device is provisioned, whatever happens to the    *)
(* calls between the two databases. A run registers only what the gateway  *)
(* confirmed to it, the gateway confirms a list only if it holds exactly   *)
(* these parameters, and neither it nor central ever changes a row it has. *)
(* That two jobs agree about a device rests on central alone: it compares  *)
(* every list with the first word it had of each device.                   *)
(***************************************************************************)

\* Every list accepted as a job has its devices pinned.
JobsArePinned ==
  \A i \in DOMAIN job : \A d \in DOMAIN List(i) :
    d \in DOMAIN identity /\ identity[d] = List(i)[d]

\* A run holds the row of a job that is not completed, and what the gateway
\* confirmed to it stays provisioned.
RunsHoldJobs ==
  \A i \in Imports :
    /\ run[i] # "idle" => /\ i \in DOMAIN job
                          /\ job[i].status # "completed" /\ job[i].attempts < MaxAttempts
    /\ run[i] = "accepted" =>
         \A d \in DOMAIN List(i) : d \in DOMAIN provision /\ provision[d] = List(i)[d]
    /\ late[i] > 0 => i \in DOMAIN job

ImportInvariant ==
  /\ ImportTypeOK
  /\ JobsArePinned /\ RunsHoldJobs
  /\ RegisteredIsProvisioned /\ CompletedIsRegistered
-----------------------------------------------------------------------------
\* A table of rows of one type keeps it when rows of that type are inserted.
LEMMA InsertedType ==
  ASSUME NEW table, NEW new, NEW T,
         table \in [DOMAIN table -> T], new \in [DOMAIN new -> T]
  PROVE  Inserted(table, new) \in [DOMAIN Inserted(table, new) -> T]
BY DEF Inserted

\* A list an operator may send assigns parameters to devices.
LEMMA ListType ==
  ASSUME NEW list \in Lists \cup Direct
  PROVE  DOMAIN list \subseteq Units /\ list \in [DOMAIN list -> Params]
BY ImportConstants

\* The gateway keeps what it has, and has the whole list if it accepted it.
LEMMA CarriedKeeps ==
  ASSUME ImportTypeOK, NEW list \in Lists \cup Direct, provision' = Carried(list)
  PROVE  /\ DOMAIN provision' \subseteq Units /\ provision' \in [DOMAIN provision' -> Params]
         /\ DOMAIN provision \subseteq DOMAIN provision'
         /\ \A d \in DOMAIN provision : provision'[d] = provision[d]
         /\ Accepts(list) =>
              \A d \in DOMAIN list : d \in DOMAIN provision' /\ provision'[d] = list[d]
<1>1. DOMAIN list \subseteq Units /\ list \in [DOMAIN list -> Params]
  BY ListType
<1>2. provision \in [DOMAIN provision -> Params] /\ DOMAIN provision \subseteq Units
  BY DEF ImportTypeOK
<1>3. CASE Accepts(list)
  <2>1. provision' = Inserted(provision, list) /\ Agrees(provision, list)
    BY <1>3 DEF Carried, Accepts
  <2>2. /\ DOMAIN provision' = DOMAIN provision \cup DOMAIN list
        /\ \A d \in DOMAIN provision : provision'[d] = provision[d]
        /\ \A d \in DOMAIN list : provision'[d] = list[d]
    BY <2>1 DEF Inserted, Agrees
  <2>3. provision' \in [DOMAIN provision' -> Params]
    BY <2>1, <1>1, <1>2, InsertedType
  <2> QED
    BY <1>1, <1>2, <2>2, <2>3
<1>4. CASE ~Accepts(list)
  BY <1>2, <1>4 DEF Carried
<1> QED
  BY <1>3, <1>4

\* Every step keeps the types.
LEMMA TypesKept ==
  ASSUME ImportInvariant, [ImportNext]_importVars
  PROVE  ImportTypeOK'
<1> USE DEF ImportTypeOK
<1>0. ImportTypeOK
  BY DEF ImportInvariant
<1>1. CASE UNCHANGED importVars
  BY <1>0, <1>1 DEF importVars
<1>2. ASSUME NEW i \in Imports, NEW list \in Lists, Create(i, list)
      PROVE  ImportTypeOK'
  <2>1. DOMAIN list \subseteq Units /\ list \in [DOMAIN list -> Params]
    BY ListType
  <2> DEFINE row == [j \in {i} |-> [list |-> list, status |-> "pending", attempts |-> 0]]
  <2>2. row \in [DOMAIN row -> ImportJob] /\ DOMAIN row = {i}
    BY ImportConstants DEF ImportJob
  <2>3. identity' = Inserted(identity, list) /\ job' = Inserted(job, row)
    BY <1>2 DEF Create
  <2> HIDE DEF row
  <2>4. identity' \in [DOMAIN identity' -> Params] /\ DOMAIN identity' \subseteq Units
    BY <1>0, <2>1, <2>3 DEF Inserted
  <2>5. job' \in [DOMAIN job' -> ImportJob] /\ DOMAIN job' \subseteq Imports
    BY <1>0, <2>2, <2>3 DEF Inserted
  <2>6. UNCHANGED <<enabled, open, run, late, provision, meta>>
    BY <1>2 DEF Create
  <2> QED
    BY <1>0, <2>4, <2>5, <2>6
<1>3. ASSUME NEW i \in Imports, Call(i)
      PROVE  ImportTypeOK'
  BY <1>0, <1>3 DEF Call
<1>4. ASSUME NEW i \in Imports, Provision(i) \/ ProvisionLate(i)
      PROVE  ImportTypeOK'
  <2>1. List(i) \in Lists
    BY <1>0, <1>4 DEF ImportInvariant, RunsHoldJobs, Provision, ProvisionLate, ImportJob, List
  <2>2. DOMAIN provision' \subseteq Units /\ provision' \in [DOMAIN provision' -> Params]
    <3>1. provision' = Carried(List(i))
      BY <1>4 DEF Provision, ProvisionLate
    <3> QED
      BY <1>0, <2>1, <3>1, CarriedKeeps
  <2>3. run' \in [Imports -> {"idle", "calling", "accepted", "failed"}]
    BY <1>0, <1>4 DEF Provision, ProvisionLate
  <2>4. late' \in [Imports -> 0..MaxLate]
    BY <1>0, <1>4, ImportConstants DEF Provision, ProvisionLate
  <2>5. UNCHANGED <<enabled, open, identity, job, meta>>
    BY <1>4 DEF Provision, ProvisionLate
  <2> QED
    BY <1>0, <2>2, <2>3, <2>4, <2>5
<1>5. ASSUME NEW i \in Imports, GiveUp(i) \/ CrashRun(i)
      PROVE  ImportTypeOK'
  <2>1. late' \in [Imports -> 0..MaxLate]
    BY <1>0, <1>5, ImportConstants DEF GiveUp, CrashRun, Abandoned
  <2>2. run' \in [Imports -> {"idle", "calling", "accepted", "failed"}]
    BY <1>0, <1>5 DEF GiveUp, CrashRun
  <2>3. UNCHANGED <<enabled, open, identity, job, provision, meta>>
    BY <1>5 DEF GiveUp, CrashRun
  <2> QED
    BY <1>0, <2>1, <2>2, <2>3
<1>6. ASSUME NEW i \in Imports, FailRun(i) \/ CompleteRun(i)
      PROVE  ImportTypeOK'
  <2>1. i \in DOMAIN job /\ job[i].attempts < MaxAttempts
    BY <1>6 DEF ImportInvariant, RunsHoldJobs, FailRun, CompleteRun
  <2>2. PICK status \in {"failed", "completed"} :
          job' = Ended(i, status)
    BY <1>6 DEF FailRun, CompleteRun
  <2>3. job[i] \in ImportJob /\ job[i].attempts + 1 \in 0..MaxAttempts
    BY <1>0, <2>1, ImportConstants DEF ImportJob
  <2>4. job' \in [DOMAIN job' -> ImportJob] /\ DOMAIN job' \subseteq Imports
    BY <1>0, <2>2, <2>3 DEF Ended, ImportJob
  <2>5. run' \in [Imports -> {"idle", "calling", "accepted", "failed"}]
    BY <1>0, <1>6 DEF FailRun, CompleteRun
  <2>6. DOMAIN List(i) \subseteq Units /\ List(i) \in [DOMAIN List(i) -> Params]
    BY <1>0, <2>1, ListType DEF ImportJob, List
  <2>7. meta' \in [DOMAIN meta' -> Entry] /\ DOMAIN meta' \subseteq Units
    <3>1. Entries(List(i)) \in [DOMAIN List(i) -> Entry]
      BY <2>6 DEF Entries, Entry, Params
    <3>2. meta' = meta \/ meta' = Inserted(meta, Entries(List(i)))
      BY <1>6 DEF FailRun, CompleteRun
    <3> QED
      BY <1>0, <2>6, <3>1, <3>2 DEF Inserted
  <2>8. UNCHANGED <<enabled, open, identity, late, provision>>
    BY <1>6 DEF FailRun, CompleteRun
  <2> QED
    BY <1>0, <2>4, <2>5, <2>7, <2>8
<1>7. ASSUME NEW i \in Imports, ConflictRun(i)
      PROVE  ImportTypeOK'
  BY <1>0, <1>7 DEF ConflictRun
<1>8. ASSUME NEW v \in Vendors, SetVendor(v)
      PROVE  ImportTypeOK'
  BY <1>0, <1>8 DEF SetVendor
<1>9. ASSUME NEW s \in Sites, SetSite(s)
      PROVE  ImportTypeOK'
  BY <1>0, <1>9 DEF SetSite
<1>10. ASSUME NEW d \in Units, SetUnit(d)
       PROVE  ImportTypeOK'
  <2>1. meta' \in [DOMAIN meta' -> Entry] /\ DOMAIN meta' = DOMAIN meta
    BY <1>0, <1>10 DEF SetUnit, Entry
  <2> QED
    BY <1>0, <1>10, <2>1 DEF SetUnit
<1>11. ASSUME NEW list \in Direct, ProvisionDirect(list)
       PROVE  ImportTypeOK'
  <2>1. DOMAIN provision' \subseteq Units /\ provision' \in [DOMAIN provision' -> Params]
    BY <1>0, <1>11, CarriedKeeps DEF ProvisionDirect
  <2> QED
    BY <1>0, <1>11, <2>1 DEF ProvisionDirect
<1> QED
  BY <1>1, <1>2, <1>3, <1>4, <1>5, <1>6, <1>7, <1>8, <1>9, <1>10, <1>11 DEF ImportNext

\* What is pinned at central stays pinned: lists are compared before they are kept.
LEMMA PinsKept ==
  ASSUME ImportInvariant, [ImportNext]_importVars
  PROVE  /\ JobsArePinned'
         /\ DOMAIN identity \subseteq DOMAIN identity'
         /\ \A d \in DOMAIN identity : identity'[d] = identity[d]
<1>0. ImportTypeOK /\ JobsArePinned
  BY DEF ImportInvariant
<1>1. ASSUME NEW i \in Imports, NEW list \in Lists, Create(i, list)
      PROVE  /\ JobsArePinned'
             /\ DOMAIN identity \subseteq DOMAIN identity'
             /\ \A d \in DOMAIN identity : identity'[d] = identity[d]
  <2> DEFINE row == [j \in {i} |-> [list |-> list, status |-> "pending", attempts |-> 0]]
  <2>1. identity' = Inserted(identity, list) /\ job' = Inserted(job, row)
        /\ Agrees(identity, list) /\ i \notin DOMAIN job
    BY <1>1 DEF Create
  <2>2. /\ DOMAIN identity' = DOMAIN identity \cup DOMAIN list
        /\ \A d \in DOMAIN identity : identity'[d] = identity[d]
        /\ \A d \in DOMAIN list : identity'[d] = list[d]
    BY <2>1 DEF Inserted, Agrees
  <2>3. /\ DOMAIN job' = DOMAIN job \cup {i}
        /\ \A j \in DOMAIN job : job'[j] = job[j]
        /\ job'[i].list = list
    BY <2>1 DEF Inserted
  <2>4. ASSUME NEW j \in DOMAIN job', NEW d \in DOMAIN job'[j].list
        PROVE  d \in DOMAIN identity' /\ identity'[d] = job'[j].list[d]
    <3>1. CASE j = i
      BY <3>1, <2>2, <2>3, <2>4
    <3>2. CASE j # i
      BY <3>2, <1>0, <2>2, <2>3, <2>4 DEF JobsArePinned, List
    <3> QED
      BY <3>1, <3>2
  <2> QED
    BY <2>2, <2>4 DEF JobsArePinned, List
<1>2. ASSUME NEW i \in Imports, FailRun(i) \/ CompleteRun(i)
      PROVE  JobsArePinned' /\ UNCHANGED identity
  <2>1. PICK status \in {"failed", "completed"} :
          job' = Ended(i, status) /\ UNCHANGED identity
    BY <1>2 DEF FailRun, CompleteRun
  <2>2. DOMAIN job' = DOMAIN job /\ \A j \in DOMAIN job : job'[j].list = job[j].list
    BY <1>0, <2>1 DEF Ended, ImportTypeOK
  <2> QED
    BY <1>0, <2>1, <2>2 DEF JobsArePinned, List
<1>3. CASE UNCHANGED <<identity, job>>
  BY <1>0, <1>3 DEF JobsArePinned, List
<1> QED
  BY <1>1, <1>2, <1>3
     DEF ImportNext, importVars, Call, Provision, ProvisionLate, GiveUp, CrashRun, ConflictRun,
         ProvisionDirect, SetVendor, SetSite, SetUnit

\* The gateway keeps the rows it has.
LEMMA GatewayKept ==
  ASSUME ImportInvariant, [ImportNext]_importVars
  PROVE  /\ DOMAIN provision \subseteq DOMAIN provision'
         /\ \A d \in DOMAIN provision : provision'[d] = provision[d]
<1>1. \A list : provision' = Carried(list) =>
        /\ DOMAIN provision \subseteq DOMAIN provision'
        /\ \A d \in DOMAIN provision : provision'[d] = provision[d]
  BY DEF Carried, Inserted
<1>2. UNCHANGED provision \/ \E list : provision' = Carried(list)
  BY DEF ImportNext, importVars, Create, Call, GiveUp, CrashRun, FailRun, CompleteRun, ConflictRun,
         Provision, ProvisionLate, ProvisionDirect, SetVendor, SetSite, SetUnit
<1> QED
  BY <1>1, <1>2

\* No list changes, no completed job is run again, and what was confirmed to a run
\* is still there when it registers the list.
LEMMA RunsKept ==
  ASSUME ImportInvariant, [ImportNext]_importVars
  PROVE  RunsHoldJobs'
<1>0. ImportTypeOK /\ RunsHoldJobs
  BY DEF ImportInvariant
<1>1. /\ DOMAIN provision \subseteq DOMAIN provision'
      /\ \A d \in DOMAIN provision : provision'[d] = provision[d]
  BY GatewayKept
<1>2. CASE UNCHANGED <<job, run, late>>
  BY <1>0, <1>1, <1>2 DEF RunsHoldJobs, List
<1>3. ASSUME NEW i \in Imports, NEW list \in Lists, Create(i, list)
      PROVE  RunsHoldJobs'
  <2>1. DOMAIN job \subseteq DOMAIN job' /\ \A j \in DOMAIN job : job'[j] = job[j]
    BY <1>3 DEF Create, Inserted
  <2>2. UNCHANGED <<run, late, provision>>
    BY <1>3 DEF Create
  <2> QED
    BY <1>0, <2>1, <2>2 DEF RunsHoldJobs, List, ImportTypeOK
<1>4. ASSUME NEW i \in Imports, Call(i)
      PROVE  RunsHoldJobs'
  BY <1>0, <1>4 DEF Call, RunsHoldJobs, List, ImportTypeOK
<1>5. ASSUME NEW i \in Imports, Provision(i)
      PROVE  RunsHoldJobs'
  <2>1. i \in DOMAIN job /\ job[i].status # "completed" /\ job[i].attempts < MaxAttempts
    BY <1>0, <1>5 DEF Provision, RunsHoldJobs
  <2>2. Accepts(List(i)) =>
          \A d \in DOMAIN List(i) : d \in DOMAIN provision' /\ provision'[d] = List(i)[d]
    <3>1. List(i) \in Lists
      BY <1>0, <2>1 DEF ImportTypeOK, ImportJob, List
    <3>2. provision' = Carried(List(i))
      BY <1>5 DEF Provision
    <3> QED
      BY <1>0, <3>1, <3>2, CarriedKeeps
  <2>3. /\ UNCHANGED <<job, late>>
        /\ run' = [run EXCEPT ![i] = IF Accepts(List(i)) THEN "accepted" ELSE "failed"]
    BY <1>5 DEF Provision
  <2>4. ASSUME NEW j \in Imports, j # i
        PROVE  run'[j] = run[j]
    BY <1>0, <2>3, <2>4 DEF ImportTypeOK
  <2>5. run'[i] = "accepted" => Accepts(List(i))
    BY <1>0, <2>3 DEF ImportTypeOK
  <2>6. late'[i] = late[i] /\ (late[i] > 0 => i \in DOMAIN job)
    BY <2>1, <2>3
  <2> QED
    BY <1>0, <1>1, <2>1, <2>2, <2>3, <2>4, <2>5 DEF RunsHoldJobs, List
<1>6. ASSUME NEW i \in Imports, ProvisionLate(i)
      PROVE  RunsHoldJobs'
  <2>1. i \in DOMAIN job
    BY <1>0, <1>6 DEF ProvisionLate, RunsHoldJobs
  <2>2. UNCHANGED <<job, run>> /\ \A j \in Imports : late'[j] > 0 => late[j] > 0
    BY <1>0, <1>6 DEF ProvisionLate, ImportTypeOK
  <2> QED
    BY <1>0, <1>1, <2>2 DEF RunsHoldJobs, List
<1>7. ASSUME NEW i \in Imports, GiveUp(i) \/ CrashRun(i)
      PROVE  RunsHoldJobs'
  <2>1. i \in DOMAIN job /\ UNCHANGED <<job, provision>>
    BY <1>0, <1>7 DEF GiveUp, CrashRun, RunsHoldJobs
  <2>2. \A j \in Imports : j # i => run'[j] = run[j] /\ late'[j] = late[j]
    BY <1>0, <1>7 DEF GiveUp, CrashRun, Abandoned, ImportTypeOK
  <2>3. run'[i] # "accepted" /\ run[i] # "idle"
    BY <1>0, <1>7 DEF GiveUp, CrashRun, ImportTypeOK
  <2> QED
    BY <1>0, <2>1, <2>2, <2>3 DEF RunsHoldJobs, List
<1>8. ASSUME NEW i \in Imports, FailRun(i) \/ CompleteRun(i)
      PROVE  RunsHoldJobs'
  <2>1. PICK status \in {"failed", "completed"} : job' = Ended(i, status)
    BY <1>8 DEF FailRun, CompleteRun
  <2>2. DOMAIN job' = DOMAIN job /\ \A j \in DOMAIN job : j # i => job'[j] = job[j]
    BY <1>0, <2>1 DEF Ended, ImportTypeOK
  <2>3. run' = [run EXCEPT ![i] = "idle"] /\ UNCHANGED <<late, provision>>
    BY <1>8 DEF FailRun, CompleteRun
  <2>4. ASSUME NEW j \in Imports
        PROVE  /\ run'[j] # "idle" => j # i /\ run'[j] = run[j]
               /\ late'[j] > 0 => j \in DOMAIN job
    BY <1>0, <2>3 DEF ImportTypeOK, RunsHoldJobs
  <2> QED
    BY <1>0, <2>2, <2>3, <2>4 DEF RunsHoldJobs, List
<1>9. ASSUME NEW i \in Imports, ConflictRun(i)
      PROVE  RunsHoldJobs'
  BY <1>0, <1>9 DEF ConflictRun, RunsHoldJobs, List, ImportTypeOK
<1> QED
  BY <1>2, <1>3, <1>4, <1>5, <1>6, <1>7, <1>8, <1>9
     DEF ImportNext, importVars, ProvisionDirect, SetVendor, SetSite, SetUnit

\* A registered device is changed by its operator only: a run that completes adds
\* the devices that are not there.
LEMMA EntriesKept ==
  ASSUME ImportInvariant, [ImportNext]_importVars
  PROVE  \A d \in DOMAIN meta :
           /\ d \in DOMAIN meta'
           /\ meta'[d] = meta[d] \/ SetUnit(d)
           /\ meta'[d].vendor = meta[d].vendor /\ meta'[d].site = meta[d].site
<1>0. meta \in [DOMAIN meta -> Entry]
  BY DEF ImportInvariant, ImportTypeOK
<1>1. CASE UNCHANGED meta
  BY <1>1
<1>2. ASSUME NEW i \in Imports, CompleteRun(i), NEW d \in DOMAIN meta
      PROVE  d \in DOMAIN meta' /\ meta'[d] = meta[d]
  BY <1>2 DEF CompleteRun, Inserted
<1>3. ASSUME NEW e \in Units, SetUnit(e), NEW d \in DOMAIN meta
      PROVE  /\ d \in DOMAIN meta'
             /\ meta'[d] = meta[d] \/ SetUnit(d)
             /\ meta'[d].vendor = meta[d].vendor /\ meta'[d].site = meta[d].site
  <2>1. PICK on \in BOOLEAN : meta' = [meta EXCEPT ![e].on = on]
    BY <1>3 DEF SetUnit
  <2>2. CASE d = e
    BY <1>0, <1>3, <2>1, <2>2 DEF Entry
  <2>3. CASE d # e
    BY <1>0, <1>3, <2>1, <2>3
  <2> QED
    BY <2>2, <2>3
<1> QED
  BY <1>1, <1>2, <1>3
     DEF ImportNext, importVars, Create, Call, Provision, ProvisionLate, GiveUp, CrashRun,
         FailRun, ConflictRun, ProvisionDirect, SetVendor, SetSite

\* What a completing run registers is what the gateway confirmed to it.
LEMMA RegistrationKept ==
  ASSUME ImportInvariant, [ImportNext]_importVars
  PROVE  RegisteredIsProvisioned' /\ CompletedIsRegistered'
<1>0. /\ ImportTypeOK /\ RunsHoldJobs
      /\ RegisteredIsProvisioned /\ CompletedIsRegistered
  BY DEF ImportInvariant
<1>1. /\ DOMAIN provision \subseteq DOMAIN provision'
      /\ \A d \in DOMAIN provision : provision'[d] = provision[d]
  BY GatewayKept
<1>2. \A d \in DOMAIN meta :
        /\ d \in DOMAIN meta'
        /\ meta'[d].vendor = meta[d].vendor /\ meta'[d].site = meta[d].site
  BY EntriesKept
<1>3. ASSUME NEW i \in Imports, CompleteRun(i)
      PROVE  RegisteredIsProvisioned' /\ CompletedIsRegistered'
  <2>1. i \in DOMAIN job
    BY <1>0, <1>3 DEF CompleteRun, RunsHoldJobs
  <2>2. \A d \in DOMAIN List(i) : d \in DOMAIN provision /\ provision[d] = List(i)[d]
    BY <1>0, <1>3 DEF CompleteRun, RunsHoldJobs
  <2>3. /\ DOMAIN meta' = DOMAIN meta \cup DOMAIN List(i)
        /\ \A d \in DOMAIN List(i) : d \notin DOMAIN meta =>
             meta'[d].vendor = List(i)[d].vendor /\ meta'[d].site = List(i)[d].site
        /\ \A d \in DOMAIN List(i) \cap DOMAIN meta :
             meta[d].vendor = List(i)[d].vendor /\ meta[d].site = List(i)[d].site
    BY <1>3 DEF CompleteRun, Registrable, Inserted, Entries
  <2>4. \A d \in DOMAIN List(i) :
          meta'[d].vendor = List(i)[d].vendor /\ meta'[d].site = List(i)[d].site
    BY <1>2, <2>3
  <2>5. /\ DOMAIN job' = DOMAIN job /\ job'[i].list = job[i].list
        /\ \A j \in DOMAIN job : j # i => job'[j] = job[j]
    BY <1>0, <1>3, <2>1 DEF CompleteRun, Ended, ImportTypeOK
  <2>6. RegisteredIsProvisioned'
    <3>1. ASSUME NEW d \in DOMAIN meta', meta'[d].vendor # NoVendor
          PROVE  /\ d \in DOMAIN provision'
                 /\ provision'[d].vendor = meta'[d].vendor
                 /\ provision'[d].site = meta'[d].site
      <4>1. CASE d \in DOMAIN List(i)
        BY <4>1, <1>1, <2>2, <2>4
      <4>2. CASE d \notin DOMAIN List(i)
        BY <4>2, <3>1, <1>0, <1>1, <1>2, <2>3 DEF RegisteredIsProvisioned
      <4> QED
        BY <4>1, <4>2
    <3> QED
      BY <3>1 DEF RegisteredIsProvisioned
  <2>7. CompletedIsRegistered'
    <3>1. ASSUME NEW j \in DOMAIN job', job'[j].status = "completed", NEW d \in DOMAIN job'[j].list
          PROVE  /\ d \in DOMAIN meta'
                 /\ meta'[d].vendor = job'[j].list[d].vendor
                 /\ meta'[d].site = job'[j].list[d].site
                 /\ d \in DOMAIN provision' /\ provision'[d] = job'[j].list[d]
      <4>1. CASE j = i
        BY <4>1, <3>1, <1>1, <2>1, <2>2, <2>3, <2>4, <2>5 DEF List
      <4>2. CASE j # i
        BY <4>2, <3>1, <1>0, <1>1, <1>2, <2>5 DEF CompletedIsRegistered, List
      <4> QED
        BY <4>1, <4>2
    <3> QED
      BY <3>1 DEF CompletedIsRegistered, List
  <2> QED
    BY <2>6, <2>7
<1>4. ASSUME DOMAIN meta' = DOMAIN meta
      PROVE  RegisteredIsProvisioned'
  BY <1>0, <1>1, <1>2, <1>4 DEF RegisteredIsProvisioned
<1>5. ASSUME \A j \in DOMAIN job' : job'[j].status = "completed" =>
               j \in DOMAIN job /\ job'[j] = job[j]
      PROVE  CompletedIsRegistered'
  BY <1>0, <1>1, <1>2, <1>5 DEF CompletedIsRegistered, List
<1>6. ASSUME NEW i \in Imports, NEW list \in Lists, Create(i, list)
      PROVE  RegisteredIsProvisioned' /\ CompletedIsRegistered'
  <2>1. \A j \in DOMAIN job' : job'[j].status = "completed" =>
          j \in DOMAIN job /\ job'[j] = job[j]
    BY <1>6 DEF Create, Inserted
  <2>2. UNCHANGED meta
    BY <1>6 DEF Create
  <2> QED
    BY <1>4, <1>5, <2>1, <2>2
<1>7. ASSUME NEW i \in Imports, FailRun(i)
      PROVE  RegisteredIsProvisioned' /\ CompletedIsRegistered'
  <2>1. job' = Ended(i, "failed") /\ UNCHANGED meta
    BY <1>7 DEF FailRun
  <2>2. \A j \in DOMAIN job' : job'[j].status = "completed" =>
          j \in DOMAIN job /\ job'[j] = job[j]
    BY <1>0, <2>1 DEF Ended, ImportTypeOK
  <2> QED
    BY <1>4, <1>5, <2>1, <2>2
<1>8. CASE UNCHANGED job /\ DOMAIN meta' = DOMAIN meta
  BY <1>4, <1>5, <1>8
<1>9. ASSUME NEW d \in Units, SetUnit(d)
      PROVE  UNCHANGED job /\ DOMAIN meta' = DOMAIN meta
  BY <1>0, <1>9 DEF SetUnit
<1> QED
  BY <1>3, <1>6, <1>7, <1>8, <1>9
     DEF ImportNext, importVars, Call, Provision, ProvisionLate, GiveUp, CrashRun, ConflictRun,
         ProvisionDirect, SetVendor, SetSite
-----------------------------------------------------------------------------
LEMMA ImportStarts == ImportInit => ImportInvariant
<1> SUFFICES ASSUME ImportInit PROVE ImportInvariant
  OBVIOUS
<1>1. PICK s \in Sites :
        meta = [d \in Seeded |-> [vendor |-> NoVendor, site |-> s, on |-> TRUE]]
  BY DEF ImportInit
<1>2. meta \in [DOMAIN meta -> Entry] /\ DOMAIN meta \subseteq Units
  BY <1>1, ImportConstants DEF Entry
<1>3. \A i \in Imports : run[i] = "idle" /\ late[i] = 0
  BY DEF ImportInit
<1>4. /\ DOMAIN identity = {} /\ DOMAIN job = {} /\ DOMAIN provision = {}
      /\ identity \in [DOMAIN identity -> Params] /\ job \in [DOMAIN job -> ImportJob]
      /\ provision \in [DOMAIN provision -> Params]
  BY DEF ImportInit
<1>5. ImportTypeOK
  <2>1. run \in [Imports -> {"idle", "calling", "accepted", "failed"}]
    BY DEF ImportInit
  <2>2. 0 \in 0..MaxLate
    BY ImportConstants
  <2>3. late \in [Imports -> 0..MaxLate]
    BY <2>2 DEF ImportInit
  <2> QED
    BY <1>2, <1>4, <2>1, <2>3 DEF ImportInit, ImportTypeOK
<1>6. RegisteredIsProvisioned
  BY <1>1 DEF RegisteredIsProvisioned
<1> QED
  BY <1>3, <1>4, <1>5, <1>6
     DEF ImportInvariant, JobsArePinned, RunsHoldJobs, CompletedIsRegistered

LEMMA ImportSteps == ImportInvariant /\ [ImportNext]_importVars => ImportInvariant'
<1> SUFFICES ASSUME ImportInvariant, [ImportNext]_importVars PROVE ImportInvariant'
  OBVIOUS
<1>1. ImportTypeOK'
  BY TypesKept
<1>2. JobsArePinned'
  BY PinsKept
<1>3. RunsHoldJobs'
  BY RunsKept
<1>4. RegisteredIsProvisioned' /\ CompletedIsRegistered'
  BY RegistrationKept
<1> QED
  BY <1>1, <1>2, <1>3, <1>4 DEF ImportInvariant

\* The inductive invariant of an import across the two databases (runImport,
\* createImport and provision).
THEOREM ImportInvariance == ImportSpec => []ImportInvariant
BY ImportStarts, ImportSteps, PTL DEF ImportSpec

\* Every device the back office registered by an import is one the gateway knows
\* under the same vendor and station, for every number of devices, lists, runs,
\* abandoned calls and crashes.
THEOREM RegisteredAreProvisioned == ImportSpec => []RegisteredIsProvisioned
BY ImportInvariance, PTL DEF ImportInvariant

\* A completed import has registered its whole list, with the parameters the gateway
\* holds.
THEOREM CompletedAreRegistered == ImportSpec => []CompletedIsRegistered
BY ImportInvariance, PTL DEF ImportInvariant

\* Any two jobs agree about every device they both list.
THEOREM JobsAlwaysAgree == ImportSpec => []JobsAgree
<1>1. ImportInvariant => JobsAgree
  BY DEF ImportInvariant, JobsArePinned, JobsAgree, Agrees
<1> QED
  BY <1>1, ImportInvariance, PTL

\* The three together, as the run checks them.
THEOREM ImportsAlwaysHold == ImportSpec => []ImportsHold
BY RegisteredAreProvisioned, CompletedAreRegistered, JobsAlwaysAgree, PTL DEF ImportsHold

\* No import moves a registered device or puts it back into operation.
THEOREM SettingsAlwaysStand == ImportSpec => SettingsStand
<1>1. ImportInvariant /\ [ImportNext]_importVars =>
        [\A d \in DOMAIN meta :
           /\ d \in DOMAIN meta'
           /\ meta'[d] = meta[d] \/ SetUnit(d)]_importVars
  BY EntriesKept
<1> QED
  BY <1>1, ImportInvariance, PTL DEF ImportSpec, SettingsStand

-----------------------------------------------------------------------------
(***************************************************************************)
(* Cases.  A report is closed only by who fixed it, because giving it on   *)
(* always shows in its history: the last event names who has it.           *)
(***************************************************************************)
Statuses == {"none", "open", "dispatched", "fixed", "closed"}
FaultSteps == {"reported", "dispatched", "reassigned", "fixed", "closed"}
Accounts == Staff \cup {Nobody}
Rating == [order : Orders \cup {"none"}, status : {"pending", "processed", "closed"}]
FaultRow == [status : Statuses, to : Accounts]
FaultEvent == [type : FaultSteps, by : Accounts, from : Statuses, to : Accounts]

CaseTypeOK ==
  /\ may \subseteq Staff
  /\ fault \in [Faults -> FaultRow]
  /\ history \in [Faults -> Seq(FaultEvent)]
  /\ dispatch = NoDispatch \/ dispatch \in [report : Faults, to : Staff]
  /\ asking \in [Customers -> Orders \cup {"none"}]
  /\ feedback \in Seq(Rating)

LastEvent(f) == history[f][Len(history[f])]

\* What the history of a report says of the row.
HistoryIsTrue ==
  \A f \in Faults :
    /\ fault[f].status = "none" => fault[f].to = Nobody
    /\ fault[f].status # "none" => Len(history[f]) >= 1 /\ LastEvent(f).to = fault[f].to
    /\ fault[f].status = "fixed" =>
         /\ Len(history[f]) >= 2 /\ LastEvent(f).type = "fixed"
         /\ LastEvent(f).by = fault[f].to
         /\ history[f][Len(history[f]) - 1].to = fault[f].to

\* An order that is held has no feedback, and one call holds it.
HeldOnce ==
  \A c \in Customers : asking[c] # "none" =>
    /\ ~Known(asking[c])
    /\ \A d \in Customers : asking[d] = asking[c] => d = c

CaseInvariant == CaseTypeOK /\ HistoryIsTrue /\ HeldOnce /\ CasesAreKept

\* At the start no report and no feedback exists, and the invariant holds.
LEMMA CaseStarts == CaseInit => CaseInvariant
BY DEF CaseInit, CaseInvariant, CaseTypeOK, FaultRow, FaultEvent, Statuses, Accounts, HistoryIsTrue, HeldOnce,
       CasesAreKept, FixerCloses, OneFeedbackPerOrder, Known, Nobody

\* An event at the end of a trail leaves the events before it in their
\* places.
LEMMA TrailGrows ==
  ASSUME NEW T, NEW h \in Seq(T), NEW e \in T
  PROVE  /\ Append(h, e) \in Seq(T) /\ Len(Append(h, e)) = Len(h) + 1
         /\ Append(h, e)[Len(h) + 1] = e
         /\ \A i \in 1..Len(h) : Append(h, e)[i] = h[i]
OBVIOUS

\* An event leaves the trails of the other reports alone.
LEMMA EventAppends ==
  ASSUME CaseTypeOK, NEW f \in Faults, NEW type \in FaultSteps,
         NEW by \in Accounts, NEW to \in Accounts,
         Event(f, type, by, to)
  PROVE  /\ history' \in [Faults -> Seq(FaultEvent)]
         /\ Len(history'[f]) = Len(history[f]) + 1 /\ Len(history[f]) \in Nat
         /\ history'[f][Len(history[f]) + 1].type = type
         /\ history'[f][Len(history[f]) + 1].by = by
         /\ history'[f][Len(history[f]) + 1].to = to
         /\ \A i \in 1..Len(history[f]) : history'[f][i] = history[f][i]
         /\ \A g \in Faults \ {f} : history'[g] = history[g]
<1> DEFINE e == [type |-> type, by |-> by, from |-> fault[f].status, to |-> to]
<1>1. history[f] \in Seq(FaultEvent) /\ e \in FaultEvent
  BY DEF CaseTypeOK, FaultEvent, FaultRow
<1>2. history' = [history EXCEPT ![f] = Append(history[f], e)]
  BY DEF Event
<1>3. history'[f] = Append(history[f], e) /\ \A g \in Faults \ {f} : history'[g] = history[g]
  BY <1>2 DEF CaseTypeOK
<1>4. e.type = type /\ e.by = by /\ e.to = to
  OBVIOUS
<1> HIDE DEF e
<1>5. /\ Append(history[f], e) \in Seq(FaultEvent) /\ Len(Append(history[f], e)) = Len(history[f]) + 1
      /\ Append(history[f], e)[Len(history[f]) + 1] = e
      /\ \A i \in 1..Len(history[f]) : Append(history[f], e)[i] = history[f][i]
  BY <1>1, TrailGrows
<1>6. history' \in [Faults -> Seq(FaultEvent)]
  BY <1>2, <1>5 DEF CaseTypeOK
<1> QED
  BY <1>1, <1>3, <1>4, <1>5, <1>6

\* What the conjuncts about reports need of a step.
LEMMA ReportsUnchanged ==
  ASSUME UNCHANGED <<fault, history>>
  PROVE  (HistoryIsTrue => HistoryIsTrue') /\ (FixerCloses => FixerCloses')
BY DEF HistoryIsTrue, LastEvent, FixerCloses, Steps

\* What the conjuncts about feedback need of a step.
LEMMA FeedbackUnchanged ==
  ASSUME UNCHANGED <<asking, feedback>>
  PROVE  (HeldOnce => HeldOnce') /\ (OneFeedbackPerOrder => OneFeedbackPerOrder')
BY DEF HeldOnce, Known, OneFeedbackPerOrder

\* A step about one report leaves what the histories say of the others.
LEMMA OtherReports ==
  ASSUME CaseTypeOK, HistoryIsTrue, FixerCloses, NEW f \in Faults,
         \A g \in Faults \ {f} : fault'[g] = fault[g] /\ history'[g] = history[g],
         fault'[f].status # "none",
         Len(history'[f]) >= 1, history'[f][Len(history'[f])].to = fault'[f].to,
         fault'[f].status = "fixed" =>
           /\ Len(history'[f]) >= 2 /\ history'[f][Len(history'[f])].type = "fixed"
           /\ history'[f][Len(history'[f])].by = fault'[f].to
           /\ history'[f][Len(history'[f]) - 1].to = fault'[f].to,
         fault'[f].status = "closed" =>
           \E i \in DOMAIN history'[f], j \in DOMAIN history'[f] :
             /\ history'[f][i].type = "fixed" /\ history'[f][j].type = "closed"
             /\ j = i + 1 /\ history'[f][i].by = history'[f][j].by
             /\ history'[f][i - 1].to = history'[f][i].by
  PROVE  HistoryIsTrue' /\ FixerCloses'
<1>1. HistoryIsTrue'
  BY DEF HistoryIsTrue, LastEvent
<1>2. FixerCloses'
  <2>1. ASSUME NEW g \in Faults, g # f, fault'[g].status = "closed"
        PROVE  \E i \in Steps(g, "fixed")', j \in Steps(g, "closed")' :
                 /\ j = i + 1 /\ history'[g][i].by = history'[g][j].by
                 /\ history'[g][i - 1].to = history'[g][i].by
    BY <2>1 DEF FixerCloses, Steps
  <2>2. ASSUME fault'[f].status = "closed"
        PROVE  \E i \in Steps(f, "fixed")', j \in Steps(f, "closed")' :
                 /\ j = i + 1 /\ history'[f][i].by = history'[f][j].by
                 /\ history'[f][i - 1].to = history'[f][i].by
    BY <2>2 DEF Steps
  <2> QED
    BY <2>1, <2>2 DEF FixerCloses
<1> QED
  BY <1>1, <1>2

\* ReportFault keeps the invariant: the first event of a trail names nobody.
LEMMA ReportKept ==
  ASSUME CaseInvariant, NEW f \in Faults, ReportFault(f)
  PROVE  CaseInvariant'
<1>1. CaseTypeOK /\ HistoryIsTrue /\ HeldOnce /\ FixerCloses /\ OneFeedbackPerOrder
  BY DEF CaseInvariant, CasesAreKept
<1>2. Event(f, "reported", Nobody, Nobody)
  BY DEF ReportFault
<1>3. /\ history' \in [Faults -> Seq(FaultEvent)] /\ Len(history[f]) \in Nat
      /\ Len(history'[f]) = Len(history[f]) + 1
      /\ history'[f][Len(history[f]) + 1].to = Nobody
      /\ \A g \in Faults \ {f} : history'[g] = history[g]
  <2>1. "reported" \in FaultSteps /\ Nobody \in Accounts
    BY DEF FaultSteps, Accounts
  <2> QED
    BY <1>1, <1>2, <2>1, EventAppends
<1>4. /\ fault' \in [Faults -> FaultRow] /\ fault'[f].status = "open"
      /\ fault'[f].to = fault[f].to
      /\ \A g \in Faults \ {f} : fault'[g] = fault[g]
  BY <1>1 DEF ReportFault, CaseTypeOK, FaultRow, Statuses
<1>5. HistoryIsTrue' /\ FixerCloses'
  <2>1. fault'[f].to = Nobody
    BY <1>1, <1>4 DEF HistoryIsTrue, ReportFault
  <2>2. fault'[f].status \notin {"none", "fixed", "closed"}
    BY <1>4
  <2> QED
    BY <1>1, <1>3, <1>4, <2>1, <2>2, OtherReports
<1>6. HeldOnce' /\ OneFeedbackPerOrder'
  BY <1>1, FeedbackUnchanged DEF ReportFault, feedbackVars
<1> QED
  BY <1>1, <1>3, <1>4, <1>5, <1>6 DEF ReportFault, feedbackVars, CaseInvariant, CaseTypeOK, CasesAreKept

\* Giving a report on makes the new owner the last one the history names.
LEMMA DispatchKept ==
  ASSUME CaseInvariant, DispatchFault
  PROVE  CaseInvariant'
<1>1. CaseTypeOK /\ HistoryIsTrue /\ HeldOnce /\ FixerCloses /\ OneFeedbackPerOrder
  BY DEF CaseInvariant, CasesAreKept
<1>2. HeldOnce' /\ OneFeedbackPerOrder'
  BY <1>1, FeedbackUnchanged DEF DispatchFault, feedbackVars
<1>3. dispatch' = NoDispatch /\ may' \subseteq Staff
      /\ asking' \in [Customers -> Orders \cup {"none"}]
      /\ feedback' \in Seq(Rating)
  BY <1>1 DEF DispatchFault, feedbackVars, CaseTypeOK
<1>4. CASE UNCHANGED <<fault, history>>
  BY <1>1, <1>2, <1>3, <1>4, ReportsUnchanged DEF CaseInvariant, CaseTypeOK, CasesAreKept
<1>5. CASE ~UNCHANGED <<fault, history>>
  <2>1. PICK f \in Faults, to \in Staff :
          /\ fault' = [fault EXCEPT ![f] = [status |-> "dispatched", to |-> to]]
          /\ \E type \in FaultSteps : Event(f, type, Nobody, to)
    BY <1>1, <1>5 DEF DispatchFault, CaseTypeOK, FaultSteps
  <2>2. /\ history' \in [Faults -> Seq(FaultEvent)] /\ Len(history[f]) \in Nat
        /\ Len(history'[f]) = Len(history[f]) + 1
        /\ history'[f][Len(history[f]) + 1].to = to
        /\ \A g \in Faults \ {f} : history'[g] = history[g]
    BY <1>1, <2>1, EventAppends DEF Accounts
  <2>3. /\ fault' \in [Faults -> FaultRow] /\ fault'[f].status = "dispatched"
        /\ fault'[f].to = to
        /\ \A g \in Faults \ {f} : fault'[g] = fault[g]
    BY <1>1, <2>1 DEF CaseTypeOK, FaultRow, Statuses, Accounts
  <2>4. HistoryIsTrue' /\ FixerCloses'
    BY <1>1, <2>2, <2>3, OtherReports
  <2> QED
    BY <1>1, <1>2, <1>3, <2>2, <2>3, <2>4 DEF CaseInvariant, CaseTypeOK, CasesAreKept
<1> QED
  BY <1>4, <1>5

\* The account a report belongs to fixes it, and closes it after that.
LEMMA ResolveKept ==
  ASSUME CaseInvariant, NEW f \in Faults, NEW s \in Staff, ResolveFault(f, s)
  PROVE  CaseInvariant'
<1>1. CaseTypeOK /\ HistoryIsTrue /\ HeldOnce /\ FixerCloses /\ OneFeedbackPerOrder
  BY DEF CaseInvariant, CasesAreKept
<1>2. HeldOnce' /\ OneFeedbackPerOrder'
  BY <1>1, FeedbackUnchanged DEF ResolveFault, feedbackVars
<1>3. /\ fault' \in [Faults -> FaultRow] /\ fault[f].to = s /\ fault'[f].to = s
      /\ \/ fault[f].status = "dispatched" /\ fault'[f].status = "fixed"
         \/ fault[f].status = "fixed" /\ fault'[f].status = "closed"
      /\ \A g \in Faults \ {f} : fault'[g] = fault[g]
  <2>1. PICK status \in {"fixed", "closed"} :
          /\ fault' = [fault EXCEPT ![f].status = status]
          /\ fault[f].status = IF status = "fixed" THEN "dispatched" ELSE "fixed"
    BY DEF ResolveFault
  <2>2. fault[f].to = s /\ fault[f] \in FaultRow
    BY <1>1 DEF ResolveFault, MayResolve, CaseTypeOK
  <2>3. fault'[f].status = status /\ fault'[f].to = s
    BY <1>1, <2>1, <2>2 DEF CaseTypeOK, FaultRow
  <2>4. fault' \in [Faults -> FaultRow] /\ \A g \in Faults \ {f} : fault'[g] = fault[g]
    BY <1>1, <2>1, <2>2 DEF CaseTypeOK, FaultRow, Statuses
  <2> QED
    BY <2>1, <2>2, <2>3, <2>4
<1>4. /\ history' \in [Faults -> Seq(FaultEvent)] /\ Len(history[f]) \in Nat
      /\ Len(history'[f]) = Len(history[f]) + 1
      /\ history'[f][Len(history[f]) + 1].to = s
      /\ history'[f][Len(history[f]) + 1].by = s
      /\ history'[f][Len(history[f]) + 1].type = fault'[f].status
      /\ \A i \in 1..Len(history[f]) : history'[f][i] = history[f][i]
      /\ \A g \in Faults \ {f} : history'[g] = history[g]
  <2>1. fault'[f].status \in FaultSteps /\ Event(f, fault'[f].status, s, s)
    BY <1>3 DEF ResolveFault, FaultSteps
  <2> QED
    BY <1>1, <2>1, EventAppends DEF Accounts
<1>5. HistoryIsTrue' /\ FixerCloses'
  <2>1. Len(history[f]) >= 1 /\ history[f][Len(history[f])].to = s
    BY <1>1, <1>3 DEF HistoryIsTrue, LastEvent
  <2>2. history'[f][Len(history[f])].to = s
    BY <1>4, <2>1
  <2>3. CASE fault'[f].status = "fixed"
    BY <1>1, <1>3, <1>4, <2>1, <2>2, <2>3, OtherReports
  <2>4. CASE fault'[f].status = "closed"
    <3> DEFINE n == Len(history[f])
    <3>1. /\ n >= 2 /\ history[f][n].type = "fixed" /\ history[f][n].by = s
          /\ history[f][n - 1].to = s
      BY <1>1, <1>3, <2>4 DEF HistoryIsTrue, LastEvent
    <3>2. /\ history'[f][n].type = "fixed" /\ history'[f][n].by = s
          /\ history'[f][n - 1].to = s
      <4>1. n \in 1..n /\ n - 1 \in 1..n
        BY <1>4, <3>1
      <4> QED
        BY <1>4, <3>1, <4>1
    <3>3. n \in DOMAIN history'[f] /\ n + 1 \in DOMAIN history'[f]
      BY <1>4, <3>1
    <3>4. \E i \in DOMAIN history'[f], j \in DOMAIN history'[f] :
             /\ history'[f][i].type = "fixed" /\ history'[f][j].type = "closed"
             /\ j = i + 1 /\ history'[f][i].by = history'[f][j].by
             /\ history'[f][i - 1].to = history'[f][i].by
      BY <1>4, <2>4, <3>2, <3>3
    <3> HIDE DEF n
    <3> QED
      <4>1. /\ Len(history'[f]) >= 1 /\ history'[f][Len(history'[f])].to = fault'[f].to
            /\ fault'[f].status # "none" /\ fault'[f].status # "fixed"
        BY <1>3, <1>4, <2>4
      <4> QED
        BY <1>1, <1>3, <1>4, <3>4, <4>1, OtherReports
  <2> QED
    BY <1>3, <2>3, <2>4
<1> QED
  BY <1>1, <1>2, <1>3, <1>4, <1>5
     DEF ResolveFault, feedbackVars, CaseInvariant, CaseTypeOK, CasesAreKept

\* A call that holds an order is the only one, so it stores the only feedback.
LEMMA FeedbackKept ==
  ASSUME CaseInvariant, NEW c \in Customers,
         (\E o \in Orders : SubmitFeedback(c, o)) \/ StoreFeedback(c)
  PROVE  CaseInvariant'
<1>1. CaseTypeOK /\ HistoryIsTrue /\ HeldOnce /\ FixerCloses /\ OneFeedbackPerOrder
  BY DEF CaseInvariant, CasesAreKept
<1>2. HistoryIsTrue' /\ FixerCloses'
  BY <1>1, ReportsUnchanged DEF SubmitFeedback, StoreFeedback, faultVars
<1>3. /\ may' \subseteq Staff /\ fault' \in [Faults -> FaultRow]
      /\ history' \in [Faults -> Seq(FaultEvent)]
      /\ dispatch' = NoDispatch \/ dispatch' \in [report : Faults, to : Staff]
  BY <1>1 DEF SubmitFeedback, StoreFeedback, faultVars, CaseTypeOK
<1>4. asking' \in [Customers -> Orders \cup {"none"}]
  BY <1>1 DEF SubmitFeedback, StoreFeedback, CaseTypeOK
<1>5. ASSUME NEW o \in Orders, SubmitFeedback(c, o)
      PROVE  /\ feedback' \in Seq(Rating)
             /\ HeldOnce' /\ OneFeedbackPerOrder'
  <2>1. feedback' \in Seq(Rating)
        /\ OneFeedbackPerOrder'
    BY <1>1, <1>5 DEF SubmitFeedback, CaseTypeOK, OneFeedbackPerOrder
  <2>2. /\ asking' = [asking EXCEPT ![c] = o] /\ ~Known(o)
        /\ \A d \in Customers : asking[d] # o
        /\ feedback' = feedback
    BY <1>5 DEF SubmitFeedback, Held
  <2>3. HeldOnce'
    BY <1>1, <2>2 DEF HeldOnce, Known, CaseTypeOK
  <2> QED
    BY <2>1, <2>3
<1>6. ASSUME StoreFeedback(c)
      PROVE  /\ feedback' \in Seq(Rating)
             /\ HeldOnce' /\ OneFeedbackPerOrder'
  <2> DEFINE row == [order |-> asking[c], status |-> "pending"]
  <2>1. row \in Rating /\ row.order = asking[c]
    BY <1>1 DEF CaseTypeOK, Rating
  <2>2. feedback' = Append(feedback, row) \/ feedback' = feedback
    BY <1>6 DEF StoreFeedback
  <2>3. asking' = [asking EXCEPT ![c] = "none"] /\ asking[c] # "none"
    BY <1>6 DEF StoreFeedback
  <2> HIDE DEF row
  <2>4. CASE feedback' = Append(feedback, row)
    <3>1. /\ feedback' \in Seq(Rating)
          /\ Len(feedback') = Len(feedback) + 1 /\ feedback'[Len(feedback) + 1] = row
          /\ \A i \in 1..Len(feedback) : feedback'[i] = feedback[i]
      BY <1>1, <2>1, <2>4, TrailGrows DEF CaseTypeOK
    <3>2. Len(feedback) \in Nat /\ DOMAIN feedback = 1..Len(feedback)
          /\ DOMAIN feedback' = 1..(Len(feedback) + 1)
      BY <1>1, <3>1 DEF CaseTypeOK
    <3>3. \A i \in DOMAIN feedback : feedback[i].order # asking[c]
      BY <1>1, <2>3 DEF HeldOnce, Known
    <3>4. OneFeedbackPerOrder'
      BY <1>1, <2>1, <3>1, <3>2, <3>3 DEF OneFeedbackPerOrder
    <3>5. ASSUME NEW d \in Customers, asking'[d] # "none"
          PROVE  ~Known(asking[d])' /\ asking'[d] = asking[d] /\ d # c
      <4>1. asking'[d] = asking[d] /\ d # c /\ asking[d] # asking[c] /\ ~Known(asking[d])
        BY <1>1, <2>3, <3>5 DEF HeldOnce, CaseTypeOK
      <4>2. \A i \in DOMAIN feedback' : feedback'[i].order # asking[d]
        BY <2>1, <3>1, <3>2, <4>1 DEF Known
      <4> QED
        BY <4>1, <4>2 DEF Known
    <3>6. HeldOnce'
      BY <1>1, <2>3, <3>5 DEF HeldOnce, CaseTypeOK
    <3> QED
      BY <3>1, <3>4, <3>6
  <2>5. CASE feedback' = feedback
    BY <1>1, <2>3, <2>5 DEF HeldOnce, Known, OneFeedbackPerOrder, CaseTypeOK
  <2> QED
    BY <2>2, <2>4, <2>5
<1> QED
  BY <1>2, <1>3, <1>4, <1>5, <1>6 DEF CaseInvariant, CaseTypeOK, CasesAreKept

\* A reply and a close change the status of one row, never its order.
LEMMA AnswerKept ==
  ASSUME CaseInvariant, NEW i \in DOMAIN feedback, ReplyFeedback(i) \/ CloseFeedback(i)
  PROVE  CaseInvariant'
<1>1. CaseTypeOK /\ HistoryIsTrue /\ HeldOnce /\ FixerCloses /\ OneFeedbackPerOrder
  BY DEF CaseInvariant, CasesAreKept
<1>2. HistoryIsTrue' /\ FixerCloses'
  BY <1>1, ReportsUnchanged DEF ReplyFeedback, CloseFeedback, faultVars
<1>3. PICK status \in {"processed", "closed"} : feedback' = [feedback EXCEPT ![i].status = status]
  BY DEF ReplyFeedback, CloseFeedback
<1>4. /\ DOMAIN feedback' = DOMAIN feedback
      /\ \A j \in DOMAIN feedback : feedback'[j].order = feedback[j].order
      /\ feedback' \in Seq(Rating)
  <2>1. feedback[i] \in Rating
    BY <1>1 DEF CaseTypeOK
  <2>2. PICK row \in Rating : row.order = feedback[i].order /\ feedback' = [feedback EXCEPT ![i] = row]
    BY <1>3, <2>1 DEF Rating
  <2> QED
    BY <1>1, <2>2 DEF CaseTypeOK
<1>5. asking' = asking /\ UNCHANGED <<may, fault, history, dispatch>>
  BY DEF ReplyFeedback, CloseFeedback, faultVars
<1>6. HeldOnce' /\ OneFeedbackPerOrder'
  BY <1>1, <1>4, <1>5 DEF HeldOnce, Known, OneFeedbackPerOrder
<1> QED
  BY <1>1, <1>2, <1>4, <1>5, <1>6 DEF CaseInvariant, CaseTypeOK, CasesAreKept

\* Every step on cases keeps the invariant.
LEMMA CasesKept ==
  ASSUME CaseInvariant, [CaseNext]_caseVars
  PROVE  CaseInvariant'
<1>1. CaseTypeOK /\ HistoryIsTrue /\ HeldOnce /\ FixerCloses /\ OneFeedbackPerOrder
  BY DEF CaseInvariant, CasesAreKept
<1>2. CASE UNCHANGED caseVars
  BY <1>1, <1>2, ReportsUnchanged, FeedbackUnchanged
     DEF caseVars, CaseInvariant, CaseTypeOK, CasesAreKept
<1>3. CASE (\E s \in Staff : Permission(s)) \/ (\E o \in Orders : OrderEnds(o))
           \/ \E f \in Faults, s \in Staff : LookUp(f, s)
  <2>1. UNCHANGED <<fault, history, asking, feedback>>
    BY <1>3 DEF Permission, OrderEnds, LookUp, faultVars, feedbackVars
  <2>2. CaseTypeOK'
    BY <1>1, <1>3, <2>1 DEF CaseTypeOK, Permission, OrderEnds, LookUp, faultVars, feedbackVars
  <2> QED
    BY <1>1, <2>1, <2>2, ReportsUnchanged, FeedbackUnchanged DEF CaseInvariant, CasesAreKept
<1> QED
  BY <1>2, <1>3, ReportKept, DispatchKept, ResolveKept, FeedbackKept, AnswerKept DEF CaseNext

\* The invariant holds in every behaviour of the cases.
THEOREM CaseInvariance == CaseSpec => []CaseInvariant
<1>1. CaseInvariant /\ [CaseNext]_caseVars => CaseInvariant'
  BY CasesKept
<1> QED
  BY CaseStarts, <1>1, PTL DEF CaseSpec

(* Who closed a report had fixed it, and an order is rated once            *)
(* (casework.go:215-217, feedback.go:22-23).                               *)
THEOREM CasesAlwaysKept == CaseSpec => []CasesAreKept
<1>1. CaseInvariant => CasesAreKept
  BY DEF CaseInvariant
<1> QED
  BY CaseInvariance, <1>1, PTL

-----------------------------------------------------------------------------
(***************************************************************************)
(* Exports.  A build has its file only once it says so, the loop removes   *)
(* what it has listed before it marks it, and a task it is at has ended,   *)
(* so that no build brings the file back.                                  *)
(***************************************************************************)
ExportTypeOK ==
  /\ task \in [Tasks -> {"none", "pending", "completed", "failed", "expired"}]
  /\ path \subseteq Tasks /\ lapsed \subseteq Tasks
  /\ build \in [Tasks -> {"idle", "fetch", "write", "complete"}]
  /\ partial \subseteq Tasks /\ file \subseteq Tasks
  /\ sweep \in [todo : SUBSET Tasks, at : Tasks \cup {"idle", "remove"}]

\* Where the file of a task is while it is built, and before.
BuildsAreTrue ==
  \A t \in Tasks :
    /\ build[t] # "idle" => task[t] = "pending"
    /\ build[t] = "complete" => t \in file
    /\ build[t] \in {"fetch", "write"} \/ task[t] = "none" => t \notin file

\* A row has a path from the word that it is completed.
PathsAreTrue ==
  \A t \in Tasks :
    /\ task[t] = "completed" => t \in path
    /\ t \in path => task[t] \in {"completed", "expired"}

\* What the loop has listed, and what it knows of the task it is at.
SweepIsTrue ==
  /\ \A t \in sweep.todo : t \in lapsed /\ Expirable(t) /\ t # sweep.at
  /\ sweep.at \in Tasks => sweep.at \in lapsed /\ sweep.at \notin file /\ Expirable(sweep.at)

ExportInvariant ==
  ExportTypeOK /\ BuildsAreTrue /\ PathsAreTrue /\ SweepIsTrue /\ ExpiredLeavesNoFile

\* At the start there is no task and no file, and the invariant holds.
LEMMA ExportStarts == ExportInit => ExportInvariant
BY ExportConstants DEF ExportInit, ExportInvariant, ExportTypeOK, BuildsAreTrue, PathsAreTrue,
       SweepIsTrue, ExpiredLeavesNoFile, NoSweep

\* The steps of a build.
LEMMA BuildKeeps ==
  ASSUME ExportInvariant, NEW t \in Tasks,
         CreateTask(t) \/ Fetch(t) \/ Rename(t) \/ Complete(t) \/ Fail(t) \/ Stop(t)
  PROVE  ExportInvariant'
<1> USE DEF ExportInvariant, ExportTypeOK, BuildsAreTrue, PathsAreTrue, SweepIsTrue,
            ExpiredLeavesNoFile, Expirable, diskVars
<1>1. CASE CreateTask(t)
  BY <1>1 DEF CreateTask
<1>2. CASE Fetch(t)
  BY <1>2 DEF Fetch, Step
<1>3. CASE Rename(t)
  BY <1>3 DEF Rename, Step
<1>4. CASE Complete(t)
  BY <1>4 DEF Complete, Step
<1>5. CASE Fail(t)
  <2>1. CASE task' = task
    BY <1>5, <2>1 DEF Fail
  <2>2. CASE task' = [task EXCEPT ![t] = "failed"]
    BY <1>5, <2>2 DEF Fail
  <2> QED
    BY <1>5, <2>1, <2>2 DEF Fail
<1>6. CASE Stop(t)
  BY <1>6 DEF Stop
<1> QED
  BY <1>1, <1>2, <1>3, <1>4, <1>5, <1>6

\* The steps of the loop.
LEMMA SweepKeeps ==
  ASSUME ExportInvariant,
         ListExpired \/ MarkExpired \/ SweepStops \/ \E t \in Tasks : RemoveFile(t)
  PROVE  ExportInvariant'
<1> USE DEF ExportInvariant, ExportTypeOK, BuildsAreTrue, PathsAreTrue, SweepIsTrue,
            ExpiredLeavesNoFile, Expirable, diskVars
<1>1. CASE ListExpired
  BY <1>1, ExportConstants DEF ListExpired
<1>2. CASE MarkExpired
  <2>1. PICK t \in Tasks : t = sweep.at
    BY <1>2 DEF MarkExpired
  <2>2. task' = [task EXCEPT ![t] = "expired"] /\ t \in lapsed /\ t \notin file
    BY <1>2, <2>1 DEF MarkExpired
  <2>3. /\ sweep' \in [todo : SUBSET Tasks, at : Tasks \cup {"idle", "remove"}]
        /\ sweep'.todo = sweep.todo /\ sweep'.at \notin Tasks
    BY <1>2, ExportConstants DEF MarkExpired, NoSweep
  <2>4. UNCHANGED <<path, lapsed, build, diskVars>>
    BY <1>2 DEF MarkExpired
  <2> QED
    BY <2>1, <2>2, <2>3, <2>4
<1>3. CASE SweepStops
  BY <1>3, ExportConstants DEF SweepStops, NoSweep
<1>4. ASSUME NEW t \in Tasks, RemoveFile(t)
      PROVE  ExportInvariant'
  <2>1. t \in lapsed /\ Expirable(t) /\ (t \notin path => t \notin file)
    BY <1>4 DEF RemoveFile
  <2>2. file' = file \ {t}
    BY <1>4, <2>1 DEF RemoveFile
  <2> QED
    BY <1>4, <2>1, <2>2 DEF RemoveFile
<1> QED
  BY <1>1, <1>2, <1>3, <1>4

\* Every step on exports keeps the invariant.
LEMMA ExportKept ==
  ASSUME ExportInvariant, [ExportNext]_exportVars
  PROVE  ExportInvariant'
<1>1. CASE UNCHANGED <<task, path, build, diskVars, sweep>> /\ lapsed' \subseteq Tasks
           /\ lapsed \subseteq lapsed'
  BY <1>1 DEF ExportInvariant, ExportTypeOK, BuildsAreTrue, PathsAreTrue, SweepIsTrue,
              ExpiredLeavesNoFile, Expirable, diskVars
<1>2. CASE \E t \in Tasks : Lapse(t) \/ \E a \in Admins : Download(a, t) \/ Send(a, t)
  BY <1>1, <1>2 DEF ExportInvariant, ExportTypeOK, Lapse, Download, Send
<1>3. CASE \E a \in Admins : Withdraw(a)
  BY <1>1, <1>3 DEF ExportInvariant, ExportTypeOK, Withdraw
<1>4. CASE UNCHANGED exportVars
  BY <1>1, <1>4 DEF ExportInvariant, ExportTypeOK, exportVars
<1> QED
  BY <1>2, <1>3, <1>4, BuildKeeps, SweepKeeps DEF ExportNext

\* The invariant holds in every behaviour of the exports.
THEOREM ExportInvariance == ExportSpec => []ExportInvariant
<1>1. ExportInvariant /\ [ExportNext]_exportVars => ExportInvariant'
  BY ExportKept
<1> QED
  BY ExportStarts, <1>1, PTL DEF ExportSpec

(* Nothing is left of a task that has expired or failed (exports.go:65-92, *)
(* 346-347).                                                               *)
THEOREM ExpiredNeverLeavesFile == ExportSpec => []ExpiredLeavesNoFile
<1>1. ExportInvariant => ExpiredLeavesNoFile
  BY DEF ExportInvariant
<1> QED
  BY ExportInvariance, <1>1, PTL

-----------------------------------------------------------------------------
(***************************************************************************)
(* Invoices.  Every approval on its way was posted with the right to, and  *)
(* a first signature that waits is one of these.                           *)
(***************************************************************************)
ReviewCall == [op : {"approve", "reject"}, request : Requests, url : Urls \union {Nothing}]

InvoiceTypeOK ==
  /\ billed \subseteq Charges /\ applying \subseteq Requests
  /\ invoice \in [Requests -> [status : {"none", "pending", "issued", "rejected"},
                               url : Urls \union {Nothing}]]
  /\ signed \in [Requests -> [status : {"none", "awaiting_second", "approved", "rejected"},
                              first : Reviewers \union {Nothing}, url : Urls \union {Nothing}]]
  /\ permitted \subseteq Reviewers
  /\ \A r \in Reviewers : reviewing[r] = NoReview \/ reviewing[r] \in ReviewCall
  /\ DOMAIN reviewing = Reviewers

\* A request is inserted once.
NotYetInserted == \A q \in applying : invoice[q].status = "none"

\* Who signs has posted the link.
SignedIsPosted ==
  /\ \A r \in Reviewers : reviewing[r].op = "approve" =>
       <<r, reviewing[r].request, reviewing[r].url>> \in posted
  /\ \A q \in Requests : signed[q].status = "awaiting_second" =>
       <<signed[q].first, q, signed[q].url>> \in posted

InvoiceInvariant == InvoiceTypeOK /\ NotYetInserted /\ SignedIsPosted

\* At the start nothing is requested or signed, and the invariant holds.
LEMMA InvoiceStarts == InvoiceInit => InvoiceInvariant
BY DEF InvoiceInit, InvoiceInvariant, InvoiceTypeOK, NotYetInserted, SignedIsPosted, NoReview, Nothing

\* What a signature or a rejection finds on the row it has locked.
LEMMA LockedFacts ==
  ASSUME InvoiceInvariant, NEW r \in Reviewers, NEW q \in Requests, NEW op \in {"approve", "reject"},
         OnLocked(r, op, q)
  PROVE  /\ reviewing[r] \in ReviewCall /\ reviewing[r].op = op /\ reviewing[r].request = q
         /\ invoice[q].status = "pending" /\ q \notin applying
         /\ reviewing' = [reviewing EXCEPT ![r] = NoReview]
         /\ op = "approve" => <<r, q, reviewing[r].url>> \in posted
BY DEF InvoiceInvariant, InvoiceTypeOK, NotYetInserted, SignedIsPosted, OnLocked, Answered, NoReview

\* Every step on invoices keeps the invariant, issues a request only by a
\* second signature, and leaves an ended request as it is.
LEMMA InvoiceKept ==
  ASSUME InvoiceInvariant, [InvoiceNext]_invoiceVars
  PROVE  /\ InvoiceInvariant'
         /\ \A q \in Requests :
              /\ invoice'[q].status = "issued" => invoice[q].status = "issued" \/ IssuedNow(q)
              /\ invoice[q].status \in {"issued", "rejected"} => invoice'[q] = invoice[q]
<1> DEFINE Moved ==
      \A q \in Requests :
        /\ invoice'[q].status = "issued" => invoice[q].status = "issued" \/ IssuedNow(q)
        /\ invoice[q].status \in {"issued", "rejected"} => invoice'[q] = invoice[q]
<1>0. InvoiceTypeOK /\ NotYetInserted /\ SignedIsPosted
  BY DEF InvoiceInvariant
<1> DEFINE Kept == InvoiceTypeOK' /\ NotYetInserted' /\ SignedIsPosted' /\ Moved
<1>1. ASSUME NEW o \in Charges, Billed(o)
      PROVE  Kept
  BY <1>0, <1>1 DEF Billed, InvoiceTypeOK, NotYetInserted, SignedIsPosted
<1>2. ASSUME NEW q \in Requests, ApplyCounts(q)
      PROVE  Kept
  <2>1. invoice[q].status = "none" /\ applying' = applying \union {q}
    BY <1>2 DEF ApplyCounts, Applied
  <2> QED
    BY <1>0, <1>2, <2>1 DEF ApplyCounts, InvoiceTypeOK, NotYetInserted, SignedIsPosted
<1>3. ASSUME NEW q \in Requests, ApplyInserts(q)
      PROVE  Kept
  BY <1>0, <1>3 DEF ApplyInserts, InvoiceTypeOK, NotYetInserted, SignedIsPosted
<1>4. ASSUME NEW q \in Requests, ApplyFails(q)
      PROVE  Kept
  BY <1>0, <1>4 DEF ApplyFails, InvoiceTypeOK, NotYetInserted, SignedIsPosted
<1>5. ASSUME NEW r \in Reviewers, Regrade(r)
      PROVE  Kept
  BY <1>0, <1>5 DEF Regrade, InvoiceTypeOK, NotYetInserted, SignedIsPosted
<1>6. ASSUME NEW r \in Reviewers, ReviewFails(r)
      PROVE  Kept
  BY <1>0, <1>6 DEF ReviewFails, Answered, NoReview, InvoiceTypeOK, NotYetInserted, SignedIsPosted
<1>7. ASSUME NEW r \in Reviewers, NEW q \in Requests, NEW op \in {"approve", "reject"},
             NEW url \in Urls \union {Nothing}, Post(r, q, op, url)
      PROVE  Kept
  <2>1. InvoiceTypeOK'
    BY <1>0, <1>7 DEF Post, InvoiceTypeOK, ReviewCall
  <2>2. posted \subseteq posted' /\ (op = "approve" => <<r, q, url>> \in posted')
    BY <1>7 DEF Post
  <2>3. SignedIsPosted'
    <3>1. ASSUME NEW s \in Reviewers, reviewing'[s].op = "approve"
          PROVE  <<s, reviewing'[s].request, reviewing'[s].url>> \in posted'
      BY <1>0, <1>7, <2>2, <3>1 DEF Post, SignedIsPosted, InvoiceTypeOK
    <3> QED
      BY <1>0, <1>7, <2>2, <3>1 DEF Post, SignedIsPosted
  <2> QED
    BY <1>0, <1>7, <2>1, <2>3 DEF Post, NotYetInserted
<1>8. ASSUME NEW r \in Reviewers, NEW q \in Requests, SignFirst(r, q)
      PROVE  Kept
  <2>1. /\ reviewing[r] \in ReviewCall /\ <<r, q, reviewing[r].url>> \in posted
        /\ reviewing' = [reviewing EXCEPT ![r] = NoReview]
    BY <1>8, LockedFacts DEF SignFirst
  <2>2. signed' = [signed EXCEPT ![q] =
            [status |-> "awaiting_second", first |-> r, url |-> reviewing[r].url]]
    BY <1>8 DEF SignFirst
  <2>3. InvoiceTypeOK'
    BY <1>0, <1>8, <2>1, <2>2 DEF SignFirst, InvoiceTypeOK, ReviewCall
  <2>4. SignedIsPosted'
    <3>1. posted' = posted
      BY <1>8 DEF SignFirst
    <3>2. \A s \in Reviewers : reviewing'[s].op = "approve" => reviewing'[s] = reviewing[s]
      BY <1>0, <2>1 DEF NoReview, InvoiceTypeOK
    <3>3. \A p \in Requests \ {q} : signed'[p] = signed[p]
      BY <1>0, <2>2 DEF InvoiceTypeOK
    <3>4. signed'[q].first = r /\ signed'[q].url = reviewing[r].url
      BY <1>0, <2>2 DEF InvoiceTypeOK
    <3> QED
      BY <1>0, <2>1, <3>1, <3>2, <3>3, <3>4 DEF SignedIsPosted
  <2> QED
    BY <1>0, <1>8, <2>3, <2>4 DEF SignFirst, NotYetInserted
<1>9. ASSUME NEW r \in Reviewers, NEW q \in Requests, SignSecond(r, q)
      PROVE  Kept
  <2>1. /\ reviewing[r] \in ReviewCall /\ <<r, q, reviewing[r].url>> \in posted
        /\ reviewing' = [reviewing EXCEPT ![r] = NoReview] /\ q \notin applying
        /\ invoice[q].status = "pending"
    BY <1>9, LockedFacts DEF SignSecond
  <2>2. /\ signed[q].first \in Reviewers /\ signed[q].first # r /\ signed[q].first \in permitted
        /\ signed[q].status = "awaiting_second" /\ signed[q].url = reviewing[r].url
    BY <1>0, <1>9 DEF SignSecond, MaySign, InvoiceTypeOK
  <2>3. /\ signed' = [signed EXCEPT ![q].status = "approved"]
        /\ invoice' = [invoice EXCEPT ![q] = [status |-> "issued", url |-> reviewing[r].url]]
        /\ UNCHANGED <<billed, applying, permitted, posted>>
    BY <1>9 DEF SignSecond
  <2>4. InvoiceTypeOK'
    BY <1>0, <2>1, <2>3 DEF InvoiceTypeOK, ReviewCall
  <2>5. SignedIsPosted'
    BY <1>0, <2>1, <2>3 DEF SignedIsPosted, NoReview, InvoiceTypeOK
  <2>6. IssuedNow(q)
    <3>1. <<signed[q].first, q, signed[q].url>> \in posted
      BY <1>0, <2>2 DEF SignedIsPosted
    <3>2. invoice'[q].url = reviewing[r].url
      BY <1>0, <2>3 DEF InvoiceTypeOK
    <3> QED
      BY <2>1, <2>2, <3>1, <3>2 DEF IssuedNow
  <2>7. NotYetInserted'
    BY <1>0, <2>1, <2>3 DEF NotYetInserted, InvoiceTypeOK
  <2>8. Moved
    BY <1>0, <2>1, <2>3, <2>6 DEF InvoiceTypeOK
  <2> QED
    BY <2>4, <2>5, <2>7, <2>8
<1>10. ASSUME NEW r \in Reviewers, NEW q \in Requests, RejectInvoice(r, q)
       PROVE  Kept
  <2>1. /\ reviewing[r] \in ReviewCall /\ q \notin applying
        /\ reviewing' = [reviewing EXCEPT ![r] = NoReview]
        /\ invoice[q].status = "pending"
    BY <1>10, LockedFacts DEF RejectInvoice
  <2>2. /\ signed' = [signed EXCEPT ![q] =
               [status |-> "rejected", first |-> signed[q].first, url |-> Nothing]]
        /\ invoice' = [invoice EXCEPT ![q].status = "rejected"]
        /\ UNCHANGED <<billed, applying, permitted, posted>>
    BY <1>10 DEF RejectInvoice
  <2>3. InvoiceTypeOK'
    BY <1>0, <2>1, <2>2 DEF InvoiceTypeOK, ReviewCall
  <2>4. SignedIsPosted'
    BY <1>0, <2>1, <2>2 DEF SignedIsPosted, NoReview, InvoiceTypeOK
  <2>5. NotYetInserted' /\ Moved
    BY <1>0, <2>1, <2>2 DEF NotYetInserted, InvoiceTypeOK
  <2> QED
    BY <2>3, <2>4, <2>5
<1>11. ASSUME UNCHANGED invoiceVars
       PROVE  Kept
  BY <1>0, <1>11 DEF invoiceVars, InvoiceTypeOK, NotYetInserted, SignedIsPosted
<1> HIDE DEF Kept
<1>12. ASSUME NEW r \in Reviewers, NEW q \in Requests,
              (\E url \in Urls : Post(r, q, "approve", url)) \/ Post(r, q, "reject", Nothing)
       PROVE  Kept
  BY <1>7, <1>12
<1>13. Kept
  BY <1>1, <1>2, <1>3, <1>4, <1>5, <1>6, <1>8, <1>9, <1>10, <1>11, <1>12 DEF InvoiceNext
<1> QED
  BY <1>13 DEF Kept, InvoiceInvariant

\* The invariant holds in every behaviour of the invoices.
THEOREM InvoiceInvariance == InvoiceSpec => []InvoiceInvariant
<1>1. InvoiceInvariant /\ [InvoiceNext]_invoiceVars => InvoiceInvariant'
  BY InvoiceKept
<1> QED
  BY InvoiceStarts, <1>1, PTL DEF InvoiceSpec

(* An invoice is issued by two administrators who posted the same link, and *)
(* is final then (settlement/invoice_review.go Review).                     *)
THEOREM InvoicesAreIssuedByTwo == InvoiceSpec => IssuedByTwo
<1>1. InvoiceInvariant /\ [InvoiceNext]_invoiceVars =>
        [\A q \in Requests :
           /\ invoice'[q].status = "issued" => invoice[q].status = "issued" \/ IssuedNow(q)
           /\ invoice[q].status \in {"issued", "rejected"} => invoice'[q] = invoice[q]]_invoiceVars
  BY InvoiceKept
<1> QED
  BY InvoiceInvariance, <1>1, PTL DEF InvoiceSpec, IssuedByTwo

(***************************************************************************)
(* Events.  What is pushed stays in the stream until every subscription    *)
(* that wants it has taken it: a run deletes only what it has read, and    *)
(* keeps of that what it failed to deliver.                                *)
(***************************************************************************)
StreamEntry == [id : Nat, event : Events]
JobRow == [id : Nat, sub : Subs, event : Events]
ResultRow == [sub : Subs, event : Events, as : {"ok", "failed"}]
RunRow == [at : {"subs", "deliver", "delete", "finish"}, subs : SUBSET Subs, stream : Nat,
           todo : SUBSET JobRow, read : SUBSET Nat, bad : SUBSET Nat,
           records : Seq(ResultRow),
           error : BOOLEAN, count : Nat]

TaskRow == [enabled : BOOLEAN, fails : Nat, lease : {"free", "held", "expiring"}]
SeenRow == [fails : Nat, enabled : BOOLEAN]

DeliveryTypeOK ==
  /\ outbox \in [Events -> {"none", "pending", "published"}]
  /\ locked \subseteq Events /\ added \in Nat /\ stream \subseteq StreamEntry
  /\ Enabled \subseteq subs /\ subs \subseteq Subs
  /\ schedule \in TaskRow /\ seen \in SeenRow
  /\ pass = Idle \/ pass \in RunRow

\* An id names one entry, and was given out before.
EntriesAreApart ==
  /\ \A x \in stream : x.id \in 1..added
  /\ \A x, y \in stream : x.id = y.id => x = y

\* Of the entries a run has read, those it has not failed to deliver are taken
\* or still to be posted; before it deletes, none is.
PassIsTrue ==
  /\ pass.at = "subs" => pass.read = {}
  /\ pass.at \in {"deliver", "delete"} =>
       /\ Enabled \subseteq pass.subs
       /\ pass.read \subseteq 1..added
       /\ \A x \in stream, s \in Enabled :
            x.id \in pass.read \ pass.bad /\ x.event \in Wanted[s] =>
              \/ <<s, x.event>> \in taken
              \/ [id |-> x.id, sub |-> s, event |-> x.event] \in pass.todo
  /\ pass.at = "delete" => pass.todo = {}

\* An event that was pushed is in the stream or taken by all who want it.
NothingLost ==
  \A e \in Events : outbox[e] = "published" \/ e \in locked =>
    \/ \E x \in stream : x.event = e
    \/ \A s \in Enabled : e \in Wanted[s] => <<s, e>> \in taken

DeliveryInvariant == DeliveryTypeOK /\ EntriesAreApart /\ PassIsTrue /\ NothingLost

\* At the start nothing is recorded or pushed, and the invariant holds.
LEMMA DeliveryStarts == Init => DeliveryInvariant
<1> SUFFICES ASSUME Init PROVE DeliveryInvariant
  OBVIOUS
<1>1. DeliveryTypeOK
  BY EventDeliveryConstants DEF Init, DeliveryTypeOK, NotRead, TaskRow, SeenRow
<1>2. EntriesAreApart /\ PassIsTrue /\ NothingLost
  BY DEF Init, EntriesAreApart, PassIsTrue, NothingLost, Idle
<1> QED
  BY <1>1, <1>2 DEF DeliveryInvariant

\* The steps of the outbox, of new subscriptions and of the task between two
\* runs keep the invariant: what is committed was pushed before.
LEMMA AroundKept ==
  ASSUME DeliveryInvariant,
         \/ \E e \in Events : Record(e)
         \/ Commit \/ Rollback \/ (\E s \in Subs : Subscribe(s))
         \/ ReadTask \/ TriggerRefused \/ LeaseExpires
  PROVE  DeliveryInvariant'
<1>1. DeliveryTypeOK /\ EntriesAreApart /\ PassIsTrue /\ NothingLost
  BY DEF DeliveryInvariant
<1>2. UNCHANGED <<added, stream, taken, pass>>
  BY DEF Record, Commit, Rollback, Subscribe, ReadTask, TriggerRefused, LeaseExpires, outboxVars, taskVars
<1>3. EntriesAreApart' /\ PassIsTrue'
  BY <1>1, <1>2 DEF EntriesAreApart, PassIsTrue
<1>4. /\ outbox' \in [Events -> {"none", "pending", "published"}] /\ locked' \subseteq locked
      /\ \A e \in Events : outbox'[e] = "published" => outbox[e] = "published" \/ e \in locked
  BY <1>1 DEF Record, Commit, Rollback, Subscribe, ReadTask, TriggerRefused, LeaseExpires,
     outboxVars, taskVars, DeliveryTypeOK
<1>5. NothingLost'
  BY <1>1, <1>2, <1>4 DEF NothingLost
<1>6. subs \subseteq subs' /\ subs' \subseteq subs \cup Subs
  BY DEF Record, Commit, Rollback, Subscribe, ReadTask, TriggerRefused, LeaseExpires, outboxVars, taskVars
<1>7. schedule' \in TaskRow /\ seen' \in SeenRow
  <2>1. /\ schedule \in TaskRow /\ seen \in SeenRow /\ NotRead \in SeenRow /\ schedule.fails \in Nat
        /\ [schedule EXCEPT !.lease = "free"] \in TaskRow
        /\ \A b \in BOOLEAN : [fails |-> schedule.fails, enabled |-> b] \in SeenRow
    BY <1>1 DEF DeliveryTypeOK, TaskRow, SeenRow, NotRead
  <2>2. /\ schedule' = schedule \/ schedule' = [schedule EXCEPT !.lease = "free"]
        /\ seen' = seen \/ seen' = NotRead \/ \E b \in BOOLEAN : seen' = [fails |-> schedule.fails, enabled |-> b]
    BY DEF Record, Commit, Rollback, Subscribe, ReadTask, TriggerRefused, LeaseExpires, outboxVars, taskVars
  <2> QED
    BY <2>1, <2>2
<1>8. DeliveryTypeOK'
  BY <1>1, <1>2, <1>4, <1>6, <1>7 DEF DeliveryTypeOK
<1> QED
  BY <1>3, <1>5, <1>8 DEF DeliveryInvariant

\* Push keeps the invariant: the new entry is none that a run has read.
LEMMA PushKept ==
  ASSUME DeliveryInvariant, NEW e \in Events, Push(e)
  PROVE  DeliveryInvariant'
<1> DEFINE new == [id |-> added + 1, event |-> e]
<1>1. DeliveryTypeOK /\ EntriesAreApart /\ PassIsTrue /\ NothingLost
  BY DEF DeliveryInvariant
<1>2. /\ added' = added + 1 /\ stream' = stream \cup {new} /\ locked' = locked \cup {e}
      /\ UNCHANGED <<outbox, subs, taken, taskVars, pass>>
  BY DEF Push
<1>3. new \in StreamEntry /\ new.id = added + 1 /\ new.event = e /\ added \in Nat
  BY <1>1 DEF StreamEntry, DeliveryTypeOK
<1> HIDE DEF new
<1>4. DeliveryTypeOK'
  BY <1>1, <1>2, <1>3 DEF DeliveryTypeOK, taskVars
<1>5. EntriesAreApart'
  BY <1>1, <1>2, <1>3 DEF EntriesAreApart
<1>6. PassIsTrue'
  BY <1>1, <1>2, <1>3 DEF PassIsTrue
<1>7. NothingLost'
  BY <1>1, <1>2, <1>3 DEF NothingLost
<1> QED
  BY <1>4, <1>5, <1>6, <1>7 DEF DeliveryInvariant

\* A run that begins, ends or dies keeps the invariant: it has read nothing.
LEMMA PassesKept ==
  ASSUME DeliveryInvariant, RunDue \/ Trigger \/ Finish \/ Crash
  PROVE  DeliveryInvariant'
<1>1. DeliveryTypeOK /\ EntriesAreApart /\ PassIsTrue /\ NothingLost
  BY DEF DeliveryInvariant
<1>2. UNCHANGED <<outbox, added, stream, subs, taken>> /\ (UNCHANGED locked \/ locked' = {})
  BY DEF RunDue, Trigger, Finish, Crash, outboxVars
<1>3. schedule \in TaskRow /\ seen \in SeenRow /\ schedule.fails \in Nat /\ seen.fails \in Nat
  BY <1>1 DEF DeliveryTypeOK, TaskRow, SeenRow
<1>4. /\ pass' = Idle \/ pass' \in RunRow
      /\ pass'.at = "idle" \/ (pass'.at = "subs" /\ pass'.read = {})
  <2>1. (\E count \in Nat : Begin(count)) \/ pass' = Idle
    BY <1>3 DEF RunDue, Trigger, Finish, Crash
  <2>2. ASSUME NEW count \in Nat, Begin(count)
        PROVE  pass' \in RunRow /\ pass'.at = "subs" /\ pass'.read = {}
    <3>1. <<>> \in Seq(ResultRow)
      OBVIOUS
    <3> QED
      BY <2>2, <3>1 DEF Begin, RunRow
  <2> QED
    BY <2>1, <2>2 DEF Idle
<1>5. schedule' \in TaskRow /\ seen' \in SeenRow
  <2>1. /\ NotRead \in SeenRow /\ schedule.enabled \in BOOLEAN
        /\ \A lease \in {"held", "expiring"} : [schedule EXCEPT !.lease = lease] \in TaskRow
        /\ \A b \in BOOLEAN, n \in Nat : [enabled |-> b, fails |-> n, lease |-> "free"] \in TaskRow
    BY <1>3 DEF SeenRow, TaskRow, NotRead
  <2>2. CASE RunDue \/ Trigger
    BY <1>3, <2>1, <2>2 DEF RunDue, Trigger, Begin
  <2>3. CASE Finish
    <3>1. pass \in RunRow
      BY <1>1, <2>3 DEF Finish, Idle, DeliveryTypeOK
    <3>2. pass.count \in Nat
      BY <3>1 DEF RunRow
    <3>3. PICK n \in Nat, b \in BOOLEAN :
            schedule' = [enabled |-> b, fails |-> n, lease |-> "free"] /\ seen' = seen
      <4> DEFINE fails == IF pass.error THEN pass.count + 1 ELSE 0
      <4>1. /\ schedule' = [enabled |-> schedule.enabled /\ fails < FailLimit, fails |-> fails, lease |-> "free"]
            /\ seen' = seen
        BY <2>3 DEF Finish
      <4>2. fails \in Nat
        BY <3>2
      <4> HIDE DEF fails
      <4>3. (schedule.enabled /\ fails < FailLimit) \in BOOLEAN
        OBVIOUS
      <4> QED
        BY <4>1, <4>2, <4>3
    <3> QED
      BY <1>3, <2>1, <3>3
  <2>4. CASE Crash
    BY <2>1, <2>4 DEF Crash
  <2> QED
    BY <2>2, <2>3, <2>4
<1>6. DeliveryTypeOK'
  BY <1>1, <1>2, <1>4, <1>5 DEF DeliveryTypeOK
<1>7. EntriesAreApart' /\ PassIsTrue' /\ NothingLost'
  BY <1>1, <1>2, <1>4 DEF EntriesAreApart, PassIsTrue, NothingLost
<1> QED
  BY <1>6, <1>7 DEF DeliveryInvariant

\* What a step of a run leaves alone, whatever it does to the run.
LEMMA StepsOfRun ==
  ASSUME DeliveryInvariant, pass' \in RunRow, UNCHANGED <<outboxVars, subs, taskVars>>,
         stream' \subseteq stream, taken \subseteq taken',
         PassIsTrue', NothingLost'
  PROVE  DeliveryInvariant'
<1>1. DeliveryTypeOK /\ EntriesAreApart
  BY DEF DeliveryInvariant
<1>2. DeliveryTypeOK'
  BY <1>1 DEF DeliveryTypeOK, outboxVars, taskVars
<1>3. EntriesAreApart'
  BY <1>1 DEF EntriesAreApart, outboxVars
<1> QED
  BY <1>2, <1>3 DEF DeliveryInvariant

\* The steps of a run that read nothing from the stream and post nothing.
LEMMA QuietKept ==
  ASSUME DeliveryInvariant, pass \in RunRow,
         FetchSubs \/ FetchFails \/ ReadFails \/ Report \/ ReportFails
  PROVE  DeliveryInvariant'
<1>1. DeliveryTypeOK /\ EntriesAreApart /\ PassIsTrue /\ NothingLost
  BY DEF DeliveryInvariant
<1>2. UNCHANGED <<outboxVars, subs, taskVars, stream, taken>>
  BY DEF FetchSubs, FetchFails, ReadFails, Report, ReportFails
<1>3. NothingLost'
  BY <1>1, <1>2 DEF NothingLost, outboxVars
<1>4. pass' \in RunRow /\ PassIsTrue'
  <2>1. CASE FetchSubs
    <3>1. \/ pass' = [pass EXCEPT !.at = "finish"]
          \/ pass' = [pass EXCEPT !.at = "deliver", !.subs = subs]
      BY <2>1 DEF FetchSubs
    <3>2. /\ pass' \in RunRow /\ pass'.at \in {"deliver", "finish"}
          /\ pass'.at = "deliver" => pass'.subs = subs /\ pass'.read = pass.read
      <4>1. subs \in SUBSET Subs
        BY <1>1 DEF DeliveryTypeOK
      <4>2. CASE pass' = [pass EXCEPT !.at = "finish"]
        BY <4>2 DEF RunRow
      <4>3. CASE pass' = [pass EXCEPT !.at = "deliver", !.subs = subs]
        BY <4>1, <4>3 DEF RunRow
      <4> QED
        BY <3>1, <4>2, <4>3
    <3>3. pass.read = {} /\ Enabled \subseteq subs
      BY <1>1, <2>1 DEF FetchSubs, PassIsTrue, DeliveryTypeOK
    <3> QED
      BY <3>2, <3>3 DEF PassIsTrue
  <2>2. CASE FetchFails
    <3>1. pass' = [pass EXCEPT !.at = "finish", !.error = TRUE]
      BY <2>2 DEF FetchFails
    <3>2. pass' \in RunRow /\ pass'.at = "finish"
      BY <3>1 DEF RunRow
    <3> QED
      BY <3>2 DEF PassIsTrue
  <2>3. CASE Report \/ ReportFails
    <3>1. /\ pass.at = "deliver" /\ pass.todo = {}
          /\ \/ pass' = [pass EXCEPT !.at = "delete"]
             \/ pass' = [pass EXCEPT !.at = "delete", !.error = TRUE]
             \/ pass' = [pass EXCEPT !.at = "finish", !.error = TRUE]
      BY <2>3 DEF Report, ReportFails, AllPosted
    <3>2. /\ pass' \in RunRow /\ pass'.at \in {"delete", "finish"}
          /\ pass'.subs = pass.subs /\ pass'.read = pass.read /\ pass'.bad = pass.bad
          /\ pass'.todo = pass.todo
      <4>1. CASE pass' = [pass EXCEPT !.at = "delete"]
        BY <4>1 DEF RunRow
      <4>2. CASE pass' = [pass EXCEPT !.at = "delete", !.error = TRUE]
        BY <4>2 DEF RunRow
      <4>3. CASE pass' = [pass EXCEPT !.at = "finish", !.error = TRUE]
        BY <4>3 DEF RunRow
      <4> QED
        BY <3>1, <4>1, <4>2, <4>3
    <3> QED
      BY <1>1, <1>2, <3>1, <3>2 DEF PassIsTrue, outboxVars
  <2>4. CASE ReadFails
    <3>1. /\ pass.at = "deliver"
          /\ pass' = [pass EXCEPT !.stream = @ + 1, !.error = TRUE]
      BY <2>4 DEF ReadFails, NextStream
    <3>2. pass.stream + 1 \in Nat
      BY DEF RunRow
    <3>3. /\ pass' \in RunRow /\ pass'.at = "deliver" /\ pass'.subs = pass.subs
          /\ pass'.read = pass.read /\ pass'.bad = pass.bad /\ pass'.todo = pass.todo
      BY <3>1, <3>2 DEF RunRow
    <3> QED
      BY <1>1, <1>2, <3>1, <3>3 DEF PassIsTrue, outboxVars
  <2> QED
    BY <2>1, <2>2, <2>3, <2>4
<1> QED
  BY <1>2, <1>3, <1>4, StepsOfRun

\* ReadStream keeps the invariant: there is a job for each subscription that
\* wants the event of an entry, and of the streams before nothing is left to post.
LEMMA ReadKept ==
  ASSUME DeliveryInvariant, pass \in RunRow, ReadStream
  PROVE  DeliveryInvariant'
<1> DEFINE page == Parsed(Page(pass.stream + 1))
           todo == UNION {Work(x) : x \in page}
           known == {x.id : x \in page}
<1>1. DeliveryTypeOK /\ EntriesAreApart /\ PassIsTrue /\ NothingLost
  BY DEF DeliveryInvariant
<1>2. UNCHANGED <<outboxVars, subs, taskVars, stream, taken>>
  BY DEF ReadStream
<1>3. NothingLost'
  BY <1>1, <1>2 DEF NothingLost, outboxVars
<1>4. page \subseteq stream /\ page \subseteq StreamEntry
  BY <1>1 DEF Parsed, Page, DeliveryTypeOK
<1>5. /\ pass.at = "deliver" /\ pass.todo = {}
      /\ Enabled \subseteq pass.subs /\ pass.subs \subseteq Subs
      /\ pass.stream + 1 \in Nat /\ pass.read \in SUBSET Nat
  BY <1>1 DEF ReadStream, NextStream, PassIsTrue, RunRow
<1>6. pass' = [pass EXCEPT !.stream = @ + 1, !.read = @ \cup known, !.todo = todo]
  BY DEF ReadStream
<1> HIDE DEF page
<1>7. todo \subseteq JobRow
  BY <1>4, <1>5 DEF Work, JobRow, StreamEntry
<1>8. known \subseteq 1..added /\ known \subseteq Nat
  BY <1>1, <1>4 DEF EntriesAreApart, DeliveryTypeOK, StreamEntry
<1>9. ASSUME NEW x \in stream, NEW s \in Enabled, x.id \in known, x.event \in Wanted[s]
      PROVE  [id |-> x.id, sub |-> s, event |-> x.event] \in todo
  <2>1. x \in page
    BY <1>1, <1>4, <1>9 DEF EntriesAreApart
  <2>2. [id |-> x.id, sub |-> s, event |-> x.event] \in Work(x)
    BY <1>5, <1>9 DEF Work
  <2> QED
    BY <2>1, <2>2
<1> HIDE DEF todo, known
<1>10. /\ pass' \in RunRow /\ pass'.at = "deliver" /\ pass'.subs = pass.subs
       /\ pass'.read = pass.read \cup known /\ pass'.bad = pass.bad /\ pass'.todo = todo
  BY <1>5, <1>6, <1>7, <1>8 DEF RunRow
<1>11. ASSUME NEW x \in stream, NEW s \in Enabled,
              x.id \in pass'.read \ pass'.bad, x.event \in Wanted[s]
       PROVE  \/ <<s, x.event>> \in taken
              \/ [id |-> x.id, sub |-> s, event |-> x.event] \in pass'.todo
  <2>1. CASE x.id \in pass.read
    BY <1>1, <1>5, <1>10, <1>11, <2>1 DEF PassIsTrue
  <2>2. CASE x.id \in known
    BY <1>9, <1>10, <1>11, <2>2
  <2> QED
    BY <1>10, <1>11, <2>1, <2>2
<1>12. pass'.read \subseteq 1..added
  BY <1>1, <1>5, <1>8, <1>10 DEF PassIsTrue
<1>13. PassIsTrue'
  BY <1>2, <1>5, <1>10, <1>11, <1>12 DEF PassIsTrue, outboxVars
<1> QED
  BY <1>2, <1>3, <1>10, <1>13, StepsOfRun

\* Deliver and DeliverFails keep the invariant: the job leaves the list for the
\* endpoints' side or for the failures.
LEMMA PostKept ==
  ASSUME DeliveryInvariant, pass \in RunRow, Deliver \/ DeliverFails
  PROVE  DeliveryInvariant'
<1>1. DeliveryTypeOK /\ EntriesAreApart /\ PassIsTrue /\ NothingLost
  BY DEF DeliveryInvariant
<1>2. pass.at = "deliver" /\ UNCHANGED <<outboxVars, subs, taskVars, stream>>
  BY Zenon DEF Deliver, DeliverFails
<1>3. PICK post \in pass.todo :
        \/ /\ taken' = taken \cup {<<post.sub, post.event>>}
           /\ pass' = [pass EXCEPT !.todo = @ \ {post}, !.records = Append(@, Result(post, "ok"))]
        \/ /\ taken' = taken
           /\ pass' = [pass EXCEPT !.todo = @ \ {post}, !.records = Append(@, Result(post, "failed")),
                                   !.bad = @ \cup {post.id}, !.error = TRUE]
  <2>1. NextJobs \subseteq pass.todo
    BY DEF NextJobs
  <2>2. CASE Deliver
    BY <2>1, <2>2, Zenon DEF Deliver
  <2>3. CASE DeliverFails
    BY <2>1, <2>3, Zenon DEF DeliverFails
  <2> QED
    BY <2>2, <2>3, Zenon
<1>4. post \in JobRow /\ post.id \in Nat
  BY DEF RunRow, JobRow
<1>5. \A as \in {"ok", "failed"} :
        Append(pass.records, Result(post, as)) \in Seq(ResultRow)
  <2>1. pass.records \in Seq(ResultRow)
    BY DEF RunRow
  <2>2. \A as \in {"ok", "failed"} : Result(post, as) \in ResultRow
    BY <1>4 DEF Result, JobRow, ResultRow
  <2>3. \A row \in ResultRow : Append(pass.records, row) \in Seq(ResultRow)
    BY <2>1
  <2> QED
    BY <2>2, <2>3
<1>6. /\ pass' \in RunRow /\ pass'.at = "deliver" /\ pass'.subs = pass.subs
      /\ pass'.read = pass.read /\ pass'.todo = pass.todo \ {post}
      /\ \/ pass'.bad = pass.bad /\ taken' = taken \cup {<<post.sub, post.event>>}
         \/ pass'.bad = pass.bad \cup {post.id} /\ taken' = taken
  <2>1. CASE /\ taken' = taken \cup {<<post.sub, post.event>>}
             /\ pass' = [pass EXCEPT !.todo = @ \ {post}, !.records = Append(@, Result(post, "ok"))]
    BY <1>2, <1>4, <1>5, <2>1 DEF RunRow
  <2>2. CASE /\ taken' = taken
             /\ pass' = [pass EXCEPT !.todo = @ \ {post}, !.records = Append(@, Result(post, "failed")),
                                     !.bad = @ \cup {post.id}, !.error = TRUE]
    BY <1>2, <1>4, <1>5, <2>2 DEF RunRow
  <2> QED
    BY <1>3, <2>1, <2>2
<1>7. NothingLost'
  BY <1>1, <1>2, <1>6 DEF NothingLost, outboxVars
<1>8. ASSUME NEW x \in stream, NEW s \in Enabled, x.id \in pass'.read \ pass'.bad, x.event \in Wanted[s]
      PROVE  \/ <<s, x.event>> \in taken'
             \/ [id |-> x.id, sub |-> s, event |-> x.event] \in pass'.todo
  <2> DEFINE own == [id |-> x.id, sub |-> s, event |-> x.event]
  <2>1. <<s, x.event>> \in taken \/ own \in pass.todo
    BY <1>1, <1>2, <1>6, <1>8 DEF PassIsTrue
  <2>2. CASE own = post
    <3>1. post.id = x.id /\ post.sub = s /\ post.event = x.event
      BY <2>2
    <3> QED
      BY <1>6, <1>8, <3>1
  <2>3. CASE own # post
    BY <1>6, <2>1, <2>3
  <2> QED
    BY <2>2, <2>3
<1>9. PassIsTrue'
  BY <1>1, <1>2, <1>6, <1>8 DEF PassIsTrue, outboxVars
<1> QED
  BY <1>2, <1>6, <1>7, <1>9, StepsOfRun

\* Delete and DeleteFails keep the invariant: what they delete is taken by all who
\* want it.
LEMMA DeleteKept ==
  ASSUME DeliveryInvariant, pass \in RunRow, Delete \/ DeleteFails
  PROVE  DeliveryInvariant'
<1>1. DeliveryTypeOK /\ EntriesAreApart /\ PassIsTrue /\ NothingLost
  BY DEF DeliveryInvariant
<1>2. /\ pass.at = "delete" /\ stream' \subseteq stream
      /\ \A x \in stream : x \notin stream' => x.id \in pass.read \ pass.bad
      /\ \/ pass' = [pass EXCEPT !.at = "finish"]
         \/ pass' = [pass EXCEPT !.at = "finish", !.error = TRUE]
      /\ UNCHANGED <<outboxVars, subs, taskVars, taken>>
  BY DEF Delete, DeleteFails
<1>3. pass' \in RunRow /\ pass'.at = "finish"
  BY <1>2 DEF RunRow
<1>4. PassIsTrue'
  BY <1>3 DEF PassIsTrue
<1>5. \A x \in stream, s \in Enabled :
        x \notin stream' /\ x.event \in Wanted[s] => <<s, x.event>> \in taken
  BY <1>1, <1>2 DEF PassIsTrue
<1>6. NothingLost'
  BY <1>1, <1>2, <1>5 DEF NothingLost, outboxVars
<1> QED
  BY <1>2, <1>3, <1>4, <1>6, StepsOfRun

\* Every step on the way of an event keeps the invariant.
LEMMA DeliveryKept ==
  ASSUME DeliveryInvariant, [Next]_vars
  PROVE  DeliveryInvariant'
<1>1. CASE UNCHANGED vars
  BY <1>1 DEF vars, outboxVars, taskVars, DeliveryInvariant, DeliveryTypeOK, EntriesAreApart,
     PassIsTrue, NothingLost
<1>2. CASE PublishBatch
  <2>1. pass \in RunRow
    <3>1. CASE FetchSubs \/ FetchFails \/ Report \/ ReportFails \/ Delete \/ DeleteFails
      BY <3>1 DEF FetchSubs, FetchFails, Report, ReportFails, AllPosted, Delete, DeleteFails, Idle,
         DeliveryInvariant, DeliveryTypeOK
    <3>2. CASE ReadStream \/ ReadFails \/ Deliver \/ DeliverFails
      <4>1. pass.at = "deliver"
        BY <3>2, Zenon DEF ReadStream, ReadFails, NextStream, Deliver, DeliverFails
      <4> QED
        BY <4>1 DEF Idle, DeliveryInvariant, DeliveryTypeOK
    <3> QED
      BY <1>2, <3>1, <3>2 DEF PublishBatch
  <2> QED
    BY <1>2, <2>1, QuietKept, ReadKept, PostKept, DeleteKept DEF PublishBatch
<1> QED
  BY <1>1, <1>2, AroundKept, PushKept, PassesKept DEF Next

\* The invariant holds in every behaviour of the delivery, fair or not.
THEOREM DeliveryInvariance == Init /\ [][Next]_vars => []DeliveryInvariant
<1>1. DeliveryInvariant /\ [Next]_vars => DeliveryInvariant'
  BY DeliveryKept
<1> QED
  BY DeliveryStarts, <1>1, PTL

(* An event that is published and no longer in the stream has been taken by  *)
(* every subscription that wants it, whatever was pushed twice, failed,      *)
(* crashed or went unsaved on the way (webhook.go:100-161).                  *)
THEOREM GoneIsTaken == Spec => []GoneWasTaken
<1>1. DeliveryInvariant => GoneWasTaken
  BY DEF DeliveryInvariant, NothingLost, GoneWasTaken, Gone
<1> QED
  BY DeliveryInvariance, <1>1, PTL DEF Spec

-----------------------------------------------------------------------------
(***************************************************************************)
(* Reports to the regulator.  A lease is a number above zero and a         *)
(* delivered report has none, so that no result still on its way reaches   *)
(* it; a result that says so stands for a report that has arrived.         *)
(***************************************************************************)
BatchItem == [report : Reports, token : Nat \ {0}, result : {"none", "ok", "failed"}]

QueueTypeOK ==
  /\ report \in [Reports -> [status : {"none", "queued", "processing", "delivered"},
                             token : Nat, leased : BOOLEAN]]
  /\ tokens \in Nat
  /\ batch \in [Workers -> SUBSET BatchItem]

ResultsAreTrue ==
  \A w \in Workers : \A x \in batch[w] : x.result = "ok" => x.report \in arrived

DeliveredHasArrived ==
  \A r \in Reports : report[r].status = "delivered" => report[r].token = 0 /\ r \in arrived

QueueInvariant == QueueTypeOK /\ ResultsAreTrue /\ DeliveredHasArrived

\* At the start nothing is queued, and the invariant holds.
LEMMA QueueStarts == QueueInit => QueueInvariant
BY DEF QueueInit, QueueInvariant, QueueTypeOK, BatchItem, ResultsAreTrue, DeliveredHasArrived

\* A claim takes reports that are not delivered, under new leases.
LEMMA ClaimedFacts ==
  ASSUME QueueInvariant
  PROVE  /\ Claimed \subseteq Due /\ Due \subseteq Reports
         /\ IsFiniteSet(Claimed) /\ Cardinality(Claimed) \in Nat
         /\ \A r \in Claimed : Token(r) \in Nat \ {0}
<1>1. Claimed \subseteq Due /\ Due \subseteq Reports
  BY DEF Claimed, Due
<1>2. IsFiniteSet(Claimed) /\ Cardinality(Claimed) \in Nat
  BY <1>1, RegulatoryReportConstants, FS_Subset, FS_CardinalityType
<1>3. ASSUME NEW r \in Claimed
      PROVE  Token(r) \in Nat \ {0}
  <2> DEFINE first == {x \in Claimed : x <= r}
  <2>1. IsFiniteSet(first) /\ Cardinality(first) \in Nat
    BY <1>2, FS_Subset, FS_CardinalityType
  <2>2. first # {}
    BY <1>1, RegulatoryReportConstants
  <2>3. Cardinality(first) # 0
    BY <2>1, <2>2, FS_EmptySet
  <2>4. tokens \in Nat
    BY DEF QueueInvariant, QueueTypeOK
  <2> QED
    BY <2>1, <2>3, <2>4 DEF Token
<1> QED
  BY <1>1, <1>2, <1>3

\* Claim keeps the invariant.
LEMMA ClaimKeeps ==
  ASSUME QueueInvariant, NEW w \in Workers, Claim(w)
  PROVE  /\ QueueInvariant'
         /\ \A r \in Reports : report[r].status = "delivered" => report'[r] = report[r]
<1> DEFINE items == {[report |-> r, token |-> Token(r), result |-> "none"] : r \in Claimed}
<1>1. QueueTypeOK /\ ResultsAreTrue /\ DeliveredHasArrived
  BY DEF QueueInvariant
<1>2. /\ report' = [r \in Reports |->
           IF r \in Claimed THEN [status |-> "processing", token |-> Token(r), leased |-> TRUE]
           ELSE report[r]]
      /\ tokens' = tokens + Cardinality(Claimed)
      /\ batch' = batch \/ batch' = [batch EXCEPT ![w] = items]
      /\ arrived' = arrived
  BY DEF Claim
<1>3. \A r \in Reports : report[r].status = "delivered" => r \notin Claimed
  BY ClaimedFacts DEF Due
<1>4. items \subseteq BatchItem /\ \A x \in items : x.result = "none"
  BY ClaimedFacts DEF BatchItem
<1> HIDE DEF items
<1>5. batch' \in [Workers -> SUBSET BatchItem] /\ \A v \in Workers : batch'[v] \in {batch[v], items}
  BY <1>1, <1>2, <1>4 DEF QueueTypeOK
<1>6. report' \in [Reports -> [status : {"none", "queued", "processing", "delivered"},
                               token : Nat, leased : BOOLEAN]]
  BY <1>1, <1>2, ClaimedFacts DEF QueueTypeOK
<1>7. QueueTypeOK'
  BY <1>1, <1>2, <1>5, <1>6, ClaimedFacts DEF QueueTypeOK
<1>8. ResultsAreTrue'
  BY <1>1, <1>2, <1>4, <1>5 DEF ResultsAreTrue
<1>9. \A r \in Reports : /\ report[r].status = "delivered" => report'[r] = report[r]
                         /\ report'[r].status = "delivered" => report[r].status = "delivered"
  BY <1>2, <1>3
<1> QED
  BY <1>1, <1>2, <1>3, <1>7, <1>8, <1>9 DEF QueueInvariant, DeliveredHasArrived

\* Send keeps the invariant: what is answered has arrived.
LEMMA SendKeeps ==
  ASSUME QueueInvariant, NEW w \in Workers, SendReport(w)
  PROVE  QueueInvariant' /\ UNCHANGED report
<1>1. QueueTypeOK /\ ResultsAreTrue /\ DeliveredHasArrived
  BY DEF QueueInvariant
<1>2. PICK x \in batch[w], ok \in BOOLEAN :
        /\ batch' = [batch EXCEPT ![w] =
             (@ \ {x}) \cup {[report |-> x.report, token |-> x.token,
                              result |-> IF ok THEN "ok" ELSE "failed"]}]
        /\ arrived' \in {arrived \cup {x.report}} \cup IF ok THEN {} ELSE {arrived}
  BY DEF SendReport
<1> DEFINE sent == [report |-> x.report, token |-> x.token,
                    result |-> IF ok THEN "ok" ELSE "failed"]
<1>3. UNCHANGED <<report, tokens>>
  BY DEF SendReport
<1>4. arrived \subseteq arrived' /\ (ok => x.report \in arrived')
  BY <1>2
<1>5. x \in BatchItem
  BY <1>1 DEF QueueTypeOK
<1>6. sent \in BatchItem /\ (sent.result = "ok" => sent.report \in arrived')
  BY <1>4, <1>5 DEF BatchItem
<1>7. batch' = [batch EXCEPT ![w] = (batch[w] \ {x}) \cup {sent}]
  BY <1>2
<1> HIDE DEF sent
<1>8. batch' \in [Workers -> SUBSET BatchItem]
      /\ \A v \in Workers : batch'[v] \subseteq batch[v] \cup {sent}
  BY <1>1, <1>6, <1>7 DEF QueueTypeOK
<1>9. QueueTypeOK' /\ ResultsAreTrue' /\ DeliveredHasArrived'
  BY <1>1, <1>3, <1>4, <1>6, <1>8 DEF QueueTypeOK, ResultsAreTrue, DeliveredHasArrived
<1> QED
  BY <1>3, <1>9 DEF QueueInvariant

\* FinishBatch keeps the invariant, and leaves a delivered report alone: its
\* lease is not the one of any result.
LEMMA FinishKeeps ==
  ASSUME QueueInvariant, NEW w \in Workers, FinishBatch(w)
  PROVE  /\ QueueInvariant'
         /\ \A r \in Reports : report[r].status = "delivered" => report'[r] = report[r]
<1> DEFINE own == {x \in batch[w] : x.token = report[x.report].token}
<1>1. QueueTypeOK /\ ResultsAreTrue /\ DeliveredHasArrived
  BY DEF QueueInvariant
<1>2. /\ report' = Outcome(own) /\ batch' = [batch EXCEPT ![w] = {}]
      /\ UNCHANGED <<tokens, arrived>>
  BY DEF FinishBatch
<1>3. \A x \in own : /\ x \in BatchItem /\ report[x.report].token # 0
                     /\ x.result = "ok" => x.report \in arrived
  BY <1>1 DEF QueueTypeOK, ResultsAreTrue, BatchItem
<1> HIDE DEF own
<1>4. \A r \in Reports : report[r].status = "delivered" => report'[r] = report[r]
  BY <1>1, <1>2, <1>3 DEF Outcome, DeliveredHasArrived
<1>5. \A r \in Reports :
        \/ report'[r] = report[r]
        \/ report'[r].status = "queued"
        \/ report'[r].status = "delivered" /\ report'[r].token = 0 /\ r \in arrived
  BY <1>1, <1>2, <1>3 DEF Outcome
<1>6. report' \in [Reports -> [status : {"none", "queued", "processing", "delivered"},
                               token : Nat, leased : BOOLEAN]]
  BY <1>1, <1>2 DEF Outcome, QueueTypeOK
<1>7. QueueTypeOK' /\ ResultsAreTrue' /\ DeliveredHasArrived'
  BY <1>1, <1>2, <1>5, <1>6 DEF QueueTypeOK, ResultsAreTrue, DeliveredHasArrived
<1> QED
  BY <1>4, <1>7 DEF QueueInvariant

\* Every step of the queue keeps the invariant, and a delivered report.
LEMMA QueueKept ==
  ASSUME QueueInvariant, [QueueNext]_queueVars
  PROVE  /\ QueueInvariant'
         /\ \A r \in Reports : report[r].status = "delivered" => report'[r].status = "delivered"
<1>1. QueueTypeOK /\ ResultsAreTrue /\ DeliveredHasArrived
  BY DEF QueueInvariant
<1>2. ASSUME NEW r \in Reports, Enqueue(r) \/ LeaseRunsOut(r)
      PROVE  QueueInvariant' /\ \A q \in Reports : report[q].status = "delivered" => report'[q].status = "delivered"
  <2>1. UNCHANGED <<tokens, batch, arrived>>
    BY <1>2 DEF Enqueue, LeaseRunsOut
  <2> DEFINE row == IF report[r].status = "none" /\ Enqueue(r)
                    THEN [report[r] EXCEPT !.status = "queued"]
                    ELSE [report[r] EXCEPT !.leased = FALSE]
  <2>2. report' = [report EXCEPT ![r] = row]
    BY <1>2 DEF Enqueue, LeaseRunsOut
  <2>3. report[r] \in [status : {"none", "queued", "processing", "delivered"},
                       token : Nat, leased : BOOLEAN]
    BY <1>1 DEF QueueTypeOK
  <2>4. /\ row \in [status : {"none", "queued", "processing", "delivered"},
                     token : Nat, leased : BOOLEAN]
        /\ row.status = "delivered" <=> report[r].status = "delivered"
        /\ row.token = report[r].token
    BY <2>3
  <2> HIDE DEF row
  <2>5. /\ report' \in [Reports -> [status : {"none", "queued", "processing", "delivered"},
                                    token : Nat, leased : BOOLEAN]]
        /\ \A q \in Reports : report'[q].status = "delivered" <=> report[q].status = "delivered"
        /\ \A q \in Reports : report'[q].token = report[q].token
    BY <1>1, <2>2, <2>4 DEF QueueTypeOK
  <2> QED
    BY <1>1, <2>1, <2>5 DEF QueueInvariant, QueueTypeOK, ResultsAreTrue, DeliveredHasArrived
<1>3. ASSUME NEW w \in Workers, Drop(w)
      PROVE  QueueInvariant' /\ UNCHANGED report
  BY <1>1, <1>3 DEF Drop, QueueInvariant, QueueTypeOK, ResultsAreTrue, DeliveredHasArrived
<1>4. CASE UNCHANGED queueVars
  BY <1>1, <1>4 DEF queueVars, QueueInvariant, QueueTypeOK, ResultsAreTrue, DeliveredHasArrived
<1> QED
  BY <1>2, <1>3, <1>4, ClaimKeeps, SendKeeps, FinishKeeps DEF QueueNext

\* The invariant holds in every behaviour of the queue.
THEOREM QueueInvariance == QueueSpec => []QueueInvariant
<1>1. QueueInvariant /\ [QueueNext]_queueVars => QueueInvariant'
  BY QueueKept
<1> QED
  BY QueueStarts, <1>1, PTL DEF QueueSpec

(* A report that is delivered stays so, and has arrived, whoever holds its *)
(* lease and however late the results of another worker come               *)
(* (delivery_dispatch.go:186-219).                                         *)
THEOREM DeliveredStaysDelivered == QueueSpec => DeliveredIsFinal
<1>1. QueueInvariant /\ [QueueNext]_queueVars =>
        [\A r \in Reports :
           /\ report[r].status = "delivered" => report'[r].status = "delivered"
           /\ report'[r].status = "delivered" => r \in arrived']_queueVars
  BY QueueKept DEF QueueInvariant, DeliveredHasArrived
<1> QED
  BY QueueInvariance, <1>1, PTL DEF QueueSpec, DeliveredIsFinal
=============================================================================
