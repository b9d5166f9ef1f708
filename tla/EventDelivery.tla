--------------------------- MODULE EventDelivery ---------------------------
(***************************************************************************)
(* How an event reaches the customers' webhooks.  A transaction records it *)
(* in event_outbox, the worker's publisher copies it to a Redis stream     *)
(* (worker/outbox/publisher.go), and a scheduled task of the worker        *)
(* (worker/schedule/scheduler.go) posts the entries of every stream to the *)
(* subscriptions, has central save the results and deletes the entries     *)
(* that every subscription has taken (delivery/webhook.go).  An entry      *)
(* whose envelope names no event_type it can neither post nor delete.      *)
(***************************************************************************)
EXTENDS Integers, Sequences, FiniteSets, SequencesExt

CONSTANTS
  Events, Subs,
  StreamOf,      \* the place of an event's stream in EventStreams
  Streams,       \* how many streams there are (8)
  Readable,      \* the events whose envelope names an event_type; of a stream
                 \* all do (device_event, charge_events) or none (central's own)
  Wanted,        \* the events a subscription wants, by subscription
  Enabled,       \* the subscriptions there are from the beginning
  Window,        \* entries a pass reads of a stream (100)
  Chunk,         \* results a report carries (100)
  FailLimit,     \* failures in a row that pause the task (5)
  MaxFaults      \* bound: calls that fail, answers lost, crashes

ASSUME EventDeliveryConstants ==
  /\ IsFiniteSet(Events) /\ IsFiniteSet(Subs) /\ Enabled \subseteq Subs
  /\ Wanted \in [Subs -> SUBSET Events]
  /\ Streams \in Nat /\ StreamOf \in [Events -> 1..Streams] /\ Readable \subseteq Events
  /\ \A e \in Readable : \A f \in Events : StreamOf[f] = StreamOf[e] => f \in Readable
  /\ {Window, Chunk, FailLimit} \subseteq Nat \ {0} /\ MaxFaults \in Nat

VARIABLES
  outbox,        \* event_outbox.status: none, pending, published
  locked,        \* the rows a publisher's transaction has pushed and locks
  added,         \* entries added so far
  stream,        \* the entries of all streams; a later one has a greater id
  subs,          \* webhook_subscription
  taken,         \* <<sub, event>> the endpoint answered with 2xx
  results,       \* webhook_delivery_log
  schedule,      \* scheduled_task
  seen,          \* what an admin's trigger has read of the task
  pass,          \* WebhookDeliverer.PublishBatch
  faults         \* calls that failed so far

outboxVars == <<outbox, locked, added>>
taskVars == <<schedule, seen>>
vars == <<outboxVars, stream, subs, taken, results, taskVars, pass, faults>>

Idle == [at |-> "idle"]
NotRead == [fails |-> 0, enabled |-> FALSE]

Init ==
  /\ outbox = [e \in Events |-> "none"]
  /\ locked = {} /\ added = 0
  /\ stream = {}
  /\ subs = Enabled
  /\ taken = {}
  /\ results = [p \in Subs \X Events |-> "none"]
  /\ schedule = [enabled |-> TRUE, fails |-> 0, lease |-> "free"]
  /\ seen = NotRead
  /\ pass = Idle
  /\ faults = 0

Fault == faults < MaxFaults /\ faults' = faults + 1

---------------------------------------------------------------------------
(* The outbox and its publisher                                            *)

Record(e) ==
  /\ outbox[e] = "none"
  /\ outbox' = [outbox EXCEPT ![e] = "pending"]
  /\ UNCHANGED <<locked, added, stream, subs, taken, results, taskVars, pass, faults>>

\* XADD, inside the transaction that locks the row; the entry is there at once.
\* A push that fails leaves the row to a later batch.
Push(e) ==
  /\ outbox[e] = "pending" /\ e \notin locked
  /\ added' = added + 1
  /\ stream' = stream \cup {[id |-> added + 1, event |-> e]}
  /\ locked' = locked \cup {e}
  /\ UNCHANGED <<outbox, subs, taken, results, taskVars, pass, faults>>

\* Nothing is pushed under a push that failed, but the row counts as published.
CommitAll ==
  /\ \E e \in Events : outbox[e] = "pending"
  /\ outbox' = [e \in Events |-> IF outbox[e] = "pending" THEN "published" ELSE outbox[e]]
  /\ locked' = {}
  /\ UNCHANGED <<added, stream, subs, taken, results, taskVars, pass, faults>>

Commit ==
  /\ locked # {}
  /\ outbox' = [e \in Events |-> IF e \in locked THEN "published" ELSE outbox[e]]
  /\ locked' = {}
  /\ UNCHANGED <<added, stream, subs, taken, results, taskVars, pass, faults>>

Rollback ==
  /\ locked # {}
  /\ Fault
  /\ locked' = {}
  /\ UNCHANGED <<outbox, added, stream, subs, taken, results, taskVars, pass>>

\* POST /admin/webhooks; nothing disables a subscription.
Subscribe(s) ==
  /\ s \notin subs
  /\ subs' = subs \cup {s}
  /\ UNCHANGED <<outboxVars, stream, taken, results, taskVars, pass, faults>>

---------------------------------------------------------------------------
(* The scheduled task                                                      *)

\* A run starts under a lease of two minutes, which outlives the 35 seconds of
\* the run: one run at a time.  "count" is the number of failures it read.
Begin(count) ==
  /\ schedule.lease = "free"
  /\ schedule' = [schedule EXCEPT !.lease = "held"]
  /\ pass' = [at |-> "subs", subs |-> {}, stream |-> 0, todo |-> {}, read |-> {},
              bad |-> {}, records |-> <<>>, error |-> FALSE, count |-> count]

RunDue ==
  /\ schedule.enabled
  /\ Begin(schedule.fails)
  /\ UNCHANGED <<outboxVars, stream, subs, taken, results, seen, faults>>

\* Trigger reads the task and claims it in a statement of its own, which looks
\* at "enabled" again unless the admin forces it.
ReadTask ==
  /\ seen = NotRead
  /\ schedule.fails <= FailLimit
  /\ \E force \in BOOLEAN :
       /\ schedule.enabled \/ force
       /\ seen' = [fails |-> schedule.fails, enabled |-> ~force]
  /\ UNCHANGED <<outboxVars, stream, subs, taken, results, schedule, pass, faults>>

Trigger ==
  /\ seen # NotRead
  /\ seen.enabled => schedule.enabled
  /\ Begin(seen.fails)
  /\ seen' = NotRead
  /\ UNCHANGED <<outboxVars, stream, subs, taken, results, faults>>

TriggerRefused ==
  /\ seen # NotRead
  /\ schedule.lease # "free" \/ (seen.enabled /\ ~schedule.enabled)
  /\ seen' = NotRead
  /\ UNCHANGED <<outboxVars, stream, subs, taken, results, schedule, pass, faults>>

\* The end of a run: its result goes to the task, whose lease it still holds.
Finish ==
  /\ pass.at = "finish"
  /\ LET fails == IF pass.error THEN pass.count + 1 ELSE 0
     IN  schedule' = [enabled |-> schedule.enabled /\ fails < FailLimit, fails |-> fails,
                  lease |-> "free"]
  /\ pass' = Idle
  /\ UNCHANGED <<outboxVars, stream, subs, taken, results, seen, faults>>

\* The worker dies, or does not save the result: only time frees the lease.
Crash ==
  /\ pass # Idle
  /\ Fault
  /\ schedule' = [schedule EXCEPT !.lease = "expiring"]
  /\ pass' = Idle
  /\ seen' = NotRead
  /\ locked' = {}
  /\ UNCHANGED <<outbox, added, stream, subs, taken, results>>

LeaseExpires ==
  /\ schedule.lease = "expiring"
  /\ schedule' = [schedule EXCEPT !.lease = "free"]
  /\ UNCHANGED <<outboxVars, stream, subs, taken, results, seen, pass, faults>>

---------------------------------------------------------------------------
(* One pass over the streams                                               *)

FetchSubs ==
  /\ pass.at = "subs"
  /\ pass' = IF subs = {} THEN [pass EXCEPT !.at = "finish"]
             ELSE [pass EXCEPT !.at = "deliver", !.subs = subs]
  /\ UNCHANGED <<outboxVars, stream, subs, taken, results, taskVars, faults>>

FetchFails ==
  /\ pass.at = "subs"
  /\ Fault
  /\ pass' = [pass EXCEPT !.at = "finish", !.error = TRUE]
  /\ UNCHANGED <<outboxVars, stream, subs, taken, results, taskVars>>

\* The oldest entries of a stream, and of those it can read one job for every
\* subscription that wants the event.
Page(n) ==
  LET entries == {x \in stream : StreamOf[x.event] = n}
  IN  {x \in entries : Cardinality({y \in entries : y.id < x.id}) < Window}
Parsed(page) == {x \in page : x.event \in Readable}
Work(entry) ==
  {[id |-> entry.id, sub |-> s, event |-> entry.event] :
     s \in {s \in pass.subs : entry.event \in Wanted[s]}}

\* Stream by stream, when what the one before gave is posted.
NextStream == pass.at = "deliver" /\ pass.todo = {} /\ pass.stream < Streams

ReadStream ==
  /\ NextStream
  /\ LET page == Parsed(Page(pass.stream + 1))
     IN  pass' = [pass EXCEPT !.stream = @ + 1, !.read = @ \cup {x.id : x \in page},
                              !.todo = UNION {Work(x) : x \in page}]
  /\ UNCHANGED <<outboxVars, stream, subs, taken, results, taskVars, faults>>

\* Nothing is read of this stream; the pass goes on with the next one.
ReadFails ==
  /\ NextStream
  /\ Fault
  /\ pass' = [pass EXCEPT !.stream = @ + 1, !.error = TRUE]
  /\ UNCHANGED <<outboxVars, stream, subs, taken, results, taskVars>>

\* Entry by entry, in whatever order the subscriptions were listed.
NextJobs == {job \in pass.todo : \A other \in pass.todo : job.id <= other.id}
Result(job, as) == [sub |-> job.sub, event |-> job.event, as |-> as]

Deliver ==
  /\ pass.at = "deliver"
  /\ \E job \in NextJobs :
       /\ taken' = taken \cup {<<job.sub, job.event>>}
       /\ pass' = [pass EXCEPT !.todo = @ \ {job}, !.records = Append(@, Result(job, "ok"))]
  /\ UNCHANGED <<outboxVars, stream, subs, results, taskVars, faults>>

DeliverFailsAlone ==
  /\ pass.at = "deliver"
  /\ Fault
  /\ \E job \in NextJobs :
       pass' = [pass EXCEPT !.todo = @ \ {job}, !.records = Append(@, Result(job, "failed")),
                            !.error = TRUE]
  /\ UNCHANGED <<outboxVars, stream, subs, taken, results, taskVars>>

\* Refused, no answer, or an answer that is not read: the entry stays.
DeliverFails ==
  /\ pass.at = "deliver"
  /\ Fault
  /\ \E job \in NextJobs :
       pass' = [pass EXCEPT !.todo = @ \ {job}, !.records = Append(@, Result(job, "failed")),
                            !.bad = @ \cup {job.id}, !.error = TRUE]
  /\ UNCHANGED <<outboxVars, stream, subs, taken, results, taskVars>>

\* RecordDeliveries: one row for a subscription and an event, the last wins.
Saved(n) ==
  FoldLeft(LAMBDA log, r : [log EXCEPT ![<<r.sub, r.event>>] = r.as],
           results, SubSeq(pass.records, 1, n))

AllPosted == pass.at = "deliver" /\ pass.todo = {} /\ pass.stream = Streams

Report ==
  /\ AllPosted
  /\ results' = Saved(Len(pass.records))
  /\ pass' = [pass EXCEPT !.at = "delete"]
  /\ UNCHANGED <<outboxVars, stream, subs, taken, taskVars, faults>>

\* A chunk fails, saved or not, and the ones behind it are not sent.  The
\* entries are kept only if nothing has failed before it.
ReportFails ==
  /\ AllPosted /\ pass.records # <<>>
  /\ Fault
  /\ \E n \in 0..Len(pass.records) :
       /\ n % Chunk = 0 \/ n = Len(pass.records)
       /\ results' = Saved(n)
  /\ pass' = [pass EXCEPT !.at = IF pass.error THEN "delete" ELSE "finish", !.error = TRUE]
  /\ UNCHANGED <<outboxVars, stream, subs, taken, taskVars>>

\* XDel, in every stream, of the entries that no subscription failed to take.
\* One that fails may come after others that did not.
Delete ==
  /\ pass.at = "delete"
  /\ stream' = {x \in stream : x.id \notin pass.read \ pass.bad}
  /\ pass' = [pass EXCEPT !.at = "finish"]
  /\ UNCHANGED <<outboxVars, subs, taken, results, taskVars, faults>>

DeleteFails ==
  /\ pass.at = "delete"
  /\ Fault
  /\ \E failed \in (SUBSET (1..Streams)) \ {{}} :
       stream' = {x \in stream : x.id \in pass.read \ pass.bad => StreamOf[x.event] \in failed}
  /\ pass' = [pass EXCEPT !.at = "finish", !.error = TRUE]
  /\ UNCHANGED <<outboxVars, subs, taken, results, taskVars>>

PublishBatch ==
  \/ FetchSubs \/ FetchFails \/ ReadStream \/ ReadFails \/ Deliver
  \/ DeliverFails \/ Report \/ ReportFails \/ Delete \/ DeleteFails

Next ==
  \/ \E e \in Events : Record(e) \/ Push(e)
  \/ Commit \/ Rollback
  \/ \E s \in Subs : Subscribe(s)
  \/ RunDue \/ ReadTask \/ Trigger \/ TriggerRefused
  \/ PublishBatch \/ Finish \/ Crash \/ LeaseExpires

\* A pass that is under way goes on to its end.
PassGoesOn == FetchSubs \/ ReadStream \/ Deliver \/ Report \/ Delete \/ Finish

\* The worker runs both loops every second; calls fail only so often.
Fairness ==
  /\ WF_vars(\E e \in Events : Push(e)) /\ WF_vars(Commit)
  /\ SF_vars(RunDue)
  /\ WF_vars(PassGoesOn) /\ WF_vars(LeaseExpires)

Spec == Init /\ [][Next]_vars /\ Fairness

---------------------------------------------------------------------------
(* Properties                                                              *)

Gone(e) == outbox[e] = "published" /\ \A x \in stream : x.event # e

(* An event that is published and no longer in the stream has been taken by  *)
(* every subscription that wants it and was there before it, whatever was    *)
(* pushed twice, failed, crashed, could not be read or went unsaved on the   *)
(* way (publisher.go:31-33, webhook.go:130-144).                             *)
GoneWasTaken ==
  \A e \in Events, s \in Enabled :
    Gone(e) /\ e \in Wanted[s] => <<s, e>> \in taken

(* Unless the task is paused, every event that was recorded and names its    *)
(* type is taken by every subscription that was there before it, whatever    *)
(* else the streams hold (publisher.go:34, webhook.go:100, README.md:400).   *)
RecordedIsTaken ==
  []schedule.enabled =>
    \A e \in Readable, s \in Enabled :
      (outbox[e] # "none" /\ e \in Wanted[s]) ~> (<<s, e>> \in taken)

(* EventStreams are the streams that can be subscribed to (webhook.go:72),   *)
(* charge_started_stream is one of the candidates (README.md:389): what is   *)
(* recorded there reaches the subscription that wants it, too.               *)
CandidateIsTaken ==
  []schedule.enabled =>
    \A e \in Events, s \in Enabled :
      (outbox[e] # "none" /\ e \in Wanted[s]) ~> (<<s, e>> \in taken)

(* An entry is kept until its results are saved: the delivery of an event    *)
(* that is gone is on record (webhook.go:98-99, 148).                        *)
GoneIsOnRecord ==
  \A e \in Events, s \in Enabled :
    Gone(e) /\ e \in Wanted[s] => results[<<s, e>>] # "none"

(* The task pauses only after FailLimit runs in a row have failed: a count   *)
(* of a run is one more than the count before it, or zero                    *)
(* (scheduler.go:154-174, migrations/worker_db/0001_init.sql:59).            *)
CountsInARow == [][schedule'.fails \in {0, schedule.fails, schedule.fails + 1}]_vars
=============================================================================
