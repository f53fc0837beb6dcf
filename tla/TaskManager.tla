---------------------------- MODULE TaskManager ----------------------------
(***************************************************************************)
(* The asynchronous job manager of the daemon: internal/tasks/tasks.go,    *)
(* the HTTP handlers over it (internal/server/tasks.go) and the completion *)
(* callback that feeds the webhooks (internal/server/webhooks.go).         *)
(*                                                                         *)
(* Every Submit allocates the id task-<seq> and starts a goroutine.  The   *)
(* manager's mutex m.mu makes each critical section one action; what the   *)
(* code does outside the lock (the job body, the onComplete call, the gap  *)
(* of Retry between its check and its submission) is a step of its own.    *)
(* The process may be killed at any point, also inside the in-place write  *)
(* of the persistence file, and comes back through WithPersistence.  A     *)
(* save may fail without a kill as well, and nobody is told: saveLocked    *)
(* returns on the errors of Marshal and MkdirAll and drops WriteFile's.    *)
(***************************************************************************)
EXTENDS Naturals

CONSTANTS MaxTasks,       \* bound: highest sequence number ever allocated
          MaxRestarts,    \* bound: number of times the process is restarted
          MaxFailedSaves  \* bound: number of saves that fail without a kill

ASSUME BoundsAssumption ==
  MaxTasks \in Nat \ {0} /\ MaxRestarts \in Nat /\ MaxFailedSaves \in Nat

Ids == 1..MaxTasks

Outcomes == {"succeeded", "failed"}
Terminal == Outcomes \cup {"canceled"}
Live     == {"queued", "running"}

\* FinishedAt: zero, set, or set more than the manager's ttl (one hour) ago.
Stamps == {"zero", "recent", "expired"}

Task == [status : Live \cup Terminal, finished : Stamps]

NoTask == [status |-> "none", finished |-> "zero"]

NoParent == 0

\* The file before the first save, and one cut in the middle of os.WriteFile: it
\* does not parse, and WithPersistence takes it for an empty one.
NoEntries == [id \in Ids |-> NoTask]

VARIABLES
  tasks,      \* the Task object an id was last bound to
  listed,     \* the keys of m.tasks
  jobs,       \* the keys of m.jobs
  cancels,    \* the keys of m.cancels
  signalled,  \* ids whose body executes and whose context was cancelled
  seq,        \* m.seq
  worker,     \* the goroutine of an id: "none", "spawned", "working"
  calls,      \* onComplete calls due: the lock is released, cb not yet called
  retrying,   \* ids that passed Retry's check, submitJob not yet entered
  file,       \* the entries wings-tasks.json parses to: none when it was cut
  life,       \* number of restarts so far
  failures,   \* number of saves that failed
  unsaved,    \* observer: ids whose latest change is in no save that succeeded
  forgotten,  \* observer: ids that were unsaved when the process was restarted
  announced,  \* observer: statuses handed to onComplete, by id
  parent      \* observer: the id that the goroutine of a task is a retry of

process == <<cancels, signalled, worker, calls, retrying>>
disk    == <<file, failures, unsaved>>
ghosts  == <<announced, parent>>
vars    == <<tasks, listed, jobs, seq, process, disk, life, forgotten, ghosts>>

Init ==
  /\ tasks = [id \in Ids |-> NoTask]
  /\ listed = {}
  /\ jobs = {}
  /\ cancels = {}
  /\ signalled = {}
  /\ seq = 0
  /\ worker = [id \in Ids |-> "none"]
  /\ calls = {}
  /\ retrying = {}
  /\ file = NoEntries
  /\ life = 0
  /\ failures = 0
  /\ unsaved = {}
  /\ forgotten = {}
  /\ announced = [id \in Ids |-> {}]
  /\ parent = [id \in Ids |-> NoParent]

Finished(t) == t.finished # "zero"

\* How a call of saveLocked ends: the file is written; it is left alone, as
\* Marshal, MkdirAll or the open of WriteFile fails; or WriteFile truncates it
\* and cannot write it whole, as the disk is full.
Saves == {"written", "kept", "cut"}

\* The observer of a failed save: the ids that the file does not have now.
fails(ids) ==
  /\ failures < MaxFailedSaves
  /\ failures' = failures + 1
  /\ unsaved' = unsaved \cup ids

\* Mutants: every task is written; only what changed is, into the file there is.
saveLocked_Unfiltered(map, keys, changed, o) ==
  /\ file' = [id \in Ids |-> IF id \in keys THEN map[id] ELSE NoTask]
  /\ unsaved' = {}
  /\ UNCHANGED failures
saveLocked_Incremental(map, keys, changed, o) ==
  \/ /\ o = "written"
     /\ file' = [id \in Ids |-> IF id \in changed /\ Finished(map[id])
                                  THEN map[id] ELSE file[id]]
     /\ unsaved' = {}
     /\ UNCHANGED failures
  \/ o = "kept" /\ fails(changed) /\ UNCHANGED file
  \/ o = "cut" /\ fails(keys) /\ file' = NoEntries

\* saveLocked: the finished tasks of the whole map, written over the old file,
\* whatever of it earlier calls failed to write.  The errors are dropped.
saveLocked(map, keys, changed, o) ==
  \/ /\ o = "written"
     /\ file' = [id \in Ids |->
                   IF id \in keys /\ Finished(map[id]) THEN map[id] ELSE NoTask]
     /\ unsaved' = {}
     /\ UNCHANGED failures
  \/ o = "kept" /\ fails(changed) /\ UNCHANGED file
  \/ o = "cut" /\ fails(keys) /\ file' = NoEntries

\* submitJob: allocate the next id, store task and job, start the goroutine.
submitJob(from) ==
  LET id == seq + 1 IN
  /\ id \in Ids
  /\ seq' = id
  /\ tasks' = [tasks EXCEPT ![id] = [status |-> "queued", finished |-> "zero"]]
  /\ listed' = listed \cup {id}
  /\ jobs' = jobs \cup {id}
  /\ worker' = [worker EXCEPT ![id] = "spawned"]
  /\ forgotten' = forgotten \ {id}
  /\ announced' = [announced EXCEPT ![id] = {}]
  /\ parent' = [parent EXCEPT ![id] = from]

Submit ==
  /\ submitJob(NoParent)
  /\ UNCHANGED <<cancels, signalled, calls, retrying, disk, life>>

\* Mutant: the cancel function is not registered.
start_Unregistered(id) ==
  /\ tasks' = [tasks EXCEPT ![id].status = "running"]
  /\ worker' = [worker EXCEPT ![id] = "working"]
  /\ UNCHANGED cancels

\* The part of run under the lock: register the cancel function, mark Running
\* (whatever the status was), and enter the job body.
start(id) ==
  /\ cancels' = cancels \cup {id}
  /\ tasks' = [tasks EXCEPT ![id].status = "running"]
  /\ worker' = [worker EXCEPT ![id] = "working"]

\* The goroutine of an id returns.
return(id) ==
  /\ worker' = [worker EXCEPT ![id] = "none"]
  /\ parent' = [parent EXCEPT ![id] = NoParent]

\* run, up to the call of the job body.  A task pruned meanwhile is dropped.
Run(id) ==
  /\ worker[id] = "spawned"
  /\ IF id \in listed
       THEN start(id) /\ UNCHANGED parent
       ELSE return(id) /\ UNCHANGED <<cancels, tasks>>
  /\ UNCHANGED <<listed, jobs, seq, signalled, calls, retrying, disk, life, forgotten,
                 announced>>

\* The end of the job, on both paths of finish; run's deferred cancel follows.
leave(id) ==
  /\ return(id)
  /\ cancels' = cancels \ {id}
  /\ signalled' = signalled \ {id}

\* The job body returned with outcome o (any outcome, also after its context
\* was cancelled): finish, whose save ends as save says.  The goroutine keeps its
\* pointer to the task even when the map has lost it.
Finish(id, o, save) ==
  /\ worker[id] = "working"
  /\ leave(id)
  /\ IF tasks[id].status = "canceled"
       THEN UNCHANGED <<tasks, calls>>
       ELSE /\ tasks' = [tasks EXCEPT ![id] = [status |-> o, finished |-> "recent"]]
            /\ calls' = calls \cup {<<id, o>>}
  /\ saveLocked(tasks', listed, {id}, save)
  /\ UNCHANGED <<listed, jobs, seq, retrying, life, forgotten, announced>>

\* Mutant: a task that ended by itself can be canceled as well.
Cancelable_Ended(id) == id \in listed /\ tasks[id].status # "canceled"

\* The early return of Cancel.
Cancelable(id) ==
  /\ id \in listed
  /\ ~Finished(tasks[id])
  /\ tasks[id].status # "canceled"

\* Mutant: Cancel leaves the callback to the job.
Cancel_Silent(id, save) ==
  /\ Cancelable(id)
  /\ tasks' = [tasks EXCEPT ![id] = [status |-> "canceled", finished |-> "recent"]]
  /\ signalled' = IF id \in cancels THEN signalled \cup {id} ELSE signalled
  /\ saveLocked(tasks', listed, {id}, save)
  /\ UNCHANGED <<listed, jobs, seq, cancels, worker, calls, retrying, life,
                 forgotten, ghosts>>

\* POST /v1/tasks/{id}/cancel.
Cancel(id, save) ==
  /\ Cancelable(id)
  /\ tasks' = [tasks EXCEPT ![id] = [status |-> "canceled", finished |-> "recent"]]
  /\ signalled' = IF id \in cancels THEN signalled \cup {id} ELSE signalled
  /\ saveLocked(tasks', listed, {id}, save)
  /\ calls' = calls \cup {<<id, "canceled">>}
  /\ UNCHANGED <<listed, jobs, seq, cancels, worker, retrying, life, forgotten,
                 ghosts>>

\* cb(complete) of Finish or Cancel, called after m.mu is released.
OnComplete(id, s) ==
  /\ <<id, s>> \in calls
  /\ calls' = calls \ {<<id, s>>}
  /\ announced' = [announced EXCEPT ![id] = @ \cup {s}]
  /\ UNCHANGED <<tasks, listed, jobs, seq, cancels, signalled, worker, retrying,
                 disk, life, forgotten, parent>>

\* Mutant: a live task can be retried.
Retryable_Live(id) == id \in listed /\ id \in jobs

\* The two early returns of Retry.
Retryable(id) ==
  /\ id \in listed
  /\ Finished(tasks[id])
  /\ tasks[id].status \notin Live
  /\ id \in jobs

\* POST /v1/tasks/{id}/retry: the check under the lock ...
RetryCheck(id) ==
  /\ Retryable(id)
  /\ retrying' = retrying \cup {id}
  /\ UNCHANGED <<tasks, listed, jobs, seq, cancels, signalled, worker, calls,
                 disk, life, forgotten, ghosts>>

\* ... and the submission of the captured job, under the lock again.
RetrySubmit(id) ==
  /\ id \in retrying
  /\ submitJob(id)
  /\ retrying' = retrying \ {id}
  /\ UNCHANGED <<cancels, signalled, calls, disk, life>>

\* Prune's condition: a finish time before the cutoff.
Expired(id) == tasks[id].finished = "expired"

\* GET /v1/tasks prunes before it lists.
Prune(save) ==
  /\ listed' = {id \in listed : ~Expired(id)}
  /\ saveLocked(tasks, listed', {}, save)
  /\ UNCHANGED <<tasks, jobs, seq, process, life, forgotten, ghosts>>

\* More than the ttl goes by: every finish time so far is past the cutoff.
HourPasses ==
  LET age(t) == IF t.finished = "recent" THEN [t EXCEPT !.finished = "expired"] ELSE t
  IN /\ tasks' = [id \in Ids |-> age(tasks[id])]
     /\ file' = [id \in Ids |-> age(file[id])]
     /\ UNCHANGED <<listed, jobs, seq, process, failures, unsaved, life,
                    forgotten, ghosts>>

\* WithPersistence in the new process: a file that does not parse is ignored;
\* Seq is not serialised, so m.seq starts from 0 whatever was restored.
WithPersistence ==
  /\ listed' = {id \in Ids : file'[id] # NoTask}
  /\ tasks' = file'
  /\ seq' = 0

\* The process dies and is started again.  saveLocked truncates and rewrites
\* the file in place, and a Prune may be saving in every state: the kill may
\* leave the file cut.  The observers keep what was said of the restored tasks.
Restart ==
  /\ life < MaxRestarts
  /\ life' = life + 1
  /\ file' \in {file, NoEntries}
  /\ WithPersistence
  /\ jobs' = {}
  /\ cancels' = {}
  /\ signalled' = {}
  /\ worker' = [id \in Ids |-> "none"]
  /\ calls' = {}
  /\ retrying' = {}
  /\ unsaved' = {}
  /\ forgotten' = listed' \cap (forgotten \cup unsaved)
  /\ announced' = [id \in Ids |-> IF id \in listed' THEN announced[id] ELSE {}]
  /\ parent' = [id \in Ids |-> NoParent]
  /\ UNCHANGED failures

Next ==
  \/ Submit
  \/ \E id \in Ids : \/ Run(id)
                     \/ \E o \in Outcomes, save \in Saves : Finish(id, o, save)
                     \/ \E save \in Saves : Cancel(id, save)
                     \/ \E s \in Terminal : OnComplete(id, s)
                     \/ RetryCheck(id)
                     \/ RetrySubmit(id)
  \/ \E save \in Saves : Prune(save)
  \/ HourPasses
  \/ Restart

Spec == Init /\ [][Next]_vars

\* The Go scheduler runs every goroutine; that a job body returns is an
\* assumption on the jobs (the image pull ends or fails).
Fairness ==
  \A id \in Ids :
    /\ WF_vars(Run(id))
    /\ WF_vars(\E o \in Outcomes, save \in Saves : Finish(id, o, save))
    /\ WF_vars(\E s \in Terminal : OnComplete(id, s))

FairSpec == Spec /\ Fairness
-----------------------------------------------------------------------------
\* Types; the file holds tasks with a finish time only (saveLocked's filter).
TypeOK ==
  /\ tasks \in [Ids -> Task \cup {NoTask}]
  /\ listed \subseteq Ids
  /\ jobs \subseteq Ids
  /\ cancels \subseteq Ids
  /\ signalled \subseteq Ids
  /\ seq \in 0..MaxTasks
  /\ worker \in [Ids -> {"none", "spawned", "working"}]
  /\ calls \subseteq Ids \X Terminal
  /\ retrying \subseteq Ids
  /\ file \in [Ids -> {t \in Task : Finished(t)} \cup {NoTask}]
  /\ life \in 0..MaxRestarts
  /\ failures \in 0..MaxFailedSaves
  /\ unsaved \subseteq Ids
  /\ forgotten \subseteq Ids
  /\ announced \in [Ids -> SUBSET Terminal]
  /\ parent \in [Ids -> Ids \cup {NoParent}]

\* What a client can read as over is what a restart would restore: every listed
\* task with a final status is in the file with that status, however
\* finishes, cancels, prunes, late results and restarts interleave.  The tasks
\* whose own save failed are excepted, and all of them when a save cut the file,
\* but only until any save succeeds: every save writes the whole list.
FinishedIsDurable ==
  \A id \in listed \ unsaved :
    tasks[id].status \in Terminal =>
      file[id].status = tasks[id].status

\* A job whose task reads "canceled" while its body runs has had its context
\* cancelled: Cancel always finds the cancel function that run registered.
CancelReachesJob ==
  \A id \in Ids :
    worker[id] = "working" /\ tasks[id].status = "canceled" => id \in signalled

\* The statuses of a task that reached the callback or are on their way to it.
Said(id) == announced[id] \cup {s \in Terminal : <<id, s>> \in calls}

\* A task the API reports as canceled was never, and will not be, announced to
\* the webhooks as succeeded or failed, and a task that ended in this process is
\* announced, or about to be, with the status it is listed with, whether it was
\* saved or not.  What a restart brings back in place of an end that was never
\* saved may disagree with what was announced: it is excepted (forgotten).
AnnouncedAsListed ==
  \A id \in listed :
    /\ tasks[id].status = "canceled" /\ id \notin forgotten => Said(id) \cap Outcomes = {}
    /\ id \in jobs /\ tasks[id].status \in Terminal => tasks[id].status \in Said(id)

\* A retry runs at the same time as the task it retries only if that one was
\* canceled: Retry refuses a task whose body is executing under a live status.
RetryOverlapsOnlyCanceled ==
  \A id \in Ids :
    /\ parent[id] # NoParent
    /\ worker[id] # "none"
    /\ worker[parent[id]] # "none"
    => "canceled" \in Said(parent[id])

\* Prune never takes away a task whose job has still to report: an unfinished
\* goroutine of a task without a finish time always finds it in the map.
LiveIsListed ==
  \A id \in Ids :
    worker[id] # "none" /\ ~Finished(tasks[id]) => id \in listed

\* Every task that was submitted is announced to the completion callback at
\* some time, unless the process is restarted first (then its job is forgotten).
EveryTaskAnnounced ==
  \A id \in Ids : worker[id] = "spawned" ~> announced[id] # {} \/ id \notin jobs

\* "finish records the outcome, unless the task was already canceled via Cancel
\* (which owns the status, persistence and callback in that case)": a canceled
\* task stays canceled as long as the process lives.
CanceledStays ==
  [][\A id \in listed :
       tasks[id].status = "canceled" /\ life' = life /\ id \in listed'
         => tasks'[id].status = "canceled"]_vars

\* "WithPersistence writes finished tasks to path so they survive a daemon
\* restart": while it is listed, a finished task is not replaced by another.
FinishedNotReplaced ==
  [][\A id \in listed :
       Finished(tasks[id]) /\ life' = life /\ id \in listed'
         => Finished(tasks'[id])]_vars
=============================================================================
