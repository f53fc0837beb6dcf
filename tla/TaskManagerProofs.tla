------------------------- MODULE TaskManagerProofs -------------------------
(***************************************************************************)
(* The safety invariants of TaskManager hold for every MaxTasks,           *)
(* MaxRestarts and MaxFailedSaves.  They are not inductive one by one:     *)
(* AnnouncedAsListed and RetryOverlapsOnlyCanceled need to know which ids  *)
(* belong to the current life of the process (an id is reused after a      *)
(* restart), that a task without a finish time was never announced, and    *)
(* what the file would bring back.  IInv collects these facts.  A save may *)
(* fail at any call: SaveStep says what each outcome leaves in the file.   *)
(***************************************************************************)
EXTENDS TaskManager, TLAPS

\* m.cancels holds exactly the functions of the bodies that are executing:
\* none is lost while a Cancel may need it, none outlives its job.
CancelsMatchWorkers == cancels = {id \in Ids : worker[id] = "working"}

\* The ids handed out in this life are the ones with a job body in memory;
\* goroutines, retries, callbacks and unfinished tasks concern these ids only.
CurrentIds ==
  /\ jobs = 1..seq
  /\ retrying \subseteq jobs
  /\ \A c \in calls : c[1] \in jobs
  /\ \A id \in Ids : worker[id] # "none" =>
       id \in jobs /\ parent[id] \in jobs \cup {NoParent}
  /\ \A id \in listed : ~Finished(tasks[id]) => id \in jobs

\* A final status carries a finish time.
EndedIsStamped ==
  \A id \in Ids : tasks[id].status \in Terminal => Finished(tasks[id])

\* A job that ended by itself has no goroutine left.
OutcomeEndsWorker ==
  \A id \in jobs : tasks[id].status \in Outcomes => worker[id] = "none"

\* Nothing is announced before the finish time is set.
UnfinishedUnsaid == \A id \in jobs : ~Finished(tasks[id]) => Said(id) = {}

\* A task that a restart would bring back as canceled has no outcome announced,
\* unless it ended otherwise meanwhile and that was not saved.
FileSaysCanceled ==
  \A id \in Ids : file[id].status = "canceled" =>
    Said(id) \cap Outcomes = {} \/ id \in unsaved \cup forgotten

\* A retry that passed its check either found the goroutine gone or canceled.
RetryingEnded ==
  \A id \in retrying : worker[id] # "none" => "canceled" \in Said(id)

IInv ==
  /\ TypeOK
  /\ FinishedIsDurable
  /\ CancelReachesJob
  /\ CancelsMatchWorkers
  /\ AnnouncedAsListed
  /\ RetryOverlapsOnlyCanceled
  /\ LiveIsListed
  /\ CurrentIds
  /\ EndedIsStamped
  /\ OutcomeEndsWorker
  /\ UnfinishedUnsaid
  /\ FileSaysCanceled
  /\ RetryingEnded

\* A call of saveLocked writes the finished tasks of the whole list, or it leaves
\* the file, or it cuts it, and the observer excepts what that costs.
LEMMA SaveStep ==
  ASSUME TypeOK, NEW map \in [Ids -> Task \cup {NoTask}], NEW keys \in SUBSET Ids,
         NEW changed \in SUBSET Ids, NEW o \in Saves, saveLocked(map, keys, changed, o)
  PROVE  /\ file' \in [Ids -> {t \in Task : Finished(t)} \cup {NoTask}]
         /\ unsaved' \subseteq Ids
         /\ failures' \in 0..MaxFailedSaves
         /\ \/ /\ unsaved' = {}
               /\ \A i \in Ids : file'[i] =
                    IF i \in keys /\ Finished(map[i]) THEN map[i] ELSE NoTask
            \/ unsaved \cup changed \subseteq unsaved' /\ file' = file
            \/ unsaved \cup keys \subseteq unsaved' /\ file' = NoEntries
<1> USE BoundsAssumption DEF Task, NoTask, Live, Terminal, Outcomes, Stamps, Finished
<1>1. CASE o = "written"
  <2>1. /\ file' = [id \in Ids |-> IF id \in keys /\ Finished(map[id])
                                   THEN map[id] ELSE NoTask]
        /\ unsaved' = {} /\ failures' = failures
    BY <1>1 DEF saveLocked
  <2>2. file' \in [Ids -> {t \in Task : Finished(t)} \cup {NoTask}]
    <3>1. ASSUME NEW i \in Ids, Finished(map[i]) PROVE map[i] \in {t \in Task : Finished(t)}
      <4>1. map[i] \in Task
        BY <3>1
      <4> QED
        BY <3>1, <4>1
    <3> HIDE DEF Task, NoTask, Finished
    <3> QED
      BY <2>1, <3>1
  <2>3. \A i \in Ids : file'[i] = IF i \in keys /\ Finished(map[i]) THEN map[i] ELSE NoTask
    BY <2>1
  <2>4. failures' \in 0..MaxFailedSaves
    BY <2>1 DEF TypeOK
  <2>5. unsaved' \subseteq Ids
    BY <2>1
  <2> QED
    BY <2>1, <2>2, <2>3, <2>4, <2>5, Zenon
<1>2. CASE o # "written"
  <2>1. (fails(changed) /\ file' = file) \/ (fails(keys) /\ file' = NoEntries)
    BY <1>2 DEF saveLocked
  <2>2. failures' \in 0..MaxFailedSaves
    BY <2>1 DEF fails, TypeOK
  <2>3. NoEntries \in [Ids -> {t \in Task : Finished(t)} \cup {NoTask}]
    BY DEF NoEntries
  <2> QED
    BY <2>1, <2>2, <2>3 DEF fails, TypeOK
<1> QED
  BY <1>1, <1>2

\* submitJob preserves the invariant, whoever calls it.
LEMMA SubmitJobStep ==
  ASSUME IInv, NEW from \in {NoParent} \cup retrying, submitJob(from),
         retrying' \subseteq retrying,
         UNCHANGED <<cancels, signalled, calls, disk, life>>
  PROVE  IInv'
<1> USE BoundsAssumption DEF Ids, Task, NoTask, NoParent, Live, Terminal, Outcomes,
       Stamps, process, disk, ghosts, Finished
<1>1. IInv'
  <2>1. /\ seq + 1 \in Ids /\ seq' = seq + 1
        /\ jobs' = jobs \cup {seq + 1} /\ listed' = listed \cup {seq + 1}
        /\ tasks'[seq + 1] = [status |-> "queued", finished |-> "zero"]
        /\ retrying' \subseteq retrying /\ from \in retrying \cup {NoParent}
        /\ worker'[seq + 1] = "spawned" /\ parent'[seq + 1] = from
        /\ \A i \in Ids : i # seq + 1 =>
             tasks'[i] = tasks[i] /\ worker'[i] = worker[i] /\ parent'[i] = parent[i]
        /\ UNCHANGED <<life, cancels, signalled, calls, file, failures, unsaved>>
        /\ forgotten' = forgotten \ {seq + 1}
    BY BoundsAssumption DEF submitJob, IInv, TypeOK, CurrentIds
  <2>2. TypeOK'
    BY BoundsAssumption, <2>1 DEF submitJob, IInv, TypeOK, CurrentIds
  <2>3. \A i \in Ids : Said(i)' = IF i = seq + 1 THEN {} ELSE Said(i)
    BY BoundsAssumption DEF submitJob, IInv, TypeOK, CurrentIds, Said
  <2>4. FinishedIsDurable'
    BY <2>1, <2>2, <2>3 DEF IInv, TypeOK, FinishedIsDurable
  <2>5. CancelReachesJob'
    BY <2>1, <2>2, <2>3 DEF IInv, TypeOK, CancelReachesJob
  <2>6. CancelsMatchWorkers'
    BY <2>1, <2>2, <2>3 DEF IInv, TypeOK, CancelsMatchWorkers, CurrentIds
  <2>7. AnnouncedAsListed'
    BY <2>1, <2>2, <2>3 DEF IInv, TypeOK, AnnouncedAsListed, CurrentIds
  <2>8. RetryOverlapsOnlyCanceled'
    BY <2>1, <2>2, <2>3 DEF IInv, TypeOK, RetryOverlapsOnlyCanceled,
       CurrentIds, RetryingEnded
  <2>9. LiveIsListed'
    BY <2>1, <2>2, <2>3 DEF IInv, TypeOK, LiveIsListed
  <2>10. CurrentIds'
    BY <2>1, <2>2, <2>3 DEF IInv, TypeOK, CurrentIds
  <2>11. OutcomeEndsWorker'
    BY <2>1, <2>2, <2>3 DEF IInv, TypeOK, OutcomeEndsWorker, CurrentIds
  <2>12. UnfinishedUnsaid'
    BY <2>1, <2>2, <2>3 DEF IInv, TypeOK, UnfinishedUnsaid, CurrentIds
  <2>13. RetryingEnded'
    BY <2>1, <2>2, <2>3 DEF IInv, TypeOK, RetryingEnded, CurrentIds
  <2>14. EndedIsStamped'
    BY <2>1, <2>2, <2>3 DEF IInv, TypeOK, EndedIsStamped
  <2>15. FileSaysCanceled'
    BY <2>1, <2>2, <2>3 DEF IInv, TypeOK, FileSaysCanceled
  <2> QED
    BY <2>2, <2>4, <2>5, <2>6, <2>7, <2>8, <2>9, <2>10, <2>11, <2>12,
       <2>13, <2>14, <2>15 DEF IInv
<1> QED
  BY <1>1

\* Every step preserves the invariant.
LEMMA Inductive == IInv /\ [Next]_vars => IInv'
<1> SUFFICES ASSUME IInv, [Next]_vars PROVE IInv'
  OBVIOUS
<1> USE BoundsAssumption DEF Ids, Task, NoTask, NoParent, Live, Terminal, Outcomes,
       Stamps, process, disk, ghosts, Finished
<1>1. CASE Submit
  BY <1>1, SubmitJobStep DEF Submit
<1>2. ASSUME NEW id \in Ids, RetrySubmit(id) PROVE IInv'
  BY <1>2, SubmitJobStep DEF RetrySubmit
<1>3. ASSUME NEW id \in Ids, Run(id) PROVE IInv'
  <2>1. tasks' \in [Ids -> Task \cup {NoTask}]
    <3>1. tasks[id] \in Task \cup {NoTask}
      BY DEF IInv, TypeOK
    <3>2. [tasks[id] EXCEPT !.status = "running"] \in Task
      BY <3>1
    <3>3. CASE id \in listed
      <4>1. tasks' = [tasks EXCEPT ![id] = [tasks[id] EXCEPT !.status = "running"]]
        BY <1>3, <3>3 DEF Run, start
      <4> QED
        BY <3>2, <4>1 DEF IInv, TypeOK
    <3>4. CASE id \notin listed
      BY <1>3, <3>4 DEF Run, start, return, IInv, TypeOK
    <3> QED
      BY <3>3, <3>4
  <2>2. /\ worker[id] = "spawned"
        /\ \A i \in Ids \ {id} : tasks'[i] = tasks[i] /\ worker'[i] = worker[i]
        /\ tasks'[id].finished = tasks[id].finished
        /\ cancels' = IF id \in listed THEN cancels \cup {id} ELSE cancels
        /\ IF id \in listed
             THEN tasks'[id].status = "running" /\ worker'[id] = "working"
             ELSE tasks'[id] = tasks[id] /\ worker'[id] = "none"
        /\ \A i \in Ids : parent'[i] = parent[i] \/ (i = id /\ worker'[id] = "none")
        /\ UNCHANGED <<listed, jobs, seq, signalled, calls, retrying, file, failures,
                       unsaved, life, forgotten, announced>>
    <3>1. \A i \in Ids : parent'[i] = parent[i] \/ (i = id /\ worker'[id] = "none")
      <4>1. CASE id \in listed
        BY <1>3, <4>1 DEF Run
      <4>2. CASE id \notin listed
        BY <1>3, <4>2 DEF Run, return, IInv, TypeOK
      <4> QED
        BY <4>1, <4>2
    <3> QED
      BY <1>3, <3>1 DEF Run, start, return, IInv, TypeOK, CurrentIds
  <2>3. worker' \in [Ids -> {"none", "spawned", "working"}] /\ cancels' \subseteq Ids
        /\ parent' \in [Ids -> Ids \cup {NoParent}]
    <3>1. worker' = [worker EXCEPT ![id] = IF id \in listed THEN "working" ELSE "none"]
      BY <1>3 DEF Run, start, return
    <3>2. parent' = parent \/ parent' = [parent EXCEPT ![id] = NoParent]
      BY <1>3 DEF Run, return
    <3> QED
      BY <1>3, <3>1, <3>2 DEF Run, start, return, IInv, TypeOK
  <2>4. TypeOK'
    BY <2>1, <2>2, <2>3 DEF IInv, TypeOK
  <2>5. \A i \in Ids : Said(i)' = Said(i)
    BY <1>3 DEF Run, start, return, IInv, TypeOK, CurrentIds, Said
  <2>6. FinishedIsDurable'
    BY <2>1, <2>2, <2>3, <2>4, <2>5 DEF IInv, TypeOK, FinishedIsDurable
  <2>7. CancelReachesJob'
    BY <2>1, <2>2, <2>3, <2>4, <2>5 DEF IInv, TypeOK, CancelReachesJob
  <2>8. CancelsMatchWorkers'
    BY <2>1, <2>2, <2>3, <2>4, <2>5 DEF IInv, TypeOK, CancelsMatchWorkers
  <2>9. AnnouncedAsListed'
    BY <2>1, <2>2, <2>3, <2>4, <2>5 DEF IInv, TypeOK, AnnouncedAsListed
  <2>10. RetryOverlapsOnlyCanceled'
    BY <2>1, <2>2, <2>3, <2>4, <2>5 DEF IInv, TypeOK,
       RetryOverlapsOnlyCanceled
  <2>11. EndedIsStamped'
    BY <2>1, <2>2, <2>3, <2>4, <2>5 DEF IInv, TypeOK, EndedIsStamped
  <2>12. OutcomeEndsWorker'
    BY <2>1, <2>2, <2>3, <2>4, <2>5 DEF IInv, TypeOK, OutcomeEndsWorker
  <2>13. UnfinishedUnsaid'
    BY <2>1, <2>2, <2>3, <2>4, <2>5 DEF IInv, TypeOK, UnfinishedUnsaid,
       CurrentIds
  <2>14. FileSaysCanceled'
    BY <2>1, <2>2, <2>3, <2>4, <2>5 DEF IInv, TypeOK, FileSaysCanceled
  <2>15. LiveIsListed' /\ CurrentIds' /\ RetryingEnded'
    BY <2>1, <2>2, <2>3, <2>4, <2>5 DEF IInv, TypeOK, LiveIsListed,
       CurrentIds, RetryingEnded
  <2> QED
    BY <2>4, <2>6, <2>7, <2>8, <2>9, <2>10, <2>11, <2>12, <2>13, <2>14,
       <2>15 DEF IInv
<1>4. ASSUME NEW id \in Ids, NEW o \in Outcomes, NEW save \in Saves,
             Finish(id, o, save)
      PROVE  IInv'
  <2>1. tasks' \in [Ids -> Task \cup {NoTask}]
    <3>1. tasks' = tasks \/ tasks' = [tasks EXCEPT ![id] = [status |-> o, finished |-> "recent"]]
      BY <1>4 DEF Finish
    <3> QED
      BY <3>1 DEF IInv, TypeOK
  <2>2. /\ file' \in [Ids -> {t \in Task : Finished(t)} \cup {NoTask}]
        /\ unsaved' \subseteq Ids
        /\ failures' \in 0..MaxFailedSaves
        /\ \/ /\ unsaved' = {}
              /\ \A i \in Ids : file'[i] =
                   IF i \in listed /\ Finished(tasks'[i]) THEN tasks'[i] ELSE NoTask
           \/ unsaved \cup {id} \subseteq unsaved' /\ file' = file
           \/ unsaved \cup listed \subseteq unsaved' /\ file' = NoEntries
    <3>1. /\ listed \in SUBSET Ids /\ {id} \in SUBSET Ids
          /\ tasks' \in [Ids -> Task \cup {NoTask}]
      BY <2>1 DEF IInv, TypeOK
    <3>2. saveLocked(tasks', listed, {id}, save)
      BY <1>4 DEF Finish
    <3> QED
      BY <3>1, <3>2, SaveStep DEF IInv
  <2>3. /\ cancels' = cancels \ {id} /\ (\A c \in calls' : c \in calls \/ c[1] = id)
        /\ worker[id] = "working" /\ worker'[id] = "none"
        /\ \A i \in Ids \ {id} : tasks'[i] = tasks[i] /\ worker'[i] = worker[i]
        /\ tasks'[id] = IF tasks[id].status = "canceled" THEN tasks[id]
                        ELSE [status |-> o, finished |-> "recent"]
        /\ \A i \in Ids : parent'[i] = parent[i] \/ i = id
        /\ signalled' = signalled \ {id}
        /\ UNCHANGED <<listed, jobs, seq, retrying, life, forgotten, announced>>
    BY <1>4 DEF Finish, leave, return, IInv, TypeOK, CurrentIds
  <2>4. worker' \in [Ids -> {"none", "spawned", "working"}] /\ cancels' \subseteq Ids
        /\ calls' \subseteq Ids \X Terminal /\ signalled' \subseteq Ids
        /\ parent' \in [Ids -> Ids \cup {NoParent}]
    <3>1. /\ worker' = [worker EXCEPT ![id] = "none"] /\ cancels' = cancels \ {id}
          /\ signalled' = signalled \ {id} /\ parent' = [parent EXCEPT ![id] = NoParent]
      BY <1>4 DEF Finish, leave, return
    <3>2. calls' = calls \/ calls' = calls \cup {<<id, o>>}
      BY <1>4 DEF Finish
    <3> QED
      BY <3>1, <3>2 DEF IInv, TypeOK
  <2>5. TypeOK'
    BY <2>1, <2>2, <2>3, <2>4 DEF IInv, TypeOK
  <2>6. \A i \in Ids : Said(i)' = IF i = id /\ tasks[id].status # "canceled"
                                      THEN Said(i) \cup {o} ELSE Said(i)
    BY <1>4 DEF Finish, leave, return, IInv, TypeOK, CurrentIds, Said
  <2>7. FinishedIsDurable'
    <3>1. \A i \in Ids : tasks'[i].status \in Terminal => Finished(tasks'[i])
      BY <2>3 DEF IInv, EndedIsStamped
    <3> QED
      BY <2>2, <2>3, <2>5, <3>1 DEF IInv, TypeOK, FinishedIsDurable
  <2>8. CancelReachesJob'
    BY <2>1, <2>2, <2>3, <2>4, <2>5, <2>6 DEF IInv, TypeOK,
       CancelReachesJob
  <2>9. CancelsMatchWorkers'
    BY <2>1, <2>2, <2>3, <2>4, <2>5, <2>6 DEF IInv, TypeOK,
       CancelsMatchWorkers
  <2>10. AnnouncedAsListed'
    BY <2>1, <2>2, <2>3, <2>4, <2>5, <2>6 DEF IInv, TypeOK,
       AnnouncedAsListed
  <2>11. RetryOverlapsOnlyCanceled'
    BY <2>1, <2>2, <2>3, <2>4, <2>5, <2>6 DEF IInv, TypeOK,
       RetryOverlapsOnlyCanceled
  <2>12. LiveIsListed'
    BY <2>1, <2>2, <2>3, <2>4, <2>5, <2>6 DEF IInv, TypeOK, LiveIsListed
  <2>13. CurrentIds'
    BY <2>1, <2>2, <2>3, <2>4, <2>5, <2>6 DEF IInv, TypeOK, CurrentIds
  <2>14. EndedIsStamped'
    BY <2>1, <2>2, <2>3, <2>4, <2>5, <2>6 DEF IInv, TypeOK, EndedIsStamped
  <2>15. OutcomeEndsWorker'
    BY <2>1, <2>2, <2>3, <2>4, <2>5, <2>6 DEF IInv, TypeOK,
       OutcomeEndsWorker, CurrentIds
  <2>16. UnfinishedUnsaid'
    BY <2>1, <2>2, <2>3, <2>4, <2>5, <2>6 DEF IInv, TypeOK,
       UnfinishedUnsaid, CurrentIds
  <2>17. FileSaysCanceled'
    BY <2>1, <2>2, <2>3, <2>4, <2>5, <2>6, <2>10 DEF IInv, TypeOK,
       FileSaysCanceled, AnnouncedAsListed, NoEntries
  <2>18. RetryingEnded'
    <3>1. \A i \in Ids : Said(i) \subseteq Said(i)'
      BY <2>6
    <3>2. \A i \in Ids : worker'[i] # "none" => worker[i] # "none"
      BY <2>3
    <3> QED
      BY <2>3, <3>1, <3>2 DEF IInv, TypeOK, RetryingEnded
  <2> QED
    BY <2>5, <2>7, <2>8, <2>9, <2>10, <2>11, <2>12, <2>13, <2>14, <2>15,
       <2>16, <2>17, <2>18 DEF IInv
<1>5. ASSUME NEW id \in Ids, NEW save \in Saves, Cancel(id, save) PROVE IInv'
  <2>1. tasks' \in [Ids -> Task \cup {NoTask}]
    BY <1>5 DEF Cancel, Cancelable, IInv, TypeOK
  <2>2. /\ file' \in [Ids -> {t \in Task : Finished(t)} \cup {NoTask}]
        /\ unsaved' \subseteq Ids
        /\ failures' \in 0..MaxFailedSaves
        /\ \/ /\ unsaved' = {}
              /\ \A i \in Ids : file'[i] =
                   IF i \in listed /\ Finished(tasks'[i]) THEN tasks'[i] ELSE NoTask
           \/ unsaved \cup {id} \subseteq unsaved' /\ file' = file
           \/ unsaved \cup listed \subseteq unsaved' /\ file' = NoEntries
    <3>1. /\ listed \in SUBSET Ids /\ {id} \in SUBSET Ids
          /\ tasks' \in [Ids -> Task \cup {NoTask}]
      BY <2>1 DEF IInv, TypeOK
    <3>2. saveLocked(tasks', listed, {id}, save)
      BY <1>5 DEF Cancel
    <3> QED
      BY <3>1, <3>2, SaveStep DEF IInv
  <2>3. /\ id \in listed /\ ~Finished(tasks[id])
        /\ signalled' = IF id \in cancels THEN signalled \cup {id} ELSE signalled
        /\ \A c \in calls' : c \in calls \/ c[1] = id
        /\ \A i \in Ids \ {id} : tasks'[i] = tasks[i]
        /\ tasks'[id] = [status |-> "canceled", finished |-> "recent"]
        /\ UNCHANGED <<listed, jobs, seq, cancels, worker, retrying, life, forgotten,
                       announced, parent>>
    BY <1>5 DEF Cancel, Cancelable, IInv, TypeOK, CurrentIds
  <2>4. signalled' \subseteq Ids /\ calls' \subseteq Ids \X Terminal
    BY <1>5 DEF Cancel, Cancelable, IInv, TypeOK
  <2>5. TypeOK'
    BY <2>1, <2>2, <2>3, <2>4 DEF IInv, TypeOK
  <2>6. \A i \in Ids : Said(i)' = IF i = id THEN Said(i) \cup {"canceled"} ELSE Said(i)
    BY <1>5 DEF Cancel, Cancelable, IInv, TypeOK, CurrentIds, Said
  <2>7. FinishedIsDurable'
    <3>1. \A i \in Ids : tasks'[i].status \in Terminal => Finished(tasks'[i])
      BY <2>3 DEF IInv, EndedIsStamped
    <3> QED
      BY <2>2, <2>3, <2>5, <3>1 DEF IInv, TypeOK, FinishedIsDurable
  <2>8. CancelReachesJob'
    BY <2>1, <2>2, <2>3, <2>4, <2>5, <2>6 DEF IInv, TypeOK,
       CancelReachesJob, CancelsMatchWorkers
  <2>9. CancelsMatchWorkers'
    BY <2>1, <2>2, <2>3, <2>4, <2>5, <2>6 DEF IInv, TypeOK,
       CancelsMatchWorkers
  <2>10. AnnouncedAsListed'
    BY <2>1, <2>2, <2>3, <2>4, <2>5, <2>6 DEF IInv, TypeOK,
       AnnouncedAsListed, CurrentIds, UnfinishedUnsaid
  <2>11. RetryOverlapsOnlyCanceled'
    BY <2>1, <2>2, <2>3, <2>4, <2>5, <2>6 DEF IInv, TypeOK,
       RetryOverlapsOnlyCanceled
  <2>12. CurrentIds'
    BY <2>1, <2>2, <2>3, <2>4, <2>5, <2>6 DEF IInv, TypeOK, CurrentIds
  <2>13. EndedIsStamped'
    BY <2>1, <2>2, <2>3, <2>4, <2>5, <2>6 DEF IInv, TypeOK, EndedIsStamped
  <2>14. OutcomeEndsWorker'
    BY <2>1, <2>2, <2>3, <2>4, <2>5, <2>6 DEF IInv, TypeOK,
       OutcomeEndsWorker
  <2>15. UnfinishedUnsaid'
    BY <2>1, <2>2, <2>3, <2>4, <2>5, <2>6 DEF IInv, TypeOK,
       UnfinishedUnsaid, CurrentIds
  <2>16. FileSaysCanceled'
    <3>1. Said(id)' \cap Outcomes = {}
      BY <2>3, <2>6 DEF IInv, UnfinishedUnsaid, CurrentIds
    <3>2. ASSUME NEW i \in Ids, i # id, file'[i].status = "canceled"
          PROVE  Said(i)' \cap Outcomes = {} \/ i \in unsaved' \cup forgotten'
      BY <2>2, <2>3, <2>6, <3>2 DEF IInv, AnnouncedAsListed, FileSaysCanceled, NoEntries
    <3> QED
      BY <3>1, <3>2 DEF FileSaysCanceled
  <2>17. RetryingEnded'
    BY <2>1, <2>2, <2>3, <2>4, <2>5, <2>6 DEF IInv, TypeOK, RetryingEnded,
       CurrentIds
  <2>18. LiveIsListed'
    BY <2>1, <2>2, <2>3, <2>4, <2>5, <2>6 DEF IInv, TypeOK, LiveIsListed
  <2> QED
    BY <2>5, <2>7, <2>8, <2>9, <2>10, <2>11, <2>12, <2>13, <2>14, <2>15,
       <2>16, <2>17, <2>18 DEF IInv
<1>6. ASSUME NEW id \in Ids, NEW s \in Terminal, OnComplete(id, s) PROVE IInv'
  <2>1. TypeOK'
    BY <1>6 DEF OnComplete, IInv, TypeOK, CurrentIds
  <2>2. \A i \in Ids : Said(i)' = Said(i)
    BY <1>6 DEF OnComplete, IInv, TypeOK, CurrentIds, Said
  <2>3. FinishedIsDurable' /\ CancelReachesJob' /\ CancelsMatchWorkers' /\
        AnnouncedAsListed' /\ RetryOverlapsOnlyCanceled' /\ LiveIsListed' /\
        CurrentIds' /\ EndedIsStamped' /\ OutcomeEndsWorker' /\
        UnfinishedUnsaid' /\ FileSaysCanceled' /\ RetryingEnded'
    BY <1>6, <2>1, <2>2 DEF OnComplete, IInv, TypeOK, FinishedIsDurable,
       CancelReachesJob, CancelsMatchWorkers, AnnouncedAsListed,
       RetryOverlapsOnlyCanceled, LiveIsListed, CurrentIds,
       EndedIsStamped, OutcomeEndsWorker, UnfinishedUnsaid,
       FileSaysCanceled, RetryingEnded
  <2> QED
    BY <2>1, <2>3 DEF IInv
<1>7. ASSUME NEW id \in Ids, RetryCheck(id) PROVE IInv'
  <2>1. TypeOK'
    BY <1>7 DEF RetryCheck, Retryable, IInv, TypeOK, CurrentIds
  <2>2. \A i \in Ids : Said(i)' = Said(i)
    BY <1>7 DEF RetryCheck, Retryable, IInv, TypeOK, CurrentIds, Said
  <2>3. CurrentIds'
    BY <1>7, <2>1, <2>2 DEF RetryCheck, Retryable, IInv, TypeOK,
       CurrentIds
  <2>4. RetryingEnded'
    BY <1>7, <2>1, <2>2 DEF RetryCheck, Retryable, IInv, TypeOK,
       RetryingEnded, OutcomeEndsWorker, AnnouncedAsListed, EndedIsStamped
  <2>5. FinishedIsDurable' /\ CancelReachesJob' /\ CancelsMatchWorkers' /\
        AnnouncedAsListed' /\ RetryOverlapsOnlyCanceled' /\ LiveIsListed' /\
        EndedIsStamped' /\ OutcomeEndsWorker' /\ UnfinishedUnsaid' /\
        FileSaysCanceled'
    BY <1>7, <2>1, <2>2 DEF RetryCheck, Retryable, IInv, TypeOK,
       FinishedIsDurable, CancelReachesJob, CancelsMatchWorkers,
       AnnouncedAsListed, RetryOverlapsOnlyCanceled, LiveIsListed,
       EndedIsStamped, OutcomeEndsWorker, UnfinishedUnsaid,
       FileSaysCanceled
  <2> QED
    BY <2>1, <2>3, <2>4, <2>5 DEF IInv
<1>8. ASSUME NEW save \in Saves, Prune(save) PROVE IInv'
  <2>1. /\ file' \in [Ids -> {t \in Task : Finished(t)} \cup {NoTask}]
        /\ unsaved' \subseteq Ids
        /\ failures' \in 0..MaxFailedSaves
        /\ \/ /\ unsaved' = {}
              /\ \A i \in Ids : file'[i] =
                   IF i \in listed' /\ Finished(tasks[i]) THEN tasks[i] ELSE NoTask
           \/ unsaved \subseteq unsaved' /\ file' = file
           \/ unsaved \cup listed' \subseteq unsaved' /\ file' = NoEntries
    <3>1. listed' \in SUBSET Ids /\ tasks \in [Ids -> Task \cup {NoTask}] /\ {} \in SUBSET Ids
      BY <1>8 DEF Prune, IInv, TypeOK
    <3>2. saveLocked(tasks, listed', {}, save)
      BY <1>8 DEF Prune
    <3> QED
      BY <3>1, <3>2, SaveStep DEF IInv
  <2>2. /\ listed' \subseteq listed
        /\ \A i \in listed : ~Finished(tasks[i]) => i \in listed'
    BY <1>8 DEF Prune, Expired, IInv, TypeOK, CurrentIds
  <2>3. TypeOK'
    BY <1>8, <2>1, <2>2 DEF Prune, Expired, IInv, TypeOK,
       CurrentIds
  <2>4. \A i \in Ids : Said(i)' = Said(i)
    BY <1>8 DEF Prune, Expired, IInv, TypeOK, CurrentIds, Said
  <2>5. FinishedIsDurable'
    BY <1>8, <2>1, <2>2, <2>3, <2>4 DEF Prune, Expired, IInv,
       TypeOK, FinishedIsDurable, EndedIsStamped
  <2>6. AnnouncedAsListed'
    BY <1>8, <2>1, <2>2, <2>3, <2>4 DEF Prune, Expired, IInv,
       TypeOK, AnnouncedAsListed
  <2>7. LiveIsListed'
    BY <1>8, <2>1, <2>2, <2>3, <2>4 DEF Prune, Expired, IInv,
       TypeOK, LiveIsListed
  <2>8. FileSaysCanceled'
    <3>1. forgotten' = forgotten /\ tasks' = tasks
      BY <1>8 DEF Prune
    <3>2. CASE unsaved' = {} /\ \A i \in Ids : file'[i] =
                 IF i \in listed' /\ Finished(tasks[i]) THEN tasks[i] ELSE NoTask
      BY <2>4, <2>6, <3>1, <3>2 DEF FileSaysCanceled, AnnouncedAsListed
    <3>3. CASE unsaved \subseteq unsaved' /\ file' = file
      BY <2>4, <3>1, <3>3 DEF IInv, FileSaysCanceled
    <3>4. CASE file' = NoEntries
      BY <3>4 DEF NoEntries, FileSaysCanceled
    <3> QED
      BY <2>1, <3>2, <3>3, <3>4
  <2>9. CancelReachesJob' /\ CancelsMatchWorkers' /\
        RetryOverlapsOnlyCanceled' /\ CurrentIds' /\ EndedIsStamped' /\
        OutcomeEndsWorker' /\ UnfinishedUnsaid' /\ RetryingEnded'
    BY <1>8, <2>1, <2>2, <2>3, <2>4 DEF Prune, Expired, IInv,
       TypeOK, CancelReachesJob, CancelsMatchWorkers,
       RetryOverlapsOnlyCanceled, CurrentIds, EndedIsStamped,
       OutcomeEndsWorker, UnfinishedUnsaid, RetryingEnded
  <2> QED
    BY <2>3, <2>5, <2>6, <2>7, <2>8, <2>9 DEF IInv
<1>9. CASE HourPasses
  <2>1. tasks' \in [Ids -> Task \cup {NoTask}]
    <3>1. ASSUME NEW i \in Ids PROVE tasks'[i] \in Task \cup {NoTask}
      <4>1. tasks[i] \in Task \cup {NoTask}
        BY DEF IInv, TypeOK
      <4>2. tasks'[i] = IF tasks[i].finished = "recent"
                          THEN [tasks[i] EXCEPT !.finished = "expired"] ELSE tasks[i]
        BY <1>9 DEF HourPasses
      <4> QED
        BY <4>1, <4>2
    <3>2. tasks' = [i \in Ids |-> tasks'[i]]
      BY <1>9 DEF HourPasses
    <3> HIDE DEF Task, NoTask
    <3> QED
      BY <3>1, <3>2
  <2>2. /\ \A i \in Ids : tasks'[i].status = tasks[i].status /\ file'[i].status = file[i].status
        /\ \A i \in Ids : Finished(tasks'[i]) <=> Finished(tasks[i])
        /\ file' \in [Ids -> {t \in Task : Finished(t)} \cup {NoTask}]
    BY <1>9 DEF HourPasses, IInv, TypeOK, CurrentIds
  <2>3. TypeOK'
    BY <1>9, <2>1, <2>2 DEF HourPasses, IInv, TypeOK, CurrentIds
  <2>4. \A i \in Ids : Said(i)' = Said(i)
    BY <1>9 DEF HourPasses, IInv, TypeOK, CurrentIds, Said
  <2>5. FinishedIsDurable' /\ CancelReachesJob' /\ CancelsMatchWorkers' /\
        AnnouncedAsListed' /\ RetryOverlapsOnlyCanceled' /\ LiveIsListed' /\
        CurrentIds' /\ EndedIsStamped' /\ OutcomeEndsWorker' /\
        UnfinishedUnsaid' /\ FileSaysCanceled' /\ RetryingEnded'
    BY <1>9, <2>1, <2>2, <2>3, <2>4 DEF HourPasses, IInv, TypeOK,
       FinishedIsDurable, CancelReachesJob, CancelsMatchWorkers,
       AnnouncedAsListed, RetryOverlapsOnlyCanceled, LiveIsListed,
       CurrentIds, EndedIsStamped, OutcomeEndsWorker, UnfinishedUnsaid,
       FileSaysCanceled, RetryingEnded
  <2> QED
    BY <2>3, <2>5 DEF IInv
<1>10. CASE Restart
  <2>1. tasks' \in [Ids -> Task \cup {NoTask}]
    <3>1. file' \in [Ids -> Task \cup {NoTask}]
      BY <1>10 DEF Restart, NoEntries, IInv, TypeOK
    <3> QED
      BY <1>10, <3>1 DEF Restart, WithPersistence
  <2>2. /\ seq' = 0 /\ jobs' = {} /\ file' \in {file, NoEntries} /\ tasks' = file'
        /\ \A i \in Ids : worker'[i] = "none" /\ parent'[i] = NoParent
        /\ listed' = {i \in Ids : file'[i] # NoTask}
        /\ \A i \in Ids : announced'[i] = IF i \in listed' THEN announced[i] ELSE {}
        /\ unsaved' = {} /\ forgotten' = listed' \cap (forgotten \cup unsaved)
        /\ UNCHANGED failures
    BY <1>10 DEF Restart, WithPersistence, IInv, TypeOK, CurrentIds
  <2>3. /\ listed' \subseteq Ids /\ life' \in 0..MaxRestarts
        /\ seq' \in 0..MaxTasks /\ calls' = {} /\ jobs' = {} /\ cancels' = {}
        /\ signalled' = {} /\ retrying' = {}
        /\ worker' = [i \in Ids |-> "none"] /\ parent' = [i \in Ids |-> NoParent]
        /\ announced' \in [Ids -> SUBSET Terminal]
        /\ file' \in [Ids -> {t \in Task : Finished(t)} \cup {NoTask}]
    <3>2. life' \in 0..MaxRestarts
      BY <1>10 DEF Restart, IInv, TypeOK
    <3>3. listed' \subseteq Ids
      BY <1>10 DEF Restart, WithPersistence
    <3>4. announced' \in [Ids -> SUBSET Terminal]
      BY <1>10 DEF Restart, IInv, TypeOK
    <3>5. file' \in [Ids -> {t \in Task : Finished(t)} \cup {NoTask}]
      BY <2>2 DEF NoEntries, IInv, TypeOK
    <3> QED
      BY <1>10, <3>2, <3>3, <3>4, <3>5 DEF Restart, WithPersistence
  <2>4. TypeOK'
    BY <2>1, <2>2, <2>3 DEF IInv, TypeOK
  <2>5. \A i \in Ids : Said(i)' \subseteq Said(i)
    BY <1>10 DEF Restart, WithPersistence, IInv, TypeOK, CurrentIds, Said
  <2>6. FinishedIsDurable'
    BY <2>1, <2>2, <2>3, <2>4, <2>5 DEF IInv, TypeOK, FinishedIsDurable
  <2>7. AnnouncedAsListed'
    <3>1. \A i \in listed' : file'[i] = file[i] /\ tasks'[i] = file[i] /\ i \in Ids
      BY <2>2 DEF NoEntries
    <3> QED
      BY <2>2, <2>3, <2>5, <3>1 DEF IInv, AnnouncedAsListed, FileSaysCanceled
  <2>8. CancelsMatchWorkers'
    BY <2>1, <2>2, <2>3, <2>4, <2>5 DEF IInv, TypeOK, CancelsMatchWorkers
  <2>9. CurrentIds'
    BY <2>1, <2>2, <2>3, <2>4, <2>5 DEF IInv, TypeOK, CurrentIds
  <2>10. EndedIsStamped'
    BY <2>1, <2>2, <2>3, <2>4, <2>5 DEF IInv, TypeOK, EndedIsStamped
  <2>11. FileSaysCanceled'
    <3>1. \A i \in Ids : file'[i].status = "canceled" => i \in listed' /\ file'[i] = file[i]
      BY <2>2 DEF NoEntries
    <3> QED
      BY <2>2, <2>5, <3>1 DEF IInv, FileSaysCanceled
  <2>12. CancelReachesJob' /\ RetryOverlapsOnlyCanceled' /\ LiveIsListed' /\
        OutcomeEndsWorker' /\ UnfinishedUnsaid' /\ RetryingEnded'
    BY <2>1, <2>2, <2>3, <2>4, <2>5 DEF IInv, TypeOK, CancelReachesJob,
       RetryOverlapsOnlyCanceled, LiveIsListed, OutcomeEndsWorker,
       UnfinishedUnsaid, RetryingEnded
  <2> QED
    BY <2>4, <2>6, <2>7, <2>8, <2>9, <2>10, <2>11, <2>12 DEF IInv
<1>11. CASE UNCHANGED vars
  <2>1. \A i : Said(i)' = Said(i)
    BY <1>11 DEF vars, Said
  <2> QED
    BY <1>11, <2>1 DEF vars, IInv, TypeOK, FinishedIsDurable,
       CancelReachesJob, CancelsMatchWorkers, AnnouncedAsListed,
       RetryOverlapsOnlyCanceled, LiveIsListed, CurrentIds,
       EndedIsStamped, OutcomeEndsWorker, UnfinishedUnsaid,
       FileSaysCanceled, RetryingEnded
<1> QED
  BY <1>1, <1>2, <1>3, <1>4, <1>5, <1>6, <1>7, <1>8, <1>9, <1>10, <1>11 DEF
     Next

\* The empty manager satisfies it.
LEMMA Initial == Init => IInv
<1> SUFFICES ASSUME Init PROVE IInv
  OBVIOUS
<1> USE BoundsAssumption DEF Ids, Task, NoTask, NoParent, Live, Terminal, Outcomes,
       Stamps, Finished, Init
<1>1. TypeOK
  <2>1. seq \in 0..MaxTasks /\ life \in 0..MaxRestarts
    OBVIOUS
  <2>2. failures \in 0..MaxFailedSaves /\ unsaved \subseteq Ids /\ forgotten \subseteq Ids
        /\ listed \subseteq Ids /\ jobs \subseteq Ids
        /\ cancels \subseteq Ids /\ signalled \subseteq Ids /\ retrying \subseteq Ids
        /\ calls \subseteq Ids \X Terminal
    OBVIOUS
  <2>3. tasks \in [Ids -> Task \cup {NoTask}]
        /\ file \in [Ids -> {t \in Task : Finished(t)} \cup {NoTask}]
    BY DEF NoEntries
  <2>4. worker \in [Ids -> {"none", "spawned", "working"}]
        /\ announced \in [Ids -> SUBSET Terminal]
        /\ parent \in [Ids -> Ids \cup {NoParent}]
    OBVIOUS
  <2> QED
    BY <2>1, <2>2, <2>3, <2>4 DEF TypeOK
<1>2. \A id \in Ids : Said(id) = {}
  BY DEF Said
<1>3. FinishedIsDurable /\ CancelReachesJob /\ CancelsMatchWorkers /\ LiveIsListed
  BY DEF FinishedIsDurable, CancelReachesJob, CancelsMatchWorkers, LiveIsListed
<1>4. AnnouncedAsListed /\ RetryOverlapsOnlyCanceled
  BY <1>2 DEF AnnouncedAsListed, RetryOverlapsOnlyCanceled
<1>5. CurrentIds
  BY DEF CurrentIds
<1>6. EndedIsStamped /\ OutcomeEndsWorker
  BY DEF EndedIsStamped, OutcomeEndsWorker
<1>7. UnfinishedUnsaid /\ FileSaysCanceled /\ RetryingEnded
  BY <1>2 DEF UnfinishedUnsaid, FileSaysCanceled, RetryingEnded
<1> QED
  BY <1>1, <1>3, <1>4, <1>5, <1>6, <1>7 DEF IInv

\* The strengthened invariant holds in every reachable state of the manager
\* (internal/tasks/tasks.go), for any number of tasks and restarts.
THEOREM Invariance == Spec => []IInv
<1>1. Init => IInv
  BY Initial
<1>2. IInv /\ [Next]_vars => IInv'
  BY Inductive
<1> QED
  BY <1>1, <1>2, PTL DEF Spec

\* The variables keep their types; unfinished tasks are never written to the
\* file (the filter of saveLocked).
THEOREM TypeCorrect == Spec => []TypeOK
<1>1. IInv => TypeOK
  BY DEF IInv
<1> QED
  BY <1>1, Invariance, PTL

\* What a client can read as finished is what a restart would restore, but for
\* the ends whose save failed and that no later save has made up for: every path
\* that ends a task saves the whole list (finish, Cancel, Prune).
THEOREM Durability == Spec => []FinishedIsDurable
<1>1. IInv => FinishedIsDurable
  BY DEF IInv
<1> QED
  BY <1>1, Invariance, PTL

\* A canceled task whose body still runs has had its context cancelled, and
\* m.cancels holds the cancel functions of the executing bodies and no other.
THEOREM Cancellation == Spec => [](CancelReachesJob /\ CancelsMatchWorkers)
<1>1. IInv => CancelReachesJob /\ CancelsMatchWorkers
  BY DEF IInv
<1> QED
  BY <1>1, Invariance, PTL

\* The status a client reads and the statuses given to the completion callback
\* agree, whether the saves succeed or not: a canceled task is never announced as
\* succeeded or failed.  A restart after a failed save is the one exception.
THEOREM Announcement == Spec => []AnnouncedAsListed
<1>1. IInv => AnnouncedAsListed
  BY DEF IInv
<1> QED
  BY <1>1, Invariance, PTL

\* A retry runs beside the task it retries only when that one was canceled, and
\* Prune never removes a task whose job has still to report.
THEOREM RetryAndPrune == Spec => [](RetryOverlapsOnlyCanceled /\ LiveIsListed)
<1>1. IInv => RetryOverlapsOnlyCanceled /\ LiveIsListed
  BY DEF IInv
<1> QED
  BY <1>1, Invariance, PTL

=============================================================================
