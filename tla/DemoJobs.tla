------------------------------ MODULE DemoJobs ------------------------------
(***************************************************************************)
(* The job store of scripts/serve_demo.py: POST handler threads, one       *)
(* worker thread per job, the native pixal3d processes, the job            *)
(* directories, and GET .../output handler threads.                        *)
(*                                                                         *)
(* A section under DemoState.lock is atomic.  An action ends where another *)
(* thread can come between: where the lock is given up with a decision     *)
(* still to be used, or where the thread blocks.  Job logs, progress       *)
(* figures and stage texts are not represented.                            *)
(***************************************************************************)
EXTENDS Integers, FiniteSets

CONSTANTS
    Requests,     (* POST /api/generate requests; r also names its job *)
    Readers,      (* GET /api/jobs/<id>/output requests *)
    MaxJobs,      (* --max-jobs *)
    MaxRunning,   (* --max-running-jobs *)
    TimeoutSet,   (* is --job-timeout positive? *)
    MaxLines      (* bound: lines one native process prints *)

ASSUME LimitsAssumption ==
    /\ IsFiniteSet(Requests)
    /\ MaxJobs \in Nat \ {0} /\ MaxRunning \in Nat \ {0} /\ MaxLines \in Nat
    /\ TimeoutSet \in BOOLEAN

VARIABLES
    jobs,      (* keys of DemoState.jobs *)
    status,    (* job["status"], or "forgotten" once the key is popped *)
    endedAt,   (* job["ended_at"], 0 for None *)
    now,       (* time.time(): one tick per time stamp taken *)
    permits,   (* value of the semaphore DemoState.running *)
    post,      (* progress of each POST handler *)
    worker,    (* progress of each _run_job thread *)
    outcome,   (* the status a worker has decided on and not yet stored *)
    stamp,     (* the time it took for ended_at before taking the lock *)
    expired,   (* time.monotonic() is past this worker's deadline *)
    native,    (* the pixal3d process of a job *)
    code,      (* its exit code *)
    printed,   (* lines it has printed *)
    pipe,      (* lines of them not yet read *)
    dirs,      (* job directories that exist *)
    inputs,    (* jobs whose uploaded image is on disk, whole *)
    output,    (* output.glb of each job *)
    get,       (* progress of each GET .../output handler *)
    asked,     (* the job it was asked for *)
    body       (* what it read and sent *)

table == <<jobs, status, endedAt>>
decision == <<outcome, stamp, now>>
natives == <<native, code, printed, pipe>>
files == <<dirs, inputs, output>>
readers == <<get, asked, body>>
vars == <<table, decision, permits, worker, expired, natives, files, readers, post>>

PostPc == {"idle", "admitted", "started", "accepted", "gone", "refused", "failed"}
WorkerPc == {"none", "waiting", "launching", "checking", "draining",
             "finishing", "releasing", "done"}
Finished == {"complete", "error"}
GetPc == {"idle", "located", "sent", "notfound", "conflict", "failed"}

TypeOK ==
    /\ jobs \subseteq Requests /\ dirs \subseteq Requests /\ inputs \subseteq Requests
    /\ status \in [Requests -> {"none", "queued", "running", "forgotten"} \cup Finished]
    /\ endedAt \in [Requests -> Nat] /\ stamp \in [Requests -> Nat] /\ now \in Nat
    /\ permits \in Nat
    /\ post \in [Requests -> PostPc]
    /\ worker \in [Requests -> WorkerPc]
    /\ outcome \in [Requests -> {"none"} \cup Finished]
    /\ expired \in [Requests -> BOOLEAN]
    /\ native \in [Requests -> {"none", "live", "exiting", "exited"}]
    /\ code \in [Requests -> {"none", "zero", "nonzero"}]
    /\ printed \in [Requests -> 0..MaxLines] /\ pipe \in [Requests -> Nat]
    /\ output \in [Requests -> {"absent", "partial", "whole"}]
    /\ get \in [Readers -> GetPc]
    /\ asked \in [Readers -> Requests \cup {"none"}]
    /\ body \in [Readers -> {"none", "partial", "whole"}]
    /\ \A g \in Readers : get[g] = "located" => asked[g] \in Requests

Init ==
    /\ jobs = {} /\ dirs = {} /\ inputs = {}
    /\ now = 0
    /\ permits = MaxRunning
    /\ \E nothing \in {[r \in Requests |-> "none"]} :
        status = nothing /\ worker = nothing /\ outcome = nothing
        /\ native = nothing /\ code = nothing
    /\ \E zero \in {[r \in Requests |-> 0]} :
        endedAt = zero /\ stamp = zero /\ printed = zero /\ pipe = zero
    /\ post = [r \in Requests |-> "idle"]
    /\ expired = [r \in Requests |-> FALSE]
    /\ output = [r \in Requests |-> "absent"]
    /\ get = [g \in Readers |-> "idle"]
    /\ asked = [g \in Readers |-> "none"] /\ body = [g \in Readers |-> "none"]

-----------------------------------------------------------------------------
(* POST /api/generate.                                                     *)

(* Faults: pruning also takes jobs that wait, or jobs that run.            *)
Fault_PruneQueued == {r \in jobs : status[r] # "running"}
Fault_PruneRunning == {r \in jobs : status[r] # "queued"}

FinishedJobs == {r \in jobs : status[r] \in Finished}

(* Fault: one job too many goes.                                           *)
Fault_Pruned ==
    {r \in FinishedJobs :
        Cardinality({q \in FinishedJobs : endedAt[q] < endedAt[r]})
            <= Cardinality(jobs) - MaxJobs + 1}

(* The jobs _prune_finished_jobs_locked pops from the sorted list, oldest  *)
(* first, as long as the table has max_jobs entries.                       *)
Pruned ==
    {r \in FinishedJobs :
        Cardinality({q \in FinishedJobs : endedAt[q] < endedAt[r]})
            <= Cardinality(jobs) - MaxJobs}

(* Fault: the queue is looked at before it is pruned.                      *)
Fault_Fits == Cardinality(jobs) < MaxJobs

(* `active >= self.max_jobs` fails after pruning.                          *)
Fits == Cardinality(jobs \ Pruned) < MaxJobs

(* Pruned jobs leave the table and the jobs in new enter it as queued.     *)
(* shutil.rmtree(..., ignore_errors=True) may leave a directory behind.    *)
Prune(new) ==
    /\ jobs' = (jobs \ Pruned) \cup new
    /\ status' = [r \in Requests |-> IF r \in new THEN "queued"
                                     ELSE IF r \in Pruned THEN "forgotten"
                                     ELSE status[r]]
    /\ endedAt' = [r \in Requests |-> IF r \in Pruned THEN 0 ELSE endedAt[r]]
    /\ \E removed \in SUBSET Pruned :
        /\ dirs' = (dirs \ removed) \cup new
        /\ inputs' = inputs \ removed
        /\ output' = [r \in Requests |->
                        IF r \in removed THEN "absent" ELSE output[r]]

(* DemoState.new_job: the job is stored, or refused with 503 because the   *)
(* queue is still full after pruning, or its mkdir raises; what was pruned *)
(* is gone in every case.                                                  *)
NewJob(r) ==
    /\ post[r] = "idle"
    /\ \E result \in (IF Fits THEN {"admitted", "failed"} ELSE {"refused"}) :
        /\ Prune(IF result = "admitted" THEN {r} ELSE {})
        /\ post' = [post EXCEPT ![r] = result]
    /\ UNCHANGED <<decision, permits, worker, expired, natives, readers>>

(* write_input and start_job: the image is written and a thread started,   *)
(* or the job is gone (404), or either call raises (500).                  *)
WriteAndStart(r) ==
    /\ post[r] = "admitted"
    /\ \E result \in (IF r \in jobs THEN {"started", "failed"} ELSE {"gone"}),
          written \in SUBSET ({r} \cap dirs) :
        /\ result = "started" => r \in written
        /\ inputs' = inputs \cup written
        /\ post' = [post EXCEPT ![r] = result]
        /\ worker' = IF result = "started" THEN [worker EXCEPT ![r] = "waiting"]
                                           ELSE worker
    /\ UNCHANGED <<table, decision, permits, expired, natives, dirs, output, readers>>

(* The answer to the POST takes a snapshot of the job: 202, or 404 when    *)
(* the job has come and gone in the meantime.                              *)
Answer(r) ==
    /\ post[r] = "started"
    /\ post' = [post EXCEPT ![r] = IF r \in jobs THEN "accepted" ELSE "gone"]
    /\ UNCHANGED <<table, decision, permits, worker, expired, natives, files, readers>>

-----------------------------------------------------------------------------
(* DemoState._run_job, one worker thread per started job.                  *)

Goto(r, pc) == worker' = [worker EXCEPT ![r] = pc]

(* DemoState._set_job(status=...): no effect on a job no longer stored.    *)
SetStatus(r, s) ==
    status' = IF r \in jobs THEN [status EXCEPT ![r] = s] ELSE status

(* The status to store is decided and ended_at=time.time() evaluated; the  *)
(* lock is taken later, in Store.                                          *)
Decide(r, s) ==
    /\ Goto(r, "finishing")
    /\ outcome' = [outcome EXCEPT ![r] = s]
    /\ now' = now + 1
    /\ stamp' = [stamp EXCEPT ![r] = now + 1]

(* Fault: the worker does not wait for a permit.                           *)
Fault_AlwaysFree == TRUE

PermitFree == permits > 0

(* The semaphore is acquired and the job set running; looking it up is a   *)
(* KeyError when it is gone.                                               *)
Acquire(r) ==
    /\ worker[r] = "waiting"
    /\ PermitFree
    /\ permits' = permits - 1
    /\ SetStatus(r, "running")
    /\ IF r \in jobs
       THEN Goto(r, "launching") /\ UNCHANGED decision
       ELSE Decide(r, "error")
    /\ UNCHANGED <<jobs, endedAt, expired, natives, files, readers, post>>

(* subprocess.Popen, or the OSError it raises.                             *)
Launch(r) ==
    /\ worker[r] = "launching"
    /\ \/ /\ native' = [native EXCEPT ![r] = "live"]
          /\ Goto(r, "checking")
          /\ UNCHANGED decision
       \/ Decide(r, "error") /\ UNCHANGED native
    /\ UNCHANGED <<table, permits, expired, code, printed, pipe, files, readers, post>>

(* Faults: the loop does not look at the deadline; a process is killed and *)
(* nobody is told.                                                         *)
Fault_NoDeadline(r) == FALSE
Fault_QuietKill(r) == Goto(r, "releasing") /\ UNCHANGED decision

Overdue(r) == expired[r]
TimeOut(r) == Decide(r, "error")

(* The head of the supervision loop: kill the process past the deadline,   *)
(* else read its output.  Killing a process that has exited does nothing.  *)
CheckDeadline(r) ==
    /\ worker[r] = "checking"
    /\ IF Overdue(r)
       THEN /\ TimeOut(r)
            /\ native' = [native EXCEPT ![r] = "exited"]
            /\ code' = [code EXCEPT ![r] = IF native[r] = "exited" THEN @ ELSE "nonzero"]
       ELSE /\ Goto(r, "draining")
            /\ UNCHANGED <<decision, native, code>>
    /\ UNCHANGED <<table, permits, expired, printed, pipe, files, readers, post>>

(* Faults: the loop has no exit; the return code is not looked at.         *)
Fault_NeverEnds(r) == FALSE
Fault_AnyCode(r) == output[r] # "absent"

HasEnded(r) == native[r] = "exited"
Produced(r) == code[r] = "zero" /\ output[r] # "absent"

(* process.stdout.readline() blocks until there is a line or end of file.  *)
(* A line that does not decode raises; `except Exception` then fails the   *)
(* job and leaves the process running.  At end of file the job is judged   *)
(* by its exit code and its file, once poll() says that it has exited.     *)
ReadLine(r) ==
    /\ worker[r] = "draining"
    /\ \/ /\ pipe[r] > 0
          /\ pipe' = [pipe EXCEPT ![r] = @ - 1]
          /\ \/ Goto(r, "checking") /\ UNCHANGED decision
             \/ Decide(r, "error")
       \/ /\ pipe[r] = 0
          /\ native[r] \in {"exiting", "exited"}
          /\ IF HasEnded(r)
             THEN Decide(r, IF Produced(r) THEN "complete" ELSE "error")
             ELSE Goto(r, "checking") /\ UNCHANGED decision
          /\ UNCHANGED pipe
    /\ UNCHANGED <<table, permits, expired, native, code, printed, files, readers, post>>

(* _set_job(status=..., ended_at=...), also as the last step of _fail_job. *)
(* The worker's local variables end here.                                  *)
Store(r) ==
    /\ worker[r] = "finishing"
    /\ SetStatus(r, outcome[r])
    /\ endedAt' = IF r \in jobs THEN [endedAt EXCEPT ![r] = stamp[r]] ELSE endedAt
    /\ Goto(r, "releasing")
    /\ outcome' = [outcome EXCEPT ![r] = "none"]
    /\ stamp' = [stamp EXCEPT ![r] = 0]
    /\ expired' = [expired EXCEPT ![r] = FALSE]
    /\ UNCHANGED <<jobs, permits, now, natives, files, readers, post>>

(* Fault: the permit is lost.                                              *)
Fault_KeepPermit == permits' = permits

GiveBack == permits' = permits + 1

(* `finally: self.running.release()`.                                      *)
Release(r) ==
    /\ worker[r] = "releasing"
    /\ GiveBack
    /\ Goto(r, "done")
    /\ UNCHANGED <<table, decision, expired, natives, files, readers, post>>

(* The deadline passes while the supervision loop runs.                    *)
Expire(r) ==
    /\ TimeoutSet
    /\ worker[r] \in {"checking", "draining"}
    /\ ~expired[r]
    /\ expired' = [expired EXCEPT ![r] = TRUE]
    /\ UNCHANGED <<table, decision, permits, worker, natives, files, readers, post>>

-----------------------------------------------------------------------------
(* The native process, as the worker sees it.                              *)

(* A line goes to the pipe.  Once _run_job has returned the pipe has no    *)
(* reader and writing to it ends the process (SIGPIPE).                    *)
PrintLine(r) ==
    /\ native[r] = "live"
    /\ printed[r] < MaxLines
    /\ printed' = [printed EXCEPT ![r] = @ + 1]
    /\ IF worker[r] = "done"
       THEN /\ native' = [native EXCEPT ![r] = "exited"]
            /\ code' = [code EXCEPT ![r] = "nonzero"]
            /\ UNCHANGED pipe
       ELSE /\ pipe' = [pipe EXCEPT ![r] = @ + 1]
            /\ UNCHANGED <<native, code>>
    /\ UNCHANGED <<table, decision, permits, worker, expired, files, readers, post>>

(* output.glb is opened for writing.                                       *)
OpenOutput(r) ==
    /\ native[r] = "live" /\ r \in dirs /\ output[r] = "absent"
    /\ output' = [output EXCEPT ![r] = "partial"]
    /\ UNCHANGED <<table, decision, permits, worker, expired, natives, dirs, inputs,
                   readers, post>>

(* The process ends: 0 with the whole file or with none, else an error     *)
(* code and whatever is there.  Its end of the pipe closes.                *)
Exit(r) ==
    /\ native[r] = "live"
    /\ native' = [native EXCEPT ![r] = "exiting"]
    /\ \/ code' = [code EXCEPT ![r] = "nonzero"] /\ UNCHANGED output
       \/ /\ code' = [code EXCEPT ![r] = "zero"]
          /\ output' = [output EXCEPT ![r] = IF @ = "absent" THEN @ ELSE "whole"]
    /\ UNCHANGED <<table, decision, permits, worker, expired, printed, pipe, dirs,
                   inputs, readers, post>>

(* It has exited and poll() can tell.                                      *)
Exited(r) ==
    /\ native[r] = "exiting"
    /\ native' = [native EXCEPT ![r] = "exited"]
    /\ UNCHANGED <<table, decision, permits, worker, expired, code, printed, pipe,
                   files, readers, post>>

-----------------------------------------------------------------------------
(* GET /api/jobs/<id>/output.                                              *)

(* Fault: any stored job may be downloaded.                                *)
Fault_AnyStatus(r) == TRUE

MayDownload(r) == status[r] = "complete"

(* DemoState.output_path, under the lock.                                  *)
Locate(g, r) ==
    /\ get[g] = "idle"
    /\ get' = [get EXCEPT ![g] = IF r \notin jobs THEN "notfound"
                                 ELSE IF MayDownload(r) THEN "located" ELSE "conflict"]
    /\ asked' = [asked EXCEPT ![g] = r]
    /\ UNCHANGED <<table, decision, permits, worker, expired, natives, files, body, post>>

(* The file is looked for and read without the lock: it may be gone (404), *)
(* or read_bytes raises because it goes just then (500).                   *)
SendFile(g) ==
    /\ get[g] = "located"
    /\ \/ /\ output[asked[g]] = "absent"
          /\ get' = [get EXCEPT ![g] = "notfound"] /\ UNCHANGED body
       \/ /\ output[asked[g]] # "absent"
          /\ get' = [get EXCEPT ![g] = "sent"]
          /\ body' = [body EXCEPT ![g] = output[asked[g]]]
       \/ get' = [get EXCEPT ![g] = "failed"] /\ UNCHANGED body
    /\ UNCHANGED <<table, decision, permits, worker, expired, natives, files, asked, post>>

-----------------------------------------------------------------------------
HandlerStep(r) == WriteAndStart(r) \/ Answer(r)
WorkerStep(r) ==
    Acquire(r) \/ Launch(r) \/ CheckDeadline(r) \/ ReadLine(r) \/ Store(r) \/ Release(r)
NativeStep(r) == PrintLine(r) \/ OpenOutput(r) \/ Exit(r) \/ Exited(r)

Next ==
    \/ \E r \in Requests :
        NewJob(r) \/ HandlerStep(r) \/ WorkerStep(r) \/ Expire(r) \/ NativeStep(r)
    \/ \E g \in Readers : SendFile(g) \/ \E r \in Requests : Locate(g, r)

Spec == Init /\ [][Next]_vars

(* The server's threads keep running.  Whether a deadline comes before the *)
(* job is done is left open, and whether the native process makes progress *)
(* is not the server's doing.                                              *)
ServerFairness ==
    \A r \in Requests : WF_vars(HandlerStep(r)) /\ WF_vars(WorkerStep(r))
NativeFairness == \A r \in Requests : WF_vars(NativeStep(r))

SpecServer == Spec /\ ServerFairness

-----------------------------------------------------------------------------
(* Properties.                                                             *)

Supervised(r) == worker[r] \in {"checking", "draining"}
Alive(r) == native[r] \in {"live", "exiting"}
Unfinished(r) ==
    post[r] = "admitted" \/ worker[r] \in WorkerPc \ {"none", "releasing", "done"}
Holders == {r \in Requests : worker[r] \in WorkerPc \ {"none", "waiting", "done"}}

(* No more jobs are stored than --max-jobs: pruning and the admission test *)
(* of new_job leave room for the job being added.                          *)
RetainedWithinLimit == Cardinality(jobs) <= MaxJobs

(* A permit is back in the semaphore exactly when its worker is done, on   *)
(* every path out of _run_job: early returns, exceptions and kills.        *)
PermitsAccounted == permits = MaxRunning - Cardinality(Holders)

(* Pruning never takes a job that a POST handler or a worker still needs,  *)
(* so write_input and _run_job always find theirs, unfinished.             *)
UnfinishedIsStored ==
    \A r \in Requests : Unfinished(r) => r \in jobs /\ status[r] \notin Finished

(* As long as a worker supervises a live process, the directory and the    *)
(* input image it was given are there: no rmtree under a running job.      *)
SupervisedKeepsFiles ==
    \A r \in Requests : Alive(r) /\ Supervised(r) => r \in dirs \cap inputs

(* A job shown as complete has its whole GLB on disk, from a process that  *)
(* returned 0.                                                             *)
CompleteIsWhole ==
    \A r \in jobs : status[r] = "complete" =>
        native[r] = "exited" /\ code[r] = "zero" /\ output[r] = "whole"

(* A download that is answered 200 carries a whole GLB, although the file  *)
(* is read after the lock is released and may be deleted at any time.      *)
DownloadsAreWhole == \A g \in Readers : get[g] = "sent" => body[g] = "whole"

(* What clients and processes are shown of the files of a job is never     *)
(* torn nor taken away from under them.                                    *)
FilesAreWhole == SupervisedKeepsFiles /\ CompleteIsWhole /\ DownloadsAreWhole

(* A POST answered 404 after its job was admitted is late, not lost: the   *)
(* job has run to its end and was pruned before the handler looked again.  *)
GoneMeansFinished ==
    \A r \in Requests : post[r] = "gone" =>
        r \notin jobs /\ worker[r] \in {"releasing", "done"}

(* Seen from outside, the store is a JobBoard, and a POST is told what the *)
(* board has: pruning makes room when there is something to prune and      *)
(* takes no more than needed, and a 404 after admission is only ever late. *)
BoardOf == [r \in Requests |-> IF status[r] = "none" THEN "absent" ELSE status[r]]
ToldOf == [r \in Requests |->
             IF post[r] \in {"idle", "admitted", "started"} THEN "nothing" ELSE post[r]]
Board == INSTANCE JobBoard WITH board <- BoardOf, told <- ToldOf
BoardSpec == Board!Spec

(* If native processes end, every job that was started finishes and its    *)
(* worker returns, however many jobs wait for the semaphore.               *)
StartedJobsFinish ==
    NativeFairness =>
        \A r \in Requests :
            (post[r] = "started")
                ~> (worker[r] = "done" /\ status[r] \in Finished \cup {"forgotten"})

(* The end of one process, or the end of its time, is noticed even if      *)
(* every other process hangs: once a process is past its deadline, one     *)
(* more line is enough to end it.                                          *)
ExitIsNoticed ==
    \A r \in Requests :
        /\ (native[r] = "exited" /\ Supervised(r)) ~> (worker[r] = "done")
        /\ (expired[r] /\ Supervised(r) /\ (worker[r] = "checking" \/ pipe[r] > 0))
             ~> (worker[r] = "done")
=============================================================================
