--------------------------- MODULE DemoJobsProofs ---------------------------
(***************************************************************************)
(* Theorems about DemoJobs, for any number of requests and readers and any *)
(* limits: the store stays within its limits, gives every permit back,     *)
(* never prunes a job in use, and implements the JobBoard.                 *)
(***************************************************************************)
EXTENDS DemoJobs, FiniteSetTheorems, WellFoundedInduction, TLAPS

(* One request acts.                                                       *)
RequestStep(r) ==
    NewJob(r) \/ HandlerStep(r) \/ WorkerStep(r) \/ Expire(r) \/ NativeStep(r)

(* A step of Next is a step of one request, or a reader's.                 *)
LEMMA NextCases ==
    ASSUME Next
    PROVE  \/ \E r \in Requests : RequestStep(r)
           \/ \E g \in Readers, r \in Requests : Locate(g, r)
           \/ \E g \in Readers : SendFile(g)
  BY DEF Next, RequestStep

(* Every variable keeps its type: no step stores a status or leaves a      *)
(* thread at a point the code does not have, and permits are never owed.   *)
THEOREM TypeCorrect == Spec => []TypeOK
<1>1. Init => TypeOK
  BY LimitsAssumption DEF Init, TypeOK, PostPc, WorkerPc, GetPc, Finished
<1>2. TypeOK /\ [Next]_vars => TypeOK'
  <2> SUFFICES ASSUME TypeOK, [Next]_vars PROVE TypeOK'
    OBVIOUS
  <2> USE LimitsAssumption DEF TypeOK, PostPc, WorkerPc, GetPc, Finished,
        table, decision, natives, files, readers, Goto, SetStatus, Decide
  <2>1. ASSUME NEW r \in Requests, NewJob(r) PROVE TypeOK'
    BY <2>1 DEF NewJob, Prune, Pruned, FinishedJobs
  <2>2. ASSUME NEW r \in Requests, WriteAndStart(r) PROVE TypeOK'
    BY <2>2 DEF WriteAndStart
  <2>3. ASSUME NEW r \in Requests, Answer(r) PROVE TypeOK'
    BY <2>3 DEF Answer
  <2>4. ASSUME NEW r \in Requests, Acquire(r) PROVE TypeOK'
    BY <2>4 DEF Acquire, PermitFree
  <2>5. ASSUME NEW r \in Requests, Launch(r) PROVE TypeOK'
    BY <2>5 DEF Launch
  <2>6. ASSUME NEW r \in Requests, CheckDeadline(r) PROVE TypeOK'
    BY <2>6 DEF CheckDeadline, TimeOut
  <2>7. ASSUME NEW r \in Requests, ReadLine(r) PROVE TypeOK'
    BY <2>7 DEF ReadLine
  <2>8. ASSUME NEW r \in Requests, Store(r) PROVE TypeOK'
    BY <2>8 DEF Store
  <2>9. ASSUME NEW r \in Requests, Release(r) PROVE TypeOK'
    BY <2>9 DEF Release, GiveBack
  <2>10. ASSUME NEW r \in Requests, Expire(r) PROVE TypeOK'
    BY <2>10 DEF Expire
  <2>11. ASSUME NEW r \in Requests, PrintLine(r) PROVE TypeOK'
    BY <2>11 DEF PrintLine
  <2>12. ASSUME NEW r \in Requests, OpenOutput(r) PROVE TypeOK'
    BY <2>12 DEF OpenOutput
  <2>13. ASSUME NEW r \in Requests, Exit(r) PROVE TypeOK'
    BY <2>13 DEF Exit
  <2>14. ASSUME NEW r \in Requests, Exited(r) PROVE TypeOK'
    BY <2>14 DEF Exited
  <2>15. ASSUME NEW g \in Readers, NEW r \in Requests, Locate(g, r) PROVE TypeOK'
    BY <2>15 DEF Locate
  <2>16. ASSUME NEW g \in Readers, SendFile(g) PROVE TypeOK'
    BY <2>16 DEF SendFile
  <2>17. CASE UNCHANGED vars
    BY <2>17 DEF vars
  <2> QED
    BY NextCases, <2>1, <2>2, <2>3, <2>4, <2>5, <2>6, <2>7, <2>8, <2>9, <2>10,
       <2>11, <2>12, <2>13, <2>14, <2>15, <2>16, <2>17
       DEF RequestStep, HandlerStep, WorkerStep, NativeStep
<1>3. QED
  BY <1>1, <1>2, PTL DEF Spec

-----------------------------------------------------------------------------
(* The inductive invariant of the store.  Each request is in one phase:    *)
(* what its handler and its worker are doing determines what the table     *)
(* says of its job.                                                        *)

Stored == {"queued", "running"} \cup Finished
Busy == WorkerPc \ {"none", "waiting", "done"}

TableMatches == \A r \in Requests : r \in jobs <=> status[r] \in Stored

PhaseMatches ==
    \A r \in Requests :
        /\ post[r] \in {"idle", "refused"} => status[r] = "none" /\ worker[r] = "none"
        /\ post[r] = "admitted" => status[r] = "queued" /\ worker[r] = "none"
        /\ post[r] = "failed" => worker[r] = "none" /\ status[r] \in {"none", "queued"}
        /\ post[r] \in {"started", "accepted", "gone"} => worker[r] # "none"
        /\ worker[r] = "waiting" => status[r] = "queued"
        /\ worker[r] \in Busy \ {"releasing"} => status[r] = "running"
        /\ worker[r] \in {"releasing", "done"} => status[r] \in Finished \cup {"forgotten"}
        /\ worker[r] = "finishing" => outcome[r] \in Finished
        /\ post[r] = "gone" => status[r] = "forgotten"

StoreInv == TypeOK /\ TableMatches /\ PhaseMatches

(* Only finished jobs are pruned.                                          *)
LEMMA PrunedAreFinished == Pruned \subseteq {r \in jobs : status[r] \in Finished}
  BY DEF Pruned, FinishedJobs

(* The phases are kept by every step of one request.                       *)
LEMMA PhaseStep ==
    ASSUME StoreInv, NEW r \in Requests, RequestStep(r)
    PROVE  (TableMatches /\ PhaseMatches)'
<1> USE DEF StoreInv, TypeOK, TableMatches, PhaseMatches, Stored, Busy,
      PostPc, WorkerPc, Finished,
      table, decision, natives, files, readers, Goto, SetStatus, Decide
<1>1. CASE NewJob(r)
  BY <1>1, PrunedAreFinished DEF NewJob, Prune
<1>2. CASE WriteAndStart(r)
  BY <1>2 DEF WriteAndStart
<1>3. CASE Answer(r)
  BY <1>3 DEF Answer
<1>4. CASE Acquire(r)
  BY <1>4 DEF Acquire
<1>5. CASE Launch(r)
  BY <1>5 DEF Launch
<1>6. CASE CheckDeadline(r)
  BY <1>6 DEF CheckDeadline, TimeOut
<1>7. CASE ReadLine(r)
  BY <1>7 DEF ReadLine
<1>8. CASE Store(r)
  BY <1>8 DEF Store
<1>9. CASE Release(r)
  BY <1>9 DEF Release
<1>10. CASE Expire(r) \/ NativeStep(r)
  BY <1>10 DEF Expire, NativeStep, PrintLine, OpenOutput, Exit, Exited
<1> QED
  BY <1>1, <1>2, <1>3, <1>4, <1>5, <1>6, <1>7, <1>8, <1>9, <1>10
     DEF RequestStep, HandlerStep, WorkerStep

(* A reader's step changes nothing of the store.                           *)
LEMMA ReaderStep ==
    ASSUME NEW g \in Readers,
           (\E r \in Requests : Locate(g, r)) \/ SendFile(g)
    PROVE  UNCHANGED <<table, permits, worker, outcome, post>>
  BY DEF Locate, SendFile, table, decision

LEMMA StoreInvariant == Spec => []StoreInv
<1>1. Init => StoreInv
  BY LimitsAssumption DEF Init, StoreInv, TypeOK, TableMatches, PhaseMatches,
     Stored, Busy, PostPc, WorkerPc, GetPc, Finished
<1>2. StoreInv /\ TypeOK' /\ [Next]_vars => StoreInv'
  <2> SUFFICES ASSUME StoreInv, TypeOK', [Next]_vars PROVE (TableMatches /\ PhaseMatches)'
    BY DEF StoreInv
  <2>1. CASE Next
    <3>1. CASE \E r \in Requests : RequestStep(r)
      BY <3>1, PhaseStep
    <3>2. CASE UNCHANGED <<table, permits, worker, outcome, post>>
      BY <3>2 DEF StoreInv, TableMatches, PhaseMatches, table
    <3> QED
      BY <2>1, <3>1, <3>2, NextCases, ReaderStep
  <2>2. CASE UNCHANGED vars
    BY <2>2 DEF StoreInv, TableMatches, PhaseMatches, vars, table, decision
  <2> QED
    BY <2>1, <2>2
<1>3. QED
  BY <1>1, <1>2, TypeCorrect, PTL DEF Spec

(* Pruning never takes a job that a POST handler or a worker still needs:  *)
(* the lookups of write_input and _run_job never fail.                     *)
THEOREM UnfinishedKept == Spec => []UnfinishedIsStored
<1>1. StoreInv => UnfinishedIsStored
  BY DEF StoreInv, TypeOK, TableMatches, PhaseMatches, UnfinishedIsStored, Unfinished,
     Stored, Busy, WorkerPc, Finished
<1>2. QED
  BY <1>1, StoreInvariant, PTL

(* A 404 to an admitted POST comes only after its job has run to its end.  *)
THEOREM GoneIsLate == Spec => []GoneMeansFinished
<1>1. StoreInv => GoneMeansFinished
  BY DEF StoreInv, TypeOK, TableMatches, PhaseMatches, GoneMeansFinished,
     Stored, Busy, WorkerPc, Finished
<1>2. QED
  BY <1>1, StoreInvariant, PTL

-----------------------------------------------------------------------------
(* The files.  What is on disk for a job follows from where its process    *)
(* and its worker are: a process starts once, and ends before its job can  *)
(* be seen as complete, so that nothing writes a file that may be sent.    *)

Sendable(r) == native[r] = "exited" /\ output[r] \in {"absent", "whole"}

ProcessMatches ==
    \A r \in Requests :
        /\ worker[r] \in {"none", "waiting", "launching"} => native[r] = "none"
        /\ native[r] = "none" => code[r] = "none"
        /\ code[r] = "zero" =>
             native[r] \in {"exiting", "exited"} /\ output[r] \in {"absent", "whole"}
        /\ status[r] = "complete" \/ (worker[r] = "finishing" /\ outcome[r] = "complete") =>
             native[r] = "exited" /\ code[r] = "zero" /\ output[r] = "whole"

DirectoriesMatch ==
    /\ jobs \subseteq dirs
    /\ \A r \in jobs : worker[r] # "none" => r \in inputs

ReadersMatch ==
    \A g \in Readers :
        /\ get[g] = "located" => Sendable(asked[g])
        /\ get[g] = "sent" => body[g] = "whole"

FileInv == StoreInv /\ ProcessMatches /\ DirectoriesMatch /\ ReadersMatch

(* Faithful to the phases, one request moves its files along.              *)
LEMMA FileStep ==
    ASSUME FileInv, NEW r \in Requests, RequestStep(r)
    PROVE  (ProcessMatches /\ DirectoriesMatch)'
<1> USE DEF FileInv, StoreInv, TypeOK, TableMatches, PhaseMatches, Stored, Busy,
      ProcessMatches, DirectoriesMatch, PostPc, WorkerPc, Finished,
      table, decision, natives, files, readers, Goto, SetStatus, Decide
<1>1. CASE NewJob(r)
  BY <1>1, PrunedAreFinished DEF NewJob, Prune
<1>2. CASE WriteAndStart(r)
  BY <1>2 DEF WriteAndStart
<1>3. CASE Answer(r)
  BY <1>3 DEF Answer
<1>4. CASE Acquire(r)
  BY <1>4 DEF Acquire
<1>5. CASE Launch(r)
  BY <1>5 DEF Launch
<1>6. CASE CheckDeadline(r)
  BY <1>6 DEF CheckDeadline, TimeOut
<1>7. CASE ReadLine(r)
  BY <1>7 DEF ReadLine, HasEnded, Produced
<1>8. CASE Store(r)
  BY <1>8 DEF Store
<1>9. CASE Release(r)
  BY <1>9 DEF Release
<1>10. CASE Expire(r) \/ NativeStep(r)
  BY <1>10 DEF Expire, NativeStep, PrintLine, OpenOutput, Exit, Exited
<1> QED
  BY <1>1, <1>2, <1>3, <1>4, <1>5, <1>6, <1>7, <1>8, <1>9, <1>10
     DEF RequestStep, HandlerStep, WorkerStep

(* What may be sent stays so: at most it is removed.                       *)
LEMMA SendableStays ==
    ASSUME FileInv, NEW r \in Requests, RequestStep(r), NEW q \in Requests, Sendable(q)
    PROVE  Sendable(q)'
<1> USE DEF FileInv, StoreInv, TypeOK, ProcessMatches, Sendable,
      table, decision, natives, files, readers, Goto, Decide
<1>1. CASE NewJob(r)
  BY <1>1 DEF NewJob, Prune
<1>2. CASE HandlerStep(r) \/ Expire(r)
  BY <1>2 DEF HandlerStep, WriteAndStart, Answer, Expire
<1>3. CASE WorkerStep(r)
  BY <1>3 DEF WorkerStep, Acquire, Launch, CheckDeadline, TimeOut, ReadLine, Store, Release
<1>4. CASE NativeStep(r)
  BY <1>4 DEF NativeStep, PrintLine, OpenOutput, Exit, Exited
<1> QED
  BY <1>1, <1>2, <1>3, <1>4 DEF RequestStep

LEMMA FileInvariant == Spec => []FileInv
<1>1. Init => FileInv
  <2> SUFFICES ASSUME Init PROVE FileInv
    OBVIOUS
  <2>1. StoreInv
    BY LimitsAssumption DEF Init, StoreInv, TypeOK, TableMatches, PhaseMatches,
       Stored, Busy, PostPc, WorkerPc, GetPc, Finished
  <2> QED
    BY <2>1 DEF Init, FileInv, ProcessMatches, DirectoriesMatch, ReadersMatch
<1>2. FileInv /\ StoreInv' /\ [Next]_vars => FileInv'
  <2> SUFFICES ASSUME FileInv, StoreInv', [Next]_vars
               PROVE  (ProcessMatches /\ DirectoriesMatch /\ ReadersMatch)'
    BY DEF FileInv
  <2>1. CASE \E r \in Requests : RequestStep(r)
    <3> PICK r \in Requests : RequestStep(r)
      BY <2>1
    <3>1. UNCHANGED readers
      BY DEF RequestStep, NewJob, HandlerStep, WriteAndStart, Answer, WorkerStep, Acquire,
         Launch, CheckDeadline, ReadLine, Store, Release, Expire, NativeStep, PrintLine,
         OpenOutput, Exit, Exited
    <3>2. ReadersMatch'
      BY <3>1, SendableStays DEF readers, ReadersMatch, FileInv, StoreInv, TypeOK
    <3> QED
      BY <3>2, FileStep
  <2>2. ASSUME NEW g \in Readers, NEW r \in Requests, Locate(g, r)
        PROVE  (ProcessMatches /\ DirectoriesMatch /\ ReadersMatch)'
    BY <2>2 DEF Locate, MayDownload, FileInv, StoreInv, TypeOK, ProcessMatches, DirectoriesMatch,
       ReadersMatch, Sendable, table, decision, natives, files
  <2>3. ASSUME NEW g \in Readers, SendFile(g)
        PROVE  (ProcessMatches /\ DirectoriesMatch /\ ReadersMatch)'
    BY <2>3 DEF SendFile, FileInv, StoreInv, TypeOK, ProcessMatches, DirectoriesMatch,
       ReadersMatch, Sendable, table, decision, natives, files
  <2>4. CASE UNCHANGED vars
    BY <2>4 DEF vars, FileInv, ProcessMatches, DirectoriesMatch, ReadersMatch, Sendable,
       table, decision, natives, files, readers
  <2> QED
    BY <2>1, <2>2, <2>3, <2>4, NextCases
<1>3. QED
  BY <1>1, <1>2, StoreInvariant, PTL DEF Spec

(* A process that is supervised has its directory and image, a job shown   *)
(* as complete its whole GLB, and a download that is sent is whole, however*)
(* many jobs run, are pruned and are read at once.                         *)
THEOREM FilesStayWhole == Spec => []FilesAreWhole
<1>1. FileInv => FilesAreWhole
  BY DEF FileInv, StoreInv, TypeOK, TableMatches, PhaseMatches, Stored, Busy, Finished, WorkerPc,
     ProcessMatches, DirectoriesMatch, ReadersMatch, FilesAreWhole, SupervisedKeepsFiles,
     CompleteIsWhole, DownloadsAreWhole, Supervised, Alive
<1>2. QED
  BY <1>1, FileInvariant, PTL

-----------------------------------------------------------------------------
(* The limits.                                                             *)

LEMMA JobsFinite == ASSUME TypeOK PROVE IsFiniteSet(jobs) /\ Cardinality(jobs) \in Nat
  BY LimitsAssumption, FS_Subset, FS_CardinalityType DEF TypeOK

(* new_job leaves at most max_jobs entries in the table.                   *)
LEMMA TableStep ==
    ASSUME StoreInv, RetainedWithinLimit, NEW r \in Requests, RequestStep(r)
    PROVE  RetainedWithinLimit'
<1>1. IsFiniteSet(jobs) /\ IsFiniteSet(jobs \ Pruned)
  BY JobsFinite, FS_Subset, jobs \ Pruned \subseteq jobs DEF StoreInv
<1>2. Cardinality(jobs) \in Nat /\ Cardinality(jobs \ Pruned) \in Nat
  BY <1>1, FS_CardinalityType
<1>3. Cardinality(jobs \ Pruned) <= Cardinality(jobs)
  BY <1>1, FS_Subset, jobs \ Pruned \subseteq jobs
<1>4. CASE NewJob(r) /\ post'[r] = "admitted"
  <2>1. jobs' = (jobs \ Pruned) \cup {r} /\ Cardinality(jobs \ Pruned) < MaxJobs
    BY <1>4 DEF NewJob, Prune, Fits, StoreInv, TypeOK
  <2>2. /\ IsFiniteSet((jobs \ Pruned) \cup {r})
        /\ Cardinality((jobs \ Pruned) \cup {r}) <= Cardinality(jobs \ Pruned) + 1
    <3> HIDE DEF Pruned
    <3> DEFINE kept == jobs \ Pruned
    <3>1. IsFiniteSet(kept) /\ Cardinality(kept) \in Nat
      BY <1>1, <1>2
    <3> HIDE DEF kept
    <3>2. /\ IsFiniteSet(kept \cup {r})
          /\ Cardinality(kept \cup {r}) =
               IF r \in kept THEN Cardinality(kept) ELSE Cardinality(kept) + 1
      BY <3>1, FS_AddElement, Zenon
    <3>3. Cardinality(kept \cup {r}) <= Cardinality(kept) + 1
      BY <3>1, <3>2
    <3> QED
      BY <3>2, <3>3 DEF kept
  <2>3. Cardinality(jobs') \in Nat
    BY <2>1, <2>2, FS_CardinalityType
  <2> QED
    BY <2>1, <2>2, <2>3, <1>2, LimitsAssumption DEF RetainedWithinLimit
<1>5. CASE NewJob(r) /\ post'[r] # "admitted"
  <2>1. jobs' = jobs \ Pruned
    BY <1>5 DEF NewJob, Prune, StoreInv, TypeOK
  <2> QED
    BY <2>1, <1>2, <1>3, LimitsAssumption DEF RetainedWithinLimit
<1>6. CASE UNCHANGED jobs
  BY <1>6 DEF RetainedWithinLimit
<1> QED
  BY <1>4, <1>5, <1>6 DEF RequestStep, HandlerStep, WorkerStep, NativeStep,
     WriteAndStart, Answer, Acquire, Launch, CheckDeadline, ReadLine, Store, Release,
     Expire, PrintLine, OpenOutput, Exit, Exited, table

(* The table never holds more than max_jobs jobs.                          *)
THEOREM TableBounded == Spec => []RetainedWithinLimit
<1>1. Init => RetainedWithinLimit
  BY LimitsAssumption, FS_EmptySet DEF Init, RetainedWithinLimit
<1>2. StoreInv /\ RetainedWithinLimit /\ [Next]_vars => RetainedWithinLimit'
  <2> SUFFICES ASSUME StoreInv, RetainedWithinLimit, [Next]_vars
               PROVE  RetainedWithinLimit'
    OBVIOUS
  <2>1. CASE \E r \in Requests : RequestStep(r)
    BY <2>1, TableStep
  <2>2. CASE UNCHANGED jobs
    BY <2>2 DEF RetainedWithinLimit
  <2> QED
    BY <2>1, <2>2, NextCases, ReaderStep DEF table, vars
<1>3. QED
  BY <1>1, <1>2, StoreInvariant, PTL DEF Spec

(* A worker holds a permit from acquire to release and no longer.          *)
LEMMA HoldersFinite ==
    IsFiniteSet(Holders) /\ Cardinality(Holders) \in Nat
  BY LimitsAssumption, FS_Subset, FS_CardinalityType, Holders \subseteq Requests DEF Holders

LEMMA PermitStep ==
    ASSUME StoreInv, PermitsAccounted, NEW r \in Requests, RequestStep(r)
    PROVE  PermitsAccounted'
<1> USE DEF StoreInv, TypeOK
<1>1. CASE Acquire(r)
  <2>1. r \notin Holders /\ Holders' = Holders \cup {r} /\ permits' = permits - 1
    BY <1>1 DEF Acquire, Goto, Decide, Holders, WorkerPc
  <2>2. Cardinality(Holders') = Cardinality(Holders) + 1
    BY <2>1, HoldersFinite, FS_AddElement
  <2> QED
    BY <2>1, <2>2, HoldersFinite, LimitsAssumption DEF PermitsAccounted
<1>2. CASE Release(r)
  <2>1. r \in Holders /\ Holders' = Holders \ {r} /\ permits' = permits + 1
    BY <1>2 DEF Release, GiveBack, Goto, Holders, WorkerPc
  <2>2. Cardinality(Holders') = Cardinality(Holders) - 1
    BY <2>1, HoldersFinite, FS_RemoveElement
  <2> QED
    BY <2>1, <2>2, HoldersFinite, LimitsAssumption DEF PermitsAccounted
<1>3. CASE Holders' = Holders /\ permits' = permits
  BY <1>3 DEF PermitsAccounted
<1>4. CASE WriteAndStart(r) \/ Launch(r) \/ CheckDeadline(r) \/ ReadLine(r) \/ Store(r)
  BY <1>3, <1>4 DEF WriteAndStart, Launch, CheckDeadline, TimeOut, ReadLine, Store, Goto, Decide,
     Holders, WorkerPc, PhaseMatches
<1>5. CASE UNCHANGED <<worker, permits>>
  BY <1>3, <1>5 DEF Holders
<1> QED
  BY <1>1, <1>2, <1>4, <1>5 DEF RequestStep, HandlerStep, WorkerStep, NativeStep,
     NewJob, Answer, Expire, PrintLine, OpenOutput, Exit, Exited

(* Every path out of _run_job gives its permit back, once: the semaphore   *)
(* counts exactly the workers between acquire and release.                 *)
THEOREM PermitsBalance == Spec => []PermitsAccounted
<1>1. Init => PermitsAccounted
  <2> SUFFICES ASSUME Init PROVE PermitsAccounted
    OBVIOUS
  <2>1. Holders = {}
    BY DEF Init, Holders, WorkerPc
  <2> QED
    BY <2>1, FS_EmptySet, LimitsAssumption DEF Init, PermitsAccounted
<1>2. StoreInv /\ PermitsAccounted /\ [Next]_vars => PermitsAccounted'
  <2> SUFFICES ASSUME StoreInv, PermitsAccounted, [Next]_vars PROVE PermitsAccounted'
    OBVIOUS
  <2>1. CASE \E r \in Requests : RequestStep(r)
    BY <2>1, PermitStep
  <2>2. CASE UNCHANGED <<worker, permits>>
    BY <2>2 DEF PermitsAccounted, Holders
  <2> QED
    BY <2>1, <2>2, NextCases, ReaderStep DEF vars
<1>3. QED
  BY <1>1, <1>2, StoreInvariant, PTL DEF Spec

-----------------------------------------------------------------------------
(* Pruning.  ended_at orders the finished jobs: every time stamp is taken  *)
(* once and stored once, so that the sorted list has one oldest job.       *)

Time(r) == IF worker[r] = "finishing" THEN stamp[r] ELSE endedAt[r]

StampsMatch ==
    /\ \A r \in Requests :
         /\ stamp[r] <= now /\ endedAt[r] <= now
         /\ worker[r] # "finishing" <=> stamp[r] = 0
         /\ status[r] \in Finished <=> endedAt[r] # 0
    /\ \A q, r \in Requests : q # r => Time(q) # Time(r) \/ Time(q) = 0

PruneInv == StoreInv /\ StampsMatch /\ RetainedWithinLimit

(* A stamp is a new one, or goes from its worker to the table.             *)
LEMMA StampStep ==
    ASSUME StoreInv, StampsMatch, NEW r \in Requests, RequestStep(r)
    PROVE  StampsMatch'
<1> USE DEF StoreInv, TypeOK, TableMatches, PhaseMatches, Stored, Busy, StampsMatch, Time,
      WorkerPc, PostPc, Finished, table, decision, natives, files, readers, Goto, SetStatus
<1>1. CASE NewJob(r)
  <2>1. post[r] = "idle" /\ status[r] = "none" /\ worker[r] = "none"
    BY <1>1 DEF NewJob
  <2>2. PICK new \in SUBSET {r} : Prune(new)
    BY <1>1 DEF NewJob
  <2>3. /\ status' = [q \in Requests |-> IF q \in new THEN "queued"
                                         ELSE IF q \in Pruned THEN "forgotten" ELSE status[q]]
        /\ endedAt' = [q \in Requests |-> IF q \in Pruned THEN 0 ELSE endedAt[q]]
        /\ UNCHANGED <<stamp, now, worker>>
    BY <1>1, <2>2 DEF NewJob, Prune
  <2>4. \A q \in Requests : worker[q] = "finishing" => q \notin Pruned
    BY PrunedAreFinished
  <2> HIDE DEF Pruned
  <2> QED
    BY <2>1, <2>3, <2>4, PrunedAreFinished
<1>2. CASE UNCHANGED <<stamp, now, endedAt, status, worker>>
  BY <1>2
<1>3. CASE WriteAndStart(r)
  BY <1>3 DEF WriteAndStart
<1>4. CASE Store(r)
  <2>1. status[r] = "running" /\ r \in jobs /\ outcome[r] \in Finished /\ endedAt[r] = 0
    BY <1>4 DEF Store
  <2>2. /\ status' = [status EXCEPT ![r] = outcome[r]]
        /\ endedAt' = [endedAt EXCEPT ![r] = stamp[r]]
        /\ stamp' = [stamp EXCEPT ![r] = 0] /\ now' = now
        /\ worker' = [worker EXCEPT ![r] = "releasing"] /\ worker[r] = "finishing"
    BY <1>4, <2>1 DEF Store
  <2>3. stamp[r] # 0
    BY <1>4 DEF Store
  <2> QED
    BY <2>1, <2>2, <2>3
<1>5. ASSUME NEW s \in Finished, Decide(r, s), worker[r] # "finishing",
             UNCHANGED <<endedAt>>,
             UNCHANGED status \/ status' = [status EXCEPT ![r] = "running"],
             status[r] \notin Finished
      PROVE  StampsMatch'
  BY <1>5 DEF Decide
<1>6. ASSUME NEW pc \in WorkerPc \ {"finishing"}, Goto(r, pc), worker[r] # "finishing",
             UNCHANGED <<stamp, now, endedAt>>,
             UNCHANGED status \/ (status' = [status EXCEPT ![r] = "running"] /\
                                  status[r] \notin Finished)
      PROVE  StampsMatch'
  BY <1>6
<1>7. CASE Acquire(r)
  BY <1>5, <1>6, <1>7 DEF Acquire
<1>8. CASE Launch(r)
  BY <1>5, <1>6, <1>8 DEF Launch
<1>9. CASE CheckDeadline(r)
  BY <1>5, <1>6, <1>9 DEF CheckDeadline, TimeOut
<1>10. CASE ReadLine(r)
  BY <1>5, <1>6, <1>10 DEF ReadLine
<1>11. CASE Release(r)
  BY <1>6, <1>11 DEF Release
<1> QED
  BY <1>1, <1>2, <1>3, <1>4, <1>7, <1>8, <1>9, <1>10, <1>11 DEF RequestStep, HandlerStep,
     WorkerStep, NativeStep, Answer, Expire, PrintLine, OpenOutput, Exit, Exited

LEMMA PruneInvariant == Spec => []PruneInv
<1>1. Init => StampsMatch
  BY DEF Init, StampsMatch, Time, Finished
<1>2. StoreInv /\ StampsMatch /\ [Next]_vars => StampsMatch'
  <2> SUFFICES ASSUME StoreInv, StampsMatch, [Next]_vars PROVE StampsMatch'
    OBVIOUS
  <2>1. CASE \E r \in Requests : RequestStep(r)
    BY <2>1, StampStep
  <2>2. CASE UNCHANGED <<table, decision, worker>>
    BY <2>2 DEF StampsMatch, Time, table, decision
  <2>3. ASSUME NEW g \in Readers, (\E r \in Requests : Locate(g, r)) \/ SendFile(g)
        PROVE  UNCHANGED <<table, decision, worker>>
    BY <2>3 DEF Locate, SendFile
  <2> QED
    BY <2>1, <2>2, <2>3, NextCases DEF vars
<1>3. QED
  BY <1>1, <1>2, StoreInvariant, TableBounded, PTL DEF Spec, PruneInv

Older(r) == {q \in FinishedJobs : endedAt[q] < endedAt[r]}

LEMMA OlderCounted ==
    ASSUME StoreInv, NEW r
    PROVE  IsFiniteSet(Older(r)) /\ Cardinality(Older(r)) \in Nat
<1>1. Older(r) \subseteq jobs
  BY DEF Older, FinishedJobs
<1> HIDE DEF Older
<1> QED
  BY <1>1, JobsFinite, FS_Subset, FS_CardinalityType DEF StoreInv

LEMMA PrunedIffOldest ==
    ASSUME NEW r \in FinishedJobs
    PROVE  r \in Pruned <=> Cardinality(Older(r)) <= Cardinality(jobs) - MaxJobs
  BY DEF Pruned, Older

(* Pruning takes at most one job, and none unless the table is full.       *)
LEMMA PrunesOne ==
    ASSUME PruneInv
    PROVE  /\ IsFiniteSet(Pruned) /\ Cardinality(Pruned) \in Nat
           /\ Cardinality(Pruned) <= 1
           /\ Pruned # {} => Cardinality(jobs) = MaxJobs
<1> USE DEF PruneInv
<1>0. Cardinality(jobs) \in Nat /\ MaxJobs \in Nat /\ Cardinality(jobs) <= MaxJobs
  BY JobsFinite, LimitsAssumption DEF StoreInv, RetainedWithinLimit
<1>1. ASSUME NEW r \in Pruned PROVE Cardinality(jobs) = MaxJobs /\ Older(r) = {}
  <2>1. r \in FinishedJobs
    BY DEF Pruned
  <2>2. Cardinality(Older(r)) <= Cardinality(jobs) - MaxJobs
    BY <2>1, PrunedIffOldest
  <2>3. IsFiniteSet(Older(r)) /\ Cardinality(Older(r)) \in Nat
    BY OlderCounted
  <2>4. Cardinality(Older(r)) = 0 /\ Cardinality(jobs) = MaxJobs
    BY <1>0, <2>2, <2>3
  <2> QED
    BY <2>3, <2>4, FS_EmptySet
<1>2. ASSUME NEW q \in Pruned, NEW r \in Pruned PROVE q = r
  <2>1. q \in FinishedJobs /\ r \in FinishedJobs
    BY DEF Pruned
  <2>2. q \notin Older(r) /\ r \notin Older(q)
    BY <1>1
  <2>3. /\ q \in Requests /\ r \in Requests
        /\ status[q] \in Finished /\ status[r] \in Finished
    BY <2>1 DEF FinishedJobs, StoreInv, TypeOK
  <2>4. endedAt[q] \in Nat /\ endedAt[r] \in Nat /\ endedAt[q] = endedAt[r]
    BY <2>1, <2>2, <2>3 DEF Older, StoreInv, TypeOK
  <2>5. worker[q] # "finishing" /\ worker[r] # "finishing"
    BY <2>3 DEF StoreInv, PhaseMatches, Busy, WorkerPc, Finished
  <2> QED
    BY <2>3, <2>4, <2>5 DEF StampsMatch, Time
<1>3. CASE Pruned = {}
  BY <1>3, FS_EmptySet
<1>4. ASSUME NEW r \in Pruned PROVE IsFiniteSet(Pruned) /\ Cardinality(Pruned) = 1
  <2>1. Pruned = {r}
    BY <1>2, <1>4
  <2> QED
    BY <2>1, FS_Singleton
<1> QED
  BY <1>1, <1>3, <1>4

(* Some finished job has no older one.                                     *)
LEMMA SomeOldest ==
    ASSUME StoreInv, FinishedJobs # {}
    PROVE  \E r \in FinishedJobs : Older(r) = {}
<1> DEFINE ages == {endedAt[q] : q \in FinishedJobs}
<1>1. FinishedJobs \subseteq Requests
  BY DEF StoreInv, TypeOK, FinishedJobs
<1>2. ages \in SUBSET Nat /\ ages # {}
  BY <1>1 DEF StoreInv, TypeOK
<1>3. PICK least \in ages : \A other \in ages : <<other, least>> \notin OpToRel(<, Nat)
  <2> HIDE DEF ages
  <2> QED
    BY <1>2, NatLessThanWellFounded, WFMin
<1>4. \A other \in ages : ~(other < least)
  BY <1>2, <1>3 DEF OpToRel
<1>5. PICK r \in FinishedJobs : least = endedAt[r]
  OBVIOUS
<1> QED
  BY <1>4, <1>5 DEF Older

(* new_job refuses a job only when every job in the table is unfinished.   *)
LEMMA FullOfUnfinished ==
    ASSUME PruneInv, ~Fits
    PROVE  FinishedJobs = {} /\ Pruned = {} /\ Cardinality(jobs) >= MaxJobs
<1> USE DEF PruneInv
<1>1. IsFiniteSet(jobs) /\ Cardinality(jobs) \in Nat /\ MaxJobs \in Nat \ {0}
  BY JobsFinite, LimitsAssumption DEF StoreInv
<1>2. ASSUME NEW S \in SUBSET jobs
      PROVE  /\ IsFiniteSet(jobs \ S) /\ Cardinality(jobs \ S) \in Nat
             /\ Cardinality(jobs \ S) <= Cardinality(jobs)
  BY <1>1, FS_Subset, FS_CardinalityType, jobs \ S \subseteq jobs
<1>3. Pruned \subseteq jobs /\ Pruned \subseteq FinishedJobs /\ FinishedJobs \subseteq jobs
  BY DEF Pruned, FinishedJobs
<1>4. Cardinality(jobs \ Pruned) >= MaxJobs
  <2> HIDE DEF Pruned
  <2> QED
    BY <1>1, <1>2, <1>3 DEF Fits
<1>5. Cardinality(jobs) = MaxJobs
  BY <1>1, <1>2, <1>3, <1>4 DEF RetainedWithinLimit
<1>6. ASSUME NEW r \in Pruned PROVE FALSE
  <2>1. jobs \ Pruned \subseteq jobs \ {r} /\ r \in jobs
    BY <1>3, <1>6
  <2>2. Cardinality(jobs \ {r}) = Cardinality(jobs) - 1 /\ IsFiniteSet(jobs \ {r})
    BY <1>1, <2>1, FS_RemoveElement
  <2>3. Cardinality(jobs \ Pruned) <= Cardinality(jobs \ {r})
    BY <2>1, <2>2, FS_Subset
  <2>4. Cardinality(jobs \ Pruned) \in Nat
    BY <1>2, <1>3
  <2> QED
    BY <1>1, <1>4, <1>5, <2>2, <2>3, <2>4
<1>7. ASSUME FinishedJobs # {} PROVE FALSE
  <2>1. PICK r \in FinishedJobs : Older(r) = {}
    BY <1>7, SomeOldest
  <2>2. Cardinality(Older(r)) = 0
    BY <2>1, FS_EmptySet
  <2>3. r \in Pruned
    BY <1>1, <1>5, <2>2, PrunedIffOldest
  <2> QED
    BY <2>3, <1>6
<1> QED
  BY <1>1, <1>5, <1>6, <1>7

-----------------------------------------------------------------------------
(* The store implements the JobBoard.                                      *)

(* The instance counts with the same Cardinality.                          *)
LEMMA SameCardinality == \A S : Board!Cardinality(S) = Cardinality(S)
  BY DEF Board!Cardinality, Cardinality, Board!IsFiniteSet, IsFiniteSet

LEMMA RememberedIsJobs ==
    ASSUME StoreInv
    PROVE  /\ Board!Remembered = jobs
           /\ Board!In(Board!Finished) = FinishedJobs
           /\ Board!In(Board!Unfinished) = jobs \ FinishedJobs
           /\ Board!In({"running"}) = {r \in Requests : status[r] = "running"}
  BY DEF StoreInv, TypeOK, TableMatches, Stored, Finished, BoardOf, FinishedJobs,
     Board!Remembered, Board!In, Board!Finished, Board!Unfinished

(* Pruned jobs are finished, and no more of them than a new job needs.     *)
LEMMA PrunedMayBeForgotten == ASSUME PruneInv PROVE Board!Forget(Pruned)
<1>1. Pruned \subseteq Board!In(Board!Finished)
  BY RememberedIsJobs DEF PruneInv, Pruned
<1>2. Pruned # {} => Cardinality(Pruned) <= Cardinality(jobs) - MaxJobs + 1
  <2> HIDE DEF Pruned
  <2> QED
    BY PrunesOne, LimitsAssumption
<1> QED
  BY <1>1, <1>2, RememberedIsJobs, SameCardinality DEF Board!Forget, PruneInv

(* The answer to one POST changes and the board does not see it, or does.  *)
LEMMA AnswerTold ==
    ASSUME StoreInv, NEW r \in Requests, NEW p \in PostPc, post' = [post EXCEPT ![r] = p]
    PROVE  ToldOf' = [ToldOf EXCEPT ![r] =
                        IF p \in {"idle", "admitted", "started"} THEN "nothing" ELSE p]
  BY DEF ToldOf, StoreInv, TypeOK

(* new_job, whether it stores a job or gives up.                           *)
LEMMA PostRefines ==
    ASSUME PruneInv, NEW r \in Requests, NewJob(r)
    PROVE  Board!Next
<1> USE DEF PruneInv
<1>1. Pruned \in SUBSET Board!In(Board!Finished) /\ Board!Forget(Pruned)
  BY PrunedMayBeForgotten DEF Board!Forget
<1>2. Pruned \subseteq FinishedJobs /\ Pruned \subseteq jobs /\ jobs \subseteq Requests
  BY DEF StoreInv, TypeOK, Pruned, FinishedJobs
<1>3. PICK result \in (IF Fits THEN {"admitted", "failed"} ELSE {"refused"}) :
        /\ Prune(IF result = "admitted" THEN {r} ELSE {})
        /\ post' = [post EXCEPT ![r] = result]
  BY DEF NewJob
<1>4. post[r] = "idle" /\ BoardOf[r] = "absent" /\ ToldOf[r] = "nothing"
  BY DEF NewJob, StoreInv, PhaseMatches, BoardOf, ToldOf
<1>5. ToldOf' = [ToldOf EXCEPT ![r] = IF result = "admitted" THEN "nothing" ELSE result]
  BY <1>3, AnswerTold DEF PostPc
<1>6. BoardOf' = IF result = "admitted" THEN [Board!Forgetting(Pruned) EXCEPT ![r] = "queued"]
                                        ELSE Board!Forgetting(Pruned)
  BY <1>2, <1>3 DEF Prune, BoardOf, Board!Forgetting
<1>7. DOMAIN ToldOf = Requests
  BY DEF ToldOf
<1> HIDE DEF Pruned
<1>8. CASE result = "admitted"
  <2>1. Board!Cardinality(Board!Remembered \ Pruned) < MaxJobs
    BY <1>3, <1>8, RememberedIsJobs, SameCardinality DEF Fits
  <2>2. ToldOf' = ToldOf
    BY <1>4, <1>5, <1>7, <1>8 DEF ToldOf
  <2>3. Board!Post(r)
    BY <1>1, <1>4, <1>6, <1>8, <2>1, <2>2 DEF Board!Post
  <2> QED
    BY <2>3 DEF Board!Next
<1>9. CASE result = "failed"
  <2>1. Board!MakeRoom(r)
    BY <1>1, <1>4, <1>5, <1>6, <1>9 DEF Board!MakeRoom, Board!Tell
  <2> QED
    BY <2>1 DEF Board!Next
<1>10. CASE result = "refused"
  <2>1. ~Fits
    BY <1>3, <1>10
  <2>2. Pruned = {} /\ FinishedJobs = {} /\ Cardinality(jobs) >= MaxJobs
    BY <2>1, FullOfUnfinished
  <2>3. BoardOf' = BoardOf
    BY <1>6, <1>10, <2>2 DEF Board!Forgetting, BoardOf
  <2>4. Board!Cardinality(Board!In(Board!Unfinished)) >= MaxJobs
    BY <2>2, RememberedIsJobs, SameCardinality, jobs \ {} = jobs
  <2>5. Board!Refuse(r)
    BY <1>4, <1>5, <1>10, <2>3, <2>4 DEF Board!Refuse, Board!Tell
  <2> QED
    BY <2>5 DEF Board!Next
<1> QED
  BY <1>3, <1>8, <1>9, <1>10

(* write_input, start_job and the snapshot for the answer: what the client *)
(* is told agrees with the table.                                          *)
LEMMA HandlerRefines ==
    ASSUME StoreInv, NEW r \in Requests, HandlerStep(r)
    PROVE  Board!Next \/ (UNCHANGED <<BoardOf, ToldOf>>)
<1>1. BoardOf' = BoardOf
  BY DEF HandlerStep, WriteAndStart, Answer, table, BoardOf
<1>2. CASE WriteAndStart(r)
  <2>1. post[r] = "admitted" /\ r \in jobs /\ BoardOf[r] = "queued" /\ ToldOf[r] = "nothing"
    BY <1>2 DEF WriteAndStart, StoreInv, PhaseMatches, TableMatches, Stored, BoardOf, ToldOf
  <2>2. PICK result \in {"started", "failed"} : post' = [post EXCEPT ![r] = result]
    BY <1>2, <2>1 DEF WriteAndStart
  <2>3. ToldOf' = [ToldOf EXCEPT ![r] = IF result = "started" THEN "nothing" ELSE result]
    BY <2>2, AnswerTold DEF PostPc
  <2>4. CASE result = "started"
    BY <1>1, <2>1, <2>3, <2>4 DEF ToldOf
  <2>5. CASE result = "failed"
    BY <1>1, <2>1, <2>3, <2>5 DEF Board!Fail, Board!Tell, Board!Next
  <2> QED
    BY <2>2, <2>4, <2>5
<1>3. CASE Answer(r)
  <2>1. post[r] = "started" /\ worker[r] # "none" /\ ToldOf[r] = "nothing"
    BY <1>3 DEF Answer, StoreInv, PhaseMatches, ToldOf
  <2>2. post' = [post EXCEPT ![r] = IF r \in jobs THEN "accepted" ELSE "gone"]
    BY <1>3 DEF Answer
  <2>3. CASE r \in jobs
    <3>1. ToldOf' = [ToldOf EXCEPT ![r] = "accepted"]
      BY <2>2, <2>3, AnswerTold DEF PostPc
    <3>2. r \in Board!Remembered
      BY <2>3, RememberedIsJobs
    <3> QED
      BY <1>1, <2>1, <3>1, <3>2 DEF Board!Accept, Board!Tell, Board!Next
  <2>4. CASE r \notin jobs
    <3>1. ToldOf' = [ToldOf EXCEPT ![r] = "gone"]
      BY <2>2, <2>4, AnswerTold DEF PostPc
    <3>2. BoardOf[r] = "forgotten"
      <4>1. worker[r] \in {"releasing", "done"}
        BY <2>1, <2>4 DEF StoreInv, TypeOK, PhaseMatches, TableMatches, Stored, Busy, WorkerPc
      <4> QED
        BY <2>4, <4>1 DEF StoreInv, PhaseMatches, TableMatches, Stored, BoardOf
    <3> QED
      BY <1>1, <2>1, <3>1, <3>2 DEF Board!TooLate, Board!Tell, Board!Next
  <2> QED
    BY <2>3, <2>4
<1> QED
  BY <1>2, <1>3 DEF HandlerStep

(* A worker sets its job running only once it holds a permit, so there is  *)
(* room for one more running job.                                          *)
LEMMA RunningRefines ==
    ASSUME StoreInv, PermitsAccounted, NEW r \in Requests, Acquire(r)
    PROVE  Board!Start(r)
<1>0. UNCHANGED ToldOf /\ ToldOf[r] # "failed"
  BY DEF Acquire, ToldOf, StoreInv, TypeOK, PhaseMatches
<1> DEFINE running == {q \in Requests : status[q] = "running"}
<1>1. status[r] = "queued" /\ r \in jobs
  BY DEF Acquire, StoreInv, PhaseMatches, TableMatches, Stored, TypeOK
<1>2. running \subseteq Holders
  <2> SUFFICES ASSUME NEW q \in Requests, status[q] = "running"
               PROVE  q \in Holders
    OBVIOUS
  <2>1. post[q] \in PostPc /\ worker[q] \in WorkerPc
    BY DEF StoreInv, TypeOK
  <2> QED
    BY <2>1 DEF StoreInv, PhaseMatches, Holders, Busy, PostPc, WorkerPc, Finished
<1>3. Cardinality(running) <= Cardinality(Holders) /\ Cardinality(running) \in Nat
  <2> HIDE DEF running
  <2> QED
    BY <1>2, HoldersFinite, FS_Subset, FS_CardinalityType
<1>4. Cardinality(running) < MaxRunning
  BY <1>3, HoldersFinite, LimitsAssumption
     DEF PermitsAccounted, StoreInv, TypeOK, Acquire, PermitFree
<1>5. BoardOf[r] = "queued" /\ BoardOf' = [BoardOf EXCEPT ![r] = "running"]
  <2>1. status' = [status EXCEPT ![r] = "running"]
    BY <1>1 DEF Acquire, SetStatus
  <2>2. DOMAIN status = Requests
    BY DEF StoreInv, TypeOK
  <2> QED
    BY <1>1, <2>1, <2>2 DEF BoardOf
<1> QED
  BY <1>0, <1>4, <1>5, RememberedIsJobs, SameCardinality DEF Board!Start

LEMMA StoreRefines ==
    ASSUME StoreInv, NEW r \in Requests, Store(r)
    PROVE  Board!Finish(r)
<1>0. UNCHANGED ToldOf
  BY DEF Store, ToldOf
<1>1. status[r] = "running" /\ r \in jobs /\ outcome[r] \in Finished
  BY DEF Store, StoreInv, PhaseMatches, TableMatches, Stored, TypeOK, Busy, WorkerPc
<1>2. BoardOf[r] = "running" /\ BoardOf' = [BoardOf EXCEPT ![r] = outcome[r]]
  <2>1. status' = [status EXCEPT ![r] = outcome[r]]
    BY <1>1 DEF Store, SetStatus
  <2>2. DOMAIN status = Requests
    BY DEF StoreInv, TypeOK
  <2>3. outcome[r] # "none"
    BY <1>1 DEF Finished
  <2> QED
    BY <1>1, <2>1, <2>2, <2>3 DEF BoardOf
<1> QED
  BY <1>0, <1>1, <1>2 DEF Board!Finish, Board!Finished, Finished

(* The threads, processes and files of the demo server implement the board *)
(* a client sees: entries only move forward, only finished ones are        *)
(* forgotten and no more than needed, neither limit is ever exceeded, and  *)
(* the answer to a POST agrees with the table.                             *)
THEOREM StoreImplementsBoard == Spec => BoardSpec
<1>1. Init => Board!Init
  BY DEF Init, Board!Init, BoardOf, ToldOf
<1>2. PruneInv /\ PermitsAccounted /\ [Next]_vars => [Board!Next]_(Board!vars)
  <2> SUFFICES ASSUME PruneInv, PermitsAccounted, [Next]_vars
               PROVE  Board!Next \/ UNCHANGED <<BoardOf, ToldOf>>
    BY DEF Board!vars
  <2> USE DEF PruneInv
  <2>1. CASE UNCHANGED <<status, post>>
    BY <2>1 DEF BoardOf, ToldOf
  <2>2. ASSUME NEW r \in Requests, RequestStep(r)
        PROVE  Board!Next \/ UNCHANGED <<BoardOf, ToldOf>>
    <3>1. CASE NewJob(r)
      BY <3>1, PostRefines
    <3>2. CASE HandlerStep(r)
      BY <3>2, HandlerRefines
    <3>3. CASE Acquire(r)
      BY <3>3, RunningRefines DEF Board!Next
    <3>4. CASE Store(r)
      BY <3>4, StoreRefines DEF Board!Next
    <3> QED
      BY <2>1, <2>2, <3>1, <3>2, <3>3, <3>4 DEF RequestStep, WorkerStep, NativeStep, Launch,
         CheckDeadline, ReadLine, Release, Expire, PrintLine, OpenOutput, Exit, Exited, table
  <2> QED
    BY <2>1, <2>2, NextCases, ReaderStep DEF table, vars
<1>3. QED
  BY <1>1, <1>2, PruneInvariant, PermitsBalance, PTL DEF Spec, BoardSpec, Board!Spec
=============================================================================
