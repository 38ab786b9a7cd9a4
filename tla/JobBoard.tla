------------------------------ MODULE JobBoard ------------------------------
(***************************************************************************)
(* What scripts/serve_demo.py promises to anyone who posts a job or asks   *)
(* about one: a bounded board of jobs on which an entry only moves         *)
(* forward, and an answer to each POST that agrees with the board.         *)
(*                                                                         *)
(*     absent -> queued -> running -> complete | error -> forgotten        *)
(*                                                                         *)
(* At most MaxJobs entries are remembered, at most MaxRunning of them are  *)
(* running, only finished entries are ever forgotten, and no more of them  *)
(* than a new one needs.  Module DemoJobs describes the threads, the       *)
(* native processes and the files that implement the board.                *)
(***************************************************************************)
EXTENDS Integers, FiniteSets

CONSTANTS
    Requests,    (* the POST /api/generate requests, one job each at most *)
    MaxJobs,     (* --max-jobs *)
    MaxRunning   (* --max-running-jobs *)

VARIABLES
    board,       (* board[r]: what the server knows of request r's job *)
    told         (* told[r]: how the POST was answered *)

vars == <<board, told>>

Entry == {"absent", "queued", "running", "complete", "error", "forgotten"}
Answers == {"nothing", "accepted", "gone", "refused", "failed"}
Unfinished == {"queued", "running"}
Finished == {"complete", "error"}

In(state) == {r \in Requests : board[r] \in state}
Remembered == In(Unfinished \cup Finished)

Init ==
    /\ board = [r \in Requests |-> "absent"]
    /\ told = [r \in Requests |-> "nothing"]

(* The answer a is given to r's POST, which had none.                      *)
Tell(r, a) ==
    /\ told[r] = "nothing"
    /\ told' = [told EXCEPT ![r] = a]

(* Finished entries may be forgotten, but only to make room for a new one: *)
(* no more of them than it takes to get below MaxJobs.                     *)
Forget(S) ==
    /\ S \subseteq In(Finished)
    /\ S # {} => Cardinality(S) <= Cardinality(Remembered) - MaxJobs + 1

Forgetting(S) == [r \in Requests |-> IF r \in S THEN "forgotten" ELSE board[r]]

(* A new job is posted; it fits once the entries in S are forgotten.       *)
Post(r) ==
    \E S \in SUBSET In(Finished) :
        /\ board[r] = "absent" /\ told[r] = "nothing"
        /\ Forget(S)
        /\ Cardinality(Remembered \ S) < MaxJobs
        /\ board' = [Forgetting(S) EXCEPT ![r] = "queued"]
        /\ UNCHANGED told

(* Room was made for a job that could then not be posted: 500.             *)
MakeRoom(r) ==
    \E S \in SUBSET In(Finished) :
        /\ board[r] = "absent"
        /\ Forget(S)
        /\ board' = Forgetting(S)
        /\ Tell(r, "failed")

(* 503, while a finished entry is there to be forgotten, is not an answer. *)
Refuse(r) ==
    /\ board[r] = "absent"
    /\ Cardinality(In(Unfinished)) >= MaxJobs
    /\ Tell(r, "refused")
    /\ UNCHANGED board

(* 500: the job was posted, but it will not run.                           *)
Fail(r) ==
    /\ board[r] = "queued"
    /\ Tell(r, "failed")
    /\ UNCHANGED board

(* 202: the job is there, or has been and is still remembered.             *)
Accept(r) ==
    /\ r \in Remembered
    /\ Tell(r, "accepted")
    /\ UNCHANGED board

(* 404 is late, not wrong: the job ran to its end and had to make room     *)
(* before its POST was answered.                                           *)
TooLate(r) ==
    /\ board[r] = "forgotten"
    /\ Tell(r, "gone")
    /\ UNCHANGED board

(* A job whose POST failed does not run.                                   *)
Start(r) ==
    /\ board[r] = "queued" /\ told[r] # "failed"
    /\ Cardinality(In({"running"})) < MaxRunning
    /\ board' = [board EXCEPT ![r] = "running"]
    /\ UNCHANGED told

Finish(r) ==
    /\ board[r] = "running"
    /\ \E s \in Finished : board' = [board EXCEPT ![r] = s]
    /\ UNCHANGED told

Next ==
    \E r \in Requests :
        \/ Post(r) \/ MakeRoom(r) \/ Refuse(r) \/ Fail(r) \/ Accept(r) \/ TooLate(r)
        \/ Start(r) \/ Finish(r)

Spec == Init /\ [][Next]_vars
=============================================================================
