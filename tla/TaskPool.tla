------------------------------- MODULE TaskPool -------------------------------
(***************************************************************************)
(* What HPS::Scheduler promises to the code that calls schedule(): a job   *)
(* that is submitted is executed, by one thread at a time, from start to   *)
(* end, with interruptions it asks for itself.  A job that waits is        *)
(* executed again only after it has been signalled, possibly while it was  *)
(* still on its way to waiting.                                            *)
(***************************************************************************)
CONSTANTS Threads, Jobs, NoJob

VARIABLES
  status,   \* of each job
  on        \* the job each thread executes

poolVars == <<status, on>>

Free(t) == on[t] = NoJob

PoolInit ==
  /\ status = [j \in Jobs |-> "new"]
  /\ on = [t \in Threads |-> NoJob]

\* A change of status that no thread takes part in
Move(j, from, to) ==
  /\ status[j] = from
  /\ status' = [status EXCEPT ![j] = to]
  /\ UNCHANGED on

SubmitJob(j) == Move(j, "new", "ready")
Signal(j) == Move(j, "waiting", "ready")

\* Thread t starts or resumes a job that nobody executes
Resume(j, t) ==
  /\ status[j] = "ready"
  /\ Free(t)
  /\ status' = [status EXCEPT ![j] = "running"]
  /\ on' = [on EXCEPT ![t] = j]

\* Thread t leaves its job: it yielded, waits, was signalled already, or ended
Suspend(j, t) ==
  /\ on[t] = j
  /\ on' = [on EXCEPT ![t] = NoJob]
  /\ \E s \in {"ready", "waiting", "done"} :
       status' = [status EXCEPT ![j] = s]

PoolNext ==
  \E j \in Jobs :
    \/ SubmitJob(j)
    \/ Signal(j)
    \/ \E t \in Threads : Resume(j, t) \/ Suspend(j, t)

PoolSpec == PoolInit /\ [][PoolNext]_poolVars
=============================================================================
