------------------------------ MODULE MailQueue ------------------------------
(***************************************************************************)
(* The bounded queue behind the public magic-link and password-reset       *)
(* endpoints: internal/service/public_mail_queue.go.                       *)
(*                                                                         *)
(* The goroutines are the clients that enqueue, the worker pool, the log   *)
(* worker, the goroutine that waits for all of them, and the callers of    *)
(* Shutdown.  They share a buffered channel, an RWMutex, a sync.Once and a *)
(* cancellable context.  A job is a number; what it does (processPublicMail) *)
(* is abstracted to the fact that it ends, because every call it makes is  *)
(* bounded by the job's deadline.                                          *)
(***************************************************************************)
EXTENDS Naturals, Sequences, FiniteSets

CONSTANTS
    Workers,        \* cfg.PublicMailWorkers goroutines
    Clients,        \* requests that enqueue
    Stoppers,       \* calls of Shutdown
    Capacity,       \* cfg.PublicMailQueueSize
    LogCapacity,    \* the buffer of logEvents
    MaxJobs         \* bound: calls of enqueue in a behaviour

ASSUME WorkersAssumption == Workers # {}
ASSUME CapacityAssumption == Capacity \in Nat \ {0} /\ LogCapacity \in Nat
ASSUME JobsAssumption == MaxJobs \in Nat

VARIABLES
    accepting,      \* q.accepting
    closed,         \* close(q.jobs) has run
    jobs,           \* the buffered jobs
    cancelled,      \* q.ctx is done
    done,           \* close(q.done) has run
    once,           \* the state of q.shutdown
    client,         \* the enqueuing requests
    stopper,        \* the callers of Shutdown
    worker,         \* the worker goroutines
    logs,           \* buffered log events
    logDone,        \* the log worker has returned
    closer,         \* the goroutine that waits for the workers
    nextJob,        \* the next job number
    accepted,       \* history: jobs that entered the channel
    finished,       \* history: jobs that a worker has run to the end
    panicked        \* a send on a closed channel

mailVars == <<accepting, closed, jobs, cancelled, done, once, client, stopper, worker,
          logs, logDone, closer, nextJob, accepted, finished, panicked>>

Job == 1..MaxJobs
Client == [pc : {"idle", "check", "offer"}, job : 0..MaxJobs]
Worker == [pc : {"select", "run", "exited"}, job : 0..MaxJobs]

Waiting == [pc |-> "idle", job |-> 0]
Selecting == [pc |-> "select", job |-> 0]

MailInit ==
    /\ accepting = TRUE /\ closed = FALSE /\ jobs = <<>>
    /\ cancelled = FALSE /\ done = FALSE /\ once = "new"
    /\ client = [c \in Clients |-> Waiting]
    /\ stopper = [s \in Stoppers |-> "idle"]
    /\ worker = [w \in Workers |-> Selecting]
    /\ logs = 0 /\ logDone = FALSE /\ closer = "workers"
    /\ nextJob = 1 /\ accepted = {} /\ finished = {} /\ panicked = FALSE

\* logClass: a full buffer drops the event.
Logged == logs' = IF logs < LogCapacity THEN logs + 1 ELSE logs

-----------------------------------------------------------------------------
(* enqueue                                                                 *)

HoldsRead(c) == client[c].pc # "idle"

\* RLock waits for a writer that holds the mutex or waits for it.
ClientLock(c) ==
    /\ client[c].pc = "idle"
    /\ nextJob <= MaxJobs
    /\ \A s \in Stoppers : stopper[s] \notin {"lock", "close"}
    /\ client' = [client EXCEPT ![c] = [pc |-> "check", job |-> nextJob]]
    /\ nextJob' = nextJob + 1
    /\ UNCHANGED <<accepting, closed, jobs, cancelled, done, once, stopper, worker,
                   logs, logDone, closer, accepted, finished, panicked>>

ClientCheck(c) ==
    /\ client[c].pc = "check"
    /\ IF accepting
       THEN client' = [client EXCEPT ![c].pc = "offer"] /\ UNCHANGED logs
       ELSE client' = [client EXCEPT ![c] = Waiting] /\ Logged
    /\ UNCHANGED <<accepting, closed, jobs, cancelled, done, once, stopper, worker,
                   logDone, closer, nextJob, accepted, finished, panicked>>

HasRoomForOneMore == Len(jobs) <= Capacity

HasRoom == Len(jobs) < Capacity

\* select { case q.jobs <- job: default: }
ClientOffer(c) ==
    /\ client[c].pc = "offer"
    /\ client' = [client EXCEPT ![c] = Waiting]
    /\ \/ closed /\ panicked' = TRUE /\ UNCHANGED <<jobs, accepted, logs>>
       \/ /\ ~closed /\ HasRoom
          /\ jobs' = Append(jobs, client[c].job)
          /\ accepted' = accepted \cup {client[c].job}
          /\ UNCHANGED <<logs, panicked>>
       \/ ~closed /\ ~HasRoom /\ Logged /\ UNCHANGED <<jobs, accepted, panicked>>
    /\ UNCHANGED <<accepting, closed, cancelled, done, once, stopper, worker,
                   logDone, closer, nextJob, finished>>

-----------------------------------------------------------------------------
(* worker and run                                                          *)

WorkerMayExitEarly == cancelled \/ closed

\* ctx.Done() is ready, or the channel is closed and drained.
WorkerMayExit == cancelled \/ (closed /\ jobs = <<>>)

WorkerExit(w) ==
    /\ worker[w].pc = "select"
    /\ WorkerMayExit
    /\ worker' = [worker EXCEPT ![w].pc = "exited"]
    /\ UNCHANGED <<accepting, closed, jobs, cancelled, done, once, client, stopper,
                   logs, logDone, closer, nextJob, accepted, finished, panicked>>

WorkerTakeUnlessClosed(w) ==
    /\ worker[w].pc = "select"
    /\ jobs # <<>>
    /\ worker' = [worker EXCEPT ![w] = IF closed THEN [pc |-> "exited", job |-> 0]
                                       ELSE [pc |-> "run", job |-> Head(jobs)]]
    /\ jobs' = Tail(jobs)
    /\ UNCHANGED <<accepting, closed, cancelled, done, once, client, stopper,
                   logs, logDone, closer, nextJob, accepted, finished, panicked>>

\* A select with both cases ready chooses either.
WorkerTake(w) ==
    /\ worker[w].pc = "select"
    /\ jobs # <<>>
    /\ worker' = [worker EXCEPT ![w] = [pc |-> "run", job |-> Head(jobs)]]
    /\ jobs' = Tail(jobs)
    /\ UNCHANGED <<accepting, closed, cancelled, done, once, client, stopper,
                   logs, logDone, closer, nextJob, accepted, finished, panicked>>

\* The job returns, or panics and is recovered and logged.
WorkerFinish(w) ==
    /\ worker[w].pc = "run"
    /\ finished' = finished \cup {worker[w].job}
    /\ worker' = [worker EXCEPT ![w] = Selecting]
    /\ Logged \/ UNCHANGED logs
    /\ UNCHANGED <<accepting, closed, jobs, cancelled, done, once, client, stopper,
                   logDone, closer, nextJob, accepted, panicked>>

-----------------------------------------------------------------------------
(* logWorker and the goroutine that closes done                            *)

LogTake ==
    /\ ~logDone /\ logs > 0
    /\ logs' = logs - 1
    /\ UNCHANGED <<accepting, closed, jobs, cancelled, done, once, client, stopper,
                   worker, logDone, closer, nextJob, accepted, finished, panicked>>

LogExit ==
    /\ ~logDone /\ cancelled
    /\ logDone' = TRUE
    /\ UNCHANGED <<accepting, closed, jobs, cancelled, done, once, client, stopper,
                   worker, logs, closer, nextJob, accepted, finished, panicked>>

CloserForgetsCancel ==
    /\ closer = "workers"
    /\ \A w \in Workers : worker[w].pc = "exited"
    /\ closer' = "log"
    /\ UNCHANGED <<accepting, closed, jobs, cancelled, done, once, client, stopper,
                   worker, logs, logDone, nextJob, accepted, finished, panicked>>

CloserCancel ==
    /\ closer = "workers"
    /\ \A w \in Workers : worker[w].pc = "exited"
    /\ closer' = "log"
    /\ cancelled' = TRUE
    /\ UNCHANGED <<accepting, closed, jobs, done, once, client, stopper,
                   worker, logs, logDone, nextJob, accepted, finished, panicked>>

CloserDone ==
    /\ closer = "log" /\ logDone
    /\ closer' = "closed"
    /\ done' = TRUE
    /\ UNCHANGED <<accepting, closed, jobs, cancelled, once, client, stopper,
                   worker, logs, logDone, nextJob, accepted, finished, panicked>>

-----------------------------------------------------------------------------
(* Shutdown                                                                *)

StopFirst(s) ==
    /\ stopper[s] = "idle" /\ once = "new"
    /\ stopper' = [stopper EXCEPT ![s] = "lock"]
    /\ once' = "running"
    /\ UNCHANGED <<accepting, closed, jobs, cancelled, done, client, worker,
                   logs, logDone, closer, nextJob, accepted, finished, panicked>>

\* A later caller of once.Do waits for the first one to be through.
StopAgain(s) ==
    /\ stopper[s] = "idle" /\ once = "done"
    /\ stopper' = [stopper EXCEPT ![s] = "wait"]
    /\ UNCHANGED <<accepting, closed, jobs, cancelled, done, once, client, worker,
                   logs, logDone, closer, nextJob, accepted, finished, panicked>>

StopLockHasty(s) ==
    /\ stopper[s] = "lock"
    /\ stopper' = [stopper EXCEPT ![s] = "close"]
    /\ accepting' = FALSE
    /\ UNCHANGED <<closed, jobs, cancelled, done, once, client, worker,
                   logs, logDone, closer, nextJob, accepted, finished, panicked>>

StopLock(s) ==
    /\ stopper[s] = "lock"
    /\ \A c \in Clients : ~HoldsRead(c)
    /\ stopper' = [stopper EXCEPT ![s] = "close"]
    /\ accepting' = FALSE
    /\ UNCHANGED <<closed, jobs, cancelled, done, once, client, worker,
                   logs, logDone, closer, nextJob, accepted, finished, panicked>>

StopClose(s) ==
    /\ stopper[s] = "close"
    /\ stopper' = [stopper EXCEPT ![s] = "wait"]
    /\ closed' = TRUE
    /\ once' = "done"
    /\ UNCHANGED <<accepting, jobs, cancelled, done, client, worker,
                   logs, logDone, closer, nextJob, accepted, finished, panicked>>

StopDrained(s) ==
    /\ stopper[s] = "wait" /\ done
    /\ stopper' = [stopper EXCEPT ![s] = "drained"]
    /\ UNCHANGED <<accepting, closed, jobs, cancelled, done, once, client, worker,
                   logs, logDone, closer, nextJob, accepted, finished, panicked>>

\* The caller's context ends first.
StopExpired(s) ==
    /\ stopper[s] = "wait"
    /\ stopper' = [stopper EXCEPT ![s] = "expired"]
    /\ cancelled' = TRUE
    /\ UNCHANGED <<accepting, closed, jobs, done, once, client, worker,
                   logs, logDone, closer, nextJob, accepted, finished, panicked>>

-----------------------------------------------------------------------------

ClientStep(c) == ClientCheck(c) \/ ClientOffer(c)
WorkerStep(w) == WorkerExit(w) \/ WorkerTake(w) \/ WorkerFinish(w)
StopStep(s) == StopAgain(s) \/ StopLock(s) \/ StopClose(s) \/ StopDrained(s)

MailNext ==
    \/ \E c \in Clients : ClientLock(c) \/ ClientStep(c)
    \/ \E w \in Workers : WorkerStep(w)
    \/ LogTake \/ LogExit \/ CloserCancel \/ CloserDone
    \/ \E s \in Stoppers : StopFirst(s) \/ StopStep(s) \/ StopExpired(s)

MailSpec == MailInit /\ [][MailNext]_mailVars

\* Every goroutine that can run is scheduled; a job ends by its deadline.
\* Nobody has to enqueue or to call Shutdown, and no context has to expire.
Fairness ==
    /\ \A c \in Clients : WF_mailVars(ClientStep(c))
    /\ \A w \in Workers : WF_mailVars(WorkerStep(w))
    /\ \A s \in Stoppers : WF_mailVars(StopStep(s))
    /\ WF_mailVars(LogTake) /\ WF_mailVars(LogExit) /\ WF_mailVars(CloserCancel) /\ WF_mailVars(CloserDone)

MailFairSpec == MailSpec /\ Fairness

-----------------------------------------------------------------------------
(* Properties                                                              *)

\* The values of the queue's fields and of the goroutines' local variables;
\* the channel never holds more than its capacity.
MailTypeOK ==
    /\ accepting \in BOOLEAN /\ closed \in BOOLEAN /\ cancelled \in BOOLEAN
    /\ done \in BOOLEAN /\ logDone \in BOOLEAN /\ panicked \in BOOLEAN
    /\ jobs \in Seq(Job) /\ Len(jobs) <= Capacity
    /\ once \in {"new", "running", "done"}
    /\ client \in [Clients -> Client]
    /\ stopper \in [Stoppers -> {"idle", "lock", "close", "wait", "drained", "expired"}]
    /\ worker \in [Workers -> Worker]
    /\ logs \in 0..LogCapacity
    /\ closer \in {"workers", "log", "closed"}
    /\ nextJob \in 1..(MaxJobs + 1)
    /\ accepted \in SUBSET Job /\ finished \in SUBSET Job

\* No enqueue sends on the channel that Shutdown closes: the check of
\* accepting and the send are under the read lock that Shutdown excludes.
NeverPanics == ~panicked

Expired == \E s \in Stoppers : stopper[s] = "expired"

\* Shutdown "drains queued public mail while ctx is alive" (auth.go:64): when
\* the queue reports that it is done and no caller gave up before, every job
\* that was accepted has been run to its end.
DrainedMeansFinished == done /\ ~Expired => accepted = finished

\* An accepted job is not lost: it is in the channel, with one worker, or
\* finished, until a caller of Shutdown gives up.
NothingLost ==
    ~cancelled =>
        \A k \in accepted : \/ k \in finished
                            \/ \E i \in 1..Len(jobs) : jobs[i] = k
                            \/ \E w \in Workers : worker[w] = [pc |-> "run", job |-> k]

\* Every call of Shutdown returns, even when its context never ends: the
\* workers drain the closed channel, the log worker is cancelled after them.
ShutdownReturns ==
    \A s \in Stoppers :
        stopper[s] \in {"lock", "close", "wait"} ~> stopper[s] \in {"drained", "expired"}

\* Every accepted job is run, unless a caller of Shutdown gives up on it.
AcceptedAreRun == \A k \in Job : k \in accepted ~> k \in finished \/ Expired
=============================================================================
