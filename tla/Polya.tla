--------------------------------- MODULE Polya ---------------------------------
(***************************************************************************)
(* The Polya problem solver of hw4: the main loop of the master and its    *)
(* SIGCHLD handler (master.c), the worker processes with their signal      *)
(* handlers (worker.c), the source of problems (problem.c) and what the    *)
(* solvers make of a problem (trivial.c, crypto_miner.c).                  *)
(*                                                                         *)
(* The handler runs between any two steps of the main loop.  A signal is   *)
(* pending until its target runs; the kernel keeps of a worker's stops and *)
(* continues only the latest the master has not waited for.                *)
(***************************************************************************)
EXTENDS Naturals, Sequences, FiniteSets

CONSTANTS
  Workers,      \* the number of workers
  Problems,     \* the number of problems to generate (problems_remaining at the start)
  Kinds         \* the enabled problem types, of {"trivial", "miner"}

ASSUME PolyaAssumption ==
  /\ Workers \in Nat \ {0}
  /\ Problems \in Nat
  /\ Kinds \subseteq {"trivial", "miner"} /\ Kinds # {}

VARIABLES
  \* the master
  at,           \* where the main loop is
  i,            \* its loop index
  j,            \* the loop index of cancel_all_other_workers
  old,          \* workersStopped as loaded by workersStopped--
  state,        \* the worker table: the states ...
  prob,         \* ... the problems assigned, by their ids, 0 for NULL ...
  known,        \* ... and whether the pid is stored
  workersStopped,
  solved,       \* isCurrentProblemSolved
  \* the source of problems
  current,      \* current_problem, by its id, 0 for NULL
  made,         \* problems generated so far
  kind,         \* their types
  accepted,     \* the problems cleared by a correct result
  \* the workers
  pc,           \* where a worker is
  pending,      \* signals sent to it and not delivered
  sigcont,      \* sigcont_active
  sigterm,      \* sigterm_active
  canceledp,
  job,          \* the problem it works on
  answer,       \* what its solver returned: "found" or "failed"
  \* between them
  report,       \* the wait status the master has not seen
  problemPipe,
  resultPipe

loopVars   == <<at, i, j, old, workersStopped, solved>>
tableVars  == <<state, prob, known>>
sourceVars == <<current, made, kind, accepted>>
flagVars   == <<sigcont, sigterm, canceledp>>
workVars   == <<job, answer>>
pipeVars   == <<problemPipe, resultPipe>>
workerVars == <<pc, pending, report, flagVars, workVars>>
vars == <<loopVars, tableVars, sourceVars, workerVars, pipeVars>>

Worker == 1 .. Workers

Id == 1 .. Problems

Result == [of : Id, kind : {"found", "failed"}]

Init ==
  /\ at = "fork" /\ i = 1 /\ j = 1 /\ old = 0
  /\ workersStopped = 0 /\ solved = FALSE
  /\ state = [w \in Worker |-> "NONE"]
  /\ prob = [w \in Worker |-> 0]
  /\ known = [w \in Worker |-> FALSE]
  /\ current = 0 /\ made = 0 /\ accepted = {}
  /\ kind \in [Id -> Kinds]
  /\ pc = [w \in Worker |-> "none"]
  /\ pending = [w \in Worker |-> {}]
  /\ sigcont = [w \in Worker |-> FALSE]
  /\ sigterm = [w \in Worker |-> FALSE]
  /\ canceledp = [w \in Worker |-> FALSE]
  /\ job = [w \in Worker |-> 0]
  /\ answer = [w \in Worker |-> "failed"]
  /\ report = [w \in Worker |-> "none"]
  /\ problemPipe = [w \in Worker |-> <<>>]
  /\ resultPipe = [w \in Worker |-> <<>>]

\* kill(w, SIGCONT) wakes a stopped worker; waitpid will say "continued".
Continue(w) ==
  /\ pending' = [pending EXCEPT ![w] = @ \cup {"CONT"}]
  /\ IF pc[w] = "stopped"
       THEN /\ pc' = [pc EXCEPT ![w] = "waking"]
            /\ report' = [report EXCEPT ![w] = "continued"]
       ELSE UNCHANGED <<pc, report>>

\* kill(w, sig) for the signals that wake nobody.
Kill(w, sig) ==
  /\ pending' = [pending EXCEPT ![w] = @ \cup {sig}]
  /\ UNCHANGED <<pc, report>>

-------------------------------------------------------------------------------
(* The main loop of the master. *)

Fork ==
  /\ at = "fork"
  /\ state' = [state EXCEPT ![i] = "STARTED"]
  /\ pc' = [pc EXCEPT ![i] = "starting"]
  /\ at' = "store"
  /\ UNCHANGED <<i, j, old, workersStopped, solved, prob, known, sourceVars, pending, flagVars,
                 workVars, report, pipeVars>>

\* The pid returned by fork() reaches the table.
StorePid ==
  /\ at = "store"
  /\ known' = [known EXCEPT ![i] = TRUE]
  /\ IF i < Workers THEN at' = "fork" /\ i' = i + 1
                    ELSE at' = "loop" /\ i' = 1
  /\ UNCHANGED <<j, old, workersStopped, solved, state, prob, sourceVars, workerVars, pipeVars>>

\* are_all_workers_idle.  The handler never changes an IDLE entry of a stopped
\* worker, so reading the table entry by entry finds the same.
AllIdle == \A w \in Worker : state[w] = "IDLE"

\* The test of the inner loop, and of workersStopped; otherwise it sleeps.
Loop ==
  /\ at = "loop"
  /\ AllIdle \/ workersStopped > 0
  /\ at' = IF AllIdle THEN "assign" ELSE "scan"
  /\ i' = 1
  /\ UNCHANGED <<j, old, workersStopped, solved, tableVars, sourceVars, workerVars, pipeVars>>

\* The end of an iteration of the scan.
NextScan ==
  IF i < Workers THEN at' = "scan" /\ i' = i + 1
                 ELSE at' = "loop" /\ i' = 1

ScanOther ==
  /\ at = "scan" /\ state[i] # "STOPPED"
  /\ NextScan
  /\ UNCHANGED <<j, old, workersStopped, solved, tableVars, sourceVars, workerVars, pipeVars>>

\* Mutants of ScanSolved: it takes a worker that still runs for a stopped one;
\* it reads the result it has no use for.
ScanSolvedAny ==
  /\ at = "scan" /\ solved
  /\ state' = [state EXCEPT ![i] = "IDLE"]
  /\ prob' = [prob EXCEPT ![i] = 0]
  /\ NextScan
  /\ UNCHANGED <<j, old, workersStopped, solved, known, sourceVars, workerVars, pipeVars>>

ScanSolvedReads ==
  /\ at = "scan" /\ state[i] = "STOPPED" /\ solved /\ resultPipe[i] # <<>>
  /\ state' = [state EXCEPT ![i] = "IDLE"]
  /\ prob' = [prob EXCEPT ![i] = 0]
  /\ resultPipe' = [resultPipe EXCEPT ![i] = Tail(@)]
  /\ NextScan
  /\ UNCHANGED <<j, old, workersStopped, solved, known, sourceVars, workerVars, problemPipe>>

\* A worker stopped after the problem was solved goes idle: its result stays in
\* the pipe and workersStopped stays as it is.
ScanSolved ==
  /\ at = "scan" /\ state[i] = "STOPPED" /\ solved
  /\ state' = [state EXCEPT ![i] = "IDLE"]
  /\ prob' = [prob EXCEPT ![i] = 0]
  /\ NextScan
  /\ UNCHANGED <<j, old, workersStopped, solved, known, sourceVars, workerVars, pipeVars>>

\* A failed result is dropped: the worker stays STOPPED and is scanned again.
ReadFailed ==
  /\ at = "scan" /\ state[i] = "STOPPED" /\ ~solved
  /\ resultPipe[i] # <<>> /\ Head(resultPipe[i]).kind = "failed"
  /\ resultPipe' = [resultPipe EXCEPT ![i] = Tail(@)]
  /\ NextScan
  /\ UNCHANGED <<j, old, workersStopped, solved, tableVars, sourceVars, workerVars, problemPipe>>

\* The check of the solver: a trivial problem takes any result, a block only a
\* nonce found for it (others fit with probability 2^-20 at most).
Check(r, p) == kind[p] = "trivial" \/ r.of = p

\* Mutants of ReadFound: isCurrentProblemSolved is not set; the problem is
\* cleared before the result is checked.
ReadFoundUnmarked ==
  LET r == Head(resultPipe[i])
  IN /\ at = "scan" /\ state[i] = "STOPPED" /\ ~solved
     /\ resultPipe[i] # <<>> /\ r.kind = "found"
     /\ IF Check(r, prob[i]) /\ prob[i] = current
          THEN /\ current' = 0 /\ accepted' = accepted \cup {current}
          ELSE UNCHANGED <<current, accepted>>
     /\ resultPipe' = [resultPipe EXCEPT ![i] = Tail(@)]
     /\ state' = [state EXCEPT ![i] = "IDLE"]
     /\ prob' = [prob EXCEPT ![i] = 0]
     /\ old' = workersStopped
     /\ at' = "minus"
     /\ UNCHANGED <<i, j, workersStopped, solved, known, made, kind, workerVars, problemPipe>>

ReadFoundUnchecked ==
  LET r == Head(resultPipe[i])
  IN /\ at = "scan" /\ state[i] = "STOPPED" /\ ~solved
     /\ resultPipe[i] # <<>> /\ r.kind = "found"
     /\ current' = 0
     /\ accepted' = IF Check(r, prob[i]) THEN accepted \cup {current} ELSE accepted
     /\ solved' = TRUE
     /\ resultPipe' = [resultPipe EXCEPT ![i] = Tail(@)]
     /\ state' = [state EXCEPT ![i] = "IDLE"]
     /\ prob' = [prob EXCEPT ![i] = 0]
     /\ old' = workersStopped
     /\ at' = "minus"
     /\ UNCHANGED <<i, j, workersStopped, known, made, kind, workerVars, problemPipe>>

\* A successful result is posted to the problem of this worker, and the load of
\* workersStopped-- is done.  Whatever post_result returns the problem counts
\* as solved; the source clears and frees it only when the result is correct.
ReadFound ==
  LET r == Head(resultPipe[i])
  IN /\ at = "scan" /\ state[i] = "STOPPED" /\ ~solved
     /\ resultPipe[i] # <<>> /\ r.kind = "found"
     /\ IF Check(r, prob[i]) /\ prob[i] = current
          THEN /\ current' = 0 /\ accepted' = accepted \cup {current}
          ELSE UNCHANGED <<current, accepted>>
     /\ solved' = TRUE
     /\ resultPipe' = [resultPipe EXCEPT ![i] = Tail(@)]
     /\ state' = [state EXCEPT ![i] = "IDLE"]
     /\ prob' = [prob EXCEPT ![i] = 0]
     /\ old' = workersStopped
     /\ at' = "minus"
     /\ UNCHANGED <<i, j, workersStopped, known, made, kind, workerVars, problemPipe>>

\* Mutant of Minus: workersStopped is decremented twice.
MinusTwo ==
  /\ at = "minus"
  /\ workersStopped' = old - 2
  /\ at' = "cancel" /\ j' = 1
  /\ UNCHANGED <<i, old, solved, tableVars, sourceVars, workerVars, pipeVars>>

\* The store of workersStopped--.
Minus ==
  /\ at = "minus"
  /\ workersStopped' = old - 1
  /\ at' = "cancel" /\ j' = 1
  /\ UNCHANGED <<i, old, solved, tableVars, sourceVars, workerVars, pipeVars>>

\* cancel_all_other_workers, one worker.
Cancel ==
  /\ at = "cancel"
  /\ IF state[j] \in {"RUNNING", "CONTINUED"} THEN Kill(j, "HUP")
                                             ELSE UNCHANGED <<pc, pending, report>>
  /\ IF j < Workers THEN j' = j + 1 /\ UNCHANGED <<at, i>>
                    ELSE j' = 1 /\ NextScan
  /\ UNCHANGED <<old, workersStopped, solved, tableVars, sourceVars, flagVars, workVars, pipeVars>>

\* get_problem_variant: the current problem, or the next one.
NextProblem == IF current # 0 THEN current ELSE made + 1

\* assign_all_workers_problem, one worker.
Assign ==
  /\ at = "assign"
  /\ current # 0 \/ made < Problems
  /\ current' = NextProblem
  /\ made' = IF current # 0 THEN made ELSE made + 1
  /\ solved' = FALSE
  /\ state' = [state EXCEPT ![i] = "CONTINUED"]
  /\ prob' = [prob EXCEPT ![i] = NextProblem]
  /\ problemPipe' = [problemPipe EXCEPT ![i] = Append(@, NextProblem)]
  /\ Continue(i)
  /\ IF i < Workers THEN at' = at /\ i' = i + 1
                    ELSE at' = "loop" /\ i' = 1
  /\ UNCHANGED <<j, old, workersStopped, known, kind, accepted, flagVars, workVars, resultPipe>>

\* No problem is left: terminate_all_workers.
NoProblem ==
  /\ at = "assign"
  /\ current = 0 /\ made = Problems
  /\ solved' = FALSE
  /\ at' = "sigcont" /\ i' = 1
  /\ UNCHANGED <<j, old, workersStopped, tableVars, sourceVars, workerVars, pipeVars>>

TermContinues ==
  /\ at = "sigcont"
  /\ Continue(i)
  /\ at' = "sigterm"
  /\ UNCHANGED <<i, j, old, workersStopped, solved, tableVars, sourceVars, flagVars, workVars,
                 pipeVars>>

TermKills ==
  /\ at = "sigterm"
  /\ Kill(i, "TERM")
  /\ IF i < Workers THEN at' = "sigcont" /\ i' = i + 1
                    ELSE at' = "wait" /\ i' = 1
  /\ UNCHANGED <<j, old, workersStopped, solved, tableVars, sourceVars, flagVars, workVars, pipeVars>>

Finish ==
  /\ at = "wait"
  /\ \A w \in Worker : state[w] = "EXITED"
  /\ at' = "done"
  /\ UNCHANGED <<i, j, old, workersStopped, solved, tableVars, sourceVars, workerVars, pipeVars>>

Main ==
  \/ Fork \/ StorePid \/ Loop \/ ScanOther \/ ScanSolved \/ ReadFailed \/ ReadFound \/ Minus
  \/ Cancel \/ Assign \/ NoProblem \/ TermContinues \/ TermKills \/ Finish

-------------------------------------------------------------------------------
(* The SIGCHLD handler, for one wait status. *)

Ended == at \in {"done", "failed"}

\* Mutants of Observed: a stop counts only for a worker seen running; a worker
\* that stops goes idle, its result unread.
ObservedRunning(w) ==
  CASE report[w] = "exited"                              -> "EXITED"
    [] report[w] = "stopped" /\ state[w] = "STARTED"     -> "IDLE"
    [] report[w] = "stopped" /\ state[w] = "RUNNING"     -> "STOPPED"
    [] report[w] = "continued" /\ state[w] = "CONTINUED" -> "RUNNING"
    [] OTHER                                             -> state[w]

ObservedIdle(w) ==
  CASE report[w] = "exited"                              -> "EXITED"
    [] report[w] = "stopped"                             -> "IDLE"
    [] report[w] = "continued" /\ state[w] = "CONTINUED" -> "RUNNING"
    [] OTHER                                             -> state[w]

\* The state of w after the handler has seen its status.
Observed(w) ==
  CASE report[w] = "exited"                                                 -> "EXITED"
    [] report[w] = "stopped" /\ state[w] = "STARTED"                        -> "IDLE"
    [] report[w] = "stopped" /\ state[w] \in {"RUNNING", "CONTINUED"}       -> "STOPPED"
    [] report[w] = "continued" /\ state[w] = "CONTINUED"                    -> "RUNNING"
    [] OTHER                                                                -> state[w]

Reap(w) ==
  /\ ~Ended /\ report[w] # "none" /\ known[w]
  /\ report' = [report EXCEPT ![w] = "none"]
  /\ state' = [state EXCEPT ![w] = Observed(w)]
  /\ prob' = [prob EXCEPT ![w] = IF state[w] = "STARTED" /\ Observed(w) = "IDLE" THEN 0 ELSE @]
  /\ workersStopped' = IF Observed(w) = "STOPPED" /\ state[w] # "STOPPED" THEN workersStopped + 1
                       ELSE workersStopped
  /\ UNCHANGED <<at, i, j, old, solved, known, sourceVars, pc, pending, flagVars, workVars, pipeVars>>

\* A status of a worker whose pid is not in the table ends the master.
ReapUnknown(w) ==
  /\ ~Ended /\ report[w] # "none" /\ ~known[w]
  /\ at' = "failed"
  /\ report' = [report EXCEPT ![w] = "none"]
  /\ UNCHANGED <<i, j, old, workersStopped, solved, tableVars, sourceVars, pc, pending, flagVars,
                 workVars, pipeVars>>

-------------------------------------------------------------------------------
(* The workers. *)

masterVars == <<loopVars, tableVars, sourceVars>>

\* raise(SIGSTOP).
Stop(w) ==
  /\ pc[w] = "starting"
  /\ pc' = [pc EXCEPT ![w] = "stopped"]
  /\ report' = [report EXCEPT ![w] = "stopped"]
  /\ UNCHANGED <<masterVars, pending, flagVars, workVars, pipeVars>>

\* The handlers of the signals sigs run.
Deliver(w, sigs) ==
  /\ pending' = [pending EXCEPT ![w] = @ \ sigs]
  /\ sigcont' = [sigcont EXCEPT ![w] = @ \/ "CONT" \in sigs]
  /\ sigterm' = [sigterm EXCEPT ![w] = @ \/ "TERM" \in sigs]
  /\ canceledp' = [canceledp EXCEPT ![w] = @ \/ "HUP" \in sigs]

\* raise() returns, once the handlers of all the signals pending have run.
Wake(w) ==
  /\ pc[w] = "waking"
  /\ Deliver(w, pending[w])
  /\ pc' = [pc EXCEPT ![w] = "woken"]
  /\ UNCHANGED <<masterVars, workVars, report, pipeVars>>

\* A signal interrupts a worker that runs.
Interrupt(w) ==
  /\ pc[w] \in {"starting", "woken", "reading", "solving", "solved"}
  /\ \E sig \in pending[w] : Deliver(w, {sig})
  /\ UNCHANGED <<masterVars, pc, workVars, report, pipeVars>>

\* The flags are tested: exit, read a problem, or stop again.
TestFlags(w) ==
  /\ pc[w] = "woken"
  /\ IF sigterm[w]
       THEN /\ pc' = [pc EXCEPT ![w] = "exited"]
            /\ report' = [report EXCEPT ![w] = "exited"]
       ELSE /\ pc' = [pc EXCEPT ![w] = IF sigcont[w] THEN "reading" ELSE "starting"]
            /\ UNCHANGED report
  /\ UNCHANGED <<masterVars, pending, flagVars, workVars, pipeVars>>

\* fread() waits for a problem; a signal does not end the wait.
ReadProblem(w) ==
  /\ pc[w] = "reading"
  /\ problemPipe[w] # <<>>
  /\ job' = [job EXCEPT ![w] = Head(problemPipe[w])]
  /\ problemPipe' = [problemPipe EXCEPT ![w] = Tail(@)]
  /\ pc' = [pc EXCEPT ![w] = "solving"]
  /\ UNCHANGED <<masterVars, pending, flagVars, answer, report, resultPipe>>

\* The solver finds a solution, or sees that it is cancelled; the trivial one
\* does not look.
Solve(w) ==
  /\ pc[w] = "solving"
  /\ \/ answer' = [answer EXCEPT ![w] = "found"]
     \/ /\ canceledp[w] /\ kind[job[w]] = "miner"
        /\ answer' = [answer EXCEPT ![w] = "failed"]
  /\ pc' = [pc EXCEPT ![w] = "solved"]
  /\ UNCHANGED <<masterVars, pending, flagVars, job, report, pipeVars>>

\* canceledp and sigcont_active are reset and the result is written.
WriteResult(w) ==
  /\ pc[w] = "solved"
  /\ canceledp' = [canceledp EXCEPT ![w] = FALSE]
  /\ sigcont' = [sigcont EXCEPT ![w] = FALSE]
  /\ resultPipe' = [resultPipe EXCEPT ![w] = Append(@, [of |-> job[w], kind |-> answer[w]])]
  /\ pc' = [pc EXCEPT ![w] = "starting"]
  /\ UNCHANGED <<masterVars, pending, sigterm, workVars, report, problemPipe>>

Works(w) == Stop(w) \/ Wake(w) \/ TestFlags(w) \/ ReadProblem(w) \/ Solve(w) \/ WriteResult(w)

Over == Ended /\ UNCHANGED vars

Next ==
  \/ Main
  \/ \E w \in Worker : Reap(w) \/ ReapUnknown(w) \/ Works(w) \/ Interrupt(w)
  \/ Over

Spec == Init /\ [][Next]_vars

\* The kernel schedules the master and the workers and delivers their signals.
Fairness ==
  /\ WF_vars(Main)
  /\ \A w \in Worker : WF_vars(Reap(w)) /\ WF_vars(Works(w)) /\ WF_vars(Interrupt(w))

FairSpec == Spec /\ Fairness

-------------------------------------------------------------------------------
(* Properties. *)

TypeOK ==
  /\ at \in {"fork", "store", "loop", "scan", "minus", "cancel", "assign", "sigcont", "sigterm",
             "wait", "done", "failed"}
  /\ i \in Worker /\ j \in Worker
  /\ old \in Nat /\ workersStopped \in Nat
  /\ solved \in BOOLEAN
  /\ state \in [Worker -> {"NONE", "STARTED", "IDLE", "CONTINUED", "RUNNING", "STOPPED", "EXITED"}]
  /\ prob \in [Worker -> Id \cup {0}]
  /\ known \in [Worker -> BOOLEAN]
  /\ current \in Id \cup {0} /\ made \in Id \cup {0}
  /\ kind \in [Id -> Kinds]
  /\ accepted \subseteq Id
  /\ pc \in [Worker -> {"none", "starting", "stopped", "waking", "woken", "reading", "solving",
                        "solved", "exited"}]
  /\ pending \in [Worker -> SUBSET {"CONT", "HUP", "TERM"}]
  /\ sigcont \in [Worker -> BOOLEAN]
  /\ sigterm \in [Worker -> BOOLEAN]
  /\ canceledp \in [Worker -> BOOLEAN]
  /\ job \in [Worker -> Id \cup {0}]
  /\ answer \in [Worker -> {"found", "failed"}]
  /\ report \in [Worker -> {"none", "stopped", "continued", "exited"}]
  /\ problemPipe \in [Worker -> Seq(Id)]
  /\ resultPipe \in [Worker -> Seq(Result)]

Terminating == at \in {"sigcont", "sigterm", "wait", "done"}

\* A worker the master takes for idle is stopped, has left no status to wait for
\* and no problem unread: the next problem and the SIGCONT with it cannot be
\* lost (the kernel forgets a SIGCONT sent to a process that has yet to stop).
IdleIsStopped ==
  \A w \in Worker :
    state[w] = "IDLE" /\ ~Terminating
      => pc[w] = "stopped" /\ report[w] = "none" /\ problemPipe[w] = <<>>

\* A worker whose result is to be posted has the current problem: post_result is
\* never given one that another result has solved and freed.
PostsLiveProblem ==
  \A w \in Worker :
    state[w] \in {"CONTINUED", "RUNNING", "STOPPED"} /\ ~solved => prob[w] = current /\ current # 0

\* The master never waits in read() for a result that does not come, although a
\* worker stays STOPPED after a failed result and is read from again: a worker
\* fails only when cancelled, and has then left an older result unread.
ReadsFindAResult ==
  \A w \in Worker : state[w] = "STOPPED" /\ ~solved => resultPipe[w] # <<>>

\* The states follow each other as hw4's README describes them.
Follows ==
  {<<"NONE", "STARTED">>, <<"STARTED", "IDLE">>, <<"IDLE", "CONTINUED">>, <<"IDLE", "EXITED">>,
   <<"CONTINUED", "RUNNING">>, <<"CONTINUED", "STOPPED">>, <<"RUNNING", "STOPPED">>,
   <<"STOPPED", "IDLE">>}

\* A worker changes state along the cycle of the README only, whichever of its
\* stops and continues the kernel has merged and wherever the handler runs.
StatesFollow ==
  [][\A w \in Worker : state'[w] # state[w] => <<state[w], state'[w]>> \in Follows]_vars

\* The master goes on to the end only when every problem has been solved by a
\* result that is correct for it.
EndsWithAllSolved == Terminating => accepted = Id /\ current = 0

\* Every worker that is given a problem stops with a result, and the master
\* sees it stop.
AssignedStops == \A w \in Worker : state[w] = "CONTINUED" ~> state[w] = "STOPPED" \/ at = "failed"

\* All problems get solved (README: the master assigns problems to idle workers
\* and posts results until finally all of the worker processes are idle and no
\* further problem is left to be solved).
AllGetSolved == <>(accepted = Id \/ at = "failed")

-------------------------------------------------------------------------------
(* Statements of the README and polya.h that the code does not keep. *)

\* polya.h: post_result is given the problem that the result supposedly solves.
ResultsMatch ==
  [][\A w \in Worker :
       ~solved /\ state[w] = "STOPPED" /\ state'[w] = "IDLE" => Head(resultPipe[w]).of = prob[w]]_vars
===============================================================================
