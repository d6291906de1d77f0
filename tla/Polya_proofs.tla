----------------------------- MODULE Polya_proofs -----------------------------
(***************************************************************************)
(* Proofs about Polya for any number of workers and of problems.  The      *)
(* master knows of a worker what the wait statuses told it; Consistent says *)
(* for each of its states where the worker can really be, with what in its *)
(* pipe, its flags and its pending signals.  It is what makes IdleIsStopped *)
(* inductive, and IdleIsStopped is what makes a SIGCONT reach its worker.  *)
(***************************************************************************)
EXTENDS Polya, TLAPS

Assigned == {"CONTINUED", "RUNNING", "STOPPED"}

\* No problem waits and no SIGCONT has come since the last result.
Quiet(w) == problemPipe[w] = <<>> /\ ~sigcont[w]

Rests(w) == pc[w] = "stopped" /\ Quiet(w)

HasProblem(w) == \E p \in Id : problemPipe[w] = <<p>>

\* Between SIGCONT and the next stop.
Busy(w) ==
  \/ pc[w] = "waking" /\ "CONT" \in pending[w] /\ HasProblem(w)
  \/ /\ "CONT" \notin pending[w]
     /\ \/ pc[w] \in {"woken", "reading"} /\ sigcont[w] /\ HasProblem(w)
        \/ pc[w] \in {"solving", "solved"} /\ problemPipe[w] = <<>>
        \/ pc[w] = "starting" /\ Quiet(w)

\* What the master's state of a worker says about the worker.
Consistent(w) ==
  /\ report[w] # "exited" /\ ~sigterm[w] /\ "TERM" \notin pending[w]
  /\ Rests(w) => "CONT" \notin pending[w]
  /\ state[w] \notin {"NONE", "STARTED"} => known[w]
  /\ state[w] # "EXITED"
  /\ state[w] = "NONE" => pc[w] = "none" /\ report[w] = "none" /\ Quiet(w) /\ "CONT" \notin pending[w]
  /\ state[w] = "STARTED" =>
       \/ pc[w] = "starting" /\ report[w] = "none" /\ Quiet(w) /\ "CONT" \notin pending[w]
       \/ Rests(w) /\ (report[w] = "stopped" \/ at = "failed")
  /\ state[w] \in {"IDLE", "STOPPED"} => Rests(w) /\ report[w] = "none"
  /\ state[w] \in {"CONTINUED", "RUNNING"} =>
       \/ Rests(w) /\ report[w] = "stopped"
       \/ Busy(w) /\ report[w] = IF state[w] = "CONTINUED" THEN "continued" ELSE "none"

\* Until it terminates them, the master is right about all its workers.
MasterIsRight ==
  IF Terminating THEN \A w \in Worker : state[w] \in {"IDLE", "EXITED"} /\ known[w]
                 ELSE \A w \in Worker : Consistent(w)

\* Where the main loop is says how far the table has come.
Position ==
  /\ at = "fork" => \A w \in Worker : w >= i => state[w] = "NONE"
  /\ at = "store" => \A w \in Worker : w > i => state[w] = "NONE"
  /\ at = "assign" => /\ \A w \in Worker : w >= i => state[w] = "IDLE"
                      /\ \A w \in Worker : state[w] \in Assigned => prob[w] = current
                      /\ i > 1 => current # 0

\* The decrement of workersStopped finds it positive: only one is made between
\* two tests of the loop, and an update the handler loses is lost to it alone.
Counted ==
  /\ at = "scan" /\ ~solved => workersStopped > 0
  /\ at = "minus" => old > 0 /\ solved
  /\ at = "cancel" => solved

\* A solver runs on a problem.
HasJob == \A w \in Worker : pc[w] \in {"solving", "solved"} => job[w] \in Id

\* The problems made are the current one and those accepted.
Accounted ==
  /\ current = 0 \/ current = made
  /\ accepted = (1 .. made) \ {current}
  /\ Terminating => current = 0 /\ made = Problems

IInv == TypeOK /\ Accounted /\ HasJob /\ MasterIsRight /\ Position /\ Counted /\ PostsLiveProblem

-------------------------------------------------------------------------------
(* The beginning, and the types. *)

LEMMA Start == Init => IInv
<1> SUFFICES ASSUME Init PROVE IInv
  OBVIOUS
<1>1. TypeOK
  <2>1. 1 \in Worker
    BY PolyaAssumption DEF Worker
  <2>2. problemPipe \in [Worker -> Seq(Id)] /\ resultPipe \in [Worker -> Seq(Result)]
    BY DEF Init
  <2> QED BY <2>1, <2>2 DEF Init, TypeOK
<1>2. \A w \in Worker : Consistent(w)
  BY DEF Init, Consistent, Quiet, Rests
<1>3. MasterIsRight
  BY <1>2 DEF Init, MasterIsRight, Terminating
<1>4. HasJob /\ Position /\ Counted /\ PostsLiveProblem
  BY DEF Init, HasJob, Position, Counted, PostsLiveProblem
<1>5. Accounted
  BY DEF Init, Accounted, Terminating
<1> QED BY <1>1, <1>3, <1>4, <1>5 DEF IInv

\* The index of a loop over the workers stays in range.
LEMMA NextIndex ==
  ASSUME NEW n \in Worker, n < Workers
  PROVE  n + 1 \in Worker
BY PolyaAssumption DEF Worker

LEMMA FirstIndex == 1 \in Worker
BY PolyaAssumption DEF Worker

\* A new problem has a free id.
LEMMA NextProblemType ==
  ASSUME TypeOK, current # 0 \/ made < Problems
  PROVE  NextProblem \in Id /\ (current = 0 => made + 1 \in Id)
BY PolyaAssumption DEF TypeOK, NextProblem, Id

\* kill() keeps the types of what it touches.
LEMMA KillType ==
  ASSUME TypeOK, NEW w \in Worker, NEW sig \in {"CONT", "HUP", "TERM"},
         Kill(w, sig) \/ (sig = "CONT" /\ Continue(w))
  PROVE  /\ pending' \in [Worker -> SUBSET {"CONT", "HUP", "TERM"}]
         /\ pc' \in [Worker -> {"none", "starting", "stopped", "waking", "woken", "reading",
                                "solving", "solved", "exited"}]
         /\ report' \in [Worker -> {"none", "stopped", "continued", "exited"}]
<1>1. pending' = [pending EXCEPT ![w] = @ \cup {sig}]
  BY DEF Kill, Continue
<1>2. pending' \in [Worker -> SUBSET {"CONT", "HUP", "TERM"}]
  BY <1>1 DEF TypeOK
<1>3. CASE Kill(w, sig)
  BY <1>2, <1>3 DEF Kill, TypeOK
<1>4. CASE Continue(w)
  <2>1. CASE pc[w] = "stopped"
    <3>1. pc' = [pc EXCEPT ![w] = "waking"] /\ report' = [report EXCEPT ![w] = "continued"]
      BY <1>4, <2>1 DEF Continue
    <3> QED BY <1>2, <3>1 DEF TypeOK
  <2>2. CASE pc[w] # "stopped"
    BY <1>2, <1>4, <2>2 DEF Continue, TypeOK
  <2> QED BY <2>1, <2>2
<1> QED BY <1>3, <1>4

\* A step of the main loop keeps the types.
LEMMA MainTypes == ASSUME IInv, Main PROVE TypeOK'
<1> USE DEF IInv, loopVars, tableVars, sourceVars, workerVars, flagVars, workVars, pipeVars
<1>1. CASE Fork
  BY <1>1 DEF Fork, TypeOK
<1>2. CASE StorePid
  BY <1>2, NextIndex, FirstIndex DEF StorePid, TypeOK
<1>3. CASE Loop
  BY <1>3, FirstIndex DEF Loop, TypeOK
<1>4. CASE ScanOther
  BY <1>4, NextIndex, FirstIndex DEF ScanOther, NextScan, TypeOK
<1>5. CASE ScanSolved
  BY <1>5, NextIndex, FirstIndex DEF ScanSolved, NextScan, TypeOK
<1>6. CASE ReadFailed
  BY <1>6, NextIndex, FirstIndex DEF ReadFailed, NextScan, TypeOK
<1>7. CASE ReadFound
  <2>1. current' \in Id \cup {0} /\ accepted' \subseteq Id
    <3>1. CASE Check(Head(resultPipe[i]), prob[i]) /\ prob[i] = current
      <4>1. prob[i] # 0
        BY <1>7 DEF ReadFound, TypeOK, PostsLiveProblem
      <4>2. current \in Id
        BY <3>1, <4>1 DEF TypeOK
      <4> QED BY <1>7, <3>1, <4>2 DEF ReadFound, TypeOK
    <3>2. CASE ~(Check(Head(resultPipe[i]), prob[i]) /\ prob[i] = current)
      BY <1>7, <3>2 DEF ReadFound, TypeOK
    <3> QED BY <3>1, <3>2
  <2> QED BY <1>7, <2>1 DEF ReadFound, TypeOK
<1>8. CASE Minus
  BY <1>8, FirstIndex DEF Minus, TypeOK, Counted
<1>9. CASE Cancel
  <2>1. CASE state[j] \in {"RUNNING", "CONTINUED"}
    <3>1. Kill(j, "HUP") /\ j \in Worker
      BY <1>9, <2>1 DEF Cancel, TypeOK
    <3> QED BY <1>9, <3>1, KillType, NextIndex, FirstIndex DEF Cancel, NextScan, TypeOK
  <2>2. CASE state[j] \notin {"RUNNING", "CONTINUED"}
    BY <1>9, <2>2, NextIndex, FirstIndex DEF Cancel, NextScan, TypeOK
  <2> QED BY <2>1, <2>2
<1>10. CASE Assign
  <2>1. i \in Worker /\ Continue(i) /\ NextProblem \in Id /\ (current = 0 => made + 1 \in Id)
    BY <1>10, NextProblemType DEF Assign, TypeOK
  <2>2. problemPipe' \in [Worker -> Seq(Id)]
    BY <1>10, <2>1 DEF Assign, TypeOK
  <2>3. current' \in Id \cup {0} /\ made' \in Id \cup {0} /\ prob' \in [Worker -> Id \cup {0}]
    BY <1>10, <2>1 DEF Assign, TypeOK
  <2>4. /\ pending' \in [Worker -> SUBSET {"CONT", "HUP", "TERM"}]
        /\ pc' \in [Worker -> {"none", "starting", "stopped", "waking", "woken", "reading",
                               "solving", "solved", "exited"}]
        /\ report' \in [Worker -> {"none", "stopped", "continued", "exited"}]
    BY <2>1, KillType
  <2>5. at' \in {"assign", "loop"} /\ i' \in Worker
    BY <1>10, <2>1, NextIndex, FirstIndex DEF Assign
  <2> QED BY <1>10, <2>2, <2>3, <2>4, <2>5 DEF Assign, TypeOK
<1>11. CASE NoProblem
  BY <1>11, FirstIndex DEF NoProblem, TypeOK
<1>12. CASE TermContinues
  <2>1. i \in Worker /\ Continue(i)
    BY <1>12 DEF TermContinues, TypeOK
  <2> QED BY <1>12, <2>1, KillType DEF TermContinues, TypeOK
<1>13. CASE TermKills
  <2>1. i \in Worker /\ Kill(i, "TERM")
    BY <1>13 DEF TermKills, TypeOK
  <2> QED BY <1>13, <2>1, KillType, NextIndex, FirstIndex DEF TermKills, TypeOK
<1>14. CASE Finish
  BY <1>14 DEF Finish, TypeOK
<1> QED BY <1>1, <1>2, <1>3, <1>4, <1>5, <1>6, <1>7, <1>8, <1>9, <1>10, <1>11, <1>12, <1>13, <1>14
        DEF Main

\* What the handler makes of a status is a state.
LEMMA ObservedType ==
  ASSUME TypeOK, NEW w \in Worker
  PROVE  Observed(w) \in {"NONE", "STARTED", "IDLE", "CONTINUED", "RUNNING", "STOPPED", "EXITED"}
BY DEF TypeOK, Observed

\* A step of the handler keeps the types.
LEMMA HandlerTypes ==
  ASSUME TypeOK, NEW w \in Worker, Reap(w) \/ ReapUnknown(w)
  PROVE  TypeOK'
<1> USE DEF loopVars, tableVars, sourceVars, workerVars, flagVars, workVars, pipeVars
<1>1. CASE Reap(w)
  <2>1. state' \in [Worker -> {"NONE", "STARTED", "IDLE", "CONTINUED", "RUNNING", "STOPPED", "EXITED"}]
    BY <1>1, ObservedType DEF Reap, TypeOK
  <2>2. prob' \in [Worker -> Id \cup {0}]
    BY <1>1 DEF Reap, TypeOK
  <2>3. workersStopped' \in Nat
    BY <1>1 DEF Reap, TypeOK
  <2> QED BY <1>1, <2>1, <2>2, <2>3 DEF Reap, TypeOK
<1>2. CASE ReapUnknown(w)
  BY <1>2 DEF ReapUnknown, TypeOK
<1> QED BY <1>1, <1>2

\* A step of a worker keeps the types.
LEMMA WorkerTypes ==
  ASSUME TypeOK, HasJob, NEW w \in Worker, Works(w) \/ Interrupt(w)
  PROVE  TypeOK'
<1> USE DEF masterVars, loopVars, tableVars, sourceVars, workerVars, flagVars, workVars, pipeVars
<1>1. CASE Stop(w)
  BY <1>1 DEF Stop, TypeOK
<1>2. ASSUME NEW sigs, Deliver(w, sigs)
      PROVE  /\ pending' \in [Worker -> SUBSET {"CONT", "HUP", "TERM"}]
             /\ sigcont' \in [Worker -> BOOLEAN]
             /\ sigterm' \in [Worker -> BOOLEAN]
             /\ canceledp' \in [Worker -> BOOLEAN]
  <2>1. pending' \in [Worker -> SUBSET {"CONT", "HUP", "TERM"}]
    BY <1>2 DEF Deliver, TypeOK
  <2>2. sigcont' \in [Worker -> BOOLEAN]
    <3> DEFINE b == sigcont[w] \/ "CONT" \in sigs
    <3>1. b \in BOOLEAN
      OBVIOUS
    <3> HIDE DEF b
    <3>2. sigcont' = [sigcont EXCEPT ![w] = b]
      BY <1>2 DEF Deliver, b
    <3> QED BY <3>1, <3>2 DEF TypeOK
  <2>3. sigterm' \in [Worker -> BOOLEAN]
    <3> DEFINE b == sigterm[w] \/ "TERM" \in sigs
    <3>1. b \in BOOLEAN
      OBVIOUS
    <3> HIDE DEF b
    <3>2. sigterm' = [sigterm EXCEPT ![w] = b]
      BY <1>2 DEF Deliver, b
    <3> QED BY <3>1, <3>2 DEF TypeOK
  <2>4. canceledp' \in [Worker -> BOOLEAN]
    <3> DEFINE b == canceledp[w] \/ "HUP" \in sigs
    <3>1. b \in BOOLEAN
      OBVIOUS
    <3> HIDE DEF b
    <3>2. canceledp' = [canceledp EXCEPT ![w] = b]
      BY <1>2 DEF Deliver, b
    <3> QED BY <3>1, <3>2 DEF TypeOK
  <2> QED BY <2>1, <2>2, <2>3, <2>4
<1>3. CASE Wake(w)
  <2>1. pc' = [pc EXCEPT ![w] = "woken"] /\ Deliver(w, pending[w])
    BY <1>3 DEF Wake
  <2> QED BY <1>2, <1>3, <2>1 DEF Wake, TypeOK
<1>4. CASE Interrupt(w)
  <2>1. PICK sig \in pending[w] : Deliver(w, {sig})
    BY <1>4 DEF Interrupt
  <2> QED BY <1>2, <1>4, <2>1 DEF Interrupt, TypeOK
<1>5. CASE TestFlags(w)
  <2>1. pc' = [pc EXCEPT ![w] = "exited"] \/ pc' = [pc EXCEPT ![w] = "reading"]
        \/ pc' = [pc EXCEPT ![w] = "starting"]
    BY <1>5 DEF TestFlags
  <2>2. report' = [report EXCEPT ![w] = "exited"] \/ report' = report
    BY <1>5 DEF TestFlags
  <2> QED BY <1>5, <2>1, <2>2 DEF TestFlags, TypeOK
<1>6. CASE ReadProblem(w)
  BY <1>6 DEF ReadProblem, TypeOK
<1>7. CASE Solve(w)
  BY <1>7 DEF Solve, TypeOK
<1>8. CASE WriteResult(w)
  <2> DEFINE r == [of |-> job[w], kind |-> answer[w]]
  <2>1. job[w] \in Id /\ answer[w] \in {"found", "failed"}
    BY <1>8 DEF WriteResult, TypeOK, HasJob
  <2>2. r \in Result
    BY <2>1 DEF Result
  <2>3. resultPipe[w] \in Seq(Result)
    BY DEF TypeOK
  <2>4. resultPipe' = [resultPipe EXCEPT ![w] = Append(@, r)]
    BY <1>8 DEF WriteResult
  <2> HIDE DEF r
  <2>5. Append(resultPipe[w], r) \in Seq(Result)
    BY <2>2, <2>3
  <2>6. resultPipe' \in [Worker -> Seq(Result)]
    BY <2>4, <2>5 DEF TypeOK
  <2> QED BY <1>8, <2>6 DEF WriteResult, TypeOK
<1> QED BY <1>1, <1>3, <1>4, <1>5, <1>6, <1>7, <1>8 DEF Works

-------------------------------------------------------------------------------
(* The parts of IInv about the master alone. *)

\* A stutter, and the steps after the end, change nothing.
LEMMA Stutter == ASSUME IInv, UNCHANGED vars PROVE IInv'
BY DEF IInv, TypeOK, Accounted, HasJob, MasterIsRight, Consistent, Quiet, Rests, HasProblem, Busy, Terminating,
       Position, Counted, PostsLiveProblem, vars, loopVars, tableVars, sourceVars, workerVars,
       flagVars, workVars, pipeVars

\* Whatever the master does, a worker can only start or be woken by it.
LEMMA MainMovesWorkers ==
  ASSUME TypeOK, Main, NEW w \in Worker
  PROVE  job' = job /\ (pc'[w] = pc[w] \/ pc'[w] \in {"starting", "waking"})
<1> USE DEF loopVars, tableVars, sourceVars, workerVars, flagVars, workVars, pipeVars
<1>1. job' = job
  BY DEF Main, Fork, StorePid, Loop, ScanOther, ScanSolved, ReadFailed, ReadFound, Minus, Cancel,
         Assign, NoProblem, TermContinues, TermKills, Finish
<1>2. CASE Fork
  BY <1>2 DEF Fork, TypeOK
<1>3. CASE Cancel
  BY <1>3 DEF Cancel, Kill
<1>4. CASE Assign
  BY <1>4 DEF Assign, Continue, TypeOK
<1>5. CASE TermContinues
  BY <1>5 DEF TermContinues, Continue, TypeOK
<1>6. CASE TermKills
  BY <1>6 DEF TermKills, Kill
<1>7. CASE StorePid \/ Loop \/ ScanOther \/ ScanSolved \/ ReadFailed \/ ReadFound \/ Minus
           \/ NoProblem \/ Finish
  BY <1>7 DEF StorePid, Loop, ScanOther, ScanSolved, ReadFailed, ReadFound, Minus, NoProblem, Finish
<1> QED BY <1>1, <1>2, <1>3, <1>4, <1>5, <1>6, <1>7 DEF Main

LEMMA HasJobStep == ASSUME IInv, Next PROVE HasJob'
<1>1. CASE Main
  BY <1>1, MainMovesWorkers DEF IInv, HasJob
<1>2. ASSUME NEW w \in Worker, Reap(w) \/ ReapUnknown(w) PROVE HasJob'
  BY <1>2 DEF IInv, HasJob, Reap, ReapUnknown, workVars
<1>3. ASSUME NEW w \in Worker, Works(w) \/ Interrupt(w) PROVE HasJob'
  <2> USE DEF IInv, TypeOK, HasJob, workVars
  <2>1. CASE Stop(w)
    BY <2>1 DEF Stop
  <2>2. CASE Wake(w)
    BY <2>2 DEF Wake
  <2>3. CASE Interrupt(w)
    BY <2>3 DEF Interrupt
  <2>4. CASE TestFlags(w)
    BY <2>4 DEF TestFlags
  <2>5. CASE ReadProblem(w)
    <3>1. Head(problemPipe[w]) \in Id
      BY <2>5 DEF ReadProblem
    <3> QED BY <2>5, <3>1 DEF ReadProblem
  <2>6. CASE Solve(w)
    BY <2>6 DEF Solve
  <2>7. CASE WriteResult(w)
    BY <2>7 DEF WriteResult
  <2> QED BY <1>3, <2>1, <2>2, <2>3, <2>4, <2>5, <2>6, <2>7 DEF Works
<1>4. CASE Over
  BY <1>4, Stutter DEF Over, IInv
<1> QED BY <1>1, <1>2, <1>3, <1>4 DEF Next

\* The handler only adds to workersStopped; the main loop tests it before a scan.
LEMMA CountStep == ASSUME IInv, Next PROVE Counted'
<1> USE DEF IInv, TypeOK, Counted, loopVars, masterVars
<1>1. CASE Main
  BY <1>1 DEF Main, Fork, StorePid, Loop, AllIdle, ScanOther, NextScan, ScanSolved, ReadFailed,
              ReadFound, Minus, Cancel, Assign, NoProblem, TermContinues, TermKills, Finish
<1>2. ASSUME NEW w \in Worker, Reap(w) \/ ReapUnknown(w) PROVE Counted'
  BY <1>2 DEF Reap, ReapUnknown
<1>3. ASSUME NEW w \in Worker, Works(w) \/ Interrupt(w) PROVE Counted'
  BY <1>3 DEF Works, Interrupt, Stop, Wake, TestFlags, ReadProblem, Solve, WriteResult
<1>4. CASE Over
  BY <1>4, Stutter DEF Over
<1> QED BY <1>1, <1>2, <1>3, <1>4 DEF Next

-------------------------------------------------------------------------------
(* The master is right about its workers. *)

\* A step that leaves a worker and its entry alone.
LEMMA Unmoved ==
  ASSUME NEW w \in Worker, Consistent(w), at = "failed" => at' = "failed",
         state'[w] = state[w], known'[w] = known[w], pc'[w] = pc[w], report'[w] = report[w],
         pending'[w] = pending[w], sigcont'[w] = sigcont[w], sigterm'[w] = sigterm[w],
         problemPipe'[w] = problemPipe[w]
  PROVE  Consistent(w)'
<1>1. Quiet(w)' = Quiet(w)
  BY DEF Quiet
<1>2. Rests(w)' = Rests(w)
  BY <1>1 DEF Rests
<1>3. HasProblem(w)' = HasProblem(w)
  BY DEF HasProblem
<1>4. Busy(w)' = Busy(w)
  BY <1>1, <1>3 DEF Busy
<1> QED BY <1>1, <1>2, <1>4 DEF Consistent

\* SIGHUP and a stored pid make no difference to what the master knows.
LEMMA Cancelled ==
  ASSUME TypeOK, NEW w \in Worker, Consistent(w), at # "failed",
         state'[w] = state[w], known[w] => known'[w], pc'[w] = pc[w], report'[w] = report[w],
         pending'[w] \in {pending[w], pending[w] \cup {"HUP"}}, sigcont'[w] = sigcont[w],
         sigterm'[w] = sigterm[w], problemPipe'[w] = problemPipe[w]
  PROVE  Consistent(w)'
<1>1. /\ "CONT" \in pending'[w] <=> "CONT" \in pending[w]
      /\ "TERM" \in pending'[w] <=> "TERM" \in pending[w]
  OBVIOUS
<1>2. Quiet(w)' = Quiet(w)
  BY DEF Quiet
<1>3. Rests(w)' = Rests(w)
  BY <1>2 DEF Rests
<1>4. HasProblem(w)' = HasProblem(w)
  BY DEF HasProblem
<1>5. Busy(w)' = Busy(w)
  BY <1>1, <1>2, <1>4 DEF Busy
<1> QED BY <1>1, <1>2, <1>3, <1>5 DEF Consistent

\* An idle worker given a problem is waking up, with the problem in its pipe.
LEMMA Given ==
  ASSUME IInv, Assign, NEW w \in Worker, w = i, Consistent(w)
  PROVE  Consistent(w)'
<1>1. state[w] = "IDLE"
  BY DEF IInv, Assign, Position, Worker
<1>2. NextProblem \in Id
  BY NextProblemType DEF IInv, Assign
<1>3. /\ pc[w] = "stopped" /\ problemPipe[w] = <<>> /\ ~sigcont[w] /\ report[w] = "none"
      /\ ~sigterm[w] /\ "TERM" \notin pending[w] /\ known[w]
  BY <1>1 DEF Consistent, Rests, Quiet
<1>4. /\ pc'[w] = "waking" /\ report'[w] = "continued" /\ "CONT" \in pending'[w]
      /\ "TERM" \notin pending'[w]
  BY <1>3 DEF Assign, Continue, IInv, TypeOK
<1>5. problemPipe'[w] = <<NextProblem>>
  BY <1>2, <1>3 DEF Assign, IInv, TypeOK
<1>6. state'[w] = "CONTINUED" /\ known'[w] /\ ~sigcont'[w] /\ ~sigterm'[w]
  BY <1>3 DEF Assign, IInv, TypeOK, flagVars
<1>7. HasProblem(w)'
  BY <1>2, <1>5 DEF HasProblem, Id
<1> QED BY <1>4, <1>6, <1>7 DEF Consistent, Rests, Busy

\* A step of the main loop before termination.
LEMMA MainRight ==
  ASSUME IInv, Main, ~Terminating, ~Terminating', NEW w \in Worker
  PROVE  Consistent(w)'
<1>1. Consistent(w) /\ TypeOK
  BY DEF IInv, MasterIsRight
<1> USE DEF TypeOK, loopVars, tableVars, sourceVars, workerVars, flagVars, workVars, pipeVars
<1>2. CASE Fork
  <2>1. CASE w = i
    <3>1. state[i] = "NONE"
      BY <1>2 DEF Fork, IInv, Position, Worker
    <3> QED BY <1>1, <1>2, <2>1, <3>1 DEF Fork, Consistent, Quiet, Rests
  <2>2. CASE w # i
    BY <1>1, <1>2, <2>2, Unmoved DEF Fork
  <2> QED BY <2>1, <2>2
<1>3. CASE StorePid
  BY <1>1, <1>3, Cancelled DEF StorePid
<1>4. CASE Loop \/ ScanOther \/ ReadFailed \/ Minus
  BY <1>1, <1>4, Unmoved DEF Loop, ScanOther, NextScan, ReadFailed, Minus
<1>5. CASE ScanSolved \/ ReadFound
  <2>1. CASE w = i
    BY <1>1, <1>5, <2>1 DEF ScanSolved, ReadFound, NextScan, Consistent, Quiet, Rests
  <2>2. CASE w # i
    BY <1>1, <1>5, <2>2, Unmoved DEF ScanSolved, ReadFound, NextScan
  <2> QED BY <2>1, <2>2
<1>6. CASE Cancel
  <2>1. pending'[w] \in {pending[w], pending[w] \cup {"HUP"}} /\ pc' = pc /\ report' = report
    BY <1>1, <1>6 DEF Cancel, Kill
  <2> QED BY <1>1, <1>6, <2>1, Cancelled DEF Cancel
<1>7. CASE Assign
  <2>1. CASE w = i
    BY <1>1, <1>7, <2>1, Given
  <2>2. CASE w # i
    <3>1. pc'[w] = pc[w] /\ report'[w] = report[w] /\ pending'[w] = pending[w]
      BY <1>1, <1>7, <2>2 DEF Assign, Continue
    <3> QED BY <1>1, <1>7, <2>2, <3>1, Unmoved DEF Assign
  <2> QED BY <2>1, <2>2
<1>8. CASE NoProblem \/ TermContinues \/ TermKills \/ Finish
  BY <1>8 DEF NoProblem, TermContinues, TermKills, Finish, Terminating
<1> QED BY <1>2, <1>3, <1>4, <1>5, <1>6, <1>7, <1>8 DEF Main

\* The handler learns the stop or the continue of a worker.
LEMMA HandlerRight ==
  ASSUME IInv, ~Terminating, NEW v \in Worker, Reap(v) \/ ReapUnknown(v), NEW w \in Worker
  PROVE  Consistent(w)'
<1>1. Consistent(w) /\ TypeOK
  BY DEF IInv, MasterIsRight
<1> USE DEF TypeOK, loopVars, tableVars, sourceVars, workerVars, flagVars, workVars, pipeVars
<1>2. CASE Reap(v) /\ v # w
  BY <1>1, <1>2, Unmoved DEF Reap
<1>3. CASE Reap(v) /\ v = w
  <2>1. /\ report'[w] = "none" /\ state'[w] = Observed(w) /\ known[w] /\ report[w] # "none"
        /\ at' = at /\ at # "failed" /\ UNCHANGED <<known, pc, pending, sigcont, sigterm, problemPipe>>
    BY <1>1, <1>3 DEF Reap, Ended
  <2>2. CASE state[w] = "STARTED"
    BY <1>1, <2>1, <2>2 DEF Consistent, Quiet, Rests, Observed
  <2>3. CASE state[w] \in {"CONTINUED", "RUNNING"}
    <3>1. CASE Rests(w) /\ report[w] = "stopped"
      BY <1>1, <2>1, <2>3, <3>1 DEF Consistent, Quiet, Rests, Observed
    <3>2. CASE Busy(w) /\ report[w] = "continued" /\ state[w] = "CONTINUED"
      <4>1. state'[w] = "RUNNING" /\ Busy(w)'
        BY <2>1, <3>2 DEF Observed, Busy, HasProblem, Quiet
      <4> QED BY <1>1, <2>1, <4>1 DEF Consistent, Quiet, Rests
    <3> QED BY <1>1, <2>1, <2>3, <3>1, <3>2 DEF Consistent
  <2>4. CASE state[w] \notin {"STARTED", "CONTINUED", "RUNNING"}
    BY <1>1, <2>1, <2>4 DEF Consistent
  <2> QED BY <2>2, <2>3, <2>4
<1>4. CASE ReapUnknown(v) /\ v # w
  BY <1>1, <1>4, Unmoved DEF ReapUnknown
<1>5. CASE ReapUnknown(v) /\ v = w
  BY <1>1, <1>5 DEF ReapUnknown, Consistent, Quiet, Rests
<1> QED BY <1>2, <1>3, <1>4, <1>5

\* The only signal that interrupts a worker at work is SIGHUP.
LEMMA InterruptRight ==
  ASSUME TypeOK, NEW w \in Worker, Consistent(w), Interrupt(w)
  PROVE  Consistent(w)'
<1>1. "CONT" \notin pending[w] /\ "TERM" \notin pending[w]
  BY DEF Consistent, Interrupt, Rests, Busy, TypeOK
<1>2. PICK sig \in pending[w] : Deliver(w, {sig})
  BY DEF Interrupt
<1>3. sig = "HUP"
  <2>1. pending[w] \in SUBSET {"CONT", "HUP", "TERM"}
    BY DEF TypeOK
  <2> QED BY <1>1, <1>2, <2>1
<1>4. "CONT" \notin pending'[w] /\ "TERM" \notin pending'[w]
  BY <1>1, <1>2 DEF Deliver, TypeOK
<1>5. (sigcont'[w] <=> sigcont[w]) /\ (sigterm'[w] <=> sigterm[w])
  BY <1>2, <1>3 DEF Deliver, TypeOK
<1>6. UNCHANGED <<at, state, known, pc, report, problemPipe>>
  BY DEF Interrupt, masterVars, loopVars, tableVars, pipeVars
<1>7. Quiet(w)' <=> Quiet(w)
  BY <1>5, <1>6 DEF Quiet
<1>8. Rests(w)' <=> Rests(w)
  BY <1>6, <1>7 DEF Rests
<1>9. HasProblem(w)' <=> HasProblem(w)
  BY <1>6 DEF HasProblem
<1>10. Busy(w)' <=> Busy(w)
  BY <1>1, <1>4, <1>5, <1>6, <1>7, <1>9 DEF Busy
<1> QED BY <1>1, <1>4, <1>5, <1>6, <1>7, <1>8, <1>10 DEF Consistent

\* A step of a worker, known to the master or not yet, leaves the master right.
LEMMA WorkRight ==
  ASSUME TypeOK, NEW w \in Worker, Consistent(w), Works(w)
  PROVE  Consistent(w)'
<1> USE DEF TypeOK, masterVars, loopVars, tableVars, sourceVars, workerVars, flagVars, workVars, pipeVars
<1>1. CASE Stop(w)
  <2>1. /\ pc[w] = "starting" /\ pc'[w] = "stopped" /\ report'[w] = "stopped"
        /\ UNCHANGED <<at, state, known, pending, sigcont, sigterm, problemPipe>>
    BY <1>1 DEF Stop
  <2>2. "CONT" \notin pending[w] /\ Quiet(w) /\ state[w] \notin {"NONE", "IDLE", "STOPPED", "EXITED"}
    BY <2>1 DEF Consistent, Rests, Busy
  <2>3. Rests(w)'
    BY <2>1, <2>2 DEF Rests, Quiet
  <2> QED BY <2>1, <2>2, <2>3 DEF Consistent
<1>2. CASE Wake(w)
  <2>1. pc[w] = "waking" /\ pc'[w] = "woken" /\ UNCHANGED <<at, state, known, report, problemPipe>>
    BY <1>2 DEF Wake
  <2>2. Busy(w) /\ "CONT" \in pending[w] /\ HasProblem(w) /\ state[w] \in {"CONTINUED", "RUNNING"}
    BY <2>1 DEF Consistent, Rests, Busy
  <2>3. pending'[w] = {} /\ sigcont'[w] /\ ~sigterm'[w]
    BY <1>2, <2>2 DEF Wake, Deliver, Consistent
  <2>4. HasProblem(w)'
    BY <2>1, <2>2 DEF HasProblem
  <2>5. Busy(w)' /\ ~Rests(w)'
    BY <2>1, <2>3, <2>4 DEF Busy, Rests
  <2>6. ~Rests(w)
    BY <2>1 DEF Rests
  <2> QED BY <2>1, <2>2, <2>3, <2>5, <2>6 DEF Consistent
<1>3. CASE TestFlags(w) \/ ReadProblem(w) \/ Solve(w) \/ WriteResult(w)
  <2>1. pc[w] \in {"woken", "reading", "solving", "solved"}
    BY <1>3 DEF TestFlags, ReadProblem, Solve, WriteResult
  <2>2. Busy(w) /\ "CONT" \notin pending[w] /\ ~sigterm[w] /\ state[w] \in {"CONTINUED", "RUNNING"}
    BY <2>1 DEF Consistent, Rests, Busy
  <2>3. UNCHANGED <<at, state, known, pending, sigterm>>
    BY <1>3 DEF TestFlags, ReadProblem, Solve, WriteResult
  <2>4. report' = report /\ Busy(w)' /\ pc'[w] # "stopped"
    <3>1. CASE TestFlags(w)
      <4>1. sigcont[w] /\ HasProblem(w)
        BY <2>2, <3>1 DEF TestFlags, Busy
      <4>2. pc'[w] = "reading" /\ UNCHANGED <<report, sigcont, problemPipe>>
        BY <2>2, <3>1, <4>1 DEF TestFlags
      <4>3. HasProblem(w)'
        BY <4>1, <4>2 DEF HasProblem
      <4> QED BY <2>2, <2>3, <4>1, <4>2, <4>3 DEF Busy
    <3>2. CASE ReadProblem(w)
      <4>1. PICK p \in Id : problemPipe[w] = <<p>>
        BY <2>2, <3>2 DEF ReadProblem, Busy, HasProblem
      <4>2. problemPipe'[w] = <<>> /\ pc'[w] = "solving" /\ report' = report
        BY <3>2, <4>1 DEF ReadProblem
      <4> QED BY <2>2, <2>3, <4>2 DEF Busy
    <3>3. CASE Solve(w)
      BY <2>2, <2>3, <3>3 DEF Solve, Busy
    <3>4. CASE WriteResult(w)
      BY <2>2, <2>3, <3>4 DEF WriteResult, Busy, Quiet
    <3> QED BY <1>3, <3>1, <3>2, <3>3, <3>4
  <2>5. ~Rests(w) /\ ~Rests(w)'
    BY <2>1, <2>4 DEF Rests
  <2> QED BY <2>2, <2>3, <2>4, <2>5 DEF Consistent
<1> QED BY <1>1, <1>2, <1>3 DEF Works

\* A step of one worker is no step of another, and none of the master's table.
LEMMA OtherWorkers ==
  ASSUME TypeOK, NEW v \in Worker, Works(v) \/ Interrupt(v)
  PROVE  /\ UNCHANGED masterVars
         /\ \A w \in Worker \ {v} :
              /\ pc'[w] = pc[w] /\ report'[w] = report[w] /\ pending'[w] = pending[w]
              /\ sigcont'[w] = sigcont[w] /\ sigterm'[w] = sigterm[w]
              /\ problemPipe'[w] = problemPipe[w]
<1>1. UNCHANGED masterVars
  BY DEF Works, Interrupt, Stop, Wake, TestFlags, ReadProblem, Solve, WriteResult
<1>2. ASSUME NEW w \in Worker \ {v}
      PROVE  /\ pc'[w] = pc[w] /\ report'[w] = report[w] /\ pending'[w] = pending[w]
             /\ sigcont'[w] = sigcont[w] /\ sigterm'[w] = sigterm[w]
             /\ problemPipe'[w] = problemPipe[w]
  <2> USE DEF workerVars, flagVars, workVars, pipeVars, TypeOK
  <2>1. CASE Stop(v) \/ TestFlags(v) \/ ReadProblem(v) \/ Solve(v) \/ WriteResult(v)
    BY <2>1 DEF Stop, TestFlags, ReadProblem, Solve, WriteResult
  <2>2. CASE Wake(v) \/ Interrupt(v)
    BY <2>2 DEF Wake, Interrupt, Deliver
  <2> QED BY <2>1, <2>2 DEF Works
<1> QED BY <1>1, <1>2

\* From the termination on, the table goes from IDLE to EXITED only.
LEMMA TerminatingRight ==
  ASSUME IInv, Next, Terminating
  PROVE  Terminating' /\ \A w \in Worker : state'[w] \in {"IDLE", "EXITED"} /\ known'[w]
<1>1. \A w \in Worker : state[w] \in {"IDLE", "EXITED"} /\ known[w]
  BY DEF IInv, MasterIsRight
<1> USE DEF loopVars, tableVars, sourceVars
<1>2. CASE Main
  <2>1. at' \in {"sigcont", "sigterm", "wait", "done"} /\ UNCHANGED tableVars
    BY <1>2 DEF Terminating, Main, Fork, StorePid, Loop, ScanOther, ScanSolved, ReadFailed, ReadFound,
                Minus, Cancel, Assign, NoProblem, TermContinues, TermKills, Finish
  <2> QED BY <1>1, <2>1 DEF Terminating
<1>3. ASSUME NEW v \in Worker, Reap(v)
      PROVE  Terminating' /\ \A w \in Worker : state'[w] \in {"IDLE", "EXITED"} /\ known'[w]
  <2>1. Observed(v) \in {"IDLE", "EXITED"}
    BY <1>1 DEF Observed
  <2> QED BY <1>1, <1>3, <2>1 DEF Reap, Terminating, IInv, TypeOK
<1>4. ASSUME NEW v \in Worker, ReapUnknown(v)
      PROVE  FALSE
  BY <1>1, <1>4 DEF ReapUnknown
<1>5. ASSUME NEW v \in Worker, Works(v) \/ Interrupt(v)
      PROVE  Terminating' /\ \A w \in Worker : state'[w] \in {"IDLE", "EXITED"} /\ known'[w]
  BY <1>1, <1>5, OtherWorkers DEF IInv, masterVars, Terminating
<1>6. CASE Over
  BY <1>1, <1>6 DEF Over, vars, Terminating
<1> QED BY <1>2, <1>3, <1>4, <1>5, <1>6 DEF Next

\* The workers are terminated when all of them are idle.
LEMMA NoProblemIdle ==
  ASSUME IInv, NoProblem
  PROVE  \A w \in Worker : state'[w] = "IDLE" /\ known'[w]
<1>1. i = 1
  BY DEF IInv, TypeOK, Position, NoProblem, Worker
<1>2. \A w \in Worker : state[w] = "IDLE"
  BY <1>1 DEF IInv, Position, NoProblem, Worker
<1>3. \A w \in Worker : Consistent(w)
  BY DEF IInv, MasterIsRight, Terminating, NoProblem
<1> QED BY <1>2, <1>3 DEF NoProblem, tableVars, Consistent

LEMMA RightStep == ASSUME IInv, Next PROVE MasterIsRight'
<1>1. CASE Terminating
  BY <1>1, TerminatingRight DEF MasterIsRight
<1>2. CASE ~Terminating
  <2>1. \A w \in Worker : Consistent(w)
    BY <1>2 DEF IInv, MasterIsRight
  <2>2. CASE Main
    <3>1. CASE Terminating'
      <4>1. NoProblem
        BY <1>2, <2>2, <3>1 DEF Terminating, Main, Fork, StorePid, Loop, ScanOther, NextScan,
             ScanSolved, ReadFailed, ReadFound, Minus, Cancel, Assign, TermContinues, TermKills, Finish
      <4> QED BY <3>1, <4>1, NoProblemIdle DEF MasterIsRight
    <3>2. CASE ~Terminating'
      BY <1>2, <2>2, <3>2, MainRight DEF MasterIsRight
    <3> QED BY <3>1, <3>2
  <2>3. ASSUME NEW v \in Worker, Reap(v) \/ ReapUnknown(v)
        PROVE  MasterIsRight'
    <3>1. \A w \in Worker : Consistent(w)'
      BY <1>2, <2>3, HandlerRight
    <3>2. ~Terminating'
      BY <1>2, <2>3 DEF Reap, ReapUnknown, Terminating
    <3> QED BY <3>1, <3>2 DEF MasterIsRight
  <2>4. ASSUME NEW v \in Worker, Works(v) \/ Interrupt(v)
        PROVE  MasterIsRight'
    <3>1. ~Terminating' /\ at' = at
      BY <1>2, <2>4, OtherWorkers DEF IInv, masterVars, loopVars, Terminating
    <3>2. ASSUME NEW w \in Worker PROVE Consistent(w)'
      <4>1. CASE w = v
        BY <2>1, <2>4, <4>1, WorkRight, InterruptRight DEF IInv
      <4>2. CASE w # v
        <5>1. state'[w] = state[w] /\ known'[w] = known[w] /\ pc'[w] = pc[w]
              /\ report'[w] = report[w] /\ pending'[w] = pending[w] /\ sigcont'[w] = sigcont[w]
              /\ sigterm'[w] = sigterm[w] /\ problemPipe'[w] = problemPipe[w]
          BY <2>4, <4>2, OtherWorkers DEF IInv, masterVars, tableVars
        <5> QED BY <2>1, <3>1, <5>1, Unmoved
      <4> QED BY <4>1, <4>2
    <3> QED BY <3>1, <3>2 DEF MasterIsRight
  <2>5. CASE Over
    BY <2>5, Stutter DEF Over, IInv
  <2> QED BY <2>2, <2>3, <2>4, <2>5 DEF Next
<1> QED BY <1>1, <1>2

-------------------------------------------------------------------------------
(* The table and the source of problems agree. *)

\* The handler finds nothing to learn of a worker with no status left, and takes
\* a worker that has a problem for one that still has it.
LEMMA Learned ==
  ASSUME TypeOK, NEW v \in Worker, Reap(v)
  PROVE  /\ \A w \in Worker : report[w] = "none" => state'[w] = state[w]
         /\ \A w \in Worker : state'[w] \in Assigned => state[w] \in Assigned /\ prob'[w] = prob[w]
         /\ UNCHANGED <<at, i, solved, current>>
<1>1. report[v] # "none" /\ state' = [state EXCEPT ![v] = Observed(v)]
  BY DEF Reap
<1>2. Observed(v) \in Assigned => state[v] \in Assigned
  BY DEF Observed, Assigned
<1>3. state[v] \in Assigned => prob' = prob
  BY DEF Reap, Assigned, TypeOK
<1>4. \A w \in Worker \ {v} : state'[w] = state[w] /\ prob'[w] = prob[w]
  BY <1>1 DEF Reap, TypeOK
<1>5. state'[v] = Observed(v)
  BY <1>1 DEF TypeOK
<1> QED BY <1>1, <1>2, <1>3, <1>4, <1>5 DEF Reap, sourceVars

\* Every worker given the new problem in this pass has the current one.
LEMMA Assigning ==
  ASSUME IInv, Assign
  PROVE  /\ \A w \in Worker : state'[w] \in Assigned => prob'[w] = current'
         /\ current' # 0
         /\ at' = "assign" => \A w \in Worker : w >= i' => state'[w] = "IDLE"
<1>1. current' = NextProblem /\ NextProblem \in Id /\ current' # 0
  BY NextProblemType DEF IInv, Assign, Id
<1>2. ASSUME NEW w \in Worker, state'[w] \in Assigned
      PROVE  prob'[w] = current'
  <2>1. CASE w = i
    BY <1>1, <2>1 DEF Assign, IInv, TypeOK
  <2>2. CASE w # i
    <3>1. state'[w] = state[w] /\ prob'[w] = prob[w]
      BY <2>2 DEF Assign, IInv, TypeOK
    <3>2. ~(w >= i)
      BY <1>2, <3>1 DEF IInv, Position, Assign, Assigned
    <3>3. i > 1 /\ current # 0
      BY <3>2 DEF IInv, Position, Assign, TypeOK, Worker
    <3> QED BY <1>1, <1>2, <3>1, <3>3 DEF IInv, Position, Assign, NextProblem
  <2> QED BY <2>1, <2>2
<1>3. ASSUME at' = "assign", NEW w \in Worker, w >= i'
      PROVE  state'[w] = "IDLE"
  <2>1. i' = i + 1
    BY <1>3 DEF Assign
  <2>2. w # i /\ w >= i
    BY <1>3, <2>1 DEF IInv, TypeOK, Worker
  <2> QED BY <2>2 DEF Assign, IInv, TypeOK, Position
<1> QED BY <1>1, <1>2, <1>3

LEMMA PositionStep == ASSUME IInv, Next PROVE Position'
<1> USE DEF loopVars, tableVars, sourceVars
<1>1. CASE Main
  <2>1. CASE Fork
    BY <2>1 DEF Fork, Position, IInv, TypeOK, Worker
  <2>2. CASE StorePid
    BY <2>2 DEF StorePid, Position, IInv, TypeOK, Worker
  <2>3. CASE Loop
    BY <2>3 DEF Loop, AllIdle, Position, Assigned
  <2>4. CASE Assign
    <3>1. at' \in {"assign", "loop"}
      BY <2>4 DEF Assign
    <3> QED BY <2>4, <3>1, Assigning DEF Position
  <2>5. CASE ScanOther \/ ScanSolved \/ ReadFailed \/ ReadFound \/ Minus \/ Cancel \/ NoProblem
             \/ TermContinues \/ TermKills \/ Finish
    <3>1. at' \notin {"fork", "store", "assign"}
      BY <2>5 DEF ScanOther, ScanSolved, ReadFailed, ReadFound, Minus, Cancel, NextScan, NoProblem,
                  TermContinues, TermKills, Finish
    <3> QED BY <3>1 DEF Position
  <2> QED BY <1>1, <2>1, <2>2, <2>3, <2>4, <2>5 DEF Main
<1>2. ASSUME NEW v \in Worker, Reap(v)
      PROVE  Position'
  <2>1. CASE at \in {"fork", "store", "assign"}
    <3>1. \A w \in Worker : state[w] \in {"NONE", "IDLE"} => state'[w] = state[w]
      BY <1>2, <2>1, Learned DEF IInv, MasterIsRight, Terminating, Consistent
    <3> QED BY <1>2, <3>1, Learned DEF IInv, Position
  <2>2. CASE at \notin {"fork", "store", "assign"}
    BY <1>2, <2>2 DEF Reap, Position
  <2> QED BY <2>1, <2>2
<1>3. ASSUME NEW v \in Worker, ReapUnknown(v)
      PROVE  Position'
  BY <1>3 DEF ReapUnknown, Position
<1>4. ASSUME NEW v \in Worker, Works(v) \/ Interrupt(v)
      PROVE  Position'
  BY <1>4, OtherWorkers DEF IInv, masterVars, Position
<1>5. CASE Over
  BY <1>5, Stutter DEF Over, IInv
<1> QED BY <1>1, <1>2, <1>3, <1>4, <1>5 DEF Next

LEMMA LiveStep == ASSUME IInv, Next PROVE PostsLiveProblem'
<1> USE DEF loopVars, tableVars, sourceVars
<1>1. CASE Main
  <2>1. CASE Assign
    BY <2>1, Assigning DEF PostsLiveProblem, Assigned
  <2>2. CASE NoProblem
    BY <2>2, NoProblemIdle DEF PostsLiveProblem
  <2>3. CASE Fork
    BY <2>3 DEF Fork, PostsLiveProblem, IInv, TypeOK
  <2>4. CASE ScanSolved \/ ReadFound
    BY <2>4 DEF ScanSolved, ReadFound, PostsLiveProblem
  <2>5. CASE StorePid \/ Loop \/ ScanOther \/ ReadFailed \/ Minus \/ Cancel
             \/ TermContinues \/ TermKills \/ Finish
    BY <2>5 DEF StorePid, Loop, ScanOther, ReadFailed, Minus, Cancel, TermContinues, TermKills,
                Finish, IInv, PostsLiveProblem
  <2> QED BY <1>1, <2>1, <2>2, <2>3, <2>4, <2>5 DEF Main
<1>2. ASSUME NEW v \in Worker, Reap(v)
      PROVE  PostsLiveProblem'
  BY <1>2, Learned DEF IInv, PostsLiveProblem, Assigned
<1>3. ASSUME NEW v \in Worker, ReapUnknown(v)
      PROVE  PostsLiveProblem'
  BY <1>3 DEF ReapUnknown, PostsLiveProblem, IInv
<1>4. ASSUME NEW v \in Worker, Works(v) \/ Interrupt(v)
      PROVE  PostsLiveProblem'
  BY <1>4, OtherWorkers DEF IInv, masterVars, PostsLiveProblem
<1>5. CASE Over
  BY <1>5, Stutter DEF Over, IInv
<1> QED BY <1>1, <1>2, <1>3, <1>4, <1>5 DEF Next

\* A problem leaves the source when it is accepted, and a new one is made only then.
LEMMA AccountStep == ASSUME IInv, Next PROVE Accounted'
<1> USE DEF IInv, TypeOK, Accounted, loopVars, tableVars, sourceVars
<1>1. CASE ReadFound
  <2>1. made' = made /\ ~Terminating'
    BY <1>1 DEF ReadFound, Terminating
  <2>2. CASE UNCHANGED <<current, accepted>>
    BY <2>1, <2>2
  <2>3. CASE ~UNCHANGED <<current, accepted>>
    <3>1. current' = 0 /\ accepted' = accepted \cup {current} /\ prob[i] = current
      BY <1>1, <2>3 DEF ReadFound
    <3>2. current # 0
      BY <1>1, <3>1 DEF ReadFound, PostsLiveProblem
    <3>3. current = made /\ current \in 1 .. made /\ 0 \notin 1 .. made
      BY <3>2 DEF Id
    <3>4. accepted' = (1 .. made) \ {0}
      BY <3>1, <3>3
    <3> QED BY <2>1, <3>1, <3>4
  <2> QED BY <2>2, <2>3
<1>2. CASE Assign
  <2>1. ~Terminating' /\ accepted' = accepted
    BY <1>2 DEF Assign, Terminating
  <2>2. CASE current # 0
    BY <1>2, <2>1, <2>2 DEF Assign, NextProblem
  <2>3. CASE current = 0
    <3>1. current' = made + 1 /\ made' = made + 1 /\ made \in Nat
      BY <1>2, <2>3 DEF Assign, NextProblem, Id
    <3>2. 1 .. made = (1 .. made + 1) \ {made + 1} /\ accepted = 1 .. made
      BY <2>3, <3>1
    <3> QED BY <2>1, <3>1, <3>2
  <2> QED BY <2>2, <2>3
<1>3. CASE NoProblem
  BY <1>3 DEF NoProblem
<1>4. CASE Fork \/ StorePid \/ Loop \/ ScanOther \/ ScanSolved \/ ReadFailed \/ Minus \/ Cancel
           \/ TermContinues \/ TermKills \/ Finish
  <2>1. UNCHANGED <<current, made, accepted>> /\ (Terminating' => Terminating)
    BY <1>4 DEF Fork, StorePid, Loop, ScanOther, ScanSolved, ReadFailed, Minus, Cancel, NextScan,
                TermContinues, TermKills, Finish, Terminating
  <2> QED BY <2>1
<1>5. ASSUME NEW v \in Worker, Reap(v) \/ ReapUnknown(v)
      PROVE  UNCHANGED <<current, made, accepted>> /\ (Terminating' => Terminating)
  BY <1>5 DEF Reap, ReapUnknown, Terminating
<1>6. ASSUME NEW v \in Worker, Works(v) \/ Interrupt(v)
      PROVE  UNCHANGED <<current, made, accepted>> /\ (Terminating' => Terminating)
  BY <1>6, OtherWorkers DEF masterVars, Terminating
<1>7. CASE Over
  BY <1>7, Stutter DEF Over
<1> QED BY <1>1, <1>2, <1>3, <1>4, <1>5, <1>6, <1>7 DEF Next, Main

-------------------------------------------------------------------------------
(* The theorems. *)

LEMMA Step == ASSUME IInv, [Next]_vars PROVE IInv'
<1>1. CASE Next
  <2>1. ASSUME Main PROVE TypeOK'
    BY <2>1, MainTypes
  <2>2. ASSUME NEW w \in Worker, Reap(w) \/ ReapUnknown(w)
        PROVE  TypeOK'
    BY <2>2, HandlerTypes DEF IInv
  <2>3. ASSUME NEW w \in Worker, Works(w) \/ Interrupt(w)
        PROVE  TypeOK'
    BY <2>3, WorkerTypes DEF IInv
  <2>4. ASSUME Over PROVE TypeOK'
    BY <2>4, Stutter DEF Over, IInv
  <2>5. TypeOK'
    BY <1>1, <2>1, <2>2, <2>3, <2>4 DEF Next
  <2> QED BY <1>1, <2>5, AccountStep, HasJobStep, RightStep, PositionStep, CountStep,
           LiveStep DEF IInv
<1>2. CASE UNCHANGED vars
  BY <1>2, Stutter
<1> QED BY <1>1, <1>2

\* What a step makes of the state of a worker.
LEMMA FollowStep ==
  ASSUME IInv, Next, NEW w \in Worker, state'[w] # state[w]
  PROVE  <<state[w], state'[w]>> \in Follows
<1> USE DEF Follows, IInv, TypeOK, loopVars, tableVars, sourceVars
<1>1. CASE Fork
  <2>1. w = i /\ state'[w] = "STARTED"
    BY <1>1 DEF Fork
  <2>2. state[w] = "NONE"
    BY <1>1, <2>1 DEF Fork, Position, Worker
  <2> QED BY <2>1, <2>2
<1>2. CASE ScanSolved \/ ReadFound
  BY <1>2 DEF ScanSolved, ReadFound
<1>3. CASE Assign
  <2>1. w = i /\ state'[w] = "CONTINUED"
    BY <1>3 DEF Assign
  <2>2. state[w] = "IDLE"
    BY <1>3, <2>1 DEF Assign, Position, Worker
  <2> QED BY <2>1, <2>2
<1>4. ASSUME NEW v \in Worker, Reap(v)
      PROVE  <<state[w], state'[w]>> \in Follows
  <2>1. v = w /\ state'[w] = Observed(w)
    BY <1>4 DEF Reap
  <2>2. CASE Terminating
    BY <2>1, <2>2 DEF MasterIsRight, Observed
  <2>3. CASE ~Terminating
    <3>1. report[w] # "exited"
      BY <2>3 DEF MasterIsRight, Consistent
    <3> QED BY <2>1, <3>1 DEF Observed
  <2> QED BY <2>2, <2>3
<1>5. CASE StorePid \/ Loop \/ ScanOther \/ ReadFailed \/ Minus \/ Cancel \/ NoProblem
           \/ TermContinues \/ TermKills \/ Finish
  BY <1>5 DEF StorePid, Loop, ScanOther, ReadFailed, Minus, Cancel, NoProblem, TermContinues,
              TermKills, Finish
<1>6. ASSUME NEW v \in Worker, ReapUnknown(v) \/ Works(v) \/ Interrupt(v)
      PROVE  state' = state
  BY <1>6, OtherWorkers DEF ReapUnknown, masterVars
<1>7. CASE Over
  BY <1>7 DEF Over, vars
<1> QED BY <1>1, <1>2, <1>3, <1>4, <1>5, <1>6, <1>7 DEF Next, Main

THEOREM Invariant == Spec => []IInv
BY Start, Step, PTL DEF Spec

\* Every variable keeps its type; workersStopped in particular never goes below
\* zero, although the handler's increments can be lost to the main loop.
THEOREM TypeCorrect == Spec => []TypeOK
<1>1. IInv => TypeOK
  BY DEF IInv
<1> QED BY <1>1, Invariant, PTL

\* An idle worker is stopped, with nothing in flight between it and the master,
\* for any number of workers: the SIGCONT of the next problem is not lost.
THEOREM IdleStopped == Spec => []IdleIsStopped
<1>1. IInv => IdleIsStopped
  BY DEF IInv, MasterIsRight, Consistent, Rests, Quiet, IdleIsStopped
<1> QED BY <1>1, Invariant, PTL

\* No result is posted to a problem that was solved and freed.
THEOREM LiveProblems == Spec => []PostsLiveProblem
<1>1. IInv => PostsLiveProblem
  BY DEF IInv
<1> QED BY <1>1, Invariant, PTL

\* Worker states follow each other as documented, in every step.
THEOREM StatesInOrder == Spec => StatesFollow
<1>1. ASSUME IInv, [Next]_vars
      PROVE  [\A w \in Worker : state'[w] # state[w] => <<state[w], state'[w]>> \in Follows]_vars
  BY <1>1, FollowStep
<1> QED BY <1>1, Invariant, PTL DEF Spec, StatesFollow

\* The workers are terminated only when every problem has been accepted.
THEOREM AllSolvedAtTheEnd == Spec => []EndsWithAllSolved
<1>1. IInv => EndsWithAllSolved
  <2> SUFFICES ASSUME IInv, Terminating PROVE accepted = Id /\ current = 0
    BY DEF EndsWithAllSolved
  <2>1. current = 0 /\ made = Problems /\ accepted = (1 .. made) \ {0}
    BY DEF IInv, Accounted
  <2>2. 0 \notin 1 .. Problems
    BY PolyaAssumption
  <2> QED BY <2>1, <2>2 DEF Id
<1> QED BY <1>1, Invariant, PTL

-------------------------------------------------------------------------------
(* The master never waits for a result that does not come.  A worker fails *)
(* only because of a SIGHUP, which can reach it a problem too late; Credit *)
(* says that then a result of an earlier problem is still in its pipe.     *)

\* A successful result among those of s.
Found(s) == \E k \in 1 .. Len(s) : s[k].kind = "found"

HasFound(w) == Found(resultPipe[w])

\* A cancellation is on its way to the solver of w, or there.
Cancelling(w) == canceledp[w] \/ "HUP" \in pending[w]

\* The result that w works on will fail, or may.
Fails(w) == IF pc[w] = "solved" THEN answer[w] = "failed" ELSE canceledp[w]

\* The current problem is solved and cancel_all_other_workers is past w.
Passed(w) == solved /\ at # "minus" /\ (at = "cancel" => j > w)

\* A worker that can fail has a successful result unread, but for the one
\* cancellation of the problem it works on when that has been solved already.
Credit(w) ==
  /\ state[w] \notin Assigned => HasFound(w) \/ ~Cancelling(w)
  /\ state[w] \in Assigned /\ pc[w] \in {"starting", "stopped"} =>
       IF Passed(w) THEN HasFound(w) \/ ~Cancelling(w) ELSE HasFound(w) /\ ~Cancelling(w)
  /\ state[w] \in Assigned /\ pc[w] \notin {"starting", "stopped"} =>
       /\ HasFound(w) \/ IF Passed(w) THEN ~("HUP" \in pending[w] /\ Fails(w))
                                      ELSE "HUP" \notin pending[w] /\ ~Fails(w)
       /\ ~Passed(w) /\ pc[w] # "waking" => "HUP" \notin pending[w]

\* All workers are known, and have problems, after the start only.
Started ==
  /\ at = "assign" /\ i > 1 => ~solved
  /\ at \in {"fork", "store"} => \A w \in Worker : w < i => known[w]
  /\ at \in {"fork", "store", "failed"} => \A w \in Worker : state[w] \notin Assigned
  /\ at \notin {"fork", "store", "failed"} => \A w \in Worker : known[w]

RInv == Started /\ (~Terminating => \A w \in Worker : Credit(w))

-------------------------------------------------------------------------------
(* Results in a pipe. *)

\* Writing a result.
LEMMA FoundAppend ==
  ASSUME NEW s \in Seq(Result), NEW r \in Result
  PROVE  Found(Append(s, r)) <=> Found(s) \/ r.kind = "found"
<1>1. /\ Len(Append(s, r)) = Len(s) + 1 /\ Append(s, r)[Len(s) + 1] = r
      /\ \A k \in 1 .. Len(s) : Append(s, r)[k] = s[k]
  OBVIOUS
<1>2. Len(s) \in Nat
  OBVIOUS
<1> QED BY <1>1, <1>2 DEF Found

\* Reading a failed result.
LEMMA FoundTail ==
  ASSUME NEW s \in Seq(Result), s # <<>>, Head(s).kind = "failed"
  PROVE  Found(Tail(s)) <=> Found(s)
<1>1. /\ Len(s) \in Nat \ {0} /\ Len(Tail(s)) = Len(s) - 1 /\ Head(s) = s[1]
      /\ \A k \in 1 .. Len(s) - 1 : Tail(s)[k] = s[k + 1]
  OBVIOUS
<1>2. ASSUME NEW k \in 1 .. Len(s), s[k].kind = "found"
      PROVE  k - 1 \in 1 .. Len(s) - 1 /\ Tail(s)[k - 1] = s[k]
  <2>1. k # 1
    BY <1>1, <1>2
  <2> QED BY <1>1, <2>1
<1>3. ASSUME NEW k \in 1 .. Len(Tail(s)), Tail(s)[k].kind = "found"
      PROVE  k + 1 \in 1 .. Len(s) /\ s[k + 1].kind = "found"
  BY <1>1, <1>3
<1>4. Found(s) => Found(Tail(s))
  BY <1>1, <1>2 DEF Found
<1>5. Found(Tail(s)) => Found(s)
  BY <1>3 DEF Found
<1> QED BY <1>4, <1>5

-------------------------------------------------------------------------------
(* The start, and the main loop. *)

LEMMA StartCredit == Init => RInv
<1> SUFFICES ASSUME Init PROVE RInv
  OBVIOUS
<1>1. Started
  BY DEF Init, Started, Assigned, Worker
<1>2. ASSUME NEW w \in Worker
      PROVE  Credit(w)
  <2>1. state[w] \notin Assigned /\ ~Cancelling(w)
    BY DEF Init, Assigned, Cancelling
  <2> QED BY <2>1 DEF Credit
<1> QED BY <1>1, <1>2 DEF RInv

LEMMA StartedStep == ASSUME IInv, Started, Next PROVE Started'
<1> USE DEF IInv, TypeOK, Started, loopVars, tableVars, sourceVars
<1>1. CASE Fork
  BY <1>1 DEF Fork, Assigned
<1>2. CASE StorePid
  <2>1. ASSUME NEW w \in Worker, w < i + 1
        PROVE  known'[w]
    <3>1. w < i \/ w = i
      BY <2>1 DEF Worker
    <3> QED BY <1>2, <3>1 DEF StorePid
  <2>2. at' \in {"fork", "loop"} /\ state' = state /\ (at' = "fork" => i' = i + 1)
    BY <1>2 DEF StorePid
  <2>3. ASSUME at' = "loop", NEW w \in Worker
        PROVE  known'[w]
    <3>1. ~(i < Workers)
      BY <1>2, <2>3 DEF StorePid
    <3>2. i \in 1 .. Workers /\ w \in 1 .. Workers /\ Workers \in Nat
      BY PolyaAssumption DEF Worker
    <3>3. w < i + 1
      BY <3>1, <3>2
    <3> QED BY <2>1, <3>3
  <2>4. \A w \in Worker : state[w] \notin Assigned
    BY <1>2 DEF StorePid
  <2> QED BY <2>1, <2>2, <2>3, <2>4
<1>3. CASE Loop \/ ScanOther \/ ReadFailed \/ ReadFound \/ Minus \/ ScanSolved
  BY <1>3 DEF Loop, ScanOther, NextScan, ReadFailed, ReadFound, Minus, ScanSolved
<1>4. CASE Cancel
  BY <1>4 DEF Cancel, NextScan
<1>5. CASE Assign
  BY <1>5 DEF Assign
<1>6. CASE NoProblem \/ TermContinues \/ TermKills \/ Finish
  BY <1>6 DEF NoProblem, TermContinues, TermKills, Finish
<1>7. ASSUME NEW v \in Worker, Reap(v)
      PROVE  Started'
  BY <1>7, Learned DEF Reap
<1>8. ASSUME NEW v \in Worker, ReapUnknown(v)
      PROVE  Started'
  BY <1>8 DEF ReapUnknown, Ended, Terminating, MasterIsRight
<1>9. ASSUME NEW v \in Worker, Works(v) \/ Interrupt(v)
      PROVE  Started'
  BY <1>9, OtherWorkers DEF masterVars
<1>10. CASE Over
  BY <1>10 DEF Over, vars
<1> QED BY <1>1, <1>2, <1>3, <1>4, <1>5, <1>6, <1>7, <1>8, <1>9, <1>10 DEF Next, Main

\* A step that leaves alone what Credit depends on, or the state within it.
LEMMA CreditKept ==
  ASSUME NEW w \in Worker, Credit(w), state'[w] \in Assigned <=> state[w] \in Assigned,
         state[w] \in Assigned => (Passed(w)' <=> Passed(w)),
         pc'[w] = pc[w] \/ state[w] \notin Assigned,
         HasFound(w)' <=> HasFound(w),
         canceledp'[w] = canceledp[w], answer'[w] = answer[w],
         "HUP" \in pending'[w] <=> "HUP" \in pending[w]
  PROVE  Credit(w)'
<1>1. Cancelling(w)' <=> Cancelling(w)
  BY DEF Cancelling
<1>2. state[w] \in Assigned => (Fails(w)' <=> Fails(w))
  BY DEF Fails
<1> QED BY <1>1, <1>2 DEF Credit

\* The pass over the other workers moves on by one.
LEMMA CancelPasses ==
  ASSUME IInv, Cancel, NEW w \in Worker
  PROVE  /\ w # j => (Passed(w)' <=> Passed(w))
         /\ w = j => Passed(w)' /\ ~Passed(w)
<1>1. /\ solved /\ at = "cancel" /\ solved' = solved
      /\ j \in Nat /\ w \in Nat /\ j <= Workers /\ w <= Workers /\ Workers \in Nat
  BY PolyaAssumption DEF IInv, TypeOK, Counted, Cancel, Worker
<1>2. CASE j < Workers
  <2>1. at' = "cancel" /\ j' = j + 1
    BY <1>1, <1>2 DEF Cancel
  <2> QED BY <1>1, <2>1 DEF Passed
<1>3. CASE ~(j < Workers)
  <2>1. at' \in {"scan", "loop"}
    BY <1>3 DEF Cancel, NextScan
  <2>2. w # j => j > w
    BY <1>1, <1>3
  <2> QED BY <1>1, <2>1, <2>2 DEF Passed
<1> QED BY <1>2, <1>3

\* SIGHUP to a worker at work, or no signal to one that is not.
LEMMA CancelCredit ==
  ASSUME IInv, Started, NEW w \in Worker, Credit(w), Cancel
  PROVE  Credit(w)'
<1>0. TypeOK
  BY DEF IInv
<1>1. /\ state' = state /\ pc' = pc /\ resultPipe' = resultPipe
      /\ canceledp' = canceledp /\ answer' = answer
  BY <1>0 DEF Cancel, Kill, tableVars, flagVars, workVars, pipeVars
<1>2. HasFound(w)' <=> HasFound(w)
  BY <1>1 DEF HasFound
<1>3. CASE w # j
  <2>1. pending'[w] = pending[w]
    BY <1>0, <1>3 DEF Cancel, Kill, TypeOK
  <2> QED BY <1>1, <1>2, <1>3, <2>1, CancelPasses, CreditKept
<1>4. CASE w = j
  <2>1. Passed(w)' /\ ~Passed(w)
    BY <1>4, CancelPasses
  <2>2. Fails(w)' <=> Fails(w)
    BY <1>1 DEF Fails
  <2>3. CASE pending'[w] = pending[w]
    <3>1. Cancelling(w)' <=> Cancelling(w)
      BY <1>1, <2>3 DEF Cancelling
    <3> QED BY <1>1, <1>2, <2>1, <2>2, <2>3, <3>1 DEF Credit
  <2>4. CASE state[w] \in {"RUNNING", "CONTINUED"}
    BY <1>1, <1>2, <2>1, <2>2, <2>4 DEF Credit, Assigned
  <2>5. state[w] \in {"RUNNING", "CONTINUED"} \/ pending' = pending
    BY <1>4 DEF Cancel
  <2> QED BY <2>3, <2>4, <2>5
<1> QED BY <1>3, <1>4

\* An idle worker that gets a problem, and those that have it already.
LEMMA AssignCredit ==
  ASSUME IInv, Started, NEW w \in Worker, Credit(w), Assign
  PROVE  Credit(w)'
<1>0. TypeOK /\ at = "assign" /\ i \in Worker /\ Consistent(w)
  BY DEF IInv, TypeOK, Assign, MasterIsRight, Terminating
<1>1. /\ resultPipe' = resultPipe /\ canceledp' = canceledp /\ answer' = answer
      /\ ~solved' /\ state' = [state EXCEPT ![i] = "CONTINUED"]
      /\ pending' = [pending EXCEPT ![i] = @ \cup {"CONT"}]
  BY DEF Assign, Continue, flagVars, workVars
<1>2. HasFound(w)' <=> HasFound(w)
  BY <1>1 DEF HasFound
<1>3. "HUP" \in pending'[w] <=> "HUP" \in pending[w]
  BY <1>0, <1>1 DEF TypeOK
<1>4. ~Passed(w)'
  BY <1>1 DEF Passed
<1>5. CASE w = i
  <2>1. state[w] = "IDLE" /\ pc[w] = "stopped"
    BY <1>0, <1>5 DEF IInv, Position, Worker, Consistent, Rests
  <2>2. pc'[w] = "waking" /\ state'[w] = "CONTINUED"
    BY <1>0, <1>1, <1>5, <2>1 DEF Assign, Continue, TypeOK
  <2>3. HasFound(w) \/ ("HUP" \notin pending[w] /\ ~canceledp[w])
    BY <2>1 DEF Credit, Assigned, Cancelling
  <2>4. ~Fails(w)' <=> ~canceledp[w]
    BY <1>1, <2>2 DEF Fails
  <2> QED BY <1>2, <1>3, <1>4, <2>2, <2>3, <2>4 DEF Credit, Assigned
<1>6. CASE w # i
  <2>1. state'[w] = state[w] /\ pc'[w] = pc[w]
    BY <1>0, <1>1, <1>6 DEF Assign, Continue, TypeOK
  <2>2. state[w] \in Assigned => ~Passed(w)
    <3>1. state[w] \in Assigned => ~(w >= i)
      BY <1>0 DEF IInv, Position, Assigned
    <3>2. ~(w >= i) => i > 1
      BY <1>0 DEF Worker
    <3> QED BY <1>0, <3>1, <3>2 DEF Started, Passed
  <2> QED BY <1>1, <1>2, <1>3, <1>4, <2>1, <2>2, CreditKept
<1> QED BY <1>5, <1>6

\* A step of the main loop before termination.
LEMMA MainCredit ==
  ASSUME IInv, RInv, Main, ~Terminating, ~Terminating', NEW w \in Worker
  PROVE  Credit(w)'
<1>0. TypeOK /\ Started /\ Credit(w) /\ Consistent(w) /\ i \in Worker
  BY DEF IInv, RInv, MasterIsRight, TypeOK
<1> USE DEF loopVars, tableVars, sourceVars, workerVars, flagVars, workVars, pipeVars
<1>1. ASSUME UNCHANGED workerVars, resultPipe' = resultPipe, solved' = solved,
             state'[w] \in Assigned <=> state[w] \in Assigned,
             at \notin {"minus", "cancel"}, at' \notin {"minus", "cancel"}
      PROVE  Credit(w)'
  <2>1. Passed(w)' <=> Passed(w)
    BY <1>1 DEF Passed
  <2> QED BY <1>0, <1>1, <2>1, CreditKept DEF HasFound
<1>2. CASE Fork
  <2>1. /\ pending' = pending /\ resultPipe' = resultPipe /\ canceledp' = canceledp /\ answer' = answer
        /\ state[w] \notin Assigned /\ state'[w] \notin Assigned
    BY <1>0, <1>2 DEF Fork, TypeOK, Started, Assigned
  <2> QED BY <1>0, <2>1, CreditKept DEF HasFound
<1>3. CASE StorePid \/ Loop \/ ScanOther
  BY <1>1, <1>3 DEF StorePid, Loop, ScanOther, NextScan
<1>4. CASE ReadFailed
  <2>1. ~Passed(w)' /\ ~Passed(w)
    BY <1>4 DEF ReadFailed, Passed
  <2>2. HasFound(w)' <=> HasFound(w)
    <3>1. CASE w = i
      <4>1. /\ resultPipe[w] \in Seq(Result) /\ resultPipe[w] # <<>> /\ Head(resultPipe[w]).kind = "failed"
            /\ resultPipe'[w] = Tail(resultPipe[w])
        BY <1>0, <1>4, <3>1 DEF ReadFailed, TypeOK
      <4> QED BY <4>1, FoundTail DEF HasFound
    <3>2. CASE w # i
      BY <1>0, <1>4, <3>2 DEF ReadFailed, TypeOK, HasFound
    <3> QED BY <3>1, <3>2
  <2> QED BY <1>0, <1>4, <2>1, <2>2, CreditKept DEF ReadFailed
<1>5. CASE ScanSolved
  <2>1. UNCHANGED workerVars /\ resultPipe' = resultPipe /\ solved' = solved /\ solved
        /\ at = "scan" /\ at' \in {"scan", "loop"}
    BY <1>5 DEF ScanSolved, NextScan
  <2>2. CASE w = i
    <3>1. state[w] = "STOPPED" /\ state'[w] = "IDLE" /\ pc[w] = "stopped"
      BY <1>0, <1>5, <2>2 DEF ScanSolved, TypeOK, Consistent, Rests
    <3>2. Passed(w)
      BY <2>1 DEF Passed
    <3>3. HasFound(w) \/ ~Cancelling(w)
      BY <1>0, <3>1, <3>2 DEF Credit, Assigned
    <3> QED BY <2>1, <3>1, <3>3 DEF Credit, Assigned, HasFound, Cancelling
  <2>3. CASE w # i
    BY <1>0, <1>1, <1>5, <2>1, <2>3 DEF ScanSolved, TypeOK
  <2> QED BY <2>2, <2>3
<1>6. CASE ReadFound
  <2>1. UNCHANGED workerVars /\ ~solved /\ at' = "minus"
    BY <1>6 DEF ReadFound
  <2>2. ~Passed(w) /\ ~Passed(w)'
    BY <2>1 DEF Passed
  <2>3. CASE w = i
    <3>1. state[w] = "STOPPED" /\ state'[w] = "IDLE" /\ pc[w] = "stopped"
      BY <1>0, <1>6, <2>3 DEF ReadFound, TypeOK, Consistent, Rests
    <3>2. ~Cancelling(w)
      BY <1>0, <2>2, <3>1 DEF Credit, Assigned
    <3> QED BY <2>1, <3>1, <3>2 DEF Credit, Assigned, Cancelling
  <2>4. CASE w # i
    <3>1. state'[w] = state[w] /\ resultPipe'[w] = resultPipe[w]
      BY <1>0, <1>6, <2>4 DEF ReadFound, TypeOK
    <3> QED BY <1>0, <2>1, <2>2, <3>1, CreditKept DEF HasFound
  <2> QED BY <2>3, <2>4
<1>7. CASE Minus
  <2>1. /\ UNCHANGED workerVars /\ state' = state /\ resultPipe' = resultPipe
        /\ at = "minus" /\ at' = "cancel" /\ j' = 1
    BY <1>7 DEF Minus
  <2>2. ~Passed(w) /\ ~Passed(w)'
    BY <2>1 DEF Passed, Worker
  <2> QED BY <1>0, <2>1, <2>2, CreditKept DEF HasFound
<1>8. CASE Cancel
  BY <1>0, <1>8, CancelCredit
<1>9. CASE Assign
  BY <1>0, <1>9, AssignCredit
<1>10. CASE NoProblem \/ TermContinues \/ TermKills \/ Finish
  BY <1>10 DEF NoProblem, TermContinues, TermKills, Finish, Terminating
<1> QED BY <1>2, <1>3, <1>4, <1>5, <1>6, <1>7, <1>8, <1>9, <1>10 DEF Main

-------------------------------------------------------------------------------
(* The handler, and the workers. *)

\* What the handler learns of a worker takes it from no problem to none.
LEMMA HandlerCredit ==
  ASSUME IInv, RInv, ~Terminating, NEW v \in Worker, Reap(v) \/ ReapUnknown(v), NEW w \in Worker
  PROVE  Credit(w)'
<1>0. TypeOK /\ Started /\ Credit(w) /\ Consistent(w)
  BY DEF IInv, RInv, MasterIsRight
<1>1. /\ UNCHANGED <<j, solved, pc, pending, canceledp, answer, resultPipe>>
  BY DEF Reap, ReapUnknown, loopVars, flagVars, workVars, pipeVars
<1>2. HasFound(w)' <=> HasFound(w)
  BY <1>1 DEF HasFound
<1>3. CASE Reap(v)
  <2>1. at' = at
    BY <1>0, <1>3, Learned
  <2>2. Passed(w)' <=> Passed(w)
    BY <1>1, <2>1 DEF Passed
  <2>3. state'[w] \in Assigned => state[w] \in Assigned
    BY <1>0, <1>3, Learned
  <2>4. state[w] \in Assigned => state'[w] \in Assigned
    <3>1. CASE w = v
      <4>1. state'[w] = Observed(w) /\ report[w] # "exited"
        BY <1>0, <1>3, <3>1 DEF Reap, TypeOK, Consistent
      <4> QED BY <4>1 DEF Observed, Assigned
    <3>2. CASE w # v
      BY <1>0, <1>3, <3>2 DEF Reap, TypeOK
    <3> QED BY <3>1, <3>2
  <2> QED BY <1>0, <1>1, <1>2, <2>2, <2>3, <2>4, CreditKept
<1>4. CASE ReapUnknown(v)
  <2>1. state' = state
    BY <1>4 DEF ReapUnknown, tableVars
  <2>2. at \in {"fork", "store"}
    BY <1>0, <1>4 DEF ReapUnknown, Started, Ended
  <2>3. state[w] \notin Assigned
    BY <1>0, <2>2 DEF Started
  <2> QED BY <1>0, <1>1, <1>2, <2>1, <2>3, CreditKept
<1> QED BY <1>3, <1>4

\* A worker writes to no pipe but its own, and cancels nobody.
LEMMA OtherSolvers ==
  ASSUME TypeOK, NEW v \in Worker, Works(v) \/ Interrupt(v), NEW w \in Worker, w # v
  PROVE  canceledp'[w] = canceledp[w] /\ answer'[w] = answer[w] /\ resultPipe'[w] = resultPipe[w]
<1> USE DEF workerVars, flagVars, workVars, pipeVars, TypeOK
<1>1. CASE Stop(v) \/ TestFlags(v) \/ ReadProblem(v)
  BY <1>1 DEF Stop, TestFlags, ReadProblem
<1>2. CASE Solve(v)
  BY <1>2 DEF Solve
<1>3. CASE WriteResult(v)
  BY <1>3 DEF WriteResult
<1>4. CASE Wake(v) \/ Interrupt(v)
  BY <1>4 DEF Wake, Interrupt, Deliver
<1> QED BY <1>1, <1>2, <1>3, <1>4 DEF Works

\* A step of the worker itself: a cancellation is used up with a result found,
\* or was for a problem that is solved.
LEMMA OwnCredit ==
  ASSUME IInv, NEW w \in Worker, Credit(w), Consistent(w), Works(w) \/ Interrupt(w)
  PROVE  Credit(w)'
<1>0. TypeOK /\ pc[w] # "none"
  BY DEF IInv, Works, Interrupt, Stop, Wake, TestFlags, ReadProblem, Solve, WriteResult
<1>1. UNCHANGED masterVars
  BY <1>0, OtherWorkers
<1>2. state' = state /\ (Passed(w)' <=> Passed(w))
  BY <1>1 DEF Passed, masterVars, tableVars, loopVars
<1> USE DEF workerVars, flagVars, workVars, pipeVars
<1>3. CASE Stop(w)
  <2>1. /\ pc[w] = "starting" /\ pc'[w] = "stopped"
        /\ UNCHANGED <<pending, canceledp, answer, resultPipe>>
    BY <1>0, <1>3 DEF Stop, TypeOK
  <2>2. (HasFound(w)' <=> HasFound(w)) /\ (Cancelling(w)' <=> Cancelling(w))
    BY <2>1 DEF HasFound, Cancelling
  <2> QED BY <1>2, <2>1, <2>2 DEF Credit
<1>4. CASE Wake(w)
  <2>1. /\ pc[w] = "waking" /\ pc'[w] = "woken" /\ pending'[w] = {} /\ resultPipe' = resultPipe
        /\ canceledp'[w] <=> canceledp[w] \/ "HUP" \in pending[w]
    BY <1>0, <1>4 DEF Wake, Deliver, TypeOK
  <2>2. state[w] \in Assigned
    BY <1>0, <2>1 DEF Consistent, Rests, Assigned, TypeOK
  <2>3. HasFound(w)' <=> HasFound(w)
    BY <2>1 DEF HasFound
  <2>4. (Fails(w) <=> canceledp[w]) /\ (Fails(w)' <=> canceledp[w] \/ "HUP" \in pending[w])
    BY <2>1 DEF Fails
  <2> QED BY <1>2, <2>1, <2>2, <2>3, <2>4 DEF Credit
<1>5. CASE TestFlags(w) \/ ReadProblem(w)
  <2>1. /\ pc[w] \in {"woken", "reading"}
        /\ UNCHANGED <<pending, canceledp, answer, resultPipe>>
    BY <1>5 DEF TestFlags, ReadProblem
  <2>2. state[w] \in Assigned /\ ~sigterm[w] /\ (pc[w] = "woken" => sigcont[w])
    BY <1>0, <2>1 DEF Consistent, Rests, Busy, Assigned, TypeOK
  <2>3. pc'[w] \in {"reading", "solving"}
    BY <1>0, <1>5, <2>2 DEF TestFlags, ReadProblem, TypeOK
  <2>4. (HasFound(w)' <=> HasFound(w)) /\ (Fails(w)' <=> Fails(w))
    BY <2>1, <2>3 DEF HasFound, Fails
  <2> QED BY <1>2, <2>1, <2>2, <2>3, <2>4 DEF Credit
<1>6. CASE Solve(w)
  <2>1. /\ pc[w] = "solving" /\ pc'[w] = "solved"
        /\ UNCHANGED <<pending, canceledp, resultPipe>>
    BY <1>0, <1>6 DEF Solve, TypeOK
  <2>2. answer'[w] = "failed" => canceledp[w]
    BY <1>0, <1>6 DEF Solve, TypeOK
  <2>3. state[w] \in Assigned
    BY <1>0, <2>1 DEF Consistent, Rests, Assigned, TypeOK
  <2>4. (HasFound(w)' <=> HasFound(w)) /\ (Fails(w)' => Fails(w))
    BY <2>1, <2>2 DEF HasFound, Fails
  <2> QED BY <1>2, <2>1, <2>3, <2>4 DEF Credit
<1>7. CASE WriteResult(w)
  <2> DEFINE r == [of |-> job[w], kind |-> answer[w]]
  <2>1. /\ pc[w] = "solved" /\ pc'[w] = "starting" /\ ~canceledp'[w] /\ pending' = pending
        /\ resultPipe'[w] = Append(resultPipe[w], r)
    BY <1>0, <1>7 DEF WriteResult, TypeOK
  <2>2. r \in Result /\ resultPipe[w] \in Seq(Result) /\ r.kind = answer[w]
    BY <1>0, <2>1 DEF IInv, TypeOK, HasJob, Result
  <2>3. state[w] \in Assigned
    BY <1>0, <2>1 DEF Consistent, Rests, Assigned, TypeOK
  <2> HIDE DEF r
  <2>4. HasFound(w)' <=> HasFound(w) \/ answer[w] = "found"
    BY <2>1, <2>2, FoundAppend DEF HasFound
  <2>5. Fails(w) <=> answer[w] = "failed"
    BY <2>1 DEF Fails
  <2>6. answer[w] \in {"found", "failed"}
    BY <1>0 DEF TypeOK
  <2>7. Cancelling(w)' <=> "HUP" \in pending[w]
    BY <2>1 DEF Cancelling
  <2> QED BY <1>2, <2>1, <2>3, <2>4, <2>5, <2>6, <2>7 DEF Credit
<1>8. CASE Interrupt(w)
  <2>1. "CONT" \notin pending[w] /\ "TERM" \notin pending[w]
    BY <1>0, <1>8 DEF Consistent, Interrupt, Rests, Busy, TypeOK
  <2>2. PICK sig \in pending[w] : Deliver(w, {sig})
    BY <1>8 DEF Interrupt
  <2>3. sig = "HUP"
    <3>1. pending[w] \in SUBSET {"CONT", "HUP", "TERM"}
      BY <1>0 DEF TypeOK
    <3> QED BY <2>1, <2>2, <3>1
  <2>4. "HUP" \in pending[w] /\ "HUP" \notin pending'[w] /\ canceledp'[w]
    BY <1>0, <2>2, <2>3 DEF Deliver, TypeOK
  <2>5. pc' = pc /\ answer' = answer /\ resultPipe' = resultPipe
    BY <1>8 DEF Interrupt
  <2>6. HasFound(w)' <=> HasFound(w)
    BY <2>5 DEF HasFound
  <2>7. Cancelling(w) /\ Cancelling(w)'
    BY <2>4 DEF Cancelling
  <2>8. pc[w] \notin {"stopped", "waking"}
    BY <1>8 DEF Interrupt
  <2>9. CASE state[w] \in Assigned /\ pc[w] \notin {"starting", "stopped"}
    <3>1. Passed(w)
      BY <2>4, <2>8, <2>9 DEF Credit
    <3> QED BY <1>2, <2>4, <2>5, <2>9, <3>1 DEF Credit
  <2>10. CASE ~(state[w] \in Assigned /\ pc[w] \notin {"starting", "stopped"})
    BY <1>2, <2>5, <2>6, <2>7, <2>10 DEF Credit
  <2> QED BY <2>9, <2>10
<1> QED BY <1>3, <1>4, <1>5, <1>6, <1>7, <1>8 DEF Works

-------------------------------------------------------------------------------
(* The theorem. *)

LEMMA CreditStep == ASSUME IInv, RInv, [Next]_vars PROVE RInv'
<1>1. CASE Next
  <2>1. Started'
    BY <1>1, StartedStep DEF RInv
  <2>2. ASSUME ~Terminating', NEW w \in Worker
        PROVE  Credit(w)'
    <3>1. ~Terminating
      BY <1>1, <2>2, TerminatingRight
    <3>2. Credit(w) /\ Consistent(w) /\ TypeOK
      BY <3>1 DEF IInv, RInv, MasterIsRight
    <3>3. CASE Main
      BY <2>2, <3>1, <3>3, MainCredit
    <3>4. ASSUME NEW v \in Worker, Reap(v) \/ ReapUnknown(v)
          PROVE  Credit(w)'
      BY <3>1, <3>4, HandlerCredit
    <3>5. ASSUME NEW v \in Worker, Works(v) \/ Interrupt(v)
          PROVE  Credit(w)'
      <4>1. CASE w = v
        BY <3>2, <3>5, <4>1, OwnCredit
      <4>2. CASE w # v
        <5>1. /\ pc'[w] = pc[w] /\ pending'[w] = pending[w] /\ canceledp'[w] = canceledp[w]
              /\ answer'[w] = answer[w] /\ resultPipe'[w] = resultPipe[w]
          BY <3>2, <3>5, <4>2, OtherWorkers, OtherSolvers
        <5>2. UNCHANGED masterVars
          BY <3>2, <3>5, OtherWorkers
        <5>3. state' = state /\ (Passed(w)' <=> Passed(w))
          BY <5>2 DEF Passed, masterVars, tableVars, loopVars
        <5> QED BY <3>2, <5>1, <5>3, CreditKept DEF HasFound
      <4> QED BY <4>1, <4>2
    <3>6. CASE Over
      <4>1. UNCHANGED <<state, solved, at, j, pc, resultPipe, canceledp, answer, pending>>
        BY <3>6 DEF Over, vars, loopVars, tableVars, workerVars, flagVars, workVars, pipeVars
      <4>2. Passed(w)' <=> Passed(w)
        BY <4>1 DEF Passed
      <4> QED BY <3>2, <4>1, <4>2, CreditKept DEF HasFound
    <3> QED BY <1>1, <3>3, <3>4, <3>5, <3>6 DEF Next
  <2> QED BY <2>1, <2>2 DEF RInv
<1>2. CASE UNCHANGED vars
  <2>1. UNCHANGED <<state, known, solved, at, i, j, pc, resultPipe, canceledp, answer, pending>>
    BY <1>2 DEF vars, loopVars, tableVars, workerVars, flagVars, workVars, pipeVars
  <2>2. Started'
    BY <2>1 DEF RInv, Started
  <2>3. ASSUME ~Terminating', NEW w \in Worker
        PROVE  Credit(w)'
    <3>1. Credit(w)
      BY <2>1, <2>3 DEF Terminating, RInv
    <3>2. Passed(w)' <=> Passed(w)
      BY <2>1 DEF Passed
    <3> QED BY <2>1, <3>1, <3>2, CreditKept DEF HasFound
  <2> QED BY <2>2, <2>3 DEF RInv
<1> QED BY <1>1, <1>2

\* A stopped worker whose problem is unsolved has a result unread.
LEMMA ResultIsThere == ASSUME IInv, RInv PROVE ReadsFindAResult
<1> SUFFICES ASSUME NEW w \in Worker, state[w] = "STOPPED", ~solved
             PROVE  resultPipe[w] # <<>>
  BY DEF ReadsFindAResult
<1>1. ~Terminating
  BY DEF IInv, MasterIsRight
<1>2. Credit(w) /\ pc[w] = "stopped" /\ ~Passed(w)
  BY <1>1 DEF IInv, RInv, MasterIsRight, Consistent, Rests, Passed
<1>3. HasFound(w)
  BY <1>2 DEF Credit, Assigned
<1> QED BY <1>3 DEF HasFound, Found

\* The master never waits in read() for a result that does not come, although
\* the cancellation of one problem can reach a worker at work on the next.
THEOREM ResultsThere == Spec => []ReadsFindAResult
<1>1. Init => IInv /\ RInv
  BY Start, StartCredit
<1>2. IInv /\ RInv /\ [Next]_vars => (IInv /\ RInv)'
  BY Step, CreditStep
<1>3. IInv /\ RInv => ReadsFindAResult
  BY ResultIsThere
<1> QED BY <1>1, <1>2, <1>3, PTL DEF Spec
===============================================================================
