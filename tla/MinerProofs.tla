---------------------------- MODULE MinerProofs -----------------------------
(***************************************************************************)
(* Proofs about the job that a solver works on, for any set of solvers and *)
(* any number of jobs, calls and solutions: solutions carry the values of  *)
(* jobs in the order in which they were read, and after a new height every *)
(* solver stores at most one solution for the header of an earlier one.    *)
(***************************************************************************)
EXTENDS Miner, SequenceTheorems, TLAPS

\* What a solver holds, as far as the job is concerned.
Holding ==
  [header : Nat, height : Nat, job_id : Nat, target : Nat,
   found : BOOLEAN, has_errored : BOOLEAN]

\* The three values of a job in the order of the reads.
Ordered(header, id, target) == header <= id /\ id <= target /\ target <= Job

\* What is known of the values that were read, at every place of the loop.
ReadSoFar(s) ==
  LET o == own[s] IN
  /\ at[s] \in {"height", "job_id"} => o.header <= Job
  /\ at[s] = "target" => o.header <= o.job_id /\ o.job_id <= Job
  /\ at[s] \in {"run", "check", "store"} => Ordered(o.header, o.job_id, o.target)

\* A solver that has stored a late solution has read the header since, and the
\* height has not changed again.
InFlight == {"height", "job_id", "target", "run", "check", "store"}
Late(s) ==
  /\ late[s] <= 1
  /\ late[s] = 1 /\ at[s] \in InFlight => HeightOf(own[s].header) = HeightOf(Job)

SolverOK(s) == ReadSoFar(s) /\ Late(s)

SolverInv == \A s \in Solvers : SolverOK(s)

Places ==
  {"start", "loop", "header", "height", "job_id", "target", "run", "check", "store",
   "join", "stopped"}

Stored == Seq([header : Nat, id : Nat, target : Nat])

JobInv ==
  /\ jobs \in Seq(Heights) /\ solutions \in Stored
  /\ own \in [Solvers -> Holding] /\ at \in [Solvers -> Places] /\ late \in [Solvers -> Nat]
  /\ SolverInv /\ IdNotBeforeHeader

\* A new job is later than whatever was read, and the ones before it keep their
\* heights; a new height forgets what was late.
LEMMA NotifyStep ==
  ASSUME JobInv, NEW h \in Heights, jobs' = Append(jobs, h), UNCHANGED <<solutions, own, at>>,
         late' = IF h # HeightOf(Job) THEN [w \in Solvers |-> 0] ELSE late
  PROVE  JobInv'
<1>1. Job \in Nat /\ Job' = Job + 1 /\ jobs' \in Seq(Heights)
    BY DEF JobInv, Job
<1>2. ASSUME NEW s \in Solvers
      PROVE  SolverOK(s)'
  <2>1. own[s] \in Holding /\ ReadSoFar(s) /\ Late(s)
      BY DEF JobInv, SolverInv, SolverOK
  <2>2. own[s].header \in Nat /\ own[s].job_id \in Nat /\ own[s].target \in Nat
      BY <2>1 DEF Holding
  <2>3. ReadSoFar(s)'
      BY <1>1, <2>1, <2>2, SMTT(30) DEF ReadSoFar, Ordered
  <2>4. CASE h # HeightOf(Job)
    <3>1. late'[s] = 0
        BY <2>4
    <3> QED
        BY <2>3, <3>1 DEF SolverOK, Late
  <2>5. CASE h = HeightOf(Job)
    <3>1. late' = late /\ HeightOf(Job)' = HeightOf(Job)
        BY <1>1, <2>5 DEF HeightOf, JobInv, Job
    <3>2. at[s] \in InFlight => own[s].header <= Job
        BY <1>1, <2>1, <2>2 DEF ReadSoFar, Ordered, InFlight
    <3>3. at[s] \in InFlight => HeightOf(own[s].header)' = HeightOf(own[s].header)
        BY <1>1, <2>2, <3>2 DEF HeightOf, JobInv, Job
    <3>4. Late(s)'
        BY <2>1, <3>1, <3>3, Zenon DEF Late
    <3> QED
        BY <2>3, <3>4 DEF SolverOK
  <2> QED
      BY <2>4, <2>5
<1>3. IdNotBeforeHeader'
  <2> SUFFICES ASSUME NEW i \in DOMAIN solutions
               PROVE  /\ solutions[i].header <= solutions[i].id
                      /\ solutions[i].id <= solutions[i].target
                      /\ solutions[i].target <= Job + 1
      BY <1>1 DEF IdNotBeforeHeader
  <2>1. solutions[i] \in [header : Nat, id : Nat, target : Nat]
      BY ElementOfSeq, LenProperties, Zenon DEF JobInv, Stored
  <2>2. solutions[i].target \in Nat
      BY <2>1
  <2> QED
      BY <1>1, <2>2 DEF JobInv, IdNotBeforeHeader
<1>4. late' \in [Solvers -> Nat]
    BY DEF JobInv
<1> QED
    BY <1>1, <1>2, <1>3, <1>4 DEF JobInv, SolverInv

\* A step of one solver that leaves the jobs alone: the other solvers keep
\* what they hold.
LEMMA SolverStep ==
  ASSUME JobInv, NEW s \in Solvers, UNCHANGED jobs,
         own' \in [Solvers -> Holding], at' \in [Solvers -> Places], late' \in [Solvers -> Nat],
         \A z \in Solvers : z # s => own'[z] = own[z] /\ at'[z] = at[z] /\ late'[z] = late[z],
         SolverOK(s)',
         solutions' \in Stored, IdNotBeforeHeader'
  PROVE  JobInv'
<1>1. ASSUME NEW z \in Solvers, z # s
      PROVE  SolverOK(z)'
    <2>1. own'[z] = own[z] /\ at'[z] = at[z] /\ late'[z] = late[z]
        BY <1>1
    <2> QED
        BY <1>1, <2>1 DEF JobInv, SolverInv, SolverOK, ReadSoFar, Late, Ordered, Job, HeightOf
<1> QED
    BY <1>1 DEF JobInv, SolverInv

\* Initially there is no job, and nothing is known or stored.
LEMMA JobInit == Init => JobInv
<1> SUFFICES ASSUME Init PROVE JobInv
    OBVIOUS
<1>1. Job = 0 /\ jobs \in Seq(Heights) /\ solutions \in Stored /\ DOMAIN solutions = {}
    BY DEF Init, Job, Stored
<1>2. own \in [Solvers -> Holding] /\ at \in [Solvers -> Places]
  <2>1. Blank \in Holding
      BY DEF Blank, Holding
  <2> QED
      BY <2>1 DEF Init, Places
<1>3. late \in [Solvers -> Nat] /\ \A s \in Solvers : at[s] = "start" /\ late[s] = 0
    BY DEF Init
<1> QED
    BY <1>1, <1>2, <1>3 DEF JobInv, SolverInv, SolverOK, ReadSoFar, Late, IdNotBeforeHeader

\* A thread that only takes messages or starts keeps what the solver holds, and
\* moves it to a place of the loop where nothing is claimed of it.
LEMMA PlaceStep ==
  ASSUME JobInv, NEW s \in Solvers, UNCHANGED <<jobs, solutions, own, late>>,
         NEW place \in {"loop", "join", "header", "stopped"}, at' = [at EXCEPT ![s] = place]
  PROVE  JobInv'
<1>1. /\ own' \in [Solvers -> Holding] /\ at' \in [Solvers -> Places] /\ at'[s] = place
      /\ late' \in [Solvers -> Nat]
      /\ \A z \in Solvers : z # s => own'[z] = own[z] /\ at'[z] = at[z]
    BY DEF JobInv, Places
<1>2. SolverOK(s)'
    BY <1>1 DEF SolverOK, ReadSoFar, Late, InFlight, JobInv, SolverInv
<1>3. solutions' \in Stored /\ IdNotBeforeHeader'
    BY DEF JobInv, IdNotBeforeHeader, Job
<1> QED
    BY <1>1, <1>2, <1>3, SolverStep

\* Each of the four reads adds a value that is at least as new as the last.
LEMMA ReadStep ==
  ASSUME JobInv, NEW s \in Solvers, NEW i \in 1..4, solver_reads(s, i)
  PROVE  JobInv'
<1> DEFINE o == own[s]
           Others == /\ own' \in [Solvers -> Holding] /\ at' \in [Solvers -> Places]
                     /\ \A z \in Solvers : z # s => own'[z] = own[z] /\ at'[z] = at[z]
<1>1. /\ o \in Holding /\ ReadSoFar(s) /\ Late(s) /\ Job \in Nat
    BY DEF JobInv, SolverInv, SolverOK, Job
<1>2. /\ UNCHANGED <<jobs, solutions, late>> /\ Job' = Job /\ late' \in [Solvers -> Nat]
      /\ \A j : HeightOf(j)' = HeightOf(j)
    BY DEF solver_reads, Solving, shared, Job, HeightOf, JobInv
<1>3. solutions' \in Stored /\ IdNotBeforeHeader'
    BY <1>2 DEF JobInv, IdNotBeforeHeader
<1>4. CASE i = 1
  <2>1. /\ at' = [at EXCEPT ![s] = "height"]
        /\ own' = [own EXCEPT ![s] = [o EXCEPT !.header = Job]]
      BY <1>4, Zenon DEF solver_reads, ReadOrder
  <2>2. [o EXCEPT !.header = Job] \in Holding
      BY <1>1 DEF Holding
  <2>3. at'[s] = "height" /\ own'[s] = [o EXCEPT !.header = Job] /\ Others
      BY <2>1, <2>2 DEF JobInv, Places
  <2>4. SolverOK(s)'
      BY <1>1, <1>2, <2>3 DEF SolverOK, ReadSoFar, Late, InFlight, Holding
  <2> QED
      BY <1>2, <1>3, <2>3, <2>4, SolverStep, SMTT(30)
<1>5. CASE i = 2
  <2>1. /\ at[s] = "height" /\ at' = [at EXCEPT ![s] = "job_id"]
        /\ own' = [own EXCEPT ![s] = [o EXCEPT !.height = Job]]
      BY <1>5, Zenon DEF solver_reads, ReadOrder
  <2>2. [o EXCEPT !.height = Job] \in Holding
      BY <1>1 DEF Holding
  <2>3. at'[s] = "job_id" /\ own'[s] = [o EXCEPT !.height = Job] /\ Others
      BY <2>1, <2>2 DEF JobInv, Places
  <2>4. SolverOK(s)'
      BY <1>1, <1>2, <2>1, <2>3 DEF SolverOK, ReadSoFar, Late, InFlight, Holding
  <2> QED
      BY <1>2, <1>3, <2>3, <2>4, SolverStep
<1>6. CASE i = 3
  <2>1. /\ at[s] = "job_id" /\ at' = [at EXCEPT ![s] = "target"]
        /\ own' = [own EXCEPT ![s] = [o EXCEPT !.job_id = Job]]
      BY <1>6, Zenon DEF solver_reads, ReadOrder
  <2>2. [o EXCEPT !.job_id = Job] \in Holding
      BY <1>1 DEF Holding
  <2>3. at'[s] = "target" /\ own'[s] = [o EXCEPT !.job_id = Job] /\ Others
      BY <2>1, <2>2 DEF JobInv, Places
  <2>4. SolverOK(s)'
      BY <1>1, <1>2, <2>1, <2>3 DEF SolverOK, ReadSoFar, Late, InFlight, Holding
  <2> QED
      BY <1>2, <1>3, <2>3, <2>4, SolverStep
<1>7. CASE i = 4
  <2>1. /\ at[s] = "target" /\ at' = [at EXCEPT ![s] = "run"]
        /\ own' = [own EXCEPT ![s] = [o EXCEPT !.target = Job]]
      BY <1>7, Zenon DEF solver_reads, ReadOrder
  <2>2. [o EXCEPT !.target = Job] \in Holding
      BY <1>1 DEF Holding
  <2>3. at'[s] = "run" /\ own'[s] = [o EXCEPT !.target = Job] /\ Others
      BY <2>1, <2>2 DEF JobInv, Places
  <2>4. SolverOK(s)'
      BY <1>1, <1>2, <2>1, <2>3 DEF SolverOK, ReadSoFar, Late, InFlight, Holding, Ordered
  <2> QED
      BY <1>2, <1>3, <2>3, <2>4, SolverStep
<1> QED
    BY <1>4, <1>5, <1>6, <1>7

\* An attempt keeps the values that were read.
LEMMA RunStep ==
  ASSUME JobInv, NEW s \in Solvers, run_solver(s) PROVE JobInv'
<1>1. PICK found \in BOOLEAN, has_errored \in BOOLEAN :
        own' = [own EXCEPT ![s].found = found, ![s].has_errored = has_errored]
    BY Zenon DEF run_solver
<1> DEFINE o == own[s]
           n == [o EXCEPT !.found = found, !.has_errored = has_errored]
<1>2. o \in Holding /\ SolverOK(s) /\ at[s] = "run"
    BY DEF JobInv, SolverInv, run_solver
<1>3. n \in Holding
    BY <1>2, Zenon DEF Holding
<1>4. /\ UNCHANGED <<jobs, solutions, late>> /\ Job' = Job /\ at' = [at EXCEPT ![s] = "check"]
      /\ late' \in [Solvers -> Nat] /\ \A j : HeightOf(j)' = HeightOf(j)
    BY DEF run_solver, Solving, shared, Job, HeightOf, JobInv
<1>5. own' = [own EXCEPT ![s] = n]
    BY <1>1, Zenon DEF JobInv
<1>6. /\ own' \in [Solvers -> Holding] /\ at' \in [Solvers -> Places]
      /\ at'[s] = "check" /\ own'[s] = n
      /\ \A z \in Solvers : z # s => own'[z] = own[z] /\ at'[z] = at[z]
    BY <1>3, <1>4, <1>5 DEF JobInv, Places
<1>7. /\ n.header = o.header /\ n.job_id = o.job_id /\ n.target = o.target
    BY <1>2 DEF Holding
<1>8. SolverOK(s)'
    BY <1>2, <1>4, <1>6, <1>7 DEF SolverOK, ReadSoFar, Late, InFlight, Ordered
<1>9. solutions' \in Stored /\ IdNotBeforeHeader'
    BY <1>4 DEF JobInv, IdNotBeforeHeader
<1> QED
    BY <1>4, <1>6, <1>8, <1>9, SolverStep

\* What a solver holds when it has dropped everything.
LEMMA BlankStep ==
  ASSUME JobInv, NEW s \in Solvers, UNCHANGED jobs, own' = [own EXCEPT ![s] = Blank],
         NEW place \in {"loop", "join"}, at' = [at EXCEPT ![s] = place],
         late' \in [Solvers -> Nat], late'[s] <= 1, \A z \in Solvers : z # s => late'[z] = late[z],
         solutions' \in Stored, IdNotBeforeHeader'
  PROVE  JobInv'
<1>1. Blank \in Holding
    BY DEF Blank, Holding
<1>2. /\ own' \in [Solvers -> Holding] /\ at' \in [Solvers -> Places]
      /\ at'[s] = place
      /\ \A z \in Solvers : z # s => own'[z] = own[z] /\ at'[z] = at[z]
    BY <1>1 DEF JobInv, Places
<1>3. SolverOK(s)'
    BY <1>2 DEF SolverOK, ReadSoFar, Late, InFlight
<1> QED
    BY <1>2, <1>3, SolverStep

\* The check keeps what the solver holds or drops it.
LEMMA CheckStep ==
  ASSUME JobInv, NEW s \in Solvers, solver_checks(s) PROVE JobInv'
<1>1. own[s] \in Holding /\ SolverOK(s) /\ at[s] = "check" /\ late \in [Solvers -> Nat]
    BY DEF JobInv, SolverInv, solver_checks
<1>2. /\ UNCHANGED <<jobs, solutions, late>> /\ Job' = Job
      /\ \A j : HeightOf(j)' = HeightOf(j)
    BY DEF solver_checks, Solving, shared, Job, HeightOf
<1>3. solutions' \in Stored /\ IdNotBeforeHeader'
    BY <1>2 DEF JobInv, IdNotBeforeHeader
<1>4. CASE ~still_valid(s)
  <2>1. own' = [own EXCEPT ![s] = Blank] /\ at' = [at EXCEPT ![s] = "loop"]
      BY <1>4 DEF solver_checks
  <2>2. late'[s] <= 1
      BY <1>1, <1>2 DEF SolverOK, Late
  <2> QED
      BY <1>1, <1>2, <1>3, <2>1, <2>2, BlankStep, Zenon
<1>5. CASE still_valid(s)
  <2>1. own' = own /\ at' = [at EXCEPT ![s] = "store"]
      BY <1>5 DEF solver_checks, JobInv
  <2>2. /\ own' \in [Solvers -> Holding] /\ at' \in [Solvers -> Places] /\ at'[s] = "store"
        /\ \A z \in Solvers : z # s => own'[z] = own[z] /\ at'[z] = at[z]
      BY <2>1 DEF JobInv, Places
  <2>3. SolverOK(s)'
      BY <1>1, <1>2, <2>1, <2>2 DEF SolverOK, ReadSoFar, Late, InFlight, Ordered
  <2> QED
      BY <1>1, <1>2, <1>3, <2>2, <2>3, SolverStep
<1> QED
    BY <1>4, <1>5

\* What is stored are the values that were read.
LEMMA StoreStep ==
  ASSUME JobInv, NEW s \in Solvers, solver_stores(s) PROVE JobInv'
<1> DEFINE o == own[s]
           new == [header |-> o.header, id |-> o.job_id, target |-> o.target]
<1>1. /\ o \in Holding /\ Ordered(o.header, o.job_id, o.target) /\ solutions \in Stored
      /\ Late(s) /\ at[s] \in InFlight /\ late \in [Solvers -> Nat]
    BY DEF JobInv, SolverInv, SolverOK, ReadSoFar, solver_stores, InFlight
<1>2. UNCHANGED jobs /\ Job' = Job /\ own' = [own EXCEPT ![s] = Blank]
    BY DEF solver_stores, Store, Job
<1>3. /\ late' \in [Solvers -> Nat] /\ late'[s] <= 1
      /\ \A z \in Solvers : z # s => late'[z] = late[z]
  <2>1. CASE late' = late
      BY <1>1, <2>1 DEF Late
  <2>2. CASE late' = [late EXCEPT ![s] = @ + 1] /\ HeightOf(o.header) # HeightOf(Job)
    <3>1. late[s] = 0
        BY <1>1, <2>2 DEF Late
    <3> QED
        BY <1>1, <2>2, <3>1
  <2> QED
      BY <2>1, <2>2 DEF solver_stores, Store
<1>4. PICK place \in {"loop", "join"} : at' = [at EXCEPT ![s] = place]
    BY Zenon DEF solver_stores
<1>5. new \in [header : Nat, id : Nat, target : Nat]
    BY <1>1 DEF Holding
<1>6. CASE ~o.found
  <2>1. solutions' = solutions
      BY <1>6 DEF solver_stores, Store
  <2> QED
      BY <1>2, <1>4, <1>3, <2>1, BlankStep, Zenon DEF JobInv, IdNotBeforeHeader
<1>7. CASE o.found
  <2>1. solutions' = Append(solutions, new)
      BY <1>7 DEF solver_stores, Store
  <2>2. solutions' \in Stored
      BY <1>1, <1>5, <2>1, AppendProperties DEF Stored
  <2>3. ASSUME NEW i \in DOMAIN solutions'
        PROVE  solutions'[i] = new \/ (i \in DOMAIN solutions /\ solutions'[i] = solutions[i])
      BY <1>1, <1>5, <2>1, <2>3, AppendProperties, SMTT(30) DEF Stored
  <2>4. IdNotBeforeHeader'
      BY <1>1, <1>2, <2>3 DEF IdNotBeforeHeader, JobInv, Ordered
  <2> QED
      BY <1>2, <1>4, <1>3, <2>2, <2>4, BlankStep, Zenon
<1> QED
    BY <1>6, <1>7

\* get_solutions takes the last entry off.
LEMMA TakeStep ==
  ASSUME JobInv, get_solutions PROVE JobInv'
<1>1. /\ solutions \in Stored /\ solutions # <<>> /\ UNCHANGED <<jobs, own, at, late>> /\ Job' = Job
      /\ solutions' = SubSeq(solutions, 1, Len(solutions) - 1)
    BY DEF JobInv, get_solutions, Front, Job
<1>2. /\ solutions' \in Stored
      /\ \A i \in DOMAIN solutions' : i \in DOMAIN solutions /\ solutions'[i] = solutions[i]
  <2> DEFINE n == Len(solutions) - 1
             R == [header : Nat, id : Nat, target : Nat]
  <2>1. Stored = Seq(R)
      BY DEF Stored
  <2> HIDE DEF R
  <2>2. Len(solutions) \in Nat /\ DOMAIN solutions = 1..Len(solutions) /\ Len(solutions) # 0
      BY <1>1, <2>1, EmptySeq, LenProperties
  <2>3. \A i \in 1..n : solutions[i] \in R
      BY <1>1, <2>1, <2>2, ElementOfSeq
  <2>4. /\ SubSeq(solutions, 1, n) \in Seq(R) /\ Len(SubSeq(solutions, 1, n)) = n
        /\ \A i \in 1..n : SubSeq(solutions, 1, n)[i] = solutions[i]
      BY <2>2, <2>3, SubSeqProperties
  <2>5. DOMAIN SubSeq(solutions, 1, n) = 1..n
      BY <2>4, LenProperties
  <2> QED
      BY <1>1, <2>1, <2>2, <2>4, <2>5, SMTT(30)
<1>3. IdNotBeforeHeader'
    BY <1>1, <1>2 DEF IdNotBeforeHeader, JobInv
<1>4. ASSUME NEW s \in Solvers PROVE SolverOK(s)'
    BY <1>1 DEF JobInv, SolverInv, SolverOK, ReadSoFar, Late, Ordered, Job, HeightOf
<1> QED
    BY <1>1, <1>2, <1>3, <1>4 DEF JobInv, SolverInv

\* A step that touches neither the job nor what solvers hold.
LEMMA OtherStep ==
  ASSUME JobInv, UNCHANGED <<jobs, solutions, own, at, late>> PROVE JobInv'
<1>1. ASSUME NEW s \in Solvers PROVE SolverOK(s)'
    BY DEF JobInv, SolverInv, SolverOK, ReadSoFar, Late, Ordered, Job, HeightOf
<1> QED
    BY <1>1 DEF JobInv, SolverInv, IdNotBeforeHeader, Job

\* Every step keeps the invariant.
LEMMA JobNext == JobInv /\ [Next]_vars => JobInv'
<1> SUFFICES ASSUME JobInv, [Next]_vars PROVE JobInv'
    OBVIOUS
<1>1. ASSUME NEW s \in Solvers, NEW h \in Heights, notify(s, h) PROVE JobInv'
    BY <1>1, NotifyStep DEF notify
<1>2. CASE stop_solvers \/ pause_solvers \/ resume_solvers
    BY <1>2, OtherStep DEF stop_solvers, pause_solvers, resume_solvers, Call
<1>3. CASE get_solutions
    BY <1>3, TakeStep
<1>4. ASSUME NEW s \in Solvers, stop_handle(s) PROVE JobInv'
    BY <1>4, OtherStep DEF stop_handle, shared
<1>5. ASSUME NEW s \in Solvers, solver_thread(s) PROVE JobInv'
  <2>1. CASE solver_starts(s)
      BY <2>1, PlaceStep, Zenon DEF solver_starts, shared
  <2>2. CASE solver_loop(s)
    <3>1. PICK place \in {"loop", "join", "header", "stopped"} : at' = [at EXCEPT ![s] = place]
        BY <2>2, Zenon DEF solver_loop
    <3> QED
        BY <2>2, <3>1, PlaceStep, Zenon DEF solver_loop, shared
  <2>3. CASE \E i \in 1..4 : solver_reads(s, i)
      BY <2>3, ReadStep
  <2>4. CASE run_solver(s)
      BY <2>4, RunStep
  <2>5. CASE solver_checks(s)
      BY <2>5, CheckStep
  <2>6. CASE solver_stores(s)
      BY <2>6, StoreStep
  <2>7. CASE solver_stops(s)
      BY <2>7, PlaceStep, Zenon DEF solver_stops, Solving, shared
  <2> QED
      BY <1>5, <2>1, <2>2, <2>3, <2>4, <2>5, <2>6, <2>7, SMTT(30) DEF solver_thread
<1>6. CASE UNCHANGED vars
    BY <1>6, OtherStep DEF vars
<1> QED
    BY <1>1, <1>2, <1>3, <1>4, <1>5, <1>6 DEF Next

\* The values of a solution come from jobs in the order of the reads of the
\* solver thread (miner.rs), whatever the number of solvers and jobs.
THEOREM IdsInOrder == Spec => []IdNotBeforeHeader
<1>1. JobInv => IdNotBeforeHeader
    BY DEF JobInv
<1> QED
    BY <1>1, JobInit, JobNext, PTL DEF Spec

\* After notify has set a new height every solver thread (miner.rs) stores at
\* most one solution for the header of an earlier height, whatever the number of
\* solvers, jobs and calls.
THEOREM LateAtMostOnce == Spec => []OneLateSolution
<1>1. JobInv => OneLateSolution
    BY DEF JobInv, SolverInv, SolverOK, Late, OneLateSolution
<1> QED
    BY <1>1, JobInit, JobNext, PTL DEF Spec
=============================================================================
