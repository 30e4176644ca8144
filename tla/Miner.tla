------------------------------- MODULE Miner --------------------------------
(***************************************************************************)
(* The miner: the owner's calls (start, notify, pause, resume, stop,       *)
(* get_solutions), the thread of every solver and its control thread, the  *)
(* channels between them and the job they share behind a lock.             *)
(*                                                                         *)
(* A step is what a thread does under one lock, or with one message.  The  *)
(* solver loop reads the header, the height, the job id and the difficulty *)
(* of the job under four separate locks, checks the height under a fifth   *)
(* and stores its solutions under a sixth.  A job is the number of the     *)
(* notification that set it, and so are the four values that are read.     *)
(* The solver itself is a plugin: an attempt ends by itself or because it  *)
(* is told to, with or without solutions, and may report an error.         *)
(***************************************************************************)
EXTENDS Integers, Sequences, FiniteSets, SequencesExt

CONSTANTS
  Solvers,     \* the loaded plugins
  Heights,     \* heights of jobs
  MaxJobs,     \* notifications
  MaxCalls,    \* other calls of the owner that send messages
  MaxSolutions \* solutions stored at any time

VARIABLES
  jobs,       \* the heights notified, the last one is the current job
  solutions,  \* JobData.solutions, a stack
  control,    \* control[s]: messages to the control thread
  messages,   \* messages[s]: messages to the solver loop
  state,      \* state[s]: the shared SolverState
  listening,  \* listening[s]: the control thread has not returned
  at,         \* at[s]: where the solver thread is
  paused,     \* paused[s]: its local flag
  own,        \* own[s]: what it has read and found
  calls,      \* owner calls so far
  wanted,     \* wanted[s]: a new height was notified for s and nothing since
  late        \* late[s]: solutions s stored for another height, since the last change of height
              \* than the job's, since the height changed

vars == <<jobs, solutions, control, messages, state, listening, at, paused, own, calls, wanted, late>>
shared == <<jobs, solutions, calls, wanted, late>>

Blank == [header |-> 0, height |-> 0, job_id |-> 0, target |-> 0,
          found |-> FALSE, has_errored |-> FALSE]

\* The height of a job; before the first one it is zero.
HeightOf(j) == IF j = 0 THEN 0 ELSE jobs[j]
Job == Len(jobs)

\* start_solvers: every solver has its channels and its thread.
Init ==
  /\ jobs = <<>> /\ solutions = <<>> /\ calls = 0
  /\ control = [s \in Solvers |-> <<>>] /\ messages = [s \in Solvers |-> <<>>]
  /\ state = [s \in Solvers |-> "Starting"]
  /\ listening = [s \in Solvers |-> TRUE]
  /\ at = [s \in Solvers |-> "start"] /\ paused = [s \in Solvers |-> TRUE]
  /\ own = [s \in Solvers |-> Blank]
  /\ wanted = [s \in Solvers |-> FALSE] /\ late = [s \in Solvers |-> 0]

(***************************************************************************)
(* The owner                                                               *)
(***************************************************************************)

is_paused(s) == state[s] = "Paused"

SendAll(channel, m) == [s \in Solvers |-> Append(channel[s], m)]

\* Mutant: only a solver that is known to be paused is resumed.
Resumes_paused(s, height) == is_paused(s)

\* notify resumes a solver that is paused, or that it pauses for a new height.
Resumes(s, height) == is_paused(s) \/ height # HeightOf(Job)

notify(s, height) ==
  LET pauses == height # HeightOf(Job) /\ ~is_paused(s)
      sent == IF pauses THEN SendAll(messages, "Pause") ELSE messages
  IN  /\ Len(jobs) < MaxJobs
      /\ control' = IF pauses THEN SendAll(control, "Pause") ELSE control
      /\ messages' = IF Resumes(s, height)
                     THEN [sent EXCEPT ![s] = Append(@, "Resume")] ELSE sent
      /\ jobs' = Append(jobs, height)
      /\ wanted' = [w \in Solvers |->
                     IF w = s THEN wanted[s] \/ height # HeightOf(Job) ELSE wanted[w] /\ ~pauses]
      /\ late' = IF height # HeightOf(Job) THEN [w \in Solvers |-> 0] ELSE late
      /\ UNCHANGED <<solutions, state, listening, at, paused, own, calls>>

\* Mutant: the control threads are not told.
Tells_loop_only(m) == /\ messages' = SendAll(messages, m) /\ UNCHANGED control

\* Both threads of every solver are sent a message.
Tells(m) == control' = SendAll(control, m) /\ messages' = SendAll(messages, m)

Call(m) ==
  /\ calls < MaxCalls /\ calls' = calls + 1
  /\ Tells(m)
  /\ wanted' = [s \in Solvers |-> FALSE]
  /\ UNCHANGED <<jobs, solutions, state, listening, at, paused, own, late>>

stop_solvers == Call("Stop")
pause_solvers == Call("Pause")
resume_solvers == Call("Resume")

get_solutions ==
  /\ solutions # <<>>
  /\ solutions' = Front(solutions)
  /\ UNCHANGED <<jobs, control, messages, state, listening, at, paused, own, calls, wanted, late>>

(***************************************************************************)
(* The control thread: Stop ends it, Pause and Stop end the attempt        *)
(***************************************************************************)

stop_handle(s) ==
  /\ listening[s] /\ control[s] # <<>>
  /\ listening' = [listening EXCEPT ![s] = Head(control[s]) # "Stop"]
  /\ control' = [control EXCEPT ![s] = Tail(@)]
  /\ UNCHANGED <<shared, messages, state, at, paused, own>>

(***************************************************************************)
(* The solver thread                                                       *)
(***************************************************************************)

Solving == UNCHANGED <<shared, control, messages, state, listening, paused>>

solver_starts(s) ==
  /\ at[s] = "start"
  /\ state' = [state EXCEPT ![s] = "Paused"]
  /\ at' = [at EXCEPT ![s] = "loop"]
  /\ UNCHANGED <<shared, control, messages, listening, paused, own>>

\* The top of the loop: one message at most, then an attempt unless paused.
solver_loop(s) ==
  LET m == IF messages[s] = <<>> THEN "none" ELSE Head(messages[s])
      now == IF m = "Pause" THEN TRUE ELSE IF m = "Resume" THEN FALSE ELSE paused[s]
  IN  /\ at[s] = "loop" /\ (m # "none" \/ ~paused[s])
      /\ messages' = IF m = "none" THEN messages ELSE [messages EXCEPT ![s] = Tail(@)]
      /\ state' = [state EXCEPT ![s] = IF m = "Pause" THEN "Paused"
                                       ELSE IF m = "Resume" THEN "Working" ELSE @]
      /\ paused' = [paused EXCEPT ![s] = now]
      /\ at' = [at EXCEPT ![s] = IF m = "Stop" THEN "join" ELSE IF now THEN "loop" ELSE "header"]
      /\ UNCHANGED <<shared, control, listening, own>>

\* Mutant: the header is read last.
ReadOrder_header_last == <<"height", "job_id", "target", "header">>

ReadOrder == <<"header", "height", "job_id", "target">>

\* One of the four reads of the job.
solver_reads(s, i) ==
  /\ at[s] = <<"header", "height", "job_id", "target">>[i]
  /\ own' = [own EXCEPT ![s][ReadOrder[i]] = Job]
  /\ at' = [at EXCEPT ![s] = <<"height", "job_id", "target", "run">>[i]]
  /\ Solving

\* An attempt of the plugin and its result.
run_solver(s) ==
  /\ at[s] = "run"
  /\ \E found, has_errored \in BOOLEAN :
       own' = [own EXCEPT ![s].found = found, ![s].has_errored = has_errored]
  /\ at' = [at EXCEPT ![s] = "check"]
  /\ Solving

still_valid(s) == HeightOf(own[s].height) = HeightOf(Job)

solver_checks(s) ==
  /\ at[s] = "check"
  /\ own' = [own EXCEPT ![s] = IF still_valid(s) THEN @ ELSE Blank]
  /\ at' = [at EXCEPT ![s] = IF still_valid(s) THEN "store" ELSE "loop"]
  /\ Solving

\* The solutions of an attempt are stored as one entry, which may have become
\* empty when those below the target difficulty were left out.
Store(s) ==
  LET o == own[s] IN
  /\ o.found => Len(solutions) < MaxSolutions
  /\ solutions' = IF o.found
                  THEN Append(solutions,
                              [header |-> o.header, id |-> o.job_id, target |-> o.target])
                  ELSE solutions
  /\ late' = IF o.found /\ HeightOf(o.header) # HeightOf(Job)
             THEN [late EXCEPT ![s] = @ + 1] ELSE late
  /\ UNCHANGED <<jobs, calls, wanted, control, messages, state, listening, paused>>

\* Mutant: the next attempt takes the job that was read for the last one.
solver_stores_retries(s) ==
  /\ at[s] = "store" /\ Store(s)
  /\ at' = [at EXCEPT ![s] = IF own[s].has_errored THEN "join" ELSE "run"]
  /\ UNCHANGED own

solver_stores(s) ==
  /\ at[s] = "store" /\ Store(s)
  /\ at' = [at EXCEPT ![s] = IF own[s].has_errored THEN "join" ELSE "loop"]
  /\ own' = [own EXCEPT ![s] = Blank]

\* The solver waits for its control thread and reports that it has stopped.
solver_stops(s) ==
  /\ at[s] = "join" /\ ~listening[s]
  /\ at' = [at EXCEPT ![s] = "stopped"]
  /\ UNCHANGED own /\ Solving

solver_thread(s) ==
  \/ solver_starts(s)
  \/ solver_loop(s)
  \/ \E i \in 1..4 : solver_reads(s, i)
  \/ run_solver(s)
  \/ solver_checks(s)
  \/ solver_stores(s)
  \/ solver_stops(s)

Next ==
  \/ \E s \in Solvers, h \in Heights : notify(s, h)
  \/ stop_solvers \/ pause_solvers \/ resume_solvers
  \/ get_solutions
  \/ \E s \in Solvers : stop_handle(s) \/ solver_thread(s)

\* The threads run, and the owner collects the solutions.
Spec ==
  /\ Init /\ [][Next]_vars
  /\ \A s \in Solvers : WF_vars(stop_handle(s)) /\ WF_vars(solver_thread(s))
  /\ WF_vars(get_solutions)

(***************************************************************************)
(* Properties                                                              *)
(***************************************************************************)

(* A solution is never reported for a job that is older than the header it *)
(* was found for, nor for one that is to come: the four reads may meet     *)
(* different jobs, but only in the order of the reads.                     *)
IdNotBeforeHeader ==
  \A i \in DOMAIN solutions :
    LET sol == solutions[i] IN
    sol.header <= sol.id /\ sol.id <= sol.target /\ sol.target <= Job

(* After a new height was notified a solver stores at most one solution    *)
(* for the header of an earlier one.  The check of the height does not     *)
(* rule that one out: the height may change between the reads of header    *)
(* and height, and between the check and the store, which take the lock    *)
(* one after the other.  It is one because an attempt reads the job anew.  *)
OneLateSolution == \A s \in Solvers : late[s] <= 1

(* What the check is for: no solution is stored for the header of another  *)
(* height than the job's.  Refuted, in both of these windows.              *)
NoLateSolution == \A s \in Solvers : late[s] = 0

(* A job for a new height is worked on: unless the owner says otherwise,   *)
(* or the solver has left its loop, the solver it was notified for starts  *)
(* working, whether the notification found it starting, paused, working    *)
(* or with messages still to read.                                         *)
NewHeightStarts ==
  \A s \in Solvers :
    wanted[s] ~> ~wanted[s] \/ (state[s] = "Working" /\ messages[s] = <<>>)
                 \/ at[s] \in {"join", "stopped"}

(* Once it is told to stop, every solver reports that it has stopped, also *)
(* the one that has left its loop because of an error, so that             *)
(* wait_for_solver_shutdown returns.                                       *)
ShutdownCompletes ==
  \A s \in Solvers :
    (\E i \in DOMAIN messages[s] : messages[s][i] = "Stop") ~> at[s] = "stopped"
=============================================================================
