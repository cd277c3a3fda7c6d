---------------------- MODULE WorkerSupervisor_proofs ----------------------
(* One worker, known to the server, for any number of requests, threads,    *)
(* processes, investigations and jobs.                                      *)
EXTENDS WorkerSupervisor, TLAPS

LEMMA BlankRows == Asleep \in ThreadRows /\ Gone \in ProcessRows /\ Free \in HandlerRows
  BY DEF Asleep, ThreadRows, Gone, ProcessRows, Free, HandlerRows

LEMMA Served ==
  ASSUME TypeOK, NEW h \in Handlers, NEW step, Serve(h, step),
         step \in {"idle", "start", "cancel", "stop", "read", "poll", "kill", "reap",
                   "stopped"}
  PROVE  handler' \in [Handlers -> HandlerRows]
  <1>1. handler \in [Handlers -> HandlerRows] /\ handler[h] \in HandlerRows
    BY DEF TypeOK
  <1>2. [handler[h] EXCEPT !.step = step] \in HandlerRows
    BY <1>1 DEF HandlerRows
  <1> QED
    BY <1>1, <1>2 DEF Serve

LEMMA Stepped ==
  ASSUME TypeOK, NEW t \in Threads, NEW step, Step(t, step),
         step \in {"dead", "launch", "register", "wait", "export", "decide", "clear"}
  PROVE  /\ thread' \in [Threads -> ThreadRows]
         /\ thread'[t].step = step /\ thread'[t].proc = thread[t].proc
  <1>1. thread \in [Threads -> ThreadRows] /\ thread[t] \in ThreadRows
    BY DEF TypeOK
  <1> DEFINE row == [thread[t] EXCEPT !.step = step]
  <1>2. row \in ThreadRows /\ row.step = step /\ row.proc = thread[t].proc
    BY <1>1 DEF ThreadRows
  <1>3. thread' = [thread EXCEPT ![t] = row]
    BY DEF Step
  <1> HIDE DEF row
  <1> QED
    BY <1>1, <1>2, <1>3

(* What the supervisor and its process are to each other is not touched by  *)
(* a step of anything else.                                                 *)
LEMMA OthersKeepWorker ==
  ASSUME SupervisorIInv, TypeOK',
         UNCHANGED <<supervisor, handle, thread>>,
         \A p \in Processes : Running(p)' => Running(p)
  PROVE  SupervisorIInv'
  <1>1. OneSupervisor'
    BY DEF SupervisorIInv, OneSupervisor, Alive, TypeOK
  <1>2. OneKnownWorker'
    BY DEF SupervisorIInv, OneKnownWorker, TypeOK
  <1> QED
    BY <1>1, <1>2 DEF SupervisorIInv

(* The invariant says who the worker is: one supervisor, one process.      *)
LEMMA SupervisorImplies ==
  ASSUME TypeOK, OneSupervisor
  PROVE  OneKnownWorker
  BY DEF TypeOK, OneSupervisor, OneKnownWorker, Alive

LEMMA InitSound == Init => SupervisorIInv
  <1> SUFFICES ASSUME Init PROVE SupervisorIInv
    OBVIOUS
  <1>1. TypeOK
    <2>1. faults \in 0..MaxFaults
      BY ServerAssumption DEF Init
    <2>2. /\ thread \in [Threads -> ThreadRows] /\ process \in [Processes -> ProcessRows]
          /\ handler \in [Handlers -> HandlerRows]
      BY BlankRows DEF Init
    <2>3. /\ job \in [Jobs -> {"absent", "waiting", "running", "ended"}]
          /\ cancelled \subseteq Jobs /\ spent \subseteq Plans /\ held \in [Workspaces -> BOOLEAN]
          /\ workspace \in Workspaces \cup {None} /\ supervisor \in Threads \cup {None}
          /\ stop_event \in BOOLEAN /\ handle \in Processes \cup {None}
      BY DEF Init
    <2> QED
      BY <2>1, <2>2, <2>3 DEF TypeOK
  <1>2. OneSupervisor
    BY DEF Init, OneSupervisor, Alive, Running, Asleep, Gone
  <1> QED
    BY <1>1, <1>2, SupervisorImplies DEF SupervisorIInv

-----------------------------------------------------------------------------
(* Requests                                                                 *)

LEMMA RequestSound ==
  ASSUME SupervisorIInv, NEW h \in Handlers, Request(h)
  PROVE  SupervisorIInv'
  <1>1. TypeOK
    BY DEF SupervisorIInv
  <1>2. UNCHANGED <<supervisor, stop_event, handle, thread, process, faults>>
    BY DEF Request, Submit, CancelLook, Pause, Resume, Stop, Close, Open, serverVars
  <1>3. handler' \in [Handlers -> HandlerRows]
    <2>1. handler \in [Handlers -> HandlerRows] /\ handler[h] \in HandlerRows
      BY <1>1 DEF TypeOK
    <2>2. ASSUME NEW request \in {"submit", "resume", "stop"}, NEW step \in {"start", "stop"}
          PROVE  [handler[h] EXCEPT !.step = step, !.request = request] \in HandlerRows
      BY <2>1 DEF HandlerRows
    <2>3. ASSUME NEW j \in Jobs, NEW was \in BOOLEAN
          PROVE  [Free EXCEPT !.step = "cancel", !.request = "cancel", !.job = j,
                              !.was_running = was] \in HandlerRows
      BY DEF HandlerRows, Free
    <2>4. CASE \E j \in Jobs : CancelLook(h, j)
      <3>1. PICK j \in Jobs : handler' = [handler EXCEPT ![h] =
              [Free EXCEPT !.step = "cancel", !.request = "cancel", !.job = j,
                           !.was_running = (job[j] = "running")]]
        BY <2>4 DEF CancelLook
      <3>2. (job[j] = "running") \in BOOLEAN
        OBVIOUS
      <3> QED
        BY <2>1, <2>3, <3>1, <3>2
    <2>5. CASE (\E S \in Batches : Submit(h, S)) \/ Resume(h) \/ Stop(h)
      <3>1. PICK request \in {"submit", "resume", "stop"}, step \in {"start", "stop"} :
              Asks(h, request, step)
        BY <2>5 DEF Submit, Resume, Stop
      <3> QED
        BY <2>1, <2>2, <3>1 DEF Asks
    <2>6. CASE Pause(h) \/ Close(h) \/ \E w \in Workspaces : Open(h, w)
      BY <2>1, <2>6 DEF Pause, Close, Open
    <2> QED
      BY <2>4, <2>5, <2>6 DEF Request
  <1>4. /\ job' \in [Jobs -> {"absent", "waiting", "running", "ended"}]
        /\ cancelled' \subseteq Jobs /\ spent' \subseteq Plans
        /\ held' \in [Workspaces -> BOOLEAN]
        /\ workspace' \in Workspaces \cup {None}
    BY <1>1 DEF Request, Submit, CancelLook, Pause, Resume, Stop, Close, Open,
                serverVars, storeVars, TypeOK
  <1>5. TypeOK'
    BY <1>1, <1>2, <1>3, <1>4 DEF TypeOK
  <1> QED
    BY <1>2, <1>5, OthersKeepWorker DEF Running

LEMMA StartSound ==
  ASSUME SupervisorIInv, NEW h \in Handlers, Start(h)
  PROVE  SupervisorIInv'
  <1>1. TypeOK
    BY DEF SupervisorIInv
  <1>2. /\ UNCHANGED <<workspace, job, cancelled, spent, held, handle, process, faults>>
        /\ handler' \in [Handlers -> HandlerRows]
    BY <1>1, BlankRows DEF Start, Done, storeVars, TypeOK
  <1>3. CASE supervisor # None /\ Alive(supervisor)
    <2>1. UNCHANGED <<supervisor, stop_event, thread>>
      BY <1>3 DEF Start
    <2> QED
      BY <1>1, <1>2, <2>1, OthersKeepWorker DEF TypeOK, Running
  <1>4. CASE ~(supervisor # None /\ Alive(supervisor))
    <2>1. PICK t \in Threads : ~Alive(t) /\ Launched(t)
      BY <1>4 DEF Start
    <2>2. \A u \in Threads : ~Alive(u)
      BY <1>4, ServerAssumption DEF SupervisorIInv, OneSupervisor
    <2>3. /\ supervisor' = t /\ stop_event' = FALSE
          /\ thread' \in [Threads -> ThreadRows]
          /\ thread'[t].step = "launch"
          /\ \A u \in Threads \ {t} : thread'[u] = thread[u]
      BY <1>1, <2>1 DEF Launched, Asleep, TypeOK, ThreadRows
    <2>4. \A p \in Processes : ~Running(p)'
      BY <1>2, <2>2 DEF SupervisorIInv, OneSupervisor, Alive, Running
    <2>5. TypeOK'
      BY <1>1, <1>2, <2>3 DEF TypeOK
    <2>6. OneSupervisor'
      BY <2>2, <2>3, <2>4 DEF OneSupervisor, Alive
    <2> QED
      BY <2>4, <2>5, <2>6 DEF SupervisorIInv, OneKnownWorker
  <1> QED
    BY <1>3, <1>4

(* Stopping, cancelling and failing only end processes.                    *)
LEMMA HandleSound ==
  ASSUME SupervisorIInv, NEW h \in Handlers,
         \/ CancelAsk(h) \/ Stopped(h) \/ SubmitFails(h)
         \/ StopSet(h) \/ StopRead(h) \/ StopPoll(h) \/ StopKill(h) \/ StopReap(h)
  PROVE  SupervisorIInv'
  <1>1. TypeOK
    BY DEF SupervisorIInv
  <1>2. UNCHANGED <<workspace, spent, held, supervisor, handle, thread>>
    BY DEF CancelAsk, Stopped, SubmitFails, StopSet, StopRead, StopPoll, StopKill,
           StopReap, serverVars, storeVars
  <1>3. stop_event' \in BOOLEAN /\ faults' \in 0..MaxFaults
    <2>1. CASE SubmitFails(h)
      BY <1>1, <2>1, ServerAssumption DEF SubmitFails, serverVars, TypeOK
    <2>2. CASE ~SubmitFails(h)
      BY <1>1, <2>2 DEF CancelAsk, Stopped, StopSet, StopRead, StopPoll, StopKill,
                        StopReap, serverVars, TypeOK
    <2> QED
      BY <2>1, <2>2
  <1>4. handler' \in [Handlers -> HandlerRows]
    <2>1. CASE \E step \in {"start", "stop", "read", "poll", "kill", "reap", "stopped"} :
                 Serve(h, step)
      BY <1>1, <2>1, Served
    <2>2. CASE Done(h)
      BY <1>1, <2>2, BlankRows DEF Done, TypeOK
    <2>3. CASE StopRead(h)
      <3>1. /\ handler \in [Handlers -> HandlerRows] /\ handler[h] \in HandlerRows
            /\ handle \in Processes \cup {None}
        BY <1>1 DEF TypeOK
      <3>2. [handler[h] EXCEPT !.step = "poll", !.proc = handle] \in HandlerRows
        BY <3>1 DEF HandlerRows
      <3> QED
        BY <2>3, <3>1, <3>2 DEF StopRead
    <2> QED
      BY <2>1, <2>2, <2>3
         DEF CancelAsk, Stopped, SubmitFails, StopSet, StopPoll, StopKill, StopReap
  <1>5. /\ process' \in [Processes -> ProcessRows]
        /\ \A p \in Processes : Running(p)' => Running(p)
    <2>1. process \in [Processes -> ProcessRows]
      BY <1>1 DEF TypeOK
    <2>2. CASE StopReap(h)
      BY <2>1, <2>2, BlankRows DEF StopReap, Running, Gone
    <2>3. CASE StopKill(h)
      <3>1. CASE process' = process
        BY <2>1, <3>1 DEF Running
      <3>2. CASE process' # process
        <4> DEFINE p == handler[h].proc
                   row == [process[p] EXCEPT !.term = TRUE]
        <4>1. process' = [process EXCEPT ![p] = row]
          BY <2>3, <3>2 DEF StopKill
        <4>2. p \in Processes => row \in ProcessRows /\ row.life = process[p].life
          BY <2>1 DEF ProcessRows
        <4> HIDE DEF p, row
        <4> QED
          BY <2>1, <4>1, <4>2 DEF Running
      <3> QED
        BY <3>1, <3>2
    <2>4. CASE ~StopReap(h) /\ ~StopKill(h)
      BY <2>1, <2>4
         DEF CancelAsk, Stopped, SubmitFails, StopSet, StopRead, StopPoll, Running
    <2> QED
      BY <2>2, <2>3, <2>4
  <1>6. /\ job' \in [Jobs -> {"absent", "waiting", "running", "ended"}]
        /\ cancelled' \subseteq Jobs
    BY <1>1 DEF CancelAsk, Stopped, SubmitFails, StopSet, StopRead, StopPoll, StopKill,
                StopReap, storeVars, TypeOK, RunningIn
  <1>7. TypeOK'
    BY <1>1, <1>2, <1>3, <1>4, <1>5, <1>6 DEF TypeOK
  <1> QED
    BY <1>2, <1>5, <1>7, OthersKeepWorker

-----------------------------------------------------------------------------
(* The supervisor thread                                                    *)

(* Launch is the only step that gives the thread a process.                *)
LEMMA LaunchMoves ==
  ASSUME TypeOK, NEW t \in Threads, Launch(t)
  PROVE  \E p \in Processes :
           /\ thread' \in [Threads -> ThreadRows] /\ process' \in [Processes -> ProcessRows]
           /\ thread'[t].step = "register" /\ thread'[t].proc = p
           /\ \A q \in Processes \ {p} : process'[q] = process[q]
  <1> DEFINE started == IF workspace = None THEN Gone
                        ELSE [Gone EXCEPT !.life = "boot", !.home = workspace]
             row(p) == [thread[t] EXCEPT !.step = "register", !.proc = p]
  <1>1. PICK p \in Processes : process' = [process EXCEPT ![p] = started]
                               /\ thread' = [thread EXCEPT ![t] = row(p)]
    BY DEF Launch
  <1>2. /\ thread \in [Threads -> ThreadRows] /\ thread[t] \in ThreadRows
        /\ process \in [Processes -> ProcessRows] /\ workspace \in Workspaces \cup {None}
    BY DEF TypeOK
  <1>3. started \in ProcessRows
    BY <1>2 DEF Gone, ProcessRows
  <1>4. row(p) \in ThreadRows /\ row(p).step = "register" /\ row(p).proc = p
    BY <1>2 DEF ThreadRows
  <1> HIDE DEF started, row
  <1> QED
    BY <1>1, <1>2, <1>3, <1>4

(* A thread that does not launch goes on with the process it has.          *)
LEMMA ThreadMoves ==
  ASSUME TypeOK, NEW t \in Threads, Supervise(t) \/ ExportFails(t), ~Launch(t)
  PROVE  /\ thread' \in [Threads -> ThreadRows] /\ process' = process
         /\ thread'[t].step # "register"
         /\ thread'[t].step = "wait" <=> Register(t)
         /\ Register(t) => thread'[t].proc = thread[t].proc /\ handle' = thread[t].proc
  <1>1. thread \in [Threads -> ThreadRows] /\ thread[t] \in ThreadRows
    BY DEF TypeOK
  <1>2. process' = process
    BY DEF Supervise, Register, Wait, Export, ExportFails, Decide, Clear
  <1>3. CASE Register(t)
    BY <1>2, <1>3, Stepped DEF Register
  <1>4. CASE Wait(t) \/ Decide(t)
    <2>1. PICK step \in {"export", "launch", "clear"} : Step(t, step)
      BY <1>4 DEF Wait, Decide
    <2>2. ~Register(t)
      BY <1>4 DEF Wait, Decide, Register
    <2> QED
      BY <1>2, <2>1, <2>2, Stepped
  <1>5. CASE Export(t) \/ ExportFails(t)
    <2>1. PICK pending \in BOOLEAN : thread' = [thread EXCEPT ![t] =
            [@ EXCEPT !.step = "decide", !.pending = pending]]
      BY <1>5 DEF Export, ExportFails
    <2>2. /\ [thread[t] EXCEPT !.step = "decide", !.pending = pending] \in ThreadRows
          /\ [thread[t] EXCEPT !.step = "decide", !.pending = pending].step = "decide"
      BY <1>1 DEF ThreadRows
    <2>3. ~Register(t)
      BY <1>5 DEF Export, ExportFails, Register
    <2> QED
      BY <1>1, <1>2, <2>1, <2>2, <2>3
  <1>6. CASE Clear(t)
    BY <1>1, <1>2, <1>6, BlankRows DEF Clear, Register, Asleep
  <1> QED
    BY <1>3, <1>4, <1>5, <1>6 DEF Supervise

LEMMA SuperviseTyped ==
  ASSUME TypeOK, NEW t \in Threads, Supervise(t) \/ ExportFails(t)
  PROVE  TypeOK'
  <1>1. thread' \in [Threads -> ThreadRows] /\ process' \in [Processes -> ProcessRows]
    <2>1. CASE Launch(t)
      BY <2>1, LaunchMoves
    <2>2. CASE ~Launch(t)
      BY <2>2, ThreadMoves DEF TypeOK
    <2> QED
      BY <2>1, <2>2
  <1>2. UNCHANGED <<workspace, job, cancelled, spent, held, supervisor, stop_event,
                    handler>>
    BY DEF Supervise, Launch, Register, Wait, Export, ExportFails, Decide, Clear,
           serverVars, storeVars
  <1>3. handle' \in Processes \cup {None}
    <2>1. thread[t] \in ThreadRows /\ handle \in Processes \cup {None}
      BY DEF TypeOK
    <2>2. handle' \in {handle, thread[t].proc, None}
      BY DEF Supervise, Launch, Register, Wait, Export, ExportFails, Decide, Clear,
             serverVars
    <2> QED
      BY <2>1, <2>2 DEF ThreadRows
  <1>4. faults' \in 0..MaxFaults
    <2>1. CASE ExportFails(t)
      BY <2>1, ServerAssumption DEF ExportFails, TypeOK
    <2>2. CASE ~ExportFails(t)
      BY <2>2 DEF Supervise, Launch, Register, Wait, Export, Decide, Clear, TypeOK
    <2> QED
      BY <2>1, <2>2
  <1> QED
    BY <1>1, <1>2, <1>3, <1>4 DEF TypeOK

LEMMA SuperviseSound ==
  ASSUME SupervisorIInv, NEW t \in Threads, Supervise(t) \/ ExportFails(t)
  PROVE  SupervisorIInv'
  <1>1. TypeOK /\ OneSupervisor /\ TypeOK'
    BY SuperviseTyped DEF SupervisorIInv
  <1>2. /\ supervisor = t /\ supervisor' = t
        /\ \A u \in Threads \ {t} : thread[u].step = "dead" /\ thread'[u] = thread[u]
    <2>1. thread[t].step # "dead" /\ supervisor' = supervisor
      BY DEF Supervise, Launch, Register, Wait, Export, ExportFails, Decide, Clear,
             serverVars
    <2>2. supervisor = t /\ \A u \in Threads \ {t} : thread[u].step = "dead"
      BY <1>1, <2>1 DEF OneSupervisor, Alive
    <2>3. \A u \in Threads \ {t} : thread'[u] = thread[u]
      BY <1>1 DEF Supervise, Launch, Register, Wait, Export, ExportFails, Decide, Clear,
                  Step, TypeOK
    <2> QED
      BY <2>1, <2>2, <2>3
  <1>3. \A u \in Threads : Alive(u)' => supervisor' = u
    BY <1>2 DEF Alive
  <1>4. \A p \in Processes : Running(p)' =>
          thread'[t].step \in {"register", "wait"} /\ thread'[t].proc = p
    <2>1. CASE Launch(t)
      <3>1. \A p \in Processes : ~Running(p)
        BY <1>1, <1>2, <2>1 DEF OneSupervisor, Launch
      <3> QED
        BY <1>1, <2>1, <3>1, LaunchMoves DEF Running
    <2>2. CASE ~Launch(t)
      <3>1. \A p \in Processes : Running(p) =>
              thread[t].step \in {"register", "wait"} /\ thread[t].proc = p
        BY <1>1, <1>2 DEF OneSupervisor
      <3>2. \A p \in Processes : Running(p)' => Running(p) /\ process'[p] = process[p]
        BY <1>1, <2>2, ThreadMoves DEF Running
      <3>3. (\E p \in Processes : Running(p)) => Register(t)
        BY <2>2, <3>1 DEF Supervise, Wait, Export, ExportFails, Decide, Clear
      <3> QED
        BY <1>1, <2>2, <3>1, <3>2, <3>3, ThreadMoves
    <2> QED
      BY <2>1, <2>2
  <1>5. thread'[t].step = "wait" => handle' = thread'[t].proc
    BY <1>1, LaunchMoves, ThreadMoves
  <1>6. OneSupervisor'
    BY <1>2, <1>3, <1>4, <1>5 DEF OneSupervisor
  <1>7. OneKnownWorker'
    BY <1>4, <1>5 DEF OneKnownWorker
  <1> QED
    BY <1>1, <1>6, <1>7 DEF SupervisorIInv

-----------------------------------------------------------------------------
(* The worker process                                                       *)

LEMMA WorkSound ==
  ASSUME SupervisorIInv, NEW p \in Processes, Work(p) \/ Die(p)
  PROVE  SupervisorIInv'
  <1>1. TypeOK
    BY DEF SupervisorIInv
  <1>2. UNCHANGED <<workspace, held, supervisor, stop_event, handle, thread, handler>>
    BY DEF Work, Boot, Recover, Recovered, Claim, Finish, Leave, Die, serverVars,
           storeVars
  <1>3. faults' \in 0..MaxFaults
    <2>1. CASE Die(p)
      BY <1>1, <2>1, ServerAssumption DEF Die, TypeOK
    <2>2. CASE ~Die(p)
      BY <1>1, <2>2 DEF Work, Boot, Recover, Recovered, Claim, Finish, Leave, TypeOK
    <2> QED
      BY <2>1, <2>2
  <1>4. /\ process' \in [Processes -> ProcessRows]
        /\ \A q \in Processes : Running(q)' => Running(q)
    <2>1. /\ process \in [Processes -> ProcessRows] /\ process[p] \in ProcessRows
          /\ Running(p)
      BY <1>1 DEF TypeOK, Work, Boot, Recover, Recovered, Claim, Finish, Leave, Die,
                  Running
    <2>2. CASE Ends(p)
      BY <2>1, <2>2, BlankRows DEF Ends, Running, Gone
    <2>3. CASE \E life \in {"idle", "busy"}, j \in Jobs \cup {None} :
                 process' = [process EXCEPT ![p] = [@ EXCEPT !.life = life, !.job = j]]
      <3>1. PICK life \in {"idle", "busy"}, j \in Jobs \cup {None} :
              process' = [process EXCEPT ![p] = [@ EXCEPT !.life = life, !.job = j]]
        BY <2>3
      <3>2. [process[p] EXCEPT !.life = life, !.job = j] \in ProcessRows
        BY <2>1 DEF ProcessRows
      <3> QED
        BY <2>1, <3>1, <3>2 DEF Running
    <2>4. CASE \E life \in {"recover", "idle"}, left, flagged \in SUBSET Jobs :
                 process' = [process EXCEPT ![p] =
                   [@ EXCEPT !.life = life, !.todo = left, !.flagged = flagged]]
      <3>1. PICK life \in {"recover", "idle"}, left \in SUBSET Jobs,
                 flagged \in SUBSET Jobs :
              process' = [process EXCEPT ![p] =
                [@ EXCEPT !.life = life, !.todo = left, !.flagged = flagged]]
        BY <2>4
      <3>2. [process[p] EXCEPT !.life = life, !.todo = left, !.flagged = flagged]
              \in ProcessRows
        BY <2>1 DEF ProcessRows
      <3> QED
        BY <2>1, <3>1, <3>2 DEF Running
    <2>5. CASE Boot(p) /\ ~Ends(p)
      <3>1. RunningIn(process[p].home) \in SUBSET Jobs
        BY DEF RunningIn
      <3> QED
        BY <2>4, <2>5, <3>1 DEF Boot
    <2>6. CASE \E j \in Jobs : Recover(p, j)
      <3>1. PICK j \in Jobs :
              process' = [process EXCEPT ![p].todo = @ \ {j}]
        BY <2>6 DEF Recover
      <3> DEFINE row == [process[p] EXCEPT !.todo = @ \ {j}]
      <3>2. row \in ProcessRows /\ row.life = process[p].life
        BY <2>1 DEF ProcessRows
      <3>3. process' = [process EXCEPT ![p] = row]
        BY <3>1
      <3> HIDE DEF row
      <3> QED
        BY <2>1, <3>2, <3>3 DEF Running
    <2>7. CASE Recovered(p)
      <3>1. [process[p] EXCEPT !.life = "idle", !.flagged = {}] \in ProcessRows
        BY <2>1 DEF ProcessRows
      <3> QED
        BY <2>1, <2>7, <3>1 DEF Recovered, Running
    <2>8. CASE Claim(p)
      BY <2>3, <2>8 DEF Claim, ClaimableIn, WaitingIn
    <2>9. CASE Finish(p)
      BY <2>3, <2>9 DEF Finish
    <2> QED
      BY <2>2, <2>5, <2>6, <2>7, <2>8, <2>9 DEF Work, Leave, Die
  <1>5. /\ job' \in [Jobs -> {"absent", "waiting", "running", "ended"}]
        /\ cancelled' \subseteq Jobs /\ spent' \subseteq Plans
    BY <1>1 DEF Work, Boot, Recover, Recovered, Claim, Finish, Leave, Die, storeVars,
                TypeOK, ClaimableIn, WaitingIn
  <1>6. TypeOK'
    BY <1>1, <1>2, <1>3, <1>4, <1>5 DEF TypeOK
  <1> QED
    BY <1>2, <1>4, <1>6, OthersKeepWorker

LEMMA NextSound == SupervisorIInv /\ [Next]_vars => SupervisorIInv'
  <1> SUFFICES ASSUME SupervisorIInv, [Next]_vars PROVE SupervisorIInv'
    OBVIOUS
  <1>1. CASE \E h \in Handlers : Request(h) \/ Handle(h) \/ SubmitFails(h)
    BY <1>1, RequestSound, StartSound, HandleSound DEF Handle
  <1>2. CASE \E t \in Threads : Supervise(t) \/ ExportFails(t)
    BY <1>2, SuperviseSound
  <1>3. CASE \E p \in Processes : Work(p) \/ Die(p)
    BY <1>3, WorkSound
  <1>4. CASE UNCHANGED vars
    <2>1. TypeOK'
      BY <1>4 DEF vars, storeVars, serverVars, SupervisorIInv, TypeOK
    <2> QED
      BY <1>4, <2>1, OthersKeepWorker DEF vars, serverVars, Running
  <1> QED
    BY <1>1, <1>2, <1>3, <1>4 DEF Next

(* workspace_server.py, start_worker, stop_worker, _supervise_worker: the   *)
(* server has at most one worker at work, stop_worker can find it, and one  *)
(* supervisor thread lives at most, however requests overlap.               *)
THEOREM WorkerKnown == Spec => []SupervisorIInv
  <1> QED
    BY InitSound, NextSound, PTL DEF Spec

(* The property that the run of the server checks.                         *)
THEOREM OneWorker == Spec => []OneKnownWorker
  <1>1. SupervisorIInv => OneKnownWorker
    BY DEF SupervisorIInv
  <1> QED
    BY <1>1, WorkerKnown, PTL
=============================================================================
