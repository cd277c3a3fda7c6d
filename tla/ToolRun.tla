------------------------------- MODULE ToolRun -------------------------------
(* One run of a tool: src/core/local_tool_runner.c (the bounded runner),    *)
(* document_tool_runner.c and tool_process.c (GSubprocess without a limit   *)
(* of time). The caller is one thread, beside it the tool, the processes it *)
(* starts, and whoever asks to cancel. A stream is a count of bytes.        *)
EXTENDS Naturals, FiniteSets

CONSTANTS
  Tool,        \* the process the caller starts
  Descendants, \* those the tool may start
  Streams,     \* its standard output and its standard error
  KeptBytes,   \* bytes kept of a stream
  MaxWritten   \* bound: bytes written to a stream

ASSUME RunAssumption ==
  /\ Tool \notin Descendants
  /\ KeptBytes \in Nat \ {0} /\ MaxWritten \in Nat

VARIABLES
  proc,  \* process -> how it lives, whether in the tool's session, its ends of the streams
  pipe,  \* stream -> bytes not read yet
  wrote, \* stream -> bytes written
  caller, \* the local variables of the caller
  cancelled, \* the cancellation was asked for
  late   \* the time limit has passed

runVars == <<proc, pipe, wrote, caller, cancelled, late>>

Processes == {Tool} \cup Descendants
Kinds     == {"local", "document", "process"}
Overflow  == "OUTPUT_LIMIT"

Absent  == [life |-> "none", group |-> FALSE, ends |-> {}, code |-> "none"]
Living(p)  == proc[p].life \in {"fork", "alive"}
Writers(s) == {p \in Processes : Living(p) /\ s \in proc[p].ends}
(* What kill(-pid) reaches: a zombie still belongs to its group.            *)
Group      == {p \in Processes : proc[p].group /\ proc[p].life \notin {"none", "gone"}}

(* A leader stays a zombie until it is waited for; others are reaped.       *)
Dead(p, code) ==
  [proc[p] EXCEPT !.life = IF p = Tool THEN "zombie" ELSE "gone", !.ends = {}, !.code = code]
Killed(those) ==
  [p \in Processes |-> IF p \in those /\ Living(p) THEN Dead(p, "signal") ELSE proc[p]]

(* swept: history, a group that existed was signalled.                      *)
NewRun(k) ==
  [kind |-> k, swept |-> FALSE, at |-> "idle", stopping |-> FALSE, why |-> "none", reaped |-> FALSE,
   waited |-> TRUE, kept |-> [s \in Streams |-> 0],
   read |-> [s \in Streams |-> "open"], state |-> "none"]

RunInit ==
  /\ proc = [p \in Processes |-> Absent]
  /\ pipe = [s \in Streams |-> 0] /\ wrote = [s \in Streams |-> 0]
  /\ cancelled = FALSE /\ late = FALSE
  /\ \E k \in Kinds : caller = NewRun(k)

In(k, step) == caller.kind \in k /\ caller.at = step
Gsub == {"document", "process"}
Became(step) == caller' = [caller EXCEPT !.at = step]
Returned(state) == caller' = [caller EXCEPT !.at = "done", !.state = state]
Same == UNCHANGED <<pipe, wrote, cancelled, late>>

-----------------------------------------------------------------------------
(* The tool and its descendants                                             *)

(* setsid of local_tool_child, before the exec.                             *)
OwnSession ==
  /\ proc[Tool].life = "fork" /\ ~proc[Tool].group
  /\ proc' = [proc EXCEPT ![Tool].group = TRUE]
  /\ Same /\ UNCHANGED caller

Exec ==
  /\ proc[Tool].life = "fork" /\ proc[Tool].group
  /\ proc' = [proc EXCEPT ![Tool].life = "alive"]
  /\ Same /\ UNCHANGED caller

(* local_tool_child_fail: the reason goes through a pipe of its own.        *)
PrepareFails ==
  /\ proc[Tool].life = "fork"
  /\ proc' = [proc EXCEPT ![Tool] = Dead(Tool, "prepare")]
  /\ Same /\ UNCHANGED caller

Fork(p, d) ==
  /\ proc[p].life = "alive" /\ proc[d] = Absent
  /\ proc' = [proc EXCEPT ![d] = proc[p]]
  /\ Same /\ UNCHANGED caller

(* A descendant that becomes a session of its own leaves the group.         *)
LeaveGroup(d) ==
  /\ proc[d].life = "alive" /\ proc[d].group
  /\ proc' = [proc EXCEPT ![d].group = FALSE]
  /\ Same /\ UNCHANGED caller

WriteTo(p, s) ==
  /\ proc[p].life = "alive" /\ s \in proc[p].ends /\ wrote[s] < MaxWritten
  /\ wrote' = [wrote EXCEPT ![s] = @ + 1]
  /\ pipe' = [pipe EXCEPT ![s] = @ + 1]
  /\ UNCHANGED <<proc, caller, cancelled, late>>

CloseEnd(p, s) ==
  /\ proc[p].life = "alive" /\ s \in proc[p].ends
  /\ proc' = [proc EXCEPT ![p].ends = @ \ {s}]
  /\ Same /\ UNCHANGED caller

Exit(p) ==
  /\ proc[p].life = "alive"
  /\ \E code \in IF p = Tool THEN {"zero", "other", "signal"} ELSE {"zero"} :
       proc' = [proc EXCEPT ![p] = Dead(p, code)]
  /\ Same /\ UNCHANGED caller

(* The cancellable, or the flag of the worker's signal handler.             *)
Ask ==
  /\ ~cancelled /\ caller.at # "done"
  /\ cancelled' = TRUE
  /\ UNCHANGED <<proc, pipe, wrote, caller, late>>

TimeIsUp ==
  /\ ~late /\ caller.kind = "local" /\ caller.at \notin {"idle", "done"}
  /\ late' = TRUE
  /\ UNCHANGED <<proc, pipe, wrote, caller, cancelled>>

-----------------------------------------------------------------------------
(* local_tool_runner_run                                                    *)

LRefused ==
  /\ In({"local"}, "idle")
  /\ \/ \E state \in {"NOT_FOUND", "error"} : Returned(state)
     \/ cancelled /\ Returned("CANCELLED")
  /\ UNCHANGED <<proc, pipe, wrote, cancelled, late>>

LFork ==
  /\ In({"local"}, "idle")
  /\ proc' = [proc EXCEPT ![Tool] = [Absent EXCEPT !.life = "fork", !.ends = Streams]]
  /\ Became("look")
  /\ Same

Drained == \A s \in Streams : caller.read[s] = "eof"

(* Fault: a run that says nothing is not asked whether its time is over.    *)
LLookPatient ==
  /\ In({"local"}, "look") /\ ~(caller.reaped /\ Drained)
  /\ LET stop == caller.stopping \/ cancelled
     IN  caller' = [caller EXCEPT !.stopping = stop, !.at = IF stop THEN "term" ELSE "read",
                            !.why = IF caller.stopping \/ ~cancelled THEN @ ELSE "CANCELLED"]
  /\ UNCHANGED <<proc, pipe, wrote, cancelled, late>>

(* The head of the loop: is it over, and if not, must it be stopped?        *)
LLook ==
  /\ In({"local"}, "look") /\ ~(caller.reaped /\ Drained)
  /\ LET stop == caller.stopping \/ cancelled \/ late
     IN  caller' = [caller EXCEPT !.stopping = stop, !.at = IF stop THEN "term" ELSE "read",
                            !.why = IF caller.stopping THEN @ ELSE
                                    IF cancelled THEN "CANCELLED" ELSE
                                    IF late THEN "TIMEOUT" ELSE @]
  /\ UNCHANGED <<proc, pipe, wrote, cancelled, late>>

(* Those SIGTERM reaches: the group or, while there is none, the child.     *)
Reached == IF Group # {} THEN Group ELSE {Tool}

(* Fault: only the child is signalled.                                      *)
LTermChild ==
  /\ In({"local"}, "term")
  /\ proc' = Killed({Tool})
  /\ caller' = [caller EXCEPT !.at = "read", !.swept = @ \/ Group # {}]
  /\ Same

(* local_tool_terminate_group: SIGTERM, which a process may survive,        *)
LTerm ==
  /\ In({"local"}, "term")
  /\ \E dying \in SUBSET Reached : proc' = Killed(dying)
  /\ caller' = [caller EXCEPT !.at = "grace", !.swept = @ \/ Group # {}]
  /\ Same

(* and SIGKILL once the time of grace is over, unless nobody is left.       *)
LGrace ==
  /\ In({"local"}, "grace")
  /\ \/ Group = {} /\ UNCHANGED proc
     \/ Group # {} /\ proc' = Killed(Group)
  /\ Became("read")
  /\ Same

Room(s)  == KeptBytes - caller.kept[s]
Taken(s) == IF pipe[s] <= Room(s) THEN pipe[s] ELSE Room(s)
Spills(s) == caller.read[s] = "open" /\ pipe[s] > Room(s)

(* Fault: what does not fit is dropped silently.                            *)
LReadQuiet ==
  /\ In({"local"}, "read")
  /\ caller' = [caller EXCEPT !.at = "reap", !.kept = [s \in Streams |-> @[s] + Taken(s)],
       !.read = [s \in Streams |-> IF Writers(s) = {} THEN "eof" ELSE @[s]]]
  /\ pipe' = [s \in Streams |-> 0]
  /\ UNCHANGED <<proc, wrote, cancelled, late>>

(* local_tool_capture_read of both pipes: everything there is is read; what *)
(* exceeds the limit stops the run, whatever had stopped it before.         *)
LRead ==
  /\ In({"local"}, "read")
  /\ LET over == \E s \in Streams : Spills(s)
     IN  caller' = [caller EXCEPT !.at = "reap",
           !.kept = [s \in Streams |-> @[s] + Taken(s)],
           !.read = [s \in Streams |-> IF Writers(s) = {} /\ ~Spills(s) THEN "eof" ELSE @[s]],
           !.stopping = @ \/ over, !.why = IF over THEN Overflow ELSE @]
  /\ pipe' = [s \in Streams |-> 0]
  /\ UNCHANGED <<proc, wrote, cancelled, late>>

(* waitpid with WNOHANG                                                     *)
LReap ==
  /\ In({"local"}, "reap")
  /\ LET now == proc[Tool].life = "zombie"
     IN  /\ proc' = IF now THEN [proc EXCEPT ![Tool].life = "gone"] ELSE proc
         /\ caller' = [caller EXCEPT !.at = "look", !.reaped = @ \/ now]
  /\ Same

(* The order of the tests that decide what the run was.                     *)
LResult ==
  /\ In({"local"}, "look") /\ caller.reaped /\ Drained
  /\ LET code == proc[Tool].code
     IN  Returned(IF code = "prepare" THEN "PREPARATION_ERROR" ELSE
                  IF caller.stopping THEN caller.why ELSE
                  IF code = "signal" THEN "SIGNALED" ELSE
                  IF code = "zero" THEN "EXITED" ELSE "NONZERO")
  /\ UNCHANGED <<proc, pipe, wrote, cancelled, late>>

LNext ==
  \/ LRefused \/ LFork \/ LLook \/ LTerm \/ LGrace \/ LRead \/ LReap \/ LResult

-----------------------------------------------------------------------------
(* document_tool_runner_capture and tool_process_run: GSubprocess           *)

GRefused ==
  /\ In(Gsub, "idle")
  /\ \/ Returned("UNAVAILABLE")
     \/ /\ caller.kind = "process" /\ cancelled
        /\ Returned("CANCELLED")
  /\ UNCHANGED <<proc, pipe, wrote, cancelled, late>>

(* The spawn returns after the exec; the tool stays in the caller's group.  *)
GSpawn ==
  /\ In(Gsub, "idle") /\ (caller.kind = "process" => ~cancelled)
  /\ proc' = [proc EXCEPT ![Tool] = [Absent EXCEPT !.life = "alive", !.ends = Streams]]
  /\ Became("wait")
  /\ Same

(* document_tool_runner_drain_stream: a thread for each stream, which reads *)
(* on past the limit; g_subprocess_communicate keeps everything.            *)
Draining ==
  \/ caller.kind = "document" /\ caller.at \in {"wait", "kill", "final", "join"}
  \/ caller.kind = "process" /\ caller.at \in {"wait", "join"} /\ caller.waited

GDrain(s) ==
  /\ Draining
  /\ caller.read[s] \in {"open", "cut"}
  /\ \/ /\ pipe[s] > 0
        /\ LET cut == caller.kind = "document" /\ (Spills(s) \/ caller.read[s] = "cut")
           IN  caller' = [caller EXCEPT !.kept[s] = @ + (IF cut THEN Taken(s) ELSE pipe[s]),
                                  !.read[s] = IF cut THEN "cut" ELSE @]
        /\ pipe' = [pipe EXCEPT ![s] = 0]
     \/ /\ pipe[s] = 0 /\ Writers(s) = {}
        /\ caller' = [caller EXCEPT !.read[s] = IF @ = "cut" THEN "truncated" ELSE "eof"]
        /\ UNCHANGED pipe
     \/ /\ cancelled /\ caller.kind = "document"
        /\ caller' = [caller EXCEPT !.read[s] = "error"]
        /\ UNCHANGED pipe
  /\ UNCHANGED <<proc, wrote, cancelled, late>>

(* Both wait for the process: GLib has it reaped when it ends.              *)
GWaited ==
  /\ In(Gsub, "wait") /\ proc[Tool].life = "zombie"
  /\ proc' = [proc EXCEPT ![Tool].life = "gone"]
  /\ Became("join")
  /\ Same

(* The wait of the one, the communication of the other is cancelled.        *)
GCancelled ==
  /\ cancelled /\ caller.waited
  /\ In(Gsub, "wait") \/ In({"process"}, "join")
  /\ caller' = [caller EXCEPT !.at = "kill", !.waited = FALSE]
  /\ UNCHANGED <<proc, pipe, wrote, cancelled, late>>

(* g_subprocess_force_exit kills the tool alone,                            *)
GKill ==
  /\ In(Gsub, "kill")
  /\ proc' = Killed({Tool})
  /\ Became("final")
  /\ Same

(* and the wait that follows cannot be cancelled.                           *)
GFinalWait ==
  /\ In(Gsub, "final") /\ ~Living(Tool)
  /\ proc' = [proc EXCEPT ![Tool].life = "gone"]
  /\ Became("join")
  /\ Same

Joined ==
  \/ caller.kind = "process" /\ ~caller.waited
  \/ \A s \in Streams : caller.read[s] \in {"eof", "truncated", "error"}

(* Fault: a stream that was cut counts as read.                             *)
GResultBlind ==
  /\ In(Gsub, "join") /\ Joined
  /\ Returned(IF ~caller.waited THEN "CANCELLED" ELSE
              IF proc[Tool].code = "zero" THEN "SUCCESS" ELSE "FAILED")
  /\ UNCHANGED <<proc, pipe, wrote, cancelled, late>>

(* Both threads are joined; a communication that failed has none.           *)
GResult ==
  /\ In(Gsub, "join") /\ Joined
  /\ Returned(IF ~caller.waited \/ \E s \in Streams : caller.read[s] = "error" THEN "CANCELLED" ELSE
              IF \E s \in Streams : caller.read[s] = "truncated" THEN "PARTIAL" ELSE
              IF proc[Tool].code = "zero" THEN "SUCCESS" ELSE "FAILED")
  /\ UNCHANGED <<proc, pipe, wrote, cancelled, late>>

GNext == GRefused \/ GSpawn \/ GWaited \/ GCancelled \/ GKill \/ GFinalWait \/ GResult

-----------------------------------------------------------------------------
ToolActs ==
  \/ OwnSession \/ Exec \/ PrepareFails
  \/ \E p \in Processes :
       \/ Exit(p)
       \/ \E d \in Descendants : Fork(p, d)
       \/ \E s \in Streams : WriteTo(p, s) \/ CloseEnd(p, s)
  \/ \E d \in Descendants : LeaveGroup(d)

RunNext ==
  \/ ToolActs \/ Ask \/ TimeIsUp
  \/ LNext \/ GNext \/ \E s \in Streams : GDrain(s)

(* The caller, its threads, its child up to the exec and the clock go on;   *)
(* a tool need not do anything.                                             *)
RunFairness ==
  /\ WF_runVars(OwnSession \/ Exec)
  /\ WF_runVars(LNext) /\ WF_runVars(GNext) /\ WF_runVars(TimeIsUp)
  /\ \A s \in Streams : WF_runVars(GDrain(s))

RunSpec == RunInit /\ [][RunNext]_runVars /\ RunFairness

-----------------------------------------------------------------------------
RunTypeOK ==
  /\ proc \in [Processes -> [life : {"none", "fork", "alive", "zombie", "gone"},
        group : BOOLEAN, ends : SUBSET Streams,
        code : {"none", "prepare", "zero", "other", "signal"}]]
  /\ pipe \in [Streams -> 0 .. MaxWritten] /\ wrote \in [Streams -> 0 .. MaxWritten]
  /\ cancelled \in BOOLEAN /\ late \in BOOLEAN
  /\ caller.at \in {"idle", "look", "term", "grace", "read", "reap", "wait", "kill", "final",
                 "join", "done"}

Over == caller.at = "done"

(* Whatever ended it, a run that returned has waited for its process.       *)
NoChildLeft == Over => proc[Tool].life \in {"none", "gone"}

(* A run that was stopped (time, cancellation, limit of output) leaves      *)
(* nobody alive in the session it made, unless the stop came before the     *)
(* session: the signal then goes to the child, whose handlers are still     *)
(* the caller's, and a tool that ends at once leaves its descendants.       *)
StoppedIsDead ==
  Over /\ caller.swept =>
    \A p \in Processes : proc[p].group => ~Living(p)

(* A result that is not marked as stopped or cut holds every byte written   *)
(* by anybody, and a success is one; each mark has its cause.               *)
SaysWhatWas ==
  Over =>
    /\ caller.state \in {"EXITED", "SUCCESS"} => proc[Tool].code = "zero"
    /\ caller.state \in {"EXITED", "NONZERO", "SIGNALED", "SUCCESS", "FAILED"} =>
         \A s \in Streams : caller.kept[s] = wrote[s] /\ Writers(s) = {}
    /\ caller.state = "CANCELLED" => cancelled
    /\ caller.state = "TIMEOUT" => late
    /\ caller.state \in {Overflow, "PARTIAL"} => \E s \in Streams : wrote[s] > KeptBytes

(* What is kept of a stream of a limited run never exceeds its limit.       *)
KeptBounded ==
  caller.kind # "process" => \A s \in Streams : caller.kept[s] <= KeptBytes

RunIInv == RunTypeOK /\ NoChildLeft /\ StoppedIsDead /\ SaysWhatWas /\ KeptBounded

(* A process outside the group that holds a stream keeps a run open: the    *)
(* bounded runner excludes who leaves its session, and the others, which    *)
(* have no limit of time, everybody, until they are cancelled.              *)
Escaped == \E p \in Processes : Living(p) /\ ~proc[p].group /\ proc[p].life = "alive"
                                  /\ proc[p].ends # {}

(* What a run promises: the invariant at all times and, again and again,    *)
(* that it is over. A bounded run ends, whatever the tool and its           *)
(* descendants do inside the session; the other two end once they are       *)
(* cancelled.                                                               *)
RunBounded ==
  [](/\ RunIInv
     /\ <>(caller.kind = "local" => caller.at \in {"idle", "done"} \/ Escaped)
     /\ <>(caller.kind # "local" /\ cancelled => caller.at \in {"idle", "done"}))

(* A signal never goes to a number that is nobody's any more. It does: the  *)
(* child was waited for, its group is empty, and a pipe is not drained yet. *)
SignalsItsOwn == In({"local"}, "term") => Group # {} \/ proc[Tool].life # "gone"
=============================================================================
