-------------------------------- MODULE Timeline -------------------------------
(****************************************************************************)
(* Reverse execution, host/src/timeline.cpp: the recorded run is re-executed*)
(* once with a checkpoint every few main-loop iterations, and a seek runs   *)
(* forward from the nearest checkpoint to the first access or poll that     *)
(* finds the cursor on the wanted event, where it copies the firmware's     *)
(* state.  The recording and the replay are RecordReplay's, of RxPump.      *)
(*                                                                          *)
(* phase is "record", "replay" while the firmware is being re-executed, and *)
(* "idle" between two calls; job is the call in progress.                   *)
(****************************************************************************)
EXTENDS RecordReplay, RxPump, FiniteSets

CONSTANTS
    CheckpointEvery,  \* in main-loop iterations
    Steps,            \* distances step_back and step_forward are asked for
    Thresholds,       \* find_first asks when consumed first reached one of these
    MaxCalls          \* bound on the calls made after open

ASSUME TimelineAssumption ==
    /\ CheckpointEvery \in Nat \ {0} /\ MaxCalls \in Nat
    /\ \A f \in Firmware : f.iters \in Nat \ {0}
    /\ Steps \subseteq Nat /\ Thresholds \subseteq Nat \ {0}

VARIABLES
    checkpoints,      \* [main_iter, cursor, ts, fw], oldest first
    event_count,
    position,
    job,
    answer,           \* what the last call reported
    calls             \* calls made since open

timeline == <<checkpoints, event_count, position, answer, calls>>
allvars == <<vars, timeline, job>>

MainIters == from.iters

NoSnapshot == [event_index |-> -1, ts |-> 0, main_iter |-> 0, fw |-> <<>>]
NoAnswer == [snap |-> NoSnapshot, query |-> 0]

NoJob == [call |-> "none", target |-> 0, iter |-> 0, captured |-> FALSE,
          snap |-> NoSnapshot, query |-> 0, lo |-> 0, hi |-> 0]

TimelineInit ==
    /\ Init
    /\ checkpoints = <<>> /\ event_count = 0 /\ position = 0
    /\ job = NoJob /\ answer = NoAnswer /\ calls = 0

--------------------------------------------------------------------------------
(* One iteration of the firmware at a time.                                  *)

\* rx_pump_run(variant, 1) on the statics the last call left.
RunIteration(f) == FwRestore(FwState(f), f.variant, 1)

\* install: a reset shim, the statics of a checkpoint, the cursor behind it.
Install(state, at, ts) ==
    /\ hal' = Start(FwRestore(state, from.variant, 1))
    /\ cursor' = at /\ now' = ts /\ divergence' = "none"
    /\ step' = 1

\* A slip: the iteration that has just run.
CheckpointBehind(iter, f) ==
    [main_iter |-> iter - 1, cursor |-> cursor, ts |-> now, fw |-> FwState(f)]

CheckpointAt(iter, f) ==
    [main_iter |-> iter, cursor |-> cursor, ts |-> now, fw |-> FwState(f)]

\* A slip: the last checkpoint, wherever the event is.
NearestLast(event_index) == checkpoints[Len(checkpoints)]

\* The last checkpoint at or before an event.
Nearest(event_index) ==
    LET before == {i \in 1 .. Len(checkpoints) : checkpoints[i].cursor <= event_index}
    IN checkpoints[CHOOSE i \in before : \A j \in before : j <= i]

TakeSnapshot(iter) ==
    [event_index |-> job.target, ts |-> now, main_iter |-> iter,
     fw |-> FwState(hal.fw)]

\* A slip: only reads look at the capture point.
MaybeCaptureAtRead ==
    job' = IF /\ job.call \in {"seek", "find"} /\ ~job.captured
              /\ cursor = job.target
              /\ Reading(hal)
           THEN [job EXCEPT !.captured = TRUE, !.snap = TakeSnapshot(job.iter)]
           ELSE job

\* maybe_capture, at the head of read32, write32 and poll_irq.
MaybeCapture ==
    job' = IF /\ job.call \in {"seek", "find"} /\ ~job.captured
              /\ cursor = job.target
              /\ Reading(hal) \/ Writing(hal) \/ Polling(hal)
           THEN [job EXCEPT !.captured = TRUE, !.snap = TakeSnapshot(job.iter)]
           ELSE job

Reexecute ==
    /\ ReplayRead \/ ReplayWrite \/ ReplayIrq \/ ReplayNoIrq \/ ReplayQuiet
    /\ MaybeCapture
    /\ UNCHANGED timeline

IterationEnds == phase = "replay" /\ Halted(hal)

\* The iteration has run and another follows.
NextOne ==
    /\ hal' = [hal EXCEPT !.fw = RunIteration(hal.fw)]
    /\ job' = [job EXCEPT !.iter = @ + 1]
    /\ UNCHANGED <<phase, dev, trace, cursor, now, divergence, path, step, from>>

--------------------------------------------------------------------------------
(* open                                                                      *)

TimelineRecords ==
    /\ RecordRead \/ RecordWrite \/ RecordIrq \/ RecordNoIrq \/ RecordQuiet
    /\ UNCHANGED <<timeline, job>>

\* The recording stops, and open starts its pass with the first checkpoint.
Open ==
    /\ phase = "record" /\ Halted(hal)
    /\ trace' = Append(trace, Event("stop", dev, 0, 0))
    /\ LET reset == FwReset(from.variant, 1) IN
       /\ Install(FwState(reset), 0, 0)
       /\ checkpoints' = <<[main_iter |-> 0, cursor |-> 0, ts |-> 0,
                            fw |-> FwState(reset)]>>
    /\ job' = [NoJob EXCEPT !.call = "open"]
    /\ phase' = "replay"
    /\ UNCHANGED <<dev, path, from, event_count, position, answer, calls>>

OpenGoesOn ==
    /\ IterationEnds /\ job.call = "open" /\ job.iter + 1 < MainIters
    /\ NextOne
    /\ checkpoints' = IF (job.iter + 1) % CheckpointEvery = 0
                      THEN Append(checkpoints, CheckpointAt(job.iter + 1, hal.fw))
                      ELSE checkpoints
    /\ UNCHANGED <<event_count, position, answer, calls>>

OpenEnds ==
    /\ IterationEnds /\ job.call = "open" /\ job.iter + 1 >= MainIters
    /\ event_count' = cursor /\ position' = 0
    /\ job' = NoJob /\ phase' = "idle"
    /\ UNCHANGED <<hal, dev, trace, cursor, now, divergence, path, step, from,
                   checkpoints, answer, calls>>

--------------------------------------------------------------------------------
(* seek, step_back, step_forward, find_first                                 *)

\* A slip: no clamp.
AtMostUnclamped(a, b) == a

AtMost(a, b) == IF a <= b THEN a ELSE b

\* The start of seek(event_index), for the call j.
StartSeek(j, event_index) ==
    LET target == AtMost(event_index, event_count)
        cp == Nearest(target)
    IN /\ Install(cp.fw, cp.cursor, cp.ts)
       /\ job' = [j EXCEPT !.target = target, !.iter = cp.main_iter,
                           !.captured = FALSE, !.snap = NoSnapshot]
       /\ phase' = "replay"
       /\ UNCHANGED <<dev, trace, path, from>>

Called == phase = "idle" /\ calls < MaxCalls /\ calls' = calls + 1

Seek(event_index) ==
    /\ Called
    /\ StartSeek([NoJob EXCEPT !.call = "seek"], event_index)
    /\ UNCHANGED <<checkpoints, event_count, position, answer>>

StepBack(n) == Seek(IF n > position THEN 0 ELSE position - n)
StepForward(n) == Seek(position + n)

\* find_first looks at the end before it bisects.
FindFirst(threshold) ==
    /\ Called
    /\ StartSeek([NoJob EXCEPT !.call = "find", !.query = threshold, !.lo = -1,
                               !.hi = event_count], event_count)
    /\ UNCHANGED <<checkpoints, event_count, position, answer>>

SeekGoesOn ==
    /\ IterationEnds /\ job.call \in {"seek", "find"}
    /\ ~job.captured /\ job.iter + 1 < MainIters
    /\ NextOne
    /\ UNCHANGED timeline

\* The end of seek: the state captured, or the one the run ended in.
SeekEnds ==
    /\ IterationEnds /\ job.call \in {"seek", "find"}
    /\ job.captured \/ job.iter + 1 >= MainIters

SoughtSnapshot == IF job.captured THEN job.snap ELSE TakeSnapshot(MainIters)

Report(found) ==
    /\ answer' = found
    /\ job' = NoJob /\ phase' = "idle"
    /\ UNCHANGED <<hal, dev, trace, cursor, now, divergence, path, step, from>>

SeekReports ==
    /\ SeekEnds /\ job.call = "seek"
    /\ position' = job.target
    /\ Report([snap |-> SoughtSnapshot, query |-> 0])
    /\ UNCHANGED <<checkpoints, event_count, calls>>

Reached(snap, threshold) == snap.fw.consumed >= threshold

\* A probe of find_first is done: at the end (lo = -1), in the middle of the
\* bisection, or at the answer (lo >= hi before the probe).
FindReports ==
    /\ SeekEnds /\ job.call = "find"
    /\ IF job.lo = -1 THEN ~Reached(SoughtSnapshot, job.query) ELSE job.lo >= job.hi
    /\ position' = job.target
    /\ Report([snap |-> IF job.lo = -1 THEN NoSnapshot ELSE SoughtSnapshot,
               query |-> job.query])
    /\ UNCHANGED <<checkpoints, event_count, calls>>

\* Slips: the bisection leaves the middle out above, or keeps it below.
FindSkipsMiddle ==
    /\ SeekEnds /\ job.call = "find"
    /\ IF job.lo = -1 THEN Reached(SoughtSnapshot, job.query) ELSE job.lo < job.hi
    /\ LET holds == Reached(SoughtSnapshot, job.query)
           lo == IF job.lo = -1 THEN 0
                 ELSE IF holds THEN job.lo ELSE job.target + 1
           hi == IF job.lo # -1 /\ holds THEN job.target - 1 ELSE job.hi
       IN StartSeek([job EXCEPT !.lo = lo, !.hi = hi], lo + (hi - lo) \div 2)
    /\ position' = job.target
    /\ UNCHANGED <<checkpoints, event_count, answer, calls>>

FindKeepsMiddle ==
    /\ SeekEnds /\ job.call = "find"
    /\ IF job.lo = -1 THEN Reached(SoughtSnapshot, job.query) ELSE job.lo < job.hi
    /\ LET holds == Reached(SoughtSnapshot, job.query)
           lo == IF job.lo = -1 THEN 0 ELSE IF holds THEN job.lo ELSE job.target
           hi == IF job.lo # -1 /\ holds THEN job.target ELSE job.hi
       IN StartSeek([job EXCEPT !.lo = lo, !.hi = hi], lo + (hi - lo) \div 2)
    /\ position' = job.target
    /\ UNCHANGED <<checkpoints, event_count, answer, calls>>

FindGoesOn ==
    /\ SeekEnds /\ job.call = "find"
    /\ IF job.lo = -1 THEN Reached(SoughtSnapshot, job.query) ELSE job.lo < job.hi
    /\ LET holds == Reached(SoughtSnapshot, job.query)
           lo == IF job.lo = -1 THEN 0
                 ELSE IF holds THEN job.lo ELSE job.target + 1
           hi == IF job.lo # -1 /\ holds THEN job.target ELSE job.hi
       IN StartSeek([job EXCEPT !.lo = lo, !.hi = hi], lo + (hi - lo) \div 2)
    /\ position' = job.target
    /\ UNCHANGED <<checkpoints, event_count, answer, calls>>

--------------------------------------------------------------------------------
UserCalls ==
    \/ \E k \in 0 .. event_count + 1 : Seek(k)
    \/ \E n \in Steps : StepBack(n) \/ StepForward(n)
    \/ \E c \in Thresholds : FindFirst(c)

Works ==
    \/ Reexecute
    \/ OpenGoesOn \/ OpenEnds
    \/ SeekGoesOn \/ SeekReports \/ FindReports \/ FindGoesOn

TimelineNext == TimelineRecords \/ Open \/ Works \/ UserCalls

TimelineSpec == TimelineInit /\ [][TimelineNext]_allvars

\* A call, once made, is executed to its end; nobody has to make one.
FairTimelineSpec ==
    TimelineSpec /\ WF_allvars(TimelineRecords \/ Open \/ Works)
--------------------------------------------------------------------------------
(* What a timeline promises, against the machines the recording went through.*)

\* The recording at the head of main-loop iteration iter.
HeadOf(iter) ==
    CHOOSE j \in 1 .. Len(path) :
        /\ path[j].m.fw.pc = "top" /\ path[j].m.fw.iters = MainIters - iter
        /\ path[j].m.fw.isr = "none"

Accesses(m) == Reading(m) \/ Writing(m) \/ Polling(m)

\* The firmware's state where the recording, from position j on, first had k
\* events behind it and an access or a poll to make; at its end, if nowhere.
FirstWith(k, j) ==
    LET there == {i \in j .. Len(path) : path[i].events = k /\ Accesses(path[i].m)}
    IN IF there = {} THEN FwState(path[Len(path)].m.fw)
       ELSE FwState(path[CHOOSE i \in there : \A h \in there : i <= h].m.fw)

Answered == answer.snap.event_index >= 0

TimelineTypeOK ==
    /\ phase \in {"record", "replay", "idle"}
    /\ position \in 0 .. event_count /\ calls \in 0 .. MaxCalls
    /\ job.call \in {"none", "open", "seek", "find"}
    /\ job.target \in 0 .. event_count /\ job.iter \in 0 .. MainIters
    /\ \A i \in 1 .. Len(checkpoints) : checkpoints[i].main_iter \in 0 .. MainIters - 1

\* A checkpoint is a complete description (docs/design/reverse-execution.md): it
\* is the recording at the head of its iteration, with the cursor and the clock
\* the recording had there.
CheckpointsAreComplete ==
    \A i \in 1 .. Len(checkpoints) :
        LET cp == checkpoints[i]
            head == path[HeadOf(cp.main_iter)]
        IN /\ cp.fw = FwState(head.m.fw) /\ cp.cursor = head.events
           /\ cp.ts = IF cp.cursor = 0 THEN 0 ELSE trace[cp.cursor].ts
           /\ head.m.mask = 0 /\ ~head.m.inIsr

\* Whatever was called before, a seek answers with the recording's own state: the
\* first, from its checkpoint on, in which the event was about to be served.
SeekIsExact ==
    Answered =>
        LET k == answer.snap.event_index
            cp == Nearest(k)
        IN /\ answer.snap.fw = FirstWith(k, HeadOf(cp.main_iter))
           /\ answer.snap.ts = IF k = 0 THEN 0 ELSE trace[k].ts

\* "neither work done nor the clock ever increases while moving backwards"
\* (reverse-execution.md).
BackwardsUndoesWork ==
    [][Answered /\ Answered' /\ answer'.snap.event_index <= answer.snap.event_index =>
         /\ answer'.snap.fw.consumed <= answer.snap.fw.consumed
         /\ answer'.snap.ts <= answer.snap.ts]_allvars

\* find_first, of a condition that latches, reports the first event at which a
\* seek would have seen it, and reports nothing only if the run never gets there.
FindsTheFirst ==
    answer.query > 0 =>
        IF Answered
        THEN LET k == answer.snap.event_index IN
             /\ Reached(answer.snap, answer.query)
             /\ k > 0 => FirstWith(k - 1, HeadOf(Nearest(k - 1).main_iter)).consumed
                             < answer.query
        ELSE path[Len(path)].m.fw.consumed < answer.query

\* Every call returns: no seek, and no bisection, runs forever.
CallsReturn == phase = "replay" ~> phase = "idle"
================================================================================
