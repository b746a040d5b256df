----------------------------- MODULE CrashSweep -----------------------------
(***************************************************************************)
(* The programs that use the emulator.  In mode "test" a test calls it     *)
(* directly.  In mode "crash" (tools/fffs_crash_sweep.c) and mode "api"    *)
(* (tools/fffs_api_crash_sweep.c) a sweep runs a workload and, for every   *)
(* program and erase of an operation, repeats the operation on a clone     *)
(* with a failure injected there, remounts, and expects the namespace of   *)
(* before or of after the operation.  The file system is a client that     *)
(* issues the calls of its operation in order and stops at the first error.*)
(***************************************************************************)
EXTENDS VerifyFlash

CONSTANTS
    Modes,      \* programs to run: a subset of {"test", "crash", "api"}
    Workload,   \* operations a sweep may run
    TestSpans,  \* <<offset, size>> arguments of the direct calls
    TestData,   \* data of the direct calls: the set of bytes left at 1
    MaxPoints,  \* SWEEP_MAX_MUTATIONS_PER_OP, API_SWEEP_MAX_CRASH_POINTS
    MaxCalls,   \* bound: calls of a test
    MaxSeq      \* bound: calls after which a sweep starts no operation

ASSUME SweepAssumption ==
    /\ Modes \subseteq {"test", "crash", "api"}
    /\ MaxPoints \in Nat /\ MaxCalls \in Nat /\ MaxSeq \in Nat

VARIABLES
    mode,       \* which program runs
    pc,         \* where it is
    flash,      \* the device the program works on
    last,       \* the result and the committed bytes of the last direct call
    saved,      \* the snapshot of a test, or the clone a sweep works from
    attempt,    \* the clone the current pass runs on
    op,         \* the operation under test
    calls,      \* calls it has still to issue
    points,     \* mutations still to be failed, <<sequence, phase>>
    crossed     \* history: images between the calls of the recorded operation

vars == <<mode, pc, flash, last, saved, attempt, op, calls, points, crossed>>

Program(off, n, ones) == [type |-> "program", off |-> off, n |-> n, ones |-> ones]
Erase(off, n) == [type |-> "erase", off |-> off, n |-> n, ones |-> {}]

(***************************************************************************)
(* The operations of the client.  write_early and erase_live are the       *)
(* mistakes a sweep is there to find: an index record before its data, and *)
(* the erase of data that is in use.                                       *)
(***************************************************************************)
Operations ==
    {[kind |-> kind, file |-> k] : kind \in {"write", "write_early", "delete"}, k \in Files}
        \cup {[kind |-> kind, file |-> 0] : kind \in {"reclaim", "erase_live"}}

CallsOf(o) ==
    LET data == Program(SectorSize + LiveByte(o.file), 2, {})
        entry == Program(LiveByte(o.file), 2, {DeadByte(o.file)})
    IN  CASE o.kind = "write" -> <<data, entry>>
          [] o.kind = "write_early" -> <<entry, data>>
          [] o.kind = "delete" -> <<Program(LiveByte(o.file), 2, {})>>
          [] o.kind \in {"reclaim", "erase_live"} -> <<Erase(SectorSize, SectorSize)>>

\* apply_model and model_apply_step: the namespace after the operation.
Applied(view, o) ==
    CASE o.kind \in {"write", "write_early"} -> view \cup {<<o.file, {}>>}
      [] o.kind = "delete" -> {v \in view : v[1] # o.file}
      [] o.kind \in {"reclaim", "erase_live"} -> view

\* What the client does in the state it is in.
Sensible(o, image) ==
    LET live == {v[1] : v \in View(image)}
    IN  CASE o.kind \in {"write", "write_early"} -> LiveByte(o.file) \in image
                                                    /\ DataBytes(o.file) \subseteq image
          [] o.kind = "delete" -> o.file \in live
          [] o.kind = "reclaim" -> live = {}
          [] o.kind = "erase_live" -> live # {}

NoOp == [kind |-> "none", file |-> 0]
NoLast == [result |-> "ok", committed |-> 0]

Init ==
    /\ mode \in Modes
    /\ pc = IF mode = "test" THEN "test" ELSE "idle"
    /\ flash = NewDevice /\ saved = NewDevice /\ attempt = NewDevice
    /\ last = NoLast /\ op = NoOp
    /\ calls = << >> /\ points = << >> /\ crossed = {}

-----------------------------------------------------------------------------
(* Direct calls *)

Outcomes(d, c) ==
    CASE c.type = "read" -> FlashRead(d, c.off, c.n)
      [] c.type = "blank" -> FlashBlankCheck(d, c.off, c.n)
      [] c.type = "program" -> FlashProgram(d, c.off, c.n, c.ones)
      [] c.type = "erase" -> FlashErase(d, c.off, c.n)
      [] c.type = "stage" -> FlashStageProgram(d, c.off, c.n, c.ones)
      [] c.type = "commit" -> FlashCommitStaged(d)
      [] c.type = "drop" -> FlashDropStaged(d)
      [] c.type = "corrupt" -> FlashCorrupt(d, c.off, c.n, c.ones, FALSE)
      [] c.type = "xor" -> FlashCorrupt(d, c.off, c.n, c.ones, TRUE)

TestCall ==
    /\ pc = "test" /\ flash.seq < MaxCalls
    /\ \E type \in OpTypes \cup {"xor"}, span \in TestSpans, ones \in TestData :
         \E o \in Outcomes(flash, [type |-> type, off |-> span[1], n |-> span[2], ones |-> ones]) :
            /\ flash' = o.dev
            /\ last' = [result |-> o.result, committed |-> o.committed]
    /\ UNCHANGED <<mode, pc, saved, attempt, op, calls, points, crossed>>

\* ffsv_flash_set_failure on a call to come, and ffsv_flash_set_fault_sampler.
TestSetFailure ==
    /\ pc = "test" /\ flash.seq < MaxCalls
    /\ flash.failure = NoFailure /\ flash.sampler = NoSampler
    /\ \/ \E phase \in {"before", "middle", "after"}, writeMode \in {"prefix", "random"} :
            flash' = [flash EXCEPT !.failure =
                [ops |-> OpTypes, sequence |-> flash.seq, phase |-> phase,
                 partial |-> 0, mode |-> writeMode]]
       \/ flash' = [flash EXCEPT !.sampler =
                [ops |-> {"program", "commit", "erase"}, allowed |-> {View(flash.image)}]]
    /\ UNCHANGED <<mode, pc, last, saved, attempt, op, calls, points, crossed>>

TestClearFailure ==
    /\ pc = "test"
    /\ flash.failure # NoFailure \/ flash.sampler # NoSampler
    /\ flash.seq > flash.failure.sequence
    /\ flash' = [flash EXCEPT !.failure = NoFailure, !.sampler = NoSampler]
    /\ UNCHANGED <<mode, pc, last, saved, attempt, op, calls, points, crossed>>

TestSnapshot ==
    /\ pc = "test" /\ saved # Reopen(Snapshot(flash))
    /\ saved' = Reopen(Snapshot(flash))
    /\ UNCHANGED <<mode, pc, flash, last, attempt, op, calls, points, crossed>>

TestReopen ==
    /\ pc = "test"
    /\ flash' = saved
    /\ UNCHANGED <<mode, pc, last, saved, attempt, op, calls, points, crossed>>

-----------------------------------------------------------------------------
(* The sweeps *)

\* A mount reads the device (its repairs are not modelled here).
Mounted(d) == (CHOOSE o \in FlashRead(d, 0, SectorSize) : TRUE).dev

Before == View(saved.image)
After == Applied(Before, op)
Acceptable(image) == View(image) \in {Before, After}

\* The device an operation is first run on: a mounted clone, or the device of
\* the workload itself.
Recorder == IF mode = "crash" THEN Mounted(Branch(flash)) ELSE flash

\* run_workload and run_steps clone the device, then run the operation once,
\* under the fault sampler if sampling is asked for.
SweepBegin ==
    /\ pc = "idle" /\ flash.seq < MaxSeq
    /\ \E o \in Workload :
        /\ Sensible(o, flash.image)
        /\ op' = o /\ calls' = CallsOf(o)
        /\ saved' = Branch(flash)
        /\ \E sampler \in {NoSampler, [ops |-> {"program", "commit", "erase"},
                                      allowed |-> {Before', After'}]} :
              attempt' = [Recorder EXCEPT !.sampler = sampler]
    /\ crossed' = {flash.image}
    /\ pc' = "record"
    /\ UNCHANGED <<mode, flash, last, points>>

RecordCall ==
    /\ pc = "record" /\ calls # << >>
    /\ \E o \in Outcomes(attempt, Head(calls)) :
        /\ attempt' = o.dev
        /\ IF o.result = "ok"
           THEN calls' = Tail(calls) /\ pc' = pc /\ crossed' = crossed \cup {o.dev.image}
           ELSE pc' = "failed" /\ UNCHANGED <<calls, crossed>>
    /\ UNCHANGED <<mode, flash, last, saved, op, points>>

IsMutation(r) == r.type \in {"program", "erase"}

\* Mutant: the first mutation of the operation is skipped.
MutationsButFirst(log, first) == SelectSeq(SubSeq(log, first + 2, Len(log)), IsMutation)

\* collect_mutations and collect_crash_points: the logged mutations from first.
Mutations(log, first) == SelectSeq(SubSeq(log, first + 1, Len(log)), IsMutation)

\* Each mutation is failed before and after, or only after.
Points(muts) ==
    IF mode = "api" THEN [i \in DOMAIN muts |-> <<muts[i].sequence, "after">>]
    ELSE [i \in 1 .. 2 * Len(muts) |->
            <<muts[(i + 1) \div 2].sequence, IF i % 2 = 1 THEN "before" ELSE "after">>]

\* The points array is of one operation, or of the whole workload.
PointsUsed == Len(Mutations(attempt.log, IF mode = "api" THEN 0 ELSE Len(Recorder.log)))

RecordEnd ==
    /\ pc = "record" /\ calls = << >>
    /\ IF PointsUsed > MaxPoints
       THEN pc' = "failed" /\ UNCHANGED points
       ELSE pc' = "replay" /\ points' = Points(Mutations(attempt.log, Len(Recorder.log)))
    /\ flash' = IF mode = "api" THEN [attempt EXCEPT !.sampler = NoSampler] ELSE flash
    /\ UNCHANGED <<mode, last, saved, attempt, op, calls, crossed>>

\* Mutant: the failure is set before the mount, on the clone as it is.
AttemptBeginUnmounted ==
    /\ pc = "replay" /\ points # << >>
    /\ attempt' = [Branch(saved) EXCEPT !.failure =
                [ops |-> {"program", "erase"}, sequence |-> points[1][1],
                 phase |-> points[1][2], partial |-> 0, mode |-> "prefix"]]
    /\ calls' = CallsOf(op)
    /\ pc' = "attempt"
    /\ UNCHANGED <<mode, flash, last, saved, op, points, crossed>>

\* One pass of sweep_op_crashes, or verify_cow_crash_point: a clone of the
\* device as it was, with a failure at the recorded sequence number.
AttemptBegin ==
    /\ pc = "replay" /\ points # << >>
    /\ LET clone == IF mode = "crash" THEN Mounted(Branch(saved)) ELSE Branch(saved)
       IN  attempt' = [clone EXCEPT !.failure =
                [ops |-> {"program", "erase"}, sequence |-> points[1][1],
                 phase |-> points[1][2], partial |-> 0, mode |-> "prefix"]]
    /\ calls' = CallsOf(op)
    /\ pc' = "attempt"
    /\ UNCHANGED <<mode, flash, last, saved, op, points, crossed>>

AttemptCall ==
    /\ pc = "attempt" /\ calls # << >>
    /\ \E o \in Outcomes(attempt, Head(calls)) :
        /\ attempt' = o.dev
        /\ calls' = IF o.result = "ok" THEN Tail(calls) ELSE << >>
    /\ UNCHANGED <<mode, pc, flash, last, saved, op, points, crossed>>

LogHasInjected(log, sequence) ==
    \E i \in DOMAIN log : log[i].sequence = sequence /\ log[i].injected

\* The failure must have happened, and the remounted namespace be that of
\* before or of after the operation.
AttemptCheck ==
    /\ pc = "attempt" /\ calls = << >>
    /\ attempt' = Mounted([attempt EXCEPT !.failure = NoFailure])
    /\ IF LogHasInjected(attempt.log, points[1][1]) /\ Acceptable(attempt.image)
       THEN pc' = "replay" /\ points' = Tail(points)
       ELSE pc' = "failed" /\ UNCHANGED points
    /\ UNCHANGED <<mode, flash, last, saved, op, calls, crossed>>

\* Nothing failed: fffs_crash_sweep.c now runs the operation on its device,
\* fffs_api_crash_sweep.c has done so and goes on.
SweepEnd ==
    /\ pc = "replay" /\ points = << >>
    /\ IF mode = "crash" THEN pc' = "apply" /\ calls' = CallsOf(op)
       ELSE pc' = "idle" /\ calls' = << >>
    /\ UNCHANGED <<mode, flash, last, saved, attempt, op, points, crossed>>

ApplyCall ==
    /\ pc = "apply" /\ calls # << >>
    /\ \E o \in Outcomes(flash, Head(calls)) :
        /\ flash' = o.dev
        /\ IF o.result = "ok" THEN calls' = Tail(calls) /\ pc' = pc
           ELSE pc' = "failed" /\ UNCHANGED calls
    /\ UNCHANGED <<mode, last, saved, attempt, op, points, crossed>>

ApplyEnd ==
    /\ pc = "apply" /\ calls = << >>
    /\ pc' = IF View(flash.image) = After THEN "idle" ELSE "failed"
    /\ UNCHANGED <<mode, flash, last, saved, attempt, op, calls, points, crossed>>

Next ==
    \/ TestCall \/ TestSetFailure \/ TestClearFailure \/ TestSnapshot \/ TestReopen
    \/ SweepBegin \/ RecordCall \/ RecordEnd
    \/ AttemptBegin \/ AttemptCall \/ AttemptCheck
    \/ SweepEnd \/ ApplyCall \/ ApplyEnd

Spec == Init /\ [][Next]_vars

-----------------------------------------------------------------------------
(* Properties *)

DeviceOK(d) ==
    /\ d.image \subseteq Bytes
    /\ d.wear \in [SectorIds -> Nat]
    /\ d.seq \in Nat
    /\ Len(d.log) <= MaxLog
    /\ d.staged.active \/ d.staged = NoStaged

\* The variables have their types.
TypeOK ==
    /\ mode \in Modes
    /\ pc \in {"test", "idle", "record", "replay", "attempt", "apply", "failed"}
    /\ DeviceOK(flash) /\ DeviceOK(saved) /\ DeviceOK(attempt)
    /\ last.result \in Results /\ last.committed \in Nat
    /\ op \in Operations \cup {NoOp}
    /\ \A i \in crossed : i \subseteq Bytes

\* add_sector_counts indexes sector_counts only with sectors of the device.
CountsInRange == flash.counted \subseteq SectorIds

\* What a power loss inside a program may leave, as the sampler and a random
\* middle failure draw it, is between the image before and the programmed
\* image, and differs from the former only within one page; a sampled fault
\* also stays in one sector.
BranchesBetween ==
    \A span \in TestSpans, ones \in TestData :
        LET off == span[1]
            n == span[2]
            Between(b, size) == /\ Programmed(flash.image, off, size, ones) \subseteq b
                                /\ b \subseteq flash.image
            OnePage(b) == \A x \in flash.image \ b : x \div PageSize = off \div PageSize
        IN  Checked(off, n, Granule) = "ok" =>
                /\ \A b \in ProgramBranches(flash.image, off, n, ones) :
                        /\ Between(b, n) /\ OnePage(b)
                        /\ \A x \in flash.image \ b : x \div SectorSize = off \div SectorSize
                /\ \A f \in {[NoFailure EXCEPT !.mode = "random"]} :
                     \A b \in InjectedMiddle([flash EXCEPT !.failure = f], off, n, ones) :
                        Between(b, n) /\ OnePage(b)

\* The record finish_op leaves of a call tells its effect: only the bytes it
\* reports as committed have changed, a program only clears, an erase has set
\* what it reports, and a program that answers OK has cleared all it was asked to.
EffectLogged ==
    [][pc = "test" /\ Len(flash'.log) = Len(flash.log) + 1 =>
        LET r == flash'.log[Len(flash'.log)]
            told == Span(r.off, r.committed)
        IN  /\ flash'.image \ told = flash.image \ told
            /\ r.type \notin {"erase", "corrupt"} => flash'.image \subseteq flash.image
            /\ r.type = "erase" => told \subseteq flash'.image
            /\ r.result = "ok" /\ r.type \in {"program", "erase", "commit", "corrupt"}
                    => r.committed = r.n]_vars

\* A staged program is not lost: it stays staged until a drop, or until a
\* commit has programmed what it reports.  A commit that fails before it
\* programs, or whose sampled branch is refused, can be repeated.
StagedNotLost ==
    [][flash.staged.active /\ Len(flash'.log) > Len(flash.log) /\ flash'.staged # flash.staged =>
        LET r == flash'.log[Len(flash'.log)]
        IN  \/ r.type = "drop"
            \/ /\ r.type = "commit"
               /\ r.result = "ok" \/ (r.injected /\ r.committed > 0) \/ r.n = 0
               /\ r.result = "ok" => Span(r.off, r.n) \cap flash'.image \subseteq flash.staged.ones]_vars

\* An operation passes a sweep only if each of its images between two calls
\* shows the namespace of before or of after, although the sweep looks at
\* clones on which the operation was repeated, never at those images.
SweepSound == pc = "replay" /\ points = << >> => \A i \in crossed : Acceptable(i)

\* A sweep never fails an operation that is safe against power loss.
NoFalseAlarm == pc = "failed" => op.kind \in {"write_early", "erase_live"}
=============================================================================
