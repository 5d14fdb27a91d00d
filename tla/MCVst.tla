------------------------------- MODULE MCVst -------------------------------
(***************************************************************************)
(* The simulator: its memories and its run, src/vst.  part says which of   *)
(* them a behaviour is about; the variables of the other rest.             *)
(*                                                                         *)
(*   "memory"     VstMemory as the cfg describes it                        *)
(*   "requests"   VstMemory without flash, requests longer than a page     *)
(*   "behind"     VstMemory with a page of metadata behind a buffer that   *)
(*                host data are copied to, bits, and pages of one sector   *)
(*   "crashes"    VstHarness, two children at a time                       *)
(*   "faults"     the same with firmware that may break its promises       *)
(***************************************************************************)
EXTENDS VstMemory, Sequences

VARIABLES
  part,
  pc, traces, trace_cnt, i, written, since, latest, idx_crash, pids, slot,
  back, child, n_success, n_fail, hist, flushed           \* VstHarness

runVars ==
  <<pc, traces, trace_cnt, i, written, since, latest, idx_crash, pids, slot,
    back, child, n_success, n_fail, hist, flushed>>
mcVars == <<part, vars, runVars>>

Requested == INSTANCE VstMemory WITH
  RSize <- 2, WSize <- 2, DramPages <- 5, Blocks <- {}, VST_MAX_LBA <- 2,
  Metadata <- {}, MetaPages <- {}, CopyPages <- {0, 1}

\* A read and a write buffer, a buffer of the cache, where recovery puts tables
\* before (2: RECOVERY_ADDR), and the page of a tag behind it (3).
Neighbours == INSTANCE VstMemory WITH
  SECTORS_PER_PAGE <- 1, DramPages <- 5, VST_MAX_LBA <- 0,
  Metadata <- {1}, MetaPages <- {2, 3}, CopyPages <- {2}

\* Overlapping writes, a read, an address past the end of the drive.  In the
\* second repetition the third entry wraps, for the first time; crashes come
\* before that and after.
At(lba, n, rw) == [lba |-> lba, sec_num |-> n, rw |-> rw]
ShortTrace == << At(0, 2, "write"), At(1, 1, "read"), At(4, 2, "write"),
                 At(7, 2, "write") >>

Run == INSTANCE VstHarness WITH
  VST_MAX_LBA <- 5, Trace <- ShortTrace, Offset <- 2, N_CRASH <- 2,
  n_jobs <- 2, freq_flush <- 2, Bound <- 10, sim_crash <- TRUE,
  FaultyFtl <- FALSE

Faulty == INSTANCE VstHarness WITH
  VST_MAX_LBA <- 5, Trace <- ShortTrace, Offset <- 2, N_CRASH <- 2,
  n_jobs <- 2, freq_flush <- 2, Bound <- 8, sim_crash <- TRUE,
  FaultyFtl <- TRUE

ASSUME ConstantsInRange ==
  /\ Requested!VstMemoryConstants /\ Neighbours!VstMemoryConstants
  /\ Run!VstConstants

\* The variables of VstHarness where a behaviour is not about it.
NoRun ==
  /\ pc = "none" /\ traces = 0 /\ trace_cnt = 0 /\ i = 0 /\ written = 0
  /\ since = 0 /\ latest = 0 /\ idx_crash = 0 /\ pids = 0 /\ slot = 0
  /\ back = 0 /\ child = 0 /\ n_success = 0 /\ n_fail = 0
  /\ hist = 0 /\ flushed = 0

MCInit ==
  \/ part = "memory" /\ Init /\ NoRun
  \/ part = "requests" /\ Requested!Init /\ NoRun
  \/ part = "behind" /\ Neighbours!Init /\ NoRun
  \/ part \in {"crashes", "faults"} /\ Init /\ Run!Init

MCNext ==
  /\ UNCHANGED part
  /\ \/ part = "memory" /\ Next /\ UNCHANGED runVars
     \/ part = "requests" /\ Requested!Next /\ UNCHANGED runVars
     \/ part = "behind" /\ Neighbours!Next /\ UNCHANGED runVars
     \/ part = "crashes" /\ Run!Next /\ UNCHANGED vars
     \/ part = "faults" /\ Faulty!Next /\ UNCHANGED vars

\* The fairness of VstHarness.
MCSpec ==
  /\ MCInit /\ [][MCNext]_mcVars
  /\ WF_mcVars(part = "crashes" /\ Run!ParentStep /\ UNCHANGED <<part, vars>>)
  /\ \A c \in 1 .. 2 :
       WF_mcVars(part = "crashes" /\ Run!ChildEnds(c) /\ UNCHANGED <<part, vars>>)

-----------------------------------------------------------------------------
\* Wherever the real memory holds a sector that the host sent, the simulator
\* says so with the right address and version, and it says so nowhere else;
\* metadata is in memory and in flash as on the device, although a copy tags the
\* page behind its target; the version a child records is the one the device
\* would return, and the simulator never aborts on an answer that is right on
\* the device.  This holds through any sequence of buffers, programs, copies,
\* erases, images and crashes that keeps vpage.c:15.
MemoryExact ==
  /\ part = "memory" =>
       HostDataExact /\ MetadataExact /\ KeptVersionExact /\ NoFalseMismatch
  /\ part = "requests" => Requested!HostDataExact /\ Requested!NoFalseMismatch
  /\ part = "behind" =>
       /\ Neighbours!HostDataExact /\ Neighbours!MetadataExact
       /\ Neighbours!KeptVersionExact /\ Neighbours!NoFalseMismatch

\* As long as no address of a write has wrapped in a later repetition of the
\* trace, a child reports a failure for firmware that broke a promise and for
\* no other; a lost flush is reported always.  At the end each crash has been
\* counted once; no more than n_jobs children run at a time and none is
\* forgotten when its slot is used again.
VerdictsExact ==
  part \in {"crashes", "faults"} =>
    /\ Run!NoFalseAlarm /\ Run!NoMissedFault
    /\ Run!ChildrenInPool /\ Run!EveryCrashCounted

\* The run ends, whatever the children do before they exit.
RunEnds == part = "crashes" ~> pc = "ended"
=============================================================================
