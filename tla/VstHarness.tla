----------------------------- MODULE VstHarness -----------------------------
(***************************************************************************)
(* The driver of the simulator, vst/src/vst.c: it plays a trace of reads   *)
(* and writes against the firmware again and again, forks a child at       *)
(* simulated crashes, at most n_jobs of them at a time, and counts what    *)
(* the children find.  A child runs recovery, reads the drive, replays the *)
(* trace up to the epoch that recovery reports (replay_to_commit) and      *)
(* compares: order (check_prefix) and flush semantics.                     *)
(*                                                                         *)
(* The firmware is external: a crash leaves it with the image of some      *)
(* number of writes and the number it reports.  A faulty firmware leaves   *)
(* an image that is not the one it reports, or loses a flush; the driver   *)
(* has to tell the two apart.  It does, until an address wraps in a later  *)
(* repetition of the trace than the first (LateWrap).                      *)
(***************************************************************************)
EXTENDS Integers, Sequences, FiniteSets

CONSTANTS
  VST_MAX_LBA,
  Trace,       \* the entries of load_trace: sequence of [lba, sec_num, rw]
  Offset,      \* 1024: how far each repetition of the trace is moved
  N_CRASH,
  n_jobs,
  freq_flush,  \* writes between two flushes, 0 for none
  Bound,       \* sectors written after which the run ends
  sim_crash,   \* simulate crashes
  FaultyFtl    \* the firmware may break its promises

VstConstants ==
  /\ VST_MAX_LBA \in Nat \ {0} /\ Offset \in Nat /\ N_CRASH \in Nat \ {0}
  /\ n_jobs \in Nat \ {0} /\ freq_flush \in Nat /\ Bound \in Nat
  /\ sim_crash \in BOOLEAN /\ FaultyFtl \in BOOLEAN
  /\ Trace \in Seq([lba : Nat, sec_num : Nat, rw : {"read", "write"}])
  /\ \E i \in DOMAIN Trace : Trace[i].rw = "write"

VARIABLES
  pc,        \* "entry", "write", "flush", "poll", "fork", "last", "ended"
  traces,    \* the trace, whose addresses the loop changes when they wrap
  trace_cnt, \* repetitions of the trace so far
  i,         \* entry of the trace
  written,   \* get_byte_write(), in sectors
  since,     \* n_wr_between_two_flushes
  latest,    \* wid_latest_flush
  idx_crash,
  pids,      \* slot -> number of the crash whose child it holds, 0 if free
  slot,      \* idx_pids, and the index of the last loop
  back,      \* where simulate_crash was called from
  child,     \* crash -> the state of its child
  n_success, n_fail,
  hist,      \* history: the writes the firmware was given
  flushed    \* history: the number of them before the last flush that returned

runVars == <<traces, trace_cnt, i, written, since, latest, hist, flushed>>
poolVars == <<idx_crash, pids, slot, back, child, n_success, n_fail>>
vars == <<pc, runVars, poolVars>>

Slots == 0 .. n_jobs - 1
Lbas == 0 .. VST_MAX_LBA
NoChild == [state |-> "none"]
wid_vst == Len(hist)

-----------------------------------------------------------------------------
(* What both the run and the replay do with an entry. *)

Moved(tr, cnt, n) == tr[n].lba + cnt * Offset
Wrapped(lba) == IF lba > VST_MAX_LBA THEN lba % (VST_MAX_LBA + 1) ELSE lba

\* traces[i].lba = lba, when the address has wrapped
TraceAfter(tr, cnt, n) ==
  IF Moved(tr, cnt, n) > VST_MAX_LBA
  THEN [tr EXCEPT ![n].lba = Wrapped(Moved(tr, cnt, n))] ELSE tr


\* The part of the drive that the entry covers, cut at the last sector.
Extent(tr, cnt, n) ==
  LET lba == Wrapped(Moved(tr, cnt, n))
  IN [lba |-> lba,
      sec_num |-> IF lba + tr[n].sec_num > VST_MAX_LBA + 1
                  THEN VST_MAX_LBA + 1 - lba ELSE tr[n].sec_num]

Covers(e, lba) == lba \in e.lba .. e.lba + e.sec_num - 1

\* The versions of the sectors after the first k writes: vers[lba] counts the
\* writes that send_to_wbuf was given for the sector.
Versions(k) == [lba \in Lbas |-> Cardinality({n \in 1 .. k : Covers(hist[n], lba)})]

\* The address of entry n at the start of repetition cnt, when the trace was
\* tr at the start of the first.
Stored(tr, n, cnt) ==
  LET lba[c \in 0 .. cnt] ==
        IF c = 0 THEN tr[n].lba
        ELSE LET moved == lba[c - 1] + (c - 1) * Offset
             IN IF moved > VST_MAX_LBA THEN Wrapped(moved) ELSE lba[c - 1]
  IN lba[cnt]

\* The writes that a replay of tr plays up to write number `epoch', by their
\* place in the repeated trace.
Played(tr, epoch) ==
  LET size == Len(tr)
      entry(m) == ((m - 1) % size) + 1
      writes(n) == Cardinality({p \in 1 .. n : tr[p].rw = "write"})
      wid(m) == (((m - 1) \div size) * writes(size)) + writes(entry(m))
  IN {m \in 1 .. size * epoch : tr[entry(m)].rw = "write" /\ wid(m) <= epoch}

\* mutant: the replay does not move the trace
ReplayUnmoved(tr, epoch) ==
  LET writes == Played(tr, epoch)
      played == [m \in writes |-> Extent(tr, 0, ((m - 1) % Len(tr)) + 1)]
  IN [lba \in Lbas |-> Cardinality({m \in writes : Covers(played[m], lba)})]

\* replay_to_commit: plays the trace until it has counted `epoch' writes, each
\* repetition moved and each wrap written back, as the run does.  It does not
\* end for an epoch of 0.
Replay(tr, epoch) ==
  LET size == Len(tr)
      writes == Played(tr, epoch)
      entry(m) == ((m - 1) % size) + 1
      cnt(m) == (m - 1) \div size
      played == [m \in writes |->
        Extent([tr EXCEPT ![entry(m)].lba = Stored(tr, entry(m), cnt(m))], cnt(m), entry(m))]
  IN [lba \in Lbas |-> Cardinality({m \in writes : Covers(played[m], lba)})]

-----------------------------------------------------------------------------
(* The run. *)

Init ==
  /\ pc = "entry"
  /\ traces = Trace /\ trace_cnt = 0 /\ i = 1
  /\ written = 0 /\ since = 0 /\ latest = 0 /\ hist = <<>> /\ flushed = 0
  /\ idx_crash = 0 /\ pids = [s \in Slots |-> 0] /\ slot = 0 /\ back = "entry"
  /\ child = [c \in 1 .. N_CRASH |-> NoChild]
  /\ n_success = 0 /\ n_fail = 0

\* The next entry, in this repetition of the trace or the next.
NextEntry ==
  IF i = Len(traces) THEN i' = 1 /\ trace_cnt' = trace_cnt + 1
  ELSE i' = i + 1 /\ UNCHANGED trace_cnt

ReadEntry ==
  /\ pc = "entry" /\ traces[i].rw = "read"
  /\ traces' = TraceAfter(traces, trace_cnt, i)
  /\ NextEntry
  /\ UNCHANGED <<pc, written, since, latest, hist, flushed, poolVars>>

\* send_to_wbuf and vst_write_sector: from here the firmware is in the write.
WriteEntry ==
  /\ pc = "entry" /\ traces[i].rw = "write"
  /\ traces' = TraceAfter(traces, trace_cnt, i)
  /\ hist' = Append(hist, Extent(traces, trace_cnt, i))
  /\ pc' = "write"
  /\ UNCHANGED <<trace_cnt, i, written, since, latest, flushed, poolVars>>

\* The write returns.  The run ends when it has written more than the bound or
\* simulated the last crash; else every freq_flush writes there is a flush.
WriteDone ==
  LET total == written + hist[wid_vst].sec_num
  IN /\ pc = "write"
     /\ written' = total
     /\ IF total > Bound \/ (sim_crash /\ idx_crash = N_CRASH)
        THEN /\ pc' = "last" /\ slot' = 0
             /\ UNCHANGED <<since, trace_cnt, i>>
        ELSE /\ UNCHANGED slot
             /\ IF since + 1 = freq_flush
                THEN pc' = "flush" /\ since' = 0 /\ UNCHANGED <<trace_cnt, i>>
                ELSE pc' = "entry" /\ since' = since + 1 /\ NextEntry
     /\ UNCHANGED <<traces, latest, hist, flushed, idx_crash, pids, back, child, n_success, n_fail>>

FlushDone ==
  /\ pc = "flush"
  /\ latest' = wid_vst
  /\ flushed' = wid_vst
  /\ pc' = "entry"
  /\ NextEntry
  /\ UNCHANGED <<traces, written, since, hist, poolVars>>

-----------------------------------------------------------------------------
(* simulate_crash, called from a program or an erase of the firmware. *)

SimulateCrash ==
  /\ sim_crash
  /\ pc \in {"write", "flush"}
  /\ idx_crash < N_CRASH
  /\ idx_crash' = idx_crash + 1
  /\ slot' = 0
  /\ back' = pc
  /\ pc' = "poll"
  /\ UNCHANGED <<runVars, pids, child, n_success, n_fail>>

\* What waitpid returns of a child that has ended.
Count(c) ==
  IF child[c].state = "ok" THEN n_success' = n_success + 1 /\ UNCHANGED n_fail
  ELSE n_fail' = n_fail + 1 /\ UNCHANGED n_success

Ended(c) == child[c].state \in {"ok", "fail"}
Reap(c) == child' = [child EXCEPT ![c].state = "reaped"]
NextSlot == slot' = (slot + 1) % n_jobs


\* One turn of the loop: the child in the slot has ended, or has not.
PollSlot ==
  /\ pc = "poll" /\ pids[slot] # 0
  /\ IF Ended(pids[slot])
     THEN /\ Count(pids[slot]) /\ Reap(pids[slot])
          /\ pids' = [pids EXCEPT ![slot] = 0]
     ELSE UNCHANGED <<child, pids, n_success, n_fail>>
  /\ NextSlot
  /\ UNCHANGED <<pc, runVars, idx_crash, back>>

SlotFound ==
  /\ pc = "poll" /\ pids[slot] = 0
  /\ pc' = "fork"
  /\ UNCHANGED <<runVars, poolVars>>

\* A crash leaves the image of the first `real' writes, and recovery reports
\* `epoch'.  The firmware keeps its promises, or (FaultyFtl) it does not.
CrashImages ==
  {r \in [real : 0 .. wid_vst, epoch : 1 .. wid_vst] :
     FaultyFtl \/ (r.real = r.epoch /\ r.epoch >= flushed)}

Fork ==
  /\ pc = "fork"
  /\ \E r \in CrashImages :
       child' = [child EXCEPT ![idx_crash] =
                   [state |-> "run", traces |-> traces, latest |-> latest,
                    real |-> r.real, epoch |-> r.epoch]]
  /\ pids' = [pids EXCEPT ![slot] = idx_crash]
  /\ pc' = back
  /\ UNCHANGED <<runVars, idx_crash, slot, back, n_success, n_fail>>

\* The child: recovery, the read of all sectors, check_prefix, and the check
\* of the flush.  The last sector is not read, nor compared.
OrderKept(c) ==
  \A lba \in 0 .. VST_MAX_LBA - 1 :
    Versions(child[c].real)[lba] = Replay(child[c].traces, child[c].epoch)[lba]
FlushKept(c) == child[c].epoch >= child[c].latest


ChildEnds(c) ==
  /\ child[c].state = "run"
  /\ child' = [child EXCEPT ![c].state = IF OrderKept(c) /\ FlushKept(c) THEN "ok" ELSE "fail"]
  /\ UNCHANGED <<pc, runVars, idx_crash, pids, slot, back, n_success, n_fail>>


\* mutant: the last loop waits for a free slot too
WaitLastAll ==
  /\ pc = "last"
  /\ IF slot = n_jobs
     THEN pc' = "ended" /\ UNCHANGED <<slot, child, n_success, n_fail>>
     ELSE /\ pids[slot] # 0
          /\ Ended(pids[slot]) /\ Count(pids[slot]) /\ Reap(pids[slot])
          /\ slot' = slot + 1
          /\ UNCHANGED pc
  /\ UNCHANGED <<runVars, idx_crash, pids, back>>

\* After the run: wait for the child of every slot.
WaitLast ==
  /\ pc = "last"
  /\ IF slot = n_jobs
     THEN pc' = "ended" /\ UNCHANGED <<slot, child, n_success, n_fail>>
     ELSE /\ IF pids[slot] = 0 THEN UNCHANGED <<child, n_success, n_fail>>
             ELSE Ended(pids[slot]) /\ Count(pids[slot]) /\ Reap(pids[slot])
          /\ slot' = slot + 1
          /\ UNCHANGED pc
  /\ UNCHANGED <<runVars, idx_crash, pids, back>>

Terminated == pc = "ended" /\ UNCHANGED vars

ParentStep ==
  \/ ReadEntry \/ WriteEntry \/ WriteDone \/ FlushDone
  \/ PollSlot \/ SlotFound \/ Fork \/ WaitLast
ChildStep == \E c \in 1 .. N_CRASH : ChildEnds(c)

Next == ParentStep \/ SimulateCrash \/ ChildStep \/ Terminated
Spec == Init /\ [][Next]_vars

-----------------------------------------------------------------------------
(* Properties. *)

Alive(c) == child[c].state \in {"run", "ok", "fail"}

\* A child that has not been counted sits in exactly one slot, so that no more
\* than n_jobs run at a time and none is forgotten when a slot is used again.
ChildrenInPool ==
  pc # "last" /\ pc # "ended" =>
    \A c \in 1 .. N_CRASH : Alive(c) => Cardinality({s \in Slots : pids[s] = c}) = 1

\* At the end each crash has been counted once, as a success or as a failure.
EveryCrashCounted == pc = "ended" => n_success + n_fail = idx_crash

\* The child replays the trace from the start, but with the addresses the
\* run has written into it by then.  Those written in the first repetition are
\* the ones the replay would write itself; one written in a later repetition
\* is not the address that the repetitions before it used.
LateWrap(c) ==
  \E n \in DOMAIN Trace : Trace[n].rw = "write" /\
    Wrapped(child[c].traces[n].lba) # Wrapped(Trace[n].lba)

\* The image is not the one that recovery reports, up to the sector before
\* the last; or a flush that had returned is not in it.
OrderBroken(c) ==
  \E lba \in 0 .. VST_MAX_LBA - 1 :
    Versions(child[c].real)[lba] # Versions(child[c].epoch)[lba]
FlushLost(c) == child[c].epoch < child[c].latest

\* A failure is reported for a firmware that has broken a promise, and for a
\* correct one only if the address of a write has wrapped in a later
\* repetition before the crash (vst.c:388).
NoFalseAlarm ==
  \A c \in 1 .. N_CRASH : child[c].state = "fail" =>
    OrderBroken(c) \/ FlushLost(c) \/ LateWrap(c)

\* A firmware that has broken a promise does not pass: never with a flush
\* lost, and with writes out of order only after such a wrap.
NoMissedFault ==
  \A c \in 1 .. N_CRASH : child[c].state = "ok" =>
    ~FlushLost(c) /\ (OrderBroken(c) => LateWrap(c))

=============================================================================
