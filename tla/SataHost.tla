------------------------------ MODULE SataHost ------------------------------
(***************************************************************************)
(* The host side of the firmware, src/sata: the main loop, the handler of  *)
(* the fast interrupt (FIQ), the event queue of the SATA controller, the   *)
(* one slot for slow commands, and the rings of read and write buffers     *)
(* through which the controller and the FTL pass pages.                    *)
(*                                                                         *)
(* Main and the FIQ interleave at every line of Main that reads or writes  *)
(* what they share; eventq_get disables the FIQ and is one step.  The host *)
(* and the controller are external.  The host has one command outstanding  *)
(* (no queuing: NCQ_CMD_RECV has no handler), may reset the drive at any   *)
(* time, and may lose and find the link.                                   *)
(***************************************************************************)
EXTENDS Integers, SequencesExt

CONSTANTS
  MaxCmds,    \* bound on the commands the host issues
  MaxResets,  \* bound on soft resets and losses of the link
  EqLimit,    \* entries that make the controller report a full event queue
  NumWrBufs,  \* NUM_WR_BUFFERS
  NumRdBufs,  \* NUM_RD_BUFFERS
  WbufMargin, \* SATA_WBUF_MARGIN: write buffers the controller leaves free
  CmdPages    \* pages of a read or write command

ASSUME SataAssumption ==
  /\ MaxCmds \in Nat /\ MaxResets \in Nat
  /\ EqLimit \in Nat /\ EqLimit > 1 /\ CmdPages \in Nat \ {0}
  /\ WbufMargin \in Nat \ {0} /\ NumWrBufs \in Nat /\ NumWrBufs > WbufMargin
  /\ NumRdBufs \in Nat /\ NumRdBufs > 1

VARIABLES
  pc,      \* place in Main
  cur,     \* command Main works on
  todo,    \* pages ftl_read or ftl_write has yet to handle
  eq,      \* event queue of the controller
  eqFull,  \* g_sata_context.eq_full
  held,    \* command of g_sata_action_flags, started when the queue has room
  slow,    \* g_sata_context.slow_cmd
  srst,    \* g_sata_context.srst
  wr,      \* write ring: pages, SATA_WBUF_PTR, BM_WRITE_LIMIT
  rd,      \* read ring: pages, g_ftl_read_buf_id, SATA_RBUF_PTR
  xfer,    \* command whose data the controller transfers
  left,    \* pages still to transfer
  intr,    \* pending causes in SATA_INT_STAT
  fis,     \* command in the SATA_FIS_H2D registers
  ctl,     \* SRST bit of the last control FIS
  link,    \* SATA_PHY_STATUS says the link is up
  cmd,     \* what the host waits for
  ops,     \* history: the commands issued
  resets,  \* history: number of resets and link losses
  exec,    \* history: commands given to the FTL or to a slow command function
  acked,   \* history: commands answered
  stray,   \* history: an answer was sent that the host did not wait for
  quick    \* an answer was sent since the last step of Main

mainVars == <<pc, cur, todo>>
queueVars == <<eq, eqFull, held, slow>>
dataVars == <<wr, rd, xfer, left>>
fisVars == <<intr, fis, ctl, srst>>
hostVars == <<link, cmd, ops, resets>>
answerVars == <<acked, stray, quick>>
vars == <<mainVars, queueVars, dataVars, fisVars, hostVars, exec, answerVars>>

Ops == {"read", "write", "flush", "bad"}  \* bad: beyond MAX_LBA
Cmds == 1 .. MaxCmds
Reset == 0       \* ATA_SRST, which the host awaits after a reset
NoCmd == -1

\* The pages of a ring of n buffers, and its two pointers.
Ring(n) == [data : [0 .. n - 1 -> Cmds \cup {NoCmd}], ptr : 0 .. n - 1, limit : 0 .. n - 1]

MainTypeOK ==
  /\ pc \in {"poll", "slow", "found", "run", "clear", "ftl"}
  /\ cur \in Cmds \cup {Reset, NoCmd}
  /\ todo \in 0 .. CmdPages

QueueTypeOK ==
  /\ eq \in Seq(Cmds)
  /\ eqFull \in BOOLEAN
  /\ held \in Cmds \cup {NoCmd}
  /\ slow \in [status : {"NONE", "PENDING", "BUSY"}, code : Cmds \cup {Reset, NoCmd}]

DataTypeOK ==
  /\ wr \in Ring(NumWrBufs)
  /\ rd \in Ring(NumRdBufs)
  /\ xfer \in Cmds \cup {NoCmd}
  /\ left \in 0 .. CmdPages

FisTypeOK ==
  /\ intr \subseteq {"CMD_RECV", "REG_FIS_RECV", "PHY_ONLINE"}
  /\ fis \in Cmds \cup {NoCmd}
  /\ ctl \in BOOLEAN /\ srst \in BOOLEAN

HostTypeOK ==
  /\ link \in BOOLEAN
  /\ cmd \in Cmds \cup {Reset, NoCmd}
  /\ ops \in Seq(Ops) /\ Len(ops) <= MaxCmds
  /\ resets \in 0 .. MaxResets

HistoryTypeOK ==
  /\ exec \in Seq(Cmds)
  /\ acked \subseteq Cmds
  /\ stray \in BOOLEAN /\ quick \in BOOLEAN

TypeOK ==
  MainTypeOK /\ QueueTypeOK /\ DataTypeOK /\ FisTypeOK /\ HostTypeOK /\ HistoryTypeOK

\* The state after sata_reset: the link has come up and the host waits for
\* the signature of the drive.
Init ==
  /\ pc = "poll" /\ cur = NoCmd /\ todo = 0
  /\ eq = <<>> /\ eqFull = FALSE /\ held = NoCmd
  /\ slow = [status |-> "NONE", code |-> NoCmd]
  /\ wr = [data |-> [b \in 0 .. NumWrBufs - 1 |-> NoCmd], ptr |-> 0, limit |-> 0]
  /\ rd = [data |-> [b \in 0 .. NumRdBufs - 1 |-> NoCmd], ptr |-> 0, limit |-> 0]
  /\ xfer = NoCmd /\ left = 0
  /\ intr = {"PHY_ONLINE"} /\ fis = NoCmd /\ ctl = FALSE /\ srst = FALSE
  /\ link = TRUE /\ cmd = Reset /\ ops = <<>> /\ resets = 0
  /\ exec = <<>> /\ acked = {} /\ stray = FALSE /\ quick = FALSE

-----------------------------------------------------------------------------
\* send_status_to_host and ata_srst: nothing is sent when the link is down.
Answer(c) ==
  IF link
  THEN /\ cmd' = IF cmd = c THEN NoCmd ELSE cmd
       /\ acked' = acked \cup ({c} \cap {cmd} \cap Cmds)
       /\ stray' = (stray \/ cmd # c)
       /\ quick' = TRUE
  ELSE UNCHANGED <<cmd, acked, stray, quick>>

\* Main takes a step from a place unless an interrupt preempts it.
At(place) == pc = place /\ intr = {}

\* A step of Main that answers nothing.
NoAnswer == quick' = FALSE /\ UNCHANGED <<acked, stray, hostVars>>

\* SETREG(SATA_CTRL_2, action_flags): the controller transfers the data.
StartTransfer(c) == xfer' = c /\ left' = CmdPages

SetSlowCmd(c) == slow' = [status |-> "PENDING", code |-> c]

-----------------------------------------------------------------------------
GetEventStaysFull ==            \* mutant: eq_full is not reset
  /\ At("poll") /\ eq # <<>>
  /\ cur' = Head(eq) /\ eq' = Tail(eq) /\ exec' = Append(exec, Head(eq))
  /\ todo' = CmdPages /\ pc' = "ftl"
  /\ IF eqFull /\ link THEN StartTransfer(held) ELSE UNCHANGED <<xfer, left>>
  /\ NoAnswer
  /\ UNCHANGED <<eqFull, held, slow, wr, rd, fisVars>>

\* Main, line 85: an entry of the event queue goes to the FTL.  eventq_get
\* makes room, so that the command held back can start.
GetEvent ==
  /\ At("poll") /\ eq # <<>>
  /\ cur' = Head(eq) /\ eq' = Tail(eq) /\ exec' = Append(exec, Head(eq))
  /\ todo' = CmdPages /\ pc' = "ftl"
  /\ eqFull' = FALSE
  /\ IF eqFull /\ link THEN StartTransfer(held) ELSE UNCHANGED <<xfer, left>>
  /\ NoAnswer
  /\ UNCHANGED <<held, slow, wr, rd, fisVars>>

SlowCmdFirst ==                 \* mutant: the slot is looked at before the queue
  /\ At("poll")
  /\ pc' = "slow"
  /\ NoAnswer
  /\ UNCHANGED <<cur, todo, queueVars, dataVars, fisVars, exec>>

NoEvent ==
  /\ At("poll") /\ eq = <<>>
  /\ pc' = "slow"
  /\ NoAnswer
  /\ UNCHANGED <<cur, todo, queueVars, dataVars, fisVars, exec>>

\* Line 100: with no slow command pending, the loop pools and starts again.
NoSlowCmd ==
  /\ At("slow") /\ slow.status # "PENDING"
  /\ pc' = "poll"
  /\ NoAnswer
  /\ UNCHANGED <<cur, todo, queueVars, dataVars, fisVars, exec>>

TakeSlowCmd ==
  /\ At("slow") /\ slow.status = "PENDING"
  /\ slow' = [slow EXCEPT !.status = "BUSY"]
  /\ pc' = "found"
  /\ NoAnswer
  /\ UNCHANGED <<cur, todo, eq, eqFull, held, dataVars, fisVars, exec>>

\* Line 107: only now the code is read.
SearchAtaFunction ==
  /\ At("found")
  /\ cur' = slow.code
  /\ pc' = "run"
  /\ NoAnswer
  /\ UNCHANGED <<todo, queueVars, dataVars, fisVars, exec>>

\* Line 108: the function of the command runs and answers.
RunSlowCmd ==
  /\ At("run")
  /\ exec' = IF cur = Reset THEN exec ELSE Append(exec, cur)
  /\ Answer(cur)
  /\ pc' = "clear"
  /\ UNCHANGED <<cur, todo, queueVars, dataVars, fisVars, link, ops, resets>>

\* Line 110.
ClearSlowCmd ==
  /\ At("clear")
  /\ slow' = [slow EXCEPT !.status = "NONE"]
  /\ pc' = "poll"
  /\ NoAnswer
  /\ UNCHANGED <<cur, todo, eq, eqFull, held, dataVars, fisVars, exec>>

-----------------------------------------------------------------------------
\* The rings.  [limit, ptr) are the pages the FTL has yet to consume; equal
\* pointers mean that there is none (is_write_buf_valid).
WrUsed == (wr.ptr - wr.limit) % NumWrBufs


NextRdBuf == (rd.limit + 1) % NumRdBufs

PageDone ==
  /\ todo' = todo - 1
  /\ pc' = IF todo = 1 THEN "poll" ELSE pc
  /\ NoAnswer
  /\ UNCHANGED <<cur, queueVars, xfer, left, fisVars, exec>>

FtlWritePageNoWait ==           \* mutant: does not wait for the page
  /\ At("ftl") /\ ops[cur] = "write"
  /\ wr' = [wr EXCEPT !.limit = (@ + 1) % NumWrBufs]
  /\ PageDone
  /\ UNCHANGED rd

\* One turn of the loop of ftl_write: wait for the page, copy it to the cache
\* (enqueue), release its buffer.
FtlWritePage ==
  /\ At("ftl") /\ ops[cur] = "write"
  /\ wr.ptr # wr.limit
  /\ wr' = [wr EXCEPT !.limit = (@ + 1) % NumWrBufs]
  /\ PageDone
  /\ UNCHANGED rd

\* One turn of the loop of ftl_read: wait until the next buffer is free, fill
\* this one and hand it over.
FtlReadPage ==
  /\ At("ftl") /\ ops[cur] = "read"
  /\ NextRdBuf # rd.ptr
  /\ rd' = [rd EXCEPT !.data[rd.limit] = cur, !.limit = NextRdBuf]
  /\ PageDone
  /\ UNCHANGED wr

MainStep ==
  \/ GetEvent \/ NoEvent \/ NoSlowCmd \/ TakeSlowCmd
  \/ SearchAtaFunction \/ RunSlowCmd \/ ClearSlowCmd
  \/ FtlWritePage \/ FtlReadPage

-----------------------------------------------------------------------------
\* fiq_handler.  A command out of range is answered at once; a read or write
\* goes into the event queue, and its transfer starts unless the queue is now
\* full; any other command goes into the slot.
OutOfRange(c) == ops[c] = "bad"


RejectCmd ==
  /\ OutOfRange(fis)
  /\ Answer(fis)
  /\ UNCHANGED <<queueVars, xfer, left>>

InsertEqLate ==                 \* mutant: full one entry too late
  /\ ~OutOfRange(fis) /\ ops[fis] \in {"read", "write"}
  /\ eq' = Append(eq, fis)
  /\ IF Len(eq) >= EqLimit
     THEN eqFull' = TRUE /\ held' = fis /\ UNCHANGED <<xfer, left>>
     ELSE StartTransfer(fis) /\ UNCHANGED <<eqFull, held>>
  /\ UNCHANGED <<slow, cmd, answerVars>>

InsertEq ==
  /\ ~OutOfRange(fis) /\ ops[fis] \in {"read", "write"}
  /\ eq' = Append(eq, fis)
  /\ IF Len(eq) + 1 >= EqLimit
     THEN eqFull' = TRUE /\ held' = fis /\ UNCHANGED <<xfer, left>>
     ELSE StartTransfer(fis) /\ UNCHANGED <<eqFull, held>>
  /\ UNCHANGED <<slow, cmd, answerVars>>

StoreSlowCmdCode ==             \* mutant: the status is not set
  /\ ~OutOfRange(fis) /\ ops[fis] \notin {"read", "write"}
  /\ slow' = [slow EXCEPT !.code = fis]
  /\ UNCHANGED <<eq, eqFull, held, xfer, left, cmd, answerVars>>

StoreSlowCmd ==
  /\ ~OutOfRange(fis) /\ ops[fis] \notin {"read", "write"}
  /\ SetSlowCmd(fis)
  /\ UNCHANGED <<eq, eqFull, held, xfer, left, cmd, answerVars>>

HandleGotCfis ==
  /\ "CMD_RECV" \in intr
  /\ intr' = intr \ {"CMD_RECV"}
  /\ RejectCmd \/ InsertEq \/ StoreSlowCmd
  /\ UNCHANGED <<mainVars, wr, rd, fis, ctl, srst, link, ops, resets, exec>>

HandleSrstDropsQueue ==         \* mutant: the event queue is emptied, too
  /\ "CMD_RECV" \notin intr /\ "REG_FIS_RECV" \in intr
  /\ intr' = intr \ {"REG_FIS_RECV"}
  /\ srst' = ctl
  /\ IF ~ctl /\ srst THEN SetSlowCmd(Reset) /\ eq' = <<>> ELSE UNCHANGED <<slow, eq>>
  /\ UNCHANGED <<mainVars, eqFull, held, dataVars, fis, ctl, hostVars, exec, answerVars>>

\* handle_srst: a control FIS that sets the bit, then one that clears it.
\* Neither the event queue nor eq_full is touched.
HandleSrst ==
  /\ "CMD_RECV" \notin intr /\ "REG_FIS_RECV" \in intr
  /\ intr' = intr \ {"REG_FIS_RECV"}
  /\ srst' = ctl
  /\ IF ~ctl /\ srst THEN SetSlowCmd(Reset) ELSE UNCHANGED slow
  /\ UNCHANGED <<mainVars, eq, eqFull, held, dataVars, fis, ctl, hostVars, exec, answerVars>>

\* The link has come up: every pending cause is cleared.
HandlePhyOnline ==
  /\ intr = {"PHY_ONLINE"}
  /\ intr' = {}
  /\ SetSlowCmd(Reset)
  /\ UNCHANGED <<mainVars, eq, eqFull, held, dataVars, fis, ctl, srst, hostVars, exec, answerVars>>

FiqStep == HandleGotCfis \/ HandleSrst \/ HandlePhyOnline

-----------------------------------------------------------------------------
\* External: the controller.  It moves pages of the command in transfer, leaves
\* WbufMargin write buffers free, and completes the command after the last page.
CompletePage ==
  /\ left' = left - 1
  /\ IF left = 1 THEN Answer(xfer) /\ xfer' = NoCmd
                 ELSE UNCHANGED <<xfer, cmd, answerVars>>
  /\ UNCHANGED <<mainVars, queueVars, fisVars, link, ops, resets, exec>>

ReceivePage ==
  /\ link /\ xfer \in Cmds /\ cmd = xfer /\ ops[xfer] = "write"
  /\ WrUsed < NumWrBufs - WbufMargin
  /\ wr' = [wr EXCEPT !.data[wr.ptr] = xfer, !.ptr = (@ + 1) % NumWrBufs]
  /\ CompletePage
  /\ UNCHANGED rd

SendPage ==
  /\ link /\ xfer \in Cmds /\ cmd = xfer /\ ops[xfer] = "read"
  /\ rd.ptr # rd.limit
  /\ rd' = [rd EXCEPT !.ptr = (@ + 1) % NumRdBufs]
  /\ CompletePage
  /\ UNCHANGED wr

TransferStep == ReceivePage \/ SendPage

\* External: the host.  Between an answer and its next command Main takes at
\* least the step it is about to take, where that step is a few instructions
\* away: from the check of the queue to the check of the slot, from there to
\* the read of the code, and from the answer of a slow command to the release
\* of the slot.
TightPlaces == {"slow", "found", "clear"}

HostCommand(op) ==
  /\ link /\ intr = {} /\ ~ctl /\ cmd = NoCmd /\ Len(ops) < MaxCmds
  /\ ~(quick /\ pc \in TightPlaces)
  /\ ops' = Append(ops, op)
  /\ cmd' = Len(ops) + 1 /\ fis' = Len(ops) + 1
  /\ intr' = {"CMD_RECV"}
  /\ UNCHANGED <<mainVars, queueVars, dataVars, ctl, srst, link, resets, exec, answerVars>>

\* The host gives up what it waits for and resets the drive with two control
\* FISes; it then waits for the signature.
HostSrst ==
  /\ link /\ intr = {} /\ ~ctl /\ resets < MaxResets
  /\ resets' = resets + 1
  /\ cmd' = NoCmd /\ xfer' = NoCmd /\ left' = 0
  /\ ctl' = TRUE /\ intr' = {"REG_FIS_RECV"}
  /\ UNCHANGED <<mainVars, queueVars, wr, rd, fis, srst, link, ops, exec, answerVars>>

HostSrstClear ==
  /\ link /\ intr = {} /\ ctl
  /\ ctl' = FALSE /\ intr' = {"REG_FIS_RECV"} /\ cmd' = Reset
  /\ UNCHANGED <<mainVars, queueVars, dataVars, fis, srst, link, ops, resets, exec, answerVars>>

LinkLost ==
  /\ link /\ resets < MaxResets
  /\ resets' = resets + 1
  /\ link' = FALSE /\ cmd' = NoCmd /\ xfer' = NoCmd /\ left' = 0 /\ ctl' = FALSE
  /\ UNCHANGED <<mainVars, queueVars, wr, rd, intr, fis, srst, ops, exec, answerVars>>

LinkBack ==
  /\ ~link
  /\ link' = TRUE /\ cmd' = Reset /\ intr' = intr \cup {"PHY_ONLINE"}
  /\ UNCHANGED <<mainVars, queueVars, dataVars, fis, ctl, srst, ops, resets, exec, answerVars>>

HostStep ==
  \/ \E op \in Ops : HostCommand(op)
  \/ HostSrst \/ HostSrstClear \/ LinkLost \/ LinkBack

Next == MainStep \/ FiqStep \/ TransferStep \/ HostStep

Spec == Init /\ [][Next]_vars

\* Main never stops, the FIQ is taken while it is not disabled, and the
\* controller moves data as long as there is room.  The host may stop.
FairSpec == Spec /\ WF_vars(MainStep) /\ WF_vars(FiqStep) /\ WF_vars(TransferStep)

-----------------------------------------------------------------------------
\* A command held back has an entry in the queue, the last one: taking entries
\* from the queue will start it (sata_isr.c:217-221, sata_main.c:53-61).
HeldIsQueued == eqFull => eq # <<>> /\ Last(eq) = held

\* The queue never grows beyond the length at which a command is held back,
\* although resets leave its entries in place.
QueueBounded == Len(eq) <= EqLimit

\* Commands reach the FTL in the order the host issued them, each at most
\* once, whatever resets come between: the queue and the slot, which Main
\* serves in turn, do not reorder them.  Until the first reset none is left
\* out either, but those out of range.
ExecutesInOrder ==
  /\ \A i, j \in 1 .. Len(exec) : i < j => exec[i] < exec[j]
  /\ resets = 0 => \A i \in 1 .. Len(exec) :
       /\ ~OutOfRange(exec[i])
       /\ \A c \in 1 .. exec[i] - 1 : OutOfRange(c) \/ \E j \in 1 .. i - 1 : exec[j] = c

\* When ata_flush_cache runs, each write answered before the flush was issued
\* has been given to ftl_write.
FlushCoversAnswered ==
  \A j \in 1 .. Len(exec) : ops[exec[j]] = "flush" =>
    \A c \in acked : c < exec[j] /\ ops[c] = "write" =>
      \E i \in 1 .. j - 1 : exec[i] = c

\* Nothing reaches another command than its own: ftl_write finds in the write
\* ring the pages of the command it runs, the controller sends, for a read,
\* the pages ftl_read wrote for it, and no answer goes out but to the command
\* the host waits for.  A reset does not stop Main, which may then take pages
\* of the next command and answer late.
DataMatches ==
  resets = 0 =>
  /\ pc = "ftl" /\ ops[cur] = "write" /\ wr.ptr # wr.limit => wr.data[wr.limit] = cur
  /\ xfer \in Cmds /\ ops[xfer] = "read" /\ rd.ptr # rd.limit => rd.data[rd.ptr] = xfer
  /\ ~stray

\* No step takes a reset request out of the slot without running ata_srst.
\* sata.h:186: "SRST request is regarded as if it were an ATA command."
SrstNotDropped ==
  [][slow.status = "PENDING" /\ slow.code = Reset => slow'.status # "NONE"]_vars

\* Every command is answered, and so is the signature the host waits for
\* after power-up, unless a reset comes first: the slot may lose one.
CommandsAnswered ==
  \A c \in Cmds \cup {Reset} : cmd = c ~> cmd # c \/ resets > 0
=============================================================================
