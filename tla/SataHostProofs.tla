-------------------------- MODULE SataHostProofs --------------------------
(***************************************************************************)
(* Proofs about SataHost, for every value of the constants and with resets *)
(* and losses of the link at any time: type correctness; that a command    *)
(* held back is always the last entry of the event queue; that the queue   *)
(* stays within its limit; that commands are executed in their order; that *)
(* a flush covers every write answered before it; and that data pages      *)
(* reach the command they belong to.                                       *)
(*                                                                         *)
(* The first part proves IInv, types and the places of Main.  The second   *)
(* proves OInv, which says where each command is on its way from the host  *)
(* to the FTL: waiting for the interrupt, in the queue, in the slow slot,  *)
(* or executed, in this order the youngest to the oldest.  The third       *)
(* proves DInv: until the first reset the pages in each ring are a stretch *)
(* of the pages of all reads, or of all writes, in the order of commands,  *)
(* between what the link has moved and what the FTL has handled.           *)
(***************************************************************************)
EXTENDS SataHost, TLAPS

\* At each place Main has what it needs there: pages to handle in the FTL, a
\* code in the slot, a command to run.  The same for the transfer and the FIQ.
PlaceInv ==
  /\ pc = "ftl" => todo > 0 /\ cur \in Cmds
  /\ pc = "found" => slow.code # NoCmd
  /\ pc = "run" => cur # NoCmd
  /\ slow.status = "PENDING" => slow.code # NoCmd
  /\ xfer # NoCmd => left > 0
  /\ "CMD_RECV" \in intr => fis # NoCmd

\* While a command is held back the queue is full, so that no entry can be
\* appended behind it without being held back in its place.
HeldInv ==
  eqFull => Len(eq) >= EqLimit /\ held # NoCmd /\ eq[Len(eq)] = held

IInv == TypeOK /\ PlaceInv /\ HeldInv

USE SataAssumption

\* The two values that are no commands.
LEMMA NoCmds ==
  /\ Reset \notin Cmds /\ NoCmd \notin Cmds /\ Reset # NoCmd
  /\ Cmds \subseteq Int
BY DEF Cmds, Reset, NoCmd

LEMMA BufsPositive == NumWrBufs \in Nat \ {0} /\ NumRdBufs \in Nat \ {0}
OBVIOUS

\* The pointers of a ring move round it, and a page put into it keeps its type.
LEMMA ModIndex ==
  ASSUME NEW n \in Nat \ {0}, NEW x \in Nat
  PROVE  x % n \in 0 .. n - 1
OBVIOUS

LEMMA RingMove ==
  ASSUME NEW n \in Nat \ {0}, NEW r \in Ring(n), NEW c \in Cmds
  PROVE  /\ [r EXCEPT !.limit = (@ + 1) % n] \in Ring(n)
         /\ [r EXCEPT !.ptr = (@ + 1) % n] \in Ring(n)
         /\ [r EXCEPT !.data[r.ptr] = c, !.ptr = (@ + 1) % n] \in Ring(n)
         /\ [r EXCEPT !.data[r.limit] = c, !.limit = (r.limit + 1) % n] \in Ring(n)
<1>1. r.limit \in 0 .. n - 1 /\ r.ptr \in 0 .. n - 1
  BY DEF Ring
<1>2. (r.limit + 1) % n \in 0 .. n - 1 /\ (r.ptr + 1) % n \in 0 .. n - 1
  BY <1>1, ModIndex
<1> QED BY <1>1, <1>2 DEF Ring

LEMMA InitIInv == Init => IInv
<1> SUFFICES ASSUME Init PROVE IInv
  OBVIOUS
<1>1. MainTypeOK
  BY DEF Init, MainTypeOK
<1>2. QueueTypeOK
  <2>1. eq \in Seq(Cmds)
    BY DEF Init
  <2>2. slow \in [status : {"NONE", "PENDING", "BUSY"}, code : Cmds \cup {Reset, NoCmd}]
    BY DEF Init
  <2>3. eqFull \in BOOLEAN /\ held \in Cmds \cup {NoCmd}
    BY DEF Init
  <2> QED BY <2>1, <2>2, <2>3 DEF QueueTypeOK
<1>3. DataTypeOK
  BY DEF Init, DataTypeOK, Ring
<1>4. FisTypeOK
  BY DEF Init, FisTypeOK
<1>5. HostTypeOK
  BY DEF Init, HostTypeOK
<1>6. HistoryTypeOK
  <2>1. exec \in Seq(Cmds)
    BY DEF Init
  <2>2. acked \subseteq Cmds /\ stray \in BOOLEAN /\ quick \in BOOLEAN
    BY DEF Init
  <2> QED BY <2>1, <2>2 DEF HistoryTypeOK
<1>7. PlaceInv /\ HeldInv
  BY DEF Init, PlaceInv, HeldInv
<1> QED BY <1>1, <1>2, <1>3, <1>4, <1>5, <1>6, <1>7 DEF IInv, TypeOK

\* An answer leaves the types of what the host and the history know intact.
LEMMA AnswerType ==
  ASSUME HostTypeOK, HistoryTypeOK, NEW c \in Cmds \cup {Reset}, Answer(c),
         UNCHANGED <<link, ops, resets>>, exec' \in Seq(Cmds)
  PROVE  HostTypeOK' /\ HistoryTypeOK'
<1>1. CASE link
  BY <1>1 DEF HostTypeOK, HistoryTypeOK, Answer
<1>2. CASE ~link
  BY <1>2 DEF HostTypeOK, HistoryTypeOK, Answer
<1> QED BY <1>1, <1>2 DEF HostTypeOK

LEMMA NoAnswerType ==
  ASSUME HostTypeOK, HistoryTypeOK, NoAnswer, exec' \in Seq(Cmds)
  PROVE  HostTypeOK' /\ HistoryTypeOK'
BY DEF HostTypeOK, HistoryTypeOK, NoAnswer, hostVars

LEMMA MainStepIInv == IInv /\ MainStep => IInv'
<1> SUFFICES ASSUME IInv, MainStep PROVE IInv'
  OBVIOUS
<1> USE DEF IInv, TypeOK
<1>1. CASE GetEvent
  <2>0. /\ Head(eq) \in Cmds /\ Tail(eq) \in Seq(Cmds)
        /\ exec' \in Seq(Cmds)
    BY <1>1 DEF GetEvent, QueueTypeOK, HistoryTypeOK
  <2>1. HostTypeOK' /\ HistoryTypeOK'
    BY <1>1, <2>0, NoAnswerType DEF GetEvent
  <2>2. MainTypeOK'
    BY <1>1, <2>0 DEF GetEvent, MainTypeOK
  <2>3. QueueTypeOK'
    BY <1>1, <2>0 DEF GetEvent, QueueTypeOK
  <2>4. DataTypeOK' /\ FisTypeOK'
    BY <1>1 DEF GetEvent, DataTypeOK, FisTypeOK, QueueTypeOK, StartTransfer, fisVars
  <2>5. PlaceInv' /\ HeldInv'
    BY <1>1, <2>0 DEF GetEvent, PlaceInv, HeldInv, StartTransfer, fisVars
  <2> QED BY <2>1, <2>2, <2>3, <2>4, <2>5
<1>2. CASE NoEvent \/ NoSlowCmd
  <2>1. HostTypeOK' /\ HistoryTypeOK'
    BY <1>2, NoAnswerType DEF NoEvent, NoSlowCmd, HistoryTypeOK
  <2>2. MainTypeOK' /\ QueueTypeOK' /\ DataTypeOK' /\ FisTypeOK'
    BY <1>2 DEF NoEvent, NoSlowCmd, MainTypeOK, QueueTypeOK, DataTypeOK, FisTypeOK,
                queueVars, dataVars, fisVars
  <2>3. PlaceInv' /\ HeldInv'
    BY <1>2 DEF NoEvent, NoSlowCmd, PlaceInv, HeldInv, queueVars, dataVars, fisVars
  <2> QED BY <2>1, <2>2, <2>3
<1>3. CASE TakeSlowCmd \/ ClearSlowCmd
  <2>1. HostTypeOK' /\ HistoryTypeOK'
    BY <1>3, NoAnswerType DEF TakeSlowCmd, ClearSlowCmd, HistoryTypeOK
  <2>2. MainTypeOK' /\ QueueTypeOK' /\ DataTypeOK' /\ FisTypeOK'
    BY <1>3 DEF TakeSlowCmd, ClearSlowCmd, MainTypeOK, QueueTypeOK, DataTypeOK,
                FisTypeOK, dataVars, fisVars
  <2>3. PlaceInv' /\ HeldInv'
    BY <1>3 DEF TakeSlowCmd, ClearSlowCmd, At, PlaceInv, HeldInv, QueueTypeOK, dataVars, fisVars
  <2> QED BY <2>1, <2>2, <2>3
<1>4. CASE SearchAtaFunction
  <2>1. HostTypeOK' /\ HistoryTypeOK'
    BY <1>4, NoAnswerType DEF SearchAtaFunction, HistoryTypeOK
  <2>2. MainTypeOK' /\ QueueTypeOK' /\ DataTypeOK' /\ FisTypeOK'
    BY <1>4 DEF SearchAtaFunction, MainTypeOK, QueueTypeOK, DataTypeOK, FisTypeOK,
                queueVars, dataVars, fisVars
  <2>3. PlaceInv' /\ HeldInv'
    BY <1>4 DEF SearchAtaFunction, At, PlaceInv, HeldInv, queueVars, dataVars, fisVars
  <2> QED BY <2>1, <2>2, <2>3
<1>5. CASE RunSlowCmd
  <2>0. cur \in Cmds \cup {Reset}
    BY <1>5 DEF RunSlowCmd, At, MainTypeOK, PlaceInv
  <2>1. exec' \in Seq(Cmds)
    BY <1>5, <2>0, NoCmds DEF RunSlowCmd, HistoryTypeOK
  <2>2. HostTypeOK' /\ HistoryTypeOK'
    BY <1>5, <2>0, <2>1, AnswerType DEF RunSlowCmd
  <2>3. MainTypeOK' /\ QueueTypeOK' /\ DataTypeOK' /\ FisTypeOK'
    BY <1>5 DEF RunSlowCmd, MainTypeOK, QueueTypeOK, DataTypeOK, FisTypeOK,
                queueVars, dataVars, fisVars
  <2>4. PlaceInv' /\ HeldInv'
    BY <1>5 DEF RunSlowCmd, PlaceInv, HeldInv, queueVars, dataVars, fisVars
  <2> QED BY <2>2, <2>3, <2>4
<1>6. CASE FtlWritePage \/ FtlReadPage
  <2>1. HostTypeOK' /\ HistoryTypeOK'
    BY <1>6, NoAnswerType DEF FtlWritePage, FtlReadPage, PageDone, HistoryTypeOK
  <2>2. MainTypeOK' /\ QueueTypeOK' /\ FisTypeOK'
    BY <1>6 DEF FtlWritePage, FtlReadPage, PageDone, At, PlaceInv,
                MainTypeOK, QueueTypeOK, FisTypeOK, queueVars, fisVars
  <2>0. wr \in Ring(NumWrBufs) /\ rd \in Ring(NumRdBufs) /\ cur \in Cmds
    BY <1>6 DEF DataTypeOK, FtlWritePage, FtlReadPage, At, PlaceInv
  <2>3. wr' \in Ring(NumWrBufs)
    BY <1>6, <2>0, BufsPositive, RingMove DEF FtlWritePage, FtlReadPage
  <2>4. rd' \in Ring(NumRdBufs)
    <3>1. CASE FtlWritePage
      BY <2>0, <3>1 DEF FtlWritePage
    <3>2. CASE FtlReadPage
      <4>1. rd' = [rd EXCEPT !.data[rd.limit] = cur, !.limit = (rd.limit + 1) % NumRdBufs]
        BY <3>2 DEF FtlReadPage, NextRdBuf
      <4> QED BY <2>0, <4>1, BufsPositive, RingMove
    <3> QED BY <1>6, <3>1, <3>2
  <2>5. DataTypeOK'
    BY <1>6, <2>3, <2>4 DEF FtlWritePage, FtlReadPage, PageDone, DataTypeOK
  <2>6. PlaceInv' /\ HeldInv'
    BY <1>6 DEF FtlWritePage, FtlReadPage, PageDone, At, MainTypeOK, PlaceInv, HeldInv,
                queueVars, fisVars
  <2> QED BY <2>1, <2>2, <2>5, <2>6
<1> QED
  BY <1>1, <1>2, <1>3, <1>4, <1>5, <1>6 DEF MainStep

LEMMA FiqStepIInv == IInv /\ FiqStep => IInv'
<1> SUFFICES ASSUME IInv, FiqStep PROVE IInv'
  OBVIOUS
<1> USE DEF IInv, TypeOK
<1>1. CASE HandleGotCfis
  <2>1. fis \in Cmds /\ intr' = intr \ {"CMD_RECV"}
    BY <1>1 DEF HandleGotCfis, FisTypeOK, PlaceInv
  <2>2. MainTypeOK' /\ FisTypeOK'
    BY <1>1, <2>1 DEF HandleGotCfis, MainTypeOK, FisTypeOK, mainVars
  <2>3. HostTypeOK' /\ HistoryTypeOK'
    <3>1. CASE RejectCmd
      <4>1. Answer(fis) /\ UNCHANGED <<link, ops, resets>> /\ exec' \in Seq(Cmds)
        BY <1>1, <3>1 DEF HandleGotCfis, RejectCmd, HistoryTypeOK
      <4> QED BY <2>1, <4>1, AnswerType
    <3>2. CASE InsertEq \/ StoreSlowCmd
      BY <1>1, <3>2 DEF HandleGotCfis, InsertEq, StoreSlowCmd, HostTypeOK, HistoryTypeOK,
                        answerVars
    <3> QED BY <1>1, <3>1, <3>2 DEF HandleGotCfis
  <2>4. QueueTypeOK'
    <3>1. Append(eq, fis) \in Seq(Cmds)
      BY <2>1 DEF QueueTypeOK
    <3>2. CASE RejectCmd
      BY <3>2 DEF RejectCmd, QueueTypeOK, queueVars
    <3>3. CASE InsertEq
      BY <2>1, <3>1, <3>3 DEF InsertEq, QueueTypeOK
    <3>4. CASE StoreSlowCmd
      BY <2>1, <3>4 DEF StoreSlowCmd, SetSlowCmd, QueueTypeOK
    <3> QED BY <1>1, <3>2, <3>3, <3>4 DEF HandleGotCfis
  <2>5. DataTypeOK'
    BY <1>1, <2>1 DEF HandleGotCfis, RejectCmd, InsertEq, StoreSlowCmd, StartTransfer, DataTypeOK
  <2>6. PlaceInv'
    <3>1. slow'.status = "PENDING" => slow'.code # NoCmd
      BY <1>1, <2>1, NoCmds DEF HandleGotCfis, RejectCmd, InsertEq, StoreSlowCmd,
                                SetSlowCmd, PlaceInv, queueVars
    <3>2. slow.code # NoCmd => slow'.code # NoCmd
      BY <1>1, <2>1, NoCmds DEF HandleGotCfis, RejectCmd, InsertEq, StoreSlowCmd,
                                SetSlowCmd, queueVars
    <3>3. xfer' # NoCmd => left' > 0
      BY <1>1 DEF HandleGotCfis, RejectCmd, InsertEq, StoreSlowCmd, StartTransfer, PlaceInv
    <3> QED BY <1>1, <2>1, <3>1, <3>2, <3>3 DEF HandleGotCfis, PlaceInv, mainVars
  <2>7. HeldInv'
    <3>1. CASE RejectCmd \/ StoreSlowCmd
      BY <3>1 DEF RejectCmd, StoreSlowCmd, HeldInv, queueVars
    <3>2. CASE InsertEq
      <4>1. /\ eq' = Append(eq, fis) /\ Len(eq') = Len(eq) + 1
            /\ eq'[Len(eq')] = fis
        BY <2>1, <3>2 DEF InsertEq, QueueTypeOK
      <4>2. CASE Len(eq) + 1 >= EqLimit
        BY <2>1, <3>2, <4>1, <4>2, NoCmds DEF InsertEq, HeldInv
      <4>3. CASE ~(Len(eq) + 1 >= EqLimit)
        <5>1. eqFull' = eqFull /\ Len(eq) \in Nat
          BY <3>2, <4>3 DEF InsertEq, QueueTypeOK
        <5> QED BY <4>3, <5>1 DEF HeldInv
      <4> QED BY <4>2, <4>3
    <3> QED BY <1>1, <3>1, <3>2 DEF HandleGotCfis
  <2> QED BY <2>2, <2>3, <2>4, <2>5, <2>6, <2>7
<1>2. CASE HandleSrst \/ HandlePhyOnline
  <2>1. MainTypeOK' /\ DataTypeOK' /\ FisTypeOK'
    BY <1>2 DEF HandleSrst, HandlePhyOnline, MainTypeOK, DataTypeOK, FisTypeOK, mainVars, dataVars
  <2>2. QueueTypeOK'
    BY <1>2 DEF HandleSrst, HandlePhyOnline, SetSlowCmd, QueueTypeOK
  <2>3. HostTypeOK' /\ HistoryTypeOK'
    BY <1>2 DEF HandleSrst, HandlePhyOnline, HostTypeOK, HistoryTypeOK, hostVars, answerVars
  <2>4. PlaceInv' /\ HeldInv'
    BY <1>2, NoCmds DEF HandleSrst, HandlePhyOnline, SetSlowCmd, PlaceInv, HeldInv,
                        mainVars, dataVars
  <2> QED BY <2>1, <2>2, <2>3, <2>4
<1> QED BY <1>1, <1>2 DEF FiqStep

LEMMA TransferStepIInv == IInv /\ TransferStep => IInv'
<1> SUFFICES ASSUME IInv, TransferStep PROVE IInv'
  OBVIOUS
<1> USE DEF IInv, TypeOK
<1>1. CompletePage /\ xfer \in Cmds
  BY DEF TransferStep, ReceivePage, SendPage
<1>2. left > 0
  BY <1>1, NoCmds DEF PlaceInv
<1>3. MainTypeOK' /\ QueueTypeOK' /\ FisTypeOK'
  BY <1>1 DEF CompletePage, MainTypeOK, QueueTypeOK, FisTypeOK, mainVars, queueVars, fisVars
<1>4. HostTypeOK' /\ HistoryTypeOK'
  <2>1. CASE left = 1
    <3>1. Answer(xfer) /\ UNCHANGED <<link, ops, resets>> /\ exec' \in Seq(Cmds)
      BY <1>1, <2>1 DEF CompletePage, HistoryTypeOK
    <3> QED BY <1>1, <3>1, AnswerType
  <2>2. CASE left # 1
    BY <1>1, <2>2 DEF CompletePage, HostTypeOK, HistoryTypeOK, answerVars
  <2> QED BY <2>1, <2>2
<1>5. wr' \in Ring(NumWrBufs) /\ rd' \in Ring(NumRdBufs)
  <2>1. wr \in Ring(NumWrBufs) /\ rd \in Ring(NumRdBufs)
    BY DEF DataTypeOK
  <2>2. CASE ReceivePage
    BY <1>1, <2>1, <2>2, BufsPositive, RingMove DEF ReceivePage
  <2>3. CASE SendPage
    BY <1>1, <2>1, <2>3, BufsPositive, RingMove DEF SendPage
  <2> QED BY <2>2, <2>3 DEF TransferStep
<1>6. DataTypeOK'
  BY <1>1, <1>2, <1>5 DEF CompletePage, DataTypeOK
<1>7. PlaceInv' /\ HeldInv'
  BY <1>1, <1>2 DEF CompletePage, DataTypeOK, PlaceInv, HeldInv, mainVars, queueVars, fisVars
<1> QED BY <1>3, <1>4, <1>6, <1>7

LEMMA HostStepIInv == IInv /\ HostStep => IInv'
<1> SUFFICES ASSUME IInv, HostStep PROVE IInv'
  OBVIOUS
<1> USE DEF IInv, TypeOK
<1>1. ASSUME NEW op \in Ops, HostCommand(op) PROVE IInv'
  <2>1. /\ ops' \in Seq(Ops) /\ Len(ops') = Len(ops) + 1 /\ Len(ops') <= MaxCmds
        /\ cmd' = Len(ops) + 1 /\ fis' = Len(ops) + 1
    BY <1>1 DEF HostCommand, HostTypeOK
  <2>2. Len(ops) + 1 \in Cmds
    BY <2>1 DEF Cmds, HostTypeOK
  <2>3. HostTypeOK' /\ FisTypeOK'
    BY <1>1, <2>1, <2>2 DEF HostCommand, HostTypeOK, FisTypeOK
  <2>4. MainTypeOK' /\ QueueTypeOK' /\ DataTypeOK' /\ HistoryTypeOK'
    BY <1>1 DEF HostCommand, MainTypeOK, QueueTypeOK, DataTypeOK, HistoryTypeOK,
                mainVars, queueVars, dataVars, answerVars
  <2>5. PlaceInv' /\ HeldInv'
    BY <1>1, <2>1, <2>2, NoCmds DEF HostCommand, PlaceInv, HeldInv,
                                    mainVars, queueVars, dataVars
  <2> QED BY <2>3, <2>4, <2>5
<1>2. CASE HostSrst \/ HostSrstClear
  <2>1. MainTypeOK' /\ QueueTypeOK' /\ DataTypeOK' /\ HistoryTypeOK'
    BY <1>2 DEF HostSrst, HostSrstClear, MainTypeOK, QueueTypeOK, DataTypeOK, HistoryTypeOK,
                mainVars, queueVars, dataVars, answerVars
  <2>2. FisTypeOK' /\ HostTypeOK'
    <3>1. FisTypeOK'
      BY <1>2 DEF HostSrst, HostSrstClear, FisTypeOK
    <3>2. resets' \in 0 .. MaxResets
      BY <1>2 DEF HostSrst, HostSrstClear, HostTypeOK
    <3>3. link' \in BOOLEAN /\ cmd' \in Cmds \cup {Reset, NoCmd} /\ ops' = ops
      BY <1>2 DEF HostSrst, HostSrstClear, HostTypeOK
    <3> QED BY <3>1, <3>2, <3>3 DEF HostTypeOK
  <2>3. PlaceInv' /\ HeldInv'
    BY <1>2 DEF HostSrst, HostSrstClear, PlaceInv, HeldInv, mainVars, queueVars, dataVars
  <2> QED BY <2>1, <2>2, <2>3
<1>3. CASE LinkLost \/ LinkBack
  <2>1. MainTypeOK' /\ QueueTypeOK' /\ DataTypeOK' /\ HistoryTypeOK'
    BY <1>3 DEF LinkLost, LinkBack, MainTypeOK, QueueTypeOK, DataTypeOK, HistoryTypeOK,
                mainVars, queueVars, dataVars, answerVars
  <2>2. FisTypeOK' /\ HostTypeOK'
    <3>1. FisTypeOK'
      BY <1>3 DEF LinkLost, LinkBack, FisTypeOK
    <3>2. resets' \in 0 .. MaxResets
      BY <1>3 DEF LinkLost, LinkBack, HostTypeOK
    <3>3. link' \in BOOLEAN /\ cmd' \in Cmds \cup {Reset, NoCmd} /\ ops' = ops
      BY <1>3 DEF LinkLost, LinkBack, HostTypeOK
    <3> QED BY <3>1, <3>2, <3>3 DEF HostTypeOK
  <2>3. PlaceInv' /\ HeldInv'
    BY <1>3 DEF LinkLost, LinkBack, PlaceInv, HeldInv, mainVars, queueVars, dataVars
  <2> QED BY <2>1, <2>2, <2>3
<1> QED BY <1>1, <1>2, <1>3 DEF HostStep

LEMMA StutterIInv == IInv /\ UNCHANGED vars => IInv'
<1> SUFFICES ASSUME IInv, UNCHANGED vars PROVE IInv'
  OBVIOUS
<1> USE DEF IInv, TypeOK, vars, mainVars, queueVars, dataVars, fisVars, hostVars, answerVars
<1>1. MainTypeOK' /\ QueueTypeOK' /\ DataTypeOK' /\ FisTypeOK' /\ HostTypeOK' /\ HistoryTypeOK'
  BY DEF MainTypeOK, QueueTypeOK, DataTypeOK, FisTypeOK, HostTypeOK, HistoryTypeOK
<1>2. PlaceInv' /\ HeldInv'
  BY DEF PlaceInv, HeldInv
<1> QED BY <1>1, <1>2

LEMMA IInvHolds == Spec => []IInv
<1>1. IInv /\ [Next]_vars => IInv'
  BY MainStepIInv, FiqStepIInv, TransferStepIInv, HostStepIInv, StutterIInv DEF Next
<1> QED BY InitIInv, <1>1, PTL DEF Spec

\* Every variable of the host interface keeps its type, whatever the host does.
THEOREM HostTypeCorrect == Spec => []TypeOK
<1>1. IInv => TypeOK
  BY DEF IInv
<1> QED BY IInvHolds, <1>1, PTL

\* A command held back because the event queue was full (sata_isr.c:217-221)
\* is the last entry of the queue, until eventq_get starts it: a reset or a
\* loss of the link never leaves eq_full set with nothing to clear it.
THEOREM HeldCommandQueued == Spec => []HeldIsQueued
<1>1. IInv => HeldIsQueued
  <2> SUFFICES ASSUME IInv, eqFull PROVE eq # <<>> /\ Last(eq) = held
    BY DEF HeldIsQueued
  <2>1. eq \in Seq(Cmds) /\ Len(eq) >= EqLimit /\ eq[Len(eq)] = held
    BY DEF IInv, TypeOK, QueueTypeOK, HeldInv
  <2> QED BY <2>1 DEF Last
<1> QED BY IInvHolds, <1>1, PTL
-----------------------------------------------------------------------------
(* The order of the commands, and the bound of the queue.                  *)

\* The host may issue a command; one is waiting for the interrupt; a slow
\* command is wanted or runs.
HostFree   == link /\ ~ctl /\ cmd = NoCmd
Pending    == "CMD_RECV" \in intr
SlowActive == pc \in {"found", "run"} \/ (slow.status = "PENDING" /\ pc # "clear")

\* The commands given to the FTL, those in the queue, the slow one on its way
\* to its function, and the one waiting for the interrupt.
Executed == ToSet(exec)
Queued   == ToSet(eq)
SlowCode ==
  IF pc = "run" THEN {cur} \cap Cmds
  ELSE IF pc = "found" \/ (slow.status = "PENDING" /\ pc # "clear") THEN {slow.code} \cap Cmds
  ELSE {}
FisCode  == IF Pending THEN {fis} ELSE {}

\* While the host waits for a command, there is no reset and no other command.
HostInv ==
  /\ intr # {} => ~HostFree
  /\ cmd \in Cmds => link /\ ~ctl /\ intr \subseteq {"CMD_RECV"} /\ cmd = Len(ops)
  /\ Pending => fis = Len(ops) /\ xfer # fis /\ (cmd \in Cmds => cmd = fis)
  /\ xfer \in Cmds => xfer <= Len(ops)
  /\ cmd # NoCmd => link

\* While a slow command is wanted the host can give no other; and between its
\* look at the queue and the next one Main meets one new command at most.
SlowInv ==
  /\ SlowActive => /\ ~Pending /\ ~HostFree
                   /\ cmd \in Cmds => ops[cmd] = "flush"
  /\ pc \in {"slow", "found", "run", "clear"} =>
       /\ Len(eq) <= 1
       /\ eq # <<>> \/ pc # "slow" => ~Pending /\ (HostFree => quick)

\* The host waits for the last command of a full queue.
FullInv ==
  Len(eq) >= EqLimit =>
    /\ eqFull /\ Len(eq) = EqLimit /\ ~HostFree /\ ~Pending
    /\ cmd \in Cmds => xfer # cmd

Increasing(s) == \A i, j \in 1 .. Len(s) : i < j => s[i] < s[j]
Before(S, R)  == \A a \in S, b \in R : a < b

\* Commands are in the order of their numbers: those executed, those queued,
\* and one on the way.
OrderInv ==
  /\ Increasing(exec) /\ Increasing(eq)
  /\ Before(Executed, Queued \cup SlowCode \cup FisCode)
  /\ Before(Queued, SlowCode \cup FisCode)
  /\ Executed \cup Queued \cup SlowCode \cup FisCode \subseteq 1 .. Len(ops)
  /\ pc \in {"slow", "found", "run"} /\ SlowCode # {} => eq = <<>>

\* Each command is where its kind belongs.
KindInv ==
  /\ \A c \in Queued : ops[c] \in {"read", "write"}
  /\ \A c \in SlowCode : ops[c] = "flush"
  /\ \A c \in Executed : ~OutOfRange(c)

\* A command whose data are transferred does not get lost.
AckInv ==
  /\ \A c \in acked : c <= Len(ops) /\ (ops[c] = "write" => c \in Executed \cup Queued)
  /\ xfer \in Cmds => xfer \in Executed \cup Queued

\* Without a reset no command gets lost.
NothingLost ==
  resets = 0 =>
    /\ \A c \in 1 .. Len(ops) :
         OutOfRange(c) \/ c \in Executed \cup Queued \cup SlowCode \cup FisCode
    /\ "REG_FIS_RECV" \notin intr
    /\ "PHY_ONLINE" \in intr => ops = <<>>
    /\ link /\ ~ctl

LineInv == OrderInv /\ KindInv /\ AckInv /\ NothingLost
OInv    == IInv /\ HostInv /\ SlowInv /\ FullInv /\ LineInv

\* Sequences as sets.
LEMMA SeqAppend ==
  ASSUME NEW s \in Seq(Cmds), NEW c \in Cmds
  PROVE  /\ Append(s, c) \in Seq(Cmds) /\ Len(Append(s, c)) = Len(s) + 1
         /\ ToSet(Append(s, c)) = ToSet(s) \cup {c}
         /\ Increasing(s) /\ Before(ToSet(s), {c}) => Increasing(Append(s, c))
<1>1. /\ Append(s, c) \in Seq(Cmds) /\ Len(Append(s, c)) = Len(s) + 1
      /\ \A i \in 1 .. Len(s) : Append(s, c)[i] = s[i]
      /\ Append(s, c)[Len(s) + 1] = c /\ Len(s) \in Nat
      /\ DOMAIN Append(s, c) = 1 .. Len(s) + 1 /\ DOMAIN s = 1 .. Len(s)
  OBVIOUS
<1> DEFINE t == Append(s, c)
<1> HIDE DEF t
<1>2. ToSet(t) = ToSet(s) \cup {c}
  BY <1>1 DEF ToSet, t
<1>3. Increasing(s) /\ Before(ToSet(s), {c}) => Increasing(t)
  BY <1>1 DEF Increasing, Before, ToSet, t
<1> QED BY <1>1, <1>2, <1>3 DEF t

LEMMA SeqTail ==
  ASSUME NEW s \in Seq(Cmds), s # <<>>
  PROVE  /\ Tail(s) \in Seq(Cmds) /\ Len(Tail(s)) = Len(s) - 1
         /\ Head(s) \in Cmds /\ ToSet(s) = {Head(s)} \cup ToSet(Tail(s))
         /\ Increasing(s) => Increasing(Tail(s)) /\ Before({Head(s)}, ToSet(Tail(s)))
<1>1. /\ Tail(s) \in Seq(Cmds) /\ Len(Tail(s)) = Len(s) - 1 /\ Head(s) = s[1]
      /\ \A i \in 1 .. Len(s) - 1 : Tail(s)[i] = s[i + 1]
      /\ Len(s) \in Nat /\ Len(s) > 0 /\ s[1] \in Cmds
      /\ DOMAIN Tail(s) = 1 .. Len(s) - 1 /\ DOMAIN s = 1 .. Len(s)
  OBVIOUS
<1> DEFINE t == Tail(s)
           h == Head(s)
<1> HIDE DEF t, h
<1>2. ToSet(s) = {h} \cup ToSet(t)
  <2>1. ToSet(s) \subseteq {h} \cup ToSet(t)
    <3> SUFFICES ASSUME NEW i \in 1 .. Len(s) PROVE s[i] \in {h} \cup ToSet(t)
      BY <1>1 DEF ToSet
    <3>1. CASE i = 1
      BY <1>1, <3>1 DEF h
    <3>2. CASE i # 1
      <4>1. i - 1 \in 1 .. Len(s) - 1 /\ t[i - 1] = s[i]
        BY <1>1, <3>2 DEF t
      <4> QED BY <1>1, <4>1 DEF ToSet, t
    <3> QED BY <3>1, <3>2
  <2>2. {h} \cup ToSet(t) \subseteq ToSet(s)
    BY <1>1 DEF ToSet, t, h
  <2> QED BY <2>1, <2>2
<1>3. Increasing(s) => Increasing(t) /\ Before({h}, ToSet(t))
  BY <1>1 DEF Increasing, Before, ToSet, t, h
<1> QED BY <1>1, <1>2, <1>3 DEF t, h

LEMMA EmptySet == ToSet(<<>>) = {} /\ Increasing(<<>>)
BY DEF ToSet, Increasing

LEMMA Answered ==
  ASSUME NEW c, Answer(c)
  PROVE  /\ cmd' = cmd \/ (cmd = c /\ cmd' = NoCmd /\ link /\ quick')
         /\ quick => quick'
         /\ link => quick'
         /\ acked \subseteq acked' /\ acked' \subseteq acked \cup ({c} \cap {cmd} \cap Cmds)
BY DEF Answer

\* What the types say where the proofs need it.
LEMMA OTypes ==
  ASSUME OInv
  PROVE  /\ eq \in Seq(Cmds) /\ exec \in Seq(Cmds) /\ ops \in Seq(Ops)
         /\ Len(ops) \in Nat /\ Len(eq) \in Nat
         /\ Pending => fis \in Cmds
         /\ acked \subseteq Cmds /\ Cmds \subseteq Nat
         /\ intr \subseteq {"CMD_RECV", "REG_FIS_RECV", "PHY_ONLINE"}
BY DEF OInv, IInv, TypeOK, QueueTypeOK, HistoryTypeOK, HostTypeOK, FisTypeOK, PlaceInv,
       Pending, Cmds

\* The command held back is in the queue.
LEMMA HeldQueued == ASSUME OInv, eqFull PROVE held \in Queued
<1>1. eq \in Seq(Cmds) /\ Len(eq) \in Nat /\ Len(eq) >= 1 /\ eq[Len(eq)] = held
  BY DEF OInv, IInv, TypeOK, QueueTypeOK, HeldInv
<1> QED BY <1>1 DEF Queued, ToSet

LEMMA InitOInv == Init => OInv
<1> SUFFICES ASSUME Init PROVE OInv
  OBVIOUS
<1> USE DEF Init
<1>1. IInv
  BY InitIInv
<1>2. HostInv /\ SlowInv /\ FullInv
  BY NoCmds DEF HostInv, SlowInv, FullInv, HostFree, Pending, SlowActive
<1>3. Executed = {} /\ Queued = {} /\ SlowCode = {} /\ FisCode = {}
  BY EmptySet DEF Executed, Queued, SlowCode, FisCode, Pending
<1>4. Increasing(exec) /\ Increasing(eq)
  BY EmptySet
<1>5. LineInv
  BY <1>3, <1>4, NoCmds DEF LineInv, OrderInv, KindInv, AckInv, NothingLost, Before
<1> QED BY <1>1, <1>2, <1>5 DEF OInv

-----------------------------------------------------------------------------
(* What the host waits for. *)

LEMMA HostInvMain == ASSUME OInv, MainStep PROVE HostInv'
<1> USE DEF OInv, HostInv, HostFree, Pending, hostVars, fisVars, queueVars, dataVars
<1>1. CASE GetEvent
  <2>1. eqFull => held <= Len(ops)
    BY HeldQueued, OTypes DEF LineInv, OrderInv
  <2> QED BY <1>1, <2>1 DEF GetEvent, NoAnswer, At, StartTransfer
<1>2. CASE NoEvent \/ NoSlowCmd \/ TakeSlowCmd \/ SearchAtaFunction \/ ClearSlowCmd
  BY <1>2 DEF NoEvent, NoSlowCmd, TakeSlowCmd, SearchAtaFunction, ClearSlowCmd, NoAnswer
<1>3. CASE RunSlowCmd
  BY <1>3, Answered, NoCmds DEF RunSlowCmd, At
<1>4. CASE FtlWritePage \/ FtlReadPage
  BY <1>4 DEF FtlWritePage, FtlReadPage, PageDone, NoAnswer
<1> QED BY <1>1, <1>2, <1>3, <1>4 DEF MainStep

LEMMA HostInvFiq == ASSUME OInv, FiqStep PROVE HostInv'
<1> USE DEF OInv, HostInv, HostFree, Pending, hostVars, fisVars, queueVars, dataVars
<1>1. CASE HandleGotCfis
  <2>0. fis \in Cmds /\ intr' = intr \ {"CMD_RECV"} /\ (cmd = fis => intr' = {})
        /\ fis = Len(ops) /\ fis # NoCmd
    BY <1>1, OTypes, NoCmds DEF HandleGotCfis
  <2>1. CASE RejectCmd
    <3>1. UNCHANGED <<link, ctl, ops, xfer>>
      BY <1>1, <2>1 DEF HandleGotCfis, RejectCmd
    <3>2. cmd' = cmd \/ (cmd = fis /\ cmd' = NoCmd)
      BY <2>1, Answered DEF RejectCmd
    <3> QED BY <2>0, <3>1, <3>2, NoCmds
  <2>2. CASE InsertEq \/ StoreSlowCmd
    BY <1>1, <2>2, NoCmds DEF HandleGotCfis, InsertEq, StoreSlowCmd, StartTransfer
  <2> QED BY <1>1, <2>1, <2>2 DEF HandleGotCfis
<1>2. CASE HandleSrst \/ HandlePhyOnline
  BY <1>2 DEF HandleSrst, HandlePhyOnline
<1> QED BY <1>1, <1>2 DEF FiqStep

LEMMA HostInvTransfer == ASSUME OInv, TransferStep PROVE HostInv'
<1> USE DEF OInv, HostInv, HostFree, Pending, hostVars, fisVars, queueVars, dataVars
<1>1. /\ CompletePage /\ xfer \in Cmds /\ cmd = xfer
  BY DEF TransferStep, ReceivePage, SendPage
<1>2. CASE left = 1
  BY <1>1, <1>2, Answered, NoCmds DEF CompletePage
<1>3. CASE left # 1
  BY <1>1, <1>3 DEF CompletePage, answerVars
<1> QED BY <1>2, <1>3

LEMMA HostInvHost == ASSUME OInv, HostStep PROVE HostInv'
<1> USE DEF OInv, HostInv, HostFree, Pending, hostVars, fisVars, queueVars, dataVars
<1>1. ASSUME NEW op \in Ops, HostCommand(op) PROVE HostInv'
  <2>1. Len(ops) \in Nat /\ Len(ops') = Len(ops) + 1
    BY <1>1 DEF HostCommand, IInv, TypeOK, HostTypeOK
  <2> QED BY <1>1, <2>1, NoCmds DEF HostCommand, Cmds
<1>2. CASE HostSrst \/ HostSrstClear
  BY <1>2, NoCmds DEF HostSrst, HostSrstClear
<1>3. CASE LinkLost
  BY <1>3, NoCmds, OTypes DEF LinkLost
<1>4. CASE LinkBack
  BY <1>4, NoCmds DEF LinkBack
<1> QED BY <1>1, <1>2, <1>3, <1>4 DEF HostStep

-----------------------------------------------------------------------------
(* The slot, and the full queue. *)

LEMMA SlowInvMain == ASSUME OInv, MainStep PROVE SlowInv' /\ FullInv'
<1> USE DEF OInv, SlowInv, FullInv, HostFree, Pending, SlowActive, hostVars, fisVars, queueVars,
        dataVars, At
<1>0. eq \in Seq(Cmds) /\ Len(eq) \in Nat /\ (eq = <<>> => Len(eq) = 0) /\ intr = {}
  BY OTypes DEF MainStep, GetEvent, NoEvent, NoSlowCmd, TakeSlowCmd, SearchAtaFunction,
     RunSlowCmd, ClearSlowCmd, FtlWritePage, FtlReadPage
<1>1. CASE GetEvent
  <2>1. Len(eq') = Len(eq) - 1
    BY <1>0, <1>1, SeqTail DEF GetEvent
  <2>2. pc = "poll" /\ pc' = "ftl" /\ UNCHANGED <<slow, hostVars, intr, ctl>>
    BY <1>1 DEF GetEvent, NoAnswer
  <2>3. SlowInv'
    BY <1>0, <2>2
  <2>4. FullInv'
    BY <1>0, <2>1
  <2> QED BY <2>3, <2>4
<1>2. CASE NoEvent
  BY <1>0, <1>2 DEF NoEvent, NoAnswer
<1>3. CASE NoSlowCmd
  BY <1>0, <1>3 DEF NoSlowCmd, NoAnswer
<1>4. CASE TakeSlowCmd
  <2>1. slow'.status = "BUSY"
    BY <1>4 DEF TakeSlowCmd, IInv, TypeOK, QueueTypeOK
  <2> QED BY <1>0, <1>4, <2>1 DEF TakeSlowCmd, NoAnswer
<1>5. CASE SearchAtaFunction
  BY <1>0, <1>5 DEF SearchAtaFunction, NoAnswer
<1>6. CASE RunSlowCmd
  BY <1>0, <1>6, Answered DEF RunSlowCmd
<1>7. CASE ClearSlowCmd
  <2>1. slow'.status = "NONE"
    BY <1>7 DEF ClearSlowCmd, IInv, TypeOK, QueueTypeOK
  <2> QED BY <1>0, <1>7, <2>1 DEF ClearSlowCmd, NoAnswer
<1>8. CASE FtlWritePage \/ FtlReadPage
  BY <1>0, <1>8 DEF FtlWritePage, FtlReadPage, PageDone, NoAnswer
<1> QED BY <1>1, <1>2, <1>3, <1>4, <1>5, <1>6, <1>7, <1>8 DEF MainStep

LEMMA SlowInvFiq == ASSUME OInv, FiqStep PROVE SlowInv' /\ FullInv'
<1> USE DEF OInv, SlowInv, FullInv, HostFree, Pending, SlowActive, hostVars, fisVars, queueVars,
        dataVars, mainVars
<1>0. eq \in Seq(Cmds) /\ Len(eq) \in Nat /\ ops \in Seq(Ops) /\ Len(ops) \in Nat
  BY OTypes
<1>1. CASE HandleGotCfis
  <2>0. /\ fis \in Cmds /\ "CMD_RECV" \notin intr' /\ (cmd = fis => intr' = {})
        /\ fis = Len(ops) /\ fis # NoCmd /\ (cmd \in Cmds => cmd = fis) /\ xfer # fis
        /\ ~HostFree /\ Len(eq) < EqLimit
        /\ UNCHANGED <<pc, link, ctl, ops>>
    BY <1>0, <1>1, OTypes, NoCmds DEF HandleGotCfis, HostInv
  <2>1. ~SlowActive /\ (pc \in {"slow", "found", "run", "clear"} => pc = "slow" /\ eq = <<>>)
    BY <1>1 DEF HandleGotCfis
  <2>2. CASE RejectCmd
    <3>1. UNCHANGED <<eq, slow, xfer>>
      BY <2>2 DEF RejectCmd
    <3>2. cmd' = cmd \/ (cmd = fis /\ cmd' = NoCmd /\ quick')
      BY <2>2, Answered DEF RejectCmd
    <3> QED BY <1>0, <2>0, <2>1, <3>1, <3>2
  <2>3. CASE InsertEq
    <3>1. Len(eq') = Len(eq) + 1 /\ (eq = <<>> => Len(eq) = 0)
      BY <1>0, <2>0, <2>3, SeqAppend DEF InsertEq
    <3>2. UNCHANGED <<slow, cmd, quick>>
      BY <2>3 DEF InsertEq, answerVars
    <3>3. SlowInv'
      BY <2>0, <2>1, <3>1, <3>2
    <3>4. FullInv'
      BY <1>0, <2>0, <2>3, <3>1, <3>2 DEF InsertEq
    <3> QED BY <3>3, <3>4
  <2>4. CASE StoreSlowCmd
    <3>1. UNCHANGED <<eq, cmd, xfer>>
      BY <2>4 DEF StoreSlowCmd
    <3>2. ops[fis] = "flush"
      <4>1. fis \in 1 .. Len(ops)
        BY <1>0, <2>0 DEF Cmds
      <4>2. ops[fis] \in Ops
        BY <1>0, <4>1
      <4> QED BY <2>4, <4>2 DEF StoreSlowCmd, OutOfRange, Ops
    <3>3. SlowInv'
      BY <2>0, <2>1, <3>1, <3>2
    <3>4. FullInv'
      BY <1>0, <2>0, <3>1
    <3> QED BY <3>3, <3>4
  <2> QED BY <1>1, <2>2, <2>3, <2>4 DEF HandleGotCfis
<1>2. CASE HandleSrst \/ HandlePhyOnline
  <2>1. cmd \notin Cmds /\ ~HostFree /\ "CMD_RECV" \notin intr
    BY <1>2 DEF HostInv, HandleSrst, HandlePhyOnline
  <2> QED BY <1>0, <1>2, <2>1 DEF HandleSrst, HandlePhyOnline, answerVars
<1> QED BY <1>1, <1>2 DEF FiqStep

LEMMA SlowInvTransfer == ASSUME OInv, TransferStep PROVE SlowInv' /\ FullInv'
<1> USE DEF OInv, SlowInv, FullInv, HostFree, Pending, SlowActive, hostVars, fisVars, queueVars,
        dataVars, mainVars
<1>1. /\ CompletePage /\ xfer \in Cmds /\ cmd = xfer /\ link /\ ops[xfer] \in {"read", "write"}
  BY DEF TransferStep, ReceivePage, SendPage
<1>2. CASE left = 1
  <2>1. UNCHANGED <<pc, eq, eqFull, slow, intr, ctl, link, ops>>
    BY <1>1 DEF CompletePage
  <2>2. quick' /\ (cmd' = cmd \/ cmd' = NoCmd) /\ xfer' = NoCmd
    BY <1>1, <1>2, Answered DEF CompletePage
  <2> QED BY <1>1, <2>1, <2>2, NoCmds
<1>3. CASE left # 1
  BY <1>1, <1>3 DEF CompletePage, answerVars
<1> QED BY <1>2, <1>3

LEMMA SlowInvHost == ASSUME OInv, HostStep PROVE SlowInv' /\ FullInv'
<1> USE DEF OInv, SlowInv, FullInv, HostFree, Pending, SlowActive, hostVars, fisVars, queueVars,
        dataVars, mainVars, answerVars
<1>0. UNCHANGED <<pc, eq, eqFull, slow, quick>>
  BY DEF HostStep, HostCommand, HostSrst, HostSrstClear, LinkLost, LinkBack
<1>1. ASSUME NEW op \in Ops, HostCommand(op) PROVE SlowInv' /\ FullInv'
  <2>1. HostFree /\ ~SlowActive /\ Len(eq) < EqLimit
    BY <1>1, OTypes DEF HostCommand
  <2>2. pc \in {"slow", "found", "run", "clear"} => pc = "slow" /\ eq = <<>>
    BY <1>1, <2>1 DEF HostCommand, TightPlaces
  <2>3. cmd' # NoCmd
    BY <1>1, OTypes DEF HostCommand, NoCmd
  <2> QED BY <1>0, <2>1, <2>2, <2>3, OTypes
<1>2. CASE HostSrst \/ HostSrstClear
  BY <1>0, <1>2, NoCmds DEF HostSrst, HostSrstClear
<1>3. CASE LinkLost
  BY <1>0, <1>3, NoCmds DEF LinkLost
<1>4. CASE LinkBack
  BY <1>0, <1>4, NoCmds DEF LinkBack, HostInv
<1> QED BY <1>1, <1>2, <1>3, <1>4 DEF HostStep

-----------------------------------------------------------------------------
(* The line of the commands. *)

\* A step that moves no command keeps the line.
LEMMA QuietStep ==
  ASSUME OInv, UNCHANGED <<exec, eq, ops, resets, link, ctl, acked, xfer, intr, fis>>,
         SlowCode' = SlowCode,
         pc' \in {"slow", "found", "run"} /\ SlowCode' # {} => eq = <<>>
  PROVE  LineInv'
<1>1. UNCHANGED <<Executed, Queued, FisCode>>
  BY DEF Executed, Queued, FisCode, Pending
<1>2. OrderInv' /\ KindInv'
  BY <1>1 DEF OInv, LineInv, OrderInv, KindInv, OutOfRange
<1>3. AckInv' /\ NothingLost'
  BY <1>1 DEF OInv, LineInv, AckInv, NothingLost, OutOfRange
<1> QED BY <1>2, <1>3 DEF LineInv

LEMMA LineMain == ASSUME OInv, MainStep PROVE LineInv'
<1> USE DEF At, hostVars, fisVars, queueVars, dataVars
<1>0. /\ intr = {} /\ UNCHANGED <<intr, fis, ops, resets, link, ctl>>
      /\ FisCode = {} /\ FisCode' = {}
  BY DEF MainStep, GetEvent, NoEvent, NoSlowCmd, TakeSlowCmd, SearchAtaFunction, RunSlowCmd,
     ClearSlowCmd, FtlWritePage, FtlReadPage, NoAnswer, PageDone, FisCode, Pending
<1>1. CASE GetEvent
  <2> DEFINE h == Head(eq)
  <2>1. /\ h \in Cmds /\ Queued = {h} \cup Queued' /\ Increasing(eq')
        /\ Before({h}, Queued') /\ Executed' = Executed \cup {h} /\ Increasing(exec')
    <3>1. eq # <<>> /\ eq' = Tail(eq) /\ exec' = Append(exec, h)
      BY <1>1 DEF GetEvent
    <3>2. Increasing(eq) /\ Increasing(exec) /\ Before(Executed, Queued)
      BY DEF OInv, LineInv, OrderInv, Before
    <3>3. h \in Cmds /\ Queued = {h} \cup Queued' /\ Increasing(eq') /\ Before({h}, Queued')
      BY <3>1, <3>2, OTypes, SeqTail DEF Queued
    <3>4. Before(Executed, {h})
      BY <3>2, <3>3 DEF Before
    <3>5. Executed' = Executed \cup {h} /\ Increasing(exec')
      BY <3>1, <3>2, <3>3, <3>4, OTypes, SeqAppend DEF Executed
    <3> QED BY <3>3, <3>5
  <2> HIDE DEF h
  <2>2. UNCHANGED <<ops, resets, acked>> /\ pc' = "ftl" /\ xfer' \in {xfer, held}
        /\ (xfer' # xfer => eqFull) /\ SlowCode' = SlowCode
    BY <1>1 DEF GetEvent, StartTransfer, NoAnswer, SlowCode
  <2>3. xfer' # xfer => xfer' \in Queued
    BY <2>2, HeldQueued
  <2>4. OrderInv'
    BY <1>0, <2>1, <2>2 DEF OInv, LineInv, OrderInv, Before
  <2>5. KindInv'
    BY <1>0, <2>1, <2>2 DEF OInv, LineInv, KindInv, OutOfRange
  <2>6. AckInv' /\ NothingLost'
    BY <1>0, <2>1, <2>2, <2>3 DEF OInv, LineInv, AckInv, NothingLost, OutOfRange
  <2> QED BY <2>4, <2>5, <2>6 DEF LineInv
<1>2. CASE NoEvent \/ NoSlowCmd
  <2>1. SlowCode' = SlowCode
    BY <1>2 DEF NoEvent, NoSlowCmd, SlowCode
  <2>2. pc' \in {"slow", "found", "run"} => eq = <<>>
    BY <1>2 DEF NoEvent, NoSlowCmd
  <2>3. UNCHANGED <<exec, eq, acked, xfer>>
    BY <1>2 DEF NoEvent, NoSlowCmd, NoAnswer
  <2> QED BY <1>0, <2>1, <2>2, <2>3, QuietStep
<1>3. CASE TakeSlowCmd
  <2>1. SlowCode' = SlowCode
    <3>1. slow'.code = slow.code
      BY <1>3 DEF TakeSlowCmd, OInv, IInv, TypeOK, QueueTypeOK
    <3> QED BY <1>3, <3>1 DEF TakeSlowCmd, SlowCode
  <2>2. SlowCode # {} => eq = <<>>
    BY <1>3 DEF TakeSlowCmd, OInv, LineInv, OrderInv
  <2>3. UNCHANGED <<exec, eq, acked, xfer>>
    BY <1>3 DEF TakeSlowCmd, NoAnswer
  <2> QED BY <1>0, <2>1, <2>2, <2>3, QuietStep
<1>4. CASE SearchAtaFunction
  <2>1. SlowCode' = SlowCode
    BY <1>4 DEF SearchAtaFunction, SlowCode
  <2>2. SlowCode # {} => eq = <<>>
    BY <1>4 DEF SearchAtaFunction, OInv, LineInv, OrderInv
  <2>3. UNCHANGED <<exec, eq, acked, xfer>>
    BY <1>4 DEF SearchAtaFunction, NoAnswer
  <2> QED BY <1>0, <2>1, <2>2, <2>3, QuietStep
<1>5. CASE RunSlowCmd
  <2>1. /\ pc = "run" /\ pc' = "clear" /\ UNCHANGED <<eq, xfer, cur>>
        /\ acked' \subseteq acked \cup ({cur} \cap Cmds)
        /\ exec' = IF cur = Reset THEN exec ELSE Append(exec, cur)
    BY <1>5, Answered DEF RunSlowCmd
  <2>2. SlowCode = {cur} \cap Cmds /\ SlowCode' = {} /\ Queued' = Queued
    BY <2>1 DEF SlowCode, Queued
  <2>3. /\ Executed' = Executed \cup SlowCode /\ Increasing(exec')
    <3>1. CASE cur = Reset
      <4>1. exec' = exec /\ SlowCode = {}
        BY <2>1, <2>2, <3>1, NoCmds DEF Reset, Cmds
      <4>2. Executed' = Executed /\ Increasing(exec)
        BY <4>1 DEF Executed, OInv, LineInv, OrderInv
      <4> QED BY <4>1, <4>2
    <3>2. CASE cur # Reset
      <4>1. cur \in Cmds
        BY <2>1, <3>2 DEF OInv, IInv, TypeOK, MainTypeOK, PlaceInv
      <4>2. Before(Executed, {cur}) /\ Increasing(exec)
        BY <2>2, <4>1 DEF OInv, LineInv, OrderInv, Before
      <4>3. exec' = Append(exec, cur) /\ SlowCode = {cur} /\ exec \in Seq(Cmds)
        BY <2>1, <2>2, <3>2, <4>1, OTypes
      <4>4. ToSet(exec') = ToSet(exec) \cup {cur} /\ Increasing(exec')
        BY <4>1, <4>2, <4>3, SeqAppend DEF Executed
      <4> QED BY <4>3, <4>4 DEF Executed
    <3> QED BY <3>1, <3>2
  <2>4. SlowCode # {} => Queued = {}
    BY <2>1, EmptySet DEF OInv, LineInv, OrderInv, Queued
  <2>5. OrderInv'
    BY <1>0, <2>1, <2>2, <2>3, <2>4 DEF OInv, LineInv, OrderInv, Before
  <2>6. KindInv'
    BY <1>0, <2>2, <2>3 DEF OInv, LineInv, KindInv, OutOfRange
  <2>7. AckInv'
    <3>1. \A c \in SlowCode : c <= Len(ops) /\ ops[c] # "write"
      BY OTypes DEF OInv, LineInv, OrderInv, KindInv
    <3> QED BY <1>0, <2>1, <2>2, <2>3, <3>1 DEF OInv, LineInv, AckInv
  <2>8. NothingLost'
    BY <1>0, <2>2, <2>3 DEF OInv, LineInv, NothingLost, OutOfRange
  <2> QED BY <2>5, <2>6, <2>7, <2>8 DEF LineInv
<1>6. CASE ClearSlowCmd
  <2>1. SlowCode' = SlowCode
    <3>1. slow'.status = "NONE"
      BY <1>6 DEF ClearSlowCmd, OInv, IInv, TypeOK, QueueTypeOK
    <3> QED BY <1>6, <3>1 DEF ClearSlowCmd, SlowCode
  <2>2. pc' = "poll" /\ UNCHANGED <<exec, eq, acked, xfer>>
    BY <1>6 DEF ClearSlowCmd, NoAnswer
  <2> QED BY <1>0, <2>1, <2>2, QuietStep
<1>7. CASE FtlWritePage \/ FtlReadPage
  <2>1. pc = "ftl" /\ pc' \in {"poll", "ftl"} /\ UNCHANGED <<exec, eq, acked, xfer, slow>>
    BY <1>7 DEF FtlWritePage, FtlReadPage, PageDone, NoAnswer
  <2>2. SlowCode' = SlowCode
    BY <2>1 DEF SlowCode
  <2> QED BY <1>0, <2>1, <2>2, QuietStep
<1> QED BY <1>1, <1>2, <1>3, <1>4, <1>5, <1>6, <1>7 DEF MainStep

LEMMA LineFiq == ASSUME OInv, FiqStep PROVE LineInv'
<1> USE DEF hostVars, fisVars, queueVars, dataVars, mainVars
<1>1. CASE HandleGotCfis
  <2>1. /\ FisCode = {fis} /\ FisCode' = {} /\ fis \in Cmds /\ SlowCode = {}
        /\ intr' \subseteq intr
        /\ UNCHANGED <<pc, cur, exec, ops, resets, link, ctl, Executed>>
    BY <1>1, OTypes DEF HandleGotCfis, FisCode, Pending, SlowCode, OInv, SlowInv, SlowActive,
                        Executed
  <2>2. pc \notin {"found", "run", "clear"} /\ (pc = "slow" => eq = <<>>)
    BY <1>1 DEF HandleGotCfis, OInv, SlowInv, Pending
  <2>3. CASE RejectCmd
    <3>1. UNCHANGED <<eq, slow, xfer>> /\ OutOfRange(fis) /\ acked' \subseteq acked \cup {fis}
      BY <2>3, Answered DEF RejectCmd
    <3>2. SlowCode' = SlowCode /\ Queued' = Queued
      BY <2>1, <3>1 DEF SlowCode, Queued
    <3>3. OrderInv' /\ KindInv'
      BY <2>1, <3>1, <3>2 DEF OInv, LineInv, OrderInv, KindInv, Before, OutOfRange
    <3>4. AckInv'
      BY <2>1, <3>1, <3>2, OTypes DEF OInv, LineInv, OrderInv, AckInv, OutOfRange
    <3>5. NothingLost'
      BY <2>1, <3>1, <3>2 DEF OInv, LineInv, NothingLost, OutOfRange
    <3> QED BY <3>3, <3>4, <3>5 DEF LineInv
  <2>4. CASE InsertEq
    <3>1. /\ eq' = Append(eq, fis) /\ UNCHANGED <<slow, acked>> /\ xfer' \in {xfer, fis}
          /\ ops[fis] \in {"read", "write"}
      BY <2>4 DEF InsertEq, StartTransfer, answerVars
    <3>2. Before(Queued, {fis}) /\ Increasing(eq)
      BY <2>1 DEF OInv, LineInv, OrderInv, Before
    <3>3. Queued' = Queued \cup {fis} /\ Increasing(eq')
      BY <2>1, <3>1, <3>2, OTypes, SeqAppend DEF Queued
    <3>4. SlowCode' = SlowCode
      BY <2>1, <3>1 DEF SlowCode
    <3>5. OrderInv'
      BY <2>1, <3>1, <3>3, <3>4 DEF OInv, LineInv, OrderInv, Before
    <3>6. KindInv'
      BY <2>1, <3>1, <3>3, <3>4 DEF OInv, LineInv, KindInv, OutOfRange
    <3>7. AckInv' /\ NothingLost'
      BY <2>1, <3>1, <3>3, <3>4 DEF OInv, LineInv, AckInv, NothingLost, OutOfRange
    <3> QED BY <3>5, <3>6, <3>7 DEF LineInv
  <2>5. CASE StoreSlowCmd
    <3>1. /\ slow' = [status |-> "PENDING", code |-> fis] /\ UNCHANGED <<eq, xfer, acked>>
          /\ ~OutOfRange(fis) /\ ops[fis] \notin {"read", "write"}
      BY <2>5 DEF StoreSlowCmd, SetSlowCmd, answerVars
    <3>2. SlowCode' = {fis} /\ Queued' = Queued
      BY <2>1, <2>2, <3>1 DEF SlowCode, Queued
    <3>3. ops[fis] = "flush"
      <4>1. fis \in 1 .. Len(ops)
        BY <2>1, OTypes DEF OInv, LineInv, OrderInv
      <4>2. ops[fis] \in Ops
        BY <4>1, OTypes
      <4> QED BY <3>1, <4>2 DEF OutOfRange, Ops
    <3>4. OrderInv'
      BY <2>1, <2>2, <3>1, <3>2 DEF OInv, LineInv, OrderInv, Before
    <3>5. KindInv'
      BY <2>1, <3>1, <3>2, <3>3 DEF OInv, LineInv, KindInv, OutOfRange
    <3>6. AckInv' /\ NothingLost'
      BY <2>1, <3>1, <3>2 DEF OInv, LineInv, AckInv, NothingLost, OutOfRange
    <3> QED BY <3>4, <3>5, <3>6 DEF LineInv
  <2> QED BY <1>1, <2>3, <2>4, <2>5 DEF HandleGotCfis
<1>2. CASE HandleSrst \/ HandlePhyOnline
  <2>1. /\ FisCode = {} /\ FisCode' = {} /\ intr' \subseteq intr
        /\ UNCHANGED <<pc, cur, exec, eq, ops, resets, link, ctl, acked, xfer>>
    BY <1>2 DEF HandleSrst, HandlePhyOnline, FisCode, Pending, answerVars
  <2>2. Executed' = Executed /\ Queued' = Queued
    BY <2>1 DEF Executed, Queued
  <2>3. SlowCode' \subseteq SlowCode
    BY <1>2, <2>1, NoCmds DEF HandleSrst, HandlePhyOnline, SetSlowCmd, SlowCode
  <2>4. resets = 0 => ops = <<>>
    BY <1>2 DEF HandleSrst, HandlePhyOnline, OInv, LineInv, NothingLost
  <2>5. OrderInv' /\ KindInv'
    BY <2>1, <2>2, <2>3 DEF OInv, LineInv, OrderInv, KindInv, Before, OutOfRange
  <2>6. AckInv' /\ NothingLost'
    <3>1. resets = 0 => 1 .. Len(ops) = {}
      BY <2>4
    <3> QED BY <2>1, <2>2, <3>1 DEF OInv, LineInv, AckInv, NothingLost
  <2> QED BY <2>5, <2>6 DEF LineInv
<1> QED BY <1>1, <1>2 DEF FiqStep

LEMMA LineTransfer == ASSUME OInv, TransferStep PROVE LineInv'
<1> USE DEF hostVars, fisVars, queueVars, dataVars, mainVars
<1>1. /\ CompletePage /\ xfer \in Cmds /\ cmd = xfer
  BY DEF TransferStep, ReceivePage, SendPage
<1>2. UNCHANGED <<pc, cur, exec, eq, slow, intr, fis, ops, resets, link, ctl>>
  BY <1>1 DEF CompletePage
<1>3. acked' \subseteq acked \cup {xfer} /\ xfer' \in {xfer, NoCmd}
  BY <1>1, Answered DEF CompletePage, answerVars
<1>4. UNCHANGED <<Executed, Queued, SlowCode, FisCode>>
  BY <1>2 DEF Executed, Queued, SlowCode, FisCode, Pending
<1>5. OrderInv' /\ KindInv' /\ NothingLost'
  BY <1>2, <1>4 DEF OInv, LineInv, OrderInv, KindInv, NothingLost, OutOfRange
<1>6. AckInv'
  <2>1. xfer \in Executed \cup Queued /\ xfer <= Len(ops)
    BY <1>1 DEF OInv, LineInv, AckInv, HostInv
  <2> QED BY <1>2, <1>3, <1>4, <2>1, NoCmds DEF OInv, LineInv, AckInv
<1> QED BY <1>5, <1>6 DEF LineInv

LEMMA LineHost == ASSUME OInv, HostStep PROVE LineInv'
<1> USE DEF hostVars, fisVars, queueVars, dataVars, mainVars, answerVars
<1>0. UNCHANGED <<pc, cur, exec, eq, slow, acked, Executed, Queued, SlowCode>>
  BY DEF HostStep, HostCommand, HostSrst, HostSrstClear, LinkLost, LinkBack,
         Executed, Queued, SlowCode
<1>1. ASSUME NEW op \in Ops, HostCommand(op) PROVE LineInv'
  <2>1. /\ Len(ops') = Len(ops) + 1 /\ \A c \in 1 .. Len(ops) : ops'[c] = ops[c]
        /\ Len(ops) \in Nat
    BY <1>1, OTypes DEF HostCommand
  <2>2. FisCode = {} /\ FisCode' = {Len(ops) + 1} /\ UNCHANGED <<resets, xfer, link, ctl>>
        /\ intr' = {"CMD_RECV"}
    BY <1>1 DEF HostCommand, FisCode, Pending
  <2>3. Executed \cup Queued \cup SlowCode \subseteq 1 .. Len(ops)
    BY DEF OInv, LineInv, OrderInv
  <2>4. OrderInv'
    <3>1. Before(Executed \cup Queued \cup SlowCode, {Len(ops) + 1})
      BY <2>1, <2>3 DEF Before
    <3>2. 1 .. Len(ops') = 1 .. Len(ops) \cup {Len(ops) + 1}
      BY <2>1
    <3> QED BY <1>0, <2>2, <2>3, <3>1, <3>2 DEF OInv, LineInv, OrderInv, Before
  <2>5. KindInv'
    BY <1>0, <2>1, <2>2, <2>3 DEF OInv, LineInv, KindInv, OutOfRange
  <2>6. AckInv'
    <3>1. \A c \in acked : c \in 1 .. Len(ops)
      BY <2>1, OTypes DEF OInv, LineInv, AckInv, Cmds
    <3> QED BY <1>0, <2>1, <2>2, <3>1 DEF OInv, LineInv, AckInv
  <2>7. NothingLost'
    BY <1>0, <2>1, <2>2 DEF OInv, LineInv, NothingLost, OutOfRange
  <2> QED BY <2>4, <2>5, <2>6, <2>7 DEF LineInv
<1>2. CASE HostSrst \/ HostSrstClear \/ LinkLost \/ LinkBack
  <2>1. UNCHANGED <<ops, FisCode>> /\ xfer' \in {xfer, NoCmd}
    BY <1>2 DEF HostSrst, HostSrstClear, LinkLost, LinkBack, FisCode, Pending
  <2>2. resets' # 0
    BY <1>2 DEF HostSrst, HostSrstClear, LinkLost, LinkBack, OInv, LineInv, NothingLost,
                IInv, TypeOK, HostTypeOK
  <2>3. OrderInv' /\ KindInv'
    BY <1>0, <2>1 DEF OInv, LineInv, OrderInv, KindInv, OutOfRange
  <2>4. AckInv' /\ NothingLost'
    BY <1>0, <2>1, <2>2, NoCmds DEF OInv, LineInv, AckInv, NothingLost
  <2> QED BY <2>3, <2>4 DEF LineInv
<1> QED BY <1>1, <1>2 DEF HostStep

LEMMA StutterOInv == ASSUME OInv, UNCHANGED vars PROVE OInv'
<1> USE DEF vars, mainVars, queueVars, dataVars, fisVars, hostVars, answerVars
<1>1. IInv'
  BY StutterIInv DEF OInv
<1>2. HostInv'
  BY DEF OInv, HostInv, HostFree, Pending
<1>3. SlowInv' /\ FullInv'
  BY DEF OInv, SlowInv, FullInv, HostFree, Pending, SlowActive
<1>4. UNCHANGED SlowCode
  BY DEF SlowCode
<1>5. UNCHANGED <<Executed, Queued, FisCode>>
  BY DEF Executed, Queued, FisCode, Pending
<1>6. OrderInv' /\ KindInv'
  BY <1>4, <1>5 DEF OInv, LineInv, OrderInv, KindInv, OutOfRange
<1>7. AckInv' /\ NothingLost'
  BY <1>4, <1>5 DEF OInv, LineInv, AckInv, NothingLost, OutOfRange
<1> QED BY <1>1, <1>2, <1>3, <1>6, <1>7 DEF OInv, LineInv

LEMMA OInvHolds == Spec => []OInv
<1>1. OInv /\ [Next]_vars => OInv'
  <2> SUFFICES ASSUME OInv, [Next]_vars PROVE OInv'
    OBVIOUS
  <2>1. CASE MainStep
    BY <2>1, MainStepIInv, HostInvMain, SlowInvMain, LineMain DEF OInv
  <2>2. CASE FiqStep
    BY <2>2, FiqStepIInv, HostInvFiq, SlowInvFiq, LineFiq DEF OInv
  <2>3. CASE TransferStep
    BY <2>3, TransferStepIInv, HostInvTransfer, SlowInvTransfer, LineTransfer DEF OInv
  <2>4. CASE HostStep
    BY <2>4, HostStepIInv, HostInvHost, SlowInvHost, LineHost DEF OInv
  <2> QED BY <2>1, <2>2, <2>3, <2>4, StutterOInv DEF Next
<1> QED BY InitOInv, <1>1, PTL DEF Spec

-----------------------------------------------------------------------------
\* The queue never holds more than the controller reports as full: once
\* eq_full is set (sata_isr.c:217-221) the command held back is not answered
\* before eventq_get makes room, and a reset or a loss of the link, which frees
\* the host to send the next command, clears the queue.
THEOREM QueueStaysBounded == Spec => []QueueBounded
<1>1. OInv => QueueBounded
  BY OTypes DEF OInv, FullInv, QueueBounded
<1> QED BY OInvHolds, <1>1, PTL

\* Reads and writes through the queue and flushes through the one slow slot
\* (sata_main.c:85-112) are executed in the order the host issued them, and
\* until the first reset none is skipped.
THEOREM CommandsInOrder == Spec => []ExecutesInOrder
<1>1. OInv => ExecutesInOrder
  <2> SUFFICES ASSUME OInv PROVE ExecutesInOrder
    OBVIOUS
  <2>0. /\ exec \in Seq(Cmds) /\ Len(exec) \in Nat /\ Cmds \subseteq Nat
        /\ Len(ops) \in Nat /\ Executed = {exec[i] : i \in 1 .. Len(exec)}
    <3>1. exec \in Seq(Cmds)
      BY OTypes
    <3>2. DOMAIN exec = 1 .. Len(exec)
      BY <3>1
    <3> QED BY <3>1, <3>2, OTypes DEF Executed, ToSet
  <2>1. Increasing(exec)
    BY DEF OInv, LineInv, OrderInv
  <2>2. ASSUME resets = 0, NEW i \in 1 .. Len(exec)
        PROVE  /\ ~OutOfRange(exec[i])
               /\ \A c \in 1 .. exec[i] - 1 :
                    OutOfRange(c) \/ \E j \in 1 .. i - 1 : exec[j] = c
    <3>1. exec[i] \in Executed /\ exec[i] \in Nat /\ exec[i] <= Len(ops)
      BY <2>0 DEF OInv, LineInv, OrderInv
    <3>2. ~OutOfRange(exec[i])
      BY <3>1 DEF OInv, LineInv, KindInv
    <3>3. ASSUME NEW c \in 1 .. exec[i] - 1, ~OutOfRange(c)
          PROVE  \E j \in 1 .. i - 1 : exec[j] = c
      <4>1. c \in 1 .. Len(ops) /\ c < exec[i]
        BY <3>1
      <4>2. c \in Executed
        <5>1. c \in Executed \cup Queued \cup SlowCode \cup FisCode
          BY <2>2, <3>3, <4>1 DEF OInv, LineInv, NothingLost
        <5>2. \A d \in Queued \cup SlowCode \cup FisCode : exec[i] < d
          BY <3>1 DEF OInv, LineInv, OrderInv, Before
        <5> QED BY <3>1, <4>1, <5>1, <5>2
      <4>3. PICK j \in 1 .. Len(exec) : exec[j] = c
        BY <2>0, <4>2
      <4>4. j < i
        <5>1. exec[j] < exec[i] /\ exec[j] \in Nat /\ exec[i] \in Nat
          BY <3>1, <4>1, <4>3
        <5>2. i < j => exec[i] < exec[j]
          BY <2>1 DEF Increasing
        <5>3. ~(i < j) /\ i # j
          BY <5>1, <5>2
        <5> QED BY <2>0, <5>3
      <4> QED BY <2>0, <4>3, <4>4
    <3> QED BY <3>2, <3>3
  <2> QED BY <2>1, <2>2 DEF ExecutesInOrder, Increasing
<1> QED BY OInvHolds, <1>1, PTL

\* A flush covers every write answered before it: the answer to a write goes
\* out only when its pages have been transferred, and by then it is in the
\* queue, which Main empties before it runs the slow command.
THEOREM FlushesCover == Spec => []FlushCoversAnswered
<1>1. OInv => FlushCoversAnswered
  <2> SUFFICES ASSUME OInv, NEW j \in 1 .. Len(exec),
                      NEW c \in acked, c < exec[j], ops[c] = "write"
               PROVE  \E i \in 1 .. j - 1 : exec[i] = c
    BY DEF FlushCoversAnswered
  <2>0. /\ exec \in Seq(Cmds) /\ Len(exec) \in Nat /\ Cmds \subseteq Nat
        /\ Executed = {exec[i] : i \in 1 .. Len(exec)}
    <3>1. exec \in Seq(Cmds)
      BY OTypes
    <3>2. DOMAIN exec = 1 .. Len(exec)
      BY <3>1
    <3> QED BY <3>1, <3>2, OTypes DEF Executed, ToSet
  <2>1. exec[j] \in Executed /\ exec[j] \in Nat /\ c \in Nat
    <3>1. exec[j] \in Cmds
      BY <2>0
    <3>2. c \in Cmds
      BY OTypes
    <3>3. exec[j] \in Executed
      BY <2>0
    <3> QED BY <2>0, <3>1, <3>2, <3>3
  <2>2. c \in Executed
    <3>1. c \in Executed \cup Queued
      BY DEF OInv, LineInv, AckInv
    <3>2. \A d \in Queued : exec[j] < d
      BY <2>1 DEF OInv, LineInv, OrderInv, Before
    <3> QED BY <2>1, <3>1, <3>2
  <2>3. PICK i \in 1 .. Len(exec) : exec[i] = c
    BY <2>0, <2>2
  <2>4. i < j
    <3>1. ~(j < i) /\ i # j
      BY <2>1, <2>3 DEF OInv, LineInv, OrderInv, Increasing
    <3> QED BY <2>0, <3>1
  <2> QED BY <2>0, <2>3, <2>4
<1> QED BY OInvHolds, <1>1, PTL

-----------------------------------------------------------------------------
(* The data.  A ring of n buffers holds in [a, b) the pages from number lo  *)
(* to hi - 1, counted since power-up; own says whose a page of a number is. *)

Window(own, data, a, b, n, lo, hi) ==
  /\ a \in 0 .. n - 1 /\ b \in 0 .. n - 1
  /\ lo \in Nat /\ hi \in Nat /\ lo <= hi /\ hi - lo < n
  /\ b = (a + (hi - lo)) % n
  /\ \A k \in 0 .. hi - lo - 1 : <<data[(a + k) % n], lo + k>> \in own

\* A remainder on a ring of n buffers, at most once round it.
LEMMA Wrap ==
  ASSUME NEW n \in Nat \ {0}
  PROVE  \A x \in -n .. n + n - 1 : x % n = IF x < 0 THEN x + n ELSE IF x < n THEN x ELSE x - n
<1> SUFFICES ASSUME NEW x \in -n .. n + n - 1
             PROVE  x % n = IF x < 0 THEN x + n ELSE IF x < n THEN x ELSE x - n
  OBVIOUS
<1> DEFINE q == x \div n
           r == x % n
<1>1. r \in 0 .. n - 1 /\ x = n * q + r /\ q \in Int
  OBVIOUS
<1> HIDE DEF q, r
<1>2. ~(q >= 2)
  <2> SUFFICES ASSUME q >= 2 PROVE FALSE
    OBVIOUS
  <2>1. n * q = 2 * n + n * (q - 2) /\ n * (q - 2) >= 0
    BY <1>1
  <2> QED BY <1>1, <2>1
<1>3. ~(q <= -2)
  <2> SUFFICES ASSUME q <= -2 PROVE FALSE
    OBVIOUS
  <2>1. n * q = n * (q + 2) - 2 * n /\ n * (q + 2) <= 0
    BY <1>1
  <2> QED BY <1>1, <2>1
<1>4. CASE q = -1
  BY <1>1, <1>4 DEF r
<1>5. CASE q = 0
  BY <1>1, <1>5 DEF r
<1>6. CASE q = 1
  BY <1>1, <1>6 DEF r
<1> QED BY <1>1, <1>2, <1>3, <1>4, <1>5, <1>6

\* The buffer k places on.
LEMMA RingAdd ==
  ASSUME NEW n \in Nat \ {0}, NEW a \in 0 .. n - 1, NEW k \in 0 .. n - 1
  PROVE  /\ (a + k) % n = IF a + k < n THEN a + k ELSE a + k - n
         /\ (a + k) % n \in 0 .. n - 1
<1>1. PICK x \in 0 .. n + n - 1 : x = a + k
  OBVIOUS
<1>2. x \in -n .. n + n - 1
  OBVIOUS
<1>3. x % n = IF x < 0 THEN x + n ELSE IF x < n THEN x ELSE x - n
  BY <1>2, Wrap
<1> QED BY <1>1, <1>3

\* The two pointers tell how many pages there are.
LEMMA WindowEnds ==
  ASSUME NEW n \in Nat \ {0}, NEW own, NEW data, NEW a, NEW b, NEW lo, NEW hi,
         Window(own, data, a, b, n, lo, hi)
  PROVE  /\ (b - a) % n = hi - lo
         /\ (a = b) <=> (lo = hi)
         /\ (b + 1) % n = a <=> hi - lo = n - 1
<1> DEFINE d == hi - lo
<1>1. a \in 0 .. n - 1 /\ b \in 0 .. n - 1 /\ d \in 0 .. n - 1 /\ b = (a + d) % n
  BY DEF Window
<1>2. (d = 0) <=> (lo = hi)
  BY DEF Window
<1> HIDE DEF d
<1>r. \A x \in -n .. n + n - 1 : x % n = IF x < 0 THEN x + n ELSE IF x < n THEN x ELSE x - n
  BY Wrap
<1>3. b = IF a + d < n THEN a + d ELSE a + d - n
  BY <1>1, <1>r
<1>4. (b + 1) % n = IF b + 1 < n THEN b + 1 ELSE b + 1 - n
  BY <1>1, <1>r
<1>5. (b - a) % n = d
  BY <1>1, <1>3, <1>r
<1>6. ((b + 1) % n = a) <=> (d = n - 1)
  BY <1>1, <1>3, <1>4
<1>7. (a = b) <=> (d = 0)
  BY <1>1, <1>3
<1> QED BY <1>1, <1>2, <1>5, <1>6, <1>7 DEF d

\* A page put at the end of the window.
LEMMA WindowPut ==
  ASSUME NEW n \in Nat \ {0}, NEW own, NEW data, NEW a, NEW b, NEW lo, NEW hi, NEW c,
         Window(own, data, a, b, n, lo, hi), hi - lo < n - 1, <<c, hi>> \in own,
         NEW next, next[b] = c, \A i \in 0 .. n - 1 : i # b => next[i] = data[i]
  PROVE  Window(own, next, a, (b + 1) % n, n, lo, hi + 1)
<1> DEFINE d == hi - lo
<1>1. a \in 0 .. n - 1 /\ b \in 0 .. n - 1 /\ lo \in Nat /\ d \in 0 .. n - 2 /\ hi = lo + d
      /\ 1 \in 0 .. n - 1 /\ d \in 0 .. n - 1 /\ d + 1 \in 0 .. n - 1
  BY DEF Window
<1>2. b = (a + d) % n /\ \A k \in 0 .. d - 1 : <<data[(a + k) % n], lo + k>> \in own
  BY DEF Window
<1> HIDE DEF d
<1>b. (b + 1) % n = IF b + 1 < n THEN b + 1 ELSE b + 1 - n
  BY <1>1, RingAdd
<1>c. b = IF a + d < n THEN a + d ELSE a + d - n
  BY <1>1, <1>2, RingAdd
<1>d. (a + (d + 1)) % n = IF a + (d + 1) < n THEN a + (d + 1) ELSE a + (d + 1) - n
  BY <1>1, RingAdd
<1>3. (b + 1) % n = (a + (d + 1)) % n /\ (b + 1) % n \in 0 .. n - 1
  BY <1>1, <1>b, <1>c, <1>d
<1>4. ASSUME NEW k \in 0 .. d PROVE <<next[(a + k) % n], lo + k>> \in own
  <2>1. CASE k = d
    BY <1>1, <1>2, <2>1
  <2>2. CASE k # d
    <3>1. k \in 0 .. d - 1 /\ k \in 0 .. n - 1
      BY <1>1, <2>2
    <3>2. (a + k) % n \in 0 .. n - 1 /\ (a + k) % n = IF a + k < n THEN a + k ELSE a + k - n
      BY <1>1, <3>1, RingAdd
    <3>3. (a + k) % n # b
      BY <1>1, <1>c, <3>1, <3>2
    <3>4. next[(a + k) % n] = data[(a + k) % n]
      BY <3>2, <3>3
    <3> QED BY <1>2, <3>1, <3>4
  <2> QED BY <2>1, <2>2
<1>5. (hi + 1) - lo = d + 1 /\ hi + 1 \in Nat /\ lo <= hi + 1 /\ d + 1 < n
  BY <1>1
<1> DEFINE e == (b + 1) % n
<1>6. e \in 0 .. n - 1 /\ e = (a + (d + 1)) % n
  BY <1>3
<1> HIDE DEF e
<1>7. \A k \in 0 .. (hi + 1) - lo - 1 : <<next[(a + k) % n], lo + k>> \in own
  <2>1. (hi + 1) - lo - 1 = d
    BY <1>1
  <2> QED BY <1>4, <2>1
<1>8. e = (a + ((hi + 1) - lo)) % n
  BY <1>5, <1>6
<1>9. Window(own, next, a, e, n, lo, hi + 1)
  BY <1>1, <1>5, <1>6, <1>7, <1>8 DEF Window
<1> QED BY <1>9 DEF e

\* The first page of the window taken away.
LEMMA WindowGet ==
  ASSUME NEW n \in Nat \ {0}, NEW own, NEW data, NEW a, NEW b, NEW lo, NEW hi,
         Window(own, data, a, b, n, lo, hi), lo < hi
  PROVE  /\ Window(own, data, (a + 1) % n, b, n, lo + 1, hi)
         /\ <<data[a], lo>> \in own
<1> DEFINE d == hi - lo
<1>1. a \in 0 .. n - 1 /\ b \in 0 .. n - 1 /\ lo \in Nat /\ d \in 1 .. n - 1 /\ hi = lo + d
      /\ 0 \in 0 .. n - 1 /\ 1 \in 0 .. n - 1 /\ d - 1 \in 0 .. n - 1
  BY DEF Window
<1>2. b = (a + d) % n /\ \A k \in 0 .. d - 1 : <<data[(a + k) % n], lo + k>> \in own
  BY DEF Window
<1> HIDE DEF d
<1> DEFINE e == (a + 1) % n
<1>b. e \in 0 .. n - 1 /\ e = IF a + 1 < n THEN a + 1 ELSE a + 1 - n
  BY <1>1, RingAdd
<1> HIDE DEF e
<1>4. ASSUME NEW k \in 0 .. d - 1 PROVE (e + k) % n = (a + (k + 1)) % n
  <2>0. k \in 0 .. n - 1 /\ k + 1 \in 0 .. n - 1
    BY <1>1
  <2>1. (e + k) % n = IF e + k < n THEN e + k ELSE e + k - n
    BY <1>b, <2>0, RingAdd
  <2>2. (a + (k + 1)) % n = IF a + (k + 1) < n THEN a + (k + 1) ELSE a + (k + 1) - n
    BY <1>1, <2>0, RingAdd
  <2> QED BY <1>1, <1>b, <2>0, <2>1, <2>2
<1>3. e \in 0 .. n - 1 /\ b = (e + (d - 1)) % n
  <2>1. (e + (d - 1)) % n = (a + ((d - 1) + 1)) % n /\ (d - 1) + 1 = d
    BY <1>1, <1>4
  <2> QED BY <1>2, <1>b, <2>1
<1>5. ASSUME NEW k \in 0 .. d - 2 PROVE <<data[(e + k) % n], (lo + 1) + k>> \in own
  <2>1. k \in 0 .. d - 1 /\ k + 1 \in 0 .. d - 1 /\ lo + (k + 1) = (lo + 1) + k
    BY <1>1
  <2>2. <<data[(a + (k + 1)) % n], lo + (k + 1)>> \in own
    BY <1>2, <2>1
  <2>3. (e + k) % n = (a + (k + 1)) % n
    BY <1>4, <2>1
  <2> QED BY <2>1, <2>2, <2>3
<1>6. hi - (lo + 1) = d - 1 /\ hi \in Nat /\ lo + 1 \in Nat /\ lo + 1 <= hi /\ d - 1 < n
      /\ (d - 1) - 1 = d - 2
  BY <1>1
<1>0. (a + 0) % n = a
  <2>1. a \in -n .. n + n - 1 /\ 0 <= a /\ a < n /\ a + 0 = a
    BY <1>1
  <2>2. a % n = a
    BY <2>1, Wrap
  <2> QED BY <2>1, <2>2
<1>7. <<data[a], lo>> \in own
  <2>1. <<data[(a + 0) % n], lo + 0>> \in own
    BY <1>1, <1>2
  <2> QED BY <1>0, <1>1, <2>1
<1>8. Window(own, data, e, b, n, lo + 1, hi)
  BY <1>1, <1>3, <1>5, <1>6 DEF Window
<1> QED BY <1>7, <1>8 DEF e

\* The last command given to the FTL or to a slow command function.
LastExec == IF exec = <<>> THEN 0 ELSE exec[Len(exec)]

\* Until the first reset, what the firmware works on for the host is what the
\* host waits for, and the command of the FTL is the last one executed.
SyncInv ==
  resets = 0 =>
    /\ Pending => cmd = fis
    /\ "PHY_ONLINE" \in intr => cmd = Reset
    /\ pc = "run" => cmd = cur
    /\ pc = "found" \/ (slow.status = "PENDING" /\ pc # "clear") => cmd = slow.code
    /\ eqFull => cmd = held
    /\ xfer \in Cmds => cmd = xfer
    /\ pc = "ftl" => cur = LastExec
    /\ ~stray

\* Before the first reset the link is up, and an answer to the command that the
\* host waits for is taken by it.
LEMMA AnswerTaken ==
  ASSUME NEW c, Answer(c), cmd = c
  PROVE  /\ ~stray => ~stray'
         /\ link => cmd' = NoCmd
BY DEF Answer

LEMMA SyncMain == ASSUME OInv, SyncInv, MainStep PROVE SyncInv'
<1> SUFFICES ASSUME resets' = 0 PROVE SyncInv'
  BY DEF SyncInv
<1>0. /\ resets = 0 /\ link /\ intr = {} /\ intr' = {} /\ ~stray /\ ~Pending /\ ~Pending'
      /\ eqFull => cmd = held
      /\ xfer \in Cmds => cmd = xfer
      /\ UNCHANGED <<resets, fis, link>>
  BY DEF MainStep, GetEvent, NoEvent, NoSlowCmd, TakeSlowCmd, SearchAtaFunction, RunSlowCmd,
     ClearSlowCmd, FtlWritePage, FtlReadPage, NoAnswer, PageDone, At, hostVars, fisVars,
     SyncInv, OInv, LineInv, NothingLost, Pending
<1>1. CASE GetEvent
  <2>1. /\ UNCHANGED <<cmd, stray, slow>> /\ pc = "poll" /\ pc' = "ftl" /\ eqFull' = FALSE
        /\ xfer' = IF eqFull THEN held ELSE xfer
    BY <1>0, <1>1 DEF GetEvent, NoAnswer, StartTransfer, hostVars, At
  <2>2. cur' = Head(eq) /\ exec' = Append(exec, Head(eq)) /\ exec \in Seq(Cmds) /\ Head(eq) \in Cmds
    BY <1>1, OTypes, SeqTail DEF GetEvent
  <2>3. cur' = LastExec'
    BY <2>2 DEF LastExec
  <2> QED BY <1>0, <2>1, <2>3 DEF SyncInv
<1>2. CASE NoEvent \/ NoSlowCmd \/ TakeSlowCmd \/ SearchAtaFunction \/ ClearSlowCmd
  <2>1. UNCHANGED <<cmd, stray, eqFull, held, xfer, exec>> /\ pc' # "ftl"
    BY <1>2 DEF NoEvent, NoSlowCmd, TakeSlowCmd, SearchAtaFunction, ClearSlowCmd, NoAnswer,
       hostVars, queueVars, dataVars
  <2>2. CASE NoEvent \/ NoSlowCmd
    BY <1>0, <2>1, <2>2 DEF SyncInv, NoEvent, NoSlowCmd, queueVars, At
  <2>3. CASE TakeSlowCmd
    <3>1. slow'.status = "BUSY" /\ slow'.code = slow.code
      BY <2>3 DEF TakeSlowCmd, OInv, IInv, TypeOK, QueueTypeOK
    <3> QED BY <1>0, <2>1, <2>3, <3>1 DEF SyncInv, TakeSlowCmd, At
  <2>4. CASE SearchAtaFunction
    BY <1>0, <2>1, <2>4 DEF SyncInv, SearchAtaFunction, queueVars, At
  <2>5. CASE ClearSlowCmd
    <3>1. slow'.status = "NONE"
      BY <2>5 DEF ClearSlowCmd, OInv, IInv, TypeOK, QueueTypeOK
    <3> QED BY <1>0, <2>1, <2>5, <3>1 DEF SyncInv, ClearSlowCmd
  <2> QED BY <1>2, <2>2, <2>3, <2>4, <2>5
<1>3. CASE RunSlowCmd
  <2>1. /\ Answer(cur) /\ cmd = cur /\ pc = "run" /\ pc' = "clear"
        /\ UNCHANGED <<slow, eqFull, held, xfer>>
    BY <1>0, <1>3 DEF RunSlowCmd, At, SyncInv, queueVars, dataVars
  <2>2. ~stray'
    BY <1>0, <2>1, AnswerTaken
  <2>3. cur \in Cmds => cur \in SlowCode
    BY <2>1 DEF SlowCode
  <2>4. cur \notin Queued /\ cur \notin Executed
    <3>1. \A a \in Executed \cup Queued : a \in Int
      BY OTypes DEF OInv, LineInv, OrderInv
    <3>2. Executed \cup Queued \subseteq Cmds
      BY DEF Executed, Queued, OInv, IInv, TypeOK, QueueTypeOK, HistoryTypeOK, ToSet
    <3> QED BY <2>3, <3>1, <3>2 DEF OInv, LineInv, OrderInv, Before
  <2>5. ~eqFull
    BY <1>0, <2>1, <2>4, HeldQueued
  <2>6. xfer \notin Cmds
    BY <1>0, <2>1, <2>4 DEF OInv, LineInv, AckInv
  <2> QED BY <1>0, <2>1, <2>2, <2>5, <2>6 DEF SyncInv
<1>4. CASE FtlWritePage \/ FtlReadPage
  <2>1. /\ UNCHANGED <<cmd, stray, eqFull, held, xfer, exec, slow, cur>>
        /\ pc = "ftl" /\ pc' \in {"ftl", "poll"}
    BY <1>4 DEF FtlWritePage, FtlReadPage, PageDone, NoAnswer, hostVars, queueVars, At
  <2> QED BY <1>0, <2>1 DEF SyncInv, LastExec
<1> QED BY <1>1, <1>2, <1>3, <1>4 DEF MainStep

LEMMA SyncFiq == ASSUME OInv, SyncInv, FiqStep PROVE SyncInv'
<1> SUFFICES ASSUME resets' = 0 PROVE SyncInv'
  BY DEF SyncInv
<1>1. CASE HandleGotCfis
  <2>1. /\ resets = 0 /\ ~stray /\ Pending /\ ~Pending' /\ cmd = fis /\ fis \in Cmds
        /\ UNCHANGED <<resets, fis, link, pc, cur, exec>>
        /\ intr' \subseteq intr
    BY <1>1, OTypes DEF HandleGotCfis, SyncInv, Pending, mainVars
  <2>2. "PHY_ONLINE" \notin intr
    BY <2>1, NoCmds DEF SyncInv
  <2>3. pc # "run" /\ pc # "found" /\ ~(slow.status = "PENDING" /\ pc # "clear") /\ xfer \notin Cmds
    BY <2>1 DEF OInv, SlowInv, SlowActive, HostInv, SyncInv
  <2>4. ~eqFull
    <3>1. eqFull => Len(eq) >= EqLimit
      BY DEF OInv, IInv, HeldInv
    <3> QED BY <2>1, <3>1 DEF OInv, FullInv
  <2>5. pc = "ftl" => cur = LastExec'
    BY <2>1 DEF SyncInv, LastExec
  <2>6. CASE RejectCmd
    <3>1. ~stray' /\ UNCHANGED <<slow, eqFull, xfer>>
      BY <2>1, <2>6, AnswerTaken DEF RejectCmd, queueVars
    <3> QED BY <2>1, <2>2, <2>3, <2>4, <2>5, <3>1 DEF SyncInv
  <2>7. CASE InsertEq
    <3>1. UNCHANGED <<cmd, stray, slow>>
      BY <2>7 DEF InsertEq, answerVars
    <3>2. (eqFull' => held' = fis) /\ (xfer' \in Cmds => xfer' = fis)
      BY <2>3, <2>4, <2>7 DEF InsertEq, StartTransfer
    <3> QED BY <2>1, <2>2, <2>3, <2>5, <3>1, <3>2 DEF SyncInv
  <2>8. CASE StoreSlowCmd
    <3>1. UNCHANGED <<cmd, stray, eqFull, xfer>> /\ slow'.code = fis
      BY <2>8 DEF StoreSlowCmd, SetSlowCmd, answerVars
    <3> QED BY <2>1, <2>2, <2>3, <2>4, <2>5, <3>1 DEF SyncInv
  <2> QED BY <1>1, <2>6, <2>7, <2>8 DEF HandleGotCfis
<1>2. CASE HandleSrst \/ HandlePhyOnline
  <2>1. resets = 0
    BY <1>2 DEF HandleSrst, HandlePhyOnline, hostVars
  <2>2. HandlePhyOnline /\ ~HandleSrst
    BY <1>2, <2>1 DEF HandleSrst, OInv, LineInv, NothingLost
  <2>3. /\ intr' = {} /\ slow'.code = Reset /\ cmd = Reset
        /\ UNCHANGED <<cmd, pc, cur, exec, eqFull, held, xfer, stray>>
    BY <2>1, <2>2 DEF HandlePhyOnline, SetSlowCmd, SyncInv, hostVars, mainVars, dataVars, answerVars
  <2> QED BY <2>1, <2>3 DEF SyncInv, LastExec, Pending
<1> QED BY <1>1, <1>2 DEF FiqStep

LEMMA SyncTransfer == ASSUME OInv, SyncInv, TransferStep PROVE SyncInv'
<1> SUFFICES ASSUME resets' = 0 PROVE SyncInv'
  BY DEF SyncInv
<1>1. /\ CompletePage /\ xfer \in Cmds /\ cmd = xfer /\ ops[xfer] \in {"read", "write"}
  BY DEF TransferStep, ReceivePage, SendPage
<1>2. UNCHANGED <<pc, cur, exec, slow, eqFull, held, intr, fis, resets>>
  BY <1>1 DEF CompletePage, mainVars, queueVars, fisVars
<1>3. ~Pending /\ ~Pending'
  BY <1>1, <1>2 DEF OInv, HostInv, Pending
<1>4. ~SlowActive
  BY <1>1 DEF OInv, SlowInv
<1>5. ~eqFull
  <2>1. eqFull => Len(eq) >= EqLimit
    BY DEF OInv, IInv, HeldInv
  <2> QED BY <1>1, <2>1 DEF OInv, FullInv
<1>6. "PHY_ONLINE" \notin intr
  BY <1>1, <1>2, NoCmds DEF SyncInv
<1>7. ~stray' /\ (xfer' \in Cmds => cmd' = xfer')
  <2>0. ~stray
    BY <1>2 DEF SyncInv
  <2>1. CASE left = 1
    BY <1>1, <2>0, <2>1, AnswerTaken, NoCmds DEF CompletePage
  <2>2. CASE left # 1
    BY <1>1, <2>0, <2>2 DEF CompletePage, answerVars
  <2> QED BY <2>1, <2>2
<1> QED BY <1>2, <1>3, <1>4, <1>5, <1>6, <1>7 DEF SyncInv, SlowActive, LastExec

\* Before the first reset the host only issues commands.
LEMMA OnlyCommands ==
  ASSUME OInv, HostStep, resets' = 0 PROVE resets = 0 /\ \E op \in Ops : HostCommand(op)
BY DEF HostStep, HostSrst, HostSrstClear, LinkLost, LinkBack, HostCommand, OInv, LineInv,
       NothingLost, IInv, TypeOK, HostTypeOK

LEMMA SyncHost == ASSUME OInv, SyncInv, HostStep PROVE SyncInv'
<1> SUFFICES ASSUME resets' = 0 PROVE SyncInv'
  BY DEF SyncInv
<1>1. resets = 0 /\ \E op \in Ops : HostCommand(op)
  BY OnlyCommands
<1>2. /\ cmd = NoCmd /\ fis' = cmd' /\ intr' = {"CMD_RECV"} /\ HostFree
      /\ UNCHANGED <<pc, cur, exec, slow, eqFull, held, xfer, stray, resets>>
  BY <1>1 DEF HostCommand, HostFree, mainVars, queueVars, dataVars, answerVars
<1>3. ~SlowActive
  BY <1>2 DEF OInv, SlowInv
<1>4. ~eqFull
  <2>1. eqFull => Len(eq) >= EqLimit
    BY DEF OInv, IInv, HeldInv
  <2> QED BY <1>2, <2>1 DEF OInv, FullInv
<1>5. xfer \notin Cmds
  BY <1>1, <1>2, NoCmds DEF SyncInv
<1> QED BY <1>1, <1>2, <1>3, <1>4, <1>5 DEF SyncInv, SlowActive, LastExec

\* P[c] is the number of pages of the reads, or of the writes, up to command c.
Counts(op, P) ==
  /\ P \in [0 .. Len(ops) -> Nat]
  /\ \A c \in 1 .. Len(ops) : P[c] = P[c - 1] + IF ops[c] = op THEN CmdPages ELSE 0
  /\ \A c, d \in 0 .. Len(ops) : c <= d =>
       /\ P[c] <= P[d]
       /\ (\A e \in c + 1 .. d : ops[e] # op) => P[c] = P[d]

\* The command that each page belongs to.
Own(op, P) ==
  {e \in (1 .. Len(ops)) \X Nat :
     ops[e[1]] = op /\ P[e[1] - 1] <= e[2] /\ e[2] < P[e[1]]}

\* The pages that the FTL, and the controller, have handled so far.
ByFtl(op, P) == P[LastExec] - IF pc = "ftl" /\ ops[cur] = op THEN todo ELSE 0
ByLink(op, P) ==
  IF cmd \in Cmds /\ ops[cmd] = op
  THEN IF xfer = cmd THEN P[cmd] - left ELSE P[cmd - 1]
  ELSE P[Len(ops)]

\* The controller is ahead of the FTL for writes, and behind it for reads.
WrInv(P) ==
  /\ Counts("write", P)
  /\ Window(Own("write", P), wr.data, wr.limit, wr.ptr, NumWrBufs,
            ByFtl("write", P), ByLink("write", P))

RdInv(P) ==
  /\ Counts("read", P)
  /\ Window(Own("read", P), rd.data, rd.ptr, rd.limit, NumRdBufs,
            ByLink("read", P), ByFtl("read", P))

RingsInv == resets = 0 => (\E P : WrInv(P)) /\ (\E P : RdInv(P))
DInv     == OInv /\ SyncInv /\ RingsInv

\* A page belongs to one command only.
LEMMA OneOwner ==
  ASSUME Len(ops) \in Nat, NEW op, NEW P, Counts(op, P), NEW c, NEW d, NEW x,
         <<c, x>> \in Own(op, P), <<d, x>> \in Own(op, P)
  PROVE  c = d
<1>1. c \in 1 .. Len(ops) /\ d \in 1 .. Len(ops) /\ x \in Nat
      /\ P[c - 1] <= x /\ x < P[c] /\ P[d - 1] <= x /\ x < P[d]
  BY DEF Own
<1>2. /\ c \in 0 .. Len(ops) /\ d \in 0 .. Len(ops)
      /\ c - 1 \in 0 .. Len(ops) /\ d - 1 \in 0 .. Len(ops)
  BY <1>1
<1>3. P[c] \in Nat /\ P[d] \in Nat /\ P[c - 1] \in Nat /\ P[d - 1] \in Nat
  BY <1>2 DEF Counts
<1>4. /\ c <= d - 1 => P[c] <= P[d - 1]
      /\ d <= c - 1 => P[d] <= P[c - 1]
  BY <1>2 DEF Counts
<1>5. ~(c <= d - 1) /\ ~(d <= c - 1)
  BY <1>1, <1>3, <1>4
<1> QED BY <1>1, <1>5

LEMMA CountStep ==
  ASSUME Len(ops) \in Nat, NEW op, NEW P, Counts(op, P), NEW c \in 1 .. Len(ops)
  PROVE  /\ P[c] \in Nat /\ P[c - 1] \in Nat
         /\ ops[c] = op => P[c] = P[c - 1] + CmdPages
         /\ ops[c] # op => P[c] = P[c - 1]
<1>1. c \in 0 .. Len(ops) /\ c - 1 \in 0 .. Len(ops)
  OBVIOUS
<1>2. P[c] \in Nat /\ P[c - 1] \in Nat
  BY <1>1 DEF Counts
<1>3. P[c] = P[c - 1] + IF ops[c] = op THEN CmdPages ELSE 0
  BY DEF Counts
<1> QED BY <1>2, <1>3

LEMMA InOwn ==
  ASSUME NEW op, NEW P, NEW c, NEW x, c \in 1 .. Len(ops), ops[c] = op, x \in Nat,
         P[c - 1] <= x, x < P[c]
  PROVE  <<c, x>> \in Own(op, P)
BY DEF Own

\* Where the commands are, until the first reset.
LEMMA Shape ==
  ASSUME OInv, SyncInv, resets = 0
  PROVE  /\ Len(ops) \in Nat /\ LastExec \in 0 .. Len(ops)
         /\ cmd \in Cmds => cmd = Len(ops) /\ cmd \in 1 .. Len(ops)
         /\ xfer \in Cmds => xfer = cmd /\ left \in 1 .. CmdPages
         /\ pc = "ftl" => cur = LastExec /\ cur \in 1 .. Len(ops) /\ todo \in 1 .. CmdPages
         /\ \A c \in Executed : c <= LastExec
         /\ exec # <<>> => LastExec \in Executed
<1>0. /\ exec \in Seq(Cmds) /\ Len(exec) \in Nat /\ Len(ops) \in Nat /\ Cmds \subseteq Nat
      /\ Executed = {exec[i] : i \in 1 .. Len(exec)} /\ Executed \subseteq 1 .. Len(ops)
      /\ exec # <<>> => Len(exec) \in 1 .. Len(exec)
      /\ exec = <<>> => Len(exec) = 0
  <2>1. exec \in Seq(Cmds)
    BY OTypes
  <2>2. DOMAIN exec = 1 .. Len(exec)
    BY <2>1
  <2>3. Len(exec) \in Nat /\ (exec # <<>> => Len(exec) > 0) /\ (exec = <<>> => Len(exec) = 0)
    BY <2>1
  <2> QED BY <2>1, <2>2, <2>3, OTypes DEF Executed, ToSet, OInv, LineInv, OrderInv
<1>1. exec # <<>> => LastExec \in Executed
  BY <1>0 DEF LastExec
<1>2. LastExec \in 0 .. Len(ops)
  <2>1. exec = <<>> => LastExec = 0
    BY DEF LastExec
  <2> QED BY <1>0, <1>1, <2>1
<1>3. \A c \in Executed : c <= LastExec
  <2> SUFFICES ASSUME NEW i \in 1 .. Len(exec) PROVE exec[i] <= LastExec
    BY <1>0
  <2>0. exec # <<>> /\ LastExec \in Nat
    BY <1>0, <1>2
  <2>1. exec[i] \in Nat
    <3>1. exec[i] \in Cmds
      <4>1. exec \in Seq(Cmds)
        BY <1>0
      <4> QED BY <4>1
    <3> QED BY <3>1 DEF Cmds
  <2>4. LastExec = exec[Len(exec)]
    BY <2>0 DEF LastExec
  <2>2. i < Len(exec) => exec[i] < exec[Len(exec)]
    BY <1>0 DEF OInv, LineInv, OrderInv, Increasing
  <2> QED BY <1>0, <2>0, <2>1, <2>2, <2>4
<1>4. cmd \in Cmds => cmd = Len(ops) /\ cmd \in 1 .. Len(ops)
  BY <1>0 DEF OInv, HostInv, Cmds
<1>5. xfer \in Cmds => xfer = cmd /\ left \in 1 .. CmdPages
  BY NoCmds DEF SyncInv, OInv, IInv, TypeOK, DataTypeOK, PlaceInv
<1>6. pc = "ftl" => cur = LastExec /\ cur \in 1 .. Len(ops) /\ todo \in 1 .. CmdPages
  BY <1>0, <1>2 DEF SyncInv, OInv, IInv, TypeOK, MainTypeOK, PlaceInv, Cmds
<1> QED BY <1>0, <1>1, <1>2, <1>3, <1>4, <1>5, <1>6

\* With no other command to come, those between the last one executed and the
\* next in line were out of range: they have no pages.
LEMMA NextInLine ==
  ASSUME OInv, SyncInv, resets = 0, NEW op \in {"read", "write"}, NEW P, Counts(op, P),
         NEW h \in 1 .. Len(ops), LastExec < h,
         \A c \in Queued \cup SlowCode \cup FisCode : h <= c
  PROVE  P[LastExec] = P[h - 1]
<1>1. LastExec \in 0 .. Len(ops) /\ h - 1 \in 0 .. Len(ops) /\ LastExec <= h - 1
  BY Shape
<1>2. ASSUME NEW c \in LastExec + 1 .. h - 1 PROVE ops[c] # op
  <2>1. c \in 1 .. Len(ops) /\ c < h /\ LastExec < c /\ c \in Int
    BY <1>1
  <2>2. c \notin Executed
    BY <1>1, <2>1, Shape
  <2>3. c \notin Queued \cup SlowCode \cup FisCode
    BY <2>1
  <2> QED BY <2>1, <2>2, <2>3 DEF OInv, LineInv, NothingLost, OutOfRange
<1> QED BY <1>1, <1>2 DEF Counts

-----------------------------------------------------------------------------
(* A step that moves no page keeps the rings. *)
LEMMA NoPageMoves ==
  ASSUME RingsInv, resets = 0, UNCHANGED <<wr, rd, ops>>,
         \A op \in {"read", "write"} : \A P : Counts(op, P) =>
           ByFtl(op, P)' = ByFtl(op, P) /\ ByLink(op, P)' = ByLink(op, P)
  PROVE  RingsInv'
<1>1. PICK P : WrInv(P)
  BY DEF RingsInv
<1>2. PICK R : RdInv(R)
  BY DEF RingsInv
<1>3. /\ Counts("write", P)' /\ Own("write", P)' = Own("write", P)
      /\ Counts("read", R)' /\ Own("read", R)' = Own("read", R)
  BY <1>1, <1>2 DEF Counts, Own, WrInv, RdInv
<1>4. WrInv(P)'
  BY <1>1, <1>3 DEF WrInv, Window
<1>5. RdInv(R)'
  BY <1>2, <1>3 DEF RdInv, Window
<1> QED BY <1>4, <1>5 DEF RingsInv

LEMMA RingsMain == ASSUME DInv, MainStep PROVE RingsInv'
<1> SUFFICES ASSUME resets' = 0 PROVE RingsInv'
  BY DEF RingsInv
<1>0. /\ resets = 0 /\ intr = {} /\ FisCode = {}
      /\ UNCHANGED <<resets, ops, intr, link>>
      /\ OInv /\ SyncInv /\ RingsInv
  BY DEF MainStep, GetEvent, NoEvent, NoSlowCmd, TakeSlowCmd, SearchAtaFunction, RunSlowCmd,
     ClearSlowCmd, FtlWritePage, FtlReadPage, NoAnswer, PageDone, At, hostVars, fisVars,
     DInv, FisCode, Pending
<1>1. CASE GetEvent
  <2>1. /\ pc = "poll" /\ pc' = "ftl" /\ cur' = Head(eq) /\ todo' = CmdPages
        /\ UNCHANGED <<wr, rd, cmd>>
        /\ exec' = Append(exec, Head(eq)) /\ eq # <<>>
        /\ IF eqFull /\ link THEN xfer' = held /\ left' = CmdPages ELSE UNCHANGED <<xfer, left>>
    BY <1>1 DEF GetEvent, NoAnswer, hostVars, StartTransfer, At
  <2>2. PICK h \in Cmds : h = Head(eq)
    BY <2>1, OTypes, SeqTail, <1>0
  <2>3. LastExec' = h
    BY <1>0, <2>1, <2>2, OTypes DEF LastExec
  <2>4. h \in Queued /\ h \in 1 .. Len(ops) /\ LastExec < h
    <3>1. h \in Queued
      BY <1>0, <2>1, <2>2, OTypes, SeqTail DEF Queued
    <3>2. h \in 1 .. Len(ops)
      BY <1>0, <3>1 DEF OInv, LineInv, OrderInv
    <3>3. exec # <<>> => LastExec < h
      BY <1>0, <3>1, Shape DEF OInv, LineInv, OrderInv, Before
    <3>4. exec = <<>> => LastExec = 0
      BY DEF LastExec
    <3> QED BY <3>1, <3>2, <3>3, <3>4
  <2>5. \A c \in Queued \cup SlowCode \cup FisCode : h <= c
    <3>1. Queued = {h} \cup ToSet(Tail(eq)) /\ Before({h}, ToSet(Tail(eq)))
      BY <1>0, <2>1, <2>2, OTypes, SeqTail DEF Queued, OInv, LineInv, OrderInv
    <3>2. Queued \cup SlowCode \cup FisCode \subseteq 1 .. Len(ops)
      BY <1>0 DEF OInv, LineInv, OrderInv
    <3> QED BY <1>0, <2>4, <3>1, <3>2, Shape DEF OInv, LineInv, OrderInv, Before
  <2>6. ASSUME NEW op \in {"read", "write"}, NEW P, Counts(op, P)
        PROVE  ByFtl(op, P)' = ByFtl(op, P) /\ ByLink(op, P)' = ByLink(op, P)
    <3>1. P[LastExec] = P[h - 1]
      BY <1>0, <2>4, <2>5, <2>6, NextInLine
    <3>2. ByFtl(op, P)' = ByFtl(op, P)
      <4>1. ByFtl(op, P) = P[LastExec] - 0
        BY <2>1 DEF ByFtl
      <4>2. ByFtl(op, P)' = P[h] - IF ops[h] = op THEN CmdPages ELSE 0
        BY <1>0, <2>1, <2>2, <2>3 DEF ByFtl
      <4>3. /\ P[h] \in Nat /\ P[h - 1] \in Nat
            /\ ops[h] = op => P[h] = P[h - 1] + CmdPages
            /\ ops[h] # op => P[h] = P[h - 1]
        BY <1>0, <2>4, <2>6, CountStep, Shape
      <4> QED BY <3>1, <4>1, <4>2, <4>3
    <3>3. ByLink(op, P)' = ByLink(op, P)
      <4>1. CASE xfer' = xfer /\ left' = left
        BY <1>0, <2>1, <4>1 DEF ByLink
      <4>2. CASE eqFull /\ xfer' = held /\ left' = CmdPages
        <5>1. cmd = held /\ (cmd \in Cmds => xfer # cmd)
          BY <1>0, <4>2 DEF SyncInv, OInv, IInv, HeldInv, FullInv
        <5>2. CASE cmd \in Cmds /\ ops[cmd] = op
          <6>1. cmd \in 1 .. Len(ops) /\ Len(ops) \in Nat
            BY <1>0, <5>2, Shape
          <6>2. P[cmd] = P[cmd - 1] + CmdPages /\ P[cmd - 1] \in Nat
            BY <2>6, <5>2, <6>1, CountStep
          <6>3. ByLink(op, P) = P[cmd - 1] /\ ByLink(op, P)' = P[cmd] - CmdPages
            BY <1>0, <2>1, <4>2, <5>1, <5>2 DEF ByLink
          <6> QED BY <6>2, <6>3
        <5>3. CASE ~(cmd \in Cmds /\ ops[cmd] = op)
          BY <1>0, <2>1, <5>3 DEF ByLink
        <5> QED BY <5>2, <5>3
      <4> QED BY <2>1, <4>1, <4>2
    <3> QED BY <3>2, <3>3
  <2> QED BY <1>0, <2>1, <2>6, NoPageMoves
<1>2. CASE NoEvent \/ NoSlowCmd \/ TakeSlowCmd \/ SearchAtaFunction \/ ClearSlowCmd
  <2>1. pc # "ftl" /\ pc' # "ftl" /\ UNCHANGED <<wr, rd, cmd, xfer, left, exec, ops>>
    BY <1>2 DEF NoEvent, NoSlowCmd, TakeSlowCmd, SearchAtaFunction, ClearSlowCmd, NoAnswer, At,
       hostVars, dataVars
  <2>2. \A op \in {"read", "write"} : \A P : Counts(op, P) =>
           ByFtl(op, P)' = ByFtl(op, P) /\ ByLink(op, P)' = ByLink(op, P)
    BY <2>1 DEF ByFtl, ByLink, LastExec
  <2> QED BY <1>0, <2>1, <2>2, NoPageMoves
<1>3. CASE RunSlowCmd
  <2>1. /\ pc = "run" /\ pc' = "clear" /\ UNCHANGED <<wr, rd, xfer, left, eq>>
        /\ exec' = IF cur = Reset THEN exec ELSE Append(exec, cur)
        /\ cmd = cur /\ cmd' \in {cmd, NoCmd} /\ cur \in Cmds \cup {Reset}
    <3>1. pc = "run" /\ pc' = "clear" /\ UNCHANGED <<wr, rd, xfer, left, eq>>
          /\ exec' = IF cur = Reset THEN exec ELSE Append(exec, cur)
      BY <1>3 DEF RunSlowCmd, At, dataVars, queueVars
    <3>2. cmd = cur /\ cmd' \in {cmd, NoCmd}
      BY <1>0, <1>3, <3>1, Answered DEF RunSlowCmd, SyncInv
    <3>3. cur \in Cmds \cup {Reset}
      BY <1>0, <3>1 DEF OInv, IInv, TypeOK, MainTypeOK, PlaceInv
    <3> QED BY <3>1, <3>2, <3>3
  <2>2. cmd \in Cmds => /\ cur \in SlowCode /\ ops[cmd] = "flush" /\ cur = Len(ops)
                        /\ cur \in 1 .. Len(ops)
    BY <1>0, <2>1, Shape DEF SlowCode, OInv, LineInv, KindInv
  <2>3. ASSUME NEW op \in {"read", "write"}, NEW P, Counts(op, P)
        PROVE  ByFtl(op, P)' = ByFtl(op, P) /\ ByLink(op, P)' = ByLink(op, P)
    <3>1. ByLink(op, P)' = ByLink(op, P)
      BY <1>0, <2>1, <2>2, NoCmds DEF ByLink
    <3>2. CASE cur = Reset
      BY <2>1, <3>1, <3>2 DEF ByFtl, LastExec
    <3>3. CASE cur \in Cmds
      <4>1. exec' = Append(exec, cur) /\ LastExec' = cur
        <5>1. exec \in Seq(Cmds) /\ exec' = Append(exec, cur)
          BY <1>0, <2>1, <3>3, NoCmds, OTypes
        <5>2. exec' # <<>> /\ exec'[Len(exec')] = cur
          BY <5>1, <3>3
        <5> QED BY <5>1, <5>2 DEF LastExec
      <4>2. PICK h \in 1 .. Len(ops) : h = cur
        BY <2>1, <2>2, <3>3
      <4>3. LastExec < h
        <5>1. exec # <<>> => LastExec < h
          BY <1>0, <2>1, <2>2, <3>3, <4>2, Shape DEF OInv, LineInv, OrderInv, Before
        <5>2. exec = <<>> => LastExec = 0
          BY DEF LastExec
        <5> QED BY <4>2, <5>1, <5>2
      <4>4. \A c \in Queued \cup SlowCode \cup FisCode : h <= c
        <5>1. SlowCode = {h}
          BY <2>1, <3>3, <4>2 DEF SlowCode
        <5>2. Queued = {}
          BY <1>0, <2>1, <5>1, EmptySet DEF OInv, LineInv, OrderInv, Queued
        <5> QED BY <1>0, <5>1, <5>2
      <4>5. P[LastExec] = P[h - 1] /\ P[h] = P[h - 1] + 0 /\ P[h - 1] \in Nat
        <5>1. P[LastExec] = P[h - 1]
          BY <1>0, <2>3, <4>3, <4>4, NextInLine
        <5>2. ops[h] # op
          BY <2>1, <2>2, <3>3, <4>2
        <5>3. P[h] = P[h - 1] /\ P[h - 1] \in Nat
          BY <1>0, <2>3, <5>2, CountStep, Shape
        <5> QED BY <5>1, <5>3
      <4>6. ByFtl(op, P)' = P[h] - 0 /\ ByFtl(op, P) = P[LastExec] - 0
        BY <2>1, <4>1, <4>2 DEF ByFtl
      <4> QED BY <3>1, <4>5, <4>6
    <3> QED BY <2>1, <3>2, <3>3
  <2> QED BY <1>0, <2>1, <2>3, NoPageMoves
<1>4. CASE FtlWritePage
  <2>1. /\ pc = "ftl" /\ ops[cur] = "write" /\ wr.ptr # wr.limit
        /\ wr'.limit = (wr.limit + 1) % NumWrBufs /\ wr'.ptr = wr.ptr /\ wr'.data = wr.data
        /\ todo' = todo - 1 /\ (todo # 1 => pc' = pc) /\ (todo = 1 => pc' = "poll")
        /\ UNCHANGED <<rd, cur, cmd, xfer, left, exec>>
    BY <1>0, <1>4 DEF FtlWritePage, PageDone, NoAnswer, At, hostVars,
       OInv, IInv, TypeOK, DataTypeOK, Ring
  <2>2. PICK P : WrInv(P)
    BY <1>0 DEF RingsInv
  <2>3. PICK R : RdInv(R)
    BY <1>0 DEF RingsInv
  <2>4. todo \in 1 .. CmdPages /\ cur \in 1 .. Len(ops) /\ cur = LastExec
    BY <1>0, <2>1, Shape
  <2>5. PICK lo : lo = ByFtl("write", P)
    OBVIOUS
  <2>6. PICK hi : hi = ByLink("write", P)
    OBVIOUS
  <2>7. /\ Window(Own("write", P), wr.data, wr.limit, wr.ptr, NumWrBufs, lo, hi)
        /\ lo \in Nat /\ hi \in Nat /\ lo <= hi
    BY <2>2, <2>5, <2>6 DEF WrInv, Window
  <2>8. ByFtl("write", P)' = lo + 1
    <3>1. ByFtl("write", P) = P[LastExec] - todo
      BY <2>1 DEF ByFtl
    <3>2. ByFtl("write", P)' = P[LastExec] - (todo - 1)
      BY <1>0, <2>1, <2>4 DEF ByFtl, LastExec
    <3>3. P[LastExec] \in Nat
      BY <1>0, <2>2, Shape DEF WrInv, Counts
    <3> QED BY <2>4, <2>5, <3>1, <3>2, <3>3
  <2>9. ByLink("write", P)' = hi /\ ByLink("read", R)' = ByLink("read", R)
    BY <1>0, <2>1, <2>6 DEF ByLink
  <2>10. ByFtl("read", R)' = ByFtl("read", R)
    BY <1>0, <2>1, <2>4 DEF ByFtl, LastExec
  <2>11. /\ Counts("write", P)' /\ Own("write", P)' = Own("write", P)
         /\ Counts("read", R)' /\ Own("read", R)' = Own("read", R)
    BY <1>0, <2>2, <2>3 DEF Counts, Own, WrInv, RdInv
  <2>12. WrInv(P)'
    <3> DEFINE own == Own("write", P)
               a == wr.limit
               b == wr.ptr
    <3> HIDE DEF own, a, b
    <3>1. Window(own, wr.data, a, b, NumWrBufs, lo, hi) /\ a # b
      BY <2>1, <2>7 DEF own, a, b
    <3>2. lo < hi
      <4>1. (a = b) <=> (lo = hi)
        BY <3>1, BufsPositive, WindowEnds
      <4> QED BY <2>7, <3>1, <4>1
    <3>3. Window(own, wr.data, (a + 1) % NumWrBufs, b, NumWrBufs, lo + 1, hi)
      BY <3>1, <3>2, BufsPositive, WindowGet
    <3> QED BY <2>1, <2>8, <2>9, <2>11, <3>3 DEF WrInv, own, a, b
  <2>13. RdInv(R)'
    BY <2>1, <2>3, <2>9, <2>10, <2>11 DEF RdInv, Window
  <2> QED BY <2>12, <2>13 DEF RingsInv
<1>5. CASE FtlReadPage
  <2>1. /\ pc = "ftl" /\ ops[cur] = "read" /\ NextRdBuf # rd.ptr
        /\ rd'.limit = (rd.limit + 1) % NumRdBufs /\ rd'.ptr = rd.ptr
        /\ rd'.data[rd.limit] = cur
        /\ \A i \in 0 .. NumRdBufs - 1 : i # rd.limit => rd'.data[i] = rd.data[i]
        /\ todo' = todo - 1 /\ (todo # 1 => pc' = pc) /\ (todo = 1 => pc' = "poll")
        /\ UNCHANGED <<wr, cur, cmd, xfer, left, exec>>
    <3>1. rd.limit \in 0 .. NumRdBufs - 1 /\ rd.data \in [0 .. NumRdBufs - 1 -> Cmds \cup {NoCmd}]
          /\ rd \in Ring(NumRdBufs)
      BY <1>0 DEF OInv, IInv, TypeOK, DataTypeOK, Ring
    <3>2. rd' = [rd EXCEPT !.data[rd.limit] = cur, !.limit = NextRdBuf]
      BY <1>5 DEF FtlReadPage
    <3>3. /\ rd'.limit = (rd.limit + 1) % NumRdBufs /\ rd'.ptr = rd.ptr
          /\ rd'.data = [rd.data EXCEPT ![rd.limit] = cur]
      BY <3>1, <3>2 DEF Ring, NextRdBuf
    <3>4. /\ rd'.data[rd.limit] = cur
          /\ \A i \in 0 .. NumRdBufs - 1 : i # rd.limit => rd'.data[i] = rd.data[i]
      BY <3>1, <3>3
    <3> QED BY <1>5, <3>3, <3>4 DEF FtlReadPage, PageDone, NoAnswer, At, hostVars
  <2>2. PICK P : WrInv(P)
    BY <1>0 DEF RingsInv
  <2>3. PICK R : RdInv(R)
    BY <1>0 DEF RingsInv
  <2>4. todo \in 1 .. CmdPages /\ cur \in 1 .. Len(ops) /\ cur = LastExec /\ Len(ops) \in Nat
    BY <1>0, <2>1, Shape
  <2>5. PICK hi : hi = ByFtl("read", R)
    OBVIOUS
  <2>6. PICK lo : lo = ByLink("read", R)
    OBVIOUS
  <2>7. /\ Window(Own("read", R), rd.data, rd.ptr, rd.limit, NumRdBufs, lo, hi)
        /\ lo \in Nat /\ hi \in Nat
    BY <2>3, <2>5, <2>6 DEF RdInv, Window
  <2>a. /\ hi = R[cur] - todo
        /\ R[cur] \in Nat /\ R[cur - 1] \in Nat /\ R[cur] = R[cur - 1] + CmdPages
    <3>1. hi = R[cur] - todo
      BY <2>1, <2>4, <2>5 DEF ByFtl
    <3>2. Counts("read", R)
      BY <2>3 DEF RdInv
    <3> QED BY <2>1, <2>4, <3>1, <3>2, CountStep
  <2>8. ByFtl("read", R)' = hi + 1
    <3>1. ByFtl("read", R)' = R[cur] - (todo - 1)
      BY <1>0, <2>1, <2>4 DEF ByFtl, LastExec
    <3> QED BY <2>4, <2>a, <3>1
  <2>9. ByLink("read", R)' = lo /\ ByLink("write", P)' = ByLink("write", P)
    BY <1>0, <2>1, <2>6 DEF ByLink
  <2>10. ByFtl("write", P)' = ByFtl("write", P)
    BY <1>0, <2>1, <2>4 DEF ByFtl, LastExec
  <2>11. /\ Counts("write", P)' /\ Own("write", P)' = Own("write", P)
         /\ Counts("read", R)' /\ Own("read", R)' = Own("read", R)
    BY <1>0, <2>2, <2>3 DEF Counts, Own, WrInv, RdInv
  <2>12. RdInv(R)'
    <3> DEFINE own == Own("read", R)
               a == rd.ptr
               b == rd.limit
    <3>0. <<cur, hi>> \in own
      <4>1. R[cur - 1] <= hi /\ hi < R[cur]
        BY <2>4, <2>a
      <4> QED BY <2>1, <2>4, <2>7, <4>1, InOwn
    <3> HIDE DEF own, a, b
    <3>1. Window(own, rd.data, a, b, NumRdBufs, lo, hi) /\ (b + 1) % NumRdBufs # a
      BY <2>1, <2>7 DEF own, a, b, NextRdBuf
    <3>2. hi - lo < NumRdBufs - 1
      <4>1. hi - lo # NumRdBufs - 1
        BY <3>1, BufsPositive, WindowEnds
      <4>2. hi - lo < NumRdBufs
        BY <3>1 DEF Window
      <4> QED BY <2>7, <4>1, <4>2
    <3>3. PICK next : next = rd'.data
      OBVIOUS
    <3>4. PICK c : c = cur
      OBVIOUS
    <3>5. <<c, hi>> \in own /\ next[b] = c
          /\ \A i \in 0 .. NumRdBufs - 1 : i # b => next[i] = rd.data[i]
      BY <2>1, <3>0, <3>3, <3>4 DEF b
    <3>6. Window(own, next, a, (b + 1) % NumRdBufs, NumRdBufs, lo, hi + 1)
      BY <3>1, <3>2, <3>5, BufsPositive, WindowPut
    <3> QED BY <2>1, <2>8, <2>9, <2>11, <3>3, <3>6 DEF RdInv, own, a, b
  <2>13. WrInv(P)'
    BY <2>1, <2>2, <2>9, <2>10, <2>11 DEF WrInv, Window
  <2> QED BY <2>12, <2>13 DEF RingsInv
<1> QED BY <1>1, <1>2, <1>3, <1>4, <1>5 DEF MainStep

LEMMA RingsFiq == ASSUME DInv, FiqStep PROVE RingsInv'
<1> SUFFICES ASSUME resets' = 0 PROVE RingsInv'
  BY DEF RingsInv
<1>0. resets = 0 /\ OInv /\ SyncInv /\ RingsInv
      /\ UNCHANGED <<resets, ops, exec, pc, cur, todo, wr, rd>>
  BY DEF DInv, FiqStep, HandleGotCfis, HandleSrst, HandlePhyOnline, RejectCmd, InsertEq,
     StoreSlowCmd, hostVars, mainVars, dataVars
<1>1. ASSUME NEW op \in {"read", "write"}, NEW P, Counts(op, P)
      PROVE  ByFtl(op, P)' = ByFtl(op, P) /\ ByLink(op, P)' = ByLink(op, P)
  <2>1. ByFtl(op, P)' = ByFtl(op, P)
    BY <1>0 DEF ByFtl, LastExec
  <2>2. CASE HandleGotCfis
    <3>1. cmd = fis /\ fis \in Cmds /\ cmd = Len(ops) /\ cmd \in 1 .. Len(ops) /\ xfer # cmd
          /\ Len(ops) \in Nat
      BY <1>0, <2>2, OTypes, Shape DEF HandleGotCfis, SyncInv, OInv, HostInv, Pending
    <3>2. CASE RejectCmd
      <4>1. cmd' \in {cmd, NoCmd} /\ ops[cmd] = "bad" /\ UNCHANGED <<xfer, left>>
        BY <3>1, <3>2, Answered DEF RejectCmd, OutOfRange
      <4> QED BY <1>0, <2>1, <3>1, <4>1, NoCmds DEF ByLink
    <3>3. CASE InsertEq
      <4>1. cmd' = cmd
        BY <3>3 DEF InsertEq
      <4>2. CASE UNCHANGED <<xfer, left>>
        BY <1>0, <2>1, <4>1, <4>2 DEF ByLink
      <4>3. CASE xfer' = fis /\ left' = CmdPages
        <5>1. CASE ops[cmd] = op
          <6>1. P[cmd] = P[cmd - 1] + CmdPages /\ P[cmd - 1] \in Nat
            BY <1>1, <3>1, <5>1, CountStep
          <6>2. ByLink(op, P) = P[cmd - 1] /\ ByLink(op, P)' = P[cmd] - CmdPages
            BY <1>0, <3>1, <4>1, <4>3, <5>1 DEF ByLink
          <6> QED BY <2>1, <6>1, <6>2
        <5>2. CASE ops[cmd] # op
          BY <1>0, <2>1, <4>1, <5>2 DEF ByLink
        <5> QED BY <5>1, <5>2
      <4> QED BY <3>3, <4>2, <4>3 DEF InsertEq, StartTransfer
    <3>4. CASE StoreSlowCmd
      BY <1>0, <2>1, <3>4 DEF StoreSlowCmd, ByLink
    <3> QED BY <2>2, <3>2, <3>3, <3>4 DEF HandleGotCfis
  <2>3. CASE HandleSrst \/ HandlePhyOnline
    BY <1>0, <2>1, <2>3 DEF HandleSrst, HandlePhyOnline, hostVars, dataVars, ByLink
  <2> QED BY <2>2, <2>3 DEF FiqStep
<1> QED BY <1>0, <1>1, NoPageMoves

LEMMA RingsTransfer == ASSUME DInv, TransferStep PROVE RingsInv'
<1> SUFFICES ASSUME resets' = 0 PROVE RingsInv'
  BY DEF RingsInv
<1>0. /\ resets = 0 /\ OInv /\ SyncInv /\ RingsInv
      /\ CompletePage /\ xfer \in Cmds /\ cmd = xfer /\ link
      /\ UNCHANGED <<resets, ops, exec, pc, cur, todo>>
  BY DEF DInv, TransferStep, ReceivePage, SendPage, CompletePage, mainVars
<1>1. /\ cmd \in 1 .. Len(ops) /\ cmd = Len(ops) /\ Len(ops) \in Nat /\ left \in 1 .. CmdPages
      /\ left' = left - 1
      /\ left = 1 => cmd' = NoCmd /\ xfer' = NoCmd
      /\ left # 1 => cmd' = cmd /\ xfer' = xfer
  BY <1>0, Shape, AnswerTaken DEF CompletePage
<1>2. PICK P : WrInv(P)
  BY <1>0 DEF RingsInv
<1>3. PICK R : RdInv(R)
  BY <1>0 DEF RingsInv
<1>4. /\ Counts("write", P)' /\ Own("write", P)' = Own("write", P)
      /\ Counts("read", R)' /\ Own("read", R)' = Own("read", R)
      /\ ByFtl("write", P)' = ByFtl("write", P)
      /\ ByFtl("read", R)' = ByFtl("read", R)
  BY <1>0, <1>2, <1>3 DEF Counts, Own, WrInv, RdInv, ByFtl, LastExec
<1>5. ASSUME NEW op, NEW Q, Counts(op, Q)
      PROVE  /\ ops[cmd] # op => ByLink(op, Q)' = ByLink(op, Q)
             /\ ops[cmd] = op =>
                  /\ ByLink(op, Q) = Q[cmd] - left /\ ByLink(op, Q)' = ByLink(op, Q) + 1
                  /\ <<cmd, ByLink(op, Q)>> \in Own(op, Q)
  <2>1. Q[cmd] \in Nat /\ Q[cmd - 1] \in Nat /\ (ops[cmd] = op => Q[cmd] = Q[cmd - 1] + CmdPages)
    BY <1>1, <1>5, CountStep
  <2>2. CASE ops[cmd] # op
    BY <1>0, <1>1, <2>2, NoCmds DEF ByLink
  <2>3. CASE ops[cmd] = op
    <3>1. ByLink(op, Q) = Q[cmd] - left
      BY <1>0, <2>3 DEF ByLink
    <3>2. left = 1 => ByLink(op, Q)' = Q[cmd]
      BY <1>0, <1>1, <2>3, NoCmds DEF ByLink
    <3>3. left # 1 => ByLink(op, Q)' = Q[cmd] - (left - 1)
      BY <1>0, <1>1, <2>3 DEF ByLink
    <3>4. ByLink(op, Q)' = ByLink(op, Q) + 1
      BY <1>1, <2>1, <3>1, <3>2, <3>3
    <3>5. Q[cmd] - left \in Nat /\ Q[cmd - 1] <= Q[cmd] - left /\ Q[cmd] - left < Q[cmd]
      <4>1. PICK x \in Nat, y \in Nat, l \in 1 .. CmdPages :
              x = Q[cmd] /\ y = Q[cmd - 1] /\ l = left /\ x = y + CmdPages
        BY <1>1, <2>1, <2>3
      <4>2. x - l \in Nat /\ y <= x - l /\ x - l < x
        BY <4>1
      <4> QED BY <4>1, <4>2
    <3>6. <<cmd, Q[cmd] - left>> \in Own(op, Q)
      BY <1>1, <2>3, <3>5, InOwn
    <3> QED BY <2>3, <3>1, <3>4, <3>6
  <2> QED BY <2>2, <2>3
<1>6. CASE ReceivePage
  <2>1. /\ ops[cmd] = "write" /\ WrUsed < NumWrBufs - WbufMargin /\ rd' = rd
        /\ wr'.ptr = (wr.ptr + 1) % NumWrBufs /\ wr'.limit = wr.limit
        /\ wr'.data[wr.ptr] = cmd
        /\ \A i \in 0 .. NumWrBufs - 1 : i # wr.ptr => wr'.data[i] = wr.data[i]
    <3>1. wr.ptr \in 0 .. NumWrBufs - 1 /\ wr.data \in [0 .. NumWrBufs - 1 -> Cmds \cup {NoCmd}]
          /\ wr \in Ring(NumWrBufs)
      BY <1>0 DEF OInv, IInv, TypeOK, DataTypeOK, Ring
    <3>2. wr' = [wr EXCEPT !.data[wr.ptr] = cmd, !.ptr = (wr.ptr + 1) % NumWrBufs]
      BY <1>0, <1>6 DEF ReceivePage
    <3>3. /\ wr'.ptr = (wr.ptr + 1) % NumWrBufs /\ wr'.limit = wr.limit
          /\ wr'.data = [wr.data EXCEPT ![wr.ptr] = cmd]
      BY <3>1, <3>2 DEF Ring
    <3>4. /\ wr'.data[wr.ptr] = cmd
          /\ \A i \in 0 .. NumWrBufs - 1 : i # wr.ptr => wr'.data[i] = wr.data[i]
      BY <3>1, <3>3
    <3> QED BY <1>0, <1>6, <3>3, <3>4 DEF ReceivePage
  <2>2. PICK lo : lo = ByFtl("write", P)
    OBVIOUS
  <2>3. PICK hi : hi = ByLink("write", P)
    OBVIOUS
  <2>4. /\ Window(Own("write", P), wr.data, wr.limit, wr.ptr, NumWrBufs, lo, hi)
        /\ lo \in Nat /\ hi \in Nat
    BY <1>2, <2>2, <2>3 DEF WrInv, Window
  <2>5. ByLink("write", P)' = hi + 1 /\ <<cmd, hi>> \in Own("write", P)
        /\ ByLink("read", R)' = ByLink("read", R)
    BY <1>2, <1>3, <1>5, <2>1, <2>3 DEF WrInv, RdInv
  <2>6. WrInv(P)'
    <3> DEFINE own == Own("write", P)
               a == wr.limit
               b == wr.ptr
    <3> HIDE DEF own, a, b
    <3>1. Window(own, wr.data, a, b, NumWrBufs, lo, hi)
      BY <2>4 DEF own, a, b
    <3>2. hi - lo < NumWrBufs - 1
      <4>1. (b - a) % NumWrBufs = hi - lo
        BY <3>1, BufsPositive, WindowEnds
      <4>2. (b - a) % NumWrBufs < NumWrBufs - WbufMargin
        BY <2>1 DEF WrUsed, a, b
      <4> QED BY <2>4, <4>1, <4>2
    <3>3. PICK next : next = wr'.data
      OBVIOUS
    <3>4. PICK c : c = cmd
      OBVIOUS
    <3>5. <<c, hi>> \in own /\ next[b] = c
          /\ \A i \in 0 .. NumWrBufs - 1 : i # b => next[i] = wr.data[i]
      BY <2>1, <2>5, <3>3, <3>4 DEF b, own
    <3>6. Window(own, next, a, (b + 1) % NumWrBufs, NumWrBufs, lo, hi + 1)
      BY <3>1, <3>2, <3>5, BufsPositive, WindowPut
    <3> QED BY <1>4, <2>1, <2>2, <2>5, <3>3, <3>6 DEF WrInv, own, a, b
  <2>7. RdInv(R)'
    BY <1>3, <1>4, <2>1, <2>5 DEF RdInv, Window
  <2> QED BY <2>6, <2>7 DEF RingsInv
<1>7. CASE SendPage
  <2>1. /\ ops[cmd] = "read" /\ rd.ptr # rd.limit /\ wr' = wr
        /\ rd'.ptr = (rd.ptr + 1) % NumRdBufs /\ rd'.limit = rd.limit /\ rd'.data = rd.data
    BY <1>0, <1>7 DEF SendPage, OInv, IInv, TypeOK, DataTypeOK, Ring
  <2>2. PICK hi : hi = ByFtl("read", R)
    OBVIOUS
  <2>3. PICK lo : lo = ByLink("read", R)
    OBVIOUS
  <2>4. /\ Window(Own("read", R), rd.data, rd.ptr, rd.limit, NumRdBufs, lo, hi)
        /\ lo \in Nat /\ hi \in Nat /\ lo <= hi
    BY <1>3, <2>2, <2>3 DEF RdInv, Window
  <2>5. ByLink("read", R)' = lo + 1 /\ ByLink("write", P)' = ByLink("write", P)
    BY <1>2, <1>3, <1>5, <2>1, <2>3 DEF WrInv, RdInv
  <2>6. RdInv(R)'
    <3> DEFINE own == Own("read", R)
               a == rd.ptr
               b == rd.limit
    <3> HIDE DEF own, a, b
    <3>1. Window(own, rd.data, a, b, NumRdBufs, lo, hi) /\ a # b
      BY <2>1, <2>4 DEF own, a, b
    <3>2. lo < hi
      <4>1. (a = b) <=> (lo = hi)
        BY <3>1, BufsPositive, WindowEnds
      <4> QED BY <2>4, <3>1, <4>1
    <3>3. Window(own, rd.data, (a + 1) % NumRdBufs, b, NumRdBufs, lo + 1, hi)
      BY <3>1, <3>2, BufsPositive, WindowGet
    <3> QED BY <1>4, <2>1, <2>2, <2>5, <3>3 DEF RdInv, own, a, b
  <2>7. WrInv(P)'
    BY <1>2, <1>4, <2>1, <2>5 DEF WrInv, Window
  <2> QED BY <2>6, <2>7 DEF RingsInv
<1> QED BY <1>6, <1>7 DEF TransferStep

LEMMA WindowGrows ==
  ASSUME NEW own, NEW more, own \subseteq more, NEW data, NEW a, NEW b, NEW n, NEW lo, NEW hi,
         Window(own, data, a, b, n, lo, hi)
  PROVE  Window(more, data, a, b, n, lo, hi)
BY DEF Window

\* The count goes on with the next command.
LEMMA CountOn ==
  ASSUME ops \in Seq(Ops), NEW op \in Ops, ops' = Append(ops, op), NEW k, NEW P, Counts(k, P)
  PROVE  \E Q : /\ Counts(k, Q)'
                /\ \A c \in 0 .. Len(ops) : Q[c] = P[c]
                /\ Q[Len(ops) + 1] = P[Len(ops)] + IF op = k THEN CmdPages ELSE 0
                /\ Own(k, P) \subseteq Own(k, Q)'
<1>0. /\ Len(ops) \in Nat /\ Len(ops') = Len(ops) + 1 /\ ops'[Len(ops) + 1] = op
      /\ \A c \in 1 .. Len(ops) : ops'[c] = ops[c]
  OBVIOUS
<1>1. PICK n \in Nat : n = Len(ops)
  BY <1>0
<1>2. /\ P \in [0 .. n -> Nat]
      /\ \A c \in 1 .. n : P[c] = P[c - 1] + IF ops[c] = k THEN CmdPages ELSE 0
      /\ \A c, d \in 0 .. n : c <= d =>
           P[c] <= P[d] /\ ((\A e \in c + 1 .. d : ops[e] # k) => P[c] = P[d])
  BY <1>1 DEF Counts
<1> DEFINE more == IF op = k THEN CmdPages ELSE 0
           Q == [c \in 0 .. n + 1 |-> IF c <= n THEN P[c] ELSE P[n] + more]
<1>3. more \in Nat /\ (op # k => more = 0)
  OBVIOUS
<1>4. /\ \A c \in 0 .. n : Q[c] = P[c] /\ P[c] \in Nat
      /\ Q[n + 1] = P[n] + more /\ Q \in [0 .. n + 1 -> Nat]
  BY <1>2, <1>3
<1> HIDE DEF more, Q
<1>5. Counts(k, Q)'
  <2>1. \A c \in 1 .. n + 1 : Q[c] = Q[c - 1] + IF ops'[c] = k THEN CmdPages ELSE 0
    <3> SUFFICES ASSUME NEW c \in 1 .. n + 1
                 PROVE  Q[c] = Q[c - 1] + IF ops'[c] = k THEN CmdPages ELSE 0
      OBVIOUS
    <3>1. CASE c = n + 1
      BY <1>0, <1>1, <1>4, <3>1 DEF more
    <3>2. CASE c \in 1 .. n
      <4>1. c - 1 \in 0 .. n /\ c \in 0 .. n /\ ops'[c] = ops[c]
        BY <1>0, <1>1, <3>2
      <4> QED BY <1>2, <1>4, <3>2, <4>1
    <3> QED BY <1>1, <3>1, <3>2
  <2>2. ASSUME NEW c \in 0 .. n + 1, NEW d \in 0 .. n + 1, c <= d
        PROVE  Q[c] <= Q[d] /\ ((\A e \in c + 1 .. d : ops'[e] # k) => Q[c] = Q[d])
    <3>1. CASE d \in 0 .. n
      <4>1. c \in 0 .. n /\ \A e \in c + 1 .. d : e \in 1 .. n /\ ops'[e] = ops[e]
        BY <1>0, <1>1, <2>2, <3>1
      <4>2. P[c] <= P[d] /\ ((\A e \in c + 1 .. d : ops[e] # k) => P[c] = P[d])
        BY <1>2, <2>2, <3>1, <4>1
      <4> QED BY <1>4, <3>1, <4>1, <4>2
    <3>2. CASE d = n + 1 /\ c = n + 1
      BY <1>4, <3>2
    <3>3. CASE d = n + 1 /\ c \in 0 .. n
      <4>1. P[c] <= P[n] /\ ((\A e \in c + 1 .. n : ops[e] # k) => P[c] = P[n])
            /\ n \in 0 .. n /\ P[c] \in Nat /\ P[n] \in Nat
        BY <1>2, <1>4, <3>3
      <4>2. Q[c] = P[c] /\ Q[d] = P[n] + more
        BY <1>4, <3>3
      <4>3. ASSUME \A e \in c + 1 .. d : ops'[e] # k PROVE Q[c] = Q[d]
        <5>1. op # k
          BY <1>0, <1>1, <3>3, <4>3
        <5>2. \A e \in c + 1 .. n : ops[e] # k
          BY <1>0, <1>1, <3>3, <4>3
        <5> QED BY <1>3, <4>1, <4>2, <5>1, <5>2
      <4>4. Q[c] <= Q[d]
        BY <1>3, <4>1, <4>2
      <4> QED BY <4>3, <4>4
    <3> QED BY <1>1, <3>1, <3>2, <3>3
  <2>3. Len(ops') = n + 1
    BY <1>0, <1>1
  <2>4. Q \in [0 .. Len(ops') -> Nat]
    BY <1>4, <2>3
  <2>5. \A c \in 1 .. Len(ops') : Q[c] = Q[c - 1] + IF ops'[c] = k THEN CmdPages ELSE 0
    BY <2>1, <2>3
  <2>6. \A c, d \in 0 .. Len(ops') : c <= d =>
          Q[c] <= Q[d] /\ ((\A e \in c + 1 .. d : ops'[e] # k) => Q[c] = Q[d])
    BY <2>2, <2>3
  <2> QED BY <2>4, <2>5, <2>6 DEF Counts
<1>6. Own(k, P) \subseteq Own(k, Q)'
  <2> SUFFICES ASSUME NEW c \in 1 .. n, NEW x \in Nat, ops[c] = k, P[c - 1] <= x, x < P[c]
               PROVE  <<c, x>> \in Own(k, Q)'
    BY <1>1 DEF Own
  <2>1. c \in 0 .. n /\ c - 1 \in 0 .. n /\ c \in 1 .. Len(ops') /\ ops'[c] = k
    BY <1>0, <1>1
  <2>2. Q[c - 1] <= x /\ x < Q[c]
    BY <1>4, <2>1
  <2> QED BY <2>1, <2>2 DEF Own
<1> QED BY <1>1, <1>4, <1>5, <1>6 DEF more

LEMMA RingsHost == ASSUME DInv, HostStep PROVE RingsInv'
<1> SUFFICES ASSUME resets' = 0 PROVE RingsInv'
  BY DEF RingsInv
<1>0. resets = 0 /\ OInv /\ SyncInv /\ RingsInv
  BY OnlyCommands DEF DInv
<1>1. PICK op \in Ops : HostCommand(op)
  BY <1>0, OnlyCommands
<1>2. /\ cmd = NoCmd /\ ops' = Append(ops, op) /\ cmd' = Len(ops) + 1
      /\ UNCHANGED <<pc, cur, todo, wr, rd, xfer, left, exec>>
  BY <1>1 DEF HostCommand, mainVars, dataVars
<1>3. /\ ops \in Seq(Ops) /\ Len(ops) \in Nat /\ LastExec \in 0 .. Len(ops)
      /\ Len(ops') = Len(ops) + 1 /\ ops'[Len(ops) + 1] = op
      /\ \A c \in 1 .. Len(ops) : ops'[c] = ops[c]
      /\ pc = "ftl" => cur \in 1 .. Len(ops)
      /\ cmd' \in Cmds /\ xfer # cmd'
  <2>1. ops \in Seq(Ops) /\ Len(ops) \in Nat
    BY <1>0, OTypes
  <2>2. cmd' \in Cmds
    BY <1>1, <2>1 DEF HostCommand, Cmds
  <2>3. xfer \notin Cmds
    BY <1>0, <1>2, Shape, NoCmds
  <2> QED BY <1>0, <1>2, <2>1, <2>2, <2>3, Shape
<1>4. ASSUME NEW k, NEW P, NEW Q, Counts(k, P),
             \A c \in 0 .. Len(ops) : Q[c] = P[c],
             Q[Len(ops) + 1] = P[Len(ops)] + IF op = k THEN CmdPages ELSE 0
      PROVE  ByFtl(k, Q)' = ByFtl(k, P) /\ ByLink(k, Q)' = ByLink(k, P)
  <2>1. LastExec' = LastExec
    BY <1>2 DEF LastExec
  <2>2. ByFtl(k, Q)' = ByFtl(k, P)
    <3>1. Q[LastExec] = P[LastExec]
      BY <1>3, <1>4
    <3>2. pc = "ftl" => ops'[cur] = ops[cur]
      BY <1>3
    <3> QED BY <1>2, <2>1, <3>1, <3>2 DEF ByFtl
  <2>3. ByLink(k, P) = P[Len(ops)] /\ P[Len(ops)] \in Nat
    BY <1>2, <1>3, <1>4, NoCmds DEF ByLink, Counts
  <2>4. CASE op = k
    <3>1. ByLink(k, Q)' = Q[(Len(ops) + 1) - 1]
      BY <1>2, <1>3, <2>4 DEF ByLink
    <3>2. (Len(ops) + 1) - 1 = Len(ops) /\ Len(ops) \in 0 .. Len(ops)
      BY <1>3
    <3> QED BY <1>4, <2>2, <2>3, <3>1, <3>2
  <2>5. CASE op # k
    <3>1. ByLink(k, Q)' = Q[Len(ops) + 1]
      BY <1>2, <1>3, <2>5 DEF ByLink
    <3> QED BY <1>4, <2>2, <2>3, <2>5, <3>1
  <2> QED BY <2>4, <2>5
<1>5. PICK P : WrInv(P)
  BY <1>0 DEF RingsInv
<1>6. PICK R : RdInv(R)
  BY <1>0 DEF RingsInv
<1>7. PICK Q : /\ Counts("write", Q)' /\ Own("write", P) \subseteq Own("write", Q)'
               /\ \A c \in 0 .. Len(ops) : Q[c] = P[c]
               /\ Q[Len(ops) + 1] = P[Len(ops)] + IF op = "write" THEN CmdPages ELSE 0
  <2>1. Counts("write", P)
    BY <1>5 DEF WrInv
  <2> QED BY <1>2, <1>3, <2>1, CountOn
<1>8. PICK S : /\ Counts("read", S)' /\ Own("read", R) \subseteq Own("read", S)'
               /\ \A c \in 0 .. Len(ops) : S[c] = R[c]
               /\ S[Len(ops) + 1] = R[Len(ops)] + IF op = "read" THEN CmdPages ELSE 0
  <2>1. Counts("read", R)
    BY <1>6 DEF RdInv
  <2> QED BY <1>2, <1>3, <2>1, CountOn
<1>a. ByFtl("write", Q)' = ByFtl("write", P) /\ ByLink("write", Q)' = ByLink("write", P)
  <2>1. Counts("write", P)
    BY <1>5 DEF WrInv
  <2> QED BY <1>4, <1>7, <2>1
<1>b. ByFtl("read", S)' = ByFtl("read", R) /\ ByLink("read", S)' = ByLink("read", R)
  <2>1. Counts("read", R)
    BY <1>6 DEF RdInv
  <2> QED BY <1>4, <1>8, <2>1
<1>9. WrInv(Q)'
  <2>1. Window(Own("write", Q)', wr.data, wr.limit, wr.ptr, NumWrBufs,
               ByFtl("write", P), ByLink("write", P))
    BY <1>5, <1>7, WindowGrows DEF WrInv
  <2> QED BY <1>2, <1>7, <1>a, <2>1 DEF WrInv, Window
<1>10. RdInv(S)'
  <2>1. Window(Own("read", S)', rd.data, rd.ptr, rd.limit, NumRdBufs,
               ByLink("read", R), ByFtl("read", R))
    BY <1>6, <1>8, WindowGrows DEF RdInv
  <2> QED BY <1>2, <1>8, <1>b, <2>1 DEF RdInv, Window
<1> QED BY <1>9, <1>10 DEF RingsInv

LEMMA InitDInv == Init => DInv
<1> SUFFICES ASSUME Init PROVE DInv
  OBVIOUS
<1>1. OInv
  BY InitOInv
<1>2. SyncInv
  BY NoCmds DEF Init, SyncInv, Pending
<1>3. ops = <<>> /\ Len(ops) = 0 /\ exec = <<>> /\ LastExec = 0
      /\ cmd \notin Cmds /\ pc = "poll"
  BY NoCmds DEF Init, LastExec
<1> DEFINE P == [c \in 0 .. 0 |-> 0]
<1>4. P \in [0 .. 0 -> Nat] /\ P[0] = 0
  OBVIOUS
<1> HIDE DEF P
<1>5. \A op : Counts(op, P) /\ ByFtl(op, P) = 0 /\ ByLink(op, P) = 0
  BY <1>3, <1>4 DEF Counts, ByFtl, ByLink
<1>6. \A n \in Nat \ {0} : \A own, data : Window(own, data, 0, 0, n, 0, 0)
  <2> SUFFICES ASSUME NEW n \in Nat \ {0}, NEW own, NEW data
               PROVE  Window(own, data, 0, 0, n, 0, 0)
    OBVIOUS
  <2>1. 0 % n = 0
    OBVIOUS
  <2>2. 0 + (0 - 0) = 0 /\ 0 \in 0 .. n - 1 /\ 0 .. 0 - 0 - 1 = {}
    OBVIOUS
  <2> QED BY <2>1, <2>2 DEF Window
<1>7. WrInv(P) /\ RdInv(P)
  BY <1>5, <1>6, BufsPositive DEF WrInv, RdInv, Init
<1> QED BY <1>1, <1>2, <1>7 DEF DInv, RingsInv

LEMMA StutterDInv == ASSUME DInv, UNCHANGED vars PROVE DInv'
<1> USE DEF vars, mainVars, queueVars, dataVars, fisVars, hostVars, answerVars
<1>1. OInv'
  BY StutterOInv DEF DInv
<1>2. SyncInv'
  BY DEF DInv, SyncInv, Pending, LastExec
<1>3. RingsInv'
  <2>1. \A op, P : /\ Counts(op, P)' = Counts(op, P) /\ Own(op, P)' = Own(op, P)
                   /\ ByFtl(op, P)' = ByFtl(op, P) /\ ByLink(op, P)' = ByLink(op, P)
    BY DEF Counts, Own, ByFtl, ByLink, LastExec
  <2> QED BY <2>1 DEF DInv, RingsInv, WrInv, RdInv, Window
<1> QED BY <1>1, <1>2, <1>3 DEF DInv

LEMMA DInvHolds == Spec => []DInv
<1>1. DInv /\ [Next]_vars => DInv'
  <2> SUFFICES ASSUME DInv, [Next]_vars PROVE DInv'
    OBVIOUS
  <2>0. OInv /\ IInv /\ SyncInv
    BY DEF DInv, OInv
  <2>1. CASE MainStep
    BY <2>0, <2>1, MainStepIInv, HostInvMain, SlowInvMain, LineMain, SyncMain, RingsMain
       DEF OInv, DInv
  <2>2. CASE FiqStep
    BY <2>0, <2>2, FiqStepIInv, HostInvFiq, SlowInvFiq, LineFiq, SyncFiq, RingsFiq
       DEF OInv, DInv
  <2>3. CASE TransferStep
    BY <2>0, <2>3, TransferStepIInv, HostInvTransfer, SlowInvTransfer, LineTransfer,
       SyncTransfer, RingsTransfer DEF OInv, DInv
  <2>4. CASE HostStep
    BY <2>0, <2>4, HostStepIInv, HostInvHost, SlowInvHost, LineHost, SyncHost, RingsHost
       DEF OInv, DInv
  <2> QED BY <2>1, <2>2, <2>3, <2>4, StutterDInv DEF Next
<1> QED BY InitDInv, <1>1, PTL DEF Spec

\* Until the first reset, ftl_write consumes the pages of its own command and
\* no other's (ftl.c:222-318), the controller sends for a read the pages that
\* ftl_read (ftl.c:122-193) put into the ring for it, and each answer goes to the
\* command the host waits for.
THEOREM DataOfItsCommand == Spec => []DataMatches
<1>1. DInv => DataMatches
  <2> SUFFICES ASSUME DInv, resets = 0
               PROVE  /\ pc = "ftl" /\ ops[cur] = "write" /\ wr.ptr # wr.limit =>
                           wr.data[wr.limit] = cur
                      /\ xfer \in Cmds /\ ops[xfer] = "read" /\ rd.ptr # rd.limit =>
                           rd.data[rd.ptr] = xfer
                      /\ ~stray
    BY DEF DataMatches
  <2>1. ~stray /\ OInv /\ SyncInv
    BY DEF DInv, SyncInv
  <2>2. ASSUME pc = "ftl", ops[cur] = "write", wr.ptr # wr.limit
        PROVE  wr.data[wr.limit] = cur
    <3>1. PICK P : WrInv(P)
      BY DEF DInv, RingsInv
    <3>2. PICK lo, hi, own, a, b, c :
            /\ lo = ByFtl("write", P) /\ hi = ByLink("write", P) /\ own = Own("write", P)
            /\ a = wr.limit /\ b = wr.ptr /\ c = wr.data[wr.limit]
      OBVIOUS
    <3>3. Window(own, wr.data, a, b, NumWrBufs, lo, hi) /\ a # b
      BY <2>2, <3>1, <3>2 DEF WrInv
    <3>4. lo < hi
      <4>1. lo \in Nat /\ hi \in Nat /\ lo <= hi
        BY <3>3 DEF Window
      <4>2. (a = b) <=> (lo = hi)
        BY <3>3, BufsPositive, WindowEnds
      <4> QED BY <3>3, <4>1, <4>2
    <3>5. <<c, lo>> \in own
      BY <3>2, <3>3, <3>4, BufsPositive, WindowGet
    <3>6. <<cur, lo>> \in own
      <4>1. cur = LastExec /\ cur \in 1 .. Len(ops) /\ todo \in 1 .. CmdPages /\ Len(ops) \in Nat
        BY <2>1, <2>2, Shape
      <4>2. lo = P[cur] - todo
        BY <2>2, <3>2, <4>1 DEF ByFtl
      <4>3. P[cur] = P[cur - 1] + CmdPages /\ P[cur] \in Nat /\ P[cur - 1] \in Nat
        BY <2>2, <3>1, <4>1, CountStep DEF WrInv
      <4>4. lo \in Nat /\ P[cur - 1] <= lo /\ lo < P[cur]
        BY <4>1, <4>2, <4>3
      <4> QED BY <2>2, <3>2, <4>1, <4>4, InOwn
    <3>7. Counts("write", P) /\ Len(ops) \in Nat
      BY <2>1, <3>1, Shape DEF WrInv
    <3>8. PICK d : d = cur
      OBVIOUS
    <3> QED BY <3>2, <3>5, <3>6, <3>7, <3>8, OneOwner
  <2>3. ASSUME xfer \in Cmds, ops[xfer] = "read", rd.ptr # rd.limit
        PROVE  rd.data[rd.ptr] = xfer
    <3>1. PICK P : RdInv(P)
      BY DEF DInv, RingsInv
    <3>2. PICK lo, hi, own, a, b, c :
            /\ lo = ByLink("read", P) /\ hi = ByFtl("read", P) /\ own = Own("read", P)
            /\ a = rd.ptr /\ b = rd.limit /\ c = rd.data[rd.ptr]
      OBVIOUS
    <3>3. Window(own, rd.data, a, b, NumRdBufs, lo, hi) /\ a # b
      BY <2>3, <3>1, <3>2 DEF RdInv
    <3>4. lo < hi
      <4>1. lo \in Nat /\ hi \in Nat /\ lo <= hi
        BY <3>3 DEF Window
      <4>2. (a = b) <=> (lo = hi)
        BY <3>3, BufsPositive, WindowEnds
      <4> QED BY <3>3, <4>1, <4>2
    <3>5. <<c, lo>> \in own
      BY <3>2, <3>3, <3>4, BufsPositive, WindowGet
    <3>6. <<xfer, lo>> \in own
      <4>1. xfer = cmd /\ xfer \in 1 .. Len(ops) /\ left \in 1 .. CmdPages /\ Len(ops) \in Nat
        BY <2>1, <2>3, Shape
      <4>2. lo = P[xfer] - left
        BY <2>3, <3>2, <4>1 DEF ByLink
      <4>3. P[xfer] = P[xfer - 1] + CmdPages /\ P[xfer] \in Nat /\ P[xfer - 1] \in Nat
        BY <2>3, <3>1, <4>1, CountStep DEF RdInv
      <4>4. lo \in Nat /\ P[xfer - 1] <= lo /\ lo < P[xfer]
        BY <4>1, <4>2, <4>3
      <4> QED BY <2>3, <3>2, <4>1, <4>4, InOwn
    <3>7. Counts("read", P) /\ Len(ops) \in Nat
      BY <2>1, <3>1, Shape DEF RdInv
    <3>8. PICK d : d = xfer
      OBVIOUS
    <3> QED BY <3>2, <3>5, <3>6, <3>7, <3>8, OneOwner
  <2> QED BY <2>1, <2>2, <2>3
<1> QED BY DInvHolds, <1>1, PTL
=============================================================================
