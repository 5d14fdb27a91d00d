---------------------------- MODULE FlashWrapper ----------------------------
(***************************************************************************)
(* The page operations of flash_wrapper.c down to the registers of the     *)
(* flash command port.  An operation is a sequence of commands; a command  *)
(* sets some registers - the others keep the value of the last command -   *)
(* and is issued to the Waiting Room, where it is copied and waits for its *)
(* bank.  What a command does is what flash.h says of it (FC_...): the     *)
(* sector at column s goes to or comes from the memory sector FCP_DMA_ADDR *)
(* + s, and a program is a sequence that starts with a COL_ROW command and *)
(* ends with a PROG one.                                                   *)
(*                                                                         *)
(* The caller keeps its own rules: it programs erased pages, and calls no  *)
(* operation on memory that a command of another bank still works on.      *)
(* Next to the flash and the memory there is what they should hold once    *)
(* everything is done: asked_nand and asked_dram, changed by the call.     *)
(***************************************************************************)
EXTENDS Integers, Sequences, FiniteSets, Functions

CONSTANTS
  Bank, VBLKS_PER_BANK, PAGES_PER_BLK, SECTORS_PER_PAGE,
  NUM_PLANES,             \* planes of a die: even and odd blocks
  NAND_SPEC_DIE,          \* dies of a bank
  NAND_SPEC_MODIFY_COPY,  \* do the chips know FC_MODIFY_COPYBACK?
  NUM_RD_BUFFERS,
  Data,                   \* memory sectors the caller uses, after the buffers
  Kinds,                  \* operations the caller uses, of "read", "host",
                          \* "program", "copy", "modify", "erase"
  MaxOps                  \* bound: operations of one behaviour

PAGES_PER_BANK == VBLKS_PER_BANK * PAGES_PER_BLK
Row == 0 .. PAGES_PER_BANK - 1
Col == 0 .. SECTORS_PER_PAGE - 1
Blk == 0 .. VBLKS_PER_BANK - 1

\* Memory, in sectors: the read buffers, the copy buffers, the caller's.
COPY_BUF(b) == (NUM_RD_BUFFERS + b) * SECTORS_PER_PAGE
RD_BUF_PTR(i) == i * SECTORS_PER_PAGE
DATA_ADDR == (NUM_RD_BUFFERS + Cardinality(Bank)) * SECTORS_PER_PAGE
Addr == 0 .. DATA_ADDR + Data - 1

WrapperConstants ==
  /\ Bank = 0 .. Cardinality(Bank) - 1
  /\ {VBLKS_PER_BANK, PAGES_PER_BLK, SECTORS_PER_PAGE, NUM_PLANES,
      NAND_SPEC_DIE} \subseteq Nat \ {0}
  /\ VBLKS_PER_BANK % NAND_SPEC_DIE = 0
  /\ NUM_RD_BUFFERS > 1 /\ Data >= SECTORS_PER_PAGE
  /\ NAND_SPEC_MODIFY_COPY \in BOOLEAN

VARIABLES
  fcp,          \* the registers
  wr, bsp,      \* the command in the Waiting Room; what each bank works on
  page_buf,     \* bank -> what its page register holds for a program
  nand, dram,
  todo,         \* the rest of the operation that was called
  ops,          \* operations called
  g_ftl_read_buf_id, SATA_RBUF_PTR, ready,    \* the ring of read buffers
  asked_nand, asked_dram, asked_host, got_host    \* history

hw == <<wr, bsp, page_buf, nand, dram>>
host == <<g_ftl_read_buf_id, SATA_RBUF_PTR, ready, got_host>>
asked == <<asked_nand, asked_dram, asked_host>>
vars == <<fcp, hw, todo, ops, host, asked>>

Blank == <<"blank">>
Garbage == <<"garbage">>
NoCmd == [cmd |-> "none"]
NoBuf == [row |-> -1]
BlankPage == [s \in Col |-> Blank]

-----------------------------------------------------------------------------
\* The operations.  A step of one is [set, wait]: registers and their new
\* values, and how flash_issue_cmd returns: "issue", "accept" or "done".

Cmd(set, wait) == <<[set |-> set, wait |-> wait]>>
RowOf(vblock, page_num) == vblock * PAGES_PER_BLK + page_num

ReadRegs(b, row, off, cnt, addr) ==
  [cmd |-> "COL_ROW_READ_OUT", bank |-> b, row |-> row, col |-> off,
   addr |-> addr, cnt |-> cnt, sata |-> FALSE]
ProgRegs(b, row, off, cnt, addr) ==
  [cmd |-> "COL_ROW_IN_PROG", bank |-> b, row |-> row, col |-> off,
   addr |-> addr, cnt |-> cnt, sata |-> FALSE]

nand_page_read(b, row, addr) ==
  Cmd(ReadRegs(b, row, 0, SECTORS_PER_PAGE, addr), "done")
nand_page_ptread(b, row, off, cnt, addr, issue_flag) ==
  Cmd(ReadRegs(b, row, off, cnt, addr), issue_flag)
nand_page_program(b, row, addr) ==
  Cmd(ProgRegs(b, row, 0, SECTORS_PER_PAGE, addr), "issue")
nand_page_ptprogram(b, row, off, cnt, addr) ==
  Cmd(ProgRegs(b, row, off, cnt, addr), "issue")
nand_page_ptprogram_sync(b, row, off, cnt, addr) ==
  Cmd(ProgRegs(b, row, off, cnt, addr), "done")

\* To the host: the read buffer in turn.  It is taken, and the wait for the
\* host to have left the next one is before the command is issued.
nand_page_ptread_to_host(b, row, off, cnt) ==
  Cmd([ReadRegs(b, row, off, cnt, RD_BUF_PTR(g_ftl_read_buf_id))
         EXCEPT !.sata = TRUE], "issue")
nand_page_read_to_host(b, row) ==
  nand_page_ptread_to_host(b, row, 0, SECTORS_PER_PAGE)

\* May the chip be asked to copy by itself?
SameDieOnly(src, dst) ==        \* mutant: the planes are not looked at
  src \div (PAGES_PER_BANK \div NAND_SPEC_DIE)
    = dst \div (PAGES_PER_BANK \div NAND_SPEC_DIE)
DoCopyback(src, dst) ==
  /\ src \div (PAGES_PER_BANK \div NAND_SPEC_DIE)
       = dst \div (PAGES_PER_BANK \div NAND_SPEC_DIE)
  /\ (dst \div PAGES_PER_BLK) % NUM_PLANES
       = (src \div PAGES_PER_BLK) % NUM_PLANES

\* FC_COPYBACK ignores the memory registers: they are left as they are.
CopyRegs(cmd, b, src, dst) ==
  [cmd |-> cmd, bank |-> b, row |-> src, dst_row |-> dst, col |-> 0,
   dst_col |-> 0, sata |-> FALSE, addr |-> fcp.addr, cnt |-> fcp.cnt]
nand_page_copyback(b, src, dst) ==
  IF DoCopyback(src, dst) THEN Cmd(CopyRegs("COPYBACK", b, src, dst), "issue")
  ELSE Cmd(ReadRegs(b, src, 0, SECTORS_PER_PAGE, COPY_BUF(b)), "issue")
       \o Cmd([cmd |-> "COL_ROW_IN_PROG", row |-> dst, bank |-> b], "issue")

\* The new sectors are at addr; the memory address of column off is to be
\* addr, so the register is off sectors below.
nand_page_modified_copyback(b, src, dst, off, addr, cnt) ==
  IF DoCopyback(src, dst) /\ NAND_SPEC_MODIFY_COPY
  THEN LET regs == CopyRegs("MODIFY_COPYBACK", b, src, dst)
       IN  Cmd([regs EXCEPT !.dst_col = off, !.addr = addr - off, !.cnt = cnt],
               "issue")
  ELSE Cmd(ReadRegs(b, src, 0, SECTORS_PER_PAGE, COPY_BUF(b)), "issue")
       \o Cmd([cmd |-> "COL_ROW_IN", bank |-> b, row |-> dst, cnt |-> off,
               col |-> 0], "issue")
       \o Cmd([cmd |-> "IN", addr |-> addr - off, cnt |-> cnt, col |-> off],
              "issue")
       \o Cmd([cmd |-> "IN_PROG", addr |-> COPY_BUF(b),
               cnt |-> SECTORS_PER_PAGE - off - cnt, col |-> off + cnt],
              "issue")

EraseRegs(b, blk) ==
  [cmd |-> "ERASE", bank |-> b, row |-> blk * PAGES_PER_BLK, sata |-> FALSE]
nand_block_erase(b, blk) == Cmd(EraseRegs(b, blk), "issue")
nand_block_erase_sync(b, blk) == Cmd(EraseRegs(b, blk), "done")

-----------------------------------------------------------------------------
\* The call of an operation, by a caller that keeps to its rules.

Working == {wr} \cup Range(bsp)
\* Sectors that the commands of other banks still read or write.
Touched(c) ==
  LET first == c.addr + IF c.cmd = "MODIFY_COPYBACK" THEN c.dst_col ELSE c.col
  IN  IF c.cmd \in {"none", "COPYBACK", "ERASE"} THEN {}
      ELSE first .. first + c.cnt - 1
InUse(b) == UNION {Touched(c) : c \in {c \in Working \ {NoCmd} : c.bank # b}}
May(b, first, cnt) == {first + i : i \in 0 .. cnt - 1} \cap InUse(b) = {}
IsBlank(b, row) == asked_nand[b][row] = BlankPage

Call(kind, steps) ==
  /\ kind \in Kinds /\ todo = <<>> /\ todo' = steps
  /\ ops < MaxOps /\ ops' = ops + 1
Quiet == UNCHANGED <<fcp, hw>>

\* What the page should hold: sectors off .. off + cnt - 1 from addr, and the
\* others from old.
Merged(old, off, cnt, addr) ==
  [s \in Col |-> IF s \in off .. off + cnt - 1
                   THEN asked_dram[addr + s - off] ELSE old[s]]
AskPage(b, row, page) ==
  asked_nand' = [asked_nand EXCEPT ![b][row] = page]
Counts(off) == 1 .. SECTORS_PER_PAGE - off

CallRead ==
  \E b \in Bank, row \in Row, off \in Col, flag \in {"issue", "done"} :
    \E cnt \in Counts(off) :
      /\ May(b, DATA_ADDR + off, cnt)
      /\ \/ Call("read", nand_page_ptread(b, row, off, cnt, DATA_ADDR, flag))
         \/ /\ cnt = SECTORS_PER_PAGE /\ flag = "done"
            /\ Call("read", nand_page_read(b, row, DATA_ADDR))
      /\ asked_dram' = [a \in Addr |->
           IF a \in DATA_ADDR + off .. DATA_ADDR + off + cnt - 1
             THEN asked_nand[b][row][a - DATA_ADDR] ELSE asked_dram[a]]
      /\ Quiet /\ UNCHANGED <<host, asked_nand, asked_host>>

CallReadToHost ==
  \E b \in Bank, row \in Row, off \in Col : \E cnt \in Counts(off) :
    /\ \/ Call("host", nand_page_ptread_to_host(b, row, off, cnt))
       \/ /\ cnt = SECTORS_PER_PAGE
          /\ Call("host", nand_page_read_to_host(b, row))
    /\ g_ftl_read_buf_id' = (g_ftl_read_buf_id + 1) % NUM_RD_BUFFERS
    /\ asked_host' = Append(asked_host,
         [i \in 1 .. cnt |-> asked_nand[b][row][off + i - 1]])
    /\ Quiet /\ UNCHANGED <<SATA_RBUF_PTR, ready, got_host, asked_nand,
                            asked_dram>>

CallProgram ==
  \E b \in Bank, row \in Row, off \in Col : \E cnt \in Counts(off) :
    /\ IsBlank(b, row) /\ May(b, DATA_ADDR + off, cnt)
    /\ \/ Call("program", nand_page_ptprogram(b, row, off, cnt, DATA_ADDR))
       \/ Call("program", nand_page_ptprogram_sync(b, row, off, cnt, DATA_ADDR))
       \/ /\ cnt = SECTORS_PER_PAGE
          /\ Call("program", nand_page_program(b, row, DATA_ADDR))
    /\ AskPage(b, row, Merged(BlankPage, off, cnt, DATA_ADDR + off))
    /\ Quiet /\ UNCHANGED <<host, asked_dram, asked_host>>

CallCopyback ==
  \E b \in Bank, src, dst \in Row :
    /\ src # dst /\ IsBlank(b, dst)
    /\ Call("copy", nand_page_copyback(b, src, dst))
    /\ AskPage(b, dst, asked_nand[b][src])
    /\ Quiet /\ UNCHANGED <<host, asked_dram, asked_host>>

CallModifiedCopyback ==
  \E b \in Bank, src, dst \in Row, off \in Col : \E cnt \in Counts(off) :
    /\ src # dst /\ IsBlank(b, dst) /\ May(b, DATA_ADDR, cnt)
    /\ Call("modify",
            nand_page_modified_copyback(b, src, dst, off, DATA_ADDR, cnt))
    /\ AskPage(b, dst, Merged(asked_nand[b][src], off, cnt, DATA_ADDR))
    /\ Quiet /\ UNCHANGED <<host, asked_dram, asked_host>>

CallErase ==
  \E b \in Bank, blk \in Blk :
    /\ \/ Call("erase", nand_block_erase(b, blk))
       \/ Call("erase", nand_block_erase_sync(b, blk))
    /\ asked_nand' = [asked_nand EXCEPT ![b] =
         [r \in Row |-> IF r \div PAGES_PER_BLK = blk THEN BlankPage ELSE @[r]]]
    /\ Quiet /\ UNCHANGED <<host, asked_dram, asked_host>>

-----------------------------------------------------------------------------
\* flash_issue_cmd

\* The wait of the reads to the host.
HostLeft(set) == "sata" \in DOMAIN set /\ set.sata =>
                   g_ftl_read_buf_id # SATA_RBUF_PTR
IssueNow(regs) == wr = NoCmd /\ wr' = regs
Waiting(how) == [set |-> NoCmd, wait |-> how]

\* There is a row register for each bank; the command takes that of its bank.
SetRegs(set) ==
  [r \in DOMAIN fcp |->
     CASE r \notin DOMAIN set -> fcp[r]
       [] r = "row" -> [fcp.row EXCEPT ![set.bank] = set.row]
       [] OTHER -> set[r]]
\* Set the registers, poll WR_STAT, issue; then poll again as asked for.
IssueCmd ==
  /\ todo # <<>> /\ todo[1].set # NoCmd
  /\ HostLeft(todo[1].set)
  /\ fcp' = SetRegs(todo[1].set)
  /\ IssueNow([fcp' EXCEPT !.row = @[fcp'.bank]])
  /\ todo' = (IF todo[1].wait = "issue" THEN <<>>
              ELSE <<Waiting("accept")>>
                   \o (IF todo[1].wait = "done" THEN <<Waiting("done")>>
                                                ELSE <<>>)) \o Tail(todo)
  /\ UNCHANGED <<bsp, page_buf, nand, dram, ops, host, asked>>

PollWr == wr = NoCmd                    \* mutant: only accepted
PollDone == bsp[fcp.bank] = NoCmd
IssueReturns ==
  /\ todo # <<>> /\ todo[1].set = NoCmd
  /\ IF todo[1].wait = "accept" THEN wr = NoCmd ELSE PollDone
  /\ todo' = Tail(todo)
  /\ UNCHANGED <<fcp, hw, ops, host, asked>>

-----------------------------------------------------------------------------
\* The hardware

Accept ==
  /\ wr # NoCmd /\ bsp[wr.bank] = NoCmd
  /\ bsp' = [bsp EXCEPT ![wr.bank] = wr] /\ wr' = NoCmd
  /\ UNCHANGED <<fcp, page_buf, nand, dram, todo, ops, host, asked>>

\* A chip copies within one plane of one die.
OnePlane(src, dst) ==
  LET die(row) == row \div (PAGES_PER_BANK \div NAND_SPEC_DIE)
      plane(row) == (row \div PAGES_PER_BLK) % NUM_PLANES
  IN  die(src) = die(dst) /\ plane(src) = plane(dst)

\* The page register of a bank after the transfer of a command.
Loaded(c) ==
  [s \in Col |-> IF s \in c.col .. c.col + c.cnt - 1 THEN dram[c.addr + s]
                 ELSE IF c.cmd \in {"IN", "IN_PROG"} /\ page_buf[c.bank] # NoBuf
                   THEN page_buf[c.bank].data[s] ELSE Blank]
\* A row that is programmed twice, or by a sequence that does not start with
\* a COL_ROW command, holds nothing.
ProgrammedRow(c, row, data) ==
  IF nand[c.bank][row] = BlankPage THEN data ELSE [s \in Col |-> Garbage]
WriteRow(c, row, data) ==
  nand' = [nand EXCEPT ![c.bank][row] = ProgrammedRow(c, row, data)]

Chip(c) ==
  CASE c.cmd = "COL_ROW_READ_OUT" ->
         /\ dram' = [a \in Addr |->
              IF a \in c.addr + c.col .. c.addr + c.col + c.cnt - 1
                THEN nand[c.bank][c.row][a - c.addr] ELSE dram[a]]
         /\ UNCHANGED <<nand, page_buf>>
    [] c.cmd \in {"COL_ROW_IN", "IN"} ->
         /\ page_buf' = [page_buf EXCEPT ![c.bank] =
              IF c.cmd = "IN" /\ @ = NoBuf THEN @
              ELSE [row |-> IF c.cmd = "IN" THEN @.row ELSE c.row,
                    data |-> Loaded(c)]]
         /\ UNCHANGED <<nand, dram>>
    [] c.cmd = "COL_ROW_IN_PROG" ->
         /\ WriteRow(c, c.row, Loaded(c))
         /\ page_buf' = [page_buf EXCEPT ![c.bank] = NoBuf]
         /\ UNCHANGED dram
    [] c.cmd = "IN_PROG" ->
         /\ IF page_buf[c.bank] = NoBuf THEN UNCHANGED nand
            ELSE WriteRow(c, page_buf[c.bank].row, Loaded(c))
         /\ page_buf' = [page_buf EXCEPT ![c.bank] = NoBuf]
         /\ UNCHANGED dram
    [] c.cmd \in {"COPYBACK", "MODIFY_COPYBACK"} ->
         /\ WriteRow(c, c.dst_row,
              IF ~OnePlane(c.row, c.dst_row) THEN [s \in Col |-> Garbage]
              ELSE [s \in Col |->
                     IF /\ c.cmd = "MODIFY_COPYBACK"
                        /\ s \in c.dst_col .. c.dst_col + c.cnt - 1
                     THEN dram[c.addr + s] ELSE nand[c.bank][c.row][s]])
         /\ UNCHANGED <<dram, page_buf>>
    [] c.cmd = "ERASE" ->
         /\ nand' = [nand EXCEPT ![c.bank] = [r \in Row |->
              IF r \div PAGES_PER_BLK = c.row \div PAGES_PER_BLK
                THEN BlankPage ELSE @[r]]]
         /\ UNCHANGED <<dram, page_buf>>

Complete(b) ==
  /\ bsp[b] # NoCmd /\ Chip(bsp[b])
  /\ bsp' = [bsp EXCEPT ![b] = NoCmd]
  /\ ready' = IF bsp[b].sata
                THEN [ready EXCEPT ![bsp[b].addr \div SECTORS_PER_PAGE] =
                        <<bsp[b].col, bsp[b].cnt>>]
                ELSE ready
  /\ UNCHANGED <<fcp, wr, todo, ops, g_ftl_read_buf_id, SATA_RBUF_PTR,
                 got_host, asked>>

\* The buffers go to the host in turn, each once its read is complete.
Send ==
  /\ ready[SATA_RBUF_PTR] # <<>>
  /\ LET r == ready[SATA_RBUF_PTR]
     IN  got_host' = Append(got_host,
           [i \in 1 .. r[2] |-> dram[RD_BUF_PTR(SATA_RBUF_PTR) + r[1] + i - 1]])
  /\ ready' = [ready EXCEPT ![SATA_RBUF_PTR] = <<>>]
  /\ SATA_RBUF_PTR' = (SATA_RBUF_PTR + 1) % NUM_RD_BUFFERS
  /\ UNCHANGED <<fcp, hw, todo, ops, g_ftl_read_buf_id, asked>>

-----------------------------------------------------------------------------
\* The first page of each bank holds data, the others are erased.
Init ==
  /\ fcp = [cmd |-> "none", bank |-> 0, row |-> [b \in Bank |-> 0], col |-> 0,
            addr |-> 0, cnt |-> 0, dst_row |-> 0, dst_col |-> 0, sata |-> FALSE]
  /\ wr = NoCmd /\ bsp = [b \in Bank |-> NoCmd]
  /\ page_buf = [b \in Bank |-> NoBuf]
  /\ nand = [b \in Bank |-> [r \in Row |->
       IF r = 0 THEN [s \in Col |-> <<"page", b, s>>] ELSE BlankPage]]
  /\ dram = [a \in Addr |-> <<"mem", a>>]
  /\ todo = <<>> /\ ops = 0
  /\ g_ftl_read_buf_id = 0 /\ SATA_RBUF_PTR = 0
  /\ ready = [i \in 0 .. NUM_RD_BUFFERS - 1 |-> <<>>]
  /\ asked_nand = nand /\ asked_dram = dram
  /\ asked_host = <<>> /\ got_host = <<>>

Firmware == \/ CallRead \/ CallReadToHost \/ CallProgram \/ CallCopyback
            \/ CallModifiedCopyback \/ CallErase
Hardware == Accept \/ (\E b \in Bank : Complete(b)) \/ Send
Next == Firmware \/ IssueCmd \/ IssueReturns \/ Hardware

Spec == Init /\ [][Next]_vars
-----------------------------------------------------------------------------
Idle == todo = <<>> /\ wr = NoCmd /\ \A b \in Bank : bsp[b] = NoCmd

\* Once all banks are idle the flash holds what the operations asked for, in
\* the order in which they were called: every command found in the registers
\* what its operation meant, also those an earlier command had set.
FlashAsAsked == Idle => nand = asked_nand /\ page_buf = [b \in Bank |-> NoBuf]

\* An operation that returns when it is done has done what all calls to its
\* bank asked for, in the flash and in the caller's memory.
SyncIsDone ==
  [][ IssueReturns /\ todo[1].wait = "done" =>
        /\ nand[fcp.bank] = asked_nand[fcp.bank]
        /\ fcp.cmd = "COL_ROW_READ_OUT" =>
             \A a \in DATA_ADDR + fcp.col .. DATA_ADDR + fcp.col + fcp.cnt - 1 :
               dram[a] = asked_dram[a] ]_vars

\* The host receives the sectors of the reads, in the order of the calls:
\* whatever bank answers first, no buffer is filled before the host has it.
HostInOrder == \A i \in 1 .. Len(got_host) : got_host[i] = asked_host[i]
==============================================================================
