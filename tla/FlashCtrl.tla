----------------------------- MODULE FlashCtrl -----------------------------
(***************************************************************************)
(* The flash controller as the firmware sees it through flash.c and        *)
(* flash_wrapper.c.  A command goes to the Waiting Room, which holds one;  *)
(* the controller moves it to the bank it is for once that bank is idle;   *)
(* the bank works on it and goes idle again.  Commands to one bank are     *)
(* done in the order they were issued, those of different banks in any     *)
(* order.                                                                  *)
(*                                                                         *)
(* The transfer between DRAM and the bank is made at the last moment, when *)
(* the bank goes idle: it is the moment at which a buffer that changes too *)
(* early, or is read too early, does most harm, and a transfer that comes  *)
(* earlier is a bank that goes idle earlier.  The value of a DRAM buffer   *)
(* and of a flash page is what each part of it (a run of sectors) holds.   *)
(***************************************************************************)
EXTENDS Naturals

CONSTANTS Bank,      \* banks
          Row,       \* pages of a bank, 0 is none
          Buffer,    \* page buffers in DRAM
          Part,      \* parts of a page
          Datum,     \* what a part may hold
          Blank      \* what a part of an erased page holds

ASSUME CtrlAssumption ==
  /\ Bank # {} /\ Part # {} /\ Blank \in Datum
  /\ Row \subseteq Nat /\ 0 \in Row

VARIABLES wr,        \* Waiting Room
          bsp,       \* what each bank works on
          dram,      \* buffers
          nand       \* flash pages

Content  == [Part -> Datum]
BlankPage == [p \in Part |-> Blank]

NoCmd    == [op |-> "none"]
\* data is history: what the buffer of a program held when it was issued.
ReadCmd  == [op: {"read"}, bank: Bank, row: Row, buf: Buffer,
             parts: SUBSET Part, sata: BOOLEAN]
ProgCmd  == [op: {"prog"}, bank: Bank, row: Row, buf: Buffer, data: Content]
EraseCmd == [op: {"erase"}, bank: Bank, rows: SUBSET Row]
Cmd      == ReadCmd \cup ProgCmd \cup EraseCmd

CtrlTypeOK ==
  /\ wr \in Cmd \cup {NoCmd}
  /\ bsp \in [Bank -> Cmd \cup {NoCmd}]
  /\ dram \in [Buffer -> Content]
  /\ nand \in [Bank -> [Row -> Content]]

CtrlInit ==
  /\ wr = NoCmd
  /\ bsp = [b \in Bank |-> NoCmd]
  /\ dram = [f \in Buffer |-> BlankPage]
  /\ nand = [b \in Bank |-> [r \in Row |-> BlankPage]]

-----------------------------------------------------------------------------
\* What the firmware polls

WrFree      == wr = NoCmd               \* WR_STAT
BankIdle(b) == bsp[b] = NoCmd           \* _BSP_FSM = BANK_IDLE
AllIdle     == WrFree /\ \A b \in Bank : BankIdle(b)    \* MON_CHABANKIDLE

-----------------------------------------------------------------------------
\* nand_page_ptread, nand_page_ptread_to_host (sata), nand_page_program,
\* nand_block_erase, each the registers it sets and flash_issue_cmd up to
\* FCP_ISSUE.  Who must wait for the end adds a step of its own.

Read(b, r, f, parts)  == [op |-> "read", bank |-> b, row |-> r, buf |-> f,
                          parts |-> parts, sata |-> FALSE]
ReadToHost(b, r, f)   == [op |-> "read", bank |-> b, row |-> r, buf |-> f,
                          parts |-> Part, sata |-> TRUE]
Prog(b, r, f)         == [op |-> "prog", bank |-> b, row |-> r, buf |-> f,
                          data |-> dram[f]]
Erase(b, rows)        == [op |-> "erase", bank |-> b, rows |-> rows]

Issue(c) == WrFree /\ wr' = c

-----------------------------------------------------------------------------
\* The controller

Accept ==
  /\ ~WrFree /\ BankIdle(wr.bank)
  /\ bsp' = [bsp EXCEPT ![wr.bank] = wr]
  /\ wr' = NoCmd
  /\ UNCHANGED <<dram, nand>>

\* The effect of command c on DRAM and flash when its bank goes idle.
Transfer(c) ==
  CASE c.op = "read" ->
         /\ dram' = [dram EXCEPT ![c.buf] =
                       [p \in Part |-> IF p \in c.parts
                                       THEN nand[c.bank][c.row][p] ELSE @[p]]]
         /\ UNCHANGED nand
    [] c.op = "prog" ->
         /\ nand' = [nand EXCEPT ![c.bank][c.row] = dram[c.buf]]
         /\ UNCHANGED dram
    [] OTHER ->
         /\ nand' = [nand EXCEPT ![c.bank] =
                       [r \in Row |-> IF r \in c.rows THEN BlankPage ELSE @[r]]]
         /\ UNCHANGED dram

Complete(b) ==
  /\ ~BankIdle(b)
  /\ Transfer(bsp[b])
  /\ bsp' = [bsp EXCEPT ![b] = NoCmd]
  /\ UNCHANGED wr

-----------------------------------------------------------------------------
\* The programs that are not done.
Programs == {c \in {wr} \cup {bsp[b] : b \in Bank} : c.op = "prog"}

=============================================================================
