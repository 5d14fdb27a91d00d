------------------------------ MODULE MCAtaCmd ------------------------------
(* Sets of command codes, addresses and geometries for the runs of AtaCmd. *)
EXTENDS AtaCmd

\* Every code of the code table, and three that are not in it.
AllOpcodes ==
  {ata_command_code_table[i] : i \in 1 .. Len(ata_command_code_table)} \cup {\h01, \h60, \h61}

\* The ends of every range a field can hold: the drive, 28, 30, 32, 48 bits.
Ends == {0, 1, MAX_LBA - Half + 1, MAX_LBA - Byte + 1, MAX_LBA - 1, MAX_LBA, MAX_LBA + 1,
         Lba28 - 1, EqLba, Word - 1, Word, Word + 1, Lba48 - 1}
FewCounts == {0, 1, 2, Byte - 1, Byte, Half - 1}

Geometry == <<4, 2, 3>>
Chs == {<<0, 0, 0>>, <<0, 0, 1>>, <<0, 1, 0>>, <<0, 1, 1>>, <<1, 0, 1>>, <<3, 1, 2>>, <<3, 1, 3>>}

=============================================================================
