----------------------------- MODULE MCProcMem -----------------------------
(* Constant values for the TLC runs of ProcMem. *)
EXTENDS ProcMem

\* Firmware data in the first page of the pool, boot services data across the
\* rest, conventional memory above the pool.
Map == {[type |-> 6, start |-> -1, pages |-> 2],
        [type |-> 4, start |-> 1, pages |-> 20],
        [type |-> 7, start |-> 100, pages |-> 5]}

Text == [va |-> 0, pages |-> 2]
Data == [va |-> 2, pages |-> 1]
Bss == [va |-> 3, pages |-> 1]

\* Text and data on pages of their own (user.ld), an empty header, and files
\* that elf_validate refuses: below the user area, beyond it, without headers.
Aligned == {{Text, Data}, {Data, [va |-> 9, pages |-> 0]},
            {Text, [va |-> -1, pages |-> 1]}, {Data, [va |-> 3, pages |-> 2]}, {}}

\* A data segment that begins on the last page of the text.
Overlapping == {{Text, [va |-> 1, pages |-> 1], Bss}}
=============================================================================
