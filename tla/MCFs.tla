-------------------------------- MODULE MCFs --------------------------------
EXTENDS Fs
Rel(c) == [abs |-> FALSE, comps |-> c]
Abs(c) == [abs |-> TRUE, comps |-> c]
MCFilePaths == {Rel(<<"a">>), Rel(<<"b">>)}
MCDirPaths == {Rel(<<"d">>)}
MCCdPaths == {Rel(<<"d">>), Rel(<<"..">>), Abs(<<"bin">>)}
MCContents == {<<"x">>, <<"y", "z">>}
MCLfn == [a |-> 1, b |-> 1, d |-> 1]
MCCalls == [fat16 |-> 5, fat32 |-> 5, exfat |-> 5, ext4 |-> 4, ntfs |-> 4, f2fs |-> 4, refs |-> 4]
MCWord == [c \in {"x", "y", "z"} |-> 0]
=============================================================================
