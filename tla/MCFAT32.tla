------------------------------- MODULE MCFAT32 -------------------------------
(* The file system for TLC: a FAT of seven entries, of which four are free  *)
(* after formatting, clusters of 28 bytes, directories with room for two.   *)
EXTENDS FAT32

MCPaths == {<<"a">>, <<"b">>, <<"c">>, <<"a", "b">>}
MCFileSizes == {20, 56}   \* one cluster, two full clusters
MCBufferSizes == {6, 28}  \* less than a quarter of a cluster, one cluster
=============================================================================
