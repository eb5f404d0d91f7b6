---------------------------- MODULE MCFAT32Store ----------------------------
(* The file system beside its abstract store, for TLC, with MCFAT32's bounds *)
EXTENDS MCFAT32, FAT32Store
=============================================================================
