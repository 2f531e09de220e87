----------------------------- MODULE MCSegments -----------------------------
(* Small instances of SpillSegments for TLC: three records, a list of each    *)
(* pool on the disk.                                                          *)
EXTENDS SpillSegments
MCRecs == 1 .. 3
MCLists == {<<"u", 1>>, <<"c", 0>>}
MCBudgets == {<<1, 2, 0>>, <<1, 1, 1>>}
MCTwoSnapshots == {<<2, 1, 0>>}
SegSpec == SegInit /\ [][SegNext]_segVars
=============================================================================
