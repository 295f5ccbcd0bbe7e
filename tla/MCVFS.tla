------------------------------- MODULE MCVFS -------------------------------
(* VFS with an archive in which one name lies below the second mount point. *)
EXTENDS VFS

MCArchives ==
  [root |-> [n \in {<<"a">>, <<"m", "/", "a">>} |-> IF n = <<"a">> THEN 2 ELSE 1]]
MCMountPaths == {<<"/">>, <<"/", "m", "/">>}
MCOpenPaths == {<<"/", "a">>, <<"/", "m", "/", "a">>}

MCSeeks ==
  {<<1, "SEEK_SET">>, <<-1, "SEEK_CUR">>, <<1, "SEEK_CUR">>, <<-1, "SEEK_END">>,
   <<0, "other">>}

\* Bound: once the last instance has been made, only reads of three bytes begin.
BeginsRead(h) == pc[h] = "out" /\ pc'[h] # "out" => pc'[h] = "read" /\ arg'[h].count = 3

MCNext == Next /\ (Len(_insts) = MaxInst => \A h \in Harts : BeginsRead(h))

MCSpec == Init /\ [][MCNext]_vars
=============================================================================
