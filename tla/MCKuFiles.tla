----------------------------- MODULE MCKuFiles ------------------------------
(* KuFiles on small disks.  Beside a directory d with a file and a           *)
(* subdirectory there is a file with the temporary directory's name; or      *)
(* another d inside it, which a copy of d into d/e meets; or another d       *)
(* elsewhere, which a move meets.                                            *)
EXTENDS KuFiles

D == <<"d">> :> Dir
F == <<"d", "f">> :> "1"
Plain  == D @@ F @@ (<<"d", "e">> :> Dir) @@ (<<"tmp">> :> "2")
Inside == D @@ (<<"d", "e">> :> Dir) @@ (<<"d", "e", "d">> :> Dir)
            @@ (<<"d", "e", "d", "f">> :> "2")
Met    == D @@ F @@ (<<"e">> :> Dir) @@ (<<"e", "d">> :> Dir)
            @@ (<<"e", "d", "f">> :> "2")
SmallDisks == {Plain, Inside, Met}
=============================================================================
