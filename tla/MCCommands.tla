----------------------------- MODULE MCCommands -----------------------------
(***************************************************************************)
(* A dumped cubin a, a corrected or assembled cubin c, a text t and a      *)
(* listing s, with their backups.  The jobs: correcting from a to c, in    *)
(* place and back; dumping, correcting and hacking; editing as text; the   *)
(* listings and hcubin; saving edits, over the input too.                  *)
(***************************************************************************)
EXTENDS Commands

MCBackup == [a |-> "a~", c |-> "c~", t |-> "t~", s |-> "s~"]
MCFiles == DOMAIN MCBackup \cup {"a~", "c~", "t~", "s~"}
MCFormat == [f \in MCFiles |-> CASE f \in {"a", "c"} -> "cubin" [] f = "t" -> "text"
                                 [] f = "s" -> "listing" [] OTHER -> "other"]
MCRequests == {<<"a", "c">>, <<"c", "c">>, <<"c", "a">>}
MCJobs == {{<<"correct-cc">> \o r : r \in MCRequests},
           {<<"dump", "a", "a">>, <<"correct-cc", "a", "c">>, <<"hack", "c", "c">>},
           {<<"cuasm", "a", "t">>, <<"cuasm", "t", "a">>},
           {<<"dsass", "a", "s">>, <<"dsass", "s", "s">>, <<"hcubin", "a", "c">>, <<"cuasm", "c~", "t">>},
           {<<"saveAsCubin", "a", "c">>, <<"saveAsCubin", "c", "c">>, <<"correct-cc", "c", "a">>}}

Kernel(kind, closed) == [kind |-> kind, closed |-> closed]
MCBuilt == <<Kernel("plain", TRUE), Kernel("plain", TRUE)>>
MCCubins == {MCBuilt,
             <<Kernel("plain", FALSE), Kernel("plain", TRUE)>>,
             <<Kernel("crowded", FALSE), Kernel("plain", FALSE)>>,
             <<Kernel("crowded", TRUE), Kernel("plain", TRUE)>>,
             <<Kernel("plain", FALSE), Kernel("unresolvable", FALSE)>>,
             <<Kernel("uncurated", TRUE)>>,
             <<Kernel("old", FALSE)>>,
             <<>>}

\* Some cubin a.
MCStores == {[f \in MCFiles |-> IF f = "a" THEN a ELSE Absent] : a \in MCCubins}
=============================================================================
