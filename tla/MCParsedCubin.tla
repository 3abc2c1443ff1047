---------------------------- MODULE MCParsedCubin ----------------------------
(* The files of MCCuAsmParser; the cubins of some are disassembled and        *)
(* assembled again, and those of some small ones edited in between.           *)
EXTENDS MCCuAsmParser, ParsedCubin

Bundled(grouped, old, mode, at, n, tail) == File(grouped, old, mode, at, n, tail, Syms, <<>>, Segs(tail))
MCReread ==
  {Bundled(grouped, FALSE, mode, at, 1, tail) :
     grouped \in BOOLEAN, mode \in {"sync", "bundle", "offset", "refs"}, at \in {0, 2}, tail \in {"none", "shared", "data"}}
  \cup {Bundled(FALSE, FALSE, mode, 0, 1, tail) : mode \in {"most", "half"}, tail \in {"none", "kernel"}}
  \cup {Bundled(grouped, TRUE, "offset", 1, 2, tail) : grouped \in BOOLEAN, tail \in {"none", "shared", "data"}}
MCEdited ==
  {Bundled(TRUE, FALSE, mode, 1, 1, "kernel") : mode \in {"sync", "bundle"}}
  \cup {Bundled(FALSE, FALSE, mode, 1, 1, "none") : mode \in {"offset", "refs"}}
MCDefaults == {4, 6, 8}
MCHome == [g |-> <<".nv.global">>]
One == {Bundled(FALSE, FALSE, "bar", 1, 1, "none")}
==============================================================================
