---------------------------- MODULE MCFilesystem ----------------------------
(* A directory "d" that is there only when something is put into it, a     *)
(* file "a", and a file "b" that is too large to be read.                  *)
EXTENDS Filesystem, TLC

MCPaths == {".", "a", "b", "d", "d/x"}

MCAbove == [p \in MCPaths |-> IF p = "." THEN {} ELSE IF p = "d/x" THEN {".", "d"} ELSE {"."}]

MCSeed == <<[path |-> "a", size |-> 1], [path |-> "b", size |-> 3]>>

Ask(tool, path) == [NoRequest EXCEPT !.tool = tool, !.path = path]
AskWrite(path, n) == [Ask("write", path) EXCEPT !.size = n]
AskMove(path, to) == [Ask("move", path) EXCEPT !.to = to]

MCRequests ==
  {Ask("read", "a"), Ask("read", "b"), [Ask("read", "a") EXCEPT !.fits = FALSE],
   Ask("read", Outside), Ask("read", "d/x"),
   AskWrite("a", 1), AskWrite("a", 2), AskWrite("d", 1), AskWrite("d/x", 1), AskWrite("b", 3),
   [AskWrite("b", 1) EXCEPT !.fits = FALSE],
   Ask("list", "."), [Ask("list", ".") EXCEPT !.recursive = TRUE],
   Ask("delete", "a"),
   AskMove("a", "d/x"), AskMove("d/x", "a"), AskMove(Outside, "a")}

Symmetry == Permutations(Calls)
=============================================================================
