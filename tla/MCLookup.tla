----------------------------- MODULE MCLookup ------------------------------
(***************************************************************************)
(* A root partition with a directory d, a mountpoint m and two links, one  *)
(* of them in d; on m a second partition with a file and a third link.     *)
(* Every choice of seven targets for the three links.                      *)
(***************************************************************************)
EXTENDS Lookup, TLC

MCNode == {"r", "d", "m", "f", "l1", "l2", "qr", "qf", "l3"}
MCKind(n) ==
    CASE n \in {"r", "d", "m", "qr"} -> "dir"
      [] n \in {"f", "qf"} -> "file"
      [] OTHER -> "link"
MCEntries(n) ==
    CASE n = "r"  -> "d" :> "d" @@ "m" :> "m" @@ "l" :> "l1" @@ ".." :> "r"
      [] n = "d"  -> "x" :> "f" @@ "l" :> "l2" @@ ".." :> "r"
      [] n = "m"  -> "x" :> "f" @@ ".." :> "r"
      [] n = "qr" -> "x" :> "qf" @@ "l" :> "l3" @@ ".." :> "qr"
MCMountedOn(n) == IF n = "m" THEN "qr" ELSE n
MCMountpointOf(n) == IF n = "qr" THEN "m" ELSE n

Abs(s) == [abs |-> TRUE, to |-> s]
Rel(s) == [abs |-> FALSE, to |-> s]
MCTargets ==
    {Abs(<<"d">>), Abs(<<"m", "l">>), Rel(<<"l">>), Rel(<<"x">>),
     Rel(<<"..", "d", "l">>), Rel(<<"m", "..">>), Rel(<<"l", "x">>)}
Names == {"d", "l", "m", "x", ".."}
MCPaths ==
    {<<>>} \cup [1 .. 1 -> Names] \cup [1 .. 2 -> Names]
      \cup {<<"m", "..", "d">>, <<"d", "l", "x">>, <<"m", "l", "x">>, <<"l", "l", "l">>}
=============================================================================
