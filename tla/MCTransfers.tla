----------------------------- MODULE MCTransfers -----------------------------
(***************************************************************************)
(* Constants for checking Transfers with TLC.                              *)
(***************************************************************************)
EXTENDS Transfers, TLC

CONSTANTS c1, c2, c3, k1, k2, s1, s2, s3, src

-----------------------------------------------------------------------------
(* Sessions.  Three calls on one source whose settings alternate between   *)
(* two connections, and three sessions: enough for two calls to dial at    *)
(* once, one for settings that are out of date, while a third uses the     *)
(* session they replace.  Sources do not share sessions.                   *)
MCCalls == {c1, c2, c3}
MCSources == {src}
MCConnections == {k1, k2}
MCSessions == {s1, s2, s3}
MCSymmetry == Permutations(MCCalls) \cup Permutations(MCConnections)

-----------------------------------------------------------------------------
(* On the host.  Three small trees hold what the checks tell apart: an     *)
(* item whose name is taken in the target and a same-named item in another *)
(* directory (the first), an item below a directory of its own name, which *)
(* a move upwards would have to replace (the second), a link, and a file   *)
(* where a directory is asked for (the third).  Two items are enough for   *)
(* one to disturb the other; the guest may take a free destination or the  *)
(* first candidate of keep-both.                                           *)
a == <<"a">>
b == <<"b">>
c == <<"c">>

MCTrees ==
  { (<<>> :> "dir") @@ (<<a>> :> "dir") @@ (<<a, b>> :> "f1") @@ (<<a, c>> :> "f4")
      @@ (<<b>> :> "f2") @@ (<<c>> :> "dir") @@ (<<c, b>> :> "f3"),
    (<<>> :> "dir") @@ (<<a>> :> "dir") @@ (<<a, a>> :> "dir")
      @@ (<<a, a, b>> :> "f1") @@ (<<a, c>> :> "f2"),
    (<<>> :> "dir") @@ (<<a>> :> "dir") @@ (<<a, b>> :> "link")
      @@ (<<b>> :> "f1") @@ (<<c>> :> "dir") }
MCTargets == {<<>>, <<c>>, <<c, c>>, <<a, a>>, <<b>>}
MCGuests == {<<c, c>>, <<c, <<"b", 0>>>>}

-----------------------------------------------------------------------------
(* Files.  One task of two files whose pieces two workers share, one of    *)
(* them of several pieces; and two tasks with the same target, for uploads *)
(* also an empty file.                                                     *)
File(x, segments) == [place |-> x, segments |-> segments]
Task(kind, files, clients) == [kind |-> kind, files |-> files, clients |-> clients]

MCPlaces == {"x", "y"}
MCPlans ==
  { <<Task("upload", <<File("x", 2), File("y", 1)>>, 2)>>,
    <<Task("download", <<File("x", 2), File("y", 0)>>, 2)>>,
    <<Task("upload", <<File("x", 1)>>, 1), Task("upload", <<File("x", 0)>>, 1)>>,
    <<Task("download", <<File("x", 1)>>, 1), Task("download", <<File("x", 1)>>, 1)>> }

-----------------------------------------------------------------------------
(* Exports.  A batch of two images; a batch and a single export, two       *)
(* batches, and two single exports, for the same path.                     *)
Export(kind, batch, p) == [source |-> kind, batch |-> batch, path |-> p]
MCExports ==
  { <<Export("docker", 1, None), Export("registry", 1, None)>>,
    <<Export("registry", 1, None), Export("docker", None, 1)>>,
    <<Export("docker", 1, None), Export("docker", 2, None)>>,
    <<Export("docker", None, 1), Export("registry", None, 1)>> }

-----------------------------------------------------------------------------
(* Tags.  An import of two tags next to whatever else writes tags: copies  *)
(* from another registry, changes of tags that take a target of its, or    *)
(* remove what it has put there before it is tried again; and renames and  *)
(* deletions of tags that share their manifest.                            *)
MCTags == {"a", "b", "c"}
MCManifests == {"m", "n"}
MCRegistries ==
  { ("a" :> "m") @@ ("b" :> "m") @@ ("c" :> None), ("a" :> "m") @@ ("b" :> "n") @@ ("c" :> None),
    ("a" :> "m") @@ ("b" :> None) @@ ("c" :> None) }

Two == <<[tag |-> "b", manifest |-> "n"], [tag |-> "c", manifest |-> "m"]>>
Imported(puts) == [kind |-> "import", puts |-> puts]
Repeated == [kind |-> "retry", of |-> 1, puts |-> Two]
Pulled == [kind |-> "pull", puts |-> <<[tag |-> "c", manifest |-> "n"]>>]
Changed(kind, x, y) == [kind |-> kind, source |-> x, target |-> y]
MCRequests ==
  { <<Imported(Two), Repeated, Pulled>>,
    <<Imported(Two), Repeated, Repeated>>,
    <<Imported(Two), Repeated, Changed("copy", "a", "b")>>,
    <<Imported(Two), Repeated, Changed("rename", "b", "a")>>,
    <<Imported(Tail(Two)), Changed("rename", "a", "b")>>,
    <<Pulled, Changed("rename", "a", "b")>>,
    <<Changed("rename", "a", "c"), Changed("delete", "b", None)>>,
    <<Changed("deleteAll", "a", None), Changed("delete", "b", None), Changed("copy", "a", "c")>> }

-----------------------------------------------------------------------------
ASSUME TransfersAssumption
==============================================================================
