--------------------------- MODULE MCRegistryTags ---------------------------
(* Two tags of one manifest, renamed at the same time: what the window     *)
(* asks for when both are chosen.                                          *)
EXTENDS RegistryTags, TLC

MCTags == {"a", "b", "c", "d"}
MCManifests == {"m"}
MCRegistries == {("a" :> "m") @@ ("b" :> "m") @@ ("c" :> None) @@ ("d" :> None)}
MCPlans == {<<Change("rename", "a", "c"), Change("rename", "b", "d")>>}
=============================================================================
