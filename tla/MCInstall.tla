----------------------------- MODULE MCInstall -----------------------------
(* Packages x and y, of which x@1 depends on y@1, and x@2 that comes out later.
   The user imports y under the name of x, or has an optional dependency and a
   development one; vault add brings ranges, "*" and a dist-tag. *)
EXTENDS Install, TLC

Npm(name, range) == [npm |-> name, range |-> range]

MCSatisfying == ("^1" :> {1}) @@ ("^2" :> {2}) @@ ("*" :> {1, 2})
MCDeps == [id \in Names \X Versions |-> IF id = <<"x", 1>> THEN {<<"y", 1>>} ELSE {}]
MCCaret == (1 :> "^1") @@ (2 :> "^2")

Json(deps, optional, dev) ==
    [state |-> "whole", deps |-> deps, optional |-> optional, dev |-> dev]

MCHandwritten ==
    {Json("x" :> Npm("y", "^1"), Empty, Empty),
     Json(Empty, "y" :> Plain("^1"), "x" :> Plain("^1"))}
MCSpecs == {Npm("y", "^1")} \cup {Plain(r) : r \in {"^1", "^2", "*", "latest"}}

MCAdditions == {<<"y", Plain("latest")>>}

MCFlags ==
    {Defaults, [Defaults EXCEPT !.production = TRUE], [Defaults EXCEPT !.frozen = TRUE],
     [Defaults EXCEPT !.strict = TRUE], [Defaults EXCEPT !.strict = TRUE, !.force = TRUE]}
MCPublished == {<<"x", 1>>, <<"y", 1>>}
MCUpcoming == {<<"x", 2>>}
MCSuspects == {<<"y", 1>>}
=============================================================================
