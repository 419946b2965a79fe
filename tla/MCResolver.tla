----------------------------- MODULE MCResolver -----------------------------
(* A registry of five packages: a and b depend on each other, two versions of a
   are wanted, one of them under the name of d, which nobody asks for, c is
   reached along two ways, b's tag "next" names a version that was unpublished,
   a@3 is a pre-release, and e, which is optional, asks for itself. *)
EXTENDS Linker, TLC

Plain(range) == [npm |-> "", range |-> range]
Npm(name, range) == [npm |-> name, range |-> range]
None == [a \in {} |-> Plain("")]

MCNames == {"a", "b", "c", "d", "e"}
MCPublished == ("a" :> {1, 2, 3}) @@ ("b" :> {1}) @@ ("c" :> {1, 2}) @@ ("d" :> {1}) @@ ("e" :> {1})
MCTags == ("a" :> ("latest" :> 2))
          @@ ("b" :> (("latest" :> 1) @@ ("next" :> 2)))
          @@ ("c" :> ("latest" :> 2)) @@ ("d" :> ("latest" :> 1)) @@ ("e" :> ("latest" :> 1))
MCPrerelease == {3}
MCSatisfying == ("^1" :> {1}) @@ (">=1" :> {1, 2, 3}) @@ ("^9" :> {9})

MCManifest == ("a" :> Plain("*")) @@ ("d" :> Npm("a", "^1"))
MCDependencies ==
    (<<"a", 1>> :> ("c" :> Plain("^1")))
    @@ (<<"a", 2>> :> (("b" :> Plain("latest")) @@ ("any" :> Npm("c", ""))))
    @@ (<<"a", 3>> :> None)
    @@ (<<"b", 1>> :> ("a" :> Plain(">=1")))
    @@ (<<"c", 1>> :> None)
    @@ (<<"d", 1>> :> None)
    @@ (<<"c", 2>> :> ("c1" :> Npm("c", "^1")))
    @@ (<<"e", 1>> :> ("e" :> Plain(">=1")))
MCOptional ==
    (<<"a", 1>> :> ("b" :> Plain("next")))
    @@ (<<"a", 2>> :> ("b" :> Plain("latest")))
    @@ (<<"a", 3>> :> None)
    @@ (<<"b", 1>> :> ("c" :> Plain("^9")))
    @@ (<<"c", 1>> :> (("z" :> Npm("a", "git")) @@ ("e" :> Plain("^1"))))
    @@ (<<"c", 2>> :> None)
    @@ (<<"d", 1>> :> None)
    @@ (<<"e", 1>> :> None)

(* Both versions of a bring the command "run", and b brings it as well. *)
MCCommands ==
    [id \in Ids |-> IF id[1] = "a" THEN {"run"} ELSE IF id[1] = "b" THEN {"run", "b"} ELSE {}]

(* npm's copy of a, and a package of an install before. *)
MCLeftovers ==
    (<<Root, "a">> :> Files(<<"a", 1>>))
    @@ (<<<<"b", 1>>, "old">> :> Link(<<"d", 1>>))
=============================================================================
