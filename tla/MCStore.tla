------------------------------ MODULE MCStore ------------------------------
(* Small instances of StoreSystem: packages that share a file, one vouched for
   by an SRI string and one by a SHA-1 alone, and a network that may also
   answer with a wrong or an empty tarball. *)
EXTENDS StoreSystem, TLC

CONSTANTS k1, k2, p1, p2, p3, p4, t1, t2, tx, h1, h2, h3

MCContent == t1 :> {h1, h2} @@ t2 :> {h2, h3} @@ tx :> {}

(* The same with one file less, for the runs with the most interleavings. *)
SmallContent == t1 :> {h1} @@ t2 :> {h1, h2} @@ tx :> {}

(* Vouched for by SHA-512, with a SHA-1 that another tarball collides with. *)
BySRI(t) == [integrity |-> {[algo |-> "sha512", digest |-> t]}, shasum |-> {t2}]

BySHA1(t) == [integrity |-> {}, shasum |-> {t}]

(* Two packages with the same file, one that adds a file to it, and one that is
   published empty. *)
MCMeta ==
    [p \in Pkgs |-> CASE p \in {p1, p4} -> BySRI(t1) [] p = p2 -> BySHA1(t2)
                       [] OTHER -> BySHA1(tx)]

(* One process wants everything, the others one package they share with it. *)
MCWants == [k \in Procs |-> IF k = k1 THEN Pkgs ELSE {p1}]

(* Two processes that want different packages, though of the same files. *)
ApartWants == [k \in Procs |-> IF k = k1 THEN {p1, p2} ELSE Pkgs \ {p1, p2}]
=============================================================================
