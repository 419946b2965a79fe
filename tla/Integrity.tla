----------------------------- MODULE Integrity -----------------------------
(***************************************************************************)
(* Tarball verification (crates/core/src/audit/integrity.rs).              *)
(*                                                                         *)
(* A downloaded tarball is identified with its digests: two tarballs have  *)
(* equal SHA-512 (or SHA-1) digests exactly when they are the same         *)
(* tarball.  The registry's metadata for a package is a record             *)
(*   [integrity |-> {} or {sri}, shasum |-> {} or {tarball}]               *)
(* whose fields are sets of at most one element, the two `Option`s of the  *)
(* code; an SRI token is [algo, digest] and its digest is a tarball or     *)
(* Malformed (no dash, or a digest that is not base64).                    *)
(***************************************************************************)
CONSTANTS
    Tarballs,   \* the byte streams the network may answer with
    Malformed   \* an SRI digest that does not decode

ASSUME IntegrityAssumption == Malformed \notin Tarballs

Algorithms == {"sha512", "sha1"}

SRI == [algo : Algorithms, digest : Tarballs \cup {Malformed}]

Metadata ==
    [integrity : {{}} \cup {{s} : s \in SRI},
     shasum    : {{}} \cup {{t} : t \in Tarballs}]

(* verify_sri: the first token must name sha512, decode, and match. *)
VerifySri(sri, tarball) ==
    /\ sri.digest # Malformed
    /\ sri.algo = "sha512"
    /\ sri.digest = tarball

(* Mutant: any metadata that matches is good enough. *)
VerifyEither(meta, tarball) ==
    \/ \E sri \in meta.integrity : VerifySri(sri, tarball)
    \/ tarball \in meta.shasum

(* verify_precomputed: an SRI string, when there is one, decides alone; the
   SHA-1 is the fallback; a package with neither is refused. *)
VerifyPrecomputed(meta, tarball) ==
    \/ /\ meta.integrity # {}
       /\ \A sri \in meta.integrity : VerifySri(sri, tarball)
    \/ /\ meta.integrity = {}
       /\ tarball \in meta.shasum
=============================================================================
