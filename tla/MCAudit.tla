------------------------------ MODULE MCAudit ------------------------------
(* Two processes whose resolutions share their one package; with the pure parts
   of the audit over small inputs. *)
EXTENDS AuditSystem

CONSTANTS k1, k2, p1, t1, t2

MCWants == [k \in Procs |-> Pkgs]

MCVersions == 0 .. 5

(* Every range over these versions ... *)
MCRanges ==
    {[i \in DOMAIN ends |-> IF i % 2 = 1 THEN Introduced(ends[i]) ELSE Fixed(ends[i])] :
        ends \in {SetToSortSeq(S, <) : S \in SUBSET MCVersions \ {{}}}}

(* ... every advisory of one or two of them ... *)
MCAdvisories == {{one, other} : one, other \in MCRanges}

(* ... and two of a few lines at a time. *)
MCBlocking ==
    {{{one}, {other}} : one, other \in {range \in MCRanges : Len(range) <= 3}}

(* Five packages in chunks of one to four, with replies that are missing, short,
   or longer than was asked for. *)
MCIds == 0 .. 5
MCTruth == [i \in 1 .. 5 |-> {i}]
MCReplies(size) ==
    LET whole(c) == [i \in 1 .. size |-> IF (c - 1) * size + i <= 5
                                         THEN MCTruth[(c - 1) * size + i] ELSE {0}]
    IN  {[c \in 1 .. (4 + size) \div size |-> SubSeq(whole(c), 1, cut[c])] :
            cut \in [1 .. (4 + size) \div size -> 0 .. size]}
MCBatches ==
    UNION {{[truth |-> MCTruth, size |-> size, replies |-> replies] :
              replies \in MCReplies(size)} : size \in 1 .. 4}

(* Metadata with and without SRI and SHA-1, and scripts of a few kinds. *)
MCBodies == [needles : {{}, {"eval("}, {"process.env"}}, escapes : {0, 8}]
MCMetas ==
    [dist : [integrity : {{}, {EmptySRI}} \cup {{s} : s \in SRI},
             shasum : {{}, {t1}}],
     scripts : UNION {[S -> MCBodies] : S \in SUBSET {"preinstall", "postinstall", "test"}}]
=============================================================================
