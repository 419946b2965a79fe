---------------------------- MODULE MCReputation ----------------------------
(* Three people who maintain a package by turns, and two processes; with the
   pure checks of a package's reputation over small inputs. *)
EXTENDS Reputation

CONSTANTS k1, k2, a, b, c

(* Three years from 1970, 1999, 2099 and 2399 on, and one from 2024. *)
MCDays ==
    UNION {n .. n + 1100 : n \in {0, 10592, 47117, 156689}} \cup 19723 .. 20089

(* Two letters stand for any; the list has a name that is too short, two that
   are alike and one that is a part of another. *)
MCLetters == {"a", "b"}
MCPopular == <<<<"a", "b", "a">>, <<"a", "b", "b", "a">>, <<"a", "a", "b", "b", "a">>,
               <<"b", "a", "b", "a", "b">>>>

MCNames == UNION {[1 .. n -> MCLetters] : n \in 1 .. 7}
=============================================================================
