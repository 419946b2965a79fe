--------------------------- MODULE PackageLibrary ---------------------------
(***************************************************************************)
(* What the store promises its clients: a growing library of packages.  A   *)
(* client asks for the packages it wants, the library acquires packages one *)
(* at a time and never loses one, and it serves a client only when it holds *)
(* everything the client asked for.  It may refuse a client at any time.    *)
(***************************************************************************)
CONSTANTS Clients, Packages, Wanted

VARIABLES
    library,    \* the packages that can be materialized
    request     \* what became of each client's last request

libraryVars == <<library, request>>

LibraryInit ==
    /\ library = {}
    /\ request = [c \in Clients |-> "none"]

Ask(c) ==
    /\ request[c] # "asked"
    /\ request' = [request EXCEPT ![c] = "asked"]
    /\ UNCHANGED library

Acquire(p) ==
    /\ \E c \in Clients : request[c] = "asked" /\ p \in Wanted[c]
    /\ p \notin library
    /\ library' = library \cup {p}
    /\ UNCHANGED request

Serve(c) ==
    /\ request[c] = "asked"
    /\ Wanted[c] \subseteq library
    /\ request' = [request EXCEPT ![c] = "served"]
    /\ UNCHANGED library

Refuse(c) ==
    /\ request[c] = "asked"
    /\ request' = [request EXCEPT ![c] = "refused"]
    /\ UNCHANGED library

LibraryNext ==
    \/ \E c \in Clients : Ask(c) \/ Serve(c) \/ Refuse(c)
    \/ \E p \in Packages : Acquire(p)

LibrarySpec == LibraryInit /\ [][LibraryNext]_libraryVars

(* A client that was served has what it asked for, from then on. *)
Honoured == \A c \in Clients : request[c] = "served" => Wanted[c] \subseteq library
=============================================================================
