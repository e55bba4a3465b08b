---- MODULE SharedExclusive ----
(***************************************************************************)
(* What the lock manager promises of every resource: it is free, read by   *)
(* any number of clients, or written by one.  Clients enter a resource     *)
(* that is free or being read; the last to leave may hand it over.         *)
(***************************************************************************)
CONSTANTS Client, Resource

VARIABLE held   \* held[r]: who uses r and how

Free     == [type |-> "free", holders |-> {}]
Read(cs) == [type |-> "shared", holders |-> cs]
Write(c) == [type |-> "exclusive", holders |-> {c}]

\* The uses clients cs can start together on a resource nobody uses.
Starts(cs) == IF cs = {} THEN {Free} ELSE {Read(cs)} \cup {Write(c) : c \in {d \in cs : cs = {d}}}

Init == held = [r \in Resource |-> Free]

\* On a resource that is free, clients start; readers are joined by readers.
Enter(r) ==
    \/ /\ held[r] = Free
       /\ \E cs \in SUBSET Client : \E use \in Starts(cs) : held' = [held EXCEPT ![r] = use]
    \/ /\ held[r].type = "shared"
       /\ \E cs \in SUBSET Client : held' = [held EXCEPT ![r] = Read(held[r].holders \cup cs)]

\* A client leaves; after the last one others may start at once.
Leave(r) ==
    \E c \in held[r].holders :
        LET left == held[r].holders \ {c} IN
        IF left # {}
        THEN held' = [held EXCEPT ![r] = Read(left)]
        ELSE \E cs \in SUBSET Client : \E use \in Starts(cs) : held' = [held EXCEPT ![r] = use]

Next == \E r \in Resource : Enter(r) \/ Leave(r)

Spec == Init /\ [][Next]_held
====
