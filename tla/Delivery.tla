---- MODULE Delivery ----
(***************************************************************************)
(* What the queue promises of one message: it waits, is out with one       *)
(* consumer at a time, and ends done or, after MaxRetries returns, dead.   *)
(* Only while it is out can it get lost.                                   *)
(***************************************************************************)
EXTENDS Naturals

CONSTANT MaxRetries

VARIABLE task    \* where the message is, and how often it has come back

Task(at, tries) == [at |-> at, tries |-> tries]

Unsent == Task("unsent", 0)
Done   == Task("done", 0)
Lost   == Task("lost", 0)

Init == task = Unsent

Send    == task = Unsent /\ task' = Task("waiting", 0)
Deliver == task.at = "waiting" /\ task' = Task("out", task.tries)
Finish  == task.at = "out" /\ task' = Done
Lose    == task.at = "out" /\ task' = Lost

\* It waits again, unless it has come back too often.
Return ==
    LET tries == task.tries + 1 IN
    /\ task.at = "out"
    /\ task' = Task(IF tries < MaxRetries THEN "waiting" ELSE "dead", tries)

Next == Send \/ Deliver \/ Finish \/ Lose \/ Return

Spec == Init /\ [][Next]_task
====
