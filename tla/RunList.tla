------------------------------ MODULE RunList -------------------------------
(***************************************************************************)
(* The pointers under the run list of Scheduler.                            *)
(***************************************************************************)
EXTENDS Scheduler

(* The head of the list is a member of the scheduler, and of no task. *)
ASSUME HeadAssumption == "tasks" \notin Tasks

Run == INSTANCE List WITH Nodes <- Tasks, Root <- "tasks"

(* The pointers of list.cpp are the run list: for every list the scheduler
   gets to, the pushes that make it and the rotation of select_next link it
   both ways round, and the walk of kill_task, which unlinks and frees a node
   and then reads its next (list.hpp:17), visits every task of the list once,
   ends at the head and leaves the list without that node, whichever it is. *)
RunListLinked ==
    LET R == Run!Built(tasks)
        n == Len(tasks)
    IN  /\ Run!Represents(R, tasks)
        /\ Run!Represents(Run!rotate(R), Rotated(tasks))
        /\ \A t \in Range(tasks) :
              LET walk == Run!Walk(R, t, n)
              IN  /\ \A k \in DOMAIN tasks : walk[k - 1].it = tasks[k]
                  /\ walk[n].it = "tasks"
                  /\ Run!Represents(walk[n].ring, Without(tasks, t))
=============================================================================
