--------------------------- MODULE PythonNodesProofs ---------------------------
(***************************************************************************)
(* The safety properties of PythonNodes, for any set of nodes and any      *)
(* number of failing calls and crashes.                                    *)
(*                                                                         *)
(* An await tells what a node has done so far: ContainerInv says which     *)
(* state its container is in, CurrentInv who may hold run_current_node and *)
(* LogsInv whose logs run_cancelled_logs may hold.  Each part is inductive *)
(* with TypeOK, action by action.                                          *)
(***************************************************************************)
EXTENDS PythonNodes, TLAPS

\* Before create there is no container; one that is waited for has exited; and
\* once execute_python_node is over it is gone, or excused.  A container that is
\* being created in the background belongs to a node that has given it up.
ContainerInv ==
    \A n \in Nodes :
        /\ pc[n] \in {"prepare", "mark", "image", "create", "failed"} => cont[n] = "none"
        /\ pc[n] \in {"wait", "logs"} => cont[n] = "exited"
        /\ pc[n] \in {"clear", "publish", "onCancel", "cancelClear", "done"}
              => cont[n] \in {"none", "removed"} \/ n \in excused
        /\ cont[n] = "creating"
              => n \in excused /\ pc[n] \in {"onCancel", "cancelClear", "done"}

Clean == faults = 0 /\ crashes = 0

\* The awaits between the setting of the current node's key and its deletion.
Holding == {"image", "create", "copy", "start", "watch", "wait", "logs", "finalLogs",
            "remove", "clear", "failed", "onCancel", "cancelClear"}

\* A node that is named by run_current_node has not passed its own deletion.
CurrentInv ==
    /\ activity = "crashed" => crashes > 0
    /\ Clean => /\ (activity = "running" /\ curNode # NoNode) => pc[curNode] \in Holding
                /\ activity = "finished" => shown = NoNode

\* Node n has stored the logs of its cancelled execution.
Stored(n) == pc[n] = "cancelClear" \/ (pc[n] = "done" /\ result[n] = "cancelled")
Cut == {n \in Nodes : result[n] = "cancelled"}

\* run_cancelled_logs holds the logs of one of the nodes that stored theirs.
LogsInv ==
    /\ \A n \in Nodes : result[n] = "cancelled" => pc[n] = "done"
    /\ (Clean /\ activity \in {"running", "cancelling"}) =>
           /\ logsOf # NoNode => Stored(logsOf)
           /\ \A n \in Nodes : Stored(n) => logsOf # NoNode
    /\ (Clean /\ activity = "cancelled") =>
           marked \subseteq Cut /\ (Cut # {} => marked # {})

-----------------------------------------------------------------------------
\* Types.
LEMMA TypePreserved ==
    ASSUME TypeOK, [Next]_vars
    PROVE  TypeOK'
<1>1. ASSUME NEW n \in Nodes, Prepare(n) PROVE TypeOK'
  BY <1>1 DEF Prepare, At, Goto, Works, Breaks, keyVars, endVars, lossVars, TypeOK,
     Awaits
<1>2. ASSUME NEW n \in Nodes, Mark(n) PROVE TypeOK'
  BY <1>2 DEF Mark, At, Goto, Works, Breaks, endVars, lossVars, TypeOK, Awaits
<1>3. ASSUME NEW n \in Nodes, Image(n) PROVE TypeOK'
  BY <1>3 DEF Image, At, Goto, Works, Breaks, keyVars, endVars, lossVars, TypeOK,
     Awaits
<1>4. ASSUME NEW n \in Nodes, Create(n) PROVE TypeOK'
  BY <1>4 DEF Create, At, Goto, Works, Breaks, Outcome, Becomes, keyVars, endVars,
     lossVars, TypeOK, Awaits
<1>5. ASSUME NEW n \in Nodes, Copy(n) PROVE TypeOK'
  BY <1>5 DEF Copy, At, Goto, Works, Breaks, Outcome, keyVars, endVars, lossVars,
     TypeOK, Awaits
<1>6. ASSUME NEW n \in Nodes, StartContainer(n) PROVE TypeOK'
  BY <1>6 DEF StartContainer, At, Goto, Works, Breaks, Outcome, Becomes, keyVars,
     endVars, lossVars, TypeOK, Awaits
<1>7. ASSUME NEW n \in Nodes, SeesExit(n) PROVE TypeOK'
  BY <1>7 DEF SeesExit, At, Goto, keyVars, endVars, lossVars, TypeOK, Awaits
<1>8. ASSUME NEW n \in Nodes, Deadline(n) PROVE TypeOK'
  BY <1>8 DEF Deadline, At, Goto, Works, Breaks, Outcome, Becomes, keyVars, endVars,
     lossVars, TypeOK, Awaits
<1>9. ASSUME NEW n \in Nodes, Wait(n) PROVE TypeOK'
  BY <1>9 DEF Wait, At, Goto, Works, Breaks, keyVars, endVars, TypeOK, Awaits
<1>10. ASSUME NEW n \in Nodes, Collect(n) PROVE TypeOK'
  BY <1>10 DEF Collect, At, Goto, Works, Breaks, Outcome, keyVars, endVars,
     lossVars, TypeOK, Awaits
<1>11. ASSUME NEW n \in Nodes, FinalLogs(n) PROVE TypeOK'
  BY <1>11 DEF FinalLogs, At, Goto, keyVars, endVars, lossVars, TypeOK, Awaits
<1>12. ASSUME NEW n \in Nodes, Remove(n) PROVE TypeOK'
  BY <1>12 DEF Remove, At, Goto, Works, Breaks, Removed, Becomes, keyVars, endVars, TypeOK,
     Awaits
<1>13. ASSUME NEW n \in Nodes, Clear(n) PROVE TypeOK'
  BY <1>13 DEF Clear, At, Goto, ClearCurrent, endVars, lossVars, Works, Breaks,
     TypeOK, Awaits
<1>14. ASSUME NEW n \in Nodes, Publish(n) PROVE TypeOK'
  BY <1>14 DEF Publish, At, Ends, keyVars, endVars, lossVars, Goto, TypeOK, Awaits
<1>15. ASSUME NEW n \in Nodes, Failed(n) PROVE TypeOK'
  BY <1>15 DEF Failed, At, Ends, ClearCurrent, endVars, lossVars, Goto, Works,
     Breaks, TypeOK, Awaits
<1>16. ASSUME NEW n \in Nodes, StoreLogs(n) PROVE TypeOK'
  BY <1>16 DEF StoreLogs, At, Goto, Works, Breaks, endVars, lossVars, TypeOK, Awaits
<1>17. ASSUME NEW n \in Nodes, CancelClear(n) PROVE TypeOK'
  BY <1>17 DEF CancelClear, At, Ends, ClearCurrent, endVars, lossVars, Goto, Works,
     Breaks, TypeOK, Awaits
<1>18. ASSUME NEW n \in Nodes, CancelledEarly(n) PROVE TypeOK'
  BY <1>18 DEF CancelledEarly, Ends, Lands, endVars, lossVars, Goto, TypeOK, Awaits
<1>19. ASSUME NEW n \in Nodes, CancelledUnborn(n) PROVE TypeOK'
  BY <1>19 DEF CancelledUnborn, Goto, Becomes, Lands, keyVars, endVars, TypeOK,
     Awaits
<1>20. ASSUME NEW n \in Nodes, CancelledInside(n) PROVE TypeOK'
  BY <1>20 DEF CancelledInside, Goto, Outcome, Becomes, Lands, keyVars, endVars,
     lossVars, TypeOK, Awaits
<1>21. ASSUME NEW n \in Nodes, CancelledCleaning(n) PROVE TypeOK'
  BY <1>21 DEF CancelledCleaning, Goto, Removed, Becomes, Lands, keyVars, endVars, TypeOK,
     Awaits
<1>22. ASSUME NEW n \in Nodes, CancelledAfter(n) PROVE TypeOK'
  BY <1>22 DEF CancelledAfter, Goto, Ends, Lands, endVars, lossVars, TypeOK, Awaits
<1>23. ASSUME NEW n \in Nodes, NEW c \in {0, 1}, ContainerExits(n, c) PROVE TypeOK'
  BY <1>23 DEF ContainerExits, Becomes, keyVars, endVars, lossVars, TypeOK, Awaits
<1>24. ASSUME NEW n \in Nodes, PassDeadline(n) PROVE TypeOK'
  BY <1>24 DEF PassDeadline, keyVars, endVars, lossVars, TypeOK, Awaits
<1>25. ASSUME NEW n \in Nodes, ThreadCreates(n) PROVE TypeOK'
  BY <1>25 DEF ThreadCreates, Becomes, keyVars, endVars, lossVars, TypeOK, Awaits
<1>26. CASE Finish
  BY <1>26 DEF Finish, AllDone, nodeVars, keyVars, lossVars, TypeOK, Awaits
<1>27. CASE PersistCancelled
  BY <1>27 DEF PersistCancelled, Works, Breaks, AllDone, nodeVars, lossVars, TypeOK,
     Awaits
<1>28. CASE Cancel
  BY <1>28 DEF Cancel, nodeVars, keyVars, lossVars, TypeOK, Awaits
<1>29. CASE Crash
  BY <1>29 DEF Crash, nodeVars, keyVars, lossVars, TypeOK, Awaits
<1>30. CASE Retry
  BY <1>30 DEF Retry, Fresh, keyVars, TypeOK, Awaits
<1>31. CASE UNCHANGED vars
  BY <1>31 DEF vars, nodeVars, keyVars, endVars, lossVars, TypeOK, Awaits
<1> QED
  BY <1>1, <1>2, <1>3, <1>4, <1>5, <1>6, <1>7, <1>8, <1>9, <1>10, <1>11, <1>12,
     <1>13, <1>14, <1>15, <1>16, <1>17, <1>18, <1>19, <1>20, <1>21, <1>22, <1>23,
     <1>24, <1>25, <1>26, <1>27, <1>28, <1>29, <1>30, <1>31 DEF Next, NodeStep,
     Environment, Ending, Stopped

\* The container, by the await its node is at.
LEMMA ContainerPreserved ==
    ASSUME TypeOK, ContainerInv, [Next]_vars
    PROVE  ContainerInv'
<1>1. ASSUME NEW n \in Nodes, Prepare(n) PROVE ContainerInv'
  BY <1>1 DEF Prepare, At, Goto, Works, Breaks, keyVars, endVars, lossVars, TypeOK,
     Awaits, ContainerInv
<1>2. ASSUME NEW n \in Nodes, Mark(n) PROVE ContainerInv'
  BY <1>2 DEF Mark, At, Goto, Works, Breaks, endVars, lossVars, TypeOK, Awaits,
     ContainerInv
<1>3. ASSUME NEW n \in Nodes, Image(n) PROVE ContainerInv'
  BY <1>3 DEF Image, At, Goto, Works, Breaks, keyVars, endVars, lossVars, TypeOK,
     Awaits, ContainerInv
<1>4. ASSUME NEW n \in Nodes, Create(n) PROVE ContainerInv'
  BY <1>4 DEF Create, At, Goto, Works, Breaks, Outcome, Becomes, keyVars, endVars,
     lossVars, TypeOK, Awaits, ContainerInv
<1>5. ASSUME NEW n \in Nodes, Copy(n) PROVE ContainerInv'
  BY <1>5 DEF Copy, At, Goto, Works, Breaks, Outcome, keyVars, endVars, lossVars,
     TypeOK, Awaits, ContainerInv
<1>6. ASSUME NEW n \in Nodes, StartContainer(n) PROVE ContainerInv'
  BY <1>6 DEF StartContainer, At, Goto, Works, Breaks, Outcome, Becomes, keyVars,
     endVars, lossVars, TypeOK, Awaits, ContainerInv
<1>7. ASSUME NEW n \in Nodes, SeesExit(n) PROVE ContainerInv'
  BY <1>7 DEF SeesExit, At, Goto, keyVars, endVars, lossVars, TypeOK, Awaits,
     ContainerInv
<1>8. ASSUME NEW n \in Nodes, Deadline(n) PROVE ContainerInv'
  BY <1>8 DEF Deadline, At, Goto, Works, Breaks, Outcome, Becomes, keyVars, endVars,
     lossVars, TypeOK, Awaits, ContainerInv
<1>9. ASSUME NEW n \in Nodes, Wait(n) PROVE ContainerInv'
  BY <1>9 DEF Wait, At, Goto, Works, Breaks, keyVars, endVars, TypeOK, Awaits,
     ContainerInv
<1>10. ASSUME NEW n \in Nodes, Collect(n) PROVE ContainerInv'
  BY <1>10 DEF Collect, At, Goto, Works, Breaks, Outcome, keyVars, endVars,
     lossVars, TypeOK, Awaits, ContainerInv
<1>11. ASSUME NEW n \in Nodes, FinalLogs(n) PROVE ContainerInv'
  BY <1>11 DEF FinalLogs, At, Goto, keyVars, endVars, lossVars, TypeOK, Awaits,
     ContainerInv
<1>12. ASSUME NEW n \in Nodes, Remove(n) PROVE ContainerInv'
  BY <1>12 DEF Remove, At, Goto, Works, Breaks, Removed, Becomes, keyVars, endVars, TypeOK,
     Awaits, ContainerInv
<1>13. ASSUME NEW n \in Nodes, Clear(n) PROVE ContainerInv'
  BY <1>13 DEF Clear, At, Goto, ClearCurrent, endVars, lossVars, Works, Breaks,
     TypeOK, Awaits, ContainerInv
<1>14. ASSUME NEW n \in Nodes, Publish(n) PROVE ContainerInv'
  BY <1>14 DEF Publish, At, Ends, keyVars, endVars, lossVars, Goto, TypeOK, Awaits,
     ContainerInv
<1>15. ASSUME NEW n \in Nodes, Failed(n) PROVE ContainerInv'
  BY <1>15 DEF Failed, At, Ends, ClearCurrent, endVars, lossVars, Goto, Works,
     Breaks, TypeOK, Awaits, ContainerInv
<1>16. ASSUME NEW n \in Nodes, StoreLogs(n) PROVE ContainerInv'
  BY <1>16 DEF StoreLogs, At, Goto, Works, Breaks, endVars, lossVars, TypeOK,
     Awaits, ContainerInv
<1>17. ASSUME NEW n \in Nodes, CancelClear(n) PROVE ContainerInv'
  BY <1>17 DEF CancelClear, At, Ends, ClearCurrent, endVars, lossVars, Goto, Works,
     Breaks, TypeOK, Awaits, ContainerInv
<1>18. ASSUME NEW n \in Nodes, CancelledEarly(n) PROVE ContainerInv'
  BY <1>18 DEF CancelledEarly, Ends, Lands, endVars, lossVars, Goto, TypeOK, Awaits,
     ContainerInv
<1>19. ASSUME NEW n \in Nodes, CancelledUnborn(n) PROVE ContainerInv'
  BY <1>19 DEF CancelledUnborn, Goto, Becomes, Lands, keyVars, endVars, TypeOK,
     Awaits, ContainerInv
<1>20. ASSUME NEW n \in Nodes, CancelledInside(n) PROVE ContainerInv'
  BY <1>20 DEF CancelledInside, Goto, Outcome, Becomes, Lands, keyVars, endVars,
     lossVars, TypeOK, Awaits, ContainerInv
<1>21. ASSUME NEW n \in Nodes, CancelledCleaning(n) PROVE ContainerInv'
  BY <1>21 DEF CancelledCleaning, Goto, Removed, Becomes, Lands, keyVars, endVars, TypeOK,
     Awaits, ContainerInv
<1>22. ASSUME NEW n \in Nodes, CancelledAfter(n) PROVE ContainerInv'
  BY <1>22 DEF CancelledAfter, Goto, Ends, Lands, endVars, lossVars, TypeOK, Awaits,
     ContainerInv
<1>23. ASSUME NEW n \in Nodes, NEW c \in {0, 1}, ContainerExits(n, c) PROVE ContainerInv'
  BY <1>23 DEF ContainerExits, Becomes, keyVars, endVars, lossVars, TypeOK, Awaits,
     ContainerInv
<1>24. ASSUME NEW n \in Nodes, PassDeadline(n) PROVE ContainerInv'
  BY <1>24 DEF PassDeadline, keyVars, endVars, lossVars, TypeOK, Awaits,
     ContainerInv
<1>25. ASSUME NEW n \in Nodes, ThreadCreates(n) PROVE ContainerInv'
  BY <1>25 DEF ThreadCreates, Becomes, keyVars, endVars, lossVars, TypeOK, Awaits,
     ContainerInv
<1>26. CASE Finish
  BY <1>26 DEF Finish, AllDone, nodeVars, keyVars, lossVars, TypeOK, Awaits,
     ContainerInv
<1>27. CASE PersistCancelled
  BY <1>27 DEF PersistCancelled, Works, Breaks, AllDone, nodeVars, lossVars, TypeOK,
     Awaits, ContainerInv
<1>28. CASE Cancel
  BY <1>28 DEF Cancel, nodeVars, keyVars, lossVars, TypeOK, Awaits, ContainerInv
<1>29. CASE Crash
  BY <1>29 DEF Crash, nodeVars, keyVars, lossVars, TypeOK, Awaits, ContainerInv
<1>30. CASE Retry
  BY <1>30 DEF Retry, Fresh, keyVars, TypeOK, Awaits, ContainerInv
<1>31. CASE UNCHANGED vars
  BY <1>31 DEF vars, nodeVars, keyVars, endVars, lossVars, TypeOK, Awaits,
     ContainerInv
<1> QED
  BY <1>1, <1>2, <1>3, <1>4, <1>5, <1>6, <1>7, <1>8, <1>9, <1>10, <1>11, <1>12,
     <1>13, <1>14, <1>15, <1>16, <1>17, <1>18, <1>19, <1>20, <1>21, <1>22, <1>23,
     <1>24, <1>25, <1>26, <1>27, <1>28, <1>29, <1>30, <1>31 DEF Next, NodeStep,
     Environment, Ending, Stopped

\* The current node's key.
LEMMA CurrentPreserved ==
    ASSUME TypeOK, CurrentInv, [Next]_vars
    PROVE  CurrentInv'
<1>1. ASSUME NEW n \in Nodes, Prepare(n) PROVE CurrentInv'
  BY <1>1, NodesAssumption DEF Prepare, At, Goto, Works, Breaks, keyVars, endVars,
     lossVars, TypeOK, Awaits, CurrentInv, Clean, Holding
<1>2. ASSUME NEW n \in Nodes, Mark(n) PROVE CurrentInv'
  BY <1>2, NodesAssumption DEF Mark, At, Goto, Works, Breaks, endVars, lossVars,
     TypeOK, Awaits, CurrentInv, Clean, Holding
<1>3. ASSUME NEW n \in Nodes, Image(n) PROVE CurrentInv'
  BY <1>3, NodesAssumption DEF Image, At, Goto, Works, Breaks, keyVars, endVars,
     lossVars, TypeOK, Awaits, CurrentInv, Clean, Holding
<1>4. ASSUME NEW n \in Nodes, Create(n) PROVE CurrentInv'
  BY <1>4, NodesAssumption DEF Create, At, Goto, Works, Breaks, Outcome, Becomes,
     keyVars, endVars, lossVars, TypeOK, Awaits, CurrentInv, Clean, Holding
<1>5. ASSUME NEW n \in Nodes, Copy(n) PROVE CurrentInv'
  BY <1>5, NodesAssumption DEF Copy, At, Goto, Works, Breaks, Outcome, keyVars,
     endVars, lossVars, TypeOK, Awaits, CurrentInv, Clean, Holding
<1>6. ASSUME NEW n \in Nodes, StartContainer(n) PROVE CurrentInv'
  BY <1>6, NodesAssumption DEF StartContainer, At, Goto, Works, Breaks, Outcome,
     Becomes, keyVars, endVars, lossVars, TypeOK, Awaits, CurrentInv, Clean, Holding
<1>7. ASSUME NEW n \in Nodes, SeesExit(n) PROVE CurrentInv'
  BY <1>7, NodesAssumption DEF SeesExit, At, Goto, keyVars, endVars, lossVars,
     TypeOK, Awaits, CurrentInv, Clean, Holding
<1>8. ASSUME NEW n \in Nodes, Deadline(n) PROVE CurrentInv'
  BY <1>8, NodesAssumption DEF Deadline, At, Goto, Works, Breaks, Outcome, Becomes,
     keyVars, endVars, lossVars, TypeOK, Awaits, CurrentInv, Clean, Holding
<1>9. ASSUME NEW n \in Nodes, Wait(n) PROVE CurrentInv'
  BY <1>9, NodesAssumption DEF Wait, At, Goto, Works, Breaks, keyVars, endVars,
     TypeOK, Awaits, CurrentInv, Clean, Holding
<1>10. ASSUME NEW n \in Nodes, Collect(n) PROVE CurrentInv'
  BY <1>10, NodesAssumption DEF Collect, At, Goto, Works, Breaks, Outcome, keyVars,
     endVars, lossVars, TypeOK, Awaits, CurrentInv, Clean, Holding
<1>11. ASSUME NEW n \in Nodes, FinalLogs(n) PROVE CurrentInv'
  BY <1>11, NodesAssumption DEF FinalLogs, At, Goto, keyVars, endVars, lossVars,
     TypeOK, Awaits, CurrentInv, Clean, Holding
<1>12. ASSUME NEW n \in Nodes, Remove(n) PROVE CurrentInv'
  BY <1>12, NodesAssumption DEF Remove, At, Goto, Works, Breaks, Removed, Becomes, keyVars,
     endVars, TypeOK, Awaits, CurrentInv, Clean, Holding
<1>13. ASSUME NEW n \in Nodes, Clear(n) PROVE CurrentInv'
  BY <1>13, NodesAssumption DEF Clear, At, Goto, ClearCurrent, endVars, lossVars,
     Works, Breaks, TypeOK, Awaits, CurrentInv, Clean, Holding
<1>14. ASSUME NEW n \in Nodes, Publish(n) PROVE CurrentInv'
  BY <1>14, NodesAssumption DEF Publish, At, Ends, keyVars, endVars, lossVars, Goto,
     TypeOK, Awaits, CurrentInv, Clean, Holding
<1>15. ASSUME NEW n \in Nodes, Failed(n) PROVE CurrentInv'
  BY <1>15, NodesAssumption DEF Failed, At, Ends, ClearCurrent, endVars, lossVars,
     Goto, Works, Breaks, TypeOK, Awaits, CurrentInv, Clean, Holding
<1>16. ASSUME NEW n \in Nodes, StoreLogs(n) PROVE CurrentInv'
  BY <1>16, NodesAssumption DEF StoreLogs, At, Goto, Works, Breaks, endVars,
     lossVars, TypeOK, Awaits, CurrentInv, Clean, Holding
<1>17. ASSUME NEW n \in Nodes, CancelClear(n) PROVE CurrentInv'
  BY <1>17, NodesAssumption DEF CancelClear, At, Ends, ClearCurrent, endVars,
     lossVars, Goto, Works, Breaks, TypeOK, Awaits, CurrentInv, Clean, Holding
<1>18. ASSUME NEW n \in Nodes, CancelledEarly(n) PROVE CurrentInv'
  BY <1>18, NodesAssumption DEF CancelledEarly, Ends, Lands, endVars, lossVars,
     Goto, TypeOK, Awaits, CurrentInv, Clean, Holding
<1>19. ASSUME NEW n \in Nodes, CancelledUnborn(n) PROVE CurrentInv'
  BY <1>19, NodesAssumption DEF CancelledUnborn, Goto, Becomes, Lands, keyVars,
     endVars, TypeOK, Awaits, CurrentInv, Clean, Holding
<1>20. ASSUME NEW n \in Nodes, CancelledInside(n) PROVE CurrentInv'
  BY <1>20, NodesAssumption DEF CancelledInside, Goto, Outcome, Becomes, Lands,
     keyVars, endVars, lossVars, TypeOK, Awaits, CurrentInv, Clean, Holding
<1>21. ASSUME NEW n \in Nodes, CancelledCleaning(n) PROVE CurrentInv'
  BY <1>21, NodesAssumption DEF CancelledCleaning, Goto, Removed, Becomes, Lands, keyVars,
     endVars, TypeOK, Awaits, CurrentInv, Clean, Holding
<1>22. ASSUME NEW n \in Nodes, CancelledAfter(n) PROVE CurrentInv'
  BY <1>22, NodesAssumption DEF CancelledAfter, Goto, Ends, Lands, endVars,
     lossVars, TypeOK, Awaits, CurrentInv, Clean, Holding
<1>23. ASSUME NEW n \in Nodes, NEW c \in {0, 1}, ContainerExits(n, c) PROVE CurrentInv'
  BY <1>23, NodesAssumption DEF ContainerExits, Becomes, keyVars, endVars, lossVars,
     TypeOK, Awaits, CurrentInv, Clean, Holding
<1>24. ASSUME NEW n \in Nodes, PassDeadline(n) PROVE CurrentInv'
  BY <1>24, NodesAssumption DEF PassDeadline, keyVars, endVars, lossVars, TypeOK,
     Awaits, CurrentInv, Clean, Holding
<1>25. ASSUME NEW n \in Nodes, ThreadCreates(n) PROVE CurrentInv'
  BY <1>25, NodesAssumption DEF ThreadCreates, Becomes, keyVars, endVars, lossVars,
     TypeOK, Awaits, CurrentInv, Clean, Holding
<1>26. CASE Finish
  BY <1>26, NodesAssumption DEF Finish, AllDone, nodeVars, keyVars, lossVars,
     TypeOK, Awaits, CurrentInv, Clean, Holding
<1>27. CASE PersistCancelled
  BY <1>27, NodesAssumption DEF PersistCancelled, Works, Breaks, AllDone, nodeVars,
     lossVars, TypeOK, Awaits, CurrentInv, Clean, Holding
<1>28. CASE Cancel
  BY <1>28, NodesAssumption DEF Cancel, nodeVars, keyVars, lossVars, TypeOK, Awaits,
     CurrentInv, Clean, Holding
<1>29. CASE Crash
  BY <1>29, NodesAssumption DEF Crash, nodeVars, keyVars, lossVars, TypeOK, Awaits,
     CurrentInv, Clean, Holding
<1>30. CASE Retry
  BY <1>30, NodesAssumption DEF Retry, Fresh, keyVars, TypeOK, Awaits, CurrentInv,
     Clean, Holding
<1>31. CASE UNCHANGED vars
  BY <1>31 DEF vars, nodeVars, keyVars, endVars, lossVars, TypeOK, Awaits,
     CurrentInv, Clean, Holding
<1> QED
  BY <1>1, <1>2, <1>3, <1>4, <1>5, <1>6, <1>7, <1>8, <1>9, <1>10, <1>11, <1>12,
     <1>13, <1>14, <1>15, <1>16, <1>17, <1>18, <1>19, <1>20, <1>21, <1>22, <1>23,
     <1>24, <1>25, <1>26, <1>27, <1>28, <1>29, <1>30, <1>31 DEF Next, NodeStep,
     Environment, Ending, Stopped

\* The cancelled logs' key.
LEMMA LogsPreserved ==
    ASSUME TypeOK, CurrentInv, LogsInv, [Next]_vars
    PROVE  LogsInv'
<1>1. ASSUME NEW n \in Nodes, Prepare(n) PROVE LogsInv'
  BY <1>1, NodesAssumption DEF Prepare, At, Goto, Works, Breaks, keyVars, endVars,
     lossVars, TypeOK, Awaits, CurrentInv, LogsInv, Clean, Stored, Cut
<1>2. ASSUME NEW n \in Nodes, Mark(n) PROVE LogsInv'
  BY <1>2, NodesAssumption DEF Mark, At, Goto, Works, Breaks, endVars, lossVars,
     TypeOK, Awaits, CurrentInv, LogsInv, Clean, Stored, Cut
<1>3. ASSUME NEW n \in Nodes, Image(n) PROVE LogsInv'
  BY <1>3, NodesAssumption DEF Image, At, Goto, Works, Breaks, keyVars, endVars,
     lossVars, TypeOK, Awaits, CurrentInv, LogsInv, Clean, Stored, Cut
<1>4. ASSUME NEW n \in Nodes, Create(n) PROVE LogsInv'
  BY <1>4, NodesAssumption DEF Create, At, Goto, Works, Breaks, Outcome, Becomes,
     keyVars, endVars, lossVars, TypeOK, Awaits, CurrentInv, LogsInv, Clean, Stored,
     Cut
<1>5. ASSUME NEW n \in Nodes, Copy(n) PROVE LogsInv'
  BY <1>5, NodesAssumption DEF Copy, At, Goto, Works, Breaks, Outcome, keyVars,
     endVars, lossVars, TypeOK, Awaits, CurrentInv, LogsInv, Clean, Stored, Cut
<1>6. ASSUME NEW n \in Nodes, StartContainer(n) PROVE LogsInv'
  BY <1>6, NodesAssumption DEF StartContainer, At, Goto, Works, Breaks, Outcome,
     Becomes, keyVars, endVars, lossVars, TypeOK, Awaits, CurrentInv, LogsInv,
     Clean, Stored, Cut
<1>7. ASSUME NEW n \in Nodes, SeesExit(n) PROVE LogsInv'
  BY <1>7, NodesAssumption DEF SeesExit, At, Goto, keyVars, endVars, lossVars,
     TypeOK, Awaits, CurrentInv, LogsInv, Clean, Stored, Cut
<1>8. ASSUME NEW n \in Nodes, Deadline(n) PROVE LogsInv'
  BY <1>8, NodesAssumption DEF Deadline, At, Goto, Works, Breaks, Outcome, Becomes,
     keyVars, endVars, lossVars, TypeOK, Awaits, CurrentInv, LogsInv, Clean, Stored,
     Cut
<1>9. ASSUME NEW n \in Nodes, Wait(n) PROVE LogsInv'
  BY <1>9, NodesAssumption DEF Wait, At, Goto, Works, Breaks, keyVars, endVars,
     TypeOK, Awaits, CurrentInv, LogsInv, Clean, Stored, Cut
<1>10. ASSUME NEW n \in Nodes, Collect(n) PROVE LogsInv'
  BY <1>10, NodesAssumption DEF Collect, At, Goto, Works, Breaks, Outcome, keyVars,
     endVars, lossVars, TypeOK, Awaits, CurrentInv, LogsInv, Clean, Stored, Cut
<1>11. ASSUME NEW n \in Nodes, FinalLogs(n) PROVE LogsInv'
  BY <1>11, NodesAssumption DEF FinalLogs, At, Goto, keyVars, endVars, lossVars,
     TypeOK, Awaits, CurrentInv, LogsInv, Clean, Stored, Cut
<1>12. ASSUME NEW n \in Nodes, Remove(n) PROVE LogsInv'
  BY <1>12, NodesAssumption DEF Remove, At, Goto, Works, Breaks, Removed, Becomes, keyVars,
     endVars, TypeOK, Awaits, CurrentInv, LogsInv, Clean, Stored, Cut
<1>13. ASSUME NEW n \in Nodes, Clear(n) PROVE LogsInv'
  BY <1>13, NodesAssumption DEF Clear, At, Goto, ClearCurrent, endVars, lossVars,
     Works, Breaks, TypeOK, Awaits, CurrentInv, LogsInv, Clean, Stored, Cut
<1>14. ASSUME NEW n \in Nodes, Publish(n) PROVE LogsInv'
  BY <1>14, NodesAssumption DEF Publish, At, Ends, keyVars, endVars, lossVars, Goto,
     TypeOK, Awaits, CurrentInv, LogsInv, Clean, Stored, Cut
<1>15. ASSUME NEW n \in Nodes, Failed(n) PROVE LogsInv'
  BY <1>15, NodesAssumption DEF Failed, At, Ends, ClearCurrent, endVars, lossVars,
     Goto, Works, Breaks, TypeOK, Awaits, CurrentInv, LogsInv, Clean, Stored, Cut
<1>16. ASSUME NEW n \in Nodes, StoreLogs(n) PROVE LogsInv'
  BY <1>16, NodesAssumption DEF StoreLogs, At, Goto, Works, Breaks, endVars,
     lossVars, TypeOK, Awaits, CurrentInv, LogsInv, Clean, Stored, Cut
<1>17. ASSUME NEW n \in Nodes, CancelClear(n) PROVE LogsInv'
  BY <1>17, NodesAssumption DEF CancelClear, At, Ends, ClearCurrent, endVars,
     lossVars, Goto, Works, Breaks, TypeOK, Awaits, CurrentInv, LogsInv, Clean,
     Stored, Cut
<1>18. ASSUME NEW n \in Nodes, CancelledEarly(n) PROVE LogsInv'
  BY <1>18, NodesAssumption DEF CancelledEarly, Ends, Lands, endVars, lossVars,
     Goto, TypeOK, Awaits, CurrentInv, LogsInv, Clean, Stored, Cut
<1>19. ASSUME NEW n \in Nodes, CancelledUnborn(n) PROVE LogsInv'
  BY <1>19, NodesAssumption DEF CancelledUnborn, Goto, Becomes, Lands, keyVars,
     endVars, TypeOK, Awaits, CurrentInv, LogsInv, Clean, Stored, Cut
<1>20. ASSUME NEW n \in Nodes, CancelledInside(n) PROVE LogsInv'
  BY <1>20, NodesAssumption DEF CancelledInside, Goto, Outcome, Becomes, Lands,
     keyVars, endVars, lossVars, TypeOK, Awaits, CurrentInv, LogsInv, Clean, Stored,
     Cut
<1>21. ASSUME NEW n \in Nodes, CancelledCleaning(n) PROVE LogsInv'
  BY <1>21, NodesAssumption DEF CancelledCleaning, Goto, Removed, Becomes, Lands, keyVars,
     endVars, TypeOK, Awaits, CurrentInv, LogsInv, Clean, Stored, Cut
<1>22. ASSUME NEW n \in Nodes, CancelledAfter(n) PROVE LogsInv'
  BY <1>22, NodesAssumption DEF CancelledAfter, Goto, Ends, Lands, endVars,
     lossVars, TypeOK, Awaits, CurrentInv, LogsInv, Clean, Stored, Cut
<1>23. ASSUME NEW n \in Nodes, NEW c \in {0, 1}, ContainerExits(n, c) PROVE LogsInv'
  BY <1>23, NodesAssumption DEF ContainerExits, Becomes, keyVars, endVars, lossVars,
     TypeOK, Awaits, CurrentInv, LogsInv, Clean, Stored, Cut
<1>24. ASSUME NEW n \in Nodes, PassDeadline(n) PROVE LogsInv'
  BY <1>24, NodesAssumption DEF PassDeadline, keyVars, endVars, lossVars, TypeOK,
     Awaits, CurrentInv, LogsInv, Clean, Stored, Cut
<1>25. ASSUME NEW n \in Nodes, ThreadCreates(n) PROVE LogsInv'
  BY <1>25, NodesAssumption DEF ThreadCreates, Becomes, keyVars, endVars, lossVars,
     TypeOK, Awaits, CurrentInv, LogsInv, Clean, Stored, Cut
<1>26. CASE Finish
  BY <1>26, NodesAssumption DEF Finish, AllDone, nodeVars, keyVars, lossVars,
     TypeOK, Awaits, CurrentInv, LogsInv, Clean, Stored, Cut
<1>27. CASE PersistCancelled
  BY <1>27, NodesAssumption DEF PersistCancelled, Works, Breaks, AllDone, nodeVars,
     lossVars, TypeOK, Awaits, CurrentInv, LogsInv, Clean, Stored, Cut
<1>28. CASE Cancel
  BY <1>28, NodesAssumption DEF Cancel, nodeVars, keyVars, lossVars, TypeOK, Awaits,
     CurrentInv, LogsInv, Clean, Stored, Cut
<1>29. CASE Crash
  BY <1>29, NodesAssumption DEF Crash, nodeVars, keyVars, lossVars, TypeOK, Awaits,
     CurrentInv, LogsInv, Clean, Stored, Cut
<1>30. CASE Retry
  BY <1>30, NodesAssumption DEF Retry, Fresh, keyVars, TypeOK, Awaits, CurrentInv,
     LogsInv, Clean, Stored, Cut
<1>31. CASE UNCHANGED vars
  BY <1>31 DEF vars, nodeVars, keyVars, endVars, lossVars, TypeOK, Awaits,
     CurrentInv, LogsInv, Clean, Stored, Cut
<1> QED
  BY <1>1, <1>2, <1>3, <1>4, <1>5, <1>6, <1>7, <1>8, <1>9, <1>10, <1>11, <1>12,
     <1>13, <1>14, <1>15, <1>16, <1>17, <1>18, <1>19, <1>20, <1>21, <1>22, <1>23,
     <1>24, <1>25, <1>26, <1>27, <1>28, <1>29, <1>30, <1>31 DEF Next, NodeStep,
     Environment, Ending, Stopped

-----------------------------------------------------------------------------
Inv == TypeOK /\ ContainerInv /\ CurrentInv /\ LogsInv

LEMMA Initially == Init => Inv
<1> SUFFICES ASSUME Init PROVE Inv
  OBVIOUS
<1>1. TypeOK
  BY NodesAssumption DEF Init, TypeOK, Awaits, Fresh
<1>2. ContainerInv
  BY DEF Init, ContainerInv, Fresh
<1>3. CurrentInv
  BY DEF Init, CurrentInv
<1>4. LogsInv
  BY DEF Init, LogsInv, Stored, Fresh
<1> QED BY <1>1, <1>2, <1>3, <1>4 DEF Inv

LEMMA Invariance == Spec => []Inv
<1>1. Inv /\ [Next]_vars => Inv'
  BY TypePreserved, ContainerPreserved, CurrentPreserved, LogsPreserved DEF Inv
<1> QED BY Initially, <1>1, PTL DEF Spec

\* Every variable keeps its type; pc names one of the awaits of the two functions.
THEOREM NodesTypeCorrect == Spec => []TypeOK
BY Invariance, PTL DEF Inv

\* However a node ends, at whatever await it is cut off and whichever calls fail,
\* its container is removed, with the two exceptions the code makes.
THEOREM ContainerSafety == Spec => []ContainersAreRemoved
<1>1. Inv => ContainersAreRemoved
  BY DEF Inv, ContainerInv, ContainersAreRemoved
<1> QED BY Invariance, <1>1, PTL

\* A result is only taken from a container whose process has ended by itself, and
\* with status 0 unless Docker could not tell the status or nothing was printed.
THEOREM SuccessSafety == Spec => SuccessMeansExit
<1> DEFINE Earned == \A n \in Nodes : out'[n] = "value" /\ out[n] # "value" =>
                        cont[n] = "exited" /\ (code[n] = 0 \/ n \in guessed \union silent)
<1>1. ASSUME Inv, Next PROVE Earned
  <2>1. ASSUME NEW n \in Nodes, Collect(n) PROVE Earned
    BY <1>1, <2>1 DEF Collect, Told, At, Outcome, Inv, TypeOK, ContainerInv
  <2>2. ASSUME NEW n \in Nodes,
               (NodeStep(n) /\ ~Collect(n)) \/ Environment(n)
        PROVE  Earned
    <3>1. \A m \in Nodes : out'[m] = "value" => out[m] = "value"
      BY <1>1, <2>2 DEF Inv, TypeOK, NodeStep, Environment, Prepare, Mark, Image, Create,
         Copy, StartContainer, SeesExit, Deadline, Wait, FinalLogs, Remove, Clear,
         Publish, Failed, StoreLogs, CancelClear, CancelledEarly, CancelledUnborn,
         CancelledInside, CancelledCleaning, CancelledAfter, ContainerExits,
         PassDeadline, ThreadCreates, Outcome, Removed, nodeVars
    <3> QED BY <3>1
  <2>3. CASE Ending \/ Cancel \/ Crash \/ Retry \/ Stopped
    BY <2>3 DEF Ending, Finish, PersistCancelled, Cancel, Crash, Retry, Stopped, Fresh,
       vars, nodeVars
  <2> QED BY <1>1, <2>1, <2>2, <2>3 DEF Next
<1>2. Inv /\ [Next]_vars => [Earned]_vars
  BY <1>1
<1> QED BY Invariance, <1>2, PTL DEF Spec, SuccessMeansExit

\* A finished superstep leaves no node shown as running.
THEOREM CurrentSafety == Spec => []FinishedShowsNoneRunning
<1>1. Inv => FinishedShowsNoneRunning
  BY DEF Inv, TypeOK, CurrentInv, Clean, FinishedShowsNoneRunning
<1> QED BY Invariance, <1>1, PTL

\* A cancelled superstep shows as cancelled only nodes that were cut off.
THEOREM LogsSafety == Spec => []CancelledLogsAreReal
<1>1. Inv => CancelledLogsAreReal
  BY DEF Inv, LogsInv, Clean, Cut, CancelledLogsAreReal
<1> QED BY Invariance, <1>1, PTL
=============================================================================
