---------------------------- MODULE EngineProofs ----------------------------
(***************************************************************************)
(* Theorems about the execution engine, for every set of processes, jobs   *)
(* and ids and every bound.                                                *)
(***************************************************************************)
EXTENDS Engine, TLAPS

Submitting == {"reserved", "cleared", "sent"}
Advancing  == {"advance", "acting"} \union Submitting

\* A process that is advancing has a job, and one has an order when it is submitting.
AtWork ==
  \A p \in Processes :
    /\ pc[p] \in Advancing => cur[p] \in Jobs
    /\ pc[p] \in Submitting => cid[p] \in ClientIds
    /\ pc[p] \notin Submitting => cid[p] = NoIntent

TypeInv == TypeOK /\ AtWork

\* Every variable keeps its type: an advance never counts more slices than a job
\* has, and a process never forgets which job or order it is working on.
LEMMA TypeInvariant == Spec => []TypeInv
<1>1. Init => TypeInv
  <2> SUFFICES ASSUME Init PROVE TypeInv
    OBVIOUS
  <2>1. /\ 0 \in 0 .. MaxSlices
        /\ 0 \in 0 .. MaxCrashes
        /\ 0 \in 0 .. MaxToolOrders
    BY EngineAssumption DEF EngineAssumption
  <2>2. status \in [Jobs -> JobStatus \union {"none"}]
    BY DEF Init, JobStatus
  <2>3. due \in SUBSET Jobs
    BY DEF Init
  <2>4. AtWork
    BY DEF Init, AtWork, Submitting, Advancing
  <2>5. /\ seen \in [Processes -> [Jobs -> 0 .. MaxSlices]]
        /\ released \in [Jobs -> 0 .. MaxSlices]
        /\ toolOrders \in [Processes -> 0 .. MaxToolOrders]
        /\ crashes \in 0 .. MaxCrashes
    BY <2>1 DEF Init
  <2>6. answer \in [Processes -> (ClientIds \union {NoIntent}) \X Verdicts]
    BY DEF Init, Verdicts
  <2>7. call \in [Processes -> [tool : {"none", "engage", "release"},
                               left : SUBSET Jobs, paused : SUBSET Jobs]]
    BY DEF Init, NoCall
  <2>8. QED
    BY <2>2, <2>3, <2>4, <2>5, <2>6, <2>7
    DEF Init, TypeInv, TypeOK, IntentStatus, PcValues, OrderStatus
<1>2. TypeInv /\ [Next]_vars => TypeInv'
  <2> SUFFICES ASSUME TypeInv, [Next]_vars PROVE TypeInv'
    OBVIOUS
  <2> USE EngineAssumption DEF EngineAssumption, TypeInv, TypeOK, AtWork, Submitting,
         Advancing, Goto, database, memory, handlers, history, PcValues
  <2>1. ASSUME NEW p \in Processes, Start(p) PROVE TypeInv'
    BY <2>1 DEF Start, PendingIntents, Down
  <2>2. ASSUME NEW p \in Processes, NEW c \in ClientIds, Lookup(p, c) PROVE TypeInv'
    BY <2>2 DEF Lookup, LookupVerdicts, Verdicts
  <2>3. ASSUME NEW p \in Processes, ApplyLookup(p) PROVE TypeInv'
    BY <2>3 DEF ApplyLookup, ReconciledStatus, Verdicts, IntentStatus
  <2>4. ASSUME NEW p \in Processes, Recovered(p) PROVE TypeInv'
    BY <2>4 DEF Recovered, AfterStart
  <2>5. ASSUME NEW p \in Processes, Tick(p) PROVE TypeInv'
    <3>1. PICK S \in DueBatches :
               /\ batch' = [batch EXCEPT ![p] = S]
               /\ seen' = [seen EXCEPT ![p] = [j \in Jobs |-> IF j \in S THEN released[j] ELSE 0]]
               /\ Goto(p, IF S = {} THEN "idle" ELSE "batch")
      BY <2>5, ZenonT(40) DEF Tick
    <3>2. S \in SUBSET Jobs
      BY DEF DueBatches, DueJobs
    <3>3. [j \in Jobs |-> IF j \in S THEN released[j] ELSE 0] \in [Jobs -> 0 .. MaxSlices]
      OBVIOUS
    <3>4. pc[p] = "idle" /\ UNCHANGED <<database, todo, answer, cur, toCancel, toSubmit, done, cid,
                                       handlers, order, crashes, history>>
      BY <2>5 DEF Tick
    <3>5. QED
      BY <3>1, <3>2, <3>3, <3>4
  <2>6. ASSUME NEW p \in Processes, NEW j \in Jobs, CallStrategy(p, j) PROVE TypeInv'
    BY <2>6 DEF CallStrategy
  <2>7. ASSUME NEW p \in Processes, EndTick(p) PROVE TypeInv'
    <3>1. [j \in Jobs |-> 0] \in [Jobs -> 0 .. MaxSlices]
      OBVIOUS
    <3>2. AtWork'
      BY <2>7 DEF EndTick
    <3>3. QED
      BY <2>7, <3>1, <3>2 DEF EndTick
  <2>8. ASSUME NEW p \in Processes, StrategyReturns(p) PROVE TypeInv'
    <3>1. PICK k \in 0 .. MaxRelease, ending \in {"none", "completed", "failed"},
               cancels \in {{}} \union {{c} : c \in OpenOrders(cur[p])} :
               Persist(p, k, ending, cancels)
      BY <2>8 DEF StrategyReturns
    <3> cancels \in SUBSET ClientIds
      BY DEF OpenOrders
    <3>2. cur[p] \in Jobs
      BY <3>1 DEF Persist
    <3>3. /\ seen[p][cur[p]] \in Nat
          /\ seen[p][cur[p]] + k <= MaxSlices
      BY <3>1, <3>2 DEF Persist, StepIsPossible
    <3>4. /\ seen[p][cur[p]] + k \in 0 .. MaxSlices
          /\ (seen[p][cur[p]] + 1) .. (seen[p][cur[p]] + k) \subseteq Slices
      BY <3>3 DEF Slices
    <3>5. QED
      BY <3>1, <3>2, <3>4 DEF Persist, PersistedState, JobStatus
  <2>9. ASSUME NEW p \in Processes, StrategyThrows(p) PROVE TypeInv'
    BY <2>9 DEF StrategyThrows, BackToBatch, JobStatus
  <2>10. ASSUME NEW p \in Processes, EndAdvance(p) PROVE TypeInv'
    BY <2>10 DEF EndAdvance, StepIsDone, BackToBatch, JobStatus
  <2>11. ASSUME NEW p \in Processes, UpdateThrows(p) PROVE TypeInv'
    BY <2>11 DEF UpdateThrows, Vanish, Verdicts, NoCall
  <2>12. ASSUME NEW p \in Processes, NEW c \in ClientIds, CancelOrder(p, c) PROVE TypeInv'
    BY <2>12 DEF CancelOrder, OrderStatus
  <2>13. ASSUME NEW p \in Processes, NEW c \in ClientIds, CancelFails(p, c) PROVE TypeInv'
    BY <2>13 DEF CancelFails
  <2>14. ASSUME NEW p \in Processes, NEW s \in Slices, RefuseOrder(p, s) PROVE TypeInv'
    BY <2>14 DEF RefuseOrder, Pricing
  <2>15. ASSUME NEW p \in Processes, NEW s \in Slices, NEW m \in Mints, ReserveIntent(p, s, m) PROVE TypeInv'
    BY <2>15 DEF ReserveIntent, Pricing, IntentStatus, ClientIds
  <2>16. ASSUME NEW p \in Processes, ClearToSend(p) PROVE TypeInv'
    BY <2>16 DEF ClearToSend
  <2>17. ASSUME NEW p \in Processes, RefuseReserved(p) PROVE TypeInv'
    BY <2>17 DEF RefuseReserved, SettleFailed, SettleIntent, IntentStatus, ClientIds
  <2>18. ASSUME NEW p \in Processes, SendOrder(p) PROVE TypeInv'
    BY <2>18 DEF SendOrder, CountSent, OrderStatus
  <2>19. ASSUME NEW p \in Processes, OrderAnswered(p) PROVE TypeInv'
    BY <2>19 DEF OrderAnswered, SettleIntent, IntentStatus
  <2>20. ASSUME NEW p \in Processes, OrderRefused(p) PROVE TypeInv'
    BY <2>20 DEF OrderRefused, SettleFailed, SettleIntent, IntentStatus, ClientIds
  <2>21. ASSUME NEW p \in Processes, AnswerLost(p) PROVE TypeInv'
    BY <2>21 DEF AnswerLost, SettleFailed, SettleIntent, IntentStatus, ClientIds
  <2>22. ASSUME NEW p \in Processes, Crash(p) PROVE TypeInv'
    BY <2>22 DEF Crash, Vanish, Verdicts, NoCall
  <2>23. ASSUME NEW q \in Servers, NEW j \in Jobs, algo_start(q, j) PROVE TypeInv'
    BY <2>23 DEF algo_start, JobStatus
  <2>24. ASSUME NEW q \in Servers, NEW j \in Jobs, algo_cancel_job(q, j) PROVE TypeInv'
    BY <2>24 DEF algo_cancel_job, JobStatus
  <2>25. ASSUME NEW q \in Servers, risk_kill_switch_engage(q) PROVE TypeInv'
    BY <2>25 DEF risk_kill_switch_engage, BeginHalt, PastTheCheck, JobStatus
  <2>26. ASSUME NEW q \in Servers, risk_kill_switch_release(q) PROVE TypeInv'
    BY <2>26 DEF risk_kill_switch_release, JobStatus
  <2>27. ASSUME NEW c \in ClientIds, Judge(c) PROVE TypeInv'
    BY <2>27 DEF Judge, OrderStatus
  <2>28. ASSUME NEW c \in ClientIds, Close(c) PROVE TypeInv'
    BY <2>28 DEF Close, OrderStatus
  <2>29. ASSUME NEW j \in Jobs, BecomeDue(j) PROVE TypeInv'
    BY <2>29 DEF BecomeDue
  <2>30. ASSUME NEW q \in Processes, NEW j \in Jobs, PauseJob(q, j) PROVE TypeInv'
    BY <2>30 DEF PauseJob, JobStatus
  <2>31. ASSUME NEW q \in Processes, NEW j \in Jobs, ResumeJob(q, j) PROVE TypeInv'
    BY <2>31 DEF ResumeJob, JobStatus
  <2>32. ASSUME NEW q \in Processes, EngageReturns(q) PROVE TypeInv'
    <3>1. UNCHANGED <<pc, cur, cid>>
      BY <2>32 DEF EngageReturns
    <3>2. UNCHANGED history \/ BeginHalt
      BY <2>32 DEF EngageReturns
    <3>3. /\ sentSinceHalt' \in [Processes -> Nat]
          /\ clearedAtHalt' \in [Processes -> Nat]
      <4>1. \A r \in Processes : PastTheCheck(r) \in Nat
        BY DEF PastTheCheck
      <4>2. CASE UNCHANGED history
        BY <4>2
      <4>3. CASE BeginHalt
        BY <4>1, <4>3 DEF BeginHalt
      <4>4. QED
        BY <3>2, <4>2, <4>3
    <3>4. /\ pausedJobIds' \in SUBSET Jobs
          /\ engaged' \in BOOLEAN
          /\ call' \in [Processes -> [tool : {"none", "engage", "release"},
                                     left : SUBSET Jobs, paused : SUBSET Jobs]]
      BY <2>32 DEF EngageReturns, RecordedPauses, NoCall
    <3>5. QED
      BY <2>32, <3>1, <3>3, <3>4 DEF EngageReturns
  <2>33. ASSUME NEW q \in Processes, ReleaseReturns(q) PROVE TypeInv'
    BY <2>33 DEF ReleaseReturns, EndHalt, NoCall
  <2>34. ASSUME NEW q \in Servers, ClearToolOrder(q) PROVE TypeInv'
    BY <2>34 DEF ClearToolOrder
  <2>35. ASSUME NEW q \in Servers, SendToolOrder(q) PROVE TypeInv'
    BY <2>35 DEF SendToolOrder, CountSent
  <2>36. ASSUME NEW q \in Servers, ToolOrderFails(q) PROVE TypeInv'
    BY <2>36 DEF ToolOrderFails
  <2>37. CASE UNCHANGED vars
    BY <2>37 DEF vars
  <2>38. QED
    BY <2>1, <2>2, <2>3, <2>4, <2>5, <2>6, <2>7, <2>8, <2>9, <2>10, <2>11, <2>12, <2>13, <2>14, <2>15, <2>16, <2>17, <2>18, <2>19, <2>20, <2>21, <2>22, <2>23, <2>24, <2>25, <2>26, <2>27, <2>28, <2>29, <2>30, <2>31, <2>32, <2>33, <2>34, <2>35, <2>36, <2>37
    DEF Next, Supervise, Handle, Reconcile, Advance, Act, Tools, ToolOrder, World
<1>3. QED
  BY <1>1, <1>2, PTL DEF Spec

\* An advance never counts more slices than a job has, whoever runs it.
THEOREM TypeCorrect == Spec => []TypeOK
  BY TypeInvariant, PTL DEF TypeInv

\* What a process has sent since the engage and what it still has past the check are
\* together no more than what the engage found past it: the check lets nothing through.
HaltInv ==
  engaged => \A p \in Processes : sentSinceHalt[p] + PastTheCheck(p) <= clearedAtHalt[p]

\* However many jobs a process advances while the kill switch is engaged and whatever its
\* tools are asked for, it sends no order but those that had passed the last check.
THEOREM HaltIsPrompt == Spec => []HaltAdmitsTheCleared
<1>1. Init => HaltInv
  BY DEF Init, HaltInv
<1>2. TypeInv /\ HaltInv /\ [Next]_vars => HaltInv'
  <2> SUFFICES ASSUME TypeInv, HaltInv, [Next]_vars PROVE HaltInv'
    OBVIOUS
  <2> USE DEF TypeInv, TypeOK, HaltInv, PastTheCheck, Goto, database, memory, handlers, history
  <2>1. ASSUME NEW p \in Processes, Start(p) PROVE HaltInv'
    BY <2>1 DEF Start
  <2>2. ASSUME NEW p \in Processes, NEW c \in ClientIds, Lookup(p, c) PROVE HaltInv'
    BY <2>2 DEF Lookup
  <2>3. ASSUME NEW p \in Processes, ApplyLookup(p) PROVE HaltInv'
    BY <2>3 DEF ApplyLookup
  <2>4. ASSUME NEW p \in Processes, Recovered(p) PROVE HaltInv'
    BY <2>4 DEF Recovered, AfterStart
  <2>5. ASSUME NEW p \in Processes, Tick(p) PROVE HaltInv'
    BY <2>5 DEF Tick
  <2>6. ASSUME NEW p \in Processes, NEW j \in Jobs, CallStrategy(p, j) PROVE HaltInv'
    BY <2>6 DEF CallStrategy
  <2>7. ASSUME NEW p \in Processes, EndTick(p) PROVE HaltInv'
    BY <2>7 DEF EndTick
  <2>8. ASSUME NEW p \in Processes, StrategyReturns(p) PROVE HaltInv'
    BY <2>8 DEF StrategyReturns, Persist
  <2>9. ASSUME NEW p \in Processes, StrategyThrows(p) PROVE HaltInv'
    BY <2>9 DEF StrategyThrows, BackToBatch
  <2>10. ASSUME NEW p \in Processes, EndAdvance(p) PROVE HaltInv'
    BY <2>10 DEF EndAdvance, BackToBatch
  <2>11. ASSUME NEW p \in Processes, UpdateThrows(p) PROVE HaltInv'
    BY <2>11 DEF UpdateThrows, Vanish
  <2>12. ASSUME NEW p \in Processes, NEW c \in ClientIds, CancelOrder(p, c) PROVE HaltInv'
    BY <2>12 DEF CancelOrder
  <2>13. ASSUME NEW p \in Processes, NEW c \in ClientIds, CancelFails(p, c) PROVE HaltInv'
    BY <2>13 DEF CancelFails
  <2>14. ASSUME NEW p \in Processes, NEW s \in Slices, RefuseOrder(p, s) PROVE HaltInv'
    BY <2>14 DEF RefuseOrder, Pricing
  <2>15. ASSUME NEW p \in Processes, NEW s \in Slices, NEW m \in Mints, ReserveIntent(p, s, m) PROVE HaltInv'
    BY <2>15 DEF ReserveIntent, Pricing
  <2>16. ASSUME NEW p \in Processes, ClearToSend(p) PROVE HaltInv'
    BY <2>16 DEF ClearToSend, NotHalted
  <2>17. ASSUME NEW p \in Processes, RefuseReserved(p) PROVE HaltInv'
    BY <2>17 DEF RefuseReserved, SettleFailed, SettleIntent
  <2>18. ASSUME NEW p \in Processes, SendOrder(p) PROVE HaltInv'
    BY <2>18 DEF SendOrder, CountSent
  <2>19. ASSUME NEW p \in Processes, OrderAnswered(p) PROVE HaltInv'
    BY <2>19 DEF OrderAnswered, SettleIntent
  <2>20. ASSUME NEW p \in Processes, OrderRefused(p) PROVE HaltInv'
    BY <2>20 DEF OrderRefused, SettleFailed, SettleIntent
  <2>21. ASSUME NEW p \in Processes, AnswerLost(p) PROVE HaltInv'
    BY <2>21 DEF AnswerLost, SettleFailed, SettleIntent
  <2>22. ASSUME NEW p \in Processes, Crash(p) PROVE HaltInv'
    BY <2>22 DEF Crash, Vanish
  <2>23. ASSUME NEW q \in Servers, NEW j \in Jobs, algo_start(q, j) PROVE HaltInv'
    BY <2>23 DEF algo_start
  <2>24. ASSUME NEW q \in Servers, NEW j \in Jobs, algo_cancel_job(q, j) PROVE HaltInv'
    BY <2>24 DEF algo_cancel_job
  <2>25. ASSUME NEW q \in Servers, risk_kill_switch_engage(q) PROVE HaltInv'
    BY <2>25 DEF risk_kill_switch_engage, BeginHalt
  <2>26. ASSUME NEW q \in Servers, risk_kill_switch_release(q) PROVE HaltInv'
    BY <2>26 DEF risk_kill_switch_release
  <2>27. ASSUME NEW c \in ClientIds, Judge(c) PROVE HaltInv'
    BY <2>27 DEF Judge
  <2>28. ASSUME NEW c \in ClientIds, Close(c) PROVE HaltInv'
    BY <2>28 DEF Close
  <2>29. ASSUME NEW j \in Jobs, BecomeDue(j) PROVE HaltInv'
    BY <2>29 DEF BecomeDue
  <2>30. ASSUME NEW q \in Processes, NEW j \in Jobs, PauseJob(q, j) PROVE HaltInv'
    BY <2>30 DEF PauseJob
  <2>31. ASSUME NEW q \in Processes, NEW j \in Jobs, ResumeJob(q, j) PROVE HaltInv'
    BY <2>31 DEF ResumeJob
  <2>32. ASSUME NEW q \in Processes, EngageReturns(q) PROVE HaltInv'
    BY <2>32 DEF EngageReturns, BeginHalt
  <2>33. ASSUME NEW q \in Processes, ReleaseReturns(q) PROVE HaltInv'
    BY <2>33 DEF ReleaseReturns, EndHalt
  <2>34. ASSUME NEW q \in Servers, ClearToolOrder(q) PROVE HaltInv'
    BY <2>34 DEF ClearToolOrder, NotHalted
  <2>35. ASSUME NEW q \in Servers, SendToolOrder(q) PROVE HaltInv'
    BY <2>35 DEF SendToolOrder, CountSent
  <2>36. ASSUME NEW q \in Servers, ToolOrderFails(q) PROVE HaltInv'
    BY <2>36 DEF ToolOrderFails
  <2>37. CASE UNCHANGED vars
    BY <2>37 DEF vars
  <2>38. QED
    BY <2>1, <2>2, <2>3, <2>4, <2>5, <2>6, <2>7, <2>8, <2>9, <2>10, <2>11, <2>12, <2>13, <2>14, <2>15, <2>16, <2>17, <2>18, <2>19, <2>20, <2>21, <2>22, <2>23, <2>24, <2>25, <2>26, <2>27, <2>28, <2>29, <2>30, <2>31, <2>32, <2>33, <2>34, <2>35, <2>36, <2>37
    DEF Next, Supervise, Handle, Reconcile, Advance, Act, Tools, ToolOrder, World
<1>3. TypeInv /\ HaltInv => HaltAdmitsTheCleared
  <2> SUFFICES ASSUME TypeInv, HaltInv, engaged, NEW p \in Processes
               PROVE  sentSinceHalt[p] <= clearedAtHalt[p]
    BY DEF HaltAdmitsTheCleared
  <2>1. /\ sentSinceHalt[p] \in Nat
        /\ clearedAtHalt[p] \in Nat
        /\ toolOrders[p] \in Nat
    BY EngineAssumption DEF EngineAssumption, TypeInv, TypeOK
  <2>2. PastTheCheck(p) \in Nat
    BY <2>1 DEF PastTheCheck
  <2>3. sentSinceHalt[p] + PastTheCheck(p) <= clearedAtHalt[p]
    BY DEF HaltInv
  <2>4. QED
    BY <2>1, <2>2, <2>3
<1>4. QED
  BY <1>1, <1>2, <1>3, TypeInvariant, PTL DEF Spec

\* A job that has ended keeps its status and its state, whatever row a supervisor is
\* working from.
THEOREM EndIsFinal == Spec => TerminalIsFinal
<1> DEFINE Kept == \A j \in Jobs : IsTerminal(status[j]) =>
                     status'[j] = status[j] /\ released'[j] = released[j]
<1>1. TypeInv /\ [Next]_vars => Kept
  <2> SUFFICES ASSUME TypeInv, [Next]_vars PROVE Kept
    OBVIOUS
  <2> USE DEF TypeInv, TypeOK, IsTerminal, TerminalStatuses, UpdateIsLegal, Transitions,
              database, memory, handlers, history
  <2>1. ASSUME NEW p \in Processes, Start(p) PROVE Kept
    BY <2>1 DEF Start
  <2>2. ASSUME NEW p \in Processes, NEW c \in ClientIds, Lookup(p, c) PROVE Kept
    BY <2>2 DEF Lookup
  <2>3. ASSUME NEW p \in Processes, ApplyLookup(p) PROVE Kept
    BY <2>3 DEF ApplyLookup
  <2>4. ASSUME NEW p \in Processes, Recovered(p) PROVE Kept
    BY <2>4 DEF Recovered, AfterStart
  <2>5. ASSUME NEW p \in Processes, Tick(p) PROVE Kept
    BY <2>5 DEF Tick
  <2>6. ASSUME NEW p \in Processes, NEW j \in Jobs, CallStrategy(p, j) PROVE Kept
    BY <2>6 DEF CallStrategy
  <2>7. ASSUME NEW p \in Processes, EndTick(p) PROVE Kept
    BY <2>7 DEF EndTick
  <2>8. ASSUME NEW p \in Processes, StrategyReturns(p) PROVE Kept
    BY <2>8 DEF StrategyReturns, Persist
  <2>9. ASSUME NEW p \in Processes, StrategyThrows(p) PROVE Kept
    BY <2>9 DEF StrategyThrows
  <2>10. ASSUME NEW p \in Processes, EndAdvance(p) PROVE Kept
    BY <2>10 DEF EndAdvance
  <2>11. ASSUME NEW p \in Processes, UpdateThrows(p) PROVE Kept
    BY <2>11 DEF UpdateThrows
  <2>12. ASSUME NEW p \in Processes, NEW c \in ClientIds, CancelOrder(p, c) PROVE Kept
    BY <2>12 DEF CancelOrder
  <2>13. ASSUME NEW p \in Processes, NEW c \in ClientIds, CancelFails(p, c) PROVE Kept
    BY <2>13 DEF CancelFails
  <2>14. ASSUME NEW p \in Processes, NEW s \in Slices, RefuseOrder(p, s) PROVE Kept
    BY <2>14 DEF RefuseOrder
  <2>15. ASSUME NEW p \in Processes, NEW s \in Slices, NEW m \in Mints, ReserveIntent(p, s, m) PROVE Kept
    BY <2>15 DEF ReserveIntent
  <2>16. ASSUME NEW p \in Processes, ClearToSend(p) PROVE Kept
    BY <2>16 DEF ClearToSend
  <2>17. ASSUME NEW p \in Processes, RefuseReserved(p) PROVE Kept
    BY <2>17 DEF RefuseReserved, SettleFailed
  <2>18. ASSUME NEW p \in Processes, SendOrder(p) PROVE Kept
    BY <2>18 DEF SendOrder
  <2>19. ASSUME NEW p \in Processes, OrderAnswered(p) PROVE Kept
    BY <2>19 DEF OrderAnswered
  <2>20. ASSUME NEW p \in Processes, OrderRefused(p) PROVE Kept
    BY <2>20 DEF OrderRefused, SettleFailed
  <2>21. ASSUME NEW p \in Processes, AnswerLost(p) PROVE Kept
    BY <2>21 DEF AnswerLost, SettleFailed
  <2>22. ASSUME NEW p \in Processes, Crash(p) PROVE Kept
    BY <2>22 DEF Crash
  <2>23. ASSUME NEW q \in Servers, NEW j \in Jobs, algo_start(q, j) PROVE Kept
    BY <2>23 DEF algo_start
  <2>24. ASSUME NEW q \in Servers, NEW j \in Jobs, algo_cancel_job(q, j) PROVE Kept
    BY <2>24 DEF algo_cancel_job
  <2>25. ASSUME NEW q \in Servers, risk_kill_switch_engage(q) PROVE Kept
    BY <2>25 DEF risk_kill_switch_engage
  <2>26. ASSUME NEW q \in Servers, risk_kill_switch_release(q) PROVE Kept
    BY <2>26 DEF risk_kill_switch_release
  <2>27. ASSUME NEW c \in ClientIds, Judge(c) PROVE Kept
    BY <2>27 DEF Judge
  <2>28. ASSUME NEW c \in ClientIds, Close(c) PROVE Kept
    BY <2>28 DEF Close
  <2>29. ASSUME NEW j \in Jobs, BecomeDue(j) PROVE Kept
    BY <2>29 DEF BecomeDue
  <2>30. ASSUME NEW q \in Processes, NEW j \in Jobs, PauseJob(q, j) PROVE Kept
    BY <2>30 DEF PauseJob
  <2>31. ASSUME NEW q \in Processes, NEW j \in Jobs, ResumeJob(q, j) PROVE Kept
    BY <2>31 DEF ResumeJob
  <2>32. ASSUME NEW q \in Processes, EngageReturns(q) PROVE Kept
    BY <2>32 DEF EngageReturns
  <2>33. ASSUME NEW q \in Processes, ReleaseReturns(q) PROVE Kept
    BY <2>33 DEF ReleaseReturns
  <2>34. ASSUME NEW q \in Servers, ClearToolOrder(q) PROVE Kept
    BY <2>34 DEF ClearToolOrder
  <2>35. ASSUME NEW q \in Servers, SendToolOrder(q) PROVE Kept
    BY <2>35 DEF SendToolOrder, CountSent
  <2>36. ASSUME NEW q \in Servers, ToolOrderFails(q) PROVE Kept
    BY <2>36 DEF ToolOrderFails
  <2>37. CASE UNCHANGED vars
    BY <2>37 DEF vars
  <2>38. QED
    BY <2>1, <2>2, <2>3, <2>4, <2>5, <2>6, <2>7, <2>8, <2>9, <2>10, <2>11, <2>12, <2>13, <2>14, <2>15, <2>16, <2>17, <2>18, <2>19, <2>20, <2>21, <2>22, <2>23, <2>24, <2>25, <2>26, <2>27, <2>28, <2>29, <2>30, <2>31, <2>32, <2>33, <2>34, <2>35, <2>36, <2>37
    DEF Next, Supervise, Handle, Reconcile, Advance, Act, Tools, ToolOrder, World
<1>2. QED
  BY <1>1, TypeInvariant, PTL DEF Spec, TerminalIsFinal

\* No intent is left behind: a crash hands it to the restart, a reconcile settles it or
\* reports it, and a submission ends by settling it.
THEOREM PendingIntentsAreOwned == Spec => []PendingIntentIsOwned
<1>1. Init => PendingIntentIsOwned
  BY DEF Init, PendingIntentIsOwned
<1>2. TypeInv /\ PendingIntentIsOwned /\ [Next]_vars => PendingIntentIsOwned'
  <2> SUFFICES ASSUME TypeInv, PendingIntentIsOwned, [Next]_vars
               PROVE  PendingIntentIsOwned'
    OBVIOUS
  <2> USE DEF TypeInv, TypeOK, AtWork, Submitting, Advancing, PendingIntentIsOwned, Down,
              Goto, database, memory, handlers, history
  <2>1. ASSUME NEW p \in Processes, Start(p) PROVE PendingIntentIsOwned'
    BY <2>1 DEF Start, PendingIntents
  <2>2. ASSUME NEW p \in Processes, NEW c \in ClientIds, Lookup(p, c) PROVE PendingIntentIsOwned'
    BY <2>2 DEF Lookup
  <2>3. ASSUME NEW p \in Processes, ApplyLookup(p) PROVE PendingIntentIsOwned'
    <3> DEFINE c == answer[p][1]
    <3>1. /\ c \in ClientIds
          /\ answer[p][2] \in Verdicts
      BY <2>3 DEF ApplyLookup
    <3>2. \/ intent'[c] # "pending"
          \/ c \in unresolved'
      BY <2>3, <3>1 DEF ApplyLookup, ReconciledStatus, Verdicts
    <3>3. ASSUME NEW b \in ClientIds, b # c
          PROVE  /\ intent'[b] = intent[b]
                 /\ b \in unresolved => b \in unresolved'
                 /\ \A q \in Processes : b \in todo[q] => b \in todo'[q]
      BY <2>3, <3>1, <3>3 DEF ApplyLookup
    <3>4. UNCHANGED <<pc, cid>>
      BY <2>3 DEF ApplyLookup
    <3>5. QED
      BY <3>1, <3>2, <3>3, <3>4
  <2>4. ASSUME NEW p \in Processes, Recovered(p) PROVE PendingIntentIsOwned'
    BY <2>4 DEF Recovered, AfterStart
  <2>5. ASSUME NEW p \in Processes, Tick(p) PROVE PendingIntentIsOwned'
    BY <2>5 DEF Tick
  <2>6. ASSUME NEW p \in Processes, NEW j \in Jobs, CallStrategy(p, j) PROVE PendingIntentIsOwned'
    BY <2>6 DEF CallStrategy
  <2>7. ASSUME NEW p \in Processes, EndTick(p) PROVE PendingIntentIsOwned'
    BY <2>7 DEF EndTick
  <2>8. ASSUME NEW p \in Processes, StrategyReturns(p) PROVE PendingIntentIsOwned'
    <3>1. UNCHANGED <<intent, unresolved, todo, cid>>
      BY <2>8 DEF StrategyReturns, Persist
    <3>2. pc[p] = "advance" /\ \A q \in Processes : q # p => pc'[q] = pc[q]
      BY <2>8 DEF StrategyReturns, Persist
    <3>3. QED
      BY <3>1, <3>2
  <2>9. ASSUME NEW p \in Processes, StrategyThrows(p) PROVE PendingIntentIsOwned'
    BY <2>9 DEF StrategyThrows, BackToBatch
  <2>10. ASSUME NEW p \in Processes, EndAdvance(p) PROVE PendingIntentIsOwned'
    BY <2>10 DEF EndAdvance, StepIsDone, BackToBatch
  <2>11. ASSUME NEW p \in Processes, UpdateThrows(p) PROVE PendingIntentIsOwned'
    BY <2>11 DEF UpdateThrows, Vanish
  <2>12. ASSUME NEW p \in Processes, NEW c \in ClientIds, CancelOrder(p, c) PROVE PendingIntentIsOwned'
    BY <2>12 DEF CancelOrder
  <2>13. ASSUME NEW p \in Processes, NEW c \in ClientIds, CancelFails(p, c) PROVE PendingIntentIsOwned'
    BY <2>13 DEF CancelFails
  <2>14. ASSUME NEW p \in Processes, NEW s \in Slices, RefuseOrder(p, s) PROVE PendingIntentIsOwned'
    BY <2>14 DEF RefuseOrder, Pricing
  <2>15. ASSUME NEW p \in Processes, NEW s \in Slices, NEW m \in Mints, ReserveIntent(p, s, m) PROVE PendingIntentIsOwned'
    <3> DEFINE c == <<cur[p], s, m>>
    <3>1. /\ cid[p] = NoIntent
          /\ NoIntent \notin ClientIds
      BY <2>15, EngineAssumption DEF ReserveIntent, Pricing, EngineAssumption
    <3>2. cid'[p] = c
      BY <2>15 DEF ReserveIntent
    <3>3. ASSUME NEW b \in ClientIds, b # c, intent'[b] = "pending"
          PROVE  intent[b] = "pending"
      BY <2>15, <3>3 DEF ReserveIntent
    <3>4. UNCHANGED <<unresolved, todo>>
      BY <2>15 DEF ReserveIntent
    <3>5. ASSUME NEW b \in ClientIds, NEW q \in Processes, cid[q] = b
          PROVE  cid'[q] = b
      BY <2>15, <3>1, <3>5 DEF ReserveIntent
    <3>6. ASSUME NEW q \in Processes, pc[q] \in Down
          PROVE  pc'[q] \in Down
      BY <2>15, <3>6 DEF ReserveIntent, Pricing
    <3>7. QED
      BY <3>2, <3>3, <3>4, <3>5, <3>6
  <2>16. ASSUME NEW p \in Processes, ClearToSend(p) PROVE PendingIntentIsOwned'
    BY <2>16 DEF ClearToSend
  <2>17. ASSUME NEW p \in Processes, RefuseReserved(p) PROVE PendingIntentIsOwned'
    BY <2>17 DEF RefuseReserved, SettleFailed, SettleIntent
  <2>18. ASSUME NEW p \in Processes, SendOrder(p) PROVE PendingIntentIsOwned'
    BY <2>18 DEF SendOrder
  <2>19. ASSUME NEW p \in Processes, OrderAnswered(p) PROVE PendingIntentIsOwned'
    BY <2>19 DEF OrderAnswered, SettleIntent
  <2>20. ASSUME NEW p \in Processes, OrderRefused(p) PROVE PendingIntentIsOwned'
    BY <2>20 DEF OrderRefused, SettleFailed, SettleIntent
  <2>21. ASSUME NEW p \in Processes, AnswerLost(p) PROVE PendingIntentIsOwned'
    BY <2>21 DEF AnswerLost, SettleFailed, SettleIntent
  <2>22. ASSUME NEW p \in Processes, Crash(p) PROVE PendingIntentIsOwned'
    BY <2>22 DEF Crash, Vanish
  <2>23. ASSUME NEW q \in Servers, NEW j \in Jobs, algo_start(q, j) PROVE PendingIntentIsOwned'
    BY <2>23 DEF algo_start
  <2>24. ASSUME NEW q \in Servers, NEW j \in Jobs, algo_cancel_job(q, j) PROVE PendingIntentIsOwned'
    BY <2>24 DEF algo_cancel_job
  <2>25. ASSUME NEW q \in Servers, risk_kill_switch_engage(q) PROVE PendingIntentIsOwned'
    BY <2>25 DEF risk_kill_switch_engage
  <2>26. ASSUME NEW q \in Servers, risk_kill_switch_release(q) PROVE PendingIntentIsOwned'
    BY <2>26 DEF risk_kill_switch_release
  <2>27. ASSUME NEW c \in ClientIds, Judge(c) PROVE PendingIntentIsOwned'
    BY <2>27 DEF Judge
  <2>28. ASSUME NEW c \in ClientIds, Close(c) PROVE PendingIntentIsOwned'
    BY <2>28 DEF Close
  <2>29. ASSUME NEW j \in Jobs, BecomeDue(j) PROVE PendingIntentIsOwned'
    BY <2>29 DEF BecomeDue
  <2>30. ASSUME NEW q \in Processes, NEW j \in Jobs, PauseJob(q, j) PROVE PendingIntentIsOwned'
    BY <2>30 DEF PauseJob
  <2>31. ASSUME NEW q \in Processes, NEW j \in Jobs, ResumeJob(q, j) PROVE PendingIntentIsOwned'
    BY <2>31 DEF ResumeJob
  <2>32. ASSUME NEW q \in Processes, EngageReturns(q) PROVE PendingIntentIsOwned'
    BY <2>32 DEF EngageReturns
  <2>33. ASSUME NEW q \in Processes, ReleaseReturns(q) PROVE PendingIntentIsOwned'
    BY <2>33 DEF ReleaseReturns
  <2>34. ASSUME NEW q \in Servers, ClearToolOrder(q) PROVE PendingIntentIsOwned'
    BY <2>34 DEF ClearToolOrder
  <2>35. ASSUME NEW q \in Servers, SendToolOrder(q) PROVE PendingIntentIsOwned'
    BY <2>35 DEF SendToolOrder, CountSent
  <2>36. ASSUME NEW q \in Servers, ToolOrderFails(q) PROVE PendingIntentIsOwned'
    BY <2>36 DEF ToolOrderFails
  <2>37. CASE UNCHANGED vars
    BY <2>37 DEF vars
  <2>38. QED
    BY <2>1, <2>2, <2>3, <2>4, <2>5, <2>6, <2>7, <2>8, <2>9, <2>10, <2>11, <2>12, <2>13, <2>14, <2>15, <2>16, <2>17, <2>18, <2>19, <2>20, <2>21, <2>22, <2>23, <2>24, <2>25, <2>26, <2>27, <2>28, <2>29, <2>30, <2>31, <2>32, <2>33, <2>34, <2>35, <2>36, <2>37
    DEF Next, Supervise, Handle, Reconcile, Advance, Act, Tools, ToolOrder, World
<1>3. QED
  BY <1>1, <1>2, TypeInvariant, PTL DEF Spec

-----------------------------------------------------------------------------
(***************************************************************************)
(* One supervisor process on the database.  engine_two_supervisors shows   *)
(* why the theorems below need it.                                         *)
(***************************************************************************)
OneProcess == \A p, q \in Processes : p = q

\* The orders: none is sent before its intent is written, no slice has two intents, and
\* no intent is for a slice that has not been released.
IntentsInv ==
  /\ \A c \in ClientIds : order[c] # "absent" => intent[c] # "none"
  /\ \A c, d \in ClientIds :
       intent[c] # "none" /\ intent[d] # "none" /\ SameSlice(c, d) => c = d
  /\ \A c \in ClientIds : intent[c] # "none" => c[2] <= released[c[1]]

\* The process: the row it advances a job from is the row in the database, and a slice
\* it still has to submit has been released and has no intent.
AdvanceInv ==
  \A p \in Processes :
    /\ pc[p] \in {"batch"} \union Advancing =>
         \A j \in batch[p] : seen[p][j] = released[j]
    /\ pc[p] \in Advancing => cur[p] \notin batch[p]
    /\ pc[p] = "advance" => seen[p][cur[p]] = released[cur[p]]
    /\ pc[p] \in {"acting"} \union Submitting =>
         /\ \A s \in toSubmit[p] : s <= released[cur[p]]
         /\ \A c \in ClientIds :
              c[1] = cur[p] /\ c[2] \in toSubmit[p] => intent[c] = "none"
    /\ pc[p] \in Submitting => intent[cid[p]] # "none"

\* A reconcile looks up ids that have an intent.
RecoverInv ==
  \A p \in Processes :
    /\ \A c \in todo[p] : intent[c] # "none"
    /\ answer[p][1] # NoIntent => pc[p] = "recovering" /\ answer[p][1] \in todo[p]

SliceInv == IntentsInv /\ AdvanceInv /\ RecoverInv

\* The parts of an id.
LEMMA IdParts ==
  /\ \A c \in ClientIds : c[1] \in Jobs /\ c[2] \in Slices /\ c[2] \in Nat
  /\ \A j \in Jobs, s \in Slices, m \in Mints :
       /\ <<j, s, m>> \in ClientIds
       /\ <<j, s, m>>[1] = j
       /\ <<j, s, m>>[2] = s
  BY EngineAssumption DEF EngineAssumption, ClientIds, Slices

\* While one process runs on the database, the engine sends no order it has not
\* written down, and starts none of a slice that has one.
LEMMA SliceInvariant == ASSUME OneProcess PROVE Spec => []SliceInv
<1>1. Init => SliceInv
  BY SMTT(30) DEF Init, SliceInv, IntentsInv, AdvanceInv, RecoverInv, Advancing, Submitting
<1>2. TypeInv /\ SliceInv /\ [Next]_vars => SliceInv'
  <2> SUFFICES ASSUME TypeInv, SliceInv, [Next]_vars PROVE SliceInv'
    OBVIOUS
  <2> USE OneProcess DEF OneProcess, TypeInv, TypeOK, AtWork, Submitting, Advancing, SliceInv,
              IntentsInv, AdvanceInv, RecoverInv, SameSlice, Down, Goto, database, memory, handlers, history
  <2>1. ASSUME NEW p \in Processes, Start(p) PROVE SliceInv'
    BY <2>1 DEF Start, PendingIntents
  <2>2. ASSUME NEW p \in Processes, NEW c \in ClientIds, Lookup(p, c) PROVE SliceInv'
    BY <2>2 DEF Lookup
  <2>3. ASSUME NEW p \in Processes, ApplyLookup(p) PROVE SliceInv'
    <3> DEFINE c == answer[p][1]
    <3>1. c \in ClientIds /\ answer[p][2] \in Verdicts /\ c # NoIntent
      BY <2>3 DEF ApplyLookup
    <3>2. \A b \in ClientIds : intent'[b] = "none" <=> intent[b] = "none"
      BY <2>3, <3>1 DEF ApplyLookup, ReconciledStatus, Verdicts
    <3>3. UNCHANGED <<order, released, pc, batch, seen, cur, toSubmit, cid>>
      BY <2>3 DEF ApplyLookup
    <3>4. IntentsInv' /\ AdvanceInv'
      BY <3>2, <3>3
    <3>5. RecoverInv'
      BY <2>3, <3>2 DEF ApplyLookup
    <3>6. QED
      BY <3>4, <3>5
  <2>4. ASSUME NEW p \in Processes, Recovered(p) PROVE SliceInv'
    BY <2>4 DEF Recovered, AfterStart
  <2>5. ASSUME NEW p \in Processes, Tick(p) PROVE SliceInv'
    <3>1. PICK S \in DueBatches :
               /\ batch' = [batch EXCEPT ![p] = S]
               /\ seen' = [seen EXCEPT ![p] = [j \in Jobs |-> IF j \in S THEN released[j] ELSE 0]]
      BY <2>5, ZenonT(40) DEF Tick
    <3>2. \A j \in batch'[p] : seen'[p][j] = released[j]
      BY <3>1 DEF DueBatches, DueJobs
    <3>3. pc[p] = "idle" /\ pc'[p] \in {"idle", "batch"}
      BY <2>5 DEF Tick
    <3>4. UNCHANGED <<order, intent, released, cur, toSubmit, cid, todo, answer>>
      BY <2>5 DEF Tick
    <3>5. AdvanceInv'
      BY <3>2, <3>3, <3>4
    <3>6. RecoverInv'
      BY <3>3, <3>4
    <3>7. QED
      BY <3>4, <3>5, <3>6
  <2>6. ASSUME NEW p \in Processes, NEW j \in Jobs, CallStrategy(p, j) PROVE SliceInv'
    BY <2>6 DEF CallStrategy
  <2>7. ASSUME NEW p \in Processes, EndTick(p) PROVE SliceInv'
    BY <2>7 DEF EndTick
  <2>8. ASSUME NEW p \in Processes, StrategyReturns(p) PROVE SliceInv'
    <3> DEFINE j == cur[p]
    <3>1. PICK k \in 0 .. MaxRelease, ending \in {"none", "completed", "failed"},
               cancels \in {{}} \union {{c} : c \in OpenOrders(cur[p])} :
               Persist(p, k, ending, cancels)
      BY <2>8 DEF StrategyReturns
    <3>2. /\ j \in Jobs
          /\ released[j] \in Nat
          /\ seen[p][j] = released[j]
          /\ pc[p] = "advance"
      BY <3>1 DEF Persist
    <3>3. /\ released'[j] = released[j] + k
          /\ \A i \in Jobs : i # j => released'[i] = released[i]
          /\ toSubmit'[p] = (released[j] + 1) .. (released[j] + k)
      BY <3>1, <3>2 DEF Persist, PersistedState
    <3>4. pc'[p] = "acting" /\ UNCHANGED <<order, intent, batch, seen, cur, cid, todo, answer>>
      BY <3>1 DEF Persist
    <3>5. IntentsInv'
      <4>1. \A i \in Jobs : released[i] \in Nat /\ released'[i] \in Nat /\ released[i] <= released'[i]
        <5>1. k \in Nat
          BY EngineAssumption DEF EngineAssumption
        <5>2. \A i \in Jobs : released[i] \in Nat
          OBVIOUS
        <5>3. SUFFICES ASSUME NEW i \in Jobs
                       PROVE  released'[i] \in Nat /\ released[i] <= released'[i]
          BY <5>2
        <5>4. CASE i = j
          BY <5>1, <5>2, <5>4, <3>2, <3>3
        <5>5. CASE i # j
          BY <5>2, <5>5, <3>3
        <5>6. QED
          BY <5>4, <5>5
      <4>2. \A c \in ClientIds : intent[c] # "none" => c[2] <= released'[c[1]]
        BY <4>1, IdParts
      <4>3. QED
        BY <4>2, <3>4
    <3>6. \A s \in toSubmit'[p] : /\ s <= released'[j]
                                 /\ s > released[j]
      BY <3>2, <3>3, IdParts
    <3>7. AdvanceInv'
      BY <3>2, <3>3, <3>4, <3>6
    <3>8. RecoverInv'
      BY <3>2, <3>4
    <3>9. QED
      BY <3>5, <3>7, <3>8
  <2>9. ASSUME NEW p \in Processes, StrategyThrows(p) PROVE SliceInv'
    BY <2>9 DEF StrategyThrows, BackToBatch
  <2>10. ASSUME NEW p \in Processes, EndAdvance(p) PROVE SliceInv'
    BY <2>10 DEF EndAdvance, StepIsDone, BackToBatch
  <2>11. ASSUME NEW p \in Processes, UpdateThrows(p) PROVE SliceInv'
    BY <2>11 DEF UpdateThrows, Vanish
  <2>12. ASSUME NEW p \in Processes, NEW c \in ClientIds, CancelOrder(p, c) PROVE SliceInv'
    BY <2>12 DEF CancelOrder
  <2>13. ASSUME NEW p \in Processes, NEW c \in ClientIds, CancelFails(p, c) PROVE SliceInv'
    BY <2>13 DEF CancelFails
  <2>14. ASSUME NEW p \in Processes, NEW s \in Slices, RefuseOrder(p, s) PROVE SliceInv'
    BY <2>14 DEF RefuseOrder, Pricing
  <2>15. ASSUME NEW p \in Processes, NEW s \in Slices, NEW m \in Mints, ReserveIntent(p, s, m) PROVE SliceInv'
    <3> DEFINE c == <<cur[p], s, m>>
    <3>1. /\ pc[p] = "acting"
          /\ pc'[p] = "reserved"
          /\ s \in toSubmit[p]
          /\ intent' = [intent EXCEPT ![c] = "pending"]
          /\ cid'[p] = c
          /\ toSubmit'[p] = toSubmit[p] \ {s}
          /\ UNCHANGED <<order, released, batch, seen, cur, todo, answer>>
      BY <2>15 DEF ReserveIntent, Pricing
    <3>2. c \in ClientIds /\ c[1] = cur[p] /\ c[2] = s
      BY <3>1, IdParts
    <3>3. /\ intent'[c] = "pending"
          /\ \A b \in ClientIds : b # c => intent'[b] = intent[b]
      BY <3>1, <3>2
    <3>4. \A b \in ClientIds : b[1] = cur[p] /\ b[2] = s => intent[b] = "none"
      BY <3>1
    <3>5. IntentsInv'
      <4>1. \A b \in ClientIds : order[b] # "absent" => intent'[b] # "none"
        BY <3>3
      <4>2. ASSUME NEW b \in ClientIds, NEW d \in ClientIds,
                   intent'[b] # "none", intent'[d] # "none", SameSlice(b, d)
            PROVE  b = d
        <5>1. CASE b # c /\ d # c
          BY <3>3, <4>2, <5>1
        <5>2. CASE b = c
          BY <3>2, <3>3, <3>4, <4>2, <5>2
        <5>3. CASE d = c
          BY <3>2, <3>3, <3>4, <4>2, <5>3
        <5>4. QED
          BY <5>1, <5>2, <5>3
      <4>3. \A b \in ClientIds : intent'[b] # "none" => b[2] <= released[b[1]]
        BY <3>1, <3>2, <3>3
      <4>4. QED
        BY <3>1, <4>1, <4>2, <4>3
    <3>6. AdvanceInv'
      <4>1. \A b \in ClientIds :
              b[1] = cur[p] /\ b[2] \in toSubmit'[p] => intent'[b] = "none"
        BY <3>1, <3>2, <3>3
      <4>2. intent'[cid'[p]] # "none"
        BY <3>1, <3>3
      <4>3. \A t \in toSubmit'[p] : t <= released[cur[p]]
        BY <3>1
      <4>4. cur[p] \notin batch[p] /\ \A j \in batch[p] : seen[p][j] = released[j]
        BY <3>1
      <4>5. \A q \in Processes : q = p
        OBVIOUS
      <4> HIDE DEF TypeInv, TypeOK, AtWork, IntentsInv, RecoverInv
      <4>6. QED
        BY <3>1, <4>1, <4>2, <4>3, <4>4, <4>5
    <3>7. RecoverInv'
      BY <3>1, <3>3
    <3>8. QED
      BY <3>5, <3>6, <3>7
  <2>16. ASSUME NEW p \in Processes, ClearToSend(p) PROVE SliceInv'
    BY <2>16 DEF ClearToSend
  <2>17. ASSUME NEW p \in Processes, RefuseReserved(p) PROVE SliceInv'
    BY <2>17 DEF RefuseReserved, SettleFailed, SettleIntent
  <2>18. ASSUME NEW p \in Processes, SendOrder(p) PROVE SliceInv'
    BY <2>18 DEF SendOrder
  <2>19. ASSUME NEW p \in Processes, OrderAnswered(p) PROVE SliceInv'
    BY <2>19 DEF OrderAnswered, SettleIntent
  <2>20. ASSUME NEW p \in Processes, OrderRefused(p) PROVE SliceInv'
    BY <2>20 DEF OrderRefused, SettleFailed, SettleIntent
  <2>21. ASSUME NEW p \in Processes, AnswerLost(p) PROVE SliceInv'
    BY <2>21 DEF AnswerLost, SettleFailed, SettleIntent
  <2>22. ASSUME NEW p \in Processes, Crash(p) PROVE SliceInv'
    BY <2>22 DEF Crash, Vanish
  <2>23. ASSUME NEW q \in Servers, NEW j \in Jobs, algo_start(q, j) PROVE SliceInv'
    BY <2>23 DEF algo_start
  <2>24. ASSUME NEW q \in Servers, NEW j \in Jobs, algo_cancel_job(q, j) PROVE SliceInv'
    BY <2>24 DEF algo_cancel_job
  <2>25. ASSUME NEW q \in Servers, risk_kill_switch_engage(q) PROVE SliceInv'
    BY <2>25 DEF risk_kill_switch_engage
  <2>26. ASSUME NEW q \in Servers, risk_kill_switch_release(q) PROVE SliceInv'
    BY <2>26 DEF risk_kill_switch_release
  <2>27. ASSUME NEW c \in ClientIds, Judge(c) PROVE SliceInv'
    BY <2>27 DEF Judge
  <2>28. ASSUME NEW c \in ClientIds, Close(c) PROVE SliceInv'
    BY <2>28 DEF Close
  <2>29. ASSUME NEW j \in Jobs, BecomeDue(j) PROVE SliceInv'
    BY <2>29 DEF BecomeDue
  <2>30. ASSUME NEW q \in Processes, NEW j \in Jobs, PauseJob(q, j) PROVE SliceInv'
    BY <2>30 DEF PauseJob
  <2>31. ASSUME NEW q \in Processes, NEW j \in Jobs, ResumeJob(q, j) PROVE SliceInv'
    BY <2>31 DEF ResumeJob
  <2>32. ASSUME NEW q \in Processes, EngageReturns(q) PROVE SliceInv'
    BY <2>32 DEF EngageReturns
  <2>33. ASSUME NEW q \in Processes, ReleaseReturns(q) PROVE SliceInv'
    BY <2>33 DEF ReleaseReturns
  <2>34. ASSUME NEW q \in Servers, ClearToolOrder(q) PROVE SliceInv'
    BY <2>34 DEF ClearToolOrder
  <2>35. ASSUME NEW q \in Servers, SendToolOrder(q) PROVE SliceInv'
    BY <2>35 DEF SendToolOrder, CountSent
  <2>36. ASSUME NEW q \in Servers, ToolOrderFails(q) PROVE SliceInv'
    BY <2>36 DEF ToolOrderFails
  <2>37. CASE UNCHANGED vars
    BY <2>37 DEF vars
  <2>38. QED
    BY <2>1, <2>2, <2>3, <2>4, <2>5, <2>6, <2>7, <2>8, <2>9, <2>10, <2>11, <2>12, <2>13, <2>14, <2>15, <2>16, <2>17, <2>18, <2>19, <2>20, <2>21, <2>22, <2>23, <2>24, <2>25, <2>26, <2>27, <2>28, <2>29, <2>30, <2>31, <2>32, <2>33, <2>34, <2>35, <2>36, <2>37
    DEF Next, Supervise, Handle, Reconcile, Advance, Act, Tools, ToolOrder, World
<1>3. QED
  BY <1>1, <1>2, TypeInvariant, PTL DEF Spec

\* No crash, restart, lost answer or operator makes the engine send two orders for one
\* slice of a job.
THEOREM OneOrderPerSlice == ASSUME OneProcess PROVE Spec => []AtMostOneOrderPerSlice
<1>1. SliceInv => AtMostOneOrderPerSlice
  BY DEF SliceInv, IntentsInv, AtMostOneOrderPerSlice
<1>2. QED
  BY <1>1, SliceInvariant, PTL

\* A status change that ends no job and reopens none is invisible to the ledger.
LEMMA SameJobsAreOpen ==
  ASSUME UNCHANGED <<released, order>>,
         \A j \in Jobs : IsTerminal(status'[j]) <=> IsTerminal(status[j])
  PROVE  UNCHANGED Ledger!ledger
  BY DEF Ledger!ledger

\* A legal status change ends an open job or is invisible to the ledger.
LEMMA LegalUpdateIsLedgerStep ==
  ASSUME status \in [Jobs -> JobStatus \union {"none"}],
         NEW j \in Jobs, NEW to \in JobStatus,
         UpdateIsLegal(status[j], to),
         status' = [status EXCEPT ![j] = to],
         UNCHANGED <<released, order>>
  PROVE  [Ledger!Next]_(Ledger!ledger)
<1>1. /\ status'[j] = to
      /\ \A i \in Jobs : i # j => status'[i] = status[i]
  OBVIOUS
<1>2. IsTerminal(status[j]) => to = status[j]
  BY DEF UpdateIsLegal, Transitions, IsTerminal, TerminalStatuses
<1>3. CASE IsTerminal(to) <=> IsTerminal(status[j])
  BY <1>1, <1>3, SameJobsAreOpen
<1>4. CASE IsTerminal(to) /\ ~IsTerminal(status[j])
  <2>1. {i \in Jobs : ~IsTerminal(status'[i])} = {i \in Jobs : ~IsTerminal(status[i])} \ {j}
    BY <1>1, <1>4
  <2>2. Ledger!End(j)
    BY <1>4, <2>1 DEF Ledger!End
  <2>3. QED
    BY <2>2 DEF Ledger!Next
<1>5. QED
  BY <1>2, <1>3, <1>4

\* The reserve / submit / settle protocol implements the ledger it stands for: every
\* step of the engine releases slices of an open job, ends one, sends the one order of
\* a released slice, or changes nothing the ledger sees.
THEOREM EngineImplementsLedger == ASSUME OneProcess PROVE Spec => RefinesSliceLedger
<1> DEFINE open == {j \in Jobs : ~IsTerminal(status[j])}
           sent == {c \in ClientIds : order[c] # "absent"}
<1>1. Init => Ledger!Init
  BY DEF Init, Ledger!Init, IsTerminal, TerminalStatuses
<1>2. TypeInv /\ SliceInv /\ [Next]_vars => [Ledger!Next]_(Ledger!ledger)
  <2> SUFFICES ASSUME TypeInv, SliceInv, [Next]_vars
               PROVE  [Ledger!Next]_(Ledger!ledger)
    OBVIOUS
  <2> USE DEF TypeInv, TypeOK, AtWork, Submitting, Advancing, database, memory, handlers, history
  <2>1. ASSUME NEW p \in Processes, Start(p) PROVE [Ledger!Next]_(Ledger!ledger)
    BY <2>1 DEF Start, Ledger!ledger
  <2>2. ASSUME NEW p \in Processes, NEW c \in ClientIds, Lookup(p, c) PROVE [Ledger!Next]_(Ledger!ledger)
    BY <2>2 DEF Lookup, Ledger!ledger
  <2>3. ASSUME NEW p \in Processes, ApplyLookup(p) PROVE [Ledger!Next]_(Ledger!ledger)
    BY <2>3 DEF ApplyLookup, Ledger!ledger
  <2>4. ASSUME NEW p \in Processes, Recovered(p) PROVE [Ledger!Next]_(Ledger!ledger)
    BY <2>4 DEF Recovered, AfterStart, Ledger!ledger
  <2>5. ASSUME NEW p \in Processes, Tick(p) PROVE [Ledger!Next]_(Ledger!ledger)
    BY <2>5 DEF Tick, Ledger!ledger
  <2>6. ASSUME NEW p \in Processes, NEW j \in Jobs, CallStrategy(p, j) PROVE [Ledger!Next]_(Ledger!ledger)
    BY <2>6 DEF CallStrategy, Ledger!ledger
  <2>7. ASSUME NEW p \in Processes, EndTick(p) PROVE [Ledger!Next]_(Ledger!ledger)
    BY <2>7 DEF EndTick, Ledger!ledger
  <2>8. ASSUME NEW p \in Processes, StrategyReturns(p) PROVE [Ledger!Next]_(Ledger!ledger)
    <3> DEFINE j == cur[p]
    <3>1. PICK k \in 0 .. MaxRelease, ending \in {"none", "completed", "failed"},
               cancels \in {{}} \union {{c} : c \in OpenOrders(cur[p])} :
               Persist(p, k, ending, cancels)
      BY <2>8 DEF StrategyReturns
    <3>2. /\ j \in Jobs
          /\ seen[p][j] = released[j]
          /\ released[j] + k <= MaxSlices
      BY <3>1 DEF Persist, StepIsPossible, SliceInv, AdvanceInv
    <3>3. /\ ~IsTerminal(status[j])
          /\ \A i \in Jobs : IsTerminal(status'[i]) <=> IsTerminal(status[i])
      BY <3>1, <3>2 DEF Persist, UpdateIsLegal, Transitions, IsTerminal, TerminalStatuses
    <3>4. /\ released' = [released EXCEPT ![j] = released[j] + k]
          /\ order' = order
      BY <3>1, <3>2 DEF Persist, PersistedState
    <3>5. released[j] + k \in released[j] .. MaxSlices
      BY <3>2, EngineAssumption DEF EngineAssumption
    <3>6. Ledger!Release(j)
      BY <3>2, <3>3, <3>4, <3>5 DEF Ledger!Release
    <3>7. QED
      BY <3>2, <3>6 DEF Ledger!Next
  <2>9. ASSUME NEW p \in Processes, StrategyThrows(p) PROVE [Ledger!Next]_(Ledger!ledger)
    BY <2>9, LegalUpdateIsLedgerStep DEF StrategyThrows, JobStatus
  <2>10. ASSUME NEW p \in Processes, EndAdvance(p) PROVE [Ledger!Next]_(Ledger!ledger)
    <3>1. CASE done[p] = "none"
      BY <2>10, <3>1 DEF EndAdvance, Ledger!ledger
    <3>2. CASE done[p] # "none"
      BY <2>10, <3>2, LegalUpdateIsLedgerStep DEF EndAdvance, JobStatus
    <3>3. QED
      BY <3>1, <3>2
  <2>11. ASSUME NEW p \in Processes, UpdateThrows(p) PROVE [Ledger!Next]_(Ledger!ledger)
    BY <2>11 DEF UpdateThrows, Ledger!ledger
  <2>12. ASSUME NEW p \in Processes, NEW c \in ClientIds, CancelOrder(p, c) PROVE [Ledger!Next]_(Ledger!ledger)
    BY <2>12 DEF CancelOrder, Ledger!ledger
  <2>13. ASSUME NEW p \in Processes, NEW c \in ClientIds, CancelFails(p, c) PROVE [Ledger!Next]_(Ledger!ledger)
    BY <2>13 DEF CancelFails, Ledger!ledger
  <2>14. ASSUME NEW p \in Processes, NEW s \in Slices, RefuseOrder(p, s) PROVE [Ledger!Next]_(Ledger!ledger)
    BY <2>14 DEF RefuseOrder, Ledger!ledger
  <2>15. ASSUME NEW p \in Processes, NEW s \in Slices, NEW m \in Mints, ReserveIntent(p, s, m) PROVE [Ledger!Next]_(Ledger!ledger)
    BY <2>15 DEF ReserveIntent, Ledger!ledger
  <2>16. ASSUME NEW p \in Processes, ClearToSend(p) PROVE [Ledger!Next]_(Ledger!ledger)
    BY <2>16 DEF ClearToSend, Ledger!ledger
  <2>17. ASSUME NEW p \in Processes, RefuseReserved(p) PROVE [Ledger!Next]_(Ledger!ledger)
    BY <2>17 DEF RefuseReserved, SettleFailed, Ledger!ledger
  <2>18. ASSUME NEW p \in Processes, SendOrder(p) PROVE [Ledger!Next]_(Ledger!ledger)
    <3> DEFINE c == cid[p]
    <3>1. /\ c \in ClientIds
          /\ order' = [order EXCEPT ![c] = "wire"]
          /\ UNCHANGED <<status, released>>
      BY <2>18 DEF SendOrder
    <3>2. intent[c] # "none"
      BY <2>18 DEF SendOrder, SliceInv, AdvanceInv
    <3>3. CASE order[c] # "absent"
      BY <3>1, <3>3 DEF Ledger!ledger
    <3>4. CASE order[c] = "absent"
      <4>1. PICK j \in Jobs, s \in Slices, m \in Mints : c = <<j, s, m>>
        BY <3>1 DEF ClientIds
      <4>2. s <= released[j]
        BY <3>1, <3>2, <4>1 DEF SliceInv, IntentsInv
      <4>3. ASSUME NEW other \in Mints, order[<<j, s, other>>] # "absent"
            PROVE  FALSE
        <5> DEFINE d == <<j, s, other>>
        <5>1. d \in ClientIds /\ SameSlice(c, d)
          BY <4>1, IdParts DEF SameSlice
        <5>2. intent[d] # "none"
          BY <5>1, <4>3 DEF SliceInv, IntentsInv
        <5>3. c = d
          BY <5>1, <5>2, <3>1, <3>2 DEF SliceInv, IntentsInv
        <5>4. QED
          BY <5>3, <4>3, <3>4
      <4>4. {b \in ClientIds : order'[b] # "absent"}
              = {b \in ClientIds : order[b] # "absent"} \union {c}
        BY <3>1
      <4>5. Ledger!Send(j, s, m)
        BY <3>1, <4>1, <4>2, <4>3, <4>4 DEF Ledger!Send
      <4>6. QED
        BY <4>1, <4>5 DEF Ledger!Next, Slices
    <3>5. QED
      BY <3>3, <3>4
  <2>19. ASSUME NEW p \in Processes, OrderAnswered(p) PROVE [Ledger!Next]_(Ledger!ledger)
    BY <2>19 DEF OrderAnswered, Ledger!ledger
  <2>20. ASSUME NEW p \in Processes, OrderRefused(p) PROVE [Ledger!Next]_(Ledger!ledger)
    BY <2>20 DEF OrderRefused, SettleFailed, Ledger!ledger
  <2>21. ASSUME NEW p \in Processes, AnswerLost(p) PROVE [Ledger!Next]_(Ledger!ledger)
    BY <2>21 DEF AnswerLost, SettleFailed, Ledger!ledger
  <2>22. ASSUME NEW p \in Processes, Crash(p) PROVE [Ledger!Next]_(Ledger!ledger)
    BY <2>22 DEF Crash, Ledger!ledger
  <2>23. ASSUME NEW q \in Servers, NEW j \in Jobs, algo_start(q, j) PROVE [Ledger!Next]_(Ledger!ledger)
    BY <2>23, SameJobsAreOpen DEF algo_start, IsTerminal, TerminalStatuses
  <2>24. ASSUME NEW q \in Servers, NEW j \in Jobs, algo_cancel_job(q, j) PROVE [Ledger!Next]_(Ledger!ledger)
    <3>1. UpdateIsLegal(status[j], "cancelled")
      BY <2>24
      DEF algo_cancel_job, JobStatus, IsTerminal, TerminalStatuses, UpdateIsLegal, Transitions
    <3>2. QED
      BY <2>24, <3>1, LegalUpdateIsLedgerStep DEF algo_cancel_job, JobStatus
  <2>25. ASSUME NEW q \in Servers, risk_kill_switch_engage(q) PROVE [Ledger!Next]_(Ledger!ledger)
    BY <2>25 DEF risk_kill_switch_engage, Ledger!ledger
  <2>26. ASSUME NEW q \in Servers, risk_kill_switch_release(q) PROVE [Ledger!Next]_(Ledger!ledger)
    BY <2>26 DEF risk_kill_switch_release, Ledger!ledger
  <2>27. ASSUME NEW c \in ClientIds, Judge(c) PROVE [Ledger!Next]_(Ledger!ledger)
    BY <2>27 DEF Judge, Ledger!ledger
  <2>28. ASSUME NEW c \in ClientIds, Close(c) PROVE [Ledger!Next]_(Ledger!ledger)
    BY <2>28 DEF Close, Ledger!ledger
  <2>29. ASSUME NEW j \in Jobs, BecomeDue(j) PROVE [Ledger!Next]_(Ledger!ledger)
    BY <2>29 DEF BecomeDue, Ledger!ledger
  <2>30. ASSUME NEW q \in Processes, NEW j \in Jobs, PauseJob(q, j) PROVE [Ledger!Next]_(Ledger!ledger)
    BY <2>30, SameJobsAreOpen DEF PauseJob, UpdateIsLegal, Transitions, JobStatus, IsTerminal, TerminalStatuses
  <2>31. ASSUME NEW q \in Processes, NEW j \in Jobs, ResumeJob(q, j) PROVE [Ledger!Next]_(Ledger!ledger)
    BY <2>31, SameJobsAreOpen DEF ResumeJob, IsTerminal, TerminalStatuses
  <2>32. ASSUME NEW q \in Processes, EngageReturns(q) PROVE [Ledger!Next]_(Ledger!ledger)
    BY <2>32 DEF EngageReturns, Ledger!ledger
  <2>33. ASSUME NEW q \in Processes, ReleaseReturns(q) PROVE [Ledger!Next]_(Ledger!ledger)
    BY <2>33 DEF ReleaseReturns, Ledger!ledger
  <2>34. ASSUME NEW q \in Servers, ClearToolOrder(q) PROVE [Ledger!Next]_(Ledger!ledger)
    BY <2>34 DEF ClearToolOrder, Ledger!ledger
  <2>35. ASSUME NEW q \in Servers, SendToolOrder(q) PROVE [Ledger!Next]_(Ledger!ledger)
    BY <2>35 DEF SendToolOrder, CountSent, Ledger!ledger
  <2>36. ASSUME NEW q \in Servers, ToolOrderFails(q) PROVE [Ledger!Next]_(Ledger!ledger)
    BY <2>36 DEF ToolOrderFails, Ledger!ledger
  <2>37. CASE UNCHANGED vars
    BY <2>37 DEF vars, Ledger!ledger
  <2>38. QED
    BY <2>1, <2>2, <2>3, <2>4, <2>5, <2>6, <2>7, <2>8, <2>9, <2>10, <2>11, <2>12, <2>13, <2>14, <2>15, <2>16, <2>17, <2>18, <2>19, <2>20, <2>21, <2>22, <2>23, <2>24, <2>25, <2>26, <2>27, <2>28, <2>29, <2>30, <2>31, <2>32, <2>33, <2>34, <2>35, <2>36, <2>37
    DEF Next, Supervise, Handle, Reconcile, Advance, Act, Tools, ToolOrder, World
<1>3. QED
  BY <1>1, <1>2, TypeInvariant, SliceInvariant, PTL DEF Spec, RefinesSliceLedger, Ledger!Spec

\* Requests are answered in time, and one does not outlive its sender.
RequestsAreAnswered == Faults \subseteq {"inconclusive"}

\* What the database and a process know of an order: one on its way or accepted has a
\* live intent, one being prepared has not been sent, and what a reconcile found absent
\* stays absent.
KnowledgeInv ==
  /\ \A c \in ClientIds :
       order[c] \in {"wire"} \union Accepted => intent[c] \in {"pending", "submitted"}
  /\ \A p \in Processes :
       /\ pc[p] \in Submitting => intent[cid[p]] = "pending"
       /\ pc[p] \in {"reserved", "cleared"} => order[cid[p]] = "absent"
       /\ answer[p][1] # NoIntent /\ answer[p][2] = "not_found" =>
            order[answer[p][1]] \in {"absent", "refused"}

\* While requests are answered, a restart never gives up an order that is live: what the
\* database calls failed or abandoned is not at Robinhood.
THEOREM NoOrderIsOrphaned ==
  ASSUME OneProcess, RequestsAreAnswered PROVE Spec => []NoOrphanOrder
<1>1. Init => KnowledgeInv
  BY SMTT(30) DEF Init, KnowledgeInv, Submitting, Accepted
<1>2. TypeInv /\ SliceInv /\ KnowledgeInv /\ [Next]_vars => KnowledgeInv'
  <2> SUFFICES ASSUME TypeInv, SliceInv, KnowledgeInv, [Next]_vars PROVE KnowledgeInv'
    OBVIOUS
  <2> USE OneProcess, RequestsAreAnswered
      DEF OneProcess, RequestsAreAnswered, TypeInv, TypeOK, AtWork, Submitting, Advancing,
          KnowledgeInv, SliceInv, IntentsInv, RecoverInv, Accepted, Down, Goto, database, memory, handlers, history
  <2>1. ASSUME NEW p \in Processes, Start(p) PROVE KnowledgeInv'
    BY <2>1 DEF Start
  <2>2. ASSUME NEW p \in Processes, NEW c \in ClientIds, Lookup(p, c) PROVE KnowledgeInv'
    <3>1. PICK v \in LookupVerdicts(c) : answer' = [answer EXCEPT ![p] = <<c, v>>]
      BY <2>2 DEF Lookup
    <3>2. order[c] # "wire"
      BY <2>2 DEF Lookup
    <3>3. v = "not_found" => order[c] \in {"absent", "refused"}
      BY <3>1, <3>2 DEF LookupVerdicts, OrderStatus
    <3>4. UNCHANGED <<pc, intent, order, cid>>
      BY <2>2 DEF Lookup
    <3>5. QED
      BY <3>1, <3>3, <3>4
  <2>3. ASSUME NEW p \in Processes, ApplyLookup(p) PROVE KnowledgeInv'
    <3> DEFINE c == answer[p][1]
    <3>1. /\ c \in ClientIds /\ c # NoIntent
          /\ answer[p][2] \in Verdicts
          /\ pc[p] = "recovering"
      BY <2>3 DEF ApplyLookup
    <3>2. \A b \in ClientIds : b # c => intent'[b] = intent[b]
      BY <2>3, <3>1 DEF ApplyLookup
    <3>3. order[c] \in {"wire"} \union Accepted => intent'[c] \in {"pending", "submitted"}
      BY <2>3, <3>1, SMTT(30) DEF ApplyLookup, ReconciledStatus, Verdicts
    <3>4. /\ UNCHANGED <<pc, order, cid>>
          /\ answer'[p][1] = NoIntent
      BY <2>3 DEF ApplyLookup
    <3>5. \A q \in Processes : q = p
      OBVIOUS
    <3>6. \A b \in ClientIds :
            order[b] \in {"wire"} \union Accepted => intent'[b] \in {"pending", "submitted"}
      BY <3>1, <3>2, <3>3
    <3>7. pc[p] \notin Submitting
      BY <3>1
    <3> HIDE DEF TypeInv, TypeOK, AtWork, SliceInv, IntentsInv, RecoverInv
    <3>8. QED
      BY <3>1, <3>4, <3>5, <3>6, <3>7
  <2>4. ASSUME NEW p \in Processes, Recovered(p) PROVE KnowledgeInv'
    BY <2>4 DEF Recovered, AfterStart
  <2>5. ASSUME NEW p \in Processes, Tick(p) PROVE KnowledgeInv'
    BY <2>5 DEF Tick
  <2>6. ASSUME NEW p \in Processes, NEW j \in Jobs, CallStrategy(p, j) PROVE KnowledgeInv'
    BY <2>6 DEF CallStrategy
  <2>7. ASSUME NEW p \in Processes, EndTick(p) PROVE KnowledgeInv'
    BY <2>7 DEF EndTick
  <2>8. ASSUME NEW p \in Processes, StrategyReturns(p) PROVE KnowledgeInv'
    BY <2>8 DEF StrategyReturns, Persist
  <2>9. ASSUME NEW p \in Processes, StrategyThrows(p) PROVE KnowledgeInv'
    BY <2>9 DEF StrategyThrows, BackToBatch
  <2>10. ASSUME NEW p \in Processes, EndAdvance(p) PROVE KnowledgeInv'
    BY <2>10 DEF EndAdvance, BackToBatch
  <2>11. ASSUME NEW p \in Processes, UpdateThrows(p) PROVE KnowledgeInv'
    BY <2>11 DEF UpdateThrows, Vanish
  <2>12. ASSUME NEW p \in Processes, NEW c \in ClientIds, CancelOrder(p, c) PROVE KnowledgeInv'
    BY <2>12 DEF CancelOrder
  <2>13. ASSUME NEW p \in Processes, NEW c \in ClientIds, CancelFails(p, c) PROVE KnowledgeInv'
    BY <2>13 DEF CancelFails
  <2>14. ASSUME NEW p \in Processes, NEW s \in Slices, RefuseOrder(p, s) PROVE KnowledgeInv'
    BY <2>14 DEF RefuseOrder, Pricing
  <2>15. ASSUME NEW p \in Processes, NEW s \in Slices, NEW m \in Mints, ReserveIntent(p, s, m) PROVE KnowledgeInv'
    <3> DEFINE c == <<cur[p], s, m>>
    <3>1. /\ c \in ClientIds
          /\ intent[c] = "none"
          /\ order[c] = "absent"
      BY <2>15, IdParts DEF ReserveIntent, Pricing
    <3>2. /\ intent'[c] = "pending"
          /\ \A b \in ClientIds : b # c => intent'[b] = intent[b]
          /\ cid'[p] = c
          /\ UNCHANGED <<order, answer>>
      BY <2>15, <3>1 DEF ReserveIntent
    <3>3. pc'[p] = "reserved"
      BY <2>15 DEF ReserveIntent
    <3>4. \A b \in ClientIds :
            order[b] \in {"wire"} \union Accepted => intent'[b] \in {"pending", "submitted"}
      BY <3>1, <3>2
    <3>5. \A q \in Processes : q = p
      OBVIOUS
    <3> HIDE DEF TypeInv, TypeOK, AtWork, SliceInv, IntentsInv, RecoverInv
    <3>6. QED
      BY <3>1, <3>2, <3>3, <3>4, <3>5
  <2>16. ASSUME NEW p \in Processes, ClearToSend(p) PROVE KnowledgeInv'
    BY <2>16 DEF ClearToSend
  <2>17. ASSUME NEW p \in Processes, RefuseReserved(p) PROVE KnowledgeInv'
    BY <2>17 DEF RefuseReserved, SettleFailed, SettleIntent
  <2>18. ASSUME NEW p \in Processes, SendOrder(p) PROVE KnowledgeInv'
    BY <2>18 DEF SendOrder
  <2>19. ASSUME NEW p \in Processes, OrderAnswered(p) PROVE KnowledgeInv'
    BY <2>19 DEF OrderAnswered, SettleIntent
  <2>20. ASSUME NEW p \in Processes, OrderRefused(p) PROVE KnowledgeInv'
    BY <2>20 DEF OrderRefused, SettleFailed, SettleIntent
  <2>21. ASSUME NEW p \in Processes, AnswerLost(p) PROVE KnowledgeInv'
    BY <2>21 DEF AnswerLost, SettleFailed, SettleIntent
  <2>22. ASSUME NEW p \in Processes, Crash(p) PROVE KnowledgeInv'
    BY <2>22 DEF Crash, Vanish
  <2>23. ASSUME NEW q \in Servers, NEW j \in Jobs, algo_start(q, j) PROVE KnowledgeInv'
    BY <2>23 DEF algo_start
  <2>24. ASSUME NEW q \in Servers, NEW j \in Jobs, algo_cancel_job(q, j) PROVE KnowledgeInv'
    BY <2>24 DEF algo_cancel_job
  <2>25. ASSUME NEW q \in Servers, risk_kill_switch_engage(q) PROVE KnowledgeInv'
    BY <2>25 DEF risk_kill_switch_engage
  <2>26. ASSUME NEW q \in Servers, risk_kill_switch_release(q) PROVE KnowledgeInv'
    BY <2>26 DEF risk_kill_switch_release
  <2>27. ASSUME NEW c \in ClientIds, Judge(c) PROVE KnowledgeInv'
    BY <2>27 DEF Judge
  <2>28. ASSUME NEW c \in ClientIds, Close(c) PROVE KnowledgeInv'
    BY <2>28 DEF Close
  <2>29. ASSUME NEW j \in Jobs, BecomeDue(j) PROVE KnowledgeInv'
    BY <2>29 DEF BecomeDue
  <2>30. ASSUME NEW q \in Processes, NEW j \in Jobs, PauseJob(q, j) PROVE KnowledgeInv'
    BY <2>30 DEF PauseJob
  <2>31. ASSUME NEW q \in Processes, NEW j \in Jobs, ResumeJob(q, j) PROVE KnowledgeInv'
    BY <2>31 DEF ResumeJob
  <2>32. ASSUME NEW q \in Processes, EngageReturns(q) PROVE KnowledgeInv'
    BY <2>32 DEF EngageReturns
  <2>33. ASSUME NEW q \in Processes, ReleaseReturns(q) PROVE KnowledgeInv'
    BY <2>33 DEF ReleaseReturns
  <2>34. ASSUME NEW q \in Servers, ClearToolOrder(q) PROVE KnowledgeInv'
    BY <2>34 DEF ClearToolOrder
  <2>35. ASSUME NEW q \in Servers, SendToolOrder(q) PROVE KnowledgeInv'
    BY <2>35 DEF SendToolOrder, CountSent
  <2>36. ASSUME NEW q \in Servers, ToolOrderFails(q) PROVE KnowledgeInv'
    BY <2>36 DEF ToolOrderFails
  <2>37. CASE UNCHANGED vars
    BY <2>37 DEF vars
  <2>38. QED
    BY <2>1, <2>2, <2>3, <2>4, <2>5, <2>6, <2>7, <2>8, <2>9, <2>10, <2>11, <2>12, <2>13, <2>14, <2>15, <2>16, <2>17, <2>18, <2>19, <2>20, <2>21, <2>22, <2>23, <2>24, <2>25, <2>26, <2>27, <2>28, <2>29, <2>30, <2>31, <2>32, <2>33, <2>34, <2>35, <2>36, <2>37
    DEF Next, Supervise, Handle, Reconcile, Advance, Act, Tools, ToolOrder, World
<1>3. KnowledgeInv => NoOrphanOrder
  BY DEF KnowledgeInv, NoOrphanOrder
<1>4. QED
  BY <1>1, <1>2, <1>3, TypeInvariant, SliceInvariant, PTL DEF Spec

\* With one process, a job that is paused is one the switch names, or one the engage in
\* progress has paused; the row names none until that engage writes it again, and during a
\* release only a job still to be resumed is paused.
HaltJobsInv ==
  /\ \A q \in Processes :
       /\ call[q] # NoCall => engaged
       /\ call[q].tool = "none" => call[q] = NoCall
       /\ call[q].tool = "engage" => pausedJobIds = {}
       /\ call[q].tool = "release" =>
            \A j \in pausedJobIds : status[j] = "paused" => j \in call[q].left
  /\ crashes = 0 => \A j \in Jobs : status[j] = "paused" =>
       \/ engaged /\ j \in pausedJobIds
       \/ \E q \in Processes : call[q].tool = "engage" /\ j \in call[q].paused

\* Without a crash every job the switch pauses is one the release will resume: the two
\* writes of the engage name every job it paused, however many there are and whatever the
\* supervisor of the process was doing.
THEOREM PausesAreRemembered ==
  ASSUME OneProcess PROVE Spec => []PausedJobsAreRemembered
<1>1. Init => HaltJobsInv
  <2> SUFFICES ASSUME Init PROVE HaltJobsInv
    OBVIOUS
  <2>1. \A q \in Processes : call[q] = NoCall
    BY DEF Init
  <2>2. \A j \in Jobs : status[j] # "paused"
    BY DEF Init
  <2>3. QED
    BY <2>1, <2>2 DEF HaltJobsInv, NoCall
<1>2. TypeInv /\ HaltJobsInv /\ [Next]_vars => HaltJobsInv'
  <2> SUFFICES ASSUME TypeInv, HaltJobsInv, [Next]_vars PROVE HaltJobsInv'
    OBVIOUS
  <2> USE OneProcess DEF OneProcess, TypeInv, TypeOK, AtWork, HaltJobsInv, NoCall, database, memory, handlers, history
  <2>1. ASSUME NEW p \in Processes, Start(p) PROVE HaltJobsInv'
    BY <2>1 DEF Start
  <2>2. ASSUME NEW p \in Processes, NEW c \in ClientIds, Lookup(p, c) PROVE HaltJobsInv'
    BY <2>2 DEF Lookup
  <2>3. ASSUME NEW p \in Processes, ApplyLookup(p) PROVE HaltJobsInv'
    BY <2>3 DEF ApplyLookup
  <2>4. ASSUME NEW p \in Processes, Recovered(p) PROVE HaltJobsInv'
    BY <2>4 DEF Recovered, AfterStart
  <2>5. ASSUME NEW p \in Processes, Tick(p) PROVE HaltJobsInv'
    BY <2>5 DEF Tick
  <2>6. ASSUME NEW p \in Processes, NEW j \in Jobs, CallStrategy(p, j) PROVE HaltJobsInv'
    BY <2>6 DEF CallStrategy
  <2>7. ASSUME NEW p \in Processes, EndTick(p) PROVE HaltJobsInv'
    BY <2>7 DEF EndTick
  <2>8. ASSUME NEW p \in Processes, StrategyReturns(p) PROVE HaltJobsInv'
    BY <2>8 DEF StrategyReturns, Persist
  <2>9. ASSUME NEW p \in Processes, StrategyThrows(p) PROVE HaltJobsInv'
    BY <2>9 DEF StrategyThrows
  <2>10. ASSUME NEW p \in Processes, EndAdvance(p) PROVE HaltJobsInv'
    BY <2>10, ZenonT(40) DEF EndAdvance, BackToBatch
  <2>11. ASSUME NEW p \in Processes, call[p] = NoCall, UpdateThrows(p) PROVE HaltJobsInv'
    BY <2>11 DEF UpdateThrows, Vanish
  <2>12. ASSUME NEW p \in Processes, NEW c \in ClientIds, CancelOrder(p, c) PROVE HaltJobsInv'
    BY <2>12 DEF CancelOrder
  <2>13. ASSUME NEW p \in Processes, NEW c \in ClientIds, CancelFails(p, c) PROVE HaltJobsInv'
    BY <2>13 DEF CancelFails
  <2>14. ASSUME NEW p \in Processes, NEW s \in Slices, RefuseOrder(p, s) PROVE HaltJobsInv'
    BY <2>14 DEF RefuseOrder
  <2>15. ASSUME NEW p \in Processes, NEW s \in Slices, NEW m \in Mints, ReserveIntent(p, s, m) PROVE HaltJobsInv'
    BY <2>15 DEF ReserveIntent
  <2>16. ASSUME NEW p \in Processes, ClearToSend(p) PROVE HaltJobsInv'
    BY <2>16 DEF ClearToSend
  <2>17. ASSUME NEW p \in Processes, RefuseReserved(p) PROVE HaltJobsInv'
    BY <2>17 DEF RefuseReserved, SettleFailed
  <2>18. ASSUME NEW p \in Processes, SendOrder(p) PROVE HaltJobsInv'
    BY <2>18 DEF SendOrder
  <2>19. ASSUME NEW p \in Processes, OrderAnswered(p) PROVE HaltJobsInv'
    BY <2>19 DEF OrderAnswered
  <2>20. ASSUME NEW p \in Processes, OrderRefused(p) PROVE HaltJobsInv'
    BY <2>20 DEF OrderRefused, SettleFailed
  <2>21. ASSUME NEW p \in Processes, AnswerLost(p) PROVE HaltJobsInv'
    BY <2>21 DEF AnswerLost, SettleFailed
  <2>22. ASSUME NEW p \in Processes, Crash(p) PROVE HaltJobsInv'
    <3>1. crashes \in Nat /\ crashes' = crashes + 1
      BY <2>22, EngineAssumption DEF Crash, EngineAssumption
    <3>2. call'[p] = NoCall
      BY <2>22 DEF Crash, Vanish
    <3>3. QED
      BY <3>1, <3>2
  <2>23. ASSUME NEW q \in Servers, NEW j \in Jobs, algo_start(q, j) PROVE HaltJobsInv'
    BY <2>23 DEF algo_start
  <2>24. ASSUME NEW q \in Servers, NEW j \in Jobs, algo_cancel_job(q, j) PROVE HaltJobsInv'
    BY <2>24 DEF algo_cancel_job
  <2>25. ASSUME NEW q \in Servers, risk_kill_switch_engage(q) PROVE HaltJobsInv'
    BY <2>25 DEF risk_kill_switch_engage
  <2>26. ASSUME NEW q \in Servers, call[q] = NoCall, risk_kill_switch_release(q)
        PROVE HaltJobsInv'
    <3>1. /\ q \in Processes
          /\ engaged
          /\ call' = [call EXCEPT ![q] = [tool |-> "release", left |-> pausedJobIds, paused |-> {}]]
          /\ UNCHANGED <<status, pausedJobIds, engaged, crashes>>
      BY <2>26, EngineAssumption DEF risk_kill_switch_release, EngineAssumption
    <3>2. call'[q] = [tool |-> "release", left |-> pausedJobIds, paused |-> {}]
      BY <3>1
    <3>3. \A r \in Processes : r = q
      BY <3>1
    <3>4. crashes = 0 => \A j \in Jobs : status[j] = "paused" => j \in pausedJobIds
      BY <2>26, <3>3
    <3>5. QED
      BY <3>1, <3>2, <3>3, <3>4
  <2>27. ASSUME NEW c \in ClientIds, Judge(c) PROVE HaltJobsInv'
    BY <2>27 DEF Judge
  <2>28. ASSUME NEW c \in ClientIds, Close(c) PROVE HaltJobsInv'
    BY <2>28 DEF Close
  <2>29. ASSUME NEW j \in Jobs, BecomeDue(j) PROVE HaltJobsInv'
    BY <2>29 DEF BecomeDue
  <2>30. ASSUME NEW q \in Processes, NEW j \in Jobs, PauseJob(q, j) PROVE HaltJobsInv'
    BY <2>30 DEF PauseJob
  <2>31. ASSUME NEW q \in Processes, NEW j \in Jobs, ResumeJob(q, j) PROVE HaltJobsInv'
    BY <2>31 DEF ResumeJob
  <2>32. ASSUME NEW q \in Processes, EngageReturns(q) PROVE HaltJobsInv'
    BY <2>32, ZenonT(40) DEF EngageReturns, RecordedPauses
  <2>33. ASSUME NEW q \in Processes, ReleaseReturns(q) PROVE HaltJobsInv'
    BY <2>33 DEF ReleaseReturns
  <2>34. ASSUME NEW q \in Servers, ClearToolOrder(q) PROVE HaltJobsInv'
    BY <2>34 DEF ClearToolOrder
  <2>35. ASSUME NEW q \in Servers, SendToolOrder(q) PROVE HaltJobsInv'
    BY <2>35 DEF SendToolOrder, CountSent
  <2>36. ASSUME NEW q \in Servers, ToolOrderFails(q) PROVE HaltJobsInv'
    BY <2>36 DEF ToolOrderFails
  <2>37. CASE UNCHANGED vars
    BY <2>37 DEF vars
  <2>38. QED
    BY <2>1, <2>2, <2>3, <2>4, <2>5, <2>6, <2>7, <2>8, <2>9, <2>10, <2>11, <2>12, <2>13, <2>14, <2>15, <2>16, <2>17, <2>18, <2>19, <2>20, <2>21, <2>22, <2>23, <2>24, <2>25, <2>26, <2>27, <2>28, <2>29, <2>30, <2>31, <2>32, <2>33, <2>34, <2>35, <2>36, <2>37
    DEF Next, Supervise, Handle, Reconcile, Advance, Act, Tools, ToolOrder, World
<1>3. HaltJobsInv => PausedJobsAreRemembered
  BY DEF HaltJobsInv, PausedJobsAreRemembered
<1>4. QED
  BY <1>1, <1>2, <1>3, TypeInvariant, PTL DEF Spec
=============================================================================
