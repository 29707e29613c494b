-------------------------- MODULE LifecycleProofs ---------------------------
(***************************************************************************)
(* Proofs about the lifecycle of managed subjects, for every configuration *)
(* of the controller: a subject starts its code from erased and prepared   *)
(* memory and not before what it depends on has finished, whenever resets  *)
(* are requested.                                                          *)
(***************************************************************************)
EXTENDS Lifecycle, FiniteSetTheorems, TLAPS

Statuses == Reports \X {"ok", "unexpected", "error"}
Memories == {"dirty", "erased", "prepared"}

\* The identifiers are numbers from 1 on.
LEMMA IDFacts ==
  /\ 1 \in IDs /\ IDs \subseteq Nat /\ 0 \notin IDs
  /\ Time \in IDs /\ Time # Monitor /\ Time # Loader
  /\ Monitor \in IDs => Monitor # Loader
<1>1. Cardinality(IDs) \in Nat /\ IDs = 1 .. Cardinality(IDs)
  BY IDsAssumption, FS_CardinalityType
<1> DEFINE n == Cardinality(IDs)
<1> HIDE DEF n
<1>2. n \in Nat /\ IDs = 1 .. n
  BY <1>1 DEF n
<1>3. 1 \in IDs /\ IDs \subseteq Nat /\ 0 \notin IDs
  BY <1>2, RolesAssumption
<1> QED BY <1>3, RolesAssumption

\* Before the first step of the controller no subject has done anything.
LEMMA InitInv == Init => LifecycleInv
<1> SUFFICES ASSUME Init PROVE LifecycleInv
  OBVIOUS
<1> USE DEF Init
<1>1. TypeOK
  <2>1. States \in [IDs -> [state : FSM, epoch : 0 .. MaxRequests + 1, era : 0 .. MaxRequests]]
    BY ConfigAssumption DEF FSM
  <2>2. ctrl \in [at : {"requests", "clear", "read", "perform", "events"}, id : IDs, new : FSM,
                  events : {<<>>, <<"linux">>, <<"sm", "linux">>}]
    BY IDFacts DEF FSM
  <2>3. Status \in [IDs -> Reports \X {"ok", "unexpected", "error"}]
    BY DEF State, Reports
  <2>4. pc \in [IDs -> Labels] /\ Command \in [IDs -> Commands]
    BY DEF Labels, Commands
  <2>5. Epoch \in [IDs -> 0 .. MaxRequests + 1] /\ used \in [IDs -> 0 .. MaxRequests + 1]
    BY ConfigAssumption
  <2>6. Era \in 0 .. MaxRequests /\ requests \in 0 .. MaxRequests /\ failures \in 0 .. MaxFailures
    BY ConfigAssumption
  <2>7. Pending \in BOOLEAN
    OBVIOUS
  <2> QED BY <2>1, <2>2, <2>3, <2>4, <2>5, <2>6, <2>7 DEF TypeOK
<1>2. ErasCounted /\ EventsInOrder /\ CommandsShown
  BY ConfigAssumption DEF ErasCounted, EventsInOrder, CommandsShown, Shows, Get_Current_Era,
                          Decided, Managed
<1>3. InStep /\ DecisionsHold /\ ResetExpected
  BY IDFacts DEF InStep, Agrees, DecisionsHold, Decided, ResetExpected, ResetPending, Managed, State
<1>4. LoaderWhole /\ MemoryPrepared
  BY IDFacts DEF LoaderWhole, MemoryPrepared, Managed
<1>6. FinishedForGood
  <2>1. State("INITIAL") # State("FINISHED")
    BY DEF State
  <2> QED BY <2>1, IDFacts DEF FinishedForGood, Managed, Decided
<1>5. ErasedBeforeRun /\ DependenciesMet
  BY ConfigAssumption DEF ErasedBeforeRun, DependenciesMet, Started
<1> QED BY <1>1, <1>2, <1>3, <1>4, <1>5, <1>6 DEF LifecycleInv

-----------------------------------------------------------------------------
(* The steps of the subjects *)

\* A step of a subject leaves what the controller keeps.
LEMMA SubjectLeaves ==
  ASSUME LifecycleInv, UNCHANGED <<controller, Pending, requests>>
  PROVE  ErasCounted' /\ EventsInOrder' /\ CommandsShown'
  BY DEF LifecycleInv, controller, ErasCounted, EventsInOrder, CommandsShown,
         Get_Current_Era, Decided

\* What a step of subject i to a label, a status and a memory has to observe.
StepOK(i, label, s, m) ==
  /\ label \in Labels /\ s \in Statuses /\ m \in Memories
  /\ i = Loader => active = "sl"
  /\ i \in Managed =>
       /\ Agrees(i, label, s, States[i].state)
       /\ Decided(i) => Justified(i, ctrl.new, label, s, States[i].state)
       /\ label = "sync" => pc[i] = "start"
       /\ label # "start"
       /\ i \in Initial_Erase =>
            /\ label \in {"prepare", "preparing", "setup"} => m = "erased"
            /\ label \in {"validate", "validating", "check", "run", "initializing",
                          "running", "main"} => m = "prepared"
       /\ label \in Started => Dependencies(i)
  /\ i = Time => label \in {"start", "publish", "halt"}
  /\ Status[i] # State("FINISHED")
  /\ s = State("FINISHED") => i = Time /\ label = "halt"

\* A step of one subject that keeps what is said of it keeps the invariant.
LEMMA SubjectStep ==
  ASSUME LifecycleInv, NEW i \in IDs, NEW label, NEW s, NEW m, StepOK(i, label, s, m),
         pc' = [pc EXCEPT ![i] = label],
         Status' = [Status EXCEPT ![i] = s],
         memory' = [memory EXCEPT ![i] = m],
         used' \in [IDs -> 0 .. MaxRequests + 1],
         failures' \in 0 .. MaxFailures,
         UNCHANGED <<controller, Pending, group, requests, calm>>
  PROVE  LifecycleInv'
<1>1. TypeOK'
  BY DEF LifecycleInv, TypeOK, StepOK, Statuses, Memories, controller, group
<1>2. ErasCounted' /\ EventsInOrder' /\ CommandsShown'
  BY SubjectLeaves
<1>3. /\ \A j \in IDs : /\ pc'[j] = IF j = i THEN label ELSE pc[j]
                        /\ Status'[j] = IF j = i THEN s ELSE Status[j]
                        /\ memory'[j] = IF j = i THEN m ELSE memory[j]
      /\ States' = States /\ ctrl' = ctrl /\ Command' = Command
      /\ active' = active /\ resets' = resets
  BY DEF LifecycleInv, TypeOK, controller, group
<1>4. InStep'
  BY <1>3 DEF LifecycleInv, InStep, StepOK, Managed
<1>5. DecisionsHold'
  BY <1>3 DEF LifecycleInv, DecisionsHold, StepOK, Managed, Decided
<1>6. ResetExpected'
  BY <1>3 DEF LifecycleInv, ResetExpected, ResetPending, StepOK, Managed
<1>7. LoaderWhole'
  BY <1>3 DEF LifecycleInv, LoaderWhole, StepOK
<1>8. MemoryPrepared'
  BY <1>3 DEF LifecycleInv, MemoryPrepared, StepOK, Managed
<1>9. ErasedBeforeRun'
  BY <1>3, ConfigAssumption, IDFacts DEF LifecycleInv, ErasedBeforeRun, StepOK, Managed
<1>10. FinishedForGood'
  BY <1>3, IDFacts, ConfigAssumption
     DEF LifecycleInv, FinishedForGood, Dependencies, StepOK, Managed, Decided
<1>11. DependenciesMet'
  BY <1>3, ConfigAssumption DEF LifecycleInv, DependenciesMet, Dependencies, Started, StepOK, Managed
<1> QED BY <1>1, <1>2, <1>4, <1>5, <1>6, <1>7, <1>8, <1>9, <1>10, <1>11 DEF LifecycleInv

\* Status.Initialize reports the initial state.
LEMMA Status_InitializeInv ==
  ASSUME LifecycleInv, NEW i \in IDs, Status_Initialize(i)
  PROVE  LifecycleInv'
<1> DEFINE label == IF i = Time THEN "publish" ELSE "sync"
<1> USE DEF Status_Initialize
<1>1. label \in Labels /\ State("INITIAL") \in Statuses /\ memory[i] \in Memories
  BY DEF LifecycleInv, TypeOK, Labels, Statuses, State, Reports, Memories
<1>2. i = Loader => active = "sl"
  BY DEF Runs
<1>3. ASSUME i \in Managed
      PROVE  /\ Agrees(i, "sync", State("INITIAL"), States[i].state)
             /\ Decided(i) => Justified(i, ctrl.new, "sync", State("INITIAL"), States[i].state)
  BY <1>3 DEF LifecycleInv, InStep, DecisionsHold, Agrees, Justified
<1>4. Status[i] # State("FINISHED") /\ State("INITIAL") # State("FINISHED")
  BY DEF LifecycleInv, FinishedForGood, State
<1>5. StepOK(i, label, State("INITIAL"), memory[i])
  BY <1>1, <1>2, <1>3, <1>4 DEF StepOK, Managed, Started
<1>6. memory' = [memory EXCEPT ![i] = memory[i]]
  BY DEF LifecycleInv, TypeOK
<1>7. /\ pc' = [pc EXCEPT ![i] = label] /\ Status' = [Status EXCEPT ![i] = State("INITIAL")]
      /\ used' \in [IDs -> 0 .. MaxRequests + 1] /\ failures' \in 0 .. MaxFailures
      /\ UNCHANGED <<controller, Pending, group, requests, calm>>
  BY DEF LifecycleInv, TypeOK, Goto, Report, env
<1> HIDE DEF label
<1> QED BY <1>5, <1>6, <1>7, SubjectStep

\* The memory is erased ...
LEMMA Clear_WritableInv ==
  ASSUME LifecycleInv, NEW i \in IDs, Clear_Writable(i)
  PROVE  LifecycleInv'
<1> USE DEF Clear_Writable
<1>1. "prepare" \in Labels /\ State("ERASED") \in Statuses /\ "erased" \in Memories
  BY DEF LifecycleInv, TypeOK, Labels, Statuses, State, Error, Reports, Memories
<1>2. i = Loader => active = "sl"
  BY DEF Runs
<1>3. i \in IDs \ {Time} /\ Status[i] # State("FINISHED") /\ State("ERASED") # State("FINISHED")
  BY DEF LifecycleInv, FinishedForGood, State, Error
<1>4. ASSUME i \in Managed
      PROVE  /\ Agrees(i, "prepare", State("ERASED"), States[i].state)
             /\ Decided(i) => Justified(i, ctrl.new, "prepare", State("ERASED"), States[i].state)
  BY <1>4 DEF LifecycleInv, InStep, DecisionsHold, Agrees, Justified, State, Error, Has_Error, Late
<1>5. ASSUME i \in Managed, "prepare" \in Started
      PROVE  Dependencies(i)
  BY <1>5 DEF LifecycleInv, DependenciesMet, Dependencies, Started, Managed
<1>6. ASSUME i \in Managed, i \in Initial_Erase
      PROVE  /\ "prepare" \in {"prepare", "preparing", "setup"} => "erased" = "erased"
             /\ "prepare" \in {"validate", "validating", "check", "run", "initializing",
                             "running", "main"} => "erased" = "prepared"
  BY <1>6 DEF LifecycleInv, MemoryPrepared, ErasedBeforeRun, Managed
<1>7. StepOK(i, "prepare", State("ERASED"), "erased")
  BY <1>1, <1>2, <1>3, <1>4, <1>5, <1>6 DEF StepOK, Managed
<1>8. /\ pc' = [pc EXCEPT ![i] = "prepare"]
      /\ Status' = [Status EXCEPT ![i] = State("ERASED")]
      /\ memory' = [memory EXCEPT ![i] = "erased"]
      /\ used' \in [IDs -> 0 .. MaxRequests + 1] /\ failures' \in 0 .. MaxFailures
      /\ UNCHANGED <<controller, Pending, group, requests, calm>>
  BY DEF LifecycleInv, TypeOK, Goto, Report, env
<1> QED BY <1>7, <1>8, SubjectStep

\* ... given its initial content ...
LEMMA Setup_WritableInv ==
  ASSUME LifecycleInv, NEW i \in IDs, Setup_Writable(i)
  PROVE  LifecycleInv'
<1> USE DEF Setup_Writable
<1>1. "validate" \in Labels /\ State("PREPARED") \in Statuses /\ (IF memory[i] = "erased" THEN "prepared" ELSE memory[i]) \in Memories
  BY DEF LifecycleInv, TypeOK, Labels, Statuses, State, Error, Reports, Memories
<1>2. i = Loader => active = "sl"
  BY DEF Runs
<1>3. i \in IDs \ {Time} /\ Status[i] # State("FINISHED") /\ State("PREPARED") # State("FINISHED")
  BY DEF LifecycleInv, FinishedForGood, State, Error
<1>4. ASSUME i \in Managed
      PROVE  /\ Agrees(i, "validate", State("PREPARED"), States[i].state)
             /\ Decided(i) => Justified(i, ctrl.new, "validate", State("PREPARED"), States[i].state)
  BY <1>4 DEF LifecycleInv, InStep, DecisionsHold, Agrees, Justified, State, Error, Has_Error, Late
<1>5. ASSUME i \in Managed, "validate" \in Started
      PROVE  Dependencies(i)
  BY <1>5 DEF LifecycleInv, DependenciesMet, Dependencies, Started, Managed
<1>6. ASSUME i \in Managed, i \in Initial_Erase
      PROVE  /\ "validate" \in {"prepare", "preparing", "setup"} => (IF memory[i] = "erased" THEN "prepared" ELSE memory[i]) = "erased"
             /\ "validate" \in {"validate", "validating", "check", "run", "initializing",
                             "running", "main"} => (IF memory[i] = "erased" THEN "prepared" ELSE memory[i]) = "prepared"
  BY <1>6 DEF LifecycleInv, MemoryPrepared, ErasedBeforeRun, Managed
<1>7. StepOK(i, "validate", State("PREPARED"), (IF memory[i] = "erased" THEN "prepared" ELSE memory[i]))
  BY <1>1, <1>2, <1>3, <1>4, <1>5, <1>6 DEF StepOK, Managed
<1>8. /\ pc' = [pc EXCEPT ![i] = "validate"]
      /\ Status' = [Status EXCEPT ![i] = State("PREPARED")]
      /\ memory' = [memory EXCEPT ![i] = (IF memory[i] = "erased" THEN "prepared" ELSE memory[i])]
      /\ used' \in [IDs -> 0 .. MaxRequests + 1] /\ failures' \in 0 .. MaxFailures
      /\ UNCHANGED <<controller, Pending, group, requests, calm>>
  BY DEF LifecycleInv, TypeOK, Goto, Report, env
<1> QED BY <1>7, <1>8, SubjectStep

\* ... and validated,
LEMMA Check_HashesInv ==
  ASSUME LifecycleInv, NEW i \in IDs, Check_Hashes(i)
  PROVE  LifecycleInv'
<1> USE DEF Check_Hashes
<1>1. "run" \in Labels /\ State("VALIDATED") \in Statuses /\ memory[i] \in Memories
  BY DEF LifecycleInv, TypeOK, Labels, Statuses, State, Error, Reports, Memories
<1>2. i = Loader => active = "sl"
  BY DEF Runs
<1>3. i \in IDs \ {Time} /\ Status[i] # State("FINISHED") /\ State("VALIDATED") # State("FINISHED")
  BY DEF LifecycleInv, FinishedForGood, State, Error
<1>4. ASSUME i \in Managed
      PROVE  /\ Agrees(i, "run", State("VALIDATED"), States[i].state)
             /\ Decided(i) => Justified(i, ctrl.new, "run", State("VALIDATED"), States[i].state)
  BY <1>4 DEF LifecycleInv, InStep, DecisionsHold, Agrees, Justified, State, Error, Has_Error, Late
<1>5. ASSUME i \in Managed, "run" \in Started
      PROVE  Dependencies(i)
  BY <1>5 DEF LifecycleInv, DependenciesMet, Dependencies, Started, Managed
<1>6. ASSUME i \in Managed, i \in Initial_Erase
      PROVE  /\ "run" \in {"prepare", "preparing", "setup"} => memory[i] = "erased"
             /\ "run" \in {"validate", "validating", "check", "run", "initializing",
                             "running", "main"} => memory[i] = "prepared"
  BY <1>6 DEF LifecycleInv, MemoryPrepared, ErasedBeforeRun, Managed
<1>7. StepOK(i, "run", State("VALIDATED"), memory[i])
  BY <1>1, <1>2, <1>3, <1>4, <1>5, <1>6 DEF StepOK, Managed
<1>8. /\ pc' = [pc EXCEPT ![i] = "run"]
      /\ Status' = [Status EXCEPT ![i] = State("VALIDATED")]
      /\ memory' = [memory EXCEPT ![i] = memory[i]]
      /\ used' \in [IDs -> 0 .. MaxRequests + 1] /\ failures' \in 0 .. MaxFailures
      /\ UNCHANGED <<controller, Pending, group, requests, calm>>
  BY DEF LifecycleInv, TypeOK, Goto, Report, env
<1> QED BY <1>7, <1>8, SubjectStep

\* or one of the two fails.
LEMMA Memory_ErrorInv ==
  ASSUME LifecycleInv, NEW i \in IDs, Memory_Error(i)
  PROVE  LifecycleInv'
<1> USE DEF Memory_Error
<1>1. "failed" \in Labels /\ Error(Status[i], "error") \in Statuses /\ memory[i] \in Memories
  BY DEF LifecycleInv, TypeOK, Labels, Statuses, State, Error, Reports, Memories
<1>2. i = Loader => active = "sl"
  BY DEF Runs
<1>3. i \in IDs \ {Time} /\ Status[i] # State("FINISHED") /\ Error(Status[i], "error") # State("FINISHED")
  BY DEF LifecycleInv, FinishedForGood, State, Error
<1>4. ASSUME i \in Managed
      PROVE  /\ Agrees(i, "failed", Error(Status[i], "error"), States[i].state)
             /\ Decided(i) => Justified(i, ctrl.new, "failed", Error(Status[i], "error"), States[i].state)
  BY <1>4 DEF LifecycleInv, InStep, DecisionsHold, Agrees, Justified, State, Error, Has_Error, Late
<1>5. ASSUME i \in Managed, "failed" \in Started
      PROVE  Dependencies(i)
  BY <1>5 DEF LifecycleInv, DependenciesMet, Dependencies, Started, Managed
<1>6. ASSUME i \in Managed, i \in Initial_Erase
      PROVE  /\ "failed" \in {"prepare", "preparing", "setup"} => memory[i] = "erased"
             /\ "failed" \in {"validate", "validating", "check", "run", "initializing",
                             "running", "main"} => memory[i] = "prepared"
  BY <1>6 DEF LifecycleInv, MemoryPrepared, ErasedBeforeRun, Managed
<1>7. StepOK(i, "failed", Error(Status[i], "error"), memory[i])
  BY <1>1, <1>2, <1>3, <1>4, <1>5, <1>6 DEF StepOK, Managed
<1>8. failures' \in 0 .. MaxFailures
  BY ConfigAssumption DEF LifecycleInv, TypeOK
<1>9. /\ pc' = [pc EXCEPT ![i] = "failed"]
      /\ Status' = [Status EXCEPT ![i] = Error(Status[i], "error")]
      /\ memory' = [memory EXCEPT ![i] = memory[i]]
      /\ used' \in [IDs -> 0 .. MaxRequests + 1]
      /\ UNCHANGED <<controller, Pending, group, requests, calm>>
  BY DEF LifecycleInv, TypeOK, Goto, Report
<1> QED BY <1>7, <1>8, <1>9, SubjectStep

\* The start code, or sl, reports that it runs, ...
LEMMA Set_RunningInv ==
  ASSUME LifecycleInv, NEW i \in IDs, Set_Running(i)
  PROVE  LifecycleInv'
<1> USE DEF Set_Running
<1>1. (IF i = Loader THEN "start_linux" ELSE "main") \in Labels /\ State("RUNNING") \in Statuses /\ memory[i] \in Memories
  BY DEF LifecycleInv, TypeOK, Labels, Statuses, State, Error, Reports, Memories
<1>2. i = Loader => active = "sl"
  BY DEF Runs
<1>3. i \in IDs \ {Time} /\ Status[i] # State("FINISHED") /\ State("RUNNING") # State("FINISHED")
  BY DEF LifecycleInv, FinishedForGood, State, Error
<1>4. ASSUME i \in Managed
      PROVE  /\ Agrees(i, (IF i = Loader THEN "start_linux" ELSE "main"), State("RUNNING"), States[i].state)
             /\ Decided(i) => Justified(i, ctrl.new, (IF i = Loader THEN "start_linux" ELSE "main"), State("RUNNING"), States[i].state)
  BY <1>4 DEF LifecycleInv, InStep, DecisionsHold, Agrees, Justified, State, Error, Has_Error, Late
<1>5. ASSUME i \in Managed, (IF i = Loader THEN "start_linux" ELSE "main") \in Started
      PROVE  Dependencies(i)
  BY <1>5 DEF LifecycleInv, DependenciesMet, Dependencies, Started, Managed
<1>6. ASSUME i \in Managed, i \in Initial_Erase
      PROVE  /\ (IF i = Loader THEN "start_linux" ELSE "main") \in {"prepare", "preparing", "setup"} => memory[i] = "erased"
             /\ (IF i = Loader THEN "start_linux" ELSE "main") \in {"validate", "validating", "check", "run", "initializing",
                             "running", "main"} => memory[i] = "prepared"
  BY <1>6 DEF LifecycleInv, MemoryPrepared, ErasedBeforeRun, Managed
<1>7. StepOK(i, (IF i = Loader THEN "start_linux" ELSE "main"), State("RUNNING"), memory[i])
  BY <1>1, <1>2, <1>3, <1>4, <1>5, <1>6 DEF StepOK, Managed
<1>8. /\ pc' = [pc EXCEPT ![i] = (IF i = Loader THEN "start_linux" ELSE "main")]
      /\ Status' = [Status EXCEPT ![i] = State("RUNNING")]
      /\ memory' = [memory EXCEPT ![i] = memory[i]]
      /\ used' \in [IDs -> 0 .. MaxRequests + 1] /\ failures' \in 0 .. MaxFailures
      /\ UNCHANGED <<controller, Pending, group, requests, calm>>
  BY DEF LifecycleInv, TypeOK, Goto, Report, env
<1> QED BY <1>7, <1>8, SubjectStep

\* ... or gives up.
LEMMA Init_FailedInv ==
  ASSUME LifecycleInv, NEW i \in IDs, Init_Failed(i)
  PROVE  LifecycleInv'
<1> USE DEF Init_Failed
<1>1. (IF i = Loader THEN "start_linux" ELSE "halt") \in Labels /\ Status[i] \in Statuses /\ memory[i] \in Memories
  BY DEF LifecycleInv, TypeOK, Labels, Statuses, State, Error, Reports, Memories
<1>2. i = Loader => active = "sl"
  BY DEF Runs
<1>3. i \in IDs \ {Time} /\ Status[i] # State("FINISHED") /\ Status[i] # State("FINISHED")
  BY DEF LifecycleInv, FinishedForGood, State, Error
<1>4. ASSUME i \in Managed
      PROVE  /\ Agrees(i, (IF i = Loader THEN "start_linux" ELSE "halt"), Status[i], States[i].state)
             /\ Decided(i) => Justified(i, ctrl.new, (IF i = Loader THEN "start_linux" ELSE "halt"), Status[i], States[i].state)
  BY <1>4 DEF LifecycleInv, InStep, DecisionsHold, Agrees, Justified, State, Error, Has_Error, Late
<1>5. ASSUME i \in Managed, (IF i = Loader THEN "start_linux" ELSE "halt") \in Started
      PROVE  Dependencies(i)
  BY <1>5 DEF LifecycleInv, DependenciesMet, Dependencies, Started, Managed
<1>6. ASSUME i \in Managed, i \in Initial_Erase
      PROVE  /\ (IF i = Loader THEN "start_linux" ELSE "halt") \in {"prepare", "preparing", "setup"} => memory[i] = "erased"
             /\ (IF i = Loader THEN "start_linux" ELSE "halt") \in {"validate", "validating", "check", "run", "initializing",
                             "running", "main"} => memory[i] = "prepared"
  BY <1>6 DEF LifecycleInv, MemoryPrepared, ErasedBeforeRun, Managed
<1>7. StepOK(i, (IF i = Loader THEN "start_linux" ELSE "halt"), Status[i], memory[i])
  BY <1>1, <1>2, <1>3, <1>4, <1>5, <1>6 DEF StepOK, Managed
<1>8. /\ pc' = [pc EXCEPT ![i] = (IF i = Loader THEN "start_linux" ELSE "halt")]
      /\ Status' = [Status EXCEPT ![i] = Status[i]]
      /\ memory' = [memory EXCEPT ![i] = memory[i]]
      /\ used' \in [IDs -> 0 .. MaxRequests + 1] /\ failures' \in 0 .. MaxFailures
      /\ UNCHANGED <<controller, Pending, group, requests, calm>>
  BY DEF LifecycleInv, TypeOK, Goto, Report, env
<1> QED BY <1>7, <1>8, SubjectStep

\* The code of the component runs and uses its memory.
LEMMA MainInv ==
  ASSUME LifecycleInv, NEW i \in IDs, Main(i)
  PROVE  LifecycleInv'
<1> USE DEF Main
<1>1. "serve" \in Labels /\ Status[i] \in Statuses /\ "dirty" \in Memories
  BY DEF LifecycleInv, TypeOK, Labels, Statuses, State, Error, Reports, Memories
<1>2. i = Loader => active = "sl"
  BY DEF Runs
<1>3. i \in IDs \ {Time} /\ Status[i] # State("FINISHED") /\ Status[i] # State("FINISHED")
  BY DEF LifecycleInv, FinishedForGood, State, Error
<1>4. ASSUME i \in Managed
      PROVE  /\ Agrees(i, "serve", Status[i], States[i].state)
             /\ Decided(i) => Justified(i, ctrl.new, "serve", Status[i], States[i].state)
  BY <1>4 DEF LifecycleInv, InStep, DecisionsHold, Agrees, Justified, State, Error, Has_Error, Late
<1>5. ASSUME i \in Managed, "serve" \in Started
      PROVE  Dependencies(i)
  BY <1>5 DEF LifecycleInv, DependenciesMet, Dependencies, Started, Managed
<1>6. ASSUME i \in Managed, i \in Initial_Erase
      PROVE  /\ "serve" \in {"prepare", "preparing", "setup"} => "dirty" = "erased"
             /\ "serve" \in {"validate", "validating", "check", "run", "initializing",
                             "running", "main"} => "dirty" = "prepared"
  BY <1>6 DEF LifecycleInv, MemoryPrepared, ErasedBeforeRun, Managed
<1>7. StepOK(i, "serve", Status[i], "dirty")
  BY <1>1, <1>2, <1>3, <1>4, <1>5, <1>6 DEF StepOK, Managed
<1>8. /\ pc' = [pc EXCEPT ![i] = "serve"]
      /\ Status' = [Status EXCEPT ![i] = Status[i]]
      /\ memory' = [memory EXCEPT ![i] = "dirty"]
      /\ used' \in [IDs -> 0 .. MaxRequests + 1] /\ failures' \in 0 .. MaxFailures
      /\ UNCHANGED <<controller, Pending, group, requests, calm>>
  BY DEF LifecycleInv, TypeOK, Goto, Report, env
<1> QED BY <1>7, <1>8, SubjectStep

\* The labels at which a state is reported.
LEMMA AnnouncedTable ==
  ASSUME NEW l \in DOMAIN Announced
  PROVE  \/ l = "synced" /\ Announced[l].state = "SYNCED" /\ Announced[l].to = "erase_or_prepare"
         \/ l = "erasing" /\ Announced[l].state = "ERASING" /\ Announced[l].to = "erase"
         \/ l = "preparing" /\ Announced[l].state = "PREPARING" /\ Announced[l].to = "setup"
         \/ l = "validating" /\ Announced[l].state = "VALIDATING" /\ Announced[l].to = "check"
         \/ l = "initializing" /\ Announced[l].state = "INITIALIZING" /\ Announced[l].to = "running"
  BY DEF Announced

\* The states reported between the operations.
LEMMA Status_SetInv ==
  ASSUME LifecycleInv, NEW i \in IDs, Status_Set(i)
  PROVE  LifecycleInv'
<1> DEFINE s == State(Announced[pc[i]].state)
           to == Announced[pc[i]].to
<1> USE DEF Status_Set
<1>0. \/ pc[i] = "synced" /\ s = State("SYNCED") /\ to = "erase_or_prepare"
      \/ pc[i] = "erasing" /\ s = State("ERASING") /\ to = "erase"
      \/ pc[i] = "preparing" /\ s = State("PREPARING") /\ to = "setup"
      \/ pc[i] = "validating" /\ s = State("VALIDATING") /\ to = "check"
      \/ pc[i] = "initializing" /\ s = State("INITIALIZING") /\ to = "running"
  BY AnnouncedTable
<1>8. /\ pc' = [pc EXCEPT ![i] = to]
      /\ Status' = [Status EXCEPT ![i] = s]
      /\ memory' = [memory EXCEPT ![i] = memory[i]]
      /\ used' \in [IDs -> 0 .. MaxRequests + 1] /\ failures' \in 0 .. MaxFailures
      /\ UNCHANGED <<controller, Pending, group, requests, calm>>
  BY DEF LifecycleInv, TypeOK, Goto, Report, env
<1> HIDE DEF s, to
<1>1. to \in Labels /\ s \in Statuses /\ memory[i] \in Memories
  BY <1>0 DEF LifecycleInv, TypeOK, Labels, Statuses, State, Reports, Memories
<1>2. i = Loader => active = "sl"
  BY DEF Runs
<1>3. i \in IDs \ {Time} /\ Status[i] # State("FINISHED") /\ s # State("FINISHED")
  BY <1>0 DEF LifecycleInv, FinishedForGood, State
<1>4. ASSUME i \in Managed
      PROVE  /\ Agrees(i, to, s, States[i].state)
             /\ Decided(i) => Justified(i, ctrl.new, to, s, States[i].state)
  BY <1>0, <1>4 DEF LifecycleInv, InStep, DecisionsHold, Agrees, Justified, State, Has_Error, Late
<1>5. ASSUME i \in Managed, to \in Started
      PROVE  Dependencies(i)
  BY <1>0, <1>5 DEF LifecycleInv, DependenciesMet, Dependencies, Started, Managed
<1>6. ASSUME i \in Managed, i \in Initial_Erase
      PROVE  /\ to \in {"prepare", "preparing", "setup"} => memory[i] = "erased"
             /\ to \in {"validate", "validating", "check", "run", "initializing",
                         "running", "main"} => memory[i] = "prepared"
  BY <1>0, <1>6 DEF LifecycleInv, MemoryPrepared, ErasedBeforeRun, Managed
<1>7. StepOK(i, to, s, memory[i])
  BY <1>0, <1>1, <1>2, <1>3, <1>4, <1>5, <1>6 DEF StepOK, Managed
<1> QED BY <1>7, <1>8, SubjectStep

\* The time subject finishes.
LEMMA PublishInv ==
  ASSUME LifecycleInv, NEW i \in IDs, Publish(i)
  PROVE  LifecycleInv'
<1> USE DEF Publish
<1>1. "halt" \in Labels /\ State("FINISHED") \in Statuses /\ memory[i] \in Memories
  BY DEF LifecycleInv, TypeOK, Labels, Statuses, State, Reports, Memories
<1>2. Status[i] # State("FINISHED")
  BY DEF LifecycleInv, FinishedForGood
<1>3. StepOK(i, "halt", State("FINISHED"), memory[i])
  BY <1>1, <1>2, IDFacts DEF StepOK, Managed
<1>4. /\ pc' = [pc EXCEPT ![i] = "halt"]
      /\ Status' = [Status EXCEPT ![i] = State("FINISHED")]
      /\ memory' = [memory EXCEPT ![i] = memory[i]]
      /\ used' \in [IDs -> 0 .. MaxRequests + 1] /\ failures' \in 0 .. MaxFailures
      /\ UNCHANGED <<controller, Pending, group, requests, calm>>
  BY DEF LifecycleInv, TypeOK, Goto, Report, env
<1> QED BY <1>3, <1>4, SubjectStep

\* The commands a subject waits for, and where they lead.
LEMMA LeadsTable ==
  ASSUME NEW l \in DOMAIN Current, NEW c, c # Current[l]
  PROVE  \/ l = "sync" /\ c \in {"SYNC", "SELF_CTRL"} /\ Leads(l, c) = "synced"
         \/ l = "erase_or_prepare" /\ c = "ERASE" /\ Leads(l, c) = "erasing"
         \/ /\ l \in {"erase_or_prepare", "prepare"} /\ c \in {"PREPARE", "SELF_CTRL"}
            /\ Leads(l, c) = "preparing"
         \/ l = "validate" /\ c \in {"VALIDATE", "SELF_CTRL"} /\ Leads(l, c) = "validating"
         \/ l = "run" /\ c \in {"RUN", "SELF_CTRL"} /\ Leads(l, c) = "initializing"
         \/ /\ Leads(l, c) = "failed"
            /\ \/ l = "sync" /\ c \notin {"NOP", "SYNC"}
               \/ l = "erase_or_prepare" /\ c \notin {"SYNC", "ERASE", "PREPARE"}
               \/ l = "prepare" /\ c \notin {"ERASE", "PREPARE"}
               \/ l = "validate" /\ c \notin {"PREPARE", "VALIDATE"}
               \/ l = "run" /\ c \notin {"VALIDATE", "RUN"}
  BY DEF Current, Leads

\* Wait_For_Next sees a new command: as the command page shows where the machine is,
\* a subject that is to be erased is never told to prepare its memory before that.
LEMMA Wait_For_NextInv ==
  ASSUME LifecycleInv, NEW i \in IDs, Wait_For_Next(i)
  PROVE  LifecycleInv'
<1> DEFINE to == Leads(pc[i], Command[i])
           s == IF to = "failed" THEN Error(Status[i], "unexpected") ELSE Status[i]
<1> USE DEF Wait_For_Next
<1>0. \/ pc[i] = "sync" /\ Command[i] \in {"SYNC", "SELF_CTRL"} /\ to = "synced"
      \/ pc[i] = "erase_or_prepare" /\ Command[i] = "ERASE" /\ to = "erasing"
      \/ /\ pc[i] \in {"erase_or_prepare", "prepare"} /\ Command[i] \in {"PREPARE", "SELF_CTRL"}
         /\ to = "preparing"
      \/ pc[i] = "validate" /\ Command[i] \in {"VALIDATE", "SELF_CTRL"} /\ to = "validating"
      \/ pc[i] = "run" /\ Command[i] \in {"RUN", "SELF_CTRL"} /\ to = "initializing"
      \/ /\ to = "failed"
         /\ \/ pc[i] = "sync" /\ Command[i] \notin {"NOP", "SYNC"}
            \/ pc[i] = "erase_or_prepare" /\ Command[i] \notin {"SYNC", "ERASE", "PREPARE"}
            \/ pc[i] = "prepare" /\ Command[i] \notin {"ERASE", "PREPARE"}
            \/ pc[i] = "validate" /\ Command[i] \notin {"PREPARE", "VALIDATE"}
            \/ pc[i] = "run" /\ Command[i] \notin {"VALIDATE", "RUN"}
  BY LeadsTable
<1>8. /\ pc' = [pc EXCEPT ![i] = to]
      /\ Status' = [Status EXCEPT ![i] = s]
      /\ memory' = [memory EXCEPT ![i] = memory[i]]
      /\ used' \in [IDs -> 0 .. MaxRequests + 1] /\ failures' \in 0 .. MaxFailures
      /\ UNCHANGED <<controller, Pending, group, requests, calm>>
  BY DEF LifecycleInv, TypeOK, Goto, Report, env
<1> HIDE DEF to
<1>1. to \in Labels /\ s \in Statuses /\ memory[i] \in Memories
  BY <1>0 DEF LifecycleInv, TypeOK, Labels, Statuses, Error, Reports, Memories
<1>2. i = Loader => active = "sl"
  BY DEF Runs
<1>3. i \in IDs \ {Time} /\ Status[i] # State("FINISHED") /\ s # State("FINISHED")
  BY <1>0 DEF LifecycleInv, FinishedForGood, State, Error
<1>9. i \in Managed => Shows(States[i].state, Command[i]) /\ States[i].state \in FSM
  BY DEF LifecycleInv, CommandsShown, Managed, TypeOK
<1>4. ASSUME i \in Managed
      PROVE  Agrees(i, to, s, States[i].state)
  BY <1>0, <1>4, <1>9 DEF LifecycleInv, InStep, Agrees, Shows, FSM, State, Error, Has_Error, Late
<1>10. ASSUME i \in Managed, Decided(i)
       PROVE  Justified(i, ctrl.new, to, s, States[i].state)
  BY <1>0, <1>10, <1>9 DEF LifecycleInv, DecisionsHold, Justified, Shows, FSM
<1>5. ASSUME i \in Managed, to \in Started
      PROVE  Dependencies(i)
  BY <1>0, <1>5, <1>9 DEF LifecycleInv, InStep, Agrees, Shows, FinishedForGood, Started, Late
<1>6. ASSUME i \in Managed, i \in Initial_Erase
      PROVE  /\ to \in {"prepare", "preparing", "setup"} => memory[i] = "erased"
             /\ to \in {"validate", "validating", "check", "run", "initializing",
                         "running", "main"} => memory[i] = "prepared"
  BY <1>0, <1>6, <1>9
     DEF LifecycleInv, InStep, Agrees, Shows, MemoryPrepared, ErasedBeforeRun, Managed
<1>7. StepOK(i, to, s, memory[i])
  BY <1>0, <1>1, <1>2, <1>3, <1>4, <1>5, <1>6, <1>10 DEF StepOK, Managed
<1> QED BY <1>7, <1>8, SubjectStep

-----------------------------------------------------------------------------
(* The steps of the group of slot 1 *)

Working == {"serve", "load", "loaded", "resume"}

\* What a step of the group to a label of the monitor and one of the loader has to
\* observe: the monitor goes on in its loop, or is reset because that is pending; the
\* loader keeps its place, or hands over.
GroupOK(lm, ll) ==
  /\ "sm" \in resets' => "sm" \in resets
  /\ resets' \subseteq {"linux", "sm"} /\ active' \in {"linux", "sm", "sl"}
  /\ Monitor \in IDs =>
       \/ lm = pc[Monitor]
       \/ pc[Monitor] \in Working /\ lm \in Working \cup {"halt"}
       \/ lm = "start" /\ "sm" \in resets \ resets'
  /\ Loader \in IDs =>
       /\ ll = pc[Loader] \/ (pc[Loader] = "start_linux" /\ ll = "start")
       /\ active' # "sl" => ll = "start"

\* So does a step of the scheduling group of monitor, loader and Linux.
LEMMA GroupStep ==
  ASSUME LifecycleInv, NEW lm, NEW ll, GroupOK(lm, ll),
         pc' \in [IDs -> Labels],
         \A j \in IDs : pc'[j] = IF j = Monitor THEN lm ELSE IF j = Loader THEN ll ELSE pc[j],
         memory' = memory \/ (memory' = [memory EXCEPT ![Loader] = "dirty"] /\ ll = "start"),
         linux' \in {"initial", "ready"},
         UNCHANGED <<controller, Pending, Status, used, env>>
  PROVE  LifecycleInv'
<1>1. /\ States' = States /\ ctrl' = ctrl /\ Command' = Command /\ Status' = Status
      /\ requests' = requests /\ failures' = failures
  BY DEF controller, env
<1>2. TypeOK'
  BY DEF LifecycleInv, TypeOK, GroupOK, controller, env
<1>3. ErasCounted' /\ EventsInOrder' /\ CommandsShown'
  BY <1>1, SubjectLeaves
<1>4. Monitor \in Managed /\ lm = "start" =>
        \/ pc[Monitor] = "start"
        \/ /\ States[Monitor].state \in {"Resetting", "Initial"}
           /\ pc[Monitor] \notin {"start", "sync"} /\ "sm" \in resets
  BY DEF LifecycleInv, ResetExpected, ResetPending, GroupOK, Working, Managed
<1>5. InStep'
  BY <1>1, <1>4 DEF LifecycleInv, InStep, Agrees, GroupOK, Working, Managed
<1>6. DecisionsHold'
  BY <1>1, <1>4 DEF LifecycleInv, DecisionsHold, Justified, Decided, GroupOK, Working, Managed
<1>7. ResetExpected'
  BY <1>1, <1>4 DEF LifecycleInv, ResetExpected, ResetPending, GroupOK, Working, Managed
<1>8. LoaderWhole'
  BY IDFacts DEF LifecycleInv, LoaderWhole, GroupOK
<1>9. MemoryPrepared' /\ ErasedBeforeRun'
  <2> DEFINE Way == {"prepare", "preparing", "setup", "validate", "validating", "check",
                     "run", "initializing", "running", "main"}
  <2>1. ASSUME NEW j \in IDs, pc'[j] \in Way
        PROVE  pc'[j] = pc[j] /\ memory'[j] = memory[j]
    <3>1. pc'[j] = pc[j]
      BY <2>1 DEF GroupOK, Working
    <3>2. memory'[j] = memory[j]
      BY <2>1, IDFacts DEF LifecycleInv, TypeOK
    <3> QED BY <3>1, <3>2
  <2> QED BY <2>1, ConfigAssumption DEF LifecycleInv, MemoryPrepared, ErasedBeforeRun, Managed
<1>10. FinishedForGood'
  <2>1. pc'[Time] = pc[Time]
    BY IDFacts
  <2> QED BY <1>1, <2>1, IDFacts DEF LifecycleInv, FinishedForGood, Dependencies, Decided
<1>11. DependenciesMet'
  BY <1>1 DEF LifecycleInv, DependenciesMet, Started, GroupOK, Working
<1> QED BY <1>2, <1>3, <1>5, <1>6, <1>7, <1>8, <1>9, <1>10, <1>11 DEF LifecycleInv

\* The kernel handles a reset of the member that runs.
LEMMA Handle_ResetInv ==
  ASSUME LifecycleInv, Handle_Reset
  PROVE  LifecycleInv'
<1> USE DEF Handle_Reset, Handover, At, SM
<1>1. GroupOK((IF active = "sm" THEN "start" ELSE pc[Monitor]), pc[Loader])
  BY IDFacts DEF LifecycleInv, TypeOK, LoaderWhole, GroupOK, Working
<1>2. pc' \in [IDs -> Labels] /\ linux' \in {"initial", "ready"}
  BY DEF LifecycleInv, TypeOK, Labels
<1>3. \A j \in IDs : pc'[j] = IF j = Monitor THEN (IF active = "sm" THEN "start" ELSE pc[Monitor]) ELSE IF j = Loader THEN pc[Loader] ELSE pc[j]
  BY IDFacts DEF LifecycleInv, TypeOK
<1>4. memory' = memory \/ (memory' = [memory EXCEPT ![Loader] = "dirty"] /\ pc[Loader] = "start")
  BY IDFacts DEF LifecycleInv, LoaderWhole
<1> QED BY <1>1, <1>2, <1>3, <1>4, GroupStep

\* Linux traps into the monitor, which is reset first if that is pending.
LEMMA Linux_TrapInv ==
  ASSUME LifecycleInv, Linux_Trap
  PROVE  LifecycleInv'
<1> USE DEF Linux_Trap, Handover, At, SM
<1>1. GroupOK((IF "sm" \in resets THEN "start" ELSE pc[Monitor]), pc[Loader])
  BY IDFacts DEF LifecycleInv, TypeOK, LoaderWhole, GroupOK, Working
<1>2. pc' \in [IDs -> Labels] /\ linux' \in {"initial", "ready"}
  BY DEF LifecycleInv, TypeOK, Labels
<1>3. \A j \in IDs : pc'[j] = IF j = Monitor THEN (IF "sm" \in resets THEN "start" ELSE pc[Monitor]) ELSE IF j = Loader THEN pc[Loader] ELSE pc[j]
  BY IDFacts DEF LifecycleInv, TypeOK
<1>4. memory' = memory \/ (memory' = [memory EXCEPT ![Loader] = "dirty"] /\ pc[Loader] = "start")
  BY IDFacts DEF LifecycleInv, LoaderWhole
<1> QED BY <1>1, <1>2, <1>3, <1>4, GroupStep

\* The monitor resumes Linux, ...
LEMMA Sm_ServiceInv ==
  ASSUME LifecycleInv, Sm_Service
  PROVE  LifecycleInv'
<1> USE DEF Sm_Service, Handover, At, SM
<1>1. GroupOK(pc[Monitor], pc[Loader])
  BY IDFacts DEF LifecycleInv, TypeOK, LoaderWhole, GroupOK, Working
<1>2. pc' \in [IDs -> Labels] /\ linux' \in {"initial", "ready"}
  BY DEF LifecycleInv, TypeOK, Labels
<1>3. \A j \in IDs : pc'[j] = IF j = Monitor THEN pc[Monitor] ELSE IF j = Loader THEN pc[Loader] ELSE pc[j]
  BY IDFacts DEF LifecycleInv, TypeOK
<1>4. memory' = memory \/ (memory' = [memory EXCEPT ![Loader] = "dirty"] /\ pc[Loader] = "start")
  BY IDFacts DEF LifecycleInv, LoaderWhole
<1> QED BY <1>1, <1>2, <1>3, <1>4, GroupStep

\* ... resets it, ...
LEMMA Sm_Reset_LinuxInv ==
  ASSUME LifecycleInv, Sm_Reset_Linux
  PROVE  LifecycleInv'
<1> USE DEF Sm_Reset_Linux, Handover, At, SM
<1>1. GroupOK("load", pc[Loader])
  BY IDFacts DEF LifecycleInv, TypeOK, LoaderWhole, GroupOK, Working
<1>2. pc' \in [IDs -> Labels] /\ linux' \in {"initial", "ready"}
  BY DEF LifecycleInv, TypeOK, Labels
<1>3. \A j \in IDs : pc'[j] = IF j = Monitor THEN "load" ELSE IF j = Loader THEN pc[Loader] ELSE pc[j]
  BY IDFacts DEF LifecycleInv, TypeOK
<1>4. memory' = memory \/ (memory' = [memory EXCEPT ![Loader] = "dirty"] /\ pc[Loader] = "start")
  BY IDFacts DEF LifecycleInv, LoaderWhole
<1> QED BY <1>1, <1>2, <1>3, <1>4, GroupStep

\* ... has it loaded, ...
LEMMA Sm_Load_LinuxInv ==
  ASSUME LifecycleInv, Sm_Load_Linux
  PROVE  LifecycleInv'
<1> USE DEF Sm_Load_Linux, Handover, At, SM
<1>1. GroupOK("loaded", pc[Loader])
  BY IDFacts DEF LifecycleInv, TypeOK, LoaderWhole, GroupOK, Working
<1>2. pc' \in [IDs -> Labels] /\ linux' \in {"initial", "ready"}
  BY DEF LifecycleInv, TypeOK, Labels
<1>3. \A j \in IDs : pc'[j] = IF j = Monitor THEN "loaded" ELSE IF j = Loader THEN pc[Loader] ELSE pc[j]
  BY IDFacts DEF LifecycleInv, TypeOK
<1>4. memory' = memory \/ (memory' = [memory EXCEPT ![Loader] = "dirty"] /\ pc[Loader] = "start")
  BY IDFacts DEF LifecycleInv, LoaderWhole
<1> QED BY <1>1, <1>2, <1>3, <1>4, GroupStep

\* ... looks at the result ...
LEMMA Sm_LoadedInv ==
  ASSUME LifecycleInv, Sm_Loaded
  PROVE  LifecycleInv'
<1> USE DEF Sm_Loaded, Handover, At, SM
<1> DEFINE to == IF Status[Loader] = State("RUNNING") THEN "resume" ELSE "halt"
<1>0. pc' = At(to) /\ to \in {"resume", "halt"}
  OBVIOUS
<1> HIDE DEF to
<1>1. GroupOK(to, pc[Loader])
  BY <1>0, IDFacts DEF LifecycleInv, TypeOK, LoaderWhole, GroupOK, Working
<1>2. pc' \in [IDs -> Labels] /\ linux' \in {"initial", "ready"}
  BY <1>0 DEF LifecycleInv, TypeOK, Labels
<1>3. \A j \in IDs : pc'[j] = IF j = Monitor THEN to ELSE IF j = Loader THEN pc[Loader] ELSE pc[j]
  BY <1>0, IDFacts DEF LifecycleInv, TypeOK
<1>4. memory' = memory \/ (memory' = [memory EXCEPT ![Loader] = "dirty"] /\ pc[Loader] = "start")
  BY IDFacts DEF LifecycleInv, LoaderWhole
<1> QED BY <1>1, <1>2, <1>3, <1>4, GroupStep

\* ... and resumes it.
LEMMA Sm_ResumeInv ==
  ASSUME LifecycleInv, Sm_Resume
  PROVE  LifecycleInv'
<1> USE DEF Sm_Resume, Handover, At, SM
<1>1. GroupOK("serve", "start")
  BY IDFacts DEF LifecycleInv, TypeOK, LoaderWhole, GroupOK, Working
<1>2. pc' \in [IDs -> Labels] /\ linux' \in {"initial", "ready"}
  BY DEF LifecycleInv, TypeOK, Labels
<1>3. \A j \in IDs : pc'[j] = IF j = Monitor THEN "serve" ELSE IF j = Loader THEN "start" ELSE pc[j]
  BY IDFacts DEF LifecycleInv, TypeOK, LoaderWhole
<1>4. memory' = [memory EXCEPT ![Loader] = "dirty"]
  OBVIOUS
<1> QED BY <1>1, <1>2, <1>3, <1>4, GroupStep

\* sl hands back to the monitor and starts over the next time.
LEMMA Sl_Start_LinuxInv ==
  ASSUME LifecycleInv, Sl_Start_Linux
  PROVE  LifecycleInv'
<1> USE DEF Sl_Start_Linux, Handover, At, SM
<1>1. GroupOK((IF "sm" \in resets THEN "start" ELSE pc[Monitor]), "start")
  BY IDFacts DEF LifecycleInv, TypeOK, LoaderWhole, GroupOK, Working
<1>2. pc' \in [IDs -> Labels] /\ linux' \in {"initial", "ready"}
  BY DEF LifecycleInv, TypeOK, Labels
<1>3. \A j \in IDs : pc'[j] = IF j = Monitor THEN (IF "sm" \in resets THEN "start" ELSE pc[Monitor]) ELSE IF j = Loader THEN "start" ELSE pc[j]
  BY IDFacts DEF LifecycleInv, TypeOK
<1>4. memory' = memory \/ (memory' = [memory EXCEPT ![Loader] = "dirty"] /\ "start" = "start")
  BY IDFacts DEF LifecycleInv, LoaderWhole
<1> QED BY <1>1, <1>2, <1>3, <1>4, GroupStep

-----------------------------------------------------------------------------
(* The steps of the controller *)

\* A step of the controller leaves what the subjects keep.
LEMMA ControllerLeaves ==
  ASSUME LifecycleInv, UNCHANGED <<pc, Status, memory, active>>
  PROVE  LoaderWhole' /\ MemoryPrepared' /\ ErasedBeforeRun' /\ DependenciesMet'
  BY DEF LifecycleInv, LoaderWhole, MemoryPrepared, ErasedBeforeRun, DependenciesMet

\* A step that neither decides nor performs anything leaves what relates the two.
LEMMA NothingDecided ==
  ASSUME LifecycleInv, UNCHANGED <<pc, Status, States, Command, resets>>,
         \A i \in IDs : Decided(i)' => Decided(i) /\ ctrl'.new = ctrl.new,
         (ctrl'.at = "events") <=> (ctrl.at = "events"), ctrl'.events = ctrl.events
  PROVE  /\ CommandsShown' /\ InStep' /\ DecisionsHold' /\ ResetExpected' /\ FinishedForGood'
<1>1. CommandsShown' /\ InStep'
  BY DEF LifecycleInv, CommandsShown, InStep
<1>2. DecisionsHold'
  BY DEF LifecycleInv, DecisionsHold, Managed
<1>3. ResetExpected'
  BY DEF LifecycleInv, ResetExpected, ResetPending
<1>4. FinishedForGood'
  BY DEF LifecycleInv, FinishedForGood, Dependencies, Managed
<1> QED BY <1>1, <1>2, <1>3, <1>4

\* A request is made ...
LEMMA RequestInv ==
  ASSUME LifecycleInv, Request
  PROVE  LifecycleInv'
<1> USE DEF Request, controller, group
<1>1. requests' \in 0 .. MaxRequests
  BY ConfigAssumption DEF LifecycleInv, TypeOK
<1>2. TypeOK'
  BY <1>1 DEF LifecycleInv, TypeOK
<1>3. ErasCounted'
  BY DEF LifecycleInv, TypeOK, ErasCounted, Get_Current_Era, Decided
<1>4. EventsInOrder'
  BY DEF LifecycleInv, EventsInOrder
<1>5. CommandsShown' /\ InStep' /\ DecisionsHold' /\ ResetExpected' /\ FinishedForGood'
  BY NothingDecided DEF Decided
<1> QED BY <1>2, <1>3, <1>4, <1>5, ControllerLeaves DEF LifecycleInv

\* ... read, which begins an era, ...
LEMMA Requests_ReadInv ==
  ASSUME LifecycleInv, Requests_Read
  PROVE  LifecycleInv'
<1> USE DEF Requests_Read, group, env
<1>0. /\ ctrl'.at = "clear" /\ ctrl'.new = ctrl.new /\ ctrl'.id = ctrl.id
      /\ ctrl'.events = ctrl.events
  BY DEF LifecycleInv, TypeOK
<1>1. Era' \in 0 .. MaxRequests /\ Era <= Era'
  BY ConfigAssumption DEF LifecycleInv, TypeOK, ErasCounted
<1>2. TypeOK'
  BY <1>1 DEF LifecycleInv, TypeOK
<1>3. ErasCounted'
  BY <1>0, <1>1 DEF LifecycleInv, TypeOK, ErasCounted, Get_Current_Era, Decided
<1>4. EventsInOrder'
  BY <1>0 DEF LifecycleInv, EventsInOrder
<1>5. CommandsShown' /\ InStep' /\ DecisionsHold' /\ ResetExpected' /\ FinishedForGood'
  BY <1>0, NothingDecided DEF Decided
<1> QED BY <1>2, <1>3, <1>4, <1>5, ControllerLeaves DEF LifecycleInv

\* ... and cleared.
LEMMA Requests_ClearInv ==
  ASSUME LifecycleInv, Requests_Clear
  PROVE  LifecycleInv'
<1> USE DEF Requests_Clear, group, env
<1>0. /\ ctrl'.at = "read" /\ ctrl'.new = ctrl.new /\ ctrl'.id = 1
      /\ ctrl'.events = ctrl.events
  BY DEF LifecycleInv, TypeOK
<1>2. TypeOK'
  BY IDFacts DEF LifecycleInv, TypeOK
<1>3. ErasCounted'
  BY <1>0 DEF LifecycleInv, TypeOK, ErasCounted, Get_Current_Era, Decided
<1>4. EventsInOrder'
  BY <1>0 DEF LifecycleInv, EventsInOrder
<1>5. CommandsShown' /\ InStep' /\ DecisionsHold' /\ ResetExpected' /\ FinishedForGood'
  BY <1>0, NothingDecided DEF Decided
<1> QED BY <1>2, <1>3, <1>4, <1>5, ControllerLeaves DEF LifecycleInv

\* The next subject is one.
LEMMA AdvanceType ==
  ASSUME TypeOK, NEW i \in IDs
  PROVE  /\ Advance(i) \in [at : {"read", "requests"}, id : IDs, new : {ctrl.new},
                            events : {ctrl.events}]
  BY IDFacts DEF TypeOK, Advance

\* What a decision for any subject rests on ...
LEMMA DecisionSound ==
  ASSUME LifecycleInv, NEW i \in IDs, NEW new, new = Get_Next_State(i, Status[i]),
         new # States[i].state
  PROVE  /\ new \in FSM \ {"Start"}
         /\ new = "Initial" => States[i].state \in {"Start", "Resetting"}
         /\ new = "Resetting" => States[i].era # Get_Current_Era(i)
         /\ new = "Finished" => Status[i] = State("FINISHED")
         /\ new = "Running" => Run_Dependencies_Satisfied(i)
<1>1. States[i].state \in FSM
  BY DEF LifecycleInv, TypeOK
<1>2. new \in FSM \ {"Start"}
  BY <1>1 DEF Get_Next_State, FSM, Erase_First
<1>3. new = "Initial" => States[i].state \in {"Start", "Resetting"}
  BY <1>1 DEF Get_Next_State, FSM, Erase_First
<1>4. new = "Resetting" => States[i].era # Get_Current_Era(i)
  BY <1>1 DEF Get_Next_State, FSM, Erase_First, Get_Current_Era, Run_Dependencies_Satisfied
<1>5. new = "Finished" => Status[i] = State("FINISHED")
  BY <1>1 DEF Get_Next_State, FSM, Erase_First
<1>6. new = "Running" => Run_Dependencies_Satisfied(i)
  BY <1>1 DEF Get_Next_State, FSM, Erase_First, Run_Dependencies_Satisfied
<1> QED BY <1>2, <1>3, <1>4, <1>5, <1>6

\* ... and for a managed one.
LEMMA DecisionJustified ==
  ASSUME LifecycleInv, NEW i \in Managed, NEW new, new = Get_Next_State(i, Status[i]),
         new # States[i].state
  PROVE  Justified(i, new, pc[i], Status[i], States[i].state)
<1>1. /\ States[i].state \in FSM /\ pc[i] \in Labels /\ i \notin Self_Governed
      /\ Status[i] # State("FINISHED")
  BY DEF LifecycleInv, TypeOK, Managed, FinishedForGood
<1>2. Agrees(i, pc[i], Status[i], States[i].state) /\ States[i].state # "Self_Control"
  BY DEF LifecycleInv, InStep, CommandsShown, Shows
<1>3. \/ new = "Initial" /\ States[i].state \in {"Start", "Resetting"}
      \/ new = "Syncing" /\ States[i].state = "Initial" /\ Status[i] = State("INITIAL")
      \/ /\ States[i].state = "Syncing" /\ Status[i] = State("SYNCED")
         /\ new = IF i \in Initial_Erase THEN "Erasing" ELSE "Preparing"
      \/ new = "Preparing" /\ States[i].state = "Erasing" /\ Status[i] = State("ERASED")
      \/ new = "Validating" /\ States[i].state = "Preparing" /\ Status[i] = State("PREPARED")
      \/ new = "Running" /\ States[i].state = "Validating" /\ Status[i] = State("VALIDATED")
      \/ /\ new = "Error" /\ States[i].state \in {"Erasing", "Preparing", "Validating", "Running"}
         /\ Has_Error(Status[i])
      \/ new = "Resetting" /\ States[i].state \in {"Running", "Finished", "Error"}
  BY <1>1, <1>2 DEF Get_Next_State, Erase_First, FSM
<1> QED BY <1>1, <1>2, <1>3 DEF Justified, Agrees, Labels, State, Has_Error, Late

\* Process decides on a transition, or goes on to the next subject.
LEMMA Process_ReadInv ==
  ASSUME LifecycleInv, NEW i \in IDs, Process_Read(i)
  PROVE  LifecycleInv'
<1> USE DEF Process_Read, group, env
<1> DEFINE new == Get_Next_State(i, Status[i])
<1>1. CASE new = States[i].state
  <2>1. /\ ctrl'.at \in {"read", "requests"} /\ ctrl'.id \in IDs /\ ctrl'.new = ctrl.new
        /\ ctrl'.events = ctrl.events /\ TypeOK'
    BY <1>1, AdvanceType DEF LifecycleInv, TypeOK
  <2>2. ErasCounted' /\ EventsInOrder'
    BY <2>1 DEF LifecycleInv, TypeOK, ErasCounted, Get_Current_Era, Decided, EventsInOrder
  <2>3. CommandsShown' /\ InStep' /\ DecisionsHold' /\ ResetExpected' /\ FinishedForGood'
    BY <2>1, NothingDecided DEF Decided
  <2> QED BY <2>1, <2>2, <2>3, ControllerLeaves DEF LifecycleInv
<1>2. CASE new # States[i].state
  <2>1. /\ ctrl'.at = "perform" /\ ctrl'.id = i /\ ctrl'.new = new
        /\ ctrl'.events = ctrl.events /\ ctrl' = [ctrl EXCEPT !.at = "perform", !.new = new]
    BY <1>2 DEF LifecycleInv, TypeOK
  <2>2. /\ new \in FSM \ {"Start"}
        /\ new = "Initial" => States[i].state \in {"Start", "Resetting"}
        /\ new = "Resetting" => States[i].era # Get_Current_Era(i)
        /\ new = "Finished" => Status[i] = State("FINISHED")
        /\ new = "Running" => Run_Dependencies_Satisfied(i)
    BY <1>2, DecisionSound
  <2>3. i \in Managed => Justified(i, new, pc[i], Status[i], States[i].state)
    BY <1>2, DecisionJustified
  <2> HIDE DEF new
  <2>4. TypeOK'
    BY <2>1, <2>2 DEF LifecycleInv, TypeOK
  <2>5. ErasCounted' /\ EventsInOrder'
    BY <2>1, <2>2 DEF LifecycleInv, TypeOK, ErasCounted, Get_Current_Era, Decided, EventsInOrder
  <2>6. CommandsShown' /\ InStep' /\ ResetExpected'
    BY <2>1 DEF LifecycleInv, CommandsShown, InStep, ResetExpected, ResetPending
  <2>7. DecisionsHold'
    BY <2>1, <2>3 DEF DecisionsHold, Decided
  <2>8. FinishedForGood'
    <3>1. new = "Running" => Dependencies(i)
      BY <2>2, ConfigAssumption
         DEF LifecycleInv, FinishedForGood, Dependencies, Run_Dependencies_Satisfied
    <3> QED BY <2>1, <2>2, <3>1 DEF LifecycleInv, FinishedForGood, Dependencies, Decided
  <2> QED BY <2>4, <2>5, <2>6, <2>7, <2>8, ControllerLeaves DEF LifecycleInv
<1> QED BY <1>1, <1>2

\* Trigger_Event notes one of the events of the monitor's reset.
LEMMA Trigger_EventInv ==
  ASSUME LifecycleInv, NEW i \in IDs, Trigger_Event(i)
  PROVE  LifecycleInv'
<1> USE DEF Trigger_Event, group, env
<1>1. \/ /\ ctrl.events = <<"sm", "linux">> /\ resets' = resets \cup {"sm"}
         /\ ctrl' = [ctrl EXCEPT !.events = <<"linux">>]
      \/ /\ ctrl.events = <<"linux">> /\ resets' = resets \cup {"linux"}
         /\ ctrl' = [Advance(i) EXCEPT !.events = <<>>]
  <2>1. ctrl.events \in {<<"linux">>, <<"sm", "linux">>}
    BY DEF LifecycleInv, TypeOK, EventsInOrder
  <2>2. CASE ctrl.events = <<"linux">>
    <3>1. Head(ctrl.events) = "linux" /\ Len(ctrl.events) = 1
      BY <2>2
    <3> QED BY <2>2, <3>1
  <2>3. CASE ctrl.events = <<"sm", "linux">>
    <3>1. Head(ctrl.events) = "sm" /\ Len(ctrl.events) = 2 /\ Tail(ctrl.events) = <<"linux">>
      BY <2>3
    <3> QED BY <2>3, <3>1
  <2> QED BY <2>1, <2>2, <2>3
<1>2. /\ TypeOK' /\ ctrl'.id \in IDs
      /\ \/ /\ ctrl.events = <<"sm", "linux">> /\ resets' = resets \cup {"sm"}
            /\ ctrl'.at = "events" /\ ctrl'.events = <<"linux">> /\ ctrl'.id = ctrl.id
         \/ /\ ctrl.events = <<"linux">> /\ resets' = resets \cup {"linux"}
            /\ ctrl'.at \in {"read", "requests"} /\ ctrl'.events = <<>>
  BY <1>1, AdvanceType DEF LifecycleInv, TypeOK
<1>3. ErasCounted'
  BY <1>2 DEF LifecycleInv, TypeOK, ErasCounted, Get_Current_Era, Decided
<1>4. EventsInOrder'
  <2>1. ctrl.at = "events" /\ ctrl.id = Monitor
    BY DEF LifecycleInv, EventsInOrder
  <2>2. /\ ctrl'.at = "events" => ctrl'.id = ctrl.id /\ ctrl'.events = <<"linux">>
        /\ ctrl'.at # "events" => ctrl'.events = <<>>
    BY <1>2
  <2>3. <<"linux">> # <<>>
    OBVIOUS
  <2> HIDE DEF Trigger_Event, group, env
  <2> QED BY <2>1, <2>2, <2>3 DEF EventsInOrder
<1>5. CommandsShown' /\ InStep' /\ DecisionsHold'
  BY <1>2 DEF LifecycleInv, CommandsShown, InStep, DecisionsHold, Decided
<1>6. FinishedForGood'
  BY <1>2 DEF LifecycleInv, FinishedForGood, Dependencies, Decided
<1>7. ResetExpected'
  BY <1>2 DEF LifecycleInv, ResetExpected, ResetPending
<1> QED BY <1>2, <1>3, <1>4, <1>5, <1>6, <1>7, ControllerLeaves DEF LifecycleInv

\* Perform_Transition: the machine of the subject and its pages change together.
LEMMA Perform_TransitionInv ==
  ASSUME LifecycleInv, NEW i \in IDs, Perform_Transition(i)
  PROVE  LifecycleInv'
<1> DEFINE new == ctrl.new
           st == States[i].state
<1> USE DEF Perform_Transition, group, env
<1>1. /\ Decided(i) /\ new \in FSM \ {"Start"} /\ st \in FSM /\ ctrl.events = <<>>
      /\ States[i].era \in Nat /\ States[i].epoch \in Nat /\ Era \in Nat
  BY DEF LifecycleInv, TypeOK, Decided, ErasCounted, EventsInOrder
<1>2. /\ \A j \in IDs \ {i} : /\ States'[j] = States[j] /\ Command'[j] = Command[j]
                               /\ Epoch'[j] = Epoch[j]
      /\ States'[i].state = new /\ Command'[i] = CommandOf(i, new)
      /\ States'[i].epoch = IF new = "Initial" THEN States[i].epoch + 1 ELSE States[i].epoch
      /\ States'[i].era = IF new = "Resetting" THEN Get_Current_Era(i) ELSE States[i].era
      /\ Epoch'[i] = IF new = "Initial" THEN States[i].epoch + 1 ELSE Epoch[i]
  BY DEF LifecycleInv, TypeOK, NextEpoch
<1>3. \/ /\ new = "Resetting" /\ i = Monitor
         /\ ctrl' = [ctrl EXCEPT !.at = "events", !.events = <<"sm", "linux">>]
      \/ ~(new = "Resetting" /\ i = Monitor) /\ ctrl' = Advance(i)
  BY DEF Reset_Events
<1>4. /\ ctrl' \in [at : {"read", "requests", "events"}, id : IDs, new : FSM,
                    events : {<<>>, <<"sm", "linux">>}]
      /\ \/ /\ new = "Resetting" /\ i = Monitor
            /\ ctrl'.at = "events" /\ ctrl'.id = i /\ ctrl'.events = <<"sm", "linux">>
         \/ /\ ~(new = "Resetting" /\ i = Monitor)
            /\ ctrl'.at \in {"read", "requests"} /\ ctrl'.events = <<>>
  <2>0. ctrl \in [at : {"requests", "clear", "read", "perform", "events"}, id : IDs, new : FSM,
                  events : {<<>>, <<"linux">>, <<"sm", "linux">>}] /\ ctrl.id = i
    BY DEF LifecycleInv, TypeOK
  <2>1. CASE new = "Resetting" /\ i = Monitor
    <3>1. ctrl' = [ctrl EXCEPT !.at = "events", !.events = <<"sm", "linux">>]
      BY <1>3, <2>1
    <3> QED BY <2>0, <2>1, <3>1
  <2>2. CASE ~(new = "Resetting" /\ i = Monitor)
    <3>1. ctrl' \in [at : {"read", "requests"}, id : IDs, new : {ctrl.new}, events : {<<>>}]
      BY <1>1, <1>3, <2>2, AdvanceType DEF LifecycleInv
    <3> HIDE DEF new
    <3>2. ctrl.new \in FSM
      BY <2>0
    <3> QED BY <2>2, <3>1, <3>2
  <2> QED BY <2>1, <2>2
<1>5. /\ States[i].era <= Get_Current_Era(i) /\ Get_Current_Era(i) \in 0 .. MaxRequests
      /\ States[i].epoch <= States[i].era + 1
      /\ new = "Initial" => States[i].epoch <= States[i].era
      /\ new = "Resetting" => States[i].era # Get_Current_Era(i)
      /\ States[i].era \in 0 .. MaxRequests
  BY <1>1, ConfigAssumption DEF LifecycleInv, TypeOK, ErasCounted, Get_Current_Era
<1>6. TypeOK'
  <2>1. CommandOf(i, new) \in Commands
    BY DEF CommandOf, LifecycleInv, TypeOK, Commands
  <2>2. States[i].epoch + 1 \in 0 .. MaxRequests + 1 \/ new # "Initial"
    <3>1. States[i].epoch \in Nat /\ States[i].era \in Nat /\ MaxRequests \in Nat
          /\ States[i].era <= MaxRequests
      BY <1>1, <1>5, ConfigAssumption
    <3>2. new = "Initial" => States[i].epoch <= States[i].era
      BY <1>5
    <3> HIDE DEF new
    <3> QED BY <3>1, <3>2
  <2>3. Command' \in [IDs -> Commands]
    BY <2>1 DEF LifecycleInv, TypeOK
  <2>4. Epoch' \in [IDs -> 0 .. MaxRequests + 1]
    BY <2>2 DEF LifecycleInv, TypeOK, NextEpoch
  <2>5. States' \in [IDs -> [state : FSM, epoch : 0 .. MaxRequests + 1, era : 0 .. MaxRequests]]
    BY <1>1, <1>5, <2>2 DEF LifecycleInv, TypeOK, NextEpoch
  <2> QED BY <1>4, <2>3, <2>4, <2>5 DEF LifecycleInv, TypeOK
<1>7. \A j \in IDs : ~Decided(j)'
  BY <1>4 DEF Decided
<1>8. ErasCounted'
  <2>1. Era' <= requests' /\ (Pending' /\ ctrl'.at # "clear" => Era' < requests')
    BY DEF LifecycleInv, ErasCounted
  <2>2. \A j \in IDs : Get_Current_Era(j)' = Get_Current_Era(j)
    BY DEF Get_Current_Era
  <2>3. ASSUME NEW j \in IDs
        PROVE  /\ States'[j].era <= Get_Current_Era(j) /\ Epoch'[j] = States'[j].epoch
               /\ States'[j].epoch <= States'[j].era + 1
               /\ States'[j].state \in {"Start", "Resetting"} => States'[j].epoch <= States'[j].era
    <3>1. CASE j # i
      BY <1>2, <3>1 DEF LifecycleInv, ErasCounted
    <3>2. CASE j = i
      <4>1. Epoch[i] = States[i].epoch
        BY DEF LifecycleInv, ErasCounted
      <4> HIDE DEF new
      <4> QED BY <1>1, <1>2, <1>5, <3>2, <4>1
    <3> QED BY <3>1, <3>2
  <2> QED BY <1>7, <2>1, <2>2, <2>3 DEF ErasCounted
<1>9. EventsInOrder'
  BY <1>4 DEF EventsInOrder
<1>10. i \in Managed => /\ Justified(i, new, pc[i], Status[i], st)
                        /\ Agrees(i, pc[i], Status[i], st) /\ Shows(st, Command[i])
                        /\ i \notin Self_Governed /\ pc[i] \in Labels
  BY <1>1 DEF LifecycleInv, DecisionsHold, InStep, CommandsShown, Managed, TypeOK
<1>11. CommandsShown'
  <2>1. i \in Managed => Shows(new, CommandOf(i, new))
    BY <1>1, <1>10 DEF Shows, CommandOf, Justified, FSM
  <2> QED BY <1>2, <2>1 DEF LifecycleInv, CommandsShown, Managed
<1>12. InStep'
  <2>1. i \in Managed => Agrees(i, pc[i], Status[i], new)
    BY <1>1, <1>10 DEF Agrees, Justified, FSM, Late
  <2> QED BY <1>2, <2>1 DEF LifecycleInv, InStep, Managed
<1>13. DecisionsHold'
  BY <1>7 DEF DecisionsHold, Managed
<1>14. ResetExpected'
  <2>1. i \in Managed \ {Loader} /\ pc[i] \in {"start", "sync"} =>
          new \in {"Start", "Resetting", "Initial", "Syncing"}
    BY <1>1, <1>10 DEF LifecycleInv, ResetExpected, Justified, FSM
  <2>2. \A j \in Managed \ {Loader} :
          pc[j] \in {"start", "sync"} =>
            States'[j].state \in {"Start", "Resetting", "Initial", "Syncing"}
    BY <1>2, <2>1 DEF LifecycleInv, ResetExpected, Managed
  <2>3. ASSUME Monitor \in Managed, ResetPending'
        PROVE  /\ States'[Monitor].state \in {"Resetting", "Initial"}
               /\ pc[Monitor] \notin {"start", "sync"}
               /\ ~("sm" \in resets /\ ctrl'.at = "events" /\ ctrl'.events = <<"sm", "linux">>)
    <3>1. CASE i = Monitor /\ new = "Resetting"
      <4>1. st \in {"Running", "Finished", "Error"}
        BY <1>10, <2>3, <3>1 DEF Justified
      <4> QED BY <1>2, <2>3, <3>1, <4>1, IDFacts
              DEF LifecycleInv, ResetExpected, ResetPending, Managed
    <3>2. CASE ~(i = Monitor /\ new = "Resetting")
      <4>1. "sm" \in resets /\ ctrl'.events = <<>>
        BY <1>4, <2>3, <3>2 DEF ResetPending
      <4>2. /\ States[Monitor].state \in {"Resetting", "Initial"}
            /\ pc[Monitor] \notin {"start", "sync"}
        BY <2>3, <4>1 DEF LifecycleInv, ResetExpected, ResetPending
      <4>3. i = Monitor => new = "Initial"
        BY <1>1, <1>10, <2>3, <4>2 DEF Justified, FSM
      <4> QED BY <1>2, <2>3, <4>1, <4>2, <4>3 DEF Managed
    <3> QED BY <3>1, <3>2
  <2> QED BY <2>2, <2>3 DEF ResetExpected
<1>15. FinishedForGood'
  <2>1. i \in Managed /\ CommandOf(i, new) = "RUN" => Dependencies(i)
    BY <1>1, <1>10 DEF LifecycleInv, FinishedForGood, CommandOf, Justified
  <2> QED BY <1>1, <1>2, <1>7, <2>1, IDFacts DEF LifecycleInv, FinishedForGood, Dependencies, Managed
<1> QED BY <1>6, <1>8, <1>9, <1>11, <1>12, <1>13, <1>14, <1>15, ControllerLeaves DEF LifecycleInv

-----------------------------------------------------------------------------
\* Every step keeps the invariant.
LEMMA StepInv ==
  ASSUME LifecycleInv, [Next]_vars
  PROVE  LifecycleInv'
<1>1. CASE Request
  BY <1>1, RequestInv
<1>2. CASE Controller
  BY <1>2, Requests_ReadInv, Requests_ClearInv, Process_ReadInv,
     Perform_TransitionInv, Trigger_EventInv DEF Controller
<1>3. CASE Group
  BY <1>3, Handle_ResetInv, Linux_TrapInv, Sm_ServiceInv, Sm_Reset_LinuxInv,
     Sm_Load_LinuxInv, Sm_LoadedInv, Sm_ResumeInv, Sl_Start_LinuxInv DEF Group
<1>4. CASE \E i \in IDs : Initialize(i)
  BY <1>4, Status_InitializeInv, Wait_For_NextInv, Status_SetInv, Clear_WritableInv,
     Setup_WritableInv, Check_HashesInv, Memory_ErrorInv, Set_RunningInv, Init_FailedInv,
     MainInv, PublishInv DEF Initialize
<1>5. CASE UNCHANGED vars
  BY <1>5 DEF vars, LifecycleInv, TypeOK, ErasedBeforeRun, DependenciesMet, ErasCounted,
     EventsInOrder, CommandsShown, InStep, DecisionsHold, ResetExpected, ResetPending,
     LoaderWhole, MemoryPrepared, FinishedForGood, Dependencies, Decided, Get_Current_Era
<1> QED BY <1>1, <1>2, <1>3, <1>4, <1>5 DEF Next

\* The controller and its subjects agree at every step, for every configuration and
\* whenever resets are requested (Ctrlr.Process, Mucontrol.Command, muinit).
THEOREM Invariance == Safety => []LifecycleInv
  BY StepInv, InitInv, PTL DEF Safety

\* A subject that the configuration wants erased (Initial_Erase) starts its code from
\* memory that was erased and prepared since it last ran: no request, failure or
\* pending reset lets the controller skip Clear_Writable of libmuinit.
THEOREM ErasedFirst == Safety => []ErasedBeforeRun
<1>1. LifecycleInv => ErasedBeforeRun
  BY DEF LifecycleInv
<1> QED BY <1>1, Invariance, PTL

\* The code of a component runs only after the subjects it depends on have reported
\* that they are finished (Run_Dependencies_Satisfied), and they stay finished.
THEOREM DependenciesFirst == Safety => []DependenciesMet
<1>1. LifecycleInv => DependenciesMet
  BY DEF LifecycleInv
<1> QED BY <1>1, Invariance, PTL
-----------------------------------------------------------------------------
(* Requests are made at any time; as long as no era begins while the slot starts (calm), *)
(* the resets of the slot do not overtake each other.                                    *)

\* The slot of the controller's configuration: sm and Linux are managed in it.
SlotConfigured == {Monitor, Loader} \subseteq Slot_1 /\ Slot_1 \subseteq Managed

\* A reset is due only for subjects that are up or have failed.
ErasSettled ==
  \A i \in Slot_1 : States[i].era # Era => States[i].state \in {"Running", "Error"}

\* In its first era a subject leaves its first wait when it is told to, and has an
\* epoch by then.
FirstEra ==
  \A i \in Managed :
    /\ States[i].state = "Resetting" => States[i].era > 0
    /\ States[i].state = "Start" => States[i].era = 0
    /\ States[i].state \in {"Start", "Initial"} /\ States[i].era = 0 =>
         pc[i] \in {"start", "sync"}
    /\ States[i].state # "Start" => States[i].epoch > 0

\* A subject that governs itself is told so, and is never reset.
SelfGoverned ==
  \A i \in (IDs \cap Self_Governed) \ {Time} :
    /\ States[i].state \in {"Start", "Initial", "Self_Control", "Finished", "Error"}
    /\ Decided(i) => /\ ctrl.new \in {"Initial", "Self_Control", "Finished", "Error"}
                     /\ States[i].state = "Start" => ctrl.new = "Initial"
    /\ Command[i] \in {"NOP", "SELF_CTRL"}
    /\ Command[i] = "NOP" => States[i].state = "Start" /\ pc[i] \in {"start", "sync"}
    /\ Command[i] # "NOP" => States[i].epoch > 0

\* The code of the monitor up to its main loop.
Beginning == {"start", "sync", "synced", "erase_or_prepare", "erasing", "erase", "prepare",
              "preparing", "setup", "validate", "validating", "check", "run",
              "initializing", "running", "main"}

\* The instance of the monitor that is to be reset has loaded Linux, and does not do it
\* again; the loader is reset in the same round.
Due == States[Monitor].era # Era \/ ResetPending
OldInstance ==
  /\ Due =>
       /\ pc[Monitor] \in {"serve", "loaded", "resume", "halt"}
       /\ ~Has_Error(Status[Monitor])
       /\ pc[Monitor] = "serve" /\ active = "sm" => Exit_Reason = "other"
       /\ pc[Monitor] = "serve" => linux = "ready" \/ "sm" \in resets
       /\ active = "sl" => pc[Loader] \notin {"start", "sync"}
       /\ Status[Loader] # State("INITIAL")
       /\ "linux" \in resets => "sm" \in resets
  /\ States[Monitor].era # Era \/ ResetPending =>
       States[Loader].era # Era \/ States[Loader].state \in {"Resetting", "Initial"}

\* The new instance waits for its command until the controller has reset both.
NewInstance ==
  /\ States[Monitor].state \in {"Start", "Resetting", "Initial"} =>
       ResetPending \/ pc[Monitor] \in {"start", "sync"}
  /\ pc[Monitor] # "start_linux"
  /\ ctrl.at = "events" => States[Monitor].state = "Resetting"
  /\ States[Loader].era # Era =>
       /\ \/ ctrl.at = "clear"
          \/ ctrl.at = "events" /\ Monitor < Loader
          \/ ctrl.at \in {"read", "perform"} /\ ctrl.id <= Loader
       /\ Decided(Loader) => ctrl.new = "Resetting"
       /\ States[Monitor].era = Era =>
            /\ States[Monitor].state = "Resetting"
            /\ ctrl.at = "events" \/ (ctrl.at \in {"read", "perform"} /\ Monitor < ctrl.id)

\* Until the monitor has Linux loaded, the machine of the loader waits for sl.
BeforeLoad ==
  \/ pc[Monitor] \in Beginning \cup {"failed", "load"}
  \/ pc[Monitor] = "halt" /\ Has_Error(Status[Monitor])
  \/ pc[Monitor] = "serve" /\ (linux = "initial" \/ "linux" \in resets)
Loading ==
  /\ BeforeLoad =>
       /\ active # "sl"
       /\ \/ States[Loader].era # Era \/ States[Loader].state \in {"Start", "Resetting", "Initial"}
          \/ States[Loader].state = "Syncing" /\ Status[Loader] = State("INITIAL")
  /\ active = "sl" =>
       /\ pc[Monitor] = "loaded"
       /\ pc[Loader] \in {"start", "sync"} =>
            States[Loader].state \in {"Start", "Resetting", "Initial", "Syncing"}
  /\ Status[Loader] = State("INITIAL") =>
       States[Loader].state \in {"Start", "Resetting", "Initial", "Syncing"}

\* Linux is reset with its monitor, and before the monitor serves it.
LinuxReset ==
  /\ pc[Monitor] \in Beginning \cup {"failed"} =>
       linux = "initial" \/ "linux" \in resets \/ ctrl.at = "events"
  /\ "sm" \in resets /\ ctrl.at # "events" =>
       "linux" \in resets \/ (active = "linux" /\ linux = "initial")
  /\ pc[Monitor] = "serve" /\ active = "sm" /\ linux = "ready" /\ "linux" \notin resets =>
       Exit_Reason = "other"
  /\ pc[Monitor] = "resume" => linux = "ready" /\ active = "sm"
  /\ pc[Monitor] \in {"load", "loaded", "resume", "halt"} /\ ~Has_Error(Status[Monitor])
     /\ "linux" \in resets => "sm" \in resets

\* The epoch of a subject that has yet to start is new to it.
EpochUnused ==
  /\ \A i \in IDs \ {Monitor} : pc[i] # "serve" => used[i] = 0
  /\ used[Monitor] <= Epoch[Monitor]
  /\ \/ States[Monitor].state = "Initial"
     \/ pc[Monitor] \in Beginning /\ States[Monitor].state \notin {"Start", "Resetting"}
     => used[Monitor] < Epoch[Monitor]

\* Only a subject of the slot other than the monitor is ever confused, while it is reset.
Confused ==
  \A i \in IDs :
    Status[i][2] = "unexpected" =>
      /\ i \in Slot_1 \ {Monitor}
      /\ States[i].state \in {"Resetting", "Initial"} /\ States[i].era > 0

SlotInv ==
  /\ ErasSettled /\ FirstEra /\ SelfGoverned /\ OldInstance /\ NewInstance
  /\ Loading /\ LinuxReset /\ EpochUnused /\ Confused

\* The roles of the slot.
LEMMA SlotFacts ==
  ASSUME SlotConfigured
  PROVE  /\ Monitor \in Managed /\ Loader \in Managed /\ Monitor # Loader
         /\ Monitor \in Slot_1 /\ Loader \in Slot_1 /\ Slot_1 \subseteq IDs
         /\ Monitor \in IDs /\ Loader \in IDs /\ Managed \subseteq IDs
         /\ \A i \in Slot_1 : Get_Current_Era(i) = Era
         /\ \A i \in IDs \ Slot_1 : Get_Current_Era(i) = 0
  BY IDFacts DEF SlotConfigured, Managed, Get_Current_Era

\* Before the first step nothing was reset.
LEMMA SlotInit == SlotConfigured /\ Init => SlotInv
<1> SUFFICES ASSUME SlotConfigured, Init PROVE SlotInv
  OBVIOUS
<1> USE DEF Init
<1>1. \A i \in IDs : /\ States[i].state = "Start" /\ States[i].era = 0 /\ States[i].epoch = 0
                     /\ pc[i] = "start" /\ Command[i] = "NOP" /\ used[i] = 0 /\ Epoch[i] = 0
                     /\ Status[i] = State("INITIAL") /\ ~Decided(i)
  BY DEF Decided
<1>2. ~Has_Error(State("INITIAL")) /\ State("INITIAL")[2] # "unexpected"
  BY DEF State, Has_Error
<1>3. ErasSettled /\ FirstEra /\ SelfGoverned
  BY <1>1, SlotFacts DEF ErasSettled, FirstEra, SelfGoverned
<1>4. OldInstance /\ NewInstance
  BY <1>1, SlotFacts DEF OldInstance, NewInstance, Due, ResetPending
<1>5. Loading /\ LinuxReset
  BY <1>1, SlotFacts DEF Loading, BeforeLoad, LinuxReset
<1>6. EpochUnused /\ Confused
  BY <1>1, <1>2, SlotFacts DEF EpochUnused, Confused
<1> QED BY <1>3, <1>4, <1>5, <1>6 DEF SlotInv

-----------------------------------------------------------------------------
(* The steps of the subjects, with calm eras *)

Between == Beginning \ {"start", "sync", "main"}

\* The way of a subject from its first instruction to its code.
OnItsWay(i, label, s) ==
  \/ /\ pc[i] = "start" /\ label = IF i = Time THEN "publish" ELSE "sync"
     /\ s = State("INITIAL") /\ used' = used
  \/ pc[i] = "sync" /\ Command[i] # "NOP" /\ label = "synced" /\ s = Status[i] /\ used' = used
  \/ /\ pc[i] \in Between /\ label \in Between \cup {"main", "start_linux"} /\ used' = used
     /\ s = Status[i] \/ (s # State("INITIAL") /\ s[2] = "ok")
  \/ pc[i] = "main" /\ label = "serve" /\ s = Status[i] /\ used' = [used EXCEPT ![i] = Epoch[i]]
  \/ /\ pc[i] \in Between /\ label = "failed" /\ used' = used
     /\ Has_Error(s) /\ s[2] # "unexpected"
  \/ /\ pc[i] \in {"sync", "erase_or_prepare", "prepare", "validate", "run"}
     /\ label = "failed" /\ used' = used /\ Has_Error(s)
     /\ \/ pc[i] = "sync" /\ Command[i] \notin {"NOP", "SYNC", "SELF_CTRL"}
        \/ pc[i] = "erase_or_prepare" /\ Command[i] \notin {"SYNC", "ERASE", "PREPARE", "SELF_CTRL"}
        \/ pc[i] = "prepare" /\ Command[i] \notin {"ERASE", "PREPARE", "SELF_CTRL"}
        \/ pc[i] = "validate" /\ Command[i] \notin {"PREPARE", "VALIDATE", "SELF_CTRL"}
        \/ pc[i] = "run" /\ Command[i] \notin {"VALIDATE", "RUN", "SELF_CTRL"}
  \/ pc[i] = "failed" /\ label \in {"halt", "start_linux"} /\ s = Status[i] /\ used' = used
  \/ pc[i] = "publish" /\ label = "halt" /\ s = State("FINISHED") /\ used' = used

\* Every step of a subject is one on its way.
LEMMA SubjectMoves ==
  ASSUME LifecycleInv, NEW i \in IDs, Initialize(i)
  PROVE  \E label, s :
           /\ OnItsWay(i, label, s) /\ Runs(i)
           /\ i = Loader => label # "main"
           /\ i # Loader => label # "start_linux"
           /\ pc' = [pc EXCEPT ![i] = label] /\ Status' = [Status EXCEPT ![i] = s]
           /\ UNCHANGED <<controller, Pending, group>>
<1> DEFINE Goal(label, s) ==
           /\ OnItsWay(i, label, s) /\ Runs(i)
           /\ i = Loader => label # "main"
           /\ i # Loader => label # "start_linux"
           /\ pc' = [pc EXCEPT ![i] = label] /\ Status' = [Status EXCEPT ![i] = s]
           /\ UNCHANGED <<controller, Pending, group>>
<1> SUFFICES \E label, s : Goal(label, s)
  OBVIOUS
<1>0. Status = [Status EXCEPT ![i] = Status[i]]
  BY DEF LifecycleInv, TypeOK
<1> USE DEF OnItsWay, Between, Beginning, Goto, Report
<1>1. CASE Status_Initialize(i)
  <2>1. Goal(IF i = Time THEN "publish" ELSE "sync", State("INITIAL"))
    BY <1>1 DEF Status_Initialize
  <2> QED BY <2>1
<1>2. CASE Status_Set(i)
  <2>1. PICK l \in DOMAIN Announced : pc[i] = l
    BY <1>2 DEF Status_Set
  <2>2. /\ Announced[l].to \in Between \cup {"main"} /\ l \in Between
        /\ State(Announced[l].state) # State("INITIAL") /\ State(Announced[l].state)[2] = "ok"
        /\ Announced[l].to # "main"
    BY DEF Announced, State
  <2>3. Goal(Announced[l].to, State(Announced[l].state))
    BY <1>2, <2>1, <2>2 DEF Status_Set
  <2> QED BY <2>3
<1>3. CASE Clear_Writable(i)
  <2>1. State("ERASED") # State("INITIAL") /\ State("ERASED")[2] = "ok"
    BY DEF State
  <2>2. Goal("prepare", State("ERASED"))
    BY <1>3, <2>1 DEF Clear_Writable
  <2> QED BY <2>2
<1>4. CASE Setup_Writable(i)
  <2>1. State("PREPARED") # State("INITIAL") /\ State("PREPARED")[2] = "ok"
    BY DEF State
  <2>2. Goal("validate", State("PREPARED"))
    BY <1>4, <2>1 DEF Setup_Writable
  <2> QED BY <2>2
<1>5. CASE Check_Hashes(i)
  <2>1. State("VALIDATED") # State("INITIAL") /\ State("VALIDATED")[2] = "ok"
    BY DEF State
  <2>2. Goal("run", State("VALIDATED"))
    BY <1>5, <2>1 DEF Check_Hashes
  <2> QED BY <2>2
<1>6. CASE Memory_Error(i)
  <2>1. LET s == Error(Status[i], "error") IN Has_Error(s) /\ s[2] # "unexpected"
    BY DEF Error, Has_Error
  <2>2. Goal("failed", Error(Status[i], "error"))
    BY <1>6, <2>1 DEF Memory_Error
  <2> QED BY <2>2
<1>7. CASE Set_Running(i)
  <2>1. State("RUNNING") # State("INITIAL") /\ State("RUNNING")[2] = "ok"
    BY DEF State
  <2>2. Goal(IF i = Loader THEN "start_linux" ELSE "main", State("RUNNING"))
    BY <1>7, <2>1 DEF Set_Running
  <2> QED BY <2>2
<1>8. CASE Init_Failed(i)
  <2>1. Goal(IF i = Loader THEN "start_linux" ELSE "halt", Status[i])
    BY <1>0, <1>8 DEF Init_Failed
  <2> QED BY <2>1
<1>9. CASE Main(i)
  <2>1. Goal("serve", Status[i])
    BY <1>0, <1>9 DEF Main
  <2> QED BY <2>1
<1>10. CASE Publish(i)
  <2>1. Goal("halt", State("FINISHED"))
    BY <1>10, IDFacts DEF Publish, Runs
  <2> QED BY <2>1
<1>11. CASE Wait_For_Next(i)
  <2> DEFINE to == Leads(pc[i], Command[i])
             s == IF to = "failed" THEN Error(Status[i], "unexpected") ELSE Status[i]
  <2>0. /\ pc' = [pc EXCEPT ![i] = to] /\ Status' = [Status EXCEPT ![i] = s]
        /\ UNCHANGED <<controller, Pending, group>> /\ used' = used /\ Runs(i)
    BY <1>0, <1>11 DEF Wait_For_Next
  <2>1. \/ pc[i] = "sync" /\ Command[i] \in {"SYNC", "SELF_CTRL"} /\ to = "synced"
        \/ pc[i] = "erase_or_prepare" /\ Command[i] = "ERASE" /\ to = "erasing"
        \/ /\ pc[i] \in {"erase_or_prepare", "prepare"} /\ Command[i] \in {"PREPARE", "SELF_CTRL"}
           /\ to = "preparing"
        \/ pc[i] = "validate" /\ Command[i] \in {"VALIDATE", "SELF_CTRL"} /\ to = "validating"
        \/ pc[i] = "run" /\ Command[i] \in {"RUN", "SELF_CTRL"} /\ to = "initializing"
        \/ /\ to = "failed"
           /\ \/ pc[i] = "sync" /\ Command[i] \notin {"NOP", "SYNC", "SELF_CTRL"}
              \/ pc[i] = "erase_or_prepare" /\ Command[i] \notin {"SYNC", "ERASE", "PREPARE", "SELF_CTRL"}
              \/ pc[i] = "prepare" /\ Command[i] \notin {"ERASE", "PREPARE", "SELF_CTRL"}
              \/ pc[i] = "validate" /\ Command[i] \notin {"PREPARE", "VALIDATE", "SELF_CTRL"}
              \/ pc[i] = "run" /\ Command[i] \notin {"VALIDATE", "RUN", "SELF_CTRL"}
    <3>1. pc[i] \in DOMAIN Current /\ Command[i] # Current[pc[i]]
      BY <1>11 DEF Wait_For_Next
    <3> QED BY <3>1 DEF Current, Leads
  <2> HIDE DEF to
  <2>2. to = "failed" => Has_Error(s)
    BY DEF Error, Has_Error
  <2>3. Goal(to, s)
    BY <2>0, <2>1, <2>2
  <2> QED BY <2>3
<1> QED BY <1>1, <1>2, <1>3, <1>4, <1>5, <1>6, <1>7, <1>8, <1>9, <1>10, <1>11 DEF Initialize

\* With the slot settled when an era begins the monitor is never reset on its way to its code: a
\* reset that is due finds it past that.
LEMMA MonitorUndisturbed ==
  ASSUME SlotConfigured, LifecycleInv, SlotInv, pc[Monitor] \in Beginning \cup {"failed"}
  PROVE  /\ ~Due
         /\ pc[Monitor] \notin {"start", "sync"} =>
              /\ States[Monitor].state \notin {"Start", "Resetting", "Initial"}
              /\ ctrl.at # "events"
  BY SlotFacts DEF SlotInv, OldInstance, NewInstance, Due, Beginning, LifecycleInv,
     ResetExpected, ResetPending

\* A step of a subject keeps what relates the slot to its resets.
LEMMA SlotSubject ==
  ASSUME SlotConfigured, LifecycleInv, LifecycleInv', SlotInv, NEW i \in IDs, Initialize(i)
  PROVE  SlotInv'
<1>1. PICK label, s :
           /\ OnItsWay(i, label, s) /\ Runs(i)
           /\ i = Loader => label # "main"
           /\ i # Loader => label # "start_linux"
           /\ pc' = [pc EXCEPT ![i] = label] /\ Status' = [Status EXCEPT ![i] = s]
           /\ UNCHANGED <<controller, Pending, group>>
  BY SubjectMoves
<1>2. /\ \A j \in IDs : /\ pc'[j] = IF j = i THEN label ELSE pc[j]
                        /\ Status'[j] = IF j = i THEN s ELSE Status[j]
      /\ States' = States /\ ctrl' = ctrl /\ Command' = Command /\ Epoch' = Epoch /\ Era' = Era
      /\ Pending' = Pending /\ active' = active /\ resets' = resets /\ linux' = linux
      /\ Exit_Reason' = Exit_Reason
  BY <1>1 DEF LifecycleInv, TypeOK, controller, group
<1>3. \A j \in IDs : Decided(j)' = Decided(j)
  BY <1>2 DEF Decided
<1>4. ResetPending' = ResetPending /\ Due' = Due
  BY <1>2 DEF ResetPending, Due
<1>5. i = Loader => active = "sl" /\ pc[Monitor] = "loaded" /\ ~BeforeLoad
  BY <1>1, SlotFacts DEF Runs, SlotInv, Loading, BeforeLoad, Beginning
<1>6. i = Monitor => active = "sm" /\ pc[i] \in Beginning \cup {"failed"}
  BY <1>1, IDFacts, SlotFacts DEF Runs, OnItsWay, Between, Beginning, LifecycleInv, InStep, Agrees
<1>7. ErasSettled'
  BY <1>2 DEF SlotInv, ErasSettled
<1>8. FirstEra'
  <2>1. ASSUME i \in Managed, States[i].state \in {"Start", "Initial"}, States[i].era = 0
        PROVE  label \in {"start", "sync"}
    <3>1. pc[i] \in {"start", "sync"} /\ Command[i] = "NOP" /\ label # "publish"
      BY <1>2, <2>1, SlotFacts DEF SlotInv, FirstEra, LifecycleInv, CommandsShown, Shows, InStep, Agrees
    <3> QED BY <1>1, <3>1 DEF OnItsWay, Between, Beginning
  <2> QED BY <1>2, <2>1, SlotFacts DEF SlotInv, FirstEra
<1>9. SelfGoverned'
  <2>1. ASSUME i \in (IDs \cap Self_Governed) \ {Time}, Command[i] = "NOP"
        PROVE  label \in {"start", "sync"}
    <3>1. pc[i] \in {"start", "sync"}
      BY <2>1 DEF SlotInv, SelfGoverned
    <3> QED BY <1>1, <2>1, <3>1 DEF OnItsWay, Between, Beginning
  <2> QED BY <1>2, <1>3, <2>1 DEF SlotInv, SelfGoverned
<1>10. OldInstance'
  <2>1. Due => i # Monitor
    BY <1>6, MonitorUndisturbed
  <2>2. Due /\ i = Loader => label \notin {"start", "sync"} /\ s # State("INITIAL")
    BY <1>1, <1>5, SlotFacts DEF OnItsWay, Between, Beginning, SlotInv, OldInstance, Has_Error, State
  <2> QED BY <1>2, <1>4, <2>1, <2>2, SlotFacts DEF SlotInv, OldInstance
<1>11. NewInstance'
  <2>1. i = Monitor /\ States[i].state \in {"Start", "Resetting", "Initial"} =>
          label \in {"start", "sync"}
    <3> SUFFICES ASSUME i = Monitor, States[i].state \in {"Start", "Resetting", "Initial"}
                 PROVE  label \in {"start", "sync"}
      OBVIOUS
    <3>1. pc[i] \in {"start", "sync"} /\ Command[i] = "NOP" /\ label # "publish"
      BY <1>2, <1>6, MonitorUndisturbed, SlotFacts
         DEF SlotInv, LifecycleInv, CommandsShown, Shows, InStep, Agrees
    <3> QED BY <1>1, <3>1 DEF OnItsWay, Between, Beginning
  <2> QED BY <1>1, <1>2, <1>3, <1>4, <2>1, SlotFacts DEF SlotInv, NewInstance
<1>12. Loading'
  <2>1. i = Monitor => BeforeLoad
    BY <1>6 DEF BeforeLoad
  <2>2. i # Monitor => BeforeLoad' = BeforeLoad
    BY <1>2, SlotFacts DEF BeforeLoad
  <2>5. i = Loader => label # "start" /\ (label = "sync" => pc[Loader] = "start")
    BY <1>1 DEF OnItsWay, Between, Beginning
  <2>6. i = Loader /\ s = State("INITIAL") => Status[Loader] = s \/ pc[Loader] = "start"
    BY <1>1 DEF OnItsWay, State, Has_Error
  <2> QED BY <1>2, <1>5, <1>6, <2>1, <2>2, <2>5, <2>6, SlotFacts DEF SlotInv, Loading
<1>13. LinuxReset'
  <2>1. i = Monitor /\ label = "serve" =>
          pc[Monitor] = "main" /\ (linux = "initial" \/ "linux" \in resets)
    BY <1>1, <1>6, MonitorUndisturbed, SlotFacts DEF OnItsWay, Between, Beginning, SlotInv, LinuxReset
  <2>2. i = Monitor => label \notin {"load", "loaded", "resume"}
    BY <1>1 DEF OnItsWay, Between, Beginning
  <2>3. i = Monitor /\ label = "halt" => Has_Error(s)
    BY <1>1, <1>6, SlotFacts DEF OnItsWay, Between, Beginning, LifecycleInv, InStep, Agrees
  <2> QED BY <1>2, <1>6, <2>1, <2>2, <2>3, SlotFacts DEF SlotInv, LinuxReset
<1>14. EpochUnused'
  <2>1. CASE pc[i] = "main"
    <3>1. label = "serve" /\ used' = [used EXCEPT ![i] = Epoch[i]]
      BY <1>1, <2>1 DEF OnItsWay, Between, Beginning
    <3>2. \A j \in IDs : used'[j] = IF j = i THEN Epoch[i] ELSE used[j]
      BY <3>1 DEF LifecycleInv, TypeOK
    <3>3. Epoch[Monitor] \in Nat
      BY SlotFacts, ConfigAssumption DEF LifecycleInv, TypeOK
    <3>4. i = Monitor => States[Monitor].state # "Initial"
      BY <2>1, MonitorUndisturbed DEF Beginning
    <3> QED BY <1>2, <3>1, <3>2, <3>3, <3>4, SlotFacts DEF SlotInv, EpochUnused, Beginning
  <2>2. CASE pc[i] # "main"
    <3>1. used' = used /\ label # "serve"
      BY <1>1, <2>2 DEF OnItsWay, Between, Beginning
    <3>2. i # Monitor => pc[i] # "serve"
      BY <1>1 DEF OnItsWay, Between, Beginning
    <3>3. i = Monitor /\ label \in Beginning => pc[i] \in Beginning
      BY <1>1 DEF OnItsWay, Between, Beginning
    <3> QED BY <1>2, <3>1, <3>2, <3>3, SlotFacts DEF SlotInv, EpochUnused
  <2> QED BY <2>1, <2>2
<1>15. Confused'
  <2>1. ASSUME s[2] = "unexpected", s # Status[i]
        PROVE  /\ i \in Slot_1 \ {Monitor}
               /\ States[i].state \in {"Resetting", "Initial"} /\ States[i].era > 0
    <3>1. /\ \/ pc[i] = "sync" /\ Command[i] \notin {"NOP", "SYNC", "SELF_CTRL"}
             \/ pc[i] = "erase_or_prepare" /\ Command[i] \notin {"SYNC", "ERASE", "PREPARE", "SELF_CTRL"}
             \/ pc[i] = "prepare" /\ Command[i] \notin {"ERASE", "PREPARE", "SELF_CTRL"}
             \/ pc[i] = "validate" /\ Command[i] \notin {"PREPARE", "VALIDATE", "SELF_CTRL"}
             \/ pc[i] = "run" /\ Command[i] \notin {"VALIDATE", "RUN", "SELF_CTRL"}
      BY <1>1, <2>1 DEF OnItsWay, State
    <3>2. i # Time
      BY <3>1 DEF LifecycleInv, FinishedForGood
    <3>3. i \in Managed
      BY <3>1, <3>2 DEF SlotInv, SelfGoverned, Managed
    <3>4. Shows(States[i].state, Command[i]) /\ States[i].state \in FSM
          /\ Agrees(i, pc[i], Status[i], States[i].state)
      BY <3>3, SlotFacts DEF LifecycleInv, CommandsShown, InStep, TypeOK
    <3>5. pc[i] = "sync" => States[i].state \in {"Start", "Resetting", "Initial", "Syncing"}
      BY <1>5, <3>3 DEF LifecycleInv, ResetExpected, SlotInv, Loading
    <3>6. pc[i] = "run" /\ States[i].state \in {"Resetting", "Initial"}
      BY <3>1, <3>4, <3>5 DEF Shows, Agrees, Late, FSM
    <3>7. i # Monitor
      BY <3>6, MonitorUndisturbed DEF Beginning
    <3>8. States[i].era # 0
      BY <3>3, <3>6, SlotFacts DEF SlotInv, FirstEra
    <3>9. States[i].era \in Nat /\ States[i].era <= Get_Current_Era(i)
      BY ConfigAssumption DEF LifecycleInv, TypeOK, ErasCounted
    <3>10. i \in Slot_1
      BY <3>8, <3>9, SlotFacts
    <3> QED BY <3>6, <3>7, <3>8, <3>9, <3>10
  <2> QED BY <1>2, <2>1 DEF SlotInv, Confused
<1> QED BY <1>7, <1>8, <1>9, <1>10, <1>11, <1>12, <1>13, <1>14, <1>15 DEF SlotInv

-----------------------------------------------------------------------------
(* The steps of the group, with calm eras *)

\* The monitor goes on in its loop, or is reset because that is pending; the loader
\* keeps its place, or hands over.
GroupMove(lm, ll) ==
  /\ \A j \in IDs : pc'[j] = IF j = Monitor THEN lm ELSE IF j = Loader THEN ll ELSE pc[j]
  /\ \/ lm = pc[Monitor] /\ ("sm" \in resets' <=> "sm" \in resets)
     \/ /\ pc[Monitor] \in Working /\ lm \in Working \cup {"halt"}
        /\ "sm" \in resets' <=> "sm" \in resets
     \/ lm = "start" /\ "sm" \in resets \ resets'
  /\ ll = pc[Loader] \/ (pc[Loader] = "start_linux" /\ ll = "start")

\* Such a step leaves what does not concern Linux.
LEMMA SlotGroup ==
  ASSUME SlotConfigured, LifecycleInv, SlotInv, NEW lm, NEW ll, GroupMove(lm, ll),
         UNCHANGED <<controller, Pending, Status, used>>
  PROVE  /\ ErasSettled' /\ FirstEra' /\ SelfGoverned' /\ NewInstance' /\ EpochUnused'
         /\ Confused'
         /\ States' = States /\ Era' = Era /\ ctrl' = ctrl /\ Pending' = Pending /\ Status' = Status
         /\ "sm" \notin resets \ resets' => ResetPending' = ResetPending /\ Due' = Due
         /\ "sm" \in resets \ resets' =>
              /\ ~ResetPending' /\ ~Due' /\ pc[Monitor] \notin {"start", "sync"}
              /\ States[Monitor].era = Era
              /\ States[Loader].era # Era \/ States[Loader].state \in {"Resetting", "Initial"}
<1>1. /\ States' = States /\ Era' = Era /\ ctrl' = ctrl /\ Pending' = Pending /\ Status' = Status
      /\ Command' = Command /\ Epoch' = Epoch /\ used' = used
  BY DEF controller
<1>2. \A j \in IDs : Decided(j)' = Decided(j)
  BY <1>1 DEF Decided
<1>3. "sm" \in resets \ resets' =>
        /\ ~ResetPending' /\ pc[Monitor] \notin {"start", "sync"}
        /\ States[Monitor].state \in {"Resetting", "Initial"}
        /\ States[Loader].era # Era \/ States[Loader].state \in {"Resetting", "Initial"}
  BY <1>1, SlotFacts DEF GroupMove, Working, LifecycleInv, ResetExpected, ResetPending, SlotInv,
     OldInstance
<1>4. "sm" \notin resets \ resets' => ResetPending' = ResetPending
  BY <1>1 DEF GroupMove, ResetPending
<1>5. "sm" \notin resets \ resets' => Due' = Due
  BY <1>1, <1>4 DEF Due
<1>6. "sm" \in resets \ resets' => ~Due' /\ States[Monitor].era = Era
  <2>1. States[Monitor].state \in {"Resetting", "Initial"} => States[Monitor].era = Era
    BY SlotFacts DEF SlotInv, ErasSettled
  <2> QED BY <1>1, <1>3, <2>1 DEF Due
<1>7. ErasSettled'
  BY <1>1 DEF SlotInv, ErasSettled
<1>8. FirstEra'
  BY <1>1, SlotFacts DEF SlotInv, FirstEra, GroupMove, Working
<1>9. SelfGoverned'
  BY <1>1, <1>2, SlotFacts DEF SlotInv, SelfGoverned, GroupMove, Managed
<1>10. NewInstance'
  BY <1>1, <1>2, <1>3, <1>4, SlotFacts DEF SlotInv, NewInstance, GroupMove, Working
<1>11. EpochUnused'
  <2>1. lm \in Beginning => lm = pc[Monitor] \/ States[Monitor].state \in {"Resetting", "Initial"}
    BY <1>3 DEF GroupMove, Beginning, Working
  <2> QED BY <1>1, <2>1, SlotFacts DEF SlotInv, EpochUnused, GroupMove
<1>12. Confused'
  BY <1>1 DEF SlotInv, Confused
<1> QED BY <1>1, <1>3, <1>4, <1>5, <1>6, <1>7, <1>8, <1>9, <1>10, <1>11, <1>12

\* The kernel handles a reset of the member that runs, ...
LEMMA SlotHandle_Reset ==
  ASSUME SlotConfigured, LifecycleInv, LifecycleInv', SlotInv, Handle_Reset
  PROVE  SlotInv'
<1> DEFINE lm == IF active = "sm" THEN "start" ELSE pc[Monitor]
           ll == pc[Loader]
<1>1. /\ active' = active /\ resets' = resets \ {active} /\ Exit_Reason' = Exit_Reason
      /\ active \in resets /\ active \in {"linux", "sm"}
      /\ linux' = IF active = "linux" THEN "initial" ELSE linux
      /\ UNCHANGED <<controller, Pending, Status, used>>
  BY DEF Handle_Reset, Handover, LifecycleInv, TypeOK
<1>2. GroupMove(lm, ll)
  BY <1>1, SlotFacts DEF Handle_Reset, Handover, GroupMove, LifecycleInv, TypeOK
<1>3. pc'[Monitor] = lm /\ pc'[Loader] = ll
  BY <1>2, SlotFacts DEF GroupMove
<1> HIDE DEF ll
<1>4. OldInstance'
  BY <1>1, <1>2, <1>3, SlotGroup, SlotFacts DEF SlotInv, OldInstance
<1>5. Loading'
  BY <1>1, <1>2, <1>3, SlotGroup, SlotFacts DEF SlotInv, Loading, BeforeLoad, Beginning, OldInstance
<1>6. LinuxReset'
  BY <1>1, <1>2, <1>3, SlotGroup, SlotFacts DEF SlotInv, LinuxReset, Beginning
<1> QED BY <1>1, <1>2, <1>4, <1>5, <1>6, SlotGroup DEF SlotInv

\* ... Linux traps into the monitor, ...
LEMMA SlotLinux_Trap ==
  ASSUME SlotConfigured, LifecycleInv, LifecycleInv', SlotInv, Linux_Trap
  PROVE  SlotInv'
<1> DEFINE lm == IF "sm" \in resets THEN "start" ELSE pc[Monitor]
           ll == pc[Loader]
<1>1. /\ active = "linux" /\ active' = "sm" /\ resets' = resets \ {"sm"} /\ linux' = linux
      /\ Exit_Reason' = IF linux = "initial" THEN "invalid" ELSE "other"
      /\ UNCHANGED <<controller, Pending, Status, used>>
  BY DEF Linux_Trap, Handover, SM, LifecycleInv, TypeOK
<1>2. GroupMove(lm, ll)
  BY <1>1, SlotFacts DEF Linux_Trap, Handover, At, SM, GroupMove, Working, LifecycleInv, TypeOK
<1>3. pc'[Monitor] = lm /\ pc'[Loader] = ll
  BY <1>2, SlotFacts DEF GroupMove
<1>0. pc[Monitor] \in Beginning \cup {"failed"} => ~Due
  BY MonitorUndisturbed
<1> HIDE DEF ll
<1>4. OldInstance'
  BY <1>0, <1>1, <1>2, <1>3, SlotGroup, SlotFacts DEF SlotInv, OldInstance, LinuxReset
<1>5. Loading'
  BY <1>1, <1>2, <1>3, SlotGroup, SlotFacts
     DEF SlotInv, Loading, BeforeLoad, Beginning, OldInstance, LinuxReset
<1>6. LinuxReset'
  BY <1>1, <1>2, <1>3, SlotGroup, SlotFacts
     DEF SlotInv, LinuxReset, Beginning, LifecycleInv, InStep, Agrees
<1> QED BY <1>1, <1>2, <1>4, <1>5, <1>6, SlotGroup DEF SlotInv

\* ... which serves it, ...
LEMMA SlotSm_Service ==
  ASSUME SlotConfigured, LifecycleInv, LifecycleInv', SlotInv, Sm_Service
  PROVE  SlotInv'
<1> DEFINE lm == pc[Monitor]
           ll == pc[Loader]
<1>1. /\ active = "sm" /\ pc[Monitor] = "serve" /\ Exit_Reason = "other" /\ Exit_Reason' = Exit_Reason
      /\ active' = "linux" /\ resets' = resets \ {"linux"}
      /\ linux' = IF "linux" \in resets THEN "initial" ELSE linux
      /\ UNCHANGED <<controller, Pending, Status, used>>
  BY DEF Sm_Service, Handover, SM, LifecycleInv, TypeOK
<1>2. GroupMove(lm, ll)
  BY <1>1, SlotFacts DEF Sm_Service, Handover, At, SM, GroupMove, Working, LifecycleInv, TypeOK
<1>3. pc'[Monitor] = lm /\ pc'[Loader] = ll
  BY <1>2, SlotFacts DEF GroupMove
<1>0. pc[Monitor] \in Beginning \cup {"failed"} => ~Due
  BY MonitorUndisturbed
<1> HIDE DEF ll
<1>4. OldInstance'
  BY <1>0, <1>1, <1>2, <1>3, SlotGroup, SlotFacts DEF SlotInv, OldInstance, LinuxReset
<1>5. Loading'
  BY <1>1, <1>2, <1>3, SlotGroup, SlotFacts
     DEF SlotInv, Loading, BeforeLoad, Beginning, OldInstance, LinuxReset
<1>6. LinuxReset'
  BY <1>1, <1>2, <1>3, SlotGroup, SlotFacts
     DEF SlotInv, LinuxReset, Beginning, LifecycleInv, InStep, Agrees
<1> QED BY <1>1, <1>2, <1>4, <1>5, <1>6, SlotGroup DEF SlotInv

\* ... or resets it to load it, ...
LEMMA SlotSm_Reset_Linux ==
  ASSUME SlotConfigured, LifecycleInv, LifecycleInv', SlotInv, Sm_Reset_Linux
  PROVE  SlotInv'
<1> DEFINE lm == "load"
           ll == pc[Loader]
<1>1. /\ active = "sm" /\ pc[Monitor] = "serve" /\ Exit_Reason = "invalid" /\ Exit_Reason' = Exit_Reason
      /\ active' = "linux" /\ resets' = resets \ {"linux"} /\ linux' = "initial"
      /\ UNCHANGED <<controller, Pending, Status, used>>
  BY DEF Sm_Reset_Linux, Handover, SM, LifecycleInv, TypeOK
<1>2. GroupMove(lm, ll)
  BY <1>1, SlotFacts DEF Sm_Reset_Linux, Handover, At, SM, GroupMove, Working, LifecycleInv, TypeOK
<1>3. pc'[Monitor] = lm /\ pc'[Loader] = ll
  BY <1>2, SlotFacts DEF GroupMove
<1>0. pc[Monitor] \in Beginning \cup {"failed"} => ~Due
  BY MonitorUndisturbed
<1> HIDE DEF ll
<1>4. OldInstance'
  BY <1>0, <1>1, <1>2, <1>3, SlotGroup, SlotFacts DEF SlotInv, OldInstance, LinuxReset
<1>5. Loading'
  <2>1. BeforeLoad
    BY <1>1 DEF SlotInv, LinuxReset, BeforeLoad, LifecycleInv, TypeOK
  <2> QED BY <1>1, <1>2, <1>3, <2>1, SlotGroup, SlotFacts
     DEF SlotInv, Loading, BeforeLoad, Beginning, OldInstance, LinuxReset
<1>6. LinuxReset'
  BY <1>1, <1>2, <1>3, SlotGroup, SlotFacts
     DEF SlotInv, LinuxReset, Beginning, LifecycleInv, InStep, Agrees
<1> QED BY <1>1, <1>2, <1>4, <1>5, <1>6, SlotGroup DEF SlotInv

\* ... hands over to sl, ...
LEMMA SlotSm_Load_Linux ==
  ASSUME SlotConfigured, LifecycleInv, LifecycleInv', SlotInv, Sm_Load_Linux
  PROVE  SlotInv'
<1> DEFINE lm == "loaded"
           ll == pc[Loader]
<1>1. /\ active = "sm" /\ pc[Monitor] = "load" /\ Exit_Reason' = Exit_Reason
      /\ active' = "sl" /\ resets' = resets /\ linux' = linux
      /\ UNCHANGED <<controller, Pending, Status, used>>
  BY DEF Sm_Load_Linux, Handover, SM, LifecycleInv, TypeOK
<1>2. GroupMove(lm, ll)
  BY <1>1, SlotFacts DEF Sm_Load_Linux, Handover, At, SM, GroupMove, Working, LifecycleInv, TypeOK
<1>3. pc'[Monitor] = lm /\ pc'[Loader] = ll
  BY <1>2, SlotFacts DEF GroupMove
<1>0. pc[Monitor] \in Beginning \cup {"failed"} => ~Due
  BY MonitorUndisturbed
<1> HIDE DEF ll
<1>4. OldInstance'
  BY <1>0, <1>1, <1>2, <1>3, SlotGroup, SlotFacts DEF SlotInv, OldInstance, LinuxReset
<1>5. Loading'
  <2>1. /\ BeforeLoad /\ ~Due /\ pc[Monitor] \notin {"start", "sync"}
    BY <1>1 DEF BeforeLoad, SlotInv, OldInstance
  <2>2. States[Loader].era = Era
    BY <2>1 DEF Due, SlotInv, NewInstance
  <2> QED BY <1>1, <1>2, <1>3, <2>1, <2>2, SlotGroup, SlotFacts
     DEF SlotInv, Loading, BeforeLoad, Beginning, OldInstance, LinuxReset
<1>6. LinuxReset'
  BY <1>1, <1>2, <1>3, SlotGroup, SlotFacts
     DEF SlotInv, LinuxReset, Beginning, LifecycleInv, InStep, Agrees
<1> QED BY <1>1, <1>2, <1>4, <1>5, <1>6, SlotGroup DEF SlotInv

\* ... looks at the result ...
LEMMA SlotSm_Loaded ==
  ASSUME SlotConfigured, LifecycleInv, LifecycleInv', SlotInv, Sm_Loaded
  PROVE  SlotInv'
<1> DEFINE lm == IF Status[Loader] = State("RUNNING") THEN "resume" ELSE "halt"
           ll == pc[Loader]
<1>1. /\ active = "sm" /\ pc[Monitor] = "loaded" /\ Exit_Reason' = Exit_Reason
      /\ active' = "sm" /\ resets' = resets
      /\ linux' = IF Status[Loader] = State("RUNNING") THEN "ready" ELSE linux
      /\ UNCHANGED <<controller, Pending, Status, used>>
  BY DEF Sm_Loaded, Handover, SM, LifecycleInv, TypeOK
<1>7. pc' = At(lm) /\ lm \in {"resume", "halt"}
  BY DEF Sm_Loaded
<1>8. ~Has_Error(Status[Monitor])
  BY <1>1, SlotFacts DEF LifecycleInv, InStep, Agrees, State, Has_Error
<1> HIDE DEF lm
<1>2. GroupMove(lm, ll)
  BY <1>1, <1>7, SlotFacts DEF At, SM, GroupMove, Working, LifecycleInv, TypeOK
<1>3. pc'[Monitor] = lm /\ pc'[Loader] = ll
  BY <1>2, SlotFacts DEF GroupMove
<1>0. pc[Monitor] \in Beginning \cup {"failed"} => ~Due
  BY MonitorUndisturbed
<1> HIDE DEF ll
<1> USE <1>7, <1>8 DEF lm
<1>4. OldInstance'
  BY <1>0, <1>1, <1>2, <1>3, SlotGroup, SlotFacts DEF SlotInv, OldInstance, LinuxReset
<1>5. Loading'
  BY <1>1, <1>2, <1>3, SlotGroup, SlotFacts
     DEF SlotInv, Loading, BeforeLoad, Beginning, OldInstance, LinuxReset
<1>6. LinuxReset'
  BY <1>1, <1>2, <1>3, SlotGroup, SlotFacts
     DEF SlotInv, LinuxReset, Beginning, LifecycleInv, InStep, Agrees
<1> QED BY <1>1, <1>2, <1>4, <1>5, <1>6, SlotGroup DEF SlotInv

\* ... and resumes it.
LEMMA SlotSm_Resume ==
  ASSUME SlotConfigured, LifecycleInv, LifecycleInv', SlotInv, Sm_Resume
  PROVE  SlotInv'
<1> DEFINE lm == "serve"
           ll == pc[Loader]
<1>1. /\ active = "sm" /\ pc[Monitor] = "resume" /\ Exit_Reason' = Exit_Reason
      /\ active' = "linux" /\ resets' = resets \ {"linux"}
      /\ linux' = IF "linux" \in resets THEN "initial" ELSE linux
      /\ UNCHANGED <<controller, Pending, Status, used>>
  BY DEF Sm_Resume, Handover, SM, LifecycleInv, TypeOK
<1>2. GroupMove(lm, ll)
  BY <1>1, SlotFacts DEF Sm_Resume, Handover, At, SM, GroupMove, Working, LifecycleInv, TypeOK
<1>3. pc'[Monitor] = lm /\ pc'[Loader] = ll
  BY <1>2, SlotFacts DEF GroupMove
<1>0. pc[Monitor] \in Beginning \cup {"failed"} => ~Due
  BY MonitorUndisturbed
<1> HIDE DEF ll
<1>4. OldInstance'
  BY <1>0, <1>1, <1>2, <1>3, SlotGroup, SlotFacts DEF SlotInv, OldInstance, LinuxReset
<1>5. Loading'
  <2>1. ~Has_Error(Status[Monitor])
    BY <1>1, SlotFacts DEF LifecycleInv, InStep, Agrees, State, Has_Error
  <2>2. "linux" \in resets => ResetPending
    BY <1>1, <2>1 DEF SlotInv, LinuxReset, ResetPending
  <2> QED BY <1>1, <1>2, <1>3, <2>1, <2>2, SlotGroup, SlotFacts
     DEF SlotInv, Loading, BeforeLoad, Beginning, OldInstance, LinuxReset
<1>6. LinuxReset'
  BY <1>1, <1>2, <1>3, SlotGroup, SlotFacts
     DEF SlotInv, LinuxReset, Beginning, LifecycleInv, InStep, Agrees
<1> QED BY <1>1, <1>2, <1>4, <1>5, <1>6, SlotGroup DEF SlotInv

\* sl hands back to the monitor.
LEMMA SlotSl_Start_Linux ==
  ASSUME SlotConfigured, LifecycleInv, LifecycleInv', SlotInv, Sl_Start_Linux
  PROVE  SlotInv'
<1> DEFINE lm == IF "sm" \in resets THEN "start" ELSE pc[Monitor]
           ll == "start"
<1>1. /\ active = "sl" /\ pc[Loader] = "start_linux" /\ Exit_Reason' = Exit_Reason
      /\ active' = "sm" /\ resets' = resets \ {"sm"} /\ linux' = linux
      /\ UNCHANGED <<controller, Pending, Status, used>>
  BY DEF Sl_Start_Linux, Handover, SM, LifecycleInv, TypeOK
<1>2. GroupMove(lm, ll)
  BY <1>1, SlotFacts DEF Sl_Start_Linux, Handover, At, SM, GroupMove, Working, LifecycleInv, TypeOK
<1>3. pc'[Monitor] = lm /\ pc'[Loader] = ll
  BY <1>2, SlotFacts DEF GroupMove
<1>0. pc[Monitor] \in Beginning \cup {"failed"} => ~Due
  BY MonitorUndisturbed
<1> HIDE DEF ll
<1>4. OldInstance'
  BY <1>0, <1>1, <1>2, <1>3, SlotGroup, SlotFacts DEF SlotInv, OldInstance, LinuxReset, Loading
<1>5. Loading'
  BY <1>1, <1>2, <1>3, SlotGroup, SlotFacts
     DEF SlotInv, Loading, BeforeLoad, Beginning, OldInstance, LinuxReset
<1>6. LinuxReset'
  BY <1>1, <1>2, <1>3, SlotGroup, SlotFacts
     DEF SlotInv, LinuxReset, Loading, Beginning, LifecycleInv, InStep, Agrees
<1> QED BY <1>1, <1>2, <1>4, <1>5, <1>6, SlotGroup DEF SlotInv

-----------------------------------------------------------------------------
(* The steps of the controller, with calm eras *)

\* What a step of the controller leaves.
ControllerStep == UNCHANGED <<Status, pc, memory, used, active, linux, Exit_Reason>>

\* A step that performs nothing leaves what is kept of each subject.
LEMMA SlotUnperformed ==
  ASSUME SlotConfigured, LifecycleInv, SlotInv, ControllerStep, UNCHANGED <<States, Command, Epoch>>,
         \A i \in IDs : Decided(i)' => Decided(i) /\ ctrl'.new = ctrl.new
  PROVE  FirstEra' /\ SelfGoverned' /\ EpochUnused' /\ Confused'
<1> USE DEF SlotInv, ControllerStep
<1>1. FirstEra'
  BY DEF FirstEra
<1>2. SelfGoverned'
  BY DEF SelfGoverned
<1>3. EpochUnused'
  BY DEF EpochUnused
<1>4. Confused'
  BY DEF Confused
<1> QED BY <1>1, <1>2, <1>3, <1>4

\* A request, whenever it is made, waits to be read.
LEMMA SlotRequest ==
  ASSUME SlotConfigured, LifecycleInv, SlotInv, Request
  PROVE  SlotInv'
<1> USE DEF Request, controller, group
<1>0. /\ ControllerStep /\ UNCHANGED <<States, Command, Epoch, Era, ctrl, resets>>
      /\ \A i \in IDs : Decided(i)' = Decided(i)
      /\ ResetPending' = ResetPending
  BY DEF ControllerStep, Decided, ResetPending
<1>1. ErasSettled'
  BY <1>0 DEF SlotInv, ErasSettled
<1>2. OldInstance' /\ NewInstance'
  BY <1>0, SlotFacts DEF SlotInv, OldInstance, NewInstance, Due, ControllerStep
<1>3. Loading' /\ LinuxReset'
  BY <1>0 DEF SlotInv, Loading, BeforeLoad, LinuxReset, ControllerStep
<1> QED BY <1>0, <1>1, <1>2, <1>3, SlotUnperformed DEF SlotInv

\* The era begins: both are to be reset.  The slot has settled, so the monitor has
\* Linux loaded by then.
LEMMA SlotRequests_Read ==
  ASSUME SlotConfigured, LifecycleInv, SlotInv, Requests_Read, calm'
  PROVE  SlotInv'
<1> USE DEF Requests_Read, group, env
<1>0. /\ ControllerStep /\ UNCHANGED <<States, Command, Epoch, Pending, resets>>
      /\ ctrl.at = "requests" /\ ctrl'.at = "clear" /\ ctrl'.events = ctrl.events
      /\ \A i \in IDs : ~Decided(i)'
      /\ ResetPending' = ResetPending
  BY DEF ControllerStep, Decided, ResetPending, LifecycleInv, TypeOK
<1>1. Pending => Era' = Era + 1 /\ \A i \in Slot_1 : States[i].era # Era'
  <2>1. \A i \in Slot_1 : States[i].era <= Era /\ States[i].era \in Nat /\ Era \in Nat
    BY SlotFacts, ConfigAssumption DEF LifecycleInv, ErasCounted, TypeOK
  <2> QED BY <2>1
<1>2. ~Pending => Era' = Era
  OBVIOUS
<1>3. Pending => \A i \in Slot_1 : States[i].state \in {"Running", "Error"} /\ States[i].era = Era
  BY DEF Settled
<1>4. ErasSettled'
  BY <1>0, <1>1, <1>2, <1>3 DEF SlotInv, ErasSettled
<1>5. OldInstance'
  <2>1. CASE ~Pending
    BY <1>0, <1>2, <2>1, SlotFacts DEF SlotInv, OldInstance, Due, ControllerStep
  <2>2. CASE Pending
    <3>1. ~BeforeLoad /\ ~ResetPending /\ Status[Loader] # State("INITIAL")
      BY <1>3, <2>2, SlotFacts DEF SlotInv, Loading, LifecycleInv, ResetExpected
    <3>2. /\ pc[Monitor] \in {"serve", "loaded", "resume", "halt"} /\ ~Has_Error(Status[Monitor])
          /\ pc[Monitor] = "serve" => linux = "ready" /\ "linux" \notin resets
      <4>1. pc[Monitor] \in Labels /\ linux \in {"initial", "ready"}
            /\ Agrees(Monitor, pc[Monitor], Status[Monitor], States[Monitor].state)
        BY SlotFacts DEF LifecycleInv, TypeOK, InStep
      <4>2. pc[Monitor] \notin {"start_linux", "publish"}
        BY <4>1 DEF Agrees, SlotInv, NewInstance
      <4> QED BY <3>1, <4>1, <4>2 DEF BeforeLoad, Beginning, Labels, Agrees, State, Has_Error
    <3>3. pc[Monitor] = "serve" /\ active = "sm" => Exit_Reason = "other"
      BY <3>2 DEF SlotInv, LinuxReset
    <3>4. active = "sl" => pc[Loader] \notin {"start", "sync"}
      BY <1>3, <2>2, SlotFacts DEF SlotInv, Loading
    <3>5. "linux" \in resets => "sm" \in resets
      BY <3>2 DEF SlotInv, LinuxReset
    <3> QED BY <1>0, <1>1, <2>2, <3>1, <3>2, <3>3, <3>4, <3>5, SlotFacts
            DEF OldInstance, ControllerStep
  <2> QED BY <2>1, <2>2
<1>6. NewInstance'
  BY <1>0, <1>1, <1>2, SlotFacts DEF SlotInv, NewInstance, ControllerStep
<1>7. Loading' /\ LinuxReset'
  <2>1. BeforeLoad' = BeforeLoad
    BY <1>0 DEF BeforeLoad, ControllerStep
  <2>2. Pending => States'[Loader].era # Era'
    BY <1>0, <1>1, SlotFacts
  <2> QED BY <1>0, <1>2, <2>1, <2>2 DEF SlotInv, Loading, LinuxReset, ControllerStep
<1> QED BY <1>0, <1>4, <1>5, <1>6, <1>7, SlotUnperformed DEF SlotInv

\* The identifiers have no gaps.
LEMMA NextID ==
  ASSUME NEW i \in IDs, NEW j \in IDs
  PROVE  1 <= j /\ (i < j => i + 1 \in IDs /\ i + 1 <= j)
<1> DEFINE n == Cardinality(IDs)
<1>1. n \in Nat /\ IDs = 1 .. n
  BY IDsAssumption, FS_CardinalityType
<1> HIDE DEF n
<1> QED BY <1>1

\* The requests are cleared.
LEMMA SlotRequests_Clear ==
  ASSUME SlotConfigured, LifecycleInv, SlotInv, Requests_Clear
  PROVE  SlotInv'
<1> USE DEF Requests_Clear, group, env
<1>0. /\ ControllerStep /\ UNCHANGED <<States, Command, Epoch, Era, resets>>
      /\ ctrl.at = "clear" /\ ctrl'.at = "read" /\ ctrl'.events = ctrl.events
      /\ ctrl'.id <= Loader
      /\ \A i \in IDs : ~Decided(i)'
      /\ ResetPending' = ResetPending /\ Pending' = FALSE
  BY SlotFacts, NextID DEF ControllerStep, Decided, ResetPending, LifecycleInv, TypeOK
<1>3. ErasSettled'
  BY <1>0 DEF SlotInv, ErasSettled
<1>4. OldInstance'
  <2>1. Due' => Due
    BY <1>0 DEF Due
  <2> QED BY <1>0, <2>1, SlotFacts DEF SlotInv, OldInstance, ControllerStep
<1>5. NewInstance'
  BY <1>0, SlotFacts DEF SlotInv, NewInstance, ControllerStep
<1>6. Loading' /\ LinuxReset'
  BY <1>0 DEF SlotInv, Loading, BeforeLoad, LinuxReset, ControllerStep
<1> QED BY <1>0, <1>3, <1>4, <1>5, <1>6, SlotUnperformed DEF SlotInv

\* The reset that is due for a subject of the slot is what is decided for it.
LEMMA ResetDecided ==
  ASSUME SlotConfigured, LifecycleInv, SlotInv, NEW i \in Slot_1, States[i].era # Era
  PROVE  Get_Next_State(i, Status[i]) = "Resetting" /\ States[i].state # "Resetting"
<1>1. States[i].state \in {"Running", "Error"} /\ States[i].era # Get_Current_Era(i)
  BY SlotFacts DEF SlotInv, ErasSettled
<1> QED BY <1>1 DEF Get_Next_State

\* What is decided for a subject that governs itself.
LEMMA SelfGovernedDecision ==
  ASSUME SlotConfigured, LifecycleInv, SlotInv, NEW i \in (IDs \cap Self_Governed) \ {Time},
         NEW new, new = Get_Next_State(i, Status[i]), new # States[i].state
  PROVE  /\ new \in {"Initial", "Self_Control", "Finished", "Error"}
         /\ States[i].state = "Start" => new = "Initial"
<1>1. States[i].state \in {"Start", "Initial", "Self_Control", "Finished", "Error"}
  BY DEF SlotInv, SelfGoverned
<1>2. States[i].era = Get_Current_Era(i)
  <2>1. i \notin Slot_1
    BY DEF SlotConfigured, Managed
  <2> QED BY <2>1, SlotFacts DEF LifecycleInv, ErasCounted, TypeOK
<1>3. CASE States[i].state = "Finished"
  BY <1>2, <1>3 DEF Get_Next_State, Run_Dependencies_Satisfied
<1>7. CASE States[i].state = "Error"
  BY <1>2, <1>7 DEF Get_Next_State, Run_Dependencies_Satisfied
<1>4. CASE States[i].state = "Self_Control"
  BY <1>2, <1>4 DEF Get_Next_State
<1>5. CASE States[i].state = "Start"
  BY <1>5 DEF Get_Next_State
<1>6. CASE States[i].state = "Initial"
  BY <1>6 DEF Get_Next_State, Run_Dependencies_Satisfied
<1> QED BY <1>1, <1>3, <1>4, <1>5, <1>6, <1>7

\* The controller goes through its subjects in order: the loader is not passed by
\* while its reset is due.
LEMMA SlotProcess_Read ==
  ASSUME SlotConfigured, LifecycleInv, SlotInv, NEW i \in IDs, Process_Read(i)
  PROVE  SlotInv'
<1> DEFINE new == Get_Next_State(i, Status[i])
<1>0. /\ ControllerStep /\ UNCHANGED <<States, Command, Epoch, Era, Pending, resets>>
      /\ ctrl.at = "read" /\ ctrl.id = i
      /\ \/ new = States[i].state /\ ctrl' = Advance(i)
         \/ /\ new # States[i].state
            /\ ctrl' = [ctrl EXCEPT !.at = "perform", !.new = new]
  BY DEF Process_Read, ControllerStep, group, env
<1> HIDE DEF new
<1>1. /\ ctrl'.at \notin {"clear", "events"} /\ ResetPending' = ResetPending
      /\ \/ /\ new = States[i].state /\ ctrl'.at # "perform"
            /\ i + 1 \in IDs => ctrl'.at = "read" /\ ctrl'.id = i + 1
         \/ /\ new # States[i].state
            /\ ctrl'.at = "perform" /\ ctrl'.id = i /\ ctrl'.new = new
  BY <1>0 DEF ResetPending, LifecycleInv, TypeOK, Advance
<1>2. ErasSettled'
  BY <1>0, <1>1 DEF SlotInv, ErasSettled
<1>3. OldInstance'
  BY <1>0, <1>1, SlotFacts DEF SlotInv, OldInstance, Due, ControllerStep
<1>4. NewInstance'
  <2>1. States[Loader].era # Era =>
          /\ i <= Loader
          /\ i # Loader => i + 1 \in IDs /\ i + 1 <= Loader
          /\ i = Loader => new = "Resetting" /\ new # States[i].state
    <3>1. ASSUME States[Loader].era # Era PROVE i <= Loader
      BY <1>0, <3>1 DEF SlotInv, NewInstance
    <3>2. ASSUME States[Loader].era # Era, i # Loader PROVE i + 1 \in IDs /\ i + 1 <= Loader
      <4>1. i < Loader
        BY <3>1, <3>2, SlotFacts, IDFacts
      <4> QED BY <4>1, SlotFacts, NextID
    <3>3. ASSUME States[Loader].era # Era, i = Loader
          PROVE  new = "Resetting" /\ new # States[i].state
      BY <3>3, ResetDecided, SlotFacts DEF new
    <3> QED BY <3>1, <3>2, <3>3
  <2>2. States[Loader].era # Era /\ States[Monitor].era = Era =>
           States[Monitor].state = "Resetting" /\ Monitor < i
    BY <1>0 DEF SlotInv, NewInstance
  <2>3. Monitor \in Nat /\ i \in Nat
    BY SlotFacts, IDFacts
  <2> QED BY <1>0, <1>1, <2>1, <2>2, <2>3 DEF SlotInv, NewInstance, ControllerStep, Decided
<1>5. Loading' /\ LinuxReset'
  BY <1>0, <1>1 DEF SlotInv, Loading, BeforeLoad, LinuxReset, ControllerStep
<1>6. FirstEra' /\ EpochUnused' /\ Confused'
  BY <1>0 DEF SlotInv, FirstEra, EpochUnused, Confused, ControllerStep
<1>7. SelfGoverned'
  <2>1. i \in (IDs \cap Self_Governed) \ {Time} /\ new # States[i].state =>
          /\ new \in {"Initial", "Self_Control", "Finished", "Error"}
          /\ States[i].state = "Start" => new = "Initial"
    BY SelfGovernedDecision DEF new
  <2> QED BY <1>0, <1>1, <2>1 DEF SlotInv, SelfGoverned, Decided, ControllerStep
<1> QED BY <1>2, <1>3, <1>4, <1>5, <1>6, <1>7 DEF SlotInv

\* The monitor's reset is triggered before that of Linux, and both before the
\* controller comes to the next subject.
LEMMA SlotTrigger_Event ==
  ASSUME SlotConfigured, LifecycleInv, SlotInv, NEW i \in IDs, Trigger_Event(i)
  PROVE  SlotInv'
<1>0. /\ ControllerStep /\ UNCHANGED <<States, Command, Epoch, Era, Pending>>
      /\ ctrl.at = "events" /\ ctrl.id = i /\ i = Monitor
      /\ States[Monitor].state = "Resetting"
  BY DEF Trigger_Event, ControllerStep, env, LifecycleInv, EventsInOrder, SlotInv, NewInstance
<1>1. \/ /\ ctrl.events = <<"sm", "linux">> /\ resets' = resets \cup {"sm"}
         /\ ctrl'.at = "events" /\ ctrl'.events = <<"linux">>
      \/ /\ ctrl.events = <<"linux">> /\ resets' = resets \cup {"linux"}
         /\ ctrl'.at \in {"read", "requests"} /\ ctrl'.events = <<>>
         /\ i + 1 \in IDs => ctrl'.at = "read" /\ ctrl'.id = i + 1
  <2>1. ctrl.events \in {<<"linux">>, <<"sm", "linux">>}
    BY <1>0 DEF LifecycleInv, TypeOK, EventsInOrder
  <2>2. CASE ctrl.events = <<"linux">>
    <3>1. Head(ctrl.events) = "linux" /\ Len(ctrl.events) = 1
      BY <2>2
    <3>2. resets' = resets \cup {"linux"} /\ ctrl' = [Advance(i) EXCEPT !.events = <<>>]
      BY <3>1 DEF Trigger_Event
    <3> QED BY <2>2, <3>2 DEF Advance, LifecycleInv, TypeOK
  <2>3. CASE ctrl.events = <<"sm", "linux">>
    <3>1. Head(ctrl.events) = "sm" /\ Len(ctrl.events) = 2 /\ Tail(ctrl.events) = <<"linux">>
      BY <2>3
    <3>2. resets' = resets \cup {"sm"} /\ ctrl' = [ctrl EXCEPT !.events = Tail(ctrl.events)]
      BY <3>1 DEF Trigger_Event
    <3> QED BY <1>0, <2>3, <3>1, <3>2 DEF LifecycleInv, TypeOK
  <2> QED BY <2>1, <2>2, <2>3
<1>2. /\ \A j \in IDs : ~Decided(j)' /\ ~Decided(j)
      /\ ResetPending' = ResetPending
      /\ ctrl.events = <<"linux">> => (ResetPending <=> "sm" \in resets)
      /\ ResetPending \/ pc[Monitor] \in {"start", "sync"}
  BY <1>0, <1>1 DEF Decided, ResetPending, SlotInv, NewInstance
<1>3. ErasSettled'
  BY <1>0, <1>1 DEF SlotInv, ErasSettled
<1>4. States[Monitor].era = Era
  BY <1>0, SlotFacts DEF SlotInv, ErasSettled
<1>5. OldInstance'
  BY <1>0, <1>1, <1>2, <1>4, SlotFacts DEF SlotInv, OldInstance, Due, ResetPending, ControllerStep
<1>6. NewInstance'
  <2>1. States[Loader].era # Era => Monitor < Loader
    BY <1>0 DEF SlotInv, NewInstance
  <2>2. Monitor \in Nat /\ Loader \in Nat /\ (Monitor < Loader => Monitor + 1 \in IDs)
    BY SlotFacts, IDFacts, NextID
  <2> QED BY <1>0, <1>1, <1>2, <2>1, <2>2, SlotFacts DEF SlotInv, NewInstance, ControllerStep
<1>7. Loading'
  BY <1>0, <1>1, <1>2 DEF SlotInv, Loading, BeforeLoad, LinuxReset, OldInstance, ControllerStep
<1>8. LinuxReset'
  BY <1>0, <1>1, <1>2 DEF SlotInv, LinuxReset, ControllerStep
<1> QED BY <1>0, <1>2, <1>3, <1>5, <1>6, <1>7, <1>8, SlotUnperformed DEF SlotInv

\* What a performed transition changes.
LEMMA Performed ==
  ASSUME LifecycleInv, NEW i \in IDs, Perform_Transition(i)
  PROVE  /\ Decided(i) /\ ctrl.new \in FSM \ {"Start"} /\ States[i].state \in FSM
         /\ \A j \in IDs \ {i} : /\ States'[j] = States[j] /\ Command'[j] = Command[j]
                                  /\ Epoch'[j] = Epoch[j]
         /\ States'[i].state = ctrl.new /\ Command'[i] = CommandOf(i, ctrl.new)
         /\ States'[i].epoch = IF ctrl.new = "Initial" THEN States[i].epoch + 1
                                                       ELSE States[i].epoch
         /\ States'[i].era = IF ctrl.new = "Resetting" THEN Get_Current_Era(i) ELSE States[i].era
         /\ Epoch'[i] = States'[i].epoch
         /\ \/ /\ ctrl.new = "Resetting" /\ i = Monitor
               /\ ctrl'.at = "events" /\ ctrl'.events = <<"sm", "linux">>
            \/ /\ ~(ctrl.new = "Resetting" /\ i = Monitor)
               /\ ctrl'.at \in {"read", "requests"}
               /\ i + 1 \in IDs => ctrl'.at = "read" /\ ctrl'.id = i + 1
         /\ ctrl.at = "perform" /\ ctrl.id = i
         /\ ControllerStep /\ UNCHANGED <<Era, Pending, resets>>
<1> USE DEF Perform_Transition, group, env
<1>1. /\ Decided(i) /\ ctrl.new \in FSM \ {"Start"} /\ States[i].state \in FSM
      /\ Epoch[i] = States[i].epoch
      /\ ctrl.at = "perform" /\ ctrl.id = i
  BY DEF LifecycleInv, TypeOK, Decided, ErasCounted
<1>2. /\ \A j \in IDs \ {i} : /\ States'[j] = States[j] /\ Command'[j] = Command[j]
                               /\ Epoch'[j] = Epoch[j]
      /\ States'[i].state = ctrl.new /\ Command'[i] = CommandOf(i, ctrl.new)
      /\ States'[i].epoch = IF ctrl.new = "Initial" THEN States[i].epoch + 1 ELSE States[i].epoch
      /\ States'[i].era = IF ctrl.new = "Resetting" THEN Get_Current_Era(i) ELSE States[i].era
      /\ Epoch'[i] = IF ctrl.new = "Initial" THEN States[i].epoch + 1 ELSE Epoch[i]
  BY DEF LifecycleInv, TypeOK, NextEpoch
<1>3. \/ /\ ctrl.new = "Resetting" /\ i = Monitor
         /\ ctrl' = [ctrl EXCEPT !.at = "events", !.events = <<"sm", "linux">>]
      \/ ~(ctrl.new = "Resetting" /\ i = Monitor) /\ ctrl' = Advance(i)
  BY DEF Reset_Events
<1>4. \/ /\ ctrl.new = "Resetting" /\ i = Monitor
         /\ ctrl'.at = "events" /\ ctrl'.events = <<"sm", "linux">>
      \/ /\ ~(ctrl.new = "Resetting" /\ i = Monitor)
         /\ ctrl'.at \in {"read", "requests"}
         /\ i + 1 \in IDs => ctrl'.at = "read" /\ ctrl'.id = i + 1
  <2>0. ctrl = [at |-> ctrl.at, id |-> ctrl.id, new |-> ctrl.new, events |-> ctrl.events]
    BY DEF LifecycleInv, TypeOK
  <2>1. CASE ctrl.new = "Resetting" /\ i = Monitor
    BY <1>3, <2>0, <2>1
  <2>2. CASE ~(ctrl.new = "Resetting" /\ i = Monitor)
    <3>1. ctrl' = Advance(i)
      BY <1>3, <2>2
    <3> QED BY <2>0, <2>2, <3>1 DEF Advance
  <2> QED BY <2>1, <2>2
<1>5. ControllerStep /\ UNCHANGED <<Era, Pending, resets>>
  BY DEF ControllerStep
<1> QED BY <1>1, <1>2, <1>4, <1>5

\* A transition leaves what is kept of each subject.
LEMMA SlotPerform_Subjects ==
  ASSUME SlotConfigured, LifecycleInv, SlotInv, NEW i \in IDs, Perform_Transition(i)
  PROVE  ErasSettled' /\ FirstEra' /\ SelfGoverned' /\ EpochUnused' /\ Confused'
<1> DEFINE new == ctrl.new
           st == States[i].state
<1>1. i \in Managed => Justified(i, new, pc[i], Status[i], st)
  BY Performed DEF LifecycleInv, DecisionsHold
<1>2. /\ States[i].era \in Nat /\ States[i].epoch \in Nat /\ Epoch[i] = States[i].epoch
      /\ Get_Current_Era(i) \in Nat /\ Era \in Nat
      /\ new = "Resetting" => Get_Current_Era(i) > States[i].era
  BY Performed DEF LifecycleInv, TypeOK, ErasCounted, Get_Current_Era
<1>3. i \in Slot_1 => i \in Managed /\ Get_Current_Era(i) = Era
  BY SlotFacts DEF SlotConfigured
<1>4. \A j \in IDs : ~Decided(j)'
  BY Performed DEF Decided
<1>5. ErasSettled'
  <2>1. i \in Slot_1 => (States'[i].era # Era => new \in {"Running", "Error"})
    BY <1>1, <1>2, <1>3, Performed DEF SlotInv, ErasSettled, Justified, FSM
  <2> QED BY <2>1, Performed, SlotFacts DEF SlotInv, ErasSettled
<1>6. FirstEra'
  <2>1. i \in Managed =>
          /\ new = "Resetting" => States'[i].era > 0
          /\ new # "Start"
          /\ new = "Initial" /\ States'[i].era = 0 => pc[i] \in {"start", "sync"}
          /\ States'[i].epoch > 0
    BY <1>1, <1>2, Performed DEF SlotInv, FirstEra, Justified, FSM
  <2> QED BY <2>1, Performed, SlotFacts DEF SlotInv, FirstEra, ControllerStep
<1>7. SelfGoverned'
  <2>1. i \in (IDs \cap Self_Governed) \ {Time} =>
          /\ new \in {"Initial", "Self_Control", "Finished", "Error"}
          /\ Command'[i] \in {"NOP", "SELF_CTRL"}
          /\ Command'[i] # "NOP"
          /\ States'[i].epoch > 0
    BY <1>2, Performed DEF SlotInv, SelfGoverned, CommandOf
  <2> QED BY <1>4, <2>1, Performed DEF SlotInv, SelfGoverned, ControllerStep
<1>8. EpochUnused'
  <2>1. used[Monitor] \in Nat /\ Epoch[Monitor] \in Nat
    BY SlotFacts, ConfigAssumption DEF LifecycleInv, TypeOK
  <2>2. CASE i = Monitor
    <3>1. /\ used[Monitor] <= Epoch'[Monitor]
          /\ new = "Initial" => used[Monitor] < Epoch'[Monitor]
      BY <1>2, <2>1, <2>2, Performed DEF SlotInv, EpochUnused
    <3>2. ASSUME pc[Monitor] \in Beginning, new # "Initial", new \notin {"Start", "Resetting"}
          PROVE  used[Monitor] < Epoch'[Monitor]
      BY <1>1, <1>2, <2>1, <2>2, <3>2, SlotFacts, Performed DEF SlotInv, EpochUnused, Justified, FSM
    <3> QED BY <2>2, <3>1, <3>2, Performed, SlotFacts DEF SlotInv, EpochUnused, ControllerStep
  <2>3. CASE i # Monitor
    BY <2>3, Performed, SlotFacts DEF SlotInv, EpochUnused, ControllerStep
  <2> QED BY <2>2, <2>3
<1>9. Confused'
  <2>1. i \in Slot_1 /\ Status[i][2] = "unexpected" =>
          new \in {"Resetting", "Initial"} /\ States'[i].era > 0
    BY <1>1, <1>2, <1>3, Performed DEF SlotInv, Confused, Justified, FSM, State
  <2> QED BY <2>1, Performed, SlotFacts DEF SlotInv, Confused, ControllerStep
<1> QED BY <1>5, <1>6, <1>7, <1>8, <1>9

\* A transition keeps what relates the monitor and the loader.
LEMMA SlotPerform_Transition ==
  ASSUME SlotConfigured, LifecycleInv, SlotInv, NEW i \in IDs, Perform_Transition(i)
  PROVE  SlotInv'
<1> DEFINE new == ctrl.new
           st == States[i].state
<1>1. i \in Managed => /\ Justified(i, new, pc[i], Status[i], st)
                       /\ Agrees(i, pc[i], Status[i], st)
  BY Performed DEF LifecycleInv, DecisionsHold, InStep
<1>2. /\ new = "Resetting" /\ i \in Slot_1 => States[i].era # Era
      /\ i \in Slot_1 => Get_Current_Era(i) = Era
  BY Performed, SlotFacts DEF LifecycleInv, ErasCounted
<1>3. i = Loader => (States[Loader].era # Era => new = "Resetting")
  BY Performed DEF SlotInv, NewInstance
<1>4. ~Decided(Loader)' /\ (ResetPending' <=> "sm" \in resets \/ (new = "Resetting" /\ i = Monitor))
  BY Performed DEF Decided, ResetPending
<1>5. ResetPending <=> "sm" \in resets
  BY Performed DEF ResetPending
<1>6. NewInstance'
  <2>1. States'[Monitor].state \in {"Start", "Resetting", "Initial"} =>
          ResetPending' \/ pc[Monitor] \in {"start", "sync"}
    BY <1>1, <1>4, <1>5, Performed, SlotFacts DEF SlotInv, NewInstance, Justified
  <2>2. ASSUME States'[Loader].era # Era
        PROVE  /\ \/ ctrl'.at = "events" /\ Monitor < Loader
                  \/ ctrl'.at = "read" /\ ctrl'.id <= Loader
               /\ States'[Monitor].era = Era =>
                    /\ States'[Monitor].state = "Resetting"
                    /\ ctrl'.at = "events" \/ (ctrl'.at = "read" /\ Monitor < ctrl'.id)
    <3>1. i # Loader /\ States[Loader].era # Era
      BY <1>2, <1>3, <2>2, Performed, SlotFacts
    <3>2. i <= Loader /\ (States[Monitor].era = Era =>
                            States[Monitor].state = "Resetting" /\ Monitor < i)
      BY <3>1, Performed DEF SlotInv, NewInstance
    <3>3. i < Loader /\ i \in Nat /\ Monitor \in Nat /\ Loader \in Nat
      BY <3>1, <3>2, IDFacts, SlotFacts
    <3>4. i + 1 \in IDs /\ i + 1 <= Loader
      BY <3>3, NextID, SlotFacts
    <3>5. CASE i = Monitor
      BY <1>2, <3>2, <3>3, <3>4, <3>5, Performed, SlotFacts
    <3>6. CASE i # Monitor
      BY <3>2, <3>3, <3>4, <3>6, Performed, SlotFacts
    <3> QED BY <3>5, <3>6
  <2>3. ctrl'.at = "events" => States'[Monitor].state = "Resetting"
    BY Performed
  <2>4. pc' = pc /\ Era' = Era
    BY Performed DEF ControllerStep
  <2> QED BY <1>4, <2>1, <2>2, <2>3, <2>4 DEF SlotInv, NewInstance
<1>7. OldInstance'
  <2>1. States'[Monitor].era # Era \/ ResetPending' => States[Monitor].era # Era \/ ResetPending
    BY <1>2, <1>4, <1>5, Performed, SlotFacts
  <2>2. Due' => Due
    BY <2>1, Performed DEF Due
  <2>3. ASSUME States[Monitor].era # Era \/ ResetPending
        PROVE  States'[Loader].era # Era \/ States'[Loader].state \in {"Resetting", "Initial"}
    <3>1. /\ States[Loader].era # Era \/ States[Loader].state \in {"Resetting", "Initial"}
          /\ Status[Loader] # State("INITIAL")
      BY <2>3 DEF SlotInv, OldInstance, Due
    <3>2. CASE i = Loader
      BY <1>1, <1>3, <3>1, <3>2, Performed, SlotFacts DEF Justified, FSM
    <3>3. CASE i # Loader
      BY <3>1, <3>3, Performed, SlotFacts
    <3> QED BY <3>2, <3>3
  <2> QED BY <2>1, <2>2, <2>3, Performed DEF SlotInv, OldInstance, ControllerStep
<1>8. Loading'
  <2>1. BeforeLoad' = BeforeLoad
    BY Performed DEF BeforeLoad, ControllerStep
  <2>2. active # "sl" => pc[Loader] = "start"
    BY SlotFacts DEF LifecycleInv, LoaderWhole
  <2>3. CASE i = Loader
    <3>1. Justified(Loader, new, pc[Loader], Status[Loader], States[Loader].state)
          /\ Agrees(Loader, pc[Loader], Status[Loader], States[Loader].state)
      BY <1>1, <2>3, SlotFacts
    <3>3. pc[Loader] \in {"start", "sync"}
          /\ States[Loader].state \in {"Start", "Resetting", "Initial", "Syncing"} =>
            new \in {"Start", "Resetting", "Initial", "Syncing"}
      BY <3>1, <2>3, Performed DEF Justified, FSM
    <3>4. BeforeLoad =>
            \/ new \in {"Start", "Resetting", "Initial"}
            \/ new = "Syncing" /\ Status[Loader] = State("INITIAL")
      BY <1>3, <2>2, <2>3, <3>1, Performed DEF SlotInv, Loading, Justified, FSM
    <3>5. Status[Loader] = State("INITIAL") => new \in {"Start", "Resetting", "Initial", "Syncing"}
      BY <3>1, <2>3, Performed DEF SlotInv, Loading, Justified, Agrees, State, FSM
    <3> QED BY <2>1, <2>3, <3>3, <3>4, <3>5, Performed DEF SlotInv, Loading, ControllerStep
  <2>4. CASE i # Loader
    BY <2>1, <2>4, Performed, SlotFacts DEF SlotInv, Loading, ControllerStep
  <2> QED BY <2>3, <2>4
<1>9. LinuxReset'
  BY Performed DEF SlotInv, LinuxReset, ControllerStep
<1> QED BY <1>6, <1>7, <1>8, <1>9, SlotPerform_Subjects DEF SlotInv

-----------------------------------------------------------------------------
\* Once an era has begun while the slot was starting, that stays said.
LEMMA CalmLost ==
  ASSUME [Next]_vars, calm'
  PROVE  calm
<1>1. CASE Requests_Read
  BY <1>1 DEF Requests_Read
<1>2. CASE Request \/ \E i \in IDs : Initialize(i)
  BY <1>2 DEF Request, Initialize, Status_Initialize, Wait_For_Next, Status_Set, Clear_Writable,
     Setup_Writable, Check_Hashes, Memory_Error, Set_Running, Init_Failed, Main, Publish, env
<1>3. CASE Controller /\ ~Requests_Read
  <2>1. Requests_Clear => UNCHANGED env
    BY DEF Requests_Clear
  <2>2. ASSUME NEW i \in IDs, Process_Read(i) PROVE UNCHANGED env
    BY <2>2 DEF Process_Read
  <2>3. ASSUME NEW i \in IDs, Perform_Transition(i) PROVE UNCHANGED env
    BY <2>3 DEF Perform_Transition
  <2>4. ASSUME NEW i \in IDs, Trigger_Event(i) PROVE UNCHANGED env
    BY <2>4 DEF Trigger_Event
  <2>5. UNCHANGED env
    BY <1>3, <2>1, <2>2, <2>3, <2>4 DEF Controller
  <2> QED BY <2>5 DEF env
<1>4. CASE Group
  BY <1>4 DEF Group, Handle_Reset, Linux_Trap, Sm_Service, Sm_Reset_Linux, Sm_Load_Linux,
     Sm_Loaded, Sm_Resume, Sl_Start_Linux, env
<1>5. CASE UNCHANGED vars
  BY <1>5 DEF vars
<1> QED BY <1>1, <1>2, <1>3, <1>4, <1>5 DEF Next

\* Every step keeps what relates the slot to its resets, as long as no era begins while
\* the slot starts.
LEMMA SlotStep ==
  ASSUME SlotConfigured, LifecycleInv, SlotInv, [Next]_vars, calm'
  PROVE  SlotInv'
<1>0. LifecycleInv'
  BY StepInv
<1>1. CASE Request
  BY <1>1, SlotRequest
<1>2. CASE Controller
  BY <1>2, SlotRequests_Read, SlotRequests_Clear, SlotProcess_Read, SlotPerform_Transition,
     SlotTrigger_Event DEF Controller
<1>3. CASE Group
  BY <1>0, <1>3, SlotHandle_Reset, SlotLinux_Trap, SlotSm_Service, SlotSm_Reset_Linux,
     SlotSm_Load_Linux, SlotSm_Loaded, SlotSm_Resume, SlotSl_Start_Linux DEF Group
<1>4. CASE \E i \in IDs : Initialize(i)
  BY <1>0, <1>4, SlotSubject
<1>5. CASE UNCHANGED vars
  <2>1. /\ ControllerStep /\ UNCHANGED <<States, Command, Epoch, Era, Pending, ctrl, resets>>
        /\ \A i \in IDs : Decided(i)' = Decided(i)
        /\ ResetPending' = ResetPending
    BY <1>5 DEF vars, ControllerStep, Decided, ResetPending
  <2>2. ErasSettled'
    BY <2>1 DEF SlotInv, ErasSettled
  <2>3. OldInstance' /\ NewInstance'
    BY <2>1, SlotFacts DEF SlotInv, OldInstance, NewInstance, Due, ControllerStep
  <2>4. Loading' /\ LinuxReset'
    BY <2>1 DEF SlotInv, Loading, BeforeLoad, LinuxReset, ControllerStep
  <2> QED BY <2>1, <2>2, <2>3, <2>4, SlotUnperformed DEF SlotInv
<1> QED BY <1>1, <1>2, <1>3, <1>4, <1>5 DEF Next

\* As long as no era has begun while the slot was starting, the slot is reset as a whole:
\* the monitor's reset finds it past the loading of Linux, and the new instance meets a
\* loader that is reset as well.  Requests (Ctrl-F10 in Mux.Terminals) come at any time.
THEOREM SlotInvariance == SlotConfigured => (Safety => [](calm => SlotInv))
<1> SUFFICES ASSUME SlotConfigured PROVE Safety => [](calm => SlotInv)
  OBVIOUS
<1>1. Init => (calm => SlotInv)
  BY SlotInit
<1>2. LifecycleInv /\ (calm => SlotInv) /\ [Next]_vars => (calm => SlotInv)'
  <2> SUFFICES ASSUME LifecycleInv, calm => SlotInv, [Next]_vars, calm'
               PROVE  SlotInv'
    OBVIOUS
  <2> QED BY CalmLost, SlotStep
<1> QED BY <1>1, <1>2, Invariance, PTL DEF Safety

\* The error of an unexpected command (Wait_For_Next of libmuinit) is reported only by a
\* subject that the controller is resetting, as long as no era has begun while the slot
\* was starting: it is never taken for an error of the new instance.
THEOREM ConfusionOnlyByReset == SlotConfigured => (Safety => []ConfusedOnlyByReset)
<1> SUFFICES ASSUME SlotConfigured PROVE Safety => []ConfusedOnlyByReset
  OBVIOUS
<1>1. LifecycleInv /\ (calm => SlotInv) => ConfusedOnlyByReset
  <2> SUFFICES ASSUME LifecycleInv, SlotInv, NEW i \in IDs, Status[i][2] = "unexpected"
               PROVE  /\ States[i].state \in {"Resetting", "Initial"}
                      /\ States[i].era = Era /\ Era > 0
    BY DEF ConfusedOnlyByReset
  <2>1. i \in Slot_1 /\ States[i].state \in {"Resetting", "Initial"} /\ States[i].era > 0
    BY DEF SlotInv, Confused
  <2>2. States[i].era = Era
    BY <2>1 DEF SlotInv, ErasSettled
  <2> QED BY <2>1, <2>2
<1> QED BY <1>1, Invariance, SlotInvariance, PTL

\* A component that is about to start has not used its epoch yet.
LEMMA MainEpochNew ==
  ASSUME SlotConfigured, LifecycleInv, SlotInv, NEW i \in IDs, pc[i] = "main"
  PROVE  used[i] < Epoch[i]
<1>1. i # Time
  BY DEF LifecycleInv, FinishedForGood
<1>2. CASE i = Monitor
  <2>1. States[Monitor].state \notin {"Start", "Resetting", "Initial"}
    BY <1>2, MonitorUndisturbed DEF Beginning
  <2> QED BY <1>2, <2>1 DEF SlotInv, EpochUnused, Beginning
<1>3. CASE i # Monitor
  <2>1. used[i] = 0 /\ Epoch[i] = States[i].epoch
    BY <1>3 DEF SlotInv, EpochUnused, LifecycleInv, ErasCounted
  <2>2. States[i].epoch > 0
    <3>1. CASE i \in Self_Governed
      BY <1>1, <3>1 DEF SlotInv, SelfGoverned
    <3>2. CASE i \notin Self_Governed
      <4>1. i \in Managed
        BY <1>1, <3>2 DEF Managed
      <4>2. States[i].state # "Start"
        BY <4>1 DEF LifecycleInv, InStep, Agrees, Late
      <4> QED BY <4>1, <4>2 DEF SlotInv, FirstEra
    <3> QED BY <3>1, <3>2
  <2> QED BY <2>1, <2>2
<1> QED BY <1>2, <1>3

\* The epoch that a restarted component takes from its command page (Mucontrol.Command) for
\* its channels is one that it has not used before, as long as no era has begun while the
\* slot was starting.
THEOREM EpochsNew == SlotConfigured => (Safety => EpochsIncrease)
<1> SUFFICES ASSUME SlotConfigured PROVE Safety => EpochsIncrease
  OBVIOUS
<1>1. ASSUME LifecycleInv, calm => SlotInv, [Next]_vars
      PROVE  [\A i \in IDs : calm' /\ pc[i] = "main" /\ pc'[i] = "serve" => used'[i] > used[i]]_vars
  <2> SUFFICES ASSUME NEW i \in IDs, calm', pc[i] = "main", pc'[i] = "serve", Next
               PROVE  used'[i] > used[i]
    BY <1>1 DEF vars
  <2> USE <1>1
  <2>11. SlotInv
    BY CalmLost
  <2>0. pc \in [IDs -> Labels]
    BY DEF LifecycleInv, TypeOK
  <2>1. pc' # pc
    OBVIOUS
  <2>2. ~Request
    BY <2>1 DEF Request
  <2>3. ~Controller
    <3>1. ~Requests_Read /\ ~Requests_Clear
      BY <2>1 DEF Requests_Read, Requests_Clear
    <3>2. \A j \in IDs : ~Process_Read(j)
      BY <2>1 DEF Process_Read
    <3>3. \A j \in IDs : ~Perform_Transition(j)
      BY <2>1 DEF Perform_Transition
    <3>4. \A j \in IDs : ~Trigger_Event(j)
      BY <2>1 DEF Trigger_Event
    <3> QED BY <3>1, <3>2, <3>3, <3>4 DEF Controller
  <2>4. ~Group
    BY <2>0, SlotFacts DEF Group, Handle_Reset, Linux_Trap, Sm_Service, Sm_Reset_Linux,
       Sm_Load_Linux, Sm_Loaded, Sm_Resume, Sl_Start_Linux, SM, Handover, At
  <2>5. PICK j \in IDs : Initialize(j)
    BY <2>2, <2>3, <2>4 DEF Next
  <2>6. PICK label, s : /\ OnItsWay(j, label, s)
                        /\ pc' = [pc EXCEPT ![j] = label]
    BY <2>5, SubjectMoves
  <2>7. j = i
    BY <2>0, <2>6
  <2>8. used' = [used EXCEPT ![i] = Epoch[i]]
    BY <2>6, <2>7 DEF OnItsWay, Between, Beginning
  <2>9. used'[i] = Epoch[i]
    BY <2>8 DEF LifecycleInv, TypeOK
  <2>10. used[i] \in Nat /\ Epoch[i] \in Nat
    BY ConfigAssumption DEF LifecycleInv, TypeOK
  <2> QED BY <2>9, <2>10, <2>11, MainEpochNew
<1> QED BY <1>1, Invariance, SlotInvariance, PTL DEF Safety, EpochsIncrease

=============================================================================
