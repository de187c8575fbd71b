---------------------------- MODULE PrModesProofs ----------------------------
(***************************************************************************)
(* PrValidation's theorems for the three ways the API is started, with any *)
(* number of deliveries, workers, pull requests and commits.               *)
(***************************************************************************)
EXTENDS MCPrModes, FiniteSetTheorems, TLAPS

(* Each way of starting the API is one that PrValidation allows. *)
LEMMA InlineAllowed == Inline!PrValidationAssumption
<1>1. Inline!IsFiniteSet(Handlers) /\ Inline!IsFiniteSet({})
  BY PrModesAssumption, FS_EmptySet DEF Inline!IsFiniteSet, IsFiniteSet
<1>. QED
  BY <1>1, PrModesAssumption DEF Inline!PrValidationAssumption

LEMMA MemoryAllowed == Memory!PrValidationAssumption
<1>1. Memory!IsFiniteSet(Handlers) /\ Memory!IsFiniteSet({})
  BY PrModesAssumption, FS_EmptySet DEF Memory!IsFiniteSet, IsFiniteSet
<1>. QED
  BY <1>1, PrModesAssumption DEF Memory!PrValidationAssumption

LEMMA WorkerAllowed == Worker!PrValidationAssumption
<1>1. Worker!IsFiniteSet(BullHandlers) /\ Worker!IsFiniteSet(Workers)
  BY PrModesAssumption DEF Worker!IsFiniteSet, IsFiniteSet
<1>. QED
  BY <1>1, PrModesAssumption DEF Worker!PrValidationAssumption

(* A behaviour is one of the mode it starts in. *)
LEMMA Modes ==
    /\ Init => /\ mode = "inline" => Inline!Init
               /\ mode = "memory" => Memory!Init
               /\ mode = "worker" => Worker!Init
    /\ [Next]_vars => /\ UNCHANGED mode
                      /\ mode = "inline" => [Inline!Next]_(Inline!vars)
                      /\ mode = "memory" => [Memory!Next]_(Memory!vars)
                      /\ mode = "worker" => [Worker!Next]_(Worker!vars)
<1>1. Init => /\ mode = "inline" => Inline!Init
              /\ mode = "memory" => Memory!Init
              /\ mode = "worker" => Worker!Init
  BY DEF Init
<1>2. Next => /\ UNCHANGED mode
              /\ mode = "inline" => Inline!Next
              /\ mode = "memory" => Memory!Next
              /\ mode = "worker" => Worker!Next
  BY DEF Next
<1>3. UNCHANGED vars => /\ UNCHANGED <<mode, Inline!vars, Memory!vars, Worker!vars>>
  BY DEF vars, Inline!vars, Memory!vars, Worker!vars
<1>. QED
  BY <1>1, <1>2, <1>3

(* Every task is at a step with what that step needs. *)
THEOREM ModesTyped == Spec => []TypeOK
<1>. DEFINE IInv == /\ mode = "inline" => Inline!Typed
                    /\ mode = "memory" => Memory!Typed
                    /\ mode = "worker" => Worker!Typed
<1>1. Init => IInv
  BY Modes, InlineAllowed, MemoryAllowed, WorkerAllowed,
     Inline!InitTyped, Memory!InitTyped, Worker!InitTyped
<1>2. IInv /\ [Next]_vars => IInv'
  BY Modes, InlineAllowed, MemoryAllowed, WorkerAllowed,
     Inline!NextTyped, Memory!NextTyped, Worker!NextTyped
<1>3. IInv => TypeOK
  BY InlineAllowed, MemoryAllowed, WorkerAllowed,
     Inline!TypedIsTypeOK, Memory!TypedIsTypeOK, Worker!TypedIsTypeOK DEF TypeOK
<1>. QED
  BY <1>1, <1>2, <1>3, PTL DEF Spec

(* While nothing throws, streak and stored outcome hang together. *)
THEOREM InlineCoherent == Spec => []StatusIsCoherent
<1>. DEFINE IInv == mode = "inline" => Inline!Coherent
<1>1. Inline!Shared /\ Inline!Reliable
  BY DEF Inline!Shared, Inline!Reliable
<1>2. Init => IInv
  BY Modes, InlineAllowed, Inline!InitCoherent
<1>3. IInv /\ [Next]_vars => IInv'
  BY <1>1, Modes, InlineAllowed, Inline!NextCoherent
<1>4. IInv => StatusIsCoherent
  BY InlineAllowed, Inline!CoherentStatus DEF StatusIsCoherent
<1>. QED
  BY <1>2, <1>3, <1>4, PTL DEF Spec

(* The streak passes the limit by the validations under way at most. *)
THEOREM InlineContained == Spec => []BoundedOvershoot
<1>. DEFINE IInv == mode = "inline" => Inline!Contained
<1>1. Init => IInv
  BY Modes, InlineAllowed, Inline!InitContained
<1>2. IInv /\ [Next]_vars => IInv'
  BY Modes, InlineAllowed, Inline!NextContained
<1>3. IInv => BoundedOvershoot
  BY InlineAllowed, Inline!ContainedBound DEF BoundedOvershoot
<1>. QED
  BY <1>1, <1>2, <1>3, PTL DEF Spec

(* No failure is counted whose outcome was not stored first. *)
THEOREM QueuesStore == Spec => []CountedIsStored
<1>. DEFINE IInv == /\ mode = "memory" => Memory!Stored
                    /\ mode = "worker" => Worker!Stored
<1>1. Init => IInv
  BY Modes, MemoryAllowed, WorkerAllowed, Memory!InitStored, Worker!InitStored
<1>2. IInv /\ [Next]_vars => IInv'
  BY Modes, MemoryAllowed, WorkerAllowed, Memory!NextStored, Worker!NextStored
<1>3. IInv => CountedIsStored
  BY DEF Memory!Stored, Worker!Stored, CountedIsStored
<1>. QED
  BY <1>1, <1>2, <1>3, PTL DEF Spec

(* Jobs wait in memory without a pump only after a job that threw. *)
THEOREM MemoryStrands == Spec => []StrandedOnlyByFailure
<1>. DEFINE IInv == mode = "memory" => Memory!Waited
<1>1. Init => IInv
  BY Modes, MemoryAllowed, Memory!InitWaited
<1>2. IInv /\ [Next]_vars => IInv'
  BY Modes, MemoryAllowed, Memory!NextWaited
<1>3. IInv => StrandedOnlyByFailure
  BY DEF Memory!Waited, StrandedOnlyByFailure
<1>. QED
  BY <1>1, <1>2, <1>3, PTL DEF Spec

(* Retries and stalls of one BullMQ job never stop its pull request. *)
THEOREM WorkerThrifty == Spec => []OneCommitNeverLoops
<1>. DEFINE IInv == mode = "worker" => Worker!Thrifty
<1>1. Worker!RetriesBelowLimit
  BY PrModesAssumption DEF Worker!RetriesBelowLimit, Worker!Attempts, Worker!MaxStalled
<1>2. Init => IInv
  BY Modes, WorkerAllowed, Worker!InitThrifty
<1>3. IInv /\ [Next]_vars => IInv'
  BY Modes, WorkerAllowed, Worker!NextThrifty
<1>4. IInv => OneCommitNeverLoops
  BY <1>1, WorkerAllowed, Worker!ThriftyBound DEF OneCommitNeverLoops
<1>. QED
  BY <1>2, <1>3, <1>4, PTL DEF Spec

(* The loop event goes out only after LoopLimit failures in a row. *)
THEOREM LoopsAreEarned == Spec => LoopIsEarned
<1>. DEFINE IInv == /\ mode = "inline" => Inline!Counted
                    /\ mode = "memory" => Memory!Counted
            Step == /\ mode = "inline" => Inline!EarnedStep
                    /\ mode = "memory" => Memory!EarnedStep
<1>1. Inline!Shared /\ Memory!Shared /\ Inline!OneSession /\ Memory!OneSession
  BY PrModesAssumption DEF Inline!Shared, Memory!Shared, Inline!OneSession, Memory!OneSession
<1>2. Init => IInv
  BY Modes, InlineAllowed, MemoryAllowed, Inline!InitCounted, Memory!InitCounted
<1>3. IInv /\ [Next]_vars => IInv' /\ Step
  BY <1>1, Modes, InlineAllowed, MemoryAllowed, Inline!NextCounted, Memory!NextCounted
<1>. QED
  BY <1>2, <1>3, PTL DEF Spec, LoopIsEarned

(* With one task that validates, the streak keeps LoopGuard's promise. *)
THEOREM MemoryKeepsGuard == Spec => ImplementsLoopGuard
<1>. DEFINE IInv == mode = "memory" => Memory!Guarded
            failures == IF mode = "memory" THEN streak ELSE [p \in Prs |-> 0]
<1>1. Memory!InMemory
  BY DEF Memory!InMemory
<1>2. Init => IInv
  BY Modes, MemoryAllowed, Memory!InitGuarded
<1>3. Init => Guard!Init
  BY Modes DEF Memory!Init, Guard!Init
<1>4. IInv /\ [Next]_vars => IInv'
  BY <1>1, Modes, MemoryAllowed, Memory!NextGuarded
<1>5. IInv /\ [Next]_vars => [Guard!Next]_failures
  <2>. SUFFICES ASSUME IInv, [Next]_vars PROVE [Guard!Next]_failures
    OBVIOUS
  <2>1. UNCHANGED mode
    BY Modes
  <2>2. CASE mode = "memory"
    <3>1. Memory!GuardedStep
      BY <1>1, <2>2, Modes, MemoryAllowed, Memory!NextGuarded
    <3>. QED
      BY <2>1, <2>2, <3>1
         DEF Memory!GuardedStep, Guard!Next, Guard!ValidationFails, Guard!StartsAfresh
  <2>3. CASE mode # "memory"
    BY <2>1, <2>3
  <2>. QED
    BY <2>2, <2>3
<1>. QED
  BY <1>2, <1>3, <1>4, <1>5, PTL DEF Spec, ImplementsLoopGuard, Guard!Spec

==============================================================================
