------------------------ MODULE FilterDriverProofs -------------------------
(***************************************************************************)
(* Proofs about FilterDriver: the count of running modules is exact and a   *)
(* suspension is quiet, for any number of adapters, modules and threads.    *)
(***************************************************************************)
EXTENDS DriverLoad, FiniteSetTheorems, TLAPS

(* The running modules can be counted. *)
LEMMA RunningFinite ==
    /\ IsFiniteSet(RunningModules)
    /\ Cardinality(RunningModules) \in Nat
    /\ Cardinality(RunningModules) = 0 <=> RunningModules = {}
<1>1. RunningModules \subseteq Module
    BY DEF RunningModules
<1>2. IsFiniteSet(RunningModules)
    BY <1>1, DriverAssumption, FS_Subset
<1> QED BY <1>2, FS_CardinalityType, FS_EmptySet

(* Before any adapter is attached. *)
LEMMA DriverInit == ASSUME Init PROVE DriverInv
<1>1. RunningModules = {}
    BY DEF Init, RunningModules
<1>2. CountExact
    BY <1>1, FS_EmptySet DEF Init, CountExact
<1>3. TypeOK /\ ModulesApart /\ StateInv
    BY DEF Init, TypeOK, ModulesApart, StateInv, FilterState
<1>4. MutexInv
    BY DriverAssumption DEF Init, MutexInv
<1> QED BY <1>2, <1>3, <1>4 DEF DriverInv

(* The context NDIS passes for an adapter is that adapter's alone. *)
LEMMA ContextOwned ==
    ASSUME DriverInv, NEW a \in Adapter, ndis[a] # "detached"
    PROVE  /\ context[a] \in Module
           /\ FilterModuleHandle[context[a]] = a
           /\ \A b \in Adapter : ndis[b] # "detached" /\ context[b] = context[a]
                 => b = a
           /\ ndis[a] \notin {"running", "restarting"}
                => State[context[a]] \notin {"Running", "Suspended"}
BY DEF DriverInv, ModulesApart, TypeOK, StateInv

(* FilterAttach and FilterDetach leave running modules alone. *)
LEMMA AttachStep ==
    ASSUME DriverInv, NEW a \in Adapter,
           \/ \E m \in Module : AttachModule(a, m)
           \/ AttachNoModule(a) \/ AttachDone(a) \/ AttachFails(a)
           \/ FilterDetach(a)
    PROVE  DriverInv'
<1> USE DEF flags, lists, module, user
<1>1. /\ TypeOK /\ CountExact /\ ModulesApart /\ MutexInv /\ StateInv
      /\ None \notin Adapter /\ None \notin Module
    BY DriverAssumption DEF DriverInv
<1>2. UNCHANGED <<flags, user, reset>>
    BY DEF AttachModule, AttachNoModule, AttachDone, AttachFails, FilterDetach
<1>3. CASE \E m \in Module : AttachModule(a, m)
  <2>1. PICK m \in Module : AttachModule(a, m)
      BY <1>3
  <2>2. /\ ndis[a] = "detached" /\ m \in FltModuleFreeList
        /\ m \notin FltModuleList
      BY <2>1, <1>1 DEF AttachModule, ModulesApart
  <2>3. State[m] \notin {"Running", "Suspended"}
    <3>1. ASSUME State[m] \in {"Running", "Suspended"} PROVE FALSE
      <4>1. PICK b \in Adapter : ndis[b] \in {"running", "restarting"}
                                /\ context[b] = m
          BY <3>1, <1>1 DEF StateInv
      <4> QED BY <4>1, <2>2, <1>1 DEF ModulesApart
    <3> QED BY <3>1
  <2>4. TypeOK'
      BY <1>1, <1>2, <2>1 DEF TypeOK, AttachModule, FilterState
  <2>5. CountExact'
    <3>1. RunningModules' = RunningModules
        BY <1>1, <2>1, <2>3 DEF RunningModules, AttachModule, TypeOK
    <3> QED BY <3>1, <1>1, <1>2 DEF CountExact
  <2>6. ModulesApart'
      BY <1>1, <2>1, <2>2 DEF ModulesApart, AttachModule, TypeOK
  <2>7. MutexInv'
      BY <1>1, <1>2 DEF MutexInv
  <2>8. StateInv'
    <3>1. ASSUME NEW b \in Adapter, ndis'[b] \in {"running", "restarting"}
          PROVE  /\ b # a /\ context'[b] = context[b] /\ ndis'[b] = ndis[b]
                 /\ context[b] # m
        BY <3>1, <1>1, <2>1, <2>2 DEF AttachModule, TypeOK, ModulesApart
    <3> QED BY <1>1, <1>2, <2>1, <2>2, <2>3, <3>1
            DEF StateInv, AttachModule, TypeOK, ModulesApart
  <2> QED BY <2>4, <2>5, <2>6, <2>7, <2>8 DEF DriverInv
<1>4. CASE AttachNoModule(a)
  <2>1. UNCHANGED <<module, lists, flags, user, ndis, context, reset>>
        /\ DriverLock' \in BOOLEAN
      BY <1>4 DEF AttachNoModule
  <2> QED BY <1>1, <2>1 DEF DriverInv, TypeOK, CountExact, RunningModules,
              ModulesApart, MutexInv, StateInv
<1>5. CASE AttachDone(a) \/ AttachFails(a)
  <2>1. /\ ndis[a] = "attaching"
        /\ UNCHANGED <<module, lists, flags, DriverLock, user, reset>>
        /\ \E s \in {"paused", "detached"} : ndis' = [ndis EXCEPT ![a] = s]
        /\ \/ context' = context /\ ndis' = [ndis EXCEPT ![a] = "paused"]
           \/ /\ context' = [context EXCEPT ![a] = None]
              /\ ndis' = [ndis EXCEPT ![a] = "detached"]
      BY <1>5 DEF AttachDone, AttachFails
  <2>2. TypeOK'
      BY <1>1, <2>1 DEF TypeOK
  <2>3. CountExact'
      BY <1>1, <2>1 DEF CountExact, RunningModules
  <2>4. ModulesApart'
      BY <1>1, <2>1 DEF ModulesApart, TypeOK
  <2>5. MutexInv'
      BY <1>1, <2>1 DEF MutexInv
  <2>6. StateInv'
      BY <1>1, <2>1 DEF StateInv, TypeOK
  <2> QED BY <2>2, <2>3, <2>4, <2>5, <2>6 DEF DriverInv
<1>6. CASE FilterDetach(a)
  <2>1. /\ ndis[a] = "paused"
        /\ State' = [State EXCEPT ![context[a]] = "Detached"]
        /\ FltModuleList' = FltModuleList \ {context[a]}
        /\ FltModuleFreeList' = FltModuleFreeList \cup {context[a]}
        /\ ndis' = [ndis EXCEPT ![a] = "detached"]
        /\ context' = [context EXCEPT ![a] = None]
        /\ UNCHANGED <<FilterModuleHandle, DriverLock>>
      BY <1>6 DEF FilterDetach
  <2>2. /\ context[a] \in Module /\ FilterModuleHandle[context[a]] = a
        /\ \A b \in Adapter : ndis[b] # "detached" /\ context[b] = context[a]
                 => b = a
        /\ State[context[a]] \notin {"Running", "Suspended"}
      BY <2>1, ContextOwned
  <2>3. TypeOK'
      BY <1>1, <1>2, <2>1, <2>2 DEF TypeOK, FilterState
  <2>4. CountExact'
    <3>1. RunningModules' = RunningModules
        BY <1>1, <2>1, <2>2 DEF RunningModules, TypeOK
    <3> QED BY <3>1, <1>1, <1>2 DEF CountExact
  <2>5. ModulesApart'
    <3>1. ASSUME NEW b \in Adapter, ndis'[b] # "detached"
          PROVE  /\ b # a /\ ndis'[b] = ndis[b] /\ context'[b] = context[b]
                 /\ context[b] # context[a]
        BY <3>1, <1>1, <2>1, <2>2 DEF TypeOK
    <3> QED BY <1>1, <2>1, <3>1 DEF ModulesApart
  <2>6. MutexInv'
      BY <1>1, <1>2 DEF MutexInv
  <2>7. StateInv'
    <3>1. ASSUME NEW n \in Module, State'[n] \in {"Running", "Suspended"}
          PROVE  n # context[a] /\ State'[n] = State[n]
        BY <3>1, <1>1, <2>1 DEF TypeOK
    <3>2. ASSUME NEW n \in Module, State'[n] \in {"Running", "Suspended"}
          PROVE  LET b == FilterModuleHandle'[n]
                 IN  /\ b \in Adapter
                     /\ ndis'[b] \in {"running", "restarting"}
                     /\ context'[b] = n
        BY <3>1, <3>2, <1>1, <2>1 DEF StateInv, TypeOK
    <3>3. ASSUME NEW b \in Adapter, ndis'[b] \in {"running", "restarting"}
          PROVE  /\ ndis'[b] = ndis[b] /\ context'[b] = context[b]
                 /\ context[b] # context[a] /\ context[b] \in Module
                 /\ State'[context[b]] = State[context[b]]
      <4>1. b # a /\ ndis'[b] = ndis[b] /\ context'[b] = context[b]
          BY <3>3, <1>1, <2>1 DEF TypeOK
      <4>2. context[b] # context[a] /\ context[b] \in Module
          BY <3>3, <4>1, <2>2, ContextOwned
      <4> QED BY <4>1, <4>2, <1>1, <2>1 DEF TypeOK
    <3> QED BY <1>1, <1>2, <3>2, <3>3 DEF StateInv
  <2> QED BY <2>3, <2>4, <2>5, <2>6, <2>7 DEF DriverInv
<1> QED BY <1>3, <1>4, <1>5, <1>6

(* FilterPause counts down exactly the modules that were counted up. *)
LEMMA PauseStep ==
    ASSUME DriverInv, NEW a \in Adapter, FilterPause(a)
    PROVE  DriverInv'
<1> USE DEF flags, lists, module, user
<1>1. /\ TypeOK /\ CountExact /\ ModulesApart /\ MutexInv /\ StateInv
    BY DEF DriverInv
<1> DEFINE m == context[a]
<1>2. /\ ndis[a] = "running"
      /\ State' = [State EXCEPT ![m] = "Paused"]
      /\ ndis' = [ndis EXCEPT ![a] = "paused"]
      /\ reset' = reset \ {a}
      /\ UNCHANGED <<FilterModuleHandle, lists, SuspendSignal, DriverLock,
                     user, context>>
    BY DEF FilterPause, Paused
<1>3. /\ m \in Module /\ FilterModuleHandle[m] = a
      /\ \A b \in Adapter : ndis[b] # "detached" /\ context[b] = m => b = a
    BY <1>2, ContextOwned
<1>4. State[m] \in {"Running", "Suspended"}
    BY <1>1, <1>2 DEF StateInv
<1>5. /\ RunningModuleCount = Cardinality(RunningModules)
      /\ RunningModuleCount \in Nat /\ IsFiniteSet(RunningModules)
    BY <1>1, RunningFinite DEF CountExact
<1>6. CASE State[m] = "Running"
  <2>1. /\ RunningModuleCount' = RunningModuleCount - 1
        /\ SuspendCompleteEvent' =
             (SuspendCompleteEvent \/ RunningModuleCount = 1)
      BY <1>6 DEF FilterPause
  <2>2. m \in RunningModules /\ RunningModules' = RunningModules \ {m}
      BY <1>1, <1>2, <1>3, <1>6 DEF RunningModules, TypeOK
  <2>3. RunningModuleCount # 0
      BY <1>5, <2>2, RunningFinite
  <2>4. Cardinality(RunningModules') = Cardinality(RunningModules) - 1
      BY <1>5, <2>2, FS_RemoveElement
  <2>5. CountExact'
      BY <1>5, <2>1, <2>4 DEF CountExact
  <2>6. RunningModuleCount' \in Nat
      BY <1>5, <2>1, <2>3
  <2>7. MutexInv'
    <3>1. /\ ~\E t \in Thread : pc[t] \in {"configure", "resume"}
          /\ ~(SuspendSignal /\ SuspendCompleteEvent)
        BY <1>1, <2>3 DEF MutexInv
    <3>2. SuspendCompleteEvent' => SuspendCompleteEvent \/ RunningModuleCount = 1
        BY <2>1, Zenon
    <3>3. RunningModuleCount = 1 => RunningModuleCount' = 0
        BY <2>1
    <3> QED BY <1>1, <1>2, <3>1, <3>2, <3>3 DEF MutexInv
  <2>8. SuspendCompleteEvent' \in BOOLEAN
      BY <2>1
  <2> QED BY <1>1, <1>2, <1>3, <2>5, <2>6, <2>7, <2>8
          DEF DriverInv, TypeOK, ModulesApart, StateInv, FilterState
<1>7. CASE State[m] # "Running"
  <2>1. UNCHANGED <<RunningModuleCount, SuspendCompleteEvent>>
      BY <1>7 DEF FilterPause
  <2>2. RunningModules' = RunningModules
      BY <1>1, <1>2, <1>3, <1>7 DEF RunningModules, TypeOK
  <2>3. CountExact' /\ MutexInv'
      BY <1>1, <1>2, <2>1, <2>2 DEF CountExact, MutexInv
  <2> QED BY <1>1, <1>2, <1>3, <2>1, <2>3
          DEF DriverInv, TypeOK, ModulesApart, StateInv, FilterState
<1> QED BY <1>6, <1>7

(* FilterRestart counts a module up, or holds it back under the signal. *)
LEMMA RestartStep ==
    ASSUME DriverInv, NEW a \in Adapter, FilterRestart(a)
    PROVE  DriverInv'
<1> USE DEF flags, lists, module, user
<1>1. /\ TypeOK /\ CountExact /\ ModulesApart /\ MutexInv /\ StateInv
    BY DEF DriverInv
<1> DEFINE m == context[a]
<1>2. /\ ndis[a] = "paused"
      /\ UNCHANGED <<FilterModuleHandle, lists, SuspendSignal,
                     SuspendCompleteEvent, DriverLock, user, context, reset>>
    BY DEF FilterRestart
<1>3. /\ m \in Module /\ FilterModuleHandle[m] = a
      /\ \A b \in Adapter : ndis[b] # "detached" /\ context[b] = m => b = a
      /\ State[m] \notin {"Running", "Suspended"}
    BY <1>2, ContextOwned
<1>4. /\ RunningModuleCount = Cardinality(RunningModules)
      /\ RunningModuleCount \in Nat /\ IsFiniteSet(RunningModules)
    BY <1>1, RunningFinite DEF CountExact
<1>5. CASE SuspendSignal
  <2>1. /\ State' = [State EXCEPT ![m] = "Suspended"]
        /\ ndis' = [ndis EXCEPT ![a] = "restarting"]
        /\ UNCHANGED RunningModuleCount
      BY <1>5 DEF FilterRestart, Hold
  <2>2. RunningModules' = RunningModules
      BY <1>1, <1>3, <2>1 DEF RunningModules, TypeOK
  <2>3. CountExact' /\ MutexInv'
      BY <1>1, <1>2, <2>1, <2>2 DEF CountExact, MutexInv
  <2> QED BY <1>1, <1>2, <1>3, <1>5, <2>1, <2>3
          DEF DriverInv, TypeOK, ModulesApart, StateInv, FilterState
<1>6. CASE ~SuspendSignal
  <2>1. /\ State' = [State EXCEPT ![m] = "Running"]
        /\ ndis' = [ndis EXCEPT ![a] = "running"]
        /\ RunningModuleCount' = RunningModuleCount + 1
      BY <1>6 DEF FilterRestart, Run
  <2>2. m \notin RunningModules /\ RunningModules' = RunningModules \cup {m}
      BY <1>1, <1>3, <2>1 DEF RunningModules, TypeOK
  <2>3. Cardinality(RunningModules') = Cardinality(RunningModules) + 1
      BY <1>4, <2>2, FS_AddElement
  <2>4. CountExact' /\ RunningModuleCount' \in Nat
      BY <1>4, <2>1, <2>3 DEF CountExact
  <2>5. MutexInv'
      BY <1>1, <1>2, <1>6 DEF MutexInv
  <2> QED BY <1>1, <1>2, <1>3, <1>6, <2>1, <2>4, <2>5
          DEF DriverInv, TypeOK, ModulesApart, StateInv, FilterState
<1> QED BY <1>5, <1>6

(* The user request: one thread at a time, and the wait ends on a quiet     *)
(* driver.                                                                  *)
LEMMA RequestStep ==
    ASSUME DriverInv, NEW t \in Thread,
           \/ EnterUser(t) \/ Suspend(t) \/ Suspended(t)
           \/ ConfigureFirewallEngine(t)
    PROVE  DriverInv'
<1> USE DEF flags, lists, module, user, Goto
<1>1. /\ TypeOK /\ CountExact /\ ModulesApart /\ MutexInv /\ StateInv
      /\ None \notin Thread
    BY DriverAssumption DEF DriverInv
<1>2. UNCHANGED <<module, lists, RunningModuleCount, DriverLock, ndis, context>>
    BY DEF EnterUser, Suspend, Suspended, ConfigureFirewallEngine
<1>3. CountExact' /\ ModulesApart'
    BY <1>1, <1>2 DEF CountExact, RunningModules, ModulesApart
<1>4. StateInv'
  <2>1. SuspendSignal => SuspendSignal'
      BY DEF EnterUser, Suspend, Suspended, ConfigureFirewallEngine
  <2> QED BY <1>1, <1>2, <2>1 DEF StateInv
<1>5. TypeOK'
  <2>1. reset' \subseteq Adapter
    <3>1. \A m \in Module : State[m] = "Running"
              => FilterModuleHandle[m] \in Adapter
        BY <1>1 DEF StateInv
    <3> QED BY <1>1, <3>1 DEF TypeOK, EnterUser, Suspend, Suspended,
                              ConfigureFirewallEngine
  <2>2. /\ SuspendSignal' \in BOOLEAN /\ SuspendCompleteEvent' \in BOOLEAN
        /\ UserMutex' \in Thread \cup {None}
        /\ pc' \in [Thread -> {"idle", "suspend", "wait", "configure",
                               "resume"}]
      BY <1>1 DEF TypeOK, EnterUser, Suspend, Suspended,
                  ConfigureFirewallEngine
  <2> QED BY <1>1, <1>2, <2>1, <2>2 DEF TypeOK
<1>6. MutexInv'
  <2>1. CASE EnterUser(t)
      BY <2>1, <1>1 DEF EnterUser, MutexInv, TypeOK
  <2>2. CASE Suspend(t)
      BY <2>2, <1>1 DEF Suspend, MutexInv, TypeOK
  <2>3. CASE Suspended(t)
      BY <2>3, <1>1 DEF Suspended, MutexInv, TypeOK
  <2>4. CASE ConfigureFirewallEngine(t)
      BY <2>4, <1>1 DEF ConfigureFirewallEngine, MutexInv, TypeOK
  <2> QED BY <2>1, <2>2, <2>3, <2>4
<1> QED BY <1>3, <1>4, <1>5, <1>6 DEF DriverInv

(* Resume finds every module whose restart is pending. *)
LEMMA ResumeStep ==
    ASSUME DriverInv, NEW t \in Thread, Resume(t)
    PROVE  DriverInv'
<1> USE DEF flags, lists, module, user, Goto
<1>1. /\ TypeOK /\ CountExact /\ ModulesApart /\ MutexInv /\ StateInv
      /\ None \notin Thread
    BY DriverAssumption DEF DriverInv
<1>2. /\ pc[t] = "resume" /\ SuspendSignal' = FALSE /\ UserMutex' = None
      /\ pc' = [pc EXCEPT ![t] = "idle"]
      /\ UNCHANGED <<module, lists, RunningModuleCount, SuspendCompleteEvent,
                     DriverLock, context, reset>>
    BY DEF Resume
<1>3. ndis' = [a \in Adapter |->
                 IF ndis[a] = "restarting" THEN "running" ELSE ndis[a]]
  <2>1. ASSUME NEW a \in Adapter, ndis[a] = "restarting"
        PROVE  a \in {FilterModuleHandle[m] :
                        m \in {n \in FltModuleList : State[n] = "Suspended"}}
    <3>1. /\ context[a] \in FltModuleList /\ State[context[a]] = "Suspended"
          /\ FilterModuleHandle[context[a]] = a
        BY <1>1, <2>1 DEF ModulesApart, StateInv
    <3> QED BY <3>1
  <2> QED BY <2>1 DEF Resume
<1>4. TypeOK'
    BY <1>1, <1>2, <1>3 DEF TypeOK
<1>5. CountExact' /\ ModulesApart'
    BY <1>1, <1>2, <1>3 DEF CountExact, RunningModules, ModulesApart
<1>6. MutexInv'
    BY <1>1, <1>2 DEF MutexInv, TypeOK
<1>7. StateInv'
    BY <1>1, <1>2, <1>3 DEF StateInv, TypeOK
<1> QED BY <1>4, <1>5, <1>6, <1>7 DEF DriverInv

(* The invariant of the control path. *)
THEOREM DriverInductive == Spec => []DriverInv
<1>1. Init => DriverInv
    BY DriverInit
<1>2. DriverInv /\ [Next]_vars => DriverInv'
  <2> SUFFICES ASSUME DriverInv, [Next]_vars PROVE DriverInv'
      OBVIOUS
  <2>1. CASE UNCHANGED vars
      BY <2>1 DEF vars, DriverInv, TypeOK, CountExact, RunningModules,
                  ModulesApart, MutexInv, StateInv
  <2>2. ASSUME NEW a \in Adapter, Ndis(a) PROVE DriverInv'
      BY <2>2, AttachStep, PauseStep, RestartStep DEF Ndis
  <2>3. ASSUME NEW t \in Thread, EnterUser(t) \/ Continue(t)
        PROVE  DriverInv'
      BY <2>3, RequestStep, ResumeStep DEF Continue
  <2> QED BY <2>1, <2>2, <2>3 DEF Next
<1> QED BY <1>1, <1>2, PTL DEF Spec

(* RunningModuleCount is the number of modules in state Running. *)
THEOREM CountCorrect == Spec => []CountExact
<1>1. DriverInv => CountExact
    BY DEF DriverInv
<1> QED BY <1>1, DriverInductive, PTL

(* A context is on one list at a time, and belongs to one adapter. *)
THEOREM ModulesKeptApart == Spec => []ModulesApart
<1>1. DriverInv => ModulesApart
    BY DEF DriverInv
<1> QED BY <1>1, DriverInductive, PTL

(* While the engine is reconfigured only modules that an earlier Resume let *)
(* run without recording it can be running.                                 *)
THEOREM SuspensionQuiet == Spec => []SuspendQuiet
<1>1. DriverInv => SuspendQuiet
  <2> SUFFICES ASSUME DriverInv,
                      \E t \in Thread : pc[t] \in {"configure", "resume"},
                      NEW a \in Adapter, ndis[a] = "running"
               PROVE  State[context[a]] = "Suspended"
      BY DEF SuspendQuiet
  <2>1. RunningModules = {}
      BY RunningFinite DEF DriverInv, MutexInv, CountExact
  <2>2. context[a] \in Module /\ State[context[a]] \in {"Running", "Suspended"}
      BY ContextOwned DEF DriverInv, StateInv
  <2> QED BY <2>1, <2>2 DEF RunningModules
<1> QED BY <1>1, DriverInductive, PTL

(* No pending restart is lost. *)
THEOREM RestartsKept == Spec => []RestartsRemembered
<1>1. DriverInv => RestartsRemembered
    BY DEF DriverInv, RestartsRemembered, ModulesApart, MutexInv, StateInv
<1> QED BY <1>1, DriverInductive, PTL

-----------------------------------------------------------------------------
(* DriverEntry and DriverUnload (driver.cpp:577-715) leave the control      *)
(* path's state alone, and let NDIS and the user take its steps only.       *)
LEMMA LoadStep == [LoadNext]_lvars => [Next]_vars
<1> SUFFICES ASSUME [LoadNext]_lvars PROVE [Next]_vars
    OBVIOUS
<1>1. CASE UNCHANGED lvars
    BY <1>1 DEF lvars, vars
<1>2. CASE Loading \/ DriverUnload \/ Unloading
  <2>1. UNCHANGED vars
      BY <1>2 DEF Loading, ntfe_init, RegisterFilter, OpenConfiguration,
                  RegisterDevice, Acquire, Fails, DriverUnload, Unloading,
                  ntfe_cleanup, CloseConfiguration, DeregisterDevice, Release,
                  DeregisterFilter
  <2> QED BY <2>1
<1>3. ASSUME NEW a \in Adapter, NdisCalls(a) PROVE Next
  <2>1. Ndis(a)
      BY <1>3 DEF NdisCalls, Detaching, Ndis
  <2> QED BY <2>1 DEF Next
<1>4. ASSUME NEW t \in Thread, Request(t) PROVE Next
  <2>1. EnterUser(t) \/ Continue(t)
      BY <1>4 DEF Request
  <2> QED BY <2>1 DEF Next
<1> QED BY <1>1, <1>2, <1>3, <1>4 DEF LoadNext

(* The driver's life implements the control path (driver.cpp, as a whole). *)
THEOREM LoadImplementsDriver == LoadSpec => Spec
<1>1. LoadInit => Init
    BY DEF LoadInit
<1> QED BY <1>1, LoadStep, PTL DEF LoadSpec, Spec

(* Through loads that fail and unloads, a suspension is quiet and no        *)
(* restart is lost.                                                         *)
THEOREM LoadQuiet == LoadSpec => [](SuspendQuiet /\ RestartsRemembered)
<1> QED BY LoadImplementsDriver, SuspensionQuiet, RestartsKept, PTL
=============================================================================
