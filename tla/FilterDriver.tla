--------------------------- MODULE FilterDriver ----------------------------
(***************************************************************************)
(* The control path of the NDIS filter driver (src/ntfwkm/driver.cpp): NDIS *)
(* attaches, restarts, pauses and detaches a filter module per adapter; a   *)
(* user request stops all filtering, reconfigures the engine and restores   *)
(* filtering.                                                               *)
(*                                                                          *)
(* Every access to the driver's state is made under DriverLock, so a        *)
(* critical section is one step; the lock is a variable only because one    *)
(* path returns without releasing it.  NDIS is external: it serialises the  *)
(* callbacks of an adapter and follows the filter module states of its      *)
(* documentation.                                                           *)
(***************************************************************************)
EXTENDS Integers, FiniteSets

CONSTANTS
    Adapter,   \* network adapters NDIS binds the driver to
    Module,    \* FltModules, the MAX_FILTER_MODULES contexts
    Thread,    \* user threads that send IOCTL_NTFW_ENGINE_RESTART
    None       \* a null handle

ASSUME DriverAssumption ==
    /\ IsFiniteSet(Module)
    /\ None \notin Adapter \cup Module \cup Thread

VARIABLES
    State, FilterModuleHandle,        \* FLT_MODULE
    FltModuleList, FltModuleFreeList,
    RunningModuleCount,
    SuspendSignal, SuspendCompleteEvent,
    DriverLock,  \* held by a callback that has returned
    UserMutex,   \* the thread that owns it, or None
    pc,          \* where in RequestDispatch each thread is
    ndis,        \* NDIS: the state of each adapter's filter module
    context,     \* NDIS: the FLT_MODULE it passes to the callbacks
    reset        \* NDIS: modules NdisFRestartFilter was asked to restart

flags == <<RunningModuleCount, SuspendSignal, SuspendCompleteEvent>>
lists == <<FltModuleList, FltModuleFreeList>>
module == <<State, FilterModuleHandle>>
user == <<UserMutex, pc>>
vars == <<State, FilterModuleHandle, FltModuleList, FltModuleFreeList,
          RunningModuleCount, SuspendSignal, SuspendCompleteEvent, DriverLock,
          UserMutex, pc, ndis, context, reset>>

FilterState == {"Undefined", "Attached", "Paused", "Suspended", "Running",
                "Detached"}

-----------------------------------------------------------------------------
(* DriverEntry. *)
Init ==
    /\ State = [m \in Module |-> "Undefined"]
    /\ FilterModuleHandle = [m \in Module |-> None]
    /\ FltModuleList = {} /\ FltModuleFreeList = Module
    /\ RunningModuleCount = 0
    /\ SuspendSignal = FALSE /\ SuspendCompleteEvent = FALSE
    /\ DriverLock = FALSE
    /\ UserMutex = None
    /\ pc = [t \in Thread |-> "idle"]
    /\ ndis = [a \in Adapter |-> "detached"]
    /\ context = [a \in Adapter |-> None]
    /\ reset = {}

-----------------------------------------------------------------------------
(* FilterAttach takes a context off the free list (a stack; which one it is *)
(* does not matter) and hands it to NDIS.                                   *)
AttachModule(a, m) ==
    /\ ~DriverLock /\ ndis[a] = "detached" /\ m \in FltModuleFreeList
    /\ FltModuleFreeList' = FltModuleFreeList \ {m}
    /\ FltModuleList' = FltModuleList \cup {m}
    /\ FilterModuleHandle' = [FilterModuleHandle EXCEPT ![m] = a]
    /\ State' = [State EXCEPT ![m] = "Attached"]
    /\ ndis' = [ndis EXCEPT ![a] = "attaching"]
    /\ context' = [context EXCEPT ![a] = m]
    /\ UNCHANGED <<flags, DriverLock, user, reset>>

(* No context is left: an error return that keeps the lock. *)
AttachNoModule(a) ==
    /\ ~DriverLock /\ ndis[a] = "detached" /\ FltModuleFreeList = {}
    /\ DriverLock' = TRUE
    /\ UNCHANGED <<module, lists, flags, user, ndis, context, reset>>

(* NdisFSetAttributes, outside the lock. *)
AttachDone(a) ==
    /\ ndis[a] = "attaching"
    /\ ndis' = [ndis EXCEPT ![a] = "paused"]
    /\ UNCHANGED <<module, lists, flags, DriverLock, user, context, reset>>

(* It fails: the context stays on the module list for good. *)
AttachFails(a) ==
    /\ ndis[a] = "attaching"
    /\ ndis' = [ndis EXCEPT ![a] = "detached"]
    /\ context' = [context EXCEPT ![a] = None]
    /\ UNCHANGED <<module, lists, flags, DriverLock, user, reset>>

FilterDetach(a) ==
    /\ ~DriverLock /\ ndis[a] = "paused"
    /\ State' = [State EXCEPT ![context[a]] = "Detached"]
    /\ FltModuleList' = FltModuleList \ {context[a]}
    /\ FltModuleFreeList' = FltModuleFreeList \cup {context[a]}
    /\ ndis' = [ndis EXCEPT ![a] = "detached"]
    /\ context' = [context EXCEPT ![a] = None]
    /\ UNCHANGED <<FilterModuleHandle, flags, DriverLock, user, reset>>

-----------------------------------------------------------------------------
Paused(a) ==
    /\ State' = [State EXCEPT ![context[a]] = "Paused"]
    /\ ndis' = [ndis EXCEPT ![a] = "paused"]
    /\ reset' = reset \ {a}
    /\ UNCHANGED <<FilterModuleHandle, lists, SuspendSignal, DriverLock, user,
                   context>>

(* Fault: the last module says nothing. *)
PauseSilent(a) ==
    /\ ~DriverLock /\ ndis[a] = "running"
    /\ RunningModuleCount' =
         RunningModuleCount - IF State[context[a]] = "Running" THEN 1 ELSE 0
    /\ UNCHANGED SuspendCompleteEvent
    /\ Paused(a)

(* A running module is counted down; the last one signals the event. *)
FilterPause(a) ==
    /\ ~DriverLock /\ ndis[a] = "running"
    /\ IF State[context[a]] = "Running"
       THEN /\ RunningModuleCount' = RunningModuleCount - 1
            /\ SuspendCompleteEvent' =
                 (SuspendCompleteEvent \/ RunningModuleCount = 1)
       ELSE UNCHANGED <<RunningModuleCount, SuspendCompleteEvent>>
    /\ Paused(a)

(* While the signal is up the module is held back and NDIS told to wait;    *)
(* otherwise it runs.                                                       *)
Hold(a) ==
    /\ State' = [State EXCEPT ![context[a]] = "Suspended"]
    /\ ndis' = [ndis EXCEPT ![a] = "restarting"]
    /\ UNCHANGED RunningModuleCount
Run(a) ==
    /\ State' = [State EXCEPT ![context[a]] = "Running"]
    /\ ndis' = [ndis EXCEPT ![a] = "running"]
    /\ RunningModuleCount' = RunningModuleCount + 1

(* Fault: a module that is held back is counted as running. *)
RestartCountsAll(a) ==
    /\ ~DriverLock /\ ndis[a] = "paused"
    /\ State' = [State EXCEPT ![context[a]] =
                   IF SuspendSignal THEN "Suspended" ELSE "Running"]
    /\ ndis' = [ndis EXCEPT ![a] =
                  IF SuspendSignal THEN "restarting" ELSE "running"]
    /\ RunningModuleCount' = RunningModuleCount + 1
    /\ UNCHANGED <<FilterModuleHandle, lists, SuspendSignal,
                   SuspendCompleteEvent, DriverLock, user, context, reset>>

FilterRestart(a) ==
    /\ ~DriverLock /\ ndis[a] = "paused"
    /\ \/ SuspendSignal /\ Hold(a)
       \/ ~SuspendSignal /\ Run(a)
    /\ UNCHANGED <<FilterModuleHandle, lists, SuspendSignal,
                   SuspendCompleteEvent, DriverLock, user, context, reset>>

-----------------------------------------------------------------------------
(* RequestDispatch, on IOCTL_NTFW_ENGINE_RESTART. *)
Goto(t, label) == pc' = [pc EXCEPT ![t] = label]

EnterUser(t) ==
    /\ pc[t] = "idle" /\ UserMutex = None
    /\ UserMutex' = t
    /\ Goto(t, "suspend")
    /\ UNCHANGED <<module, lists, flags, DriverLock, ndis, context, reset>>

(* Fault: the event of an earlier suspension is not cleared. *)
SuspendStaleEvent(t) ==
    /\ ~DriverLock /\ pc[t] = "suspend"
    /\ SuspendSignal' = TRUE
    /\ reset' = reset \cup {FilterModuleHandle[m] :
                    m \in {n \in FltModuleList : State[n] = "Running"}}
    /\ Goto(t, "wait")
    /\ UNCHANGED <<module, lists, RunningModuleCount, SuspendCompleteEvent,
                   DriverLock, UserMutex, ndis, context>>

(* Suspend up to the wait: NDIS is asked to restart what runs.  (If nothing *)
(* runs the loop of the code is not entered and finds nothing here either.) *)
Suspend(t) ==
    /\ ~DriverLock /\ pc[t] = "suspend"
    /\ SuspendSignal' = TRUE
    /\ SuspendCompleteEvent' =
         (SuspendCompleteEvent /\ RunningModuleCount = 0)
    /\ reset' = reset \cup {FilterModuleHandle[m] :
                    m \in {n \in FltModuleList : State[n] = "Running"}}
    /\ Goto(t, "wait")
    /\ UNCHANGED <<module, lists, RunningModuleCount, DriverLock, UserMutex,
                   ndis, context>>

Suspended(t) ==
    /\ pc[t] = "wait" /\ SuspendCompleteEvent
    /\ Goto(t, "configure")
    /\ UNCHANGED <<module, lists, flags, DriverLock, UserMutex, ndis, context,
                   reset>>

(* Whatever becomes of the configuration, filtering is restored. *)
ConfigureFirewallEngine(t) ==
    /\ pc[t] = "configure"
    /\ Goto(t, "resume")
    /\ UNCHANGED <<module, lists, flags, DriverLock, UserMutex, ndis, context,
                   reset>>

(* Fault: the signal is lowered and the modules held back are forgotten. *)
ResumeForgets(t) ==
    /\ ~DriverLock /\ pc[t] = "resume"
    /\ SuspendSignal' = FALSE
    /\ UserMutex' = None
    /\ Goto(t, "idle")
    /\ UNCHANGED <<module, lists, RunningModuleCount, SuspendCompleteEvent,
                   DriverLock, ndis, context, reset>>

(* Resume: NdisFRestartComplete for every module in state Suspended, which  *)
(* stays in that state; then the mutex is released.                         *)
Resume(t) ==
    /\ ~DriverLock /\ pc[t] = "resume"
    /\ SuspendSignal' = FALSE
    /\ LET completed == {FilterModuleHandle[m] :
                           m \in {n \in FltModuleList : State[n] = "Suspended"}}
       IN  ndis' = [a \in Adapter |->
                      IF a \in completed /\ ndis[a] = "restarting"
                      THEN "running" ELSE ndis[a]]
    /\ UserMutex' = None
    /\ Goto(t, "idle")
    /\ UNCHANGED <<module, lists, RunningModuleCount, SuspendCompleteEvent,
                   DriverLock, context, reset>>

-----------------------------------------------------------------------------
Ndis(a) ==
    \/ \E m \in Module : AttachModule(a, m)
    \/ AttachNoModule(a) \/ AttachDone(a) \/ AttachFails(a)
    \/ FilterDetach(a) \/ FilterPause(a) \/ FilterRestart(a)

Continue(t) ==
    Suspend(t) \/ Suspended(t) \/ ConfigureFirewallEngine(t) \/ Resume(t)

Next ==
    \/ \E a \in Adapter : Ndis(a)
    \/ \E t \in Thread : EnterUser(t) \/ Continue(t)

Spec == Init /\ [][Next]_vars

(* NDIS carries out the restarts it was asked for, and a thread in the      *)
(* kernel runs on.                                                          *)
FairSpec ==
    /\ Spec
    /\ \A a \in Adapter : WF_vars(a \in reset /\ FilterPause(a))
    /\ \A t \in Thread : WF_vars(Continue(t))

-----------------------------------------------------------------------------
(* Types; a counter of running modules that never goes below zero. *)
TypeOK ==
    /\ State \in [Module -> FilterState]
    /\ FilterModuleHandle \in [Module -> Adapter \cup {None}]
    /\ FltModuleList \subseteq Module /\ FltModuleFreeList \subseteq Module
    /\ RunningModuleCount \in Nat
    /\ SuspendSignal \in BOOLEAN /\ SuspendCompleteEvent \in BOOLEAN
    /\ DriverLock \in BOOLEAN
    /\ UserMutex \in Thread \cup {None}
    /\ pc \in [Thread -> {"idle", "suspend", "wait", "configure", "resume"}]
    /\ ndis \in [Adapter -> {"detached", "attaching", "paused", "restarting",
                             "running"}]
    /\ context \in [Adapter -> Module \cup {None}]
    /\ reset \subseteq Adapter

(* driver.cpp:80 "a count of the number of modules which are currently in   *)
(* the 'Running' state".                                                    *)
RunningModules == {m \in Module : State[m] = "Running"}
CountExact == RunningModuleCount = Cardinality(RunningModules)

(* The list link and the free link of a context share memory (the union in  *)
(* FLT_MODULE): it is never on both lists, and no two adapters share it.    *)
ModulesApart ==
    /\ FltModuleList \cap FltModuleFreeList = {}
    /\ \A a \in Adapter : ndis[a] # "detached" =>
         context[a] \in FltModuleList /\ FilterModuleHandle[context[a]] = a

(* Suspend's promise, as far as the code keeps it: while the engine is      *)
(* reconfigured only those modules filter that Resume let run without       *)
(* recording it.                                                            *)
SuspendQuiet ==
    (\E t \in Thread : pc[t] \in {"configure", "resume"}) =>
        \A a \in Adapter : ndis[a] = "running" => State[context[a]] = "Suspended"

(* No restart is lost: whenever NDIS waits for one to complete, Resume is   *)
(* still to come and will find the module.                                  *)
RestartsRemembered ==
    \A a \in Adapter : ndis[a] = "restarting" =>
        /\ context[a] \in FltModuleList
        /\ State[context[a]] = "Suspended"
        /\ FilterModuleHandle[context[a]] = a
        /\ \E t \in Thread : pc[t] \in {"wait", "configure", "resume"}

(* driver.cpp:88 "Signalled when the number of running modules reaches      *)
(* zero": a Suspend that waits for running modules comes to an end, unless  *)
(* FilterAttach has run off with the lock.                                  *)
SuspendEnds ==
    \A t \in Thread :
        pc[t] = "wait" /\ RunningModuleCount > 0 ~> pc[t] # "wait" \/ DriverLock

-----------------------------------------------------------------------------
(* What makes the invariants inductive. *)
MutexInv ==
    /\ \A t \in Thread : pc[t] # "idle" <=> UserMutex = t
    /\ SuspendSignal <=>
         \E t \in Thread : pc[t] \in {"wait", "configure", "resume"}
    /\ (\E t \in Thread : pc[t] \in {"configure", "resume"})
         \/ (SuspendSignal /\ SuspendCompleteEvent)
       => RunningModuleCount = 0
StateInv ==
    /\ \A m \in Module : State[m] \in {"Running", "Suspended"} =>
         LET a == FilterModuleHandle[m]
         IN  a \in Adapter /\ ndis[a] \in {"running", "restarting"}
             /\ context[a] = m
    /\ \A a \in Adapter :
         /\ ndis[a] = "running" => State[context[a]] \in {"Running", "Suspended"}
         /\ ndis[a] = "restarting" => SuspendSignal /\ State[context[a]] = "Suspended"

DriverInv == TypeOK /\ CountExact /\ ModulesApart /\ MutexInv /\ StateInv

-----------------------------------------------------------------------------
(* driver.cpp:447 "Upon return, `Suspend()` guarentees that all current and *)
(* future filter modules within the driver are in the <= 'Suspended' state".*)
SuspendGuarantee ==
    \A t \in Thread : pc[t] = "configure" => \A a \in Adapter : ndis[a] # "running"

=============================================================================
