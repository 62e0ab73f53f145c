---------------------------- MODULE DriverLoad ------------------------------
(***************************************************************************)
(* The life of the filter driver (src/ntfwkm/driver.cpp): DriverEntry       *)
(* acquires its resources one by one, NDIS and the user drive the control   *)
(* path of FilterDriver as soon as they can, and DriverUnload gives the     *)
(* resources up while NDIS goes on.                                         *)
(*                                                                          *)
(* A load that fails may leave NDIS with callbacks into an image that is    *)
(* gone; what they do is undefined, and they are not followed.              *)
(***************************************************************************)
EXTENDS FilterDriver

VARIABLES
    stage,   \* of the driver's life: entry, loaded, unload, deregister, gone
    held     \* what it has acquired and not released, of engine, filter,
             \* config and device

load == <<stage, held>>
lvars == <<State, FilterModuleHandle, FltModuleList, FltModuleFreeList,
           RunningModuleCount, SuspendSignal, SuspendCompleteEvent, DriverLock,
           UserMutex, pc, ndis, context, reset, stage, held>>

LoadInit == Init /\ stage = "entry" /\ held = {}

-----------------------------------------------------------------------------
(* DriverEntry, a step for each call that can fail. *)
Acquire(r, next) ==
    /\ stage = "entry"
    /\ held' = held \cup {r} /\ stage' = next
    /\ UNCHANGED vars
Fails(next) ==
    /\ stage = "entry"
    /\ stage' = next
    /\ UNCHANGED <<vars, held>>

(* ntfe_init, NdisFRegisterFilterDriver and NdisOpenConfigurationEx: the    *)
(* image goes, and what was acquired before stays.                          *)
ntfe_init == held = {} /\ (Acquire("engine", "entry") \/ Fails("gone"))
RegisterFilter ==
    held = {"engine"} /\ (Acquire("filter", "entry") \/ Fails("gone"))
OpenConfiguration ==
    held = {"engine", "filter"} /\ (Acquire("config", "entry") \/ Fails("gone"))

(* NdisRegisterDeviceEx: the filter is deregistered if it fails. *)
RegisterDevice ==
    /\ held = {"engine", "filter", "config"}
    /\ Acquire("device", "loaded") \/ Fails("deregister")

-----------------------------------------------------------------------------
(* The I/O manager unloads a driver that no thread has a request in.        *)
DriverUnload ==
    /\ stage = "loaded" /\ \A t \in Thread : pc[t] = "idle"
    /\ stage' = "unload"
    /\ UNCHANGED <<vars, held>>

Release(r, next) ==
    /\ stage = "unload"
    /\ held' = held \ {r} /\ stage' = next
    /\ UNCHANGED vars

(* ntfe_cleanup comes first, when modules may still be running.             *)
ntfe_cleanup == "engine" \in held /\ Release("engine", "unload")
CloseConfiguration ==
    "engine" \notin held /\ "config" \in held /\ Release("config", "unload")
DeregisterDevice ==
    held = {"device", "filter"} /\ Release("device", "deregister")

(* Fault: the filter is not deregistered. *)
DeregisterNothing ==
    /\ stage = "deregister"
    /\ stage' = "gone"
    /\ UNCHANGED <<vars, held>>

(* NdisFDeregisterFilterDriver returns when NDIS has detached all modules;  *)
(* the image is removed next.                                               *)
DeregisterFilter ==
    /\ stage = "deregister" /\ \A a \in Adapter : ndis[a] = "detached"
    /\ held' = held \ {"filter"} /\ stage' = "gone"
    /\ UNCHANGED vars

-----------------------------------------------------------------------------
(* NDIS calls from the registration to the deregistration, which it spends  *)
(* pausing and detaching.                                                   *)
Detaching(a) == AttachDone(a) \/ AttachFails(a) \/ FilterPause(a) \/ FilterDetach(a)
NdisCalls(a) ==
    /\ "filter" \in held
    /\ \/ stage \in {"entry", "loaded", "unload"} /\ Ndis(a)
       \/ stage = "deregister" /\ Detaching(a)
    /\ UNCHANGED load

(* Requests come in through the device. *)
Request(t) ==
    /\ stage = "loaded"
    /\ EnterUser(t) \/ Continue(t)
    /\ UNCHANGED load

Loading == ntfe_init \/ RegisterFilter \/ OpenConfiguration \/ RegisterDevice
Unloading ==
    \/ ntfe_cleanup \/ CloseConfiguration \/ DeregisterDevice
    \/ DeregisterFilter

LoadNext ==
    \/ Loading \/ DriverUnload \/ Unloading
    \/ \E a \in Adapter : NdisCalls(a)
    \/ \E t \in Thread : Request(t)

LoadSpec == LoadInit /\ [][LoadNext]_lvars

(* As in FilterDriver; and the thread that unloads the driver runs on, as   *)
(* does NDIS with the detaching it was asked for.                           *)
FairLoadSpec ==
    /\ LoadSpec
    /\ \A a \in Adapter :
         /\ WF_lvars(a \in reset /\ FilterPause(a) /\ UNCHANGED load)
         /\ WF_lvars(stage = "deregister" /\ NdisCalls(a))
    /\ \A t \in Thread : WF_lvars(Continue(t) /\ UNCHANGED load)
    /\ WF_lvars(Unloading)

-----------------------------------------------------------------------------
(* DriverUnload (driver.cpp:577), begun with adapters in any state, comes   *)
(* to an end, and so does the deregistration of a load that failed: every   *)
(* module can be paused and detached, none waits for a restart nobody       *)
(* completes.  Then NDIS calls no more; and if the driver had been loaded   *)
(* nothing is left behind, whereas a failed load leaves the engine and the  *)
(* configuration.  The exception is a FilterAttach that ran off with the    *)
(* lock.                                                                    *)
UnloadEnds ==
    /\ stage = "unload" ~> (stage = "gone" /\ held = {}) \/ DriverLock
    /\ stage = "deregister" ~>
         (stage = "gone" /\ held \subseteq {"engine", "config"}) \/ DriverLock
=============================================================================
