-------------------------- MODULE HostTableProofs --------------------------
(***************************************************************************)
(* Proofs about HostTable for every number of CPUs, addresses and entries.  *)
(***************************************************************************)
EXTENDS HostTable, FiniteSetTheorems, TLAPS

USE DEF HOST_PRI_NONE, HOST_PRI_OUTAUTH, HOST_PRI_DYNAUTH, HOST_PRI_STATIC

(* Every variable keeps its type, and no CPU holds a failed index where it  *)
(* is about to use it.                                                      *)
LEMMA TypeInit == Init => TypeOK /\ IndexValid
<1> SUFFICES ASSUME Init PROVE TypeOK /\ IndexValid
    OBVIOUS
<1> USE TableAssumption DEF Init
<1>1. hlock \in [0 .. PtrMod - 1 -> BOOLEAN]
    OBVIOUS
<1>2. lock \in BOOLEAN /\ exhausted \in BOOLEAN
    OBVIOUS
<1> QED BY <1>1, <1>2
        DEF TypeOK, IndexValid, Priority, Slots, Holding, Filling, NoSlot

(* A remainder fits the field it is stored in. *)
LEMMA ModRange ==
    ASSUME NEW n \in Nat, NEW m \in Nat \ {0}
    PROVE  n % m \in 0 .. m - 1
BY SMT

(* Each step keeps the types. *)
LEMMA TypeStep == TypeOK /\ IndexValid /\ [Next]_vars => TypeOK'
<1> SUFFICES ASSUME TypeOK, IndexValid, [Next]_vars PROVE TypeOK'
    OBVIOUS
<1> USE TableAssumption DEF TypeOK, Goto, Done, Priority, Holding, Filling,
        table, pool, time, frame
<1>1. CASE Tick
    BY <1>1 DEF Tick
<1>2. ASSUME NEW c \in CPU, Prepare(c) PROVE TypeOK'
    BY <1>2 DEF Prepare
<1>3. ASSUME NEW c \in CPU, NEW a \in Addr, RxHit(c, a) PROVE TypeOK'
    BY <1>3 DEF RxHit
<1>4. ASSUME NEW c \in CPU, NEW a \in Addr, RxMiss(c, a) PROVE TypeOK'
    BY <1>4 DEF RxMiss
<1>5. ASSUME NEW c \in CPU, RxAuthorized(c) PROVE TypeOK'
    BY <1>5 DEF RxAuthorized
<1>6. ASSUME NEW c \in CPU, RxPrivate(c) PROVE TypeOK'
    BY <1>6 DEF RxPrivate
<1>7. ASSUME NEW c \in CPU, RxPublicHit(c) PROVE TypeOK'
    BY <1>7 DEF RxPublicHit
<1>8. ASSUME NEW c \in CPU, RxDeferred(c) PROVE TypeOK'
    BY <1>8 DEF RxDeferred
<1>9. ASSUME NEW c \in CPU, RxInsert(c) PROVE TypeOK'
    BY <1>9 DEF RxInsert
<1>10. ASSUME NEW c \in CPU, RxGetState(c) PROVE TypeOK'
    BY <1>10 DEF RxGetState, IndexValid
<1>11. ASSUME NEW c \in CPU, HostLock(c) PROVE TypeOK'
    BY <1>11 DEF HostLock
<1>12. ASSUME NEW c \in CPU, HostSpin(c) PROVE TypeOK'
    BY <1>12 DEF HostSpin, vars
<1>13. ASSUME NEW c \in CPU, HostUnlock(c) PROVE TypeOK'
    BY <1>13 DEF HostUnlock
<1>14. ASSUME NEW c \in CPU, NEW a \in TxDst, TxHit(c, a) PROVE TypeOK'
    BY <1>14 DEF TxHit
<1>15. ASSUME NEW c \in CPU, NEW a \in TxDst, TxMiss(c, a) PROVE TypeOK'
    BY <1>15 DEF TxMiss
<1>16. ASSUME NEW c \in CPU, TxAlready(c) PROVE TypeOK'
    BY <1>16 DEF TxAlready
<1>17. ASSUME NEW c \in CPU, TxRaise(c) PROVE TypeOK'
    BY <1>17 DEF TxRaise
<1>18. ASSUME NEW c \in CPU, Acquire(c) PROVE TypeOK'
    BY <1>18 DEF Acquire
<1>19. ASSUME NEW c \in CPU, Spin(c) PROVE TypeOK'
    BY <1>19 DEF Spin, vars
<1>20. ASSUME NEW c \in CPU, Found(c) PROVE TypeOK'
    BY <1>20 DEF Found
<1>21. ASSUME NEW c \in CPU, TakeFree(c) PROVE TypeOK'
    BY <1>21 DEF TakeFree
<1>22. ASSUME NEW c \in CPU, Evict(c) PROVE TypeOK'
    BY <1>22 DEF Evict
<1>23. ASSUME NEW c \in CPU, NoEntry(c) PROVE TypeOK'
    BY <1>23 DEF NoEntry
<1>24. ASSUME NEW c \in CPU, StoreKey(c) PROVE TypeOK'
    BY <1>24 DEF StoreKey
<1>25. ASSUME NEW c \in CPU, StoreCtrl(c) PROVE TypeOK'
  <2>1. ts[c] % AgeMod \in 0 .. AgeMod - 1
      BY ModRange
  <2> QED BY <1>25, <2>1 DEF StoreCtrl
<1>26. ASSUME NEW c \in CPU, StorePtrNew(c) PROVE TypeOK'
  <2>1. (hp_size + 1) % PtrMod \in 0 .. PtrMod - 1
      BY ModRange
  <2>2. ptr' \in [Slots -> 0 .. PtrMod - 1]
      BY <1>26, <2>1 DEF StorePtrNew
  <2>3. hp_size' \in Nat
      BY <1>26 DEF StorePtrNew
  <2> QED BY <1>26, <2>2, <2>3 DEF StorePtrNew
<1>27. ASSUME NEW c \in CPU, StorePtrNone(c) PROVE TypeOK'
  <2>0. 0 \in 0 .. PtrMod - 1
      OBVIOUS
  <2>1. ptr' \in [Slots -> 0 .. PtrMod - 1]
      BY <1>27, <2>0 DEF StorePtrNone
  <2> QED BY <1>27, <2>1 DEF StorePtrNone
<1>28. ASSUME NEW c \in CPU, ReleaseToCharge(c) PROVE TypeOK'
    BY <1>28 DEF ReleaseToCharge
<1>29. ASSUME NEW c \in CPU, ReleaseAndReturn(c) PROVE TypeOK'
  <2>1. mode' \in {"run", "config", "failed"}
      BY <1>29 DEF ReleaseAndReturn
  <2>2. /\ pc' \in [CPU -> Holding \cup {"idle", "rx_pri", "rx_miss",
                   "tx_pri", "acquire", "state", "hl_wait", "charge"}]
        /\ key' \in [CPU -> Addr \cup {NoAddr}]
        /\ want' \in [CPU -> Priority]
        /\ hidx' \in [CPU -> Slots \cup {NoSlot}]
        /\ sp' \in [CPU -> 0 .. PtrMod - 1]
      BY <1>29 DEF ReleaseAndReturn
  <2> QED BY <1>29, <2>1, <2>2 DEF ReleaseAndReturn
<1>30. CASE Configure
    BY <1>30 DEF Configure
<1>31. ASSUME NEW c \in CPU, NEW a \in CfgHost, CfgInsert(c, a) PROVE TypeOK'
    BY <1>31 DEF CfgInsert
<1>32. CASE Resume
    BY <1>32 DEF Resume
<1>33. CASE UNCHANGED vars
    BY <1>33 DEF vars
<1> QED BY <1>1, <1>2, <1>3, <1>4, <1>5, <1>6, <1>7, <1>8, <1>9, <1>10,
           <1>11, <1>12, <1>13, <1>14, <1>15, <1>16, <1>17, <1>18, <1>19,
           <1>20, <1>21, <1>22, <1>23, <1>24, <1>25, <1>26, <1>27, <1>28,
           <1>29, <1>30, <1>31, <1>32, <1>33 DEF Next, Rx, Tx, Write

(* Each step that leads to a use of the index tests it or takes an entry. *)
LEMMA IndexStep == TypeOK /\ IndexValid /\ [Next]_vars => IndexValid'
<1> SUFFICES ASSUME TypeOK, IndexValid, [Next]_vars PROVE IndexValid'
    OBVIOUS
<1> USE TableAssumption DEF TypeOK, IndexValid, Goto, Done, Holding, Filling,
        table, pool, time, frame
<1>1. CASE Tick
    BY <1>1 DEF Tick
<1>2. ASSUME NEW c \in CPU, Prepare(c) PROVE IndexValid'
    BY <1>2 DEF Prepare
<1>3. ASSUME NEW c \in CPU, NEW a \in Addr, RxHit(c, a) PROVE IndexValid'
    BY <1>3 DEF RxHit
<1>4. ASSUME NEW c \in CPU, NEW a \in Addr, RxMiss(c, a) PROVE IndexValid'
    BY <1>4 DEF RxMiss
<1>5. ASSUME NEW c \in CPU, RxAuthorized(c) PROVE IndexValid'
    BY <1>5 DEF RxAuthorized
<1>6. ASSUME NEW c \in CPU, RxPrivate(c) PROVE IndexValid'
    BY <1>6 DEF RxPrivate
<1>7. ASSUME NEW c \in CPU, RxPublicHit(c) PROVE IndexValid'
    BY <1>7 DEF RxPublicHit
<1>8. ASSUME NEW c \in CPU, RxDeferred(c) PROVE IndexValid'
    BY <1>8 DEF RxDeferred
<1>9. ASSUME NEW c \in CPU, RxInsert(c) PROVE IndexValid'
    BY <1>9 DEF RxInsert
<1>10. ASSUME NEW c \in CPU, RxGetState(c) PROVE IndexValid'
    BY <1>10 DEF RxGetState
<1>11. ASSUME NEW c \in CPU, HostLock(c) PROVE IndexValid'
    BY <1>11 DEF HostLock
<1>12. ASSUME NEW c \in CPU, HostSpin(c) PROVE IndexValid'
    BY <1>12 DEF HostSpin, vars
<1>13. ASSUME NEW c \in CPU, HostUnlock(c) PROVE IndexValid'
    BY <1>13 DEF HostUnlock
<1>14. ASSUME NEW c \in CPU, NEW a \in TxDst, TxHit(c, a) PROVE IndexValid'
    BY <1>14 DEF TxHit
<1>15. ASSUME NEW c \in CPU, NEW a \in TxDst, TxMiss(c, a) PROVE IndexValid'
    BY <1>15 DEF TxMiss
<1>16. ASSUME NEW c \in CPU, TxAlready(c) PROVE IndexValid'
    BY <1>16 DEF TxAlready
<1>17. ASSUME NEW c \in CPU, TxRaise(c) PROVE IndexValid'
    BY <1>17 DEF TxRaise
<1>18. ASSUME NEW c \in CPU, Acquire(c) PROVE IndexValid'
    BY <1>18 DEF Acquire
<1>19. ASSUME NEW c \in CPU, Spin(c) PROVE IndexValid'
    BY <1>19 DEF Spin, vars
<1>20. ASSUME NEW c \in CPU, Found(c) PROVE IndexValid'
    BY <1>20 DEF Found
<1>21. ASSUME NEW c \in CPU, TakeFree(c) PROVE IndexValid'
    BY <1>21 DEF TakeFree
<1>22. ASSUME NEW c \in CPU, Evict(c) PROVE IndexValid'
    BY <1>22 DEF Evict
<1>23. ASSUME NEW c \in CPU, NoEntry(c) PROVE IndexValid'
    BY <1>23 DEF NoEntry
<1>24. ASSUME NEW c \in CPU, StoreKey(c) PROVE IndexValid'
    BY <1>24 DEF StoreKey
<1>25. ASSUME NEW c \in CPU, StoreCtrl(c) PROVE IndexValid'
    BY <1>25 DEF StoreCtrl
<1>26. ASSUME NEW c \in CPU, StorePtrNew(c) PROVE IndexValid'
    BY <1>26 DEF StorePtrNew
<1>27. ASSUME NEW c \in CPU, StorePtrNone(c) PROVE IndexValid'
    BY <1>27 DEF StorePtrNone
<1>28. ASSUME NEW c \in CPU, ReleaseToCharge(c) PROVE IndexValid'
    BY <1>28 DEF ReleaseToCharge
<1>29. ASSUME NEW c \in CPU, ReleaseAndReturn(c) PROVE IndexValid'
    BY <1>29 DEF ReleaseAndReturn
<1>30. CASE Configure
    BY <1>30 DEF Configure
<1>31. ASSUME NEW c \in CPU, NEW a \in CfgHost, CfgInsert(c, a) PROVE IndexValid'
    BY <1>31 DEF CfgInsert
<1>32. CASE Resume
    BY <1>32 DEF Resume
<1>33. CASE UNCHANGED vars
    BY <1>33 DEF vars
<1> QED BY <1>1, <1>2, <1>3, <1>4, <1>5, <1>6, <1>7, <1>8, <1>9, <1>10,
           <1>11, <1>12, <1>13, <1>14, <1>15, <1>16, <1>17, <1>18, <1>19,
           <1>20, <1>21, <1>22, <1>23, <1>24, <1>25, <1>26, <1>27, <1>28,
           <1>29, <1>30, <1>31, <1>32, <1>33 DEF Next, Rx, Tx, Write

(* Nobody writes at first. *)
LEMMA MutexInit == Init => BucketMutex
BY DEF Init, BucketMutex, Holding, Filling

(* One writer at a time. *)
LEMMA MutexStep == TypeOK /\ BucketMutex /\ [Next]_vars => BucketMutex'
<1> SUFFICES ASSUME TypeOK, BucketMutex, [Next]_vars PROVE BucketMutex'
    OBVIOUS
<1> USE DEF TypeOK, BucketMutex, Goto, Done, Holding, Filling,
        table, pool, time, frame
<1>1. CASE Tick
    BY <1>1 DEF Tick
<1>2. ASSUME NEW c \in CPU, Prepare(c) PROVE BucketMutex'
    BY <1>2 DEF Prepare
<1>3. ASSUME NEW c \in CPU, NEW a \in Addr, RxHit(c, a) PROVE BucketMutex'
    BY <1>3 DEF RxHit
<1>4. ASSUME NEW c \in CPU, NEW a \in Addr, RxMiss(c, a) PROVE BucketMutex'
    BY <1>4 DEF RxMiss
<1>5. ASSUME NEW c \in CPU, RxAuthorized(c) PROVE BucketMutex'
    BY <1>5 DEF RxAuthorized
<1>6. ASSUME NEW c \in CPU, RxPrivate(c) PROVE BucketMutex'
    BY <1>6 DEF RxPrivate
<1>7. ASSUME NEW c \in CPU, RxPublicHit(c) PROVE BucketMutex'
    BY <1>7 DEF RxPublicHit
<1>8. ASSUME NEW c \in CPU, RxDeferred(c) PROVE BucketMutex'
    BY <1>8 DEF RxDeferred
<1>9. ASSUME NEW c \in CPU, RxInsert(c) PROVE BucketMutex'
    BY <1>9 DEF RxInsert
<1>10. ASSUME NEW c \in CPU, RxGetState(c) PROVE BucketMutex'
    BY <1>10 DEF RxGetState
<1>11. ASSUME NEW c \in CPU, HostLock(c) PROVE BucketMutex'
    BY <1>11 DEF HostLock
<1>12. ASSUME NEW c \in CPU, HostSpin(c) PROVE BucketMutex'
    BY <1>12 DEF HostSpin, vars
<1>13. ASSUME NEW c \in CPU, HostUnlock(c) PROVE BucketMutex'
    BY <1>13 DEF HostUnlock
<1>14. ASSUME NEW c \in CPU, NEW a \in TxDst, TxHit(c, a) PROVE BucketMutex'
    BY <1>14 DEF TxHit
<1>15. ASSUME NEW c \in CPU, NEW a \in TxDst, TxMiss(c, a) PROVE BucketMutex'
    BY <1>15 DEF TxMiss
<1>16. ASSUME NEW c \in CPU, TxAlready(c) PROVE BucketMutex'
    BY <1>16 DEF TxAlready
<1>17. ASSUME NEW c \in CPU, TxRaise(c) PROVE BucketMutex'
    BY <1>17 DEF TxRaise
<1>18. ASSUME NEW c \in CPU, Acquire(c) PROVE BucketMutex'
    BY <1>18 DEF Acquire
<1>19. ASSUME NEW c \in CPU, Spin(c) PROVE BucketMutex'
    BY <1>19 DEF Spin, vars
<1>20. ASSUME NEW c \in CPU, Found(c) PROVE BucketMutex'
    BY <1>20 DEF Found
<1>21. ASSUME NEW c \in CPU, TakeFree(c) PROVE BucketMutex'
    BY <1>21 DEF TakeFree
<1>22. ASSUME NEW c \in CPU, Evict(c) PROVE BucketMutex'
    BY <1>22 DEF Evict
<1>23. ASSUME NEW c \in CPU, NoEntry(c) PROVE BucketMutex'
    BY <1>23 DEF NoEntry
<1>24. ASSUME NEW c \in CPU, StoreKey(c) PROVE BucketMutex'
    BY <1>24 DEF StoreKey
<1>25. ASSUME NEW c \in CPU, StoreCtrl(c) PROVE BucketMutex'
    BY <1>25 DEF StoreCtrl
<1>26. ASSUME NEW c \in CPU, StorePtrNew(c) PROVE BucketMutex'
    BY <1>26 DEF StorePtrNew
<1>27. ASSUME NEW c \in CPU, StorePtrNone(c) PROVE BucketMutex'
    BY <1>27 DEF StorePtrNone
<1>28. ASSUME NEW c \in CPU, ReleaseToCharge(c) PROVE BucketMutex'
    BY <1>28 DEF ReleaseToCharge
<1>29. ASSUME NEW c \in CPU, ReleaseAndReturn(c) PROVE BucketMutex'
    BY <1>29 DEF ReleaseAndReturn
<1>30. CASE Configure
    BY <1>30 DEF Configure
<1>31. ASSUME NEW c \in CPU, NEW a \in CfgHost, CfgInsert(c, a) PROVE BucketMutex'
    BY <1>31 DEF CfgInsert, Quiet
<1>32. CASE Resume
    BY <1>32 DEF Resume
<1>33. CASE UNCHANGED vars
    BY <1>33 DEF vars
<1> QED BY <1>1, <1>2, <1>3, <1>4, <1>5, <1>6, <1>7, <1>8, <1>9, <1>10,
           <1>11, <1>12, <1>13, <1>14, <1>15, <1>16, <1>17, <1>18, <1>19,
           <1>20, <1>21, <1>22, <1>23, <1>24, <1>25, <1>26, <1>27, <1>28,
           <1>29, <1>30, <1>31, <1>32, <1>33 DEF Next, Rx, Tx, Write

(* The steps that matter to the entries are the writers' and Configure.     *)
(* Every other step leaves the entries and the writers as they are.         *)
Aside ==
    /\ UNCHANGED <<saddr, pri, ptr, exhausted, hp_size>>
    /\ authd \subseteq authd'
    /\ \A c \in CPU : pc[c] \in Holding \/ pc'[c] \in Holding =>
          /\ pc'[c] = pc[c] /\ key'[c] = key[c]
          /\ want'[c] = want[c] /\ hidx'[c] = hidx[c]
    /\ \A c \in CPU : want'[c] # HOST_PRI_NONE =>
          pc'[c] \in Holding \cup {"acquire"} /\ key'[c] \in authd'

Writer(c) ==
    \/ Acquire(c) \/ Found(c) \/ TakeFree(c) \/ Evict(c) \/ NoEntry(c)
    \/ StoreKey(c) \/ StoreCtrl(c) \/ StorePtrNew(c) \/ StorePtrNone(c)
    \/ ReleaseToCharge(c) \/ ReleaseAndReturn(c)

(* Each step is of one of three kinds. *)
LEMMA StepKinds ==
    ASSUME TypeOK, AuthInv, [Next]_vars
    PROVE  Aside \/ Configure \/ \E c \in CPU : Writer(c)
<1> USE DEF TypeOK, AuthInv, Aside, Goto, Done, Holding, Filling,
        table, pool, time, frame
<1>1. CASE Tick
    BY <1>1 DEF Tick
<1>2. ASSUME NEW c \in CPU, Prepare(c) PROVE Aside
    BY <1>2 DEF Prepare
<1>3. ASSUME NEW c \in CPU, NEW a \in Addr, RxHit(c, a) PROVE Aside
    BY <1>3 DEF RxHit
<1>4. ASSUME NEW c \in CPU, NEW a \in Addr, RxMiss(c, a) PROVE Aside
    BY <1>4 DEF RxMiss
<1>5. ASSUME NEW c \in CPU, RxAuthorized(c) PROVE Aside
    BY <1>5 DEF RxAuthorized
<1>6. ASSUME NEW c \in CPU, RxPrivate(c) PROVE Aside
    BY <1>6 DEF RxPrivate
<1>7. ASSUME NEW c \in CPU, RxPublicHit(c) PROVE Aside
    BY <1>7 DEF RxPublicHit
<1>8. ASSUME NEW c \in CPU, RxDeferred(c) PROVE Aside
    BY <1>8 DEF RxDeferred
<1>9. ASSUME NEW c \in CPU, RxInsert(c) PROVE Aside
    BY <1>9 DEF RxInsert
<1>10. ASSUME NEW c \in CPU, RxGetState(c) PROVE Aside
    BY <1>10 DEF RxGetState
<1>11. ASSUME NEW c \in CPU, HostLock(c) PROVE Aside
    BY <1>11 DEF HostLock
<1>12. ASSUME NEW c \in CPU, HostSpin(c) PROVE Aside
    BY <1>12 DEF HostSpin, vars
<1>13. ASSUME NEW c \in CPU, HostUnlock(c) PROVE Aside
    BY <1>13 DEF HostUnlock
<1>14. ASSUME NEW c \in CPU, NEW a \in TxDst, TxHit(c, a) PROVE Aside
    BY <1>14 DEF TxHit
<1>15. ASSUME NEW c \in CPU, NEW a \in TxDst, TxMiss(c, a) PROVE Aside
    BY <1>15 DEF TxMiss
<1>16. ASSUME NEW c \in CPU, TxAlready(c) PROVE Aside
    BY <1>16 DEF TxAlready
<1>17. ASSUME NEW c \in CPU, TxRaise(c) PROVE Aside
    BY <1>17 DEF TxRaise
<1>18. ASSUME NEW c \in CPU, Spin(c) PROVE Aside
    BY <1>18 DEF Spin, vars
<1>19. ASSUME NEW c \in CPU, NEW a \in CfgHost, CfgInsert(c, a) PROVE Aside
    BY <1>19 DEF CfgInsert, Quiet
<1>20. CASE Resume
    BY <1>20 DEF Resume
<1>21. CASE UNCHANGED vars
    BY <1>21 DEF vars
<1> QED BY <1>1, <1>2, <1>3, <1>4, <1>5, <1>6, <1>7, <1>8, <1>9, <1>10,
           <1>11, <1>12, <1>13, <1>14, <1>15, <1>16, <1>17, <1>18, <1>19,
           <1>20, <1>21 DEF Next, Rx, Tx, Write, Writer

(* The entry being filled stays the same in a step that is no writer's. *)
LEMMA AsideFill ==
    ASSUME Aside, NEW i \in Slots
    PROVE  InFill(i)' <=> InFill(i)
BY DEF Aside, InFill, Holding

(* A number below the modulus is its own remainder. *)
LEMMA ModSmall ==
    ASSUME NEW n \in Nat, NEW m \in Nat, n < m
    PROVE  n % m = n
BY SMT

(* A key is stored only while the bucket does not have it. *)
LEMMA KeysStep == IInv /\ [Next]_vars => NoDuplicateKeys'
<1> SUFFICES ASSUME IInv, [Next]_vars PROVE NoDuplicateKeys'
    OBVIOUS
<1> USE DEF IInv, TypeOK, IndexValid, BucketMutex, Writer, Holding, Filling,
        Goto, Done, pool, time, frame, table
<1> USE DEF NoDuplicateKeys
<1>1. CASE Aside
    BY <1>1 DEF Aside
<1>2. ASSUME NEW c \in CPU, Acquire(c) PROVE NoDuplicateKeys'
    BY <1>2 DEF Acquire
<1>3. ASSUME NEW c \in CPU, Found(c) PROVE NoDuplicateKeys'
    BY <1>3 DEF Found
<1>4. ASSUME NEW c \in CPU, TakeFree(c) PROVE NoDuplicateKeys'
    BY <1>4 DEF TakeFree
<1>5. ASSUME NEW c \in CPU, Evict(c) PROVE NoDuplicateKeys'
    BY <1>5 DEF Evict
<1>6. ASSUME NEW c \in CPU, NoEntry(c) PROVE NoDuplicateKeys'
    BY <1>6 DEF NoEntry
<1>7. ASSUME NEW c \in CPU, StoreKey(c) PROVE NoDuplicateKeys'
    BY <1>7 DEF StoreKey, FillInv, Miss
<1>8. ASSUME NEW c \in CPU, StoreCtrl(c) PROVE NoDuplicateKeys'
    BY <1>8 DEF StoreCtrl
<1>9. ASSUME NEW c \in CPU, StorePtrNew(c) PROVE NoDuplicateKeys'
    BY <1>9 DEF StorePtrNew
<1>10. ASSUME NEW c \in CPU, StorePtrNone(c) PROVE NoDuplicateKeys'
    BY <1>10 DEF StorePtrNone
<1>11. ASSUME NEW c \in CPU, ReleaseToCharge(c) PROVE NoDuplicateKeys'
    BY <1>11 DEF ReleaseToCharge
<1>12. ASSUME NEW c \in CPU, ReleaseAndReturn(c) PROVE NoDuplicateKeys'
    BY <1>12 DEF ReleaseAndReturn
<1>13. CASE Configure
    BY <1>13 DEF Configure
<1> QED BY <1>1, <1>2, <1>3, <1>4, <1>5, <1>6, <1>7, <1>8, <1>9, <1>10,
           <1>11, <1>12, <1>13, StepKinds

(* The entry being filled. *)
LEMMA FillStep == IInv /\ [Next]_vars => FillInv'
<1> SUFFICES ASSUME IInv, [Next]_vars PROVE FillInv'
    OBVIOUS
<1> USE DEF IInv, TypeOK, IndexValid, BucketMutex, Writer, Holding, Filling,
        Goto, Done, pool, time, frame, table
<1> USE DEF FillInv, Miss
<1>1. CASE Aside
    BY <1>1 DEF Aside
<1>2. ASSUME NEW c \in CPU, Acquire(c) PROVE FillInv'
    BY <1>2 DEF Acquire
<1>3. ASSUME NEW c \in CPU, Found(c) PROVE FillInv'
    BY <1>3 DEF Found
<1>4. ASSUME NEW c \in CPU, TakeFree(c) PROVE FillInv'
    BY <1>4 DEF TakeFree
<1>5. ASSUME NEW c \in CPU, Evict(c) PROVE FillInv'
    BY <1>5 DEF Evict
<1>6. ASSUME NEW c \in CPU, NoEntry(c) PROVE FillInv'
    BY <1>6 DEF NoEntry
<1>7. ASSUME NEW c \in CPU, StoreKey(c) PROVE FillInv'
    BY <1>7 DEF StoreKey
<1>8. ASSUME NEW c \in CPU, StoreCtrl(c) PROVE FillInv'
    BY <1>8 DEF StoreCtrl
<1>9. ASSUME NEW c \in CPU, StorePtrNew(c) PROVE FillInv'
    BY <1>9 DEF StorePtrNew
<1>10. ASSUME NEW c \in CPU, StorePtrNone(c) PROVE FillInv'
    BY <1>10 DEF StorePtrNone
<1>11. ASSUME NEW c \in CPU, ReleaseToCharge(c) PROVE FillInv'
    BY <1>11 DEF ReleaseToCharge
<1>12. ASSUME NEW c \in CPU, ReleaseAndReturn(c) PROVE FillInv'
    BY <1>12 DEF ReleaseAndReturn
<1>13. CASE Configure
    BY <1>13 DEF Configure, Quiet
<1> QED BY <1>1, <1>2, <1>3, <1>4, <1>5, <1>6, <1>7, <1>8, <1>9, <1>10,
           <1>11, <1>12, <1>13, StepKinds

(* An authorised class is shown only for an address someone authorised. *)
LEMMA AuthStep == IInv /\ [Next]_vars => AuthInv'
<1> SUFFICES ASSUME IInv, [Next]_vars PROVE AuthInv'
    OBVIOUS
<1> USE DEF IInv, TypeOK, IndexValid, BucketMutex, Writer, Holding, Filling,
        Goto, Done, pool, time, frame, table
<1> USE DEF AuthInv, FillInv, InFill
<1>1. CASE Aside
    BY <1>1, AsideFill DEF Aside
<1>2. ASSUME NEW c \in CPU, Acquire(c) PROVE AuthInv'
    BY <1>2 DEF Acquire
<1>3. ASSUME NEW c \in CPU, Found(c) PROVE AuthInv'
  <2>1. PICK k \in Slots :
          /\ saddr[k] = key[c]
          /\ hidx' = [hidx EXCEPT ![c] = k]
          /\ pri' = [pri EXCEPT ![k] = IF @ < want[c] THEN want[c] ELSE @]
      BY <1>3 DEF Found, Hit
  <2>2. /\ pc[c] = "locked" /\ pc' = [pc EXCEPT ![c] = "release"]
        /\ UNCHANGED <<saddr, key, want, authd>>
      BY <1>3 DEF Found
  <2>3. \A i \in Slots : InFill(i)' <=> InFill(i)
      BY <2>1, <2>2
  <2>4. \A d \in CPU : want'[d] # HOST_PRI_NONE
                         => pc'[d] \in Holding \cup {"acquire"}
                            /\ key'[d] \in authd'
      BY <2>2
  <2>5. ASSUME NEW i \in Slots, saddr[i] # NoAddr, pri'[i] # HOST_PRI_NONE,
               ~InFill(i)
        PROVE  saddr[i] \in authd
    <3>1. CASE pri'[i] = pri[i]
        BY <2>5, <3>1
    <3>2. CASE pri'[i] # pri[i]
      <4>1. i = k /\ pri'[i] = want[c]
          BY <2>1, <3>2
      <4> QED BY <2>1, <2>5, <4>1
    <3> QED BY <3>1, <3>2
  <2> QED BY <2>2, <2>3, <2>4, <2>5
<1>4. ASSUME NEW c \in CPU, TakeFree(c) PROVE AuthInv'
    BY <1>4 DEF TakeFree
<1>5. ASSUME NEW c \in CPU, Evict(c) PROVE AuthInv'
    BY <1>5 DEF Evict
<1>6. ASSUME NEW c \in CPU, NoEntry(c) PROVE AuthInv'
    BY <1>6 DEF NoEntry
<1>7. ASSUME NEW c \in CPU, StoreKey(c) PROVE AuthInv'
    BY <1>7 DEF StoreKey
<1>8. ASSUME NEW c \in CPU, StoreCtrl(c) PROVE AuthInv'
    BY <1>8 DEF StoreCtrl
<1>9. ASSUME NEW c \in CPU, StorePtrNew(c) PROVE AuthInv'
    BY <1>9 DEF StorePtrNew
<1>10. ASSUME NEW c \in CPU, StorePtrNone(c) PROVE AuthInv'
    BY <1>10 DEF StorePtrNone
<1>11. ASSUME NEW c \in CPU, ReleaseToCharge(c) PROVE AuthInv'
    BY <1>11 DEF ReleaseToCharge
<1>12. ASSUME NEW c \in CPU, ReleaseAndReturn(c) PROVE AuthInv'
    BY <1>12 DEF ReleaseAndReturn
<1>13. CASE Configure
    BY <1>13 DEF Configure, Quiet, ClearedSlots, NoDuplicateKeys
<1> QED BY <1>1, <1>2, <1>3, <1>4, <1>5, <1>6, <1>7, <1>8, <1>9, <1>10,
           <1>11, <1>12, <1>13, StepKinds

(* The states in use are distinct and among those handed out. *)
LEMMA PtrStep == IInv /\ [Next]_vars => PtrInv'
<1> SUFFICES ASSUME IInv, [Next]_vars PROVE PtrInv'
    OBVIOUS
<1> USE DEF IInv, TypeOK, IndexValid, BucketMutex, Writer, Holding, Filling,
        Goto, Done, pool, time, frame, table
<1>1. CASE Aside
  <2>1. \A i \in Slots : Unauthorised(i)' <=> Unauthorised(i)
      BY <1>1, AsideFill DEF Aside, Unauthorised
  <2> QED BY <1>1, <2>1 DEF Aside, PtrInv
<1>2. ASSUME NEW c \in CPU, Acquire(c) PROVE PtrInv'
    BY <1>2 DEF Acquire, PtrInv, Unauthorised, InFill
<1>3. ASSUME NEW c \in CPU, Found(c) PROVE PtrInv'
  <2>1. ASSUME NEW i \in Slots, Unauthorised(i)' PROVE Unauthorised(i)
    <3>1. PICK k \in Slots : pri' = [pri EXCEPT ![k] =
                                      IF @ < want[c] THEN want[c] ELSE @]
        BY <1>3 DEF Found
    <3>2. pri[i] = HOST_PRI_NONE
      <4>1. pri'[i] = HOST_PRI_NONE
          BY <2>1 DEF Unauthorised
      <4>2. \/ pri'[i] = pri[i]
            \/ pri[i] < want[c] /\ pri'[i] = want[c]
          BY <3>1
      <4>3. pri[i] \in 0 .. 3 /\ want[c] \in 0 .. 3
          BY DEF Priority
      <4> QED BY <4>1, <4>2, <4>3
    <3>3. saddr' = saddr /\ ~InFill(i)
        BY <1>3, <2>1 DEF Found, Unauthorised, InFill
    <3> QED BY <2>1, <3>2, <3>3 DEF Unauthorised
  <2> QED BY <1>3, <2>1 DEF Found, PtrInv
<1>4. ASSUME NEW c \in CPU, TakeFree(c) PROVE PtrInv'
    BY <1>4 DEF TakeFree, PtrInv, Unauthorised, InFill
<1>5. ASSUME NEW c \in CPU, Evict(c) PROVE PtrInv'
    BY <1>5 DEF Evict, PtrInv, Unauthorised, InFill
<1>6. ASSUME NEW c \in CPU, NoEntry(c) PROVE PtrInv'
    BY <1>6 DEF NoEntry, PtrInv, Unauthorised, InFill
<1>7. ASSUME NEW c \in CPU, StoreKey(c) PROVE PtrInv'
    BY <1>7 DEF StoreKey, PtrInv, Unauthorised, InFill
<1>8. ASSUME NEW c \in CPU, StoreCtrl(c) PROVE PtrInv'
    BY <1>8 DEF StoreCtrl, PtrInv, Unauthorised, InFill
<1>9. ASSUME NEW c \in CPU, StorePtrNew(c) PROVE PtrInv'
  <2>1. SUFFICES ASSUME hp_size' < PtrMod PROVE PtrInv'
      BY DEF PtrInv
  <2>2. hidx[c] \in Slots /\ hp_size' = hp_size + 1
      BY <1>9 DEF StorePtrNew
  <2>3. hp_size + 1 \in Nat /\ hp_size + 1 < PtrMod /\ hp_size < PtrMod
      BY <2>1, <2>2, TableAssumption
  <2>4. (hp_size + 1) % PtrMod = hp_size + 1
      BY <2>3, ModSmall, TableAssumption
  <2>5. ptr' = [ptr EXCEPT ![hidx[c]] = hp_size + 1]
      BY <1>9, <2>4 DEF StorePtrNew
  <2>6. ASSUME NEW i \in Slots, i # hidx[c], Unauthorised(i)'
        PROVE  Unauthorised(i) /\ ptr'[i] = ptr[i]
    <3>1. saddr' = saddr /\ pri' = pri /\ hidx' = hidx
        BY <1>9 DEF StorePtrNew
    <3>2. ~InFill(i)
        BY <1>9, <2>6 DEF StorePtrNew, InFill
    <3> QED BY <2>5, <2>6, <3>1, <3>2 DEF Unauthorised
  <2>7. \A i \in Slots \ {hidx[c]} :
          Unauthorised(i)' => Unauthorised(i) /\ ptr'[i] = ptr[i]
                              /\ ptr[i] \in 1 .. hp_size
      BY <2>3, <2>6 DEF PtrInv
  <2> QED BY <2>2, <2>3, <2>5, <2>7 DEF PtrInv
<1>10. ASSUME NEW c \in CPU, StorePtrNone(c) PROVE PtrInv'
    BY <1>10 DEF StorePtrNone, PtrInv, FillInv, Unauthorised, InFill
<1>11. ASSUME NEW c \in CPU, ReleaseToCharge(c) PROVE PtrInv'
    BY <1>11 DEF ReleaseToCharge, PtrInv, Unauthorised, InFill
<1>12. ASSUME NEW c \in CPU, ReleaseAndReturn(c) PROVE PtrInv'
    BY <1>12 DEF ReleaseAndReturn, PtrInv, Unauthorised, InFill
<1>13. CASE Configure
    BY <1>13 DEF Configure, PtrInv, Unauthorised, InFill, Quiet
<1> QED BY <1>1, <1>2, <1>3, <1>4, <1>5, <1>6, <1>7, <1>8, <1>9, <1>10,
           <1>11, <1>12, <1>13, StepKinds

(* Most steps leave the states, and what is charged to them, alone. *)
Calm ==
    /\ UNCHANGED <<ptr, hp_size, hlock>>
    /\ \A i \in Slots : Unauthorised(i)' => Unauthorised(i)
    /\ \A c \in CPU : pc'[c] \in {"hl_wait", "charge"} =>
          pc'[c] = pc[c] /\ sp'[c] = sp[c]

(* A calm step takes no lock away and lets no CPU in. *)
LEMMA CalmStep ==
    ASSUME TypeOK, TypeOK', ChargeInv, ChargesApart, Calm
    PROVE  ChargeInv' /\ ChargesApart'
<1>1. ASSUME hp_size' < PtrMod PROVE hp_size < PtrMod
    BY <1>1 DEF Calm
<1>2. ChargeInv'
    BY <1>1 DEF ChargeInv, Calm, Charged
<1>3. ChargesApart'
    BY <1>1 DEF ChargesApart, Calm
<1> QED BY <1>2, <1>3

(* No step but the store of the pointer, which completes an entry, makes    *)
(* an entry unauthorised.                                                   *)
LEMMA UnauthorisedShrinks ==
    ASSUME IInv, [Next]_vars, NEW i \in Slots, Unauthorised(i)'
    PROVE  \/ Unauthorised(i)
           \/ \E c \in CPU : StorePtrNew(c) /\ hidx[c] = i
<1> USE DEF IInv, TypeOK, IndexValid, BucketMutex, Writer, Holding, Filling,
        Goto, Done, pool, time, frame, table
<1> USE DEF Unauthorised, InFill
<1>1. CASE Aside
    BY <1>1, AsideFill DEF Aside
<1>2. ASSUME NEW c \in CPU, Acquire(c) PROVE Unauthorised(i)
    BY <1>2 DEF Acquire
<1>3. ASSUME NEW c \in CPU, Found(c) PROVE Unauthorised(i)
  <2>1. PICK k \in Slots : pri' = [pri EXCEPT ![k] =
                                    IF @ < want[c] THEN want[c] ELSE @]
      BY <1>3 DEF Found
  <2>2. pri[i] = HOST_PRI_NONE
    <3>1. pri'[i] = HOST_PRI_NONE
        OBVIOUS
    <3>2. \/ pri'[i] = pri[i]
          \/ pri[i] < want[c] /\ pri'[i] = want[c]
        BY <2>1
    <3>3. pri[i] \in 0 .. 3 /\ want[c] \in 0 .. 3
        BY DEF Priority
    <3> QED BY <3>1, <3>2, <3>3
  <2>3. saddr' = saddr /\ ~InFill(i)
      BY <1>3 DEF Found
  <2> QED BY <2>2, <2>3
<1>4. ASSUME NEW c \in CPU, TakeFree(c) PROVE Unauthorised(i)
    BY <1>4 DEF TakeFree
<1>5. ASSUME NEW c \in CPU, Evict(c) PROVE Unauthorised(i)
    BY <1>5 DEF Evict
<1>6. ASSUME NEW c \in CPU, NoEntry(c) PROVE Unauthorised(i)
    BY <1>6 DEF NoEntry
<1>7. ASSUME NEW c \in CPU, StoreKey(c) PROVE Unauthorised(i)
    BY <1>7 DEF StoreKey
<1>8. ASSUME NEW c \in CPU, StoreCtrl(c) PROVE Unauthorised(i)
    BY <1>8 DEF StoreCtrl
<1>9. ASSUME NEW c \in CPU, StorePtrNew(c), hidx[c] # i PROVE Unauthorised(i)
    BY <1>9 DEF StorePtrNew
<1>10. ASSUME NEW c \in CPU, StorePtrNone(c) PROVE Unauthorised(i)
    BY <1>10 DEF StorePtrNone, FillInv
<1>11. ASSUME NEW c \in CPU, ReleaseToCharge(c) PROVE Unauthorised(i)
    BY <1>11 DEF ReleaseToCharge
<1>12. ASSUME NEW c \in CPU, ReleaseAndReturn(c) PROVE Unauthorised(i)
    BY <1>12 DEF ReleaseAndReturn
<1>13. CASE Configure
    BY <1>13 DEF Configure, Quiet
<1> QED BY <1>1, <1>2, <1>3, <1>4, <1>5, <1>6, <1>7, <1>8, <1>9, <1>10,
           <1>11, <1>12, <1>13, StepKinds

(* Charger(c): the steps that touch the state of a host, or name it. *)
Charger(c) ==
    \/ RxGetState(c) \/ HostLock(c) \/ HostUnlock(c)
    \/ Evict(c) \/ StorePtrNew(c) \/ StorePtrNone(c)

(* Every other step but Configure is calm. *)
LEMMA CalmKinds ==
    ASSUME IInv, [Next]_vars
    PROVE  Calm \/ Configure \/ \E c \in CPU : Charger(c)
<1>a. ASSUME hp_size' = hp_size
      PROVE  \A i \in Slots : Unauthorised(i)' => Unauthorised(i)
  <2>1. \A c \in CPU : ~StorePtrNew(c)
      BY <1>a DEF StorePtrNew, IInv, TypeOK
  <2> QED BY <2>1, UnauthorisedShrinks
<1>b. TypeOK
    BY DEF IInv
<1> USE DEF Calm, TypeOK, Goto, Done, table, pool, time, frame
<1>1. CASE Tick
    BY <1>1, <1>a, <1>b DEF Tick
<1>2. ASSUME NEW c \in CPU, Prepare(c) PROVE Calm
    BY <1>2, <1>a, <1>b DEF Prepare
<1>3. ASSUME NEW c \in CPU, NEW a \in Addr, RxHit(c, a) PROVE Calm
    BY <1>3, <1>a, <1>b DEF RxHit
<1>4. ASSUME NEW c \in CPU, NEW a \in Addr, RxMiss(c, a) PROVE Calm
    BY <1>4, <1>a, <1>b DEF RxMiss
<1>5. ASSUME NEW c \in CPU, RxAuthorized(c) PROVE Calm
    BY <1>5, <1>a, <1>b DEF RxAuthorized
<1>6. ASSUME NEW c \in CPU, RxPrivate(c) PROVE Calm
    BY <1>6, <1>a, <1>b DEF RxPrivate
<1>7. ASSUME NEW c \in CPU, RxPublicHit(c) PROVE Calm
    BY <1>7, <1>a, <1>b DEF RxPublicHit
<1>8. ASSUME NEW c \in CPU, RxDeferred(c) PROVE Calm
    BY <1>8, <1>a, <1>b DEF RxDeferred
<1>9. ASSUME NEW c \in CPU, RxInsert(c) PROVE Calm
    BY <1>9, <1>a, <1>b DEF RxInsert
<1>10. ASSUME NEW c \in CPU, HostSpin(c) PROVE Calm
    BY <1>10, <1>a, <1>b DEF HostSpin, vars
<1>11. ASSUME NEW c \in CPU, NEW a \in TxDst, TxHit(c, a) PROVE Calm
    BY <1>11, <1>a, <1>b DEF TxHit
<1>12. ASSUME NEW c \in CPU, NEW a \in TxDst, TxMiss(c, a) PROVE Calm
    BY <1>12, <1>a, <1>b DEF TxMiss
<1>13. ASSUME NEW c \in CPU, TxAlready(c) PROVE Calm
    BY <1>13, <1>a, <1>b DEF TxAlready
<1>14. ASSUME NEW c \in CPU, TxRaise(c) PROVE Calm
    BY <1>14, <1>a, <1>b DEF TxRaise
<1>15. ASSUME NEW c \in CPU, Acquire(c) PROVE Calm
    BY <1>15, <1>a, <1>b DEF Acquire
<1>16. ASSUME NEW c \in CPU, Spin(c) PROVE Calm
    BY <1>16, <1>a, <1>b DEF Spin, vars
<1>17. ASSUME NEW c \in CPU, Found(c) PROVE Calm
    BY <1>17, <1>a, <1>b DEF Found
<1>18. ASSUME NEW c \in CPU, TakeFree(c) PROVE Calm
    BY <1>18, <1>a, <1>b DEF TakeFree
<1>19. ASSUME NEW c \in CPU, NoEntry(c) PROVE Calm
    BY <1>19, <1>a, <1>b DEF NoEntry
<1>20. ASSUME NEW c \in CPU, StoreKey(c) PROVE Calm
    BY <1>20, <1>a, <1>b DEF StoreKey
<1>21. ASSUME NEW c \in CPU, StoreCtrl(c) PROVE Calm
    BY <1>21, <1>a, <1>b DEF StoreCtrl
<1>22. ASSUME NEW c \in CPU, ReleaseToCharge(c) PROVE Calm
    BY <1>22, <1>a, <1>b DEF ReleaseToCharge
<1>23. ASSUME NEW c \in CPU, ReleaseAndReturn(c) PROVE Calm
    BY <1>23, <1>a, <1>b DEF ReleaseAndReturn
<1>24. ASSUME NEW c \in CPU, NEW a \in CfgHost, CfgInsert(c, a) PROVE Calm
    BY <1>24, <1>a, <1>b DEF CfgInsert
<1>25. CASE Resume
    BY <1>25, <1>a, <1>b DEF Resume
<1>26. CASE UNCHANGED vars
    BY <1>26, <1>a, <1>b DEF vars
<1> QED BY <1>1, <1>2, <1>3, <1>4, <1>5, <1>6, <1>7, <1>8, <1>9, <1>10, <1>11,
           <1>12, <1>13, <1>14, <1>15, <1>16, <1>17, <1>18, <1>19, <1>20,
           <1>21, <1>22, <1>23, <1>24, <1>25, <1>26 DEF Next, Rx, Tx, Write,
           Charger

(* The lock of a state is taken and released around a charge, and cleared   *)
(* only under an evicted entry, whose state is then no host's.              *)
LEMMA ChargeStep == IInv /\ [Next]_vars => ChargeInv' /\ ChargesApart'
<1> SUFFICES ASSUME IInv, [Next]_vars PROVE ChargeInv' /\ ChargesApart'
    OBVIOUS
<1> DEFINE Goal == ChargeInv' /\ ChargesApart'
<1>a. TypeOK /\ IndexValid /\ BucketMutex /\ PtrInv /\ ChargeInv /\ ChargesApart
    BY DEF IInv
<1>b. TypeOK'
    BY TypeStep, <1>a
<1>c. ASSUME hp_size' = hp_size
      PROVE  \A i \in Slots : Unauthorised(i)' => Unauthorised(i)
  <2>1. \A c \in CPU : ~StorePtrNew(c)
      BY <1>a, <1>c DEF StorePtrNew, TypeOK
  <2> QED BY <2>1, UnauthorisedShrinks
<1>d. ASSUME Calm PROVE Goal
    BY <1>d, <1>a, <1>b, CalmStep
<1> HIDE DEF Goal
<1>1. ASSUME NEW c \in CPU, RxGetState(c) PROVE Goal
  <2>1. hidx[c] \in Slots /\ pc[c] = "state"
      BY <1>1, <1>a DEF RxGetState, IndexValid
  <2>2. /\ UNCHANGED <<saddr, pri, ptr, hp_size, hlock, hidx>>
        /\ pc' = [pc EXCEPT ![c] = "hl_wait"]
        /\ sp' = [sp EXCEPT ![c] = ptr[hidx[c]]]
      BY <1>1 DEF RxGetState, table, pool, Goto
  <2>3. \A i \in Slots : Unauthorised(i)' => Unauthorised(i)
      BY <2>1, <2>2, <1>a DEF Unauthorised, InFill, Filling, TypeOK
  <2>4. ChargeInv'
      BY <2>1, <2>2, <2>3, <1>a DEF ChargeInv, Charged, TypeOK
  <2>5. ChargesApart'
      BY <2>1, <2>2, <2>3, <1>a DEF ChargesApart, TypeOK
  <2> QED BY <2>4, <2>5 DEF Goal
<1>2. ASSUME NEW c \in CPU, HostLock(c) PROVE Goal
  <2>1. pc[c] = "hl_wait" /\ ~hlock[sp[c]] /\ sp[c] \in 0 .. PtrMod - 1
      BY <1>2, <1>a DEF HostLock, TypeOK
  <2>2. /\ UNCHANGED <<saddr, pri, ptr, hp_size, hidx, sp>>
        /\ pc' = [pc EXCEPT ![c] = "charge"]
        /\ hlock' = [hlock EXCEPT ![sp[c]] = TRUE]
      BY <1>2 DEF HostLock, table, frame, Goto
  <2>3. \A i \in Slots : Unauthorised(i)' => Unauthorised(i)
      BY <2>1, <2>2, <1>a DEF Unauthorised, InFill, Filling, TypeOK
  <2>4. ChargeInv'
      BY <2>1, <2>2, <2>3, <1>a DEF ChargeInv, Charged, TypeOK
  <2>5. ChargesApart'
      BY <2>1, <2>2, <2>3, <1>a DEF ChargesApart, ChargeInv, Charged, TypeOK
  <2> QED BY <2>4, <2>5 DEF Goal
<1>3. ASSUME NEW c \in CPU, HostUnlock(c) PROVE Goal
  <2>1. pc[c] = "charge" /\ sp[c] \in 0 .. PtrMod - 1
      BY <1>3, <1>a DEF HostUnlock, TypeOK
  <2>2. /\ UNCHANGED <<saddr, pri, ptr, hp_size>>
        /\ pc' = [pc EXCEPT ![c] = "idle"]
        /\ hidx' = [hidx EXCEPT ![c] = NoSlot]
        /\ sp' = [sp EXCEPT ![c] = 0]
        /\ hlock' = [hlock EXCEPT ![sp[c]] = FALSE]
      BY <1>3 DEF HostUnlock, table, Done, Goto
  <2>3. \A i \in Slots : Unauthorised(i)' => Unauthorised(i)
      BY <2>1, <2>2, <1>a DEF Unauthorised, InFill, Filling, TypeOK
  <2>4. ChargeInv'
      BY <2>1, <2>2, <2>3, <1>a DEF ChargeInv, ChargesApart, Charged, TypeOK
  <2>5. ChargesApart'
      BY <2>1, <2>2, <2>3, <1>a DEF ChargesApart, TypeOK
  <2> QED BY <2>4, <2>5 DEF Goal
<1>4. ASSUME NEW c \in CPU, Evict(c) PROVE Goal
  <2>1. PICK k \in Slots : /\ pri[k] <= AllocPriority
                           /\ hidx' = [hidx EXCEPT ![c] = k]
                           /\ hlock' = [hlock EXCEPT ![ptr[k]] = FALSE]
      BY <1>4 DEF Evict
  <2>2. /\ UNCHANGED <<saddr, pri, ptr, hp_size, sp>>
        /\ pc' = [pc EXCEPT ![c] = "fill"]
      BY <1>4 DEF Evict, table, Goto
  <2>3. \A i \in Slots : Unauthorised(i)' => Unauthorised(i) /\ i # k
      BY <2>1, <2>2, <1>a, <1>c DEF Unauthorised, InFill, Filling, TypeOK
  <2>4. ptr[k] \in 0 .. PtrMod - 1 /\ ptr \in [Slots -> 0 .. PtrMod - 1]
      BY <1>a DEF TypeOK
  <2>5. ASSUME hp_size < PtrMod, NEW i \in Slots, Unauthorised(i)'
        PROVE  ptr[i] # ptr[k]
    <3>1. Unauthorised(i) /\ i # k
        BY <2>3, <2>5
    <3>2. ptr[i] # 0
        BY <3>1, <2>5, <1>a DEF PtrInv, TypeOK
    <3> QED BY <3>1, <3>2, <2>5, <1>a DEF ChargeInv
  <2>6. ChargeInv'
      BY <2>1, <2>2, <2>3, <2>4, <2>5, <1>a DEF ChargeInv, Charged, TypeOK
  <2>7. ChargesApart'
      BY <2>1, <2>2, <2>3, <1>a DEF ChargesApart, TypeOK
  <2> QED BY <2>6, <2>7 DEF Goal
<1>5. ASSUME NEW c \in CPU, StorePtrNew(c) PROVE Goal
  <2>1. SUFFICES ASSUME hp_size' < PtrMod PROVE Goal
      BY DEF Goal, ChargeInv, ChargesApart
  <2>2. hidx[c] \in Slots /\ hp_size' = hp_size + 1 /\ hp_size \in Nat
      BY <1>5, <1>a DEF StorePtrNew, IndexValid, Filling, TypeOK
  <2>3. hp_size + 1 < PtrMod /\ hp_size < PtrMod
      BY <2>1, <2>2, TableAssumption
  <2>4. (hp_size + 1) % PtrMod = hp_size + 1
      BY <2>2, <2>3, ModSmall, TableAssumption
  <2>5. /\ ptr' = [ptr EXCEPT ![hidx[c]] = hp_size + 1]
        /\ pc' = [pc EXCEPT ![c] = "release"]
        /\ UNCHANGED <<hlock, sp>>
      BY <1>5, <2>4 DEF StorePtrNew, Goto, frame
  <2>6. \A i \in Slots : Unauthorised(i)' /\ i # hidx[c] => Unauthorised(i)
    <3>1. \A d \in CPU : StorePtrNew(d) => d = c
        BY <1>5, <1>a DEF StorePtrNew, BucketMutex, Holding, Filling
    <3> QED BY <3>1, UnauthorisedShrinks
  <2>7. \A d \in CPU : pc'[d] \in {"hl_wait", "charge"} =>
          pc[d] = pc'[d] /\ sp[d] \in 0 .. hp_size /\ sp[d] # hp_size + 1
      BY <2>2, <2>3, <2>5, <1>a DEF ChargeInv, TypeOK
  <2>8. \A d \in CPU : pc'[d] = "charge" /\ Charged(sp[d])' => Charged(sp[d])
      BY <2>2, <2>5, <2>6, <2>7, <1>a DEF Charged, TypeOK
  <2>9. ChargeInv'
    <3>1. \A i \in Slots : ptr'[i] \in 0 .. hp_size'
        BY <2>2, <2>3, <2>5, <1>a DEF ChargeInv, TypeOK
    <3>2. \A i, j \in Slots : ptr'[i] = ptr'[j] /\ ptr'[i] # 0 => i = j
        BY <2>2, <2>3, <2>5, <1>a DEF ChargeInv, TypeOK
    <3>3. \A d \in CPU :
            pc'[d] \in {"hl_wait", "charge"} => sp'[d] \in 0 .. hp_size'
        BY <2>2, <2>5, <2>7
    <3>4. \A d \in CPU :
            pc'[d] = "charge" /\ Charged(sp[d])' => hlock'[sp'[d]]
        BY <2>3, <2>5, <2>7, <2>8, <1>a DEF ChargeInv, Charged
    <3> QED BY <3>1, <3>2, <3>3, <3>4 DEF ChargeInv, Charged
  <2>10. ChargesApart'
      BY <2>2, <2>3, <2>5, <2>6, <2>7, <1>a DEF ChargesApart, TypeOK
  <2> QED BY <2>9, <2>10 DEF Goal
<1>6. ASSUME NEW c \in CPU, StorePtrNone(c) PROVE Goal
  <2>1. /\ ptr' = [ptr EXCEPT ![hidx[c]] = 0] /\ hidx[c] \in Slots
        /\ pc' = [pc EXCEPT ![c] = "release"]
        /\ UNCHANGED <<hp_size, hlock, sp>>
      BY <1>6, <1>a DEF StorePtrNone, pool, frame, Goto, IndexValid, Filling
  <2>2. \A i \in Slots : Unauthorised(i)' => Unauthorised(i)
      BY <2>1, <1>c
  <2>3. ~Unauthorised(hidx[c])
      BY <1>6, <2>1 DEF StorePtrNone, Unauthorised, InFill, Filling
  <2>4. ChargeInv'
      BY <2>1, <2>2, <2>3, <1>a DEF ChargeInv, Charged, TypeOK
  <2>5. ChargesApart'
      BY <2>1, <2>2, <2>3, <1>a DEF ChargesApart, TypeOK
  <2> QED BY <2>4, <2>5 DEF Goal
<1>7. CASE Configure
  <2>1. \A c \in CPU : pc'[c] = "idle"
      BY <1>7 DEF Configure, Quiet
  <2>2. ptr' = ptr /\ hp_size' = hp_size
      BY <1>7 DEF Configure
  <2>3. ChargeInv' /\ ChargesApart'
      BY <2>1, <2>2, <1>a DEF ChargeInv, ChargesApart
  <2> QED BY <2>3 DEF Goal
<1> QED BY <1>d, <1>1, <1>2, <1>3, <1>4, <1>5, <1>6, <1>7, CalmKinds
           DEF Charger, Goal

(* No received frame works for the free key.  A host 0 comes from ntfe_tx or *)
(* ntfe_configure, which both ask for an authorisation.                     *)
KeyInv ==
    \A c \in CPU :
        pc[c] \notin {"idle", "tx_pri"} /\ want[c] = HOST_PRI_NONE
          => key[c] # NoAddr

(* ntfe_rx looks no source address 0 up (ntfe.cpp:163 answers before it). *)
LEMMA KeyStep == TypeOK /\ KeyInv /\ [Next]_vars => KeyInv'
<1> SUFFICES ASSUME TypeOK, KeyInv, [Next]_vars PROVE KeyInv'
    OBVIOUS
<1> USE TableAssumption DEF TypeOK, KeyInv, Goto, Done, Holding, Filling,
        table, pool, time, frame
<1>1. CASE Tick
    BY <1>1 DEF Tick
<1>2. ASSUME NEW c \in CPU, Prepare(c) PROVE KeyInv'
    BY <1>2 DEF Prepare
<1>3. ASSUME NEW c \in CPU, NEW a \in Addr, RxHit(c, a) PROVE KeyInv'
    BY <1>3 DEF RxHit
<1>4. ASSUME NEW c \in CPU, NEW a \in Addr, RxMiss(c, a) PROVE KeyInv'
    BY <1>4 DEF RxMiss
<1>5. ASSUME NEW c \in CPU, RxAuthorized(c) PROVE KeyInv'
    BY <1>5 DEF RxAuthorized
<1>6. ASSUME NEW c \in CPU, RxPrivate(c) PROVE KeyInv'
    BY <1>6 DEF RxPrivate
<1>7. ASSUME NEW c \in CPU, RxPublicHit(c) PROVE KeyInv'
    BY <1>7 DEF RxPublicHit
<1>8. ASSUME NEW c \in CPU, RxDeferred(c) PROVE KeyInv'
    BY <1>8 DEF RxDeferred
<1>9. ASSUME NEW c \in CPU, RxInsert(c) PROVE KeyInv'
    BY <1>9 DEF RxInsert
<1>10. ASSUME NEW c \in CPU, RxGetState(c) PROVE KeyInv'
    BY <1>10 DEF RxGetState
<1>11. ASSUME NEW c \in CPU, HostLock(c) PROVE KeyInv'
    BY <1>11 DEF HostLock
<1>12. ASSUME NEW c \in CPU, HostSpin(c) PROVE KeyInv'
    BY <1>12 DEF HostSpin, vars
<1>13. ASSUME NEW c \in CPU, HostUnlock(c) PROVE KeyInv'
    BY <1>13 DEF HostUnlock
<1>14. ASSUME NEW c \in CPU, NEW a \in TxDst, TxHit(c, a) PROVE KeyInv'
    BY <1>14 DEF TxHit
<1>15. ASSUME NEW c \in CPU, NEW a \in TxDst, TxMiss(c, a) PROVE KeyInv'
    BY <1>15 DEF TxMiss
<1>16. ASSUME NEW c \in CPU, TxAlready(c) PROVE KeyInv'
    BY <1>16 DEF TxAlready
<1>17. ASSUME NEW c \in CPU, TxRaise(c) PROVE KeyInv'
    BY <1>17 DEF TxRaise
<1>18. ASSUME NEW c \in CPU, Acquire(c) PROVE KeyInv'
    BY <1>18 DEF Acquire
<1>19. ASSUME NEW c \in CPU, Spin(c) PROVE KeyInv'
    BY <1>19 DEF Spin, vars
<1>20. ASSUME NEW c \in CPU, Found(c) PROVE KeyInv'
    BY <1>20 DEF Found
<1>21. ASSUME NEW c \in CPU, TakeFree(c) PROVE KeyInv'
    BY <1>21 DEF TakeFree
<1>22. ASSUME NEW c \in CPU, Evict(c) PROVE KeyInv'
    BY <1>22 DEF Evict
<1>23. ASSUME NEW c \in CPU, NoEntry(c) PROVE KeyInv'
    BY <1>23 DEF NoEntry
<1>24. ASSUME NEW c \in CPU, StoreKey(c) PROVE KeyInv'
    BY <1>24 DEF StoreKey
<1>25. ASSUME NEW c \in CPU, StoreCtrl(c) PROVE KeyInv'
    BY <1>25 DEF StoreCtrl
<1>26. ASSUME NEW c \in CPU, StorePtrNew(c) PROVE KeyInv'
    BY <1>26 DEF StorePtrNew
<1>27. ASSUME NEW c \in CPU, StorePtrNone(c) PROVE KeyInv'
    BY <1>27 DEF StorePtrNone
<1>28. ASSUME NEW c \in CPU, ReleaseToCharge(c) PROVE KeyInv'
    BY <1>28 DEF ReleaseToCharge
<1>29. ASSUME NEW c \in CPU, ReleaseAndReturn(c) PROVE KeyInv'
    BY <1>29 DEF ReleaseAndReturn
<1>30. CASE Configure
    BY <1>30 DEF Configure
<1>31. ASSUME NEW c \in CPU, NEW a \in CfgHost, CfgInsert(c, a) PROVE KeyInv'
    BY <1>31 DEF CfgInsert
<1>32. CASE Resume
    BY <1>32 DEF Resume
<1>33. CASE UNCHANGED vars
    BY <1>33 DEF vars
<1> QED BY <1>1, <1>2, <1>3, <1>4, <1>5, <1>6, <1>7, <1>8, <1>9, <1>10,
           <1>11, <1>12, <1>13, <1>14, <1>15, <1>16, <1>17, <1>18, <1>19,
           <1>20, <1>21, <1>22, <1>23, <1>24, <1>25, <1>26, <1>27, <1>28,
           <1>29, <1>30, <1>31, <1>32, <1>33 DEF Next, Rx, Tx, Write

(* The exhausted bit is set when the last free entry is taken, and cleared  *)
(* when one becomes free.  An entry that host 0 takes later keeps the look  *)
(* of a free one, but was authorised, and allocate evicts no such entry.    *)
LEMMA FullStep ==
    ASSUME IInv, KeyInv, ExhaustedMeansFull, [Next]_vars
    PROVE  ExhaustedMeansFull'
<1> USE DEF IInv, TypeOK, IndexValid, BucketMutex, Writer, Holding, Filling,
        Goto, Done, pool, time, frame, table
<1> DEFINE Kept(i) == InFill(i) \/ (NoAddr \in authd /\ pri[i] # HOST_PRI_NONE)
<1>0. ASSUME UNCHANGED <<saddr, exhausted>>,
             \A i \in Slots : saddr[i] = NoAddr /\ Kept(i) => Kept(i)'
      PROVE  ExhaustedMeansFull'
    BY <1>0 DEF ExhaustedMeansFull
<1>1. CASE Aside
    BY <1>0, <1>1, AsideFill DEF Aside
<1>2. ASSUME NEW c \in CPU, Acquire(c) PROVE ExhaustedMeansFull'
    BY <1>0, <1>2 DEF Acquire, InFill
<1>3. ASSUME NEW c \in CPU, Found(c) PROVE ExhaustedMeansFull'
  <2>1. /\ UNCHANGED <<saddr, exhausted, authd>>
        /\ \A i \in Slots : ~InFill(i)
      BY <1>3 DEF Found, InFill
  <2>2. PICK k \in Slots : pri' = [pri EXCEPT ![k] =
                                    IF @ < want[c] THEN want[c] ELSE @]
      BY <1>3 DEF Found
  <2>3. ASSUME NEW i \in Slots, pri[i] # HOST_PRI_NONE
        PROVE  pri'[i] # HOST_PRI_NONE
    <3>1. pri'[i] = pri[i] \/ (pri[i] < want[c] /\ pri'[i] = want[c])
        BY <2>2
    <3>2. pri[i] \in 0 .. 3 /\ want[c] \in 0 .. 3
        BY DEF Priority
    <3> QED BY <2>3, <3>1, <3>2
  <2> QED BY <1>0, <2>1, <2>3
<1>4. ASSUME NEW c \in CPU, TakeFree(c) PROVE ExhaustedMeansFull'
  <2>1. PICK k \in Slots : /\ \A j \in Slots : j < k => saddr[j] # NoAddr
                           /\ hidx' = [hidx EXCEPT ![c] = k]
                           /\ exhausted' = (k = BktSz - 1)
      BY <1>4 DEF TakeFree, Hit
  <2>2. saddr' = saddr /\ pc' = [pc EXCEPT ![c] = "fill"]
      BY <1>4 DEF TakeFree
  <2>3. InFill(k)'
      BY <2>1, <2>2 DEF InFill
  <2>4. ASSUME exhausted', NEW i \in Slots, saddr[i] = NoAddr PROVE i = k
    <3>1. k = BktSz - 1 /\ ~(i < k)
        BY <2>1, <2>4
    <3> QED BY <3>1, TableAssumption DEF Slots
  <2> QED BY <2>2, <2>3, <2>4 DEF ExhaustedMeansFull
<1>5. ASSUME NEW c \in CPU, Evict(c) PROVE ExhaustedMeansFull'
  <2>1. PICK k \in Slots : hidx' = [hidx EXCEPT ![c] = k]
      BY <1>5 DEF Evict
  <2>2. /\ UNCHANGED <<saddr, pri, exhausted, authd>>
        /\ \A i \in Slots : ~InFill(i)
      BY <1>5 DEF Evict, InFill
  <2> QED BY <1>0, <2>2
<1>6. ASSUME NEW c \in CPU, NoEntry(c) PROVE ExhaustedMeansFull'
    BY <1>0, <1>6 DEF NoEntry, InFill
<1>7. ASSUME NEW c \in CPU, StoreKey(c) PROVE ExhaustedMeansFull'
  <2> DEFINE k == hidx[c]
  <2>1. /\ saddr' = [saddr EXCEPT ![k] = key[c]] /\ k \in Slots
        /\ UNCHANGED <<pri, exhausted, authd, hidx>>
        /\ Miss(key[c])
      BY <1>7 DEF StoreKey, FillInv
  <2>2. InFill(k)' /\ \A i \in Slots \ {k} : ~InFill(i)
      BY <1>7, <2>1 DEF StoreKey, InFill
  <2>3. ASSUME exhausted, NEW i \in Slots, i # k, saddr[i] = NoAddr
        PROVE  /\ NoAddr \in authd /\ pri[i] # HOST_PRI_NONE
               /\ key[c] # NoAddr
               /\ \A j \in Slots : saddr[j] = NoAddr => i = j
      BY <2>1, <2>2, <2>3 DEF ExhaustedMeansFull, Miss
  <2>4. ASSUME exhausted, key[c] = NoAddr, NEW j \in Slots, saddr'[j] = NoAddr
        PROVE  j = k
      BY <2>1, <2>4 DEF Miss
  <2>5. ASSUME exhausted', NEW i \in Slots, saddr'[i] = NoAddr
        PROVE  /\ InFill(i)' \/ (NoAddr \in authd /\ pri[i] # HOST_PRI_NONE)
               /\ \A j \in Slots : saddr'[j] = NoAddr => i = j
    <3>1. CASE i = k
      <4>1. key[c] = NoAddr
          BY <2>1, <2>5, <3>1
      <4> QED BY <2>1, <2>2, <2>4, <2>5, <3>1, <4>1
    <3>2. CASE i # k
      <4>1. exhausted /\ saddr[i] = NoAddr
          BY <2>1, <2>5, <3>2
      <4>2. /\ NoAddr \in authd /\ pri[i] # HOST_PRI_NONE
            /\ key[c] # NoAddr
            /\ \A j \in Slots : saddr[j] = NoAddr => i = j
          BY <2>3, <3>2, <4>1
      <4>3. \A j \in Slots : saddr'[j] = NoAddr => i = j
          BY <2>1, <4>2
      <4> QED BY <4>2, <4>3
    <3> QED BY <3>1, <3>2
  <2> QED BY <2>1, <2>5 DEF ExhaustedMeansFull
<1>8. ASSUME NEW c \in CPU, StoreCtrl(c) PROVE ExhaustedMeansFull'
  <2>1. /\ UNCHANGED <<saddr, exhausted, authd>>
        /\ \A i \in Slots : i = hidx[c] => InFill(i)'
        /\ \A i \in Slots \ {hidx[c]} : ~InFill(i) /\ pri'[i] = pri[i]
      BY <1>8 DEF StoreCtrl, InFill
  <2>2. ASSUME NEW i \in Slots, Kept(i) PROVE Kept(i)'
    <3>1. CASE i = hidx[c]
        BY <2>1, <3>1
    <3>2. CASE i # hidx[c]
      <4>1. NoAddr \in authd /\ pri[i] # HOST_PRI_NONE /\ pri'[i] = pri[i]
          BY <2>1, <2>2, <3>2
      <4> QED BY <2>1, <4>1
    <3> QED BY <3>1, <3>2
  <2> QED BY <1>0, <2>1, <2>2
<1>9. ASSUME NEW c \in CPU, StorePtrNew(c) PROVE ExhaustedMeansFull'
  <2>1. /\ UNCHANGED <<saddr, pri, exhausted, authd>>
        /\ \A i \in Slots \ {hidx[c]} : ~InFill(i)
      BY <1>9 DEF StorePtrNew, InFill
  <2>2. saddr[hidx[c]] # NoAddr
      BY <1>9 DEF StorePtrNew, FillInv, KeyInv
  <2> QED BY <1>0, <2>1, <2>2
<1>10. ASSUME NEW c \in CPU, StorePtrNone(c) PROVE ExhaustedMeansFull'
  <2>1. /\ UNCHANGED <<saddr, pri, exhausted, authd>>
        /\ \A i \in Slots \ {hidx[c]} : ~InFill(i)
      BY <1>10 DEF StorePtrNone, InFill
  <2>2. /\ saddr[hidx[c]] = key[c] /\ pri[hidx[c]] # HOST_PRI_NONE
        /\ key[c] \in authd
      BY <1>10 DEF StorePtrNone, FillInv, AuthInv
  <2> QED BY <1>0, <2>1, <2>2
<1>11. ASSUME NEW c \in CPU, ReleaseToCharge(c) PROVE ExhaustedMeansFull'
    BY <1>0, <1>11 DEF ReleaseToCharge, InFill
<1>12. ASSUME NEW c \in CPU, ReleaseAndReturn(c) PROVE ExhaustedMeansFull'
    BY <1>0, <1>12 DEF ReleaseAndReturn, InFill
<1>13. CASE Configure
  <2>1. SUFFICES ASSUME exhausted' PROVE ExhaustedMeansFull'
      BY DEF ExhaustedMeansFull
  <2>2. /\ exhausted /\ ClearedSlots = {}
        /\ UNCHANGED <<pri, hidx, pc>>
        /\ authd' = authd \ {saddr[i] : i \in ClearedSlots}
        /\ saddr' = [i \in Slots |-> IF i \in ClearedSlots THEN NoAddr
                                     ELSE saddr[i]]
      BY <1>13, <2>1 DEF Configure
  <2>3. saddr' = saddr /\ authd' = authd /\ exhausted' = exhausted
      BY <2>1, <2>2
  <2> QED BY <1>0, <2>2, <2>3 DEF InFill
<1> QED BY <1>1, <1>2, <1>3, <1>4, <1>5, <1>6, <1>7, <1>8, <1>9, <1>10,
           <1>11, <1>12, <1>13, StepKinds

(* What an entry shows about an authorised host survives every step of the  *)
(* data path.                                                               *)
Shows(i) == saddr[i] # NoAddr /\ pri[i] # HOST_PRI_NONE /\ ~InFill(i)

(* Only a restart of the engine (mode changes) takes an authorisation away. *)
LEMMA KeptStep ==
    ASSUME IInv, [Next]_vars
    PROVE  mode' = mode => AuthHosts \subseteq AuthHosts'
<1>0. SUFFICES ASSUME mode' = mode
               PROVE  \A i \in Slots : Shows(i) =>
                        Shows(i)' /\ saddr'[i] = saddr[i]
    BY DEF AuthHosts, Shows
<1> DEFINE Goal == \A i \in Slots : Shows(i) =>
                     Shows(i)' /\ saddr'[i] = saddr[i]
<1> USE DEF IInv, TypeOK, IndexValid, BucketMutex, Writer, Holding, Filling,
        Goto, Done, pool, time, frame, table
<1>1. CASE Aside
    BY <1>1, AsideFill DEF Aside, Shows
<1>2. ASSUME NEW c \in CPU, Acquire(c) PROVE Goal
    BY <1>2 DEF Acquire, Shows, InFill
<1>3. ASSUME NEW c \in CPU, Found(c) PROVE Goal
  <2>1. saddr' = saddr /\ \A i \in Slots : InFill(i)' <=> InFill(i)
      BY <1>3 DEF Found, InFill
  <2>2. PICK k \in Slots : pri' = [pri EXCEPT ![k] =
                                    IF @ < want[c] THEN want[c] ELSE @]
      BY <1>3 DEF Found
  <2>3. ASSUME NEW i \in Slots, pri[i] # HOST_PRI_NONE
        PROVE  pri'[i] # HOST_PRI_NONE
    <3>1. pri'[i] = pri[i] \/ pri[i] < want[c]
        BY <2>2
    <3>2. pri'[i] = pri[i] \/ pri'[i] = want[c]
        BY <2>2
    <3>3. pri[i] \in 0 .. 3 /\ want[c] \in 0 .. 3
        BY DEF Priority
    <3> QED BY <2>3, <3>1, <3>2, <3>3
  <2> QED BY <2>1, <2>3 DEF Shows
<1>4. ASSUME NEW c \in CPU, TakeFree(c) PROVE Goal
    BY <1>4 DEF TakeFree, Shows, InFill, Hit
<1>5. ASSUME NEW c \in CPU, Evict(c) PROVE Goal
  <2>1. saddr' = saddr /\ pri' = pri
      BY <1>5 DEF Evict
  <2>2. PICK k \in Slots : pri[k] <= AllocPriority
                           /\ hidx' = [hidx EXCEPT ![c] = k]
      BY <1>5 DEF Evict
  <2>3. pri[k] = HOST_PRI_NONE
    <3>1. pri[k] \in 0 .. 3 /\ pri[k] <= 0
        BY <2>2 DEF AllocPriority, Priority
    <3> QED BY <3>1
  <2>4. pc' = [pc EXCEPT ![c] = "fill"]
      BY <1>5 DEF Evict
  <2>5. \A i \in Slots \ {k} : InFill(i)' => InFill(i)
      BY <2>2, <2>4 DEF InFill
  <2> QED BY <2>1, <2>3, <2>5 DEF Shows
<1>6. ASSUME NEW c \in CPU, NoEntry(c) PROVE Goal
    BY <1>6 DEF NoEntry, Shows, InFill
<1>7. ASSUME NEW c \in CPU, StoreKey(c) PROVE Goal
    BY <1>7 DEF StoreKey, Shows, InFill
<1>8. ASSUME NEW c \in CPU, StoreCtrl(c) PROVE Goal
    BY <1>8 DEF StoreCtrl, Shows, InFill
<1>9. ASSUME NEW c \in CPU, StorePtrNew(c) PROVE Goal
    BY <1>9 DEF StorePtrNew, Shows, InFill
<1>10. ASSUME NEW c \in CPU, StorePtrNone(c) PROVE Goal
    BY <1>10 DEF StorePtrNone, Shows, InFill
<1>11. ASSUME NEW c \in CPU, ReleaseToCharge(c) PROVE Goal
    BY <1>11 DEF ReleaseToCharge, Shows, InFill
<1>12. ASSUME NEW c \in CPU, ReleaseAndReturn(c) PROVE Goal
    BY <1>12 DEF ReleaseAndReturn, Shows, InFill
<1>13. CASE Configure
    BY <1>13, <1>0 DEF Configure
<1> QED BY <1>0, <1>1, <1>2, <1>3, <1>4, <1>5, <1>6, <1>7, <1>8, <1>9, <1>10,
           <1>11, <1>12, <1>13, StepKinds

(* Only the store of the control word dates an entry. *)
LEMMA AgeKinds ==
    ASSUME [Next]_vars
    PROVE  UNCHANGED <<age, born>> \/ \E c \in CPU : StoreCtrl(c)
<1> USE DEF table, pool, time, frame
<1>1. ASSUME NEW c \in CPU, Rx(c) PROVE UNCHANGED <<age, born>>
    BY <1>1 DEF Rx, RxHit, RxMiss, RxAuthorized, RxPrivate, RxPublicHit,
                RxDeferred, RxInsert, RxGetState, HostLock, HostSpin,
                HostUnlock, vars
<1>2. ASSUME NEW c \in CPU, Tx(c) PROVE UNCHANGED <<age, born>>
    BY <1>2 DEF Tx, TxHit, TxMiss, TxAlready, TxRaise
<1>3. ASSUME NEW c \in CPU, Write(c), ~StoreCtrl(c)
      PROVE  UNCHANGED <<age, born>>
    BY <1>3 DEF Write, Acquire, Spin, Found, TakeFree, Evict, NoEntry,
                StoreKey, StorePtrNew, StorePtrNone, ReleaseToCharge,
                ReleaseAndReturn, vars
<1>4. CASE Configure
    BY <1>4 DEF Configure
<1>5. ASSUME NEW c \in CPU, NEW a \in CfgHost, CfgInsert(c, a)
      PROVE  UNCHANGED <<age, born>>
    BY <1>5 DEF CfgInsert
<1>6. CASE Resume
    BY <1>6 DEF Resume
<1>7. CASE UNCHANGED vars
    BY <1>7 DEF vars
<1>8. ASSUME Tick \/ \E c \in CPU : Prepare(c) PROVE UNCHANGED <<age, born>>
    BY <1>8 DEF Tick, Prepare
<1> QED BY <1>1, <1>2, <1>3, <1>4, <1>5, <1>6, <1>7, <1>8 DEF Next

(* The age field holds the low bits of the time the entry was made. *)
AgeInv == \A i \in Slots : age[i] = born[i] % AgeMod

(* An entry is dated by the time its writer has. *)
LEMMA AgeStep ==
    ASSUME TypeOK, IndexValid, AgeInv, [Next]_vars
    PROVE  AgeInv'
<1>1. CASE UNCHANGED <<age, born>>
    BY <1>1 DEF AgeInv
<1>2. ASSUME NEW c \in CPU, StoreCtrl(c) PROVE AgeInv'
    BY <1>2 DEF StoreCtrl, AgeInv, TypeOK
<1> QED BY <1>1, <1>2, AgeKinds

(* Times less than the modulus apart keep their distance in the low bits. *)
LEMMA ModDistance ==
    ASSUME NEW n \in Nat \ {0}, NEW t \in Nat, NEW b \in Nat,
           b <= t, t - b < n
    PROVE  ((t % n) - (b % n)) % n = t - b
<1> DEFINE r == t % n
           s == b % n
           d == t - b
<1>1. r \in 0 .. n - 1 /\ s \in 0 .. n - 1 /\ d \in 0 .. n - 1
    BY ModRange
<1>2. PICK p \in Int : t = n * p + r
  <2>1. t = n * (t \div n) + (t % n) /\ t \div n \in Int
      BY Z3
  <2> QED BY <2>1
<1>3. PICK q \in Int : b = n * q + s
  <2>1. b = n * (b \div n) + (b % n) /\ b \div n \in Int
      BY Z3
  <2> QED BY <2>1
<1> HIDE DEF r, s
<1>4. PICK k \in Int : r - s = d + n * k
  <2>1. n * p \in Int /\ n * q \in Int /\ n * (q - p) = n * q - n * p
      OBVIOUS
  <2>2. r - s = d + n * (q - p)
      BY <1>1, <1>2, <1>3, <2>1
  <2> QED BY <2>2, q - p \in Int
<1>5. k = 0 \/ k = -1
  <2>1. n * k < n /\ n * k > -(2 * n)
      BY <1>1, <1>4
  <2>2. k >= 1 => n * k >= n
      OBVIOUS
  <2>3. k <= -2 => n * k <= -(2 * n)
      OBVIOUS
  <2> QED BY <2>1, <2>2, <2>3
<1>6. r - s = d \/ r - s = d - n
  <2>1. n * 0 = 0 /\ n * (-1) = -n
      OBVIOUS
  <2> QED BY <1>1, <1>4, <1>5, <2>1
<1>7. d % n = d
    BY <1>1, ModSmall
<1>8. (d - n) % n = d
  <2>1. \A x \in 0 .. n - 1 : (x - n) % n = x
      BY Z3
  <2> QED BY <1>1, <2>1
<1> HIDE DEF d
<1>9. (r - s) % n = d
    BY <1>6, <1>7, <1>8
<1> QED BY <1>9 DEF r, s, d

(* allocate: among the entries of the lowest class, the key of the scan     *)
(* orders by age, whatever CPU computes it, as long as the one passed over  *)
(* has not wrapped and the one taken is not from ahead of the CPU's time.   *)
LEMMA VictimOldest ==
    ASSUME TypeOK, AgeInv, NEW c \in CPU, Evict(c),
           NEW j \in Slots, pri[j] = HOST_PRI_NONE,
           born[j] < born[hidx'[c]]
    PROVE  ts[c] - born[j] >= AgeMod \/ born[hidx'[c]] > ts[c]
<1>1. PICK i \in Slots : /\ IsVictim(ts[c] % AgeMod, i)
                         /\ pri[i] <= AllocPriority
                         /\ hidx' = [hidx EXCEPT ![c] = i]
    BY DEF Evict
<1>2. hidx'[c] = i /\ pri[i] = 0 /\ pri[j] = 0
  <2>1. hidx'[c] = i
      BY <1>1 DEF TypeOK
  <2>2. pri[i] \in 0 .. 3 /\ pri[i] <= 0
      BY <1>1 DEF TypeOK, Priority, AllocPriority
  <2> QED BY <2>1, <2>2
<1>3. SUFFICES ASSUME ts[c] - born[j] < AgeMod, born[i] <= ts[c]
               PROVE  FALSE
    BY <1>2, TableAssumption DEF TypeOK
<1>4. /\ AgeMod \in Nat \ {0} /\ ts[c] \in Nat
      /\ born[i] \in Nat /\ born[j] \in Nat /\ born[j] < born[i]
    BY <1>2, TableAssumption DEF TypeOK
<1>5. /\ ((ts[c] % AgeMod) - age[i]) % AgeMod = ts[c] - born[i]
      /\ ((ts[c] % AgeMod) - age[j]) % AgeMod = ts[c] - born[j]
  <2>1. /\ ts[c] - born[i] < AgeMod
        /\ born[j] <= ts[c]
      BY <1>3, <1>4
  <2>2. /\ ((ts[c] % AgeMod) - (born[i] % AgeMod)) % AgeMod = ts[c] - born[i]
        /\ ((ts[c] % AgeMod) - (born[j] % AgeMod)) % AgeMod = ts[c] - born[j]
      BY <1>3, <1>4, <2>1, ModDistance
  <2> QED BY <2>2 DEF AgeInv
<1> DEFINE now == ts[c] % AgeMod
<1>6. Dist(now, i) = AgeMod - 1 - (ts[c] - born[i])
    BY <1>2, <1>4, <1>5 DEF Dist
<1>7. Dist(now, j) = AgeMod - 1 - (ts[c] - born[j])
    BY <1>2, <1>4, <1>5 DEF Dist
<1>8. Dist(now, i) < Dist(now, j) \/ Dist(now, i) = Dist(now, j)
    BY <1>1 DEF IsVictim
<1> HIDE DEF now
<1> QED BY <1>4, <1>6, <1>7, <1>8

-----------------------------------------------------------------------------
(* The map a bucket stands for.  An entry counts once it is complete.       *)
Live(i) == saddr[i] # NoAddr /\ ~InFill(i)
Value(i) == IF Live(i) THEN pri[i] ELSE Absent

(* A live entry is the value of its key. *)
LEMMA HostsLive ==
    ASSUME NoDuplicateKeys, NEW i \in Slots, saddr[i] \in Addr, Live(i)
    PROVE  hosts[saddr[i]] = pri[i]
<1>1. saddr[i] # NoAddr
    BY TableAssumption
<1>2. \A j \in Slots : saddr[j] = saddr[i] /\ ~InFill(j) => j = i
    BY <1>1 DEF NoDuplicateKeys
<1>3. (CHOOSE j \in Slots : saddr[j] = saddr[i] /\ ~InFill(j)) = i
    BY <1>2 DEF Live
<1> QED BY <1>3 DEF hosts, Live

(* A key without a live entry has none. *)
LEMMA HostsAbsent ==
    ASSUME NEW a \in Addr, \A i \in Slots : saddr[i] = a => ~Live(i)
    PROVE  hosts[a] = Absent
BY TableAssumption DEF hosts, Live

(* An entry that has a key decides its value, being filled or not. *)
LEMMA HostsEntry ==
    ASSUME NoDuplicateKeys, NEW i \in Slots, saddr[i] \in Addr
    PROVE  hosts[saddr[i]] = Value(i)
<1>1. CASE Live(i)
    BY <1>1, HostsLive DEF Value
<1>2. CASE ~Live(i)
  <2>1. \A j \in Slots : saddr[j] = saddr[i] => j = i
      BY TableAssumption DEF NoDuplicateKeys
  <2> QED BY <1>2, <2>1, HostsAbsent DEF Value
<1> QED BY <1>1, <1>2

(* The same facts of the next state. *)
LEMMA HostsLiveNext ==
    ASSUME NoDuplicateKeys', NEW i \in Slots, saddr'[i] \in Addr, Live(i)'
    PROVE  hosts'[saddr'[i]] = pri'[i]
<1>1. saddr'[i] # NoAddr
    BY TableAssumption
<1>2. \A j \in Slots : saddr'[j] = saddr'[i] /\ ~InFill(j)' => j = i
    BY <1>1 DEF NoDuplicateKeys
<1>3. (CHOOSE j \in Slots : saddr'[j] = saddr'[i] /\ ~InFill(j)') = i
    BY <1>2 DEF Live
<1> QED BY <1>3 DEF hosts, Live

(* And a key without a live entry is absent then. *)
LEMMA HostsAbsentNext ==
    ASSUME NEW a \in Addr, \A i \in Slots : saddr'[i] = a => ~Live(i)'
    PROVE  hosts'[a] = Absent
BY TableAssumption DEF hosts, Live

(* And an entry decides its value then. *)
LEMMA HostsEntryNext ==
    ASSUME NoDuplicateKeys', NEW i \in Slots, saddr'[i] \in Addr
    PROVE  hosts'[saddr'[i]] = Value(i)'
<1>1. CASE Live(i)'
    BY <1>1, HostsLiveNext DEF Value
<1>2. CASE ~Live(i)'
  <2>1. \A j \in Slots : saddr'[j] = saddr'[i] => j = i
      BY TableAssumption DEF NoDuplicateKeys
  <2> QED BY <1>2, <2>1, HostsAbsentNext DEF Value
<1> QED BY <1>1, <1>2

(* No step that leaves the live entries alone shows in the map. *)
LEMMA HostsSame ==
    ASSUME NoDuplicateKeys, NoDuplicateKeys',
           \A i \in Slots : Live(i)' <=> Live(i),
           \A i \in Slots : Live(i) => saddr'[i] = saddr[i] /\ pri'[i] = pri[i]
    PROVE  hosts' = hosts
<1>1. ASSUME NEW a \in Addr PROVE hosts'[a] = hosts[a]
  <2>1. CASE \E i \in Slots : saddr[i] = a /\ Live(i)
    <3>1. PICK i \in Slots : saddr[i] = a /\ Live(i)
        BY <2>1
    <3>2. hosts[a] = pri[i]
        BY <3>1, HostsLive
    <3>3. saddr'[i] = a /\ Live(i)' /\ pri'[i] = pri[i]
        BY <3>1
    <3>4. hosts'[a] = pri'[i]
        BY <3>3, HostsLiveNext
    <3> QED BY <3>2, <3>3, <3>4
  <2>2. CASE \A i \in Slots : saddr[i] = a => ~Live(i)
    <3>1. hosts[a] = Absent
        BY <2>2, HostsAbsent
    <3>2. hosts'[a] = Absent
        BY <2>2, HostsAbsentNext
    <3> QED BY <3>1, <3>2
  <2> QED BY <2>1, <2>2
<1> QED BY <1>1 DEF hosts

(* A step that changes one entry, and not its key, changes one host. *)
LEMMA HostsOne ==
    ASSUME NoDuplicateKeys, NoDuplicateKeys', saddr' = saddr,
           NEW k \in Slots, saddr[k] \in Addr,
           \A i \in Slots \ {k} :
              (Live(i)' <=> Live(i)) /\ (Live(i) => pri'[i] = pri[i])
    PROVE  /\ hosts[saddr[k]] = Value(k)
           /\ hosts' = [hosts EXCEPT ![saddr[k]] = Value(k)']
<1>1. hosts[saddr[k]] = Value(k)
    BY HostsEntry
<1>2. hosts'[saddr[k]] = Value(k)'
    BY HostsEntryNext
<1>3. ASSUME NEW a \in Addr, a # saddr[k] PROVE hosts'[a] = hosts[a]
  <2>1. CASE \E i \in Slots : saddr[i] = a /\ Live(i)
    <3>1. PICK i \in Slots : saddr[i] = a /\ Live(i)
        BY <2>1
    <3>2. i # k
        BY <3>1, <1>3
    <3>3. saddr'[i] = a /\ Live(i)' /\ pri'[i] = pri[i]
        BY <3>1, <3>2
    <3> QED BY <3>1, <3>3, HostsLive, HostsLiveNext
  <2>2. CASE \A i \in Slots : saddr[i] = a => ~Live(i)
    <3>1. \A i \in Slots : saddr'[i] = a => ~Live(i)'
        BY <2>2, <1>3
    <3> QED BY <2>2, <3>1, HostsAbsent, HostsAbsentNext
  <2> QED BY <2>1, <2>2
<1> QED BY <1>1, <1>2, <1>3 DEF hosts

(* No more hosts are present than the bucket has entries. *)
LEMMA PresentBound == NoDuplicateKeys => Cardinality(Map!Present(hosts)) <= BktSz
<1> SUFFICES ASSUME NoDuplicateKeys
             PROVE  Cardinality(Map!Present(hosts)) <= BktSz
    OBVIOUS
<1> DEFINE P == Map!Present(hosts)
           f == [a \in P |-> CHOOSE i \in Slots : saddr[i] = a]
<1>1. ASSUME NEW a \in P PROVE f[a] \in Slots /\ saddr[f[a]] = a
  <2>1. a \in Addr /\ hosts[a] # Absent
      BY DEF Map!Present
  <2>2. \E i \in Slots : saddr[i] = a
      BY <2>1, HostsAbsent
  <2> QED BY <2>2
<1>2. f \in Injection(P, Slots)
  <2>1. \A a, b \in P : f[a] = f[b] => a = b
      BY <1>1
  <2>2. f \in [P -> Slots]
      BY <1>1
  <2> QED BY <2>1, <2>2 DEF Injection, IsInjective
<1>3. IsFiniteSet(Slots) /\ Cardinality(Slots) = BktSz
  <2>1. BktSz \in Nat \ {0} /\ 0 \in Int /\ BktSz - 1 \in Int
      BY TableAssumption
  <2> QED BY <2>1, FS_Interval DEF Slots
<1> HIDE DEF P, f
<1>4. Cardinality(P) <= Cardinality(Slots)
    BY <1>2, <1>3, FS_Injection
<1> QED BY <1>3, <1>4 DEF P

(* Every step of the bucket is a step of the map, or leaves it as it is.    *)
(* The capacity of the map is dealt with apart.                             *)
MapStep ==
    \/ \E a \in Addr : \/ Map!Learn(a) \/ Map!Forget(a)
                       \/ \E p \in Map!NONE + 1 .. Map!STATIC :
                             Map!Authorise(a, p)
    \/ Map!Withdraw
    \/ hosts' = hosts

(* The last store of a new entry makes its host known, with the priority    *)
(* its writer wants.                                                        *)
LEMMA CompleteMaps ==
    ASSUME IInv, IInv', NEW c \in CPU, pc[c] = "fill_ptr",
           pc' = [pc EXCEPT ![c] = "release"],
           UNCHANGED <<saddr, pri, hidx>>
    PROVE  MapStep
<1> DEFINE k == hidx[c]
<1> USE DEF IInv, TypeOK
<1>1. k \in Slots /\ InFill(k) /\ pri[k] = want[c] /\ want[c] \in Priority
    BY DEF IndexValid, FillInv, InFill, Filling
<1>2. ~InFill(k)'
    BY DEF InFill, BucketMutex, Holding, Filling
<1>3. \A i \in Slots \ {k} : Live(i)' <=> Live(i)
    BY DEF Live, InFill, Filling
<1>4. CASE saddr[k] = NoAddr
  <2>1. ~Live(k) /\ ~Live(k)'
      BY <1>4 DEF Live
  <2> QED BY <1>3, <2>1, HostsSame DEF MapStep
<1>5. CASE saddr[k] \in Addr
  <2>1. /\ hosts[saddr[k]] = Value(k)
        /\ hosts' = [hosts EXCEPT ![saddr[k]] = Value(k)']
      BY <1>1, <1>3, <1>5, HostsOne
  <2>2. Value(k) = Absent /\ Value(k)' = want[c]
      BY <1>1, <1>2, <1>5, TableAssumption DEF Value, Live
  <2>3. CASE want[c] = HOST_PRI_NONE
    <3>1. Map!Learn(saddr[k])
        BY <2>1, <2>2, <2>3 DEF Map!Learn, Map!NONE
    <3> QED BY <1>5, <3>1 DEF MapStep
  <2>4. CASE want[c] # HOST_PRI_NONE
    <3>1. want[c] \in Map!NONE + 1 .. Map!STATIC
        BY <1>1, <2>4 DEF Map!NONE, Map!STATIC, Priority
    <3>2. Map!Authorise(saddr[k], want[c])
        BY <2>1, <2>2 DEF Map!Authorise
    <3> QED BY <1>5, <3>1, <3>2 DEF MapStep
  <2> QED BY <2>3, <2>4
<1> QED BY <1>1, <1>4, <1>5

(* An eviction forgets an unauthorised host. *)
LEMMA EvictMaps ==
    ASSUME IInv, IInv', NEW c \in CPU, Evict(c)
    PROVE  MapStep
<1> USE DEF IInv, TypeOK
<1>1. PICK k \in Slots : /\ pri[k] <= AllocPriority
                         /\ hidx' = [hidx EXCEPT ![c] = k]
    BY DEF Evict
<1>2. saddr' = saddr /\ pri' = pri /\ pc' = [pc EXCEPT ![c] = "fill"]
    BY DEF Evict, table, Goto
<1>3. pri[k] = HOST_PRI_NONE
  <2>1. pri[k] \in 0 .. 3 /\ pri[k] <= 0
      BY <1>1 DEF AllocPriority, Priority
  <2> QED BY <2>1
<1>4. \A i \in Slots : ~InFill(i)
    BY DEF InFill, Evict, BucketMutex, Holding, Filling
<1>5. InFill(k)' /\ \A i \in Slots \ {k} : ~InFill(i)'
  <2>1. InFill(k)'
      BY <1>1, <1>2 DEF InFill, Filling
  <2>2. ASSUME NEW i \in Slots, i # k PROVE ~InFill(i)'
      BY <2>2, <1>1, <1>2, <1>4 DEF InFill, Filling
  <2> QED BY <2>1, <2>2
<1>6. \A i \in Slots \ {k} : Live(i)' <=> Live(i)
    BY <1>2, <1>4, <1>5 DEF Live
<1>7. CASE saddr[k] = NoAddr
  <2>1. ~Live(k) /\ ~Live(k)'
      BY <1>2, <1>7 DEF Live
  <2> QED BY <1>2, <1>6, <2>1, HostsSame DEF MapStep
<1>8. CASE saddr[k] \in Addr
  <2>1. /\ hosts[saddr[k]] = Value(k)
        /\ hosts' = [hosts EXCEPT ![saddr[k]] = Value(k)']
      BY <1>2, <1>6, <1>8, HostsOne
  <2>2. Value(k) = HOST_PRI_NONE /\ Value(k)' = Absent
      BY <1>3, <1>4, <1>5, <1>8, TableAssumption DEF Value, Live
  <2>3. Map!Forget(saddr[k])
      BY <2>1, <2>2 DEF Map!Forget, Map!NONE
  <2> QED BY <1>8, <2>3 DEF MapStep
<1> QED BY <1>7, <1>8

(* A repeated authorisation raises the priority of a host or changes nothing. *)
LEMMA FoundMaps ==
    ASSUME IInv, IInv', NEW c \in CPU, Found(c)
    PROVE  MapStep
<1> USE DEF IInv, TypeOK
<1>1. PICK k \in Slots :
        pri' = [pri EXCEPT ![k] = IF @ < want[c] THEN want[c] ELSE @]
    BY DEF Found
<1>2. saddr' = saddr /\ pc' = [pc EXCEPT ![c] = "release"]
    BY DEF Found, Goto
<1>3. \A i \in Slots : ~InFill(i) /\ ~InFill(i)'
  <2>1. \A d \in CPU : pc[d] \notin Filling /\ pc'[d] \notin Filling
      BY <1>2 DEF Found, BucketMutex, Holding, Filling
  <2> QED BY <2>1 DEF InFill
<1>4. \A i \in Slots : Live(i)' <=> Live(i)
    BY <1>2, <1>3 DEF Live
<1>5. CASE pri[k] < want[c] /\ saddr[k] \in Addr
  <2>1. \A i \in Slots \ {k} : pri'[i] = pri[i]
      BY <1>1
  <2>2. /\ hosts[saddr[k]] = Value(k)
        /\ hosts' = [hosts EXCEPT ![saddr[k]] = Value(k)']
      BY <1>2, <1>4, <1>5, <2>1, HostsOne
  <2>3. Value(k) = pri[k] /\ Value(k)' = want[c]
    <3>1. pri'[k] = want[c]
        BY <1>1, <1>5
    <3> QED BY <1>2, <1>3, <1>5, <3>1, TableAssumption DEF Value, Live
  <2>4. want[c] \in Map!NONE + 1 .. Map!STATIC
    <3>1. pri[k] \in 0 .. 3 /\ want[c] \in 0 .. 3 /\ pri[k] < want[c]
        BY <1>5 DEF Priority
    <3> QED BY <3>1 DEF Map!NONE, Map!STATIC
  <2>5. Map!Authorise(saddr[k], want[c])
      BY <1>5, <2>2, <2>3 DEF Map!Authorise
  <2> QED BY <1>5, <2>4, <2>5 DEF MapStep
<1>6. CASE ~(pri[k] < want[c])
  <2>1. pri' = pri
      BY <1>1, <1>6
  <2> QED BY <1>2, <1>4, <2>1, HostsSame DEF MapStep
<1>7. CASE saddr[k] = NoAddr
  <2>1. \A i \in Slots : Live(i) => i # k
      BY <1>7 DEF Live
  <2>2. \A i \in Slots : Live(i) => saddr'[i] = saddr[i] /\ pri'[i] = pri[i]
      BY <1>1, <1>2, <2>1
  <2> QED BY <1>4, <2>2, HostsSame DEF MapStep
<1> QED BY <1>5, <1>6, <1>7

(* Clearing the static hosts of the bucket withdraws them from the map. *)
LEMMA ConfigureMaps ==
    ASSUME IInv, IInv', Configure
    PROVE  MapStep
<1> USE DEF IInv, TypeOK
<1>1. /\ saddr' = [i \in Slots |->
                     IF pri[i] = HOST_PRI_STATIC THEN NoAddr ELSE saddr[i]]
      /\ pri' = pri
    BY DEF Configure, ClearedSlots
<1>2. \A i \in Slots : ~InFill(i) /\ ~InFill(i)'
    BY DEF Configure, Quiet, InFill, Filling
<1>3. ASSUME NEW a \in Addr
      PROVE  hosts'[a] = IF hosts[a] = 3 THEN Absent ELSE hosts[a]
  <2>0. a # NoAddr
      BY TableAssumption
  <2>1. CASE \E i \in Slots : saddr[i] = a
    <3>1. PICK i \in Slots : saddr[i] = a
        BY <2>1
    <3>2. Live(i) /\ hosts[a] = pri[i]
        BY <2>0, <3>1, <1>2, HostsLive DEF Live
    <3>3. CASE pri[i] = 3
      <4>1. \A j \in Slots : saddr'[j] # a
          BY <2>0, <3>1, <3>3, <1>1 DEF NoDuplicateKeys
      <4>2. hosts'[a] = Absent
          BY <4>1, HostsAbsentNext
      <4> QED BY <3>2, <3>3, <4>2
    <3>4. CASE pri[i] # 3
      <4>1. saddr'[i] = a /\ Live(i)' /\ pri'[i] = pri[i]
          BY <2>0, <3>1, <3>4, <1>1, <1>2 DEF Live
      <4>2. hosts'[a] = pri[i]
          BY <4>1, HostsLiveNext
      <4> QED BY <3>2, <3>4, <4>2
    <3> QED BY <3>3, <3>4
  <2>2. CASE \A i \in Slots : saddr[i] # a
    <3>1. \A i \in Slots : saddr'[i] # a
        BY <2>0, <2>2, <1>1
    <3>2. hosts[a] = Absent /\ hosts'[a] = Absent
        BY <2>2, <3>1, HostsAbsent, HostsAbsentNext
    <3> QED BY <3>2 DEF Absent
  <2> QED BY <2>1, <2>2
<1>4. hosts' = [a \in Addr |-> IF hosts[a] = 3 THEN Absent ELSE hosts[a]]
    BY <1>3 DEF hosts
<1> DEFINE W == {a \in Addr : hosts[a] = 3}
<1>5. W \in SUBSET Map!Present(hosts) /\ \A a \in W : hosts[a] # 0
    BY DEF Map!Present, Absent
<1>6. hosts' = [a \in Addr |-> IF a \in W THEN Absent ELSE hosts[a]]
    BY <1>4
<1> HIDE DEF W
<1>7. {a \in Addr : hosts[a] = 3} \subseteq W
    BY DEF W
<1> QED BY <1>5, <1>6, <1>7 DEF MapStep, Map!Withdraw, Map!STATIC, Map!NONE

(* Each step maps to a step of HostMap or to none. *)
LEMMA StepMaps ==
    ASSUME IInv, IInv', [Next]_vars
    PROVE  MapStep
<1> USE DEF Writer, Holding, Filling, Goto, Done, pool, time, frame, table
<1>0. TypeOK /\ IndexValid /\ BucketMutex /\ NoDuplicateKeys /\ NoDuplicateKeys'
      /\ AuthInv
    BY DEF IInv
<1>a. ASSUME \A i \in Slots : Live(i)' <=> Live(i),
             \A i \in Slots :
               Live(i) => saddr'[i] = saddr[i] /\ pri'[i] = pri[i]
      PROVE  MapStep
    BY <1>0, <1>a, HostsSame DEF MapStep
<1>1. CASE Aside
  <2>1. saddr' = saddr /\ pri' = pri
      BY <1>1 DEF Aside
  <2>2. \A i \in Slots : Live(i)' <=> Live(i)
      BY <1>1, <2>1, AsideFill DEF Live
  <2> QED BY <2>1, <2>2, <1>a
<1>2. ASSUME NEW c \in CPU, Acquire(c) PROVE MapStep
    BY <1>0, <1>2, <1>a DEF Acquire, Live, InFill, TypeOK
<1>3. ASSUME NEW c \in CPU, Found(c) PROVE MapStep
    BY <1>3, FoundMaps
<1>4. ASSUME NEW c \in CPU, TakeFree(c) PROVE MapStep
    BY <1>0, <1>4, <1>a DEF TakeFree, Hit, Live, InFill, TypeOK
<1>5. ASSUME NEW c \in CPU, Evict(c) PROVE MapStep
    BY <1>5, EvictMaps
<1>6. ASSUME NEW c \in CPU, NoEntry(c) PROVE MapStep
    BY <1>0, <1>6, <1>a DEF NoEntry, Live, InFill, TypeOK
<1>7. ASSUME NEW c \in CPU, StoreKey(c) PROVE MapStep
    BY <1>0, <1>7, <1>a DEF StoreKey, Live, InFill, TypeOK
<1>8. ASSUME NEW c \in CPU, StoreCtrl(c) PROVE MapStep
    BY <1>0, <1>8, <1>a DEF StoreCtrl, Live, InFill, TypeOK
<1>9. ASSUME NEW c \in CPU, StorePtrNew(c) PROVE MapStep
    BY <1>9, CompleteMaps DEF StorePtrNew
<1>10. ASSUME NEW c \in CPU, StorePtrNone(c) PROVE MapStep
    BY <1>10, CompleteMaps DEF StorePtrNone
<1>11. ASSUME NEW c \in CPU, ReleaseToCharge(c) PROVE MapStep
    BY <1>0, <1>11, <1>a DEF ReleaseToCharge, Live, InFill, TypeOK
<1>12. ASSUME NEW c \in CPU, ReleaseAndReturn(c) PROVE MapStep
    BY <1>0, <1>12, <1>a DEF ReleaseAndReturn, Live, InFill, TypeOK
<1>13. CASE Configure
    BY <1>13, ConfigureMaps
<1> QED BY <1>0, <1>1, <1>2, <1>3, <1>4, <1>5, <1>6, <1>7, <1>8, <1>9, <1>10,
           <1>11, <1>12, <1>13, StepKinds

-----------------------------------------------------------------------------
(* The empty table satisfies the invariant. *)
LEMMA InductiveInit == Init => IInv
<1> SUFFICES ASSUME Init PROVE IInv
    OBVIOUS
<1>1. TypeOK /\ IndexValid /\ BucketMutex
    BY TypeInit, MutexInit
<1>2. NoDuplicateKeys /\ FillInv /\ AuthInv /\ PtrInv
    BY DEF Init, NoDuplicateKeys, FillInv, AuthInv, PtrInv, Unauthorised
<1>3. ChargeInv /\ ChargesApart
    BY DEF Init, ChargeInv, ChargesApart
<1> QED BY <1>1, <1>2, <1>3 DEF IInv

(* Every step keeps the invariant, each part by its own lemma. *)
LEMMA InductiveStep == IInv /\ [Next]_vars => IInv'
BY TypeStep, IndexStep, MutexStep, KeysStep, FillStep, AuthStep, PtrStep,
   ChargeStep DEF IInv

(* IInv is an inductive invariant of HostTable. *)
THEOREM Inductive == Spec => []IInv
BY InductiveInit, InductiveStep, PTL DEF Spec

(* No variable leaves its type: the 18-bit pointer field never overflows,   *)
(* whatever host_allocate counts to.                                        *)
THEOREM TypeCorrect == Spec => []TypeOK
BY Inductive, PTL DEF IInv

(* No failed lookup or insert (-1) is used to index the bucket in ntfe_rx,  *)
(* ntfe_tx or a writer.                                                     *)
THEOREM IndexCorrect == Spec => []IndexValid
BY Inductive, PTL DEF IInv

(* spin_acquire and spin_release: one writer per bucket. *)
THEOREM MutexCorrect == Spec => []BucketMutex
BY Inductive, PTL DEF IInv

(* No address ever has two entries. *)
THEOREM KeysUnique == Spec => []NoDuplicateKeys
BY Inductive, PTL DEF IInv

(* A quiet bucket shows an authorised class only for an authorised address. *)
THEOREM AuthCorrect == Spec => []QuiescentAuth
<1>1. IInv => QuiescentAuth
    BY DEF IInv, AuthInv, BucketMutex, QuiescentAuth, InFill, Holding
<1> QED BY <1>1, Inductive, PTL

(* Unauthorised hosts have a state each, until the pointer field wraps. *)
THEOREM StatesCorrect == Spec => []StatesNotShared
<1>1. IInv => StatesNotShared
  <2> SUFFICES ASSUME IInv, hp_size < PtrMod
               PROVE  \A i \in Slots : Unauthorised(i) =>
                        /\ ptr[i] # 0
                        /\ \A j \in Slots :
                             Unauthorised(j) /\ ptr[i] = ptr[j] => i = j
      BY DEF StatesNotShared
  <2>1. 0 \notin 1 .. hp_size
      OBVIOUS
  <2> QED BY <2>1 DEF IInv, PtrInv
<1> QED BY <1>1, Inductive, PTL

(* host_charge_packet: a lock that allocate clears under a running charge is *)
(* never the lock of a state some unauthorised host still owns.             *)
THEOREM ChargesCorrect == Spec => []ChargesApart
BY Inductive, PTL DEF IInv

(* Authorised hosts are never evicted or downgraded by the data path. *)
THEOREM AuthorizedStay == Spec => AuthorizedKept
<1>1. IInv /\ [Next]_vars => [mode' = mode => AuthHosts \subseteq AuthHosts']_vars
    BY KeptStep
<1> QED BY <1>1, Inductive, PTL DEF Spec, AuthorizedKept

(* allocate evicts first-in first-out by real time, as its comment intends, *)
(* except for what an 11-bit age cannot tell and the skew of the CPUs' time. *)
THEOREM OldestEvicted == Spec => EvictsOldest
<1>1. Init => AgeInv
  <2>1. 0 % AgeMod = 0
      BY TableAssumption, ModSmall
  <2> QED BY <2>1 DEF Init, AgeInv
<1>2. IInv /\ AgeInv /\ [Next]_vars => AgeInv'
    BY AgeStep DEF IInv
<1>3. IInv /\ AgeInv /\ [Next]_vars =>
        [\A c \in CPU : Evict(c) =>
           \A j \in Slots :
              /\ pri[j] = HOST_PRI_NONE
              /\ born[j] < born[hidx'[c]]
              => \/ ts[c] - born[j] >= AgeMod
                 \/ born[hidx'[c]] > ts[c]]_vars
    BY VictimOldest DEF IInv
<1> QED BY <1>1, <1>2, <1>3, Inductive, PTL DEF Spec, EvictsOldest

(* What carries the exhausted bit: no received frame inserts address 0. *)
LEMMA FullInv == Spec => [](KeyInv /\ ExhaustedMeansFull)
<1>1. Init => KeyInv /\ ExhaustedMeansFull
    BY DEF Init, KeyInv, ExhaustedMeansFull
<1>2. /\ IInv /\ KeyInv /\ ExhaustedMeansFull /\ [Next]_vars
      => (KeyInv /\ ExhaustedMeansFull)'
    BY KeyStep, FullStep DEF IInv
<1> QED BY <1>1, <1>2, Inductive, PTL DEF Spec

(* The exhausted bit is set only on a full bucket, so host_insert never     *)
(* evicts while an entry is free: the one entry that may look free belongs  *)
(* to a host 0 that ntfe_tx or ntfe_configure authorised.                   *)
THEOREM FullCorrect == Spec => []ExhaustedMeansFull
BY FullInv, PTL

(* The harm of an unlocked lookup is what its warning says it is. *)
THEOREM SpuriousAccepts == Spec => SpuriousAcceptIsRacy
<1>1. IInv /\ KeyInv =>
        \A c \in CPU : RxAuthorized(c) =>
          \/ key[c] \in authd
          \/ lock
          \/ saddr[hidx[c]] # key[c]
  <2> SUFFICES ASSUME IInv, KeyInv, NEW c \in CPU, RxAuthorized(c), ~lock,
                      saddr[hidx[c]] = key[c]
               PROVE  key[c] \in authd
      OBVIOUS
  <2>1. hidx[c] \in Slots /\ key[c] # NoAddr /\ pri[hidx[c]] # HOST_PRI_NONE
    <3>1. pc[c] = "rx_pri" /\ want[c] = HOST_PRI_NONE
        BY DEF IInv, AuthInv, RxAuthorized, Holding, Filling
    <3> QED BY <3>1 DEF IInv, IndexValid, KeyInv, RxAuthorized
  <2>2. ~InFill(hidx[c])
      BY DEF IInv, BucketMutex, InFill, Holding
  <2> QED BY <2>1, <2>2 DEF IInv, AuthInv
<1> QED BY <1>1, Inductive, FullInv, PTL DEF Spec, SpuriousAcceptIsRacy

(* host_lookup, host_insert and host_insert_authorized, whatever the CPUs   *)
(* do between their stores, are one bounded map that forgets nobody but     *)
(* unauthorised hosts, and never holds more hosts than the bucket entries.  *)
THEOREM ImplementsMap == Spec => ImplementsHostMap
<1>1. Init => Map!Init
  <2> SUFFICES ASSUME Init PROVE hosts = [a \in Addr |-> Absent]
      BY DEF Map!Init
  <2>1. \A a \in Addr, i \in Slots : saddr[i] # a
      BY TableAssumption DEF Init
  <2>2. \A a \in Addr : hosts[a] = Absent
      BY <2>1, HostsAbsent
  <2> QED BY <2>2 DEF hosts
<1>2. IInv /\ IInv' /\ (Cardinality(Map!Present(hosts)) <= BktSz)'
        /\ [Next]_vars => [Map!Next]_(Map!hvars)
  <2> SUFFICES ASSUME IInv, IInv', [Next]_vars,
                      (Cardinality(Map!Present(hosts)) <= BktSz)'
               PROVE  [Map!Next]_(Map!hvars)
      OBVIOUS
  <2>1. Map!Cardinality(Map!Present(hosts')) <= BktSz
    <3>1. Cardinality(Map!Present(hosts')) <= BktSz
        BY DEF Map!Present
    <3>2. \A S : Map!Cardinality(S) = Cardinality(S)
        BY DEF Map!Cardinality, Cardinality
    <3> QED BY <3>1, <3>2
  <2>2. MapStep
      BY StepMaps
  <2>3. CASE hosts' = hosts
      BY <2>3 DEF Map!hvars
  <2>4. CASE Map!Withdraw
      BY <2>1, <2>4 DEF Map!Next
  <2>5. CASE \E a \in Addr : \/ Map!Learn(a) \/ Map!Forget(a)
                            \/ \E p \in Map!NONE + 1 .. Map!STATIC :
                                  Map!Authorise(a, p)
      BY <2>1, <2>5 DEF Map!Next
  <2> QED BY <2>2, <2>3, <2>4, <2>5 DEF MapStep
<1>3. IInv => Cardinality(Map!Present(hosts)) <= BktSz
    BY PresentBound DEF IInv
<1> QED BY <1>1, <1>2, <1>3, InductiveInit, InductiveStep, PTL
        DEF Spec, ImplementsHostMap, Map!Spec

=============================================================================
