--------------------------- MODULE SpinlockProofs ---------------------------
(***************************************************************************)
(* Proofs about Spinlock: mutual exclusion for every timing of the two     *)
(* processors, and no orphaned lock under the minimum hold time that       *)
(* spinlock_asm.h asks for.                                                *)
(***************************************************************************)
EXTENDS Spinlock, TLAPS

(* What a processor that lost the race will put back is the other's value. *)
SwapBackIsOwner == \A c \in Cpu : pc[c] = "swapback" => r2[c] = Other(c)

(* The word names the owner, except while a contender is swapping it back. *)
OwnerOnWord ==
  \A c \in Cpu : Locked(c) => word = c \/ pc[Other(c)] = "swapback"

MutexInv == TypeOK /\ SwapBackIsOwner /\ OwnerOnWord /\ MutualExclusion

(* With the minimum hold, a contender can only lose against an owner that   *)
(* is still in its section, and a release meets no contender.               *)
HoldInv ==
  /\ \A c \in Cpu : pc[c] = "swapback" => pc[Other(c)] = "holding"
  /\ \A c \in Cpu : word = c => Locked(c) \/ pc[c] = "swapback"
  /\ \A c \in Cpu : pc[c] \in {"rel_ldr", "rel_swp"} =>
        word = c /\ pc[Other(c)] \notin {"swp", "swapback"}
  /\ \A c \in Cpu : pc[c] # "error"

USE DEF Cpu, ARM7, ARM9, Other, SPINLOCK_OWNER_NOBODY, Points, lockVars

(* Every step of either processor keeps the mutual exclusion invariant.     *)
LEMMA MutexStep == MutexInv /\ [Next]_vars => MutexInv'
<1> SUFFICES ASSUME MutexInv, [Next]_vars PROVE MutexInv'
  OBVIOUS
<1> USE DEF MutexInv, TypeOK, SwapBackIsOwner, OwnerOnWord, MutualExclusion, Locked, Goto
<1>1. CASE UNCHANGED vars
  BY <1>1 DEF vars
<1>2. ASSUME NEW c \in Cpu, BeginAcquire(c) PROVE MutexInv'
  BY <1>2 DEF BeginAcquire
<1>3. ASSUME NEW c \in Cpu, AcquireLdr(c) PROVE MutexInv'
  BY <1>3 DEF AcquireLdr
<1>4. ASSUME NEW c \in Cpu, AcquireSwp(c) PROVE MutexInv'
  BY <1>4 DEF AcquireSwp
<1>5. ASSUME NEW c \in Cpu, AcquireSwapBack(c) PROVE MutexInv'
  BY <1>5 DEF AcquireSwapBack
<1>6. ASSUME NEW c \in Cpu, Retry(c) \/ GiveUp(c) PROVE MutexInv'
  BY <1>6 DEF Retry, GiveUp
<1>7. ASSUME NEW c \in Cpu, BeginRelease(c) PROVE MutexInv'
  BY <1>7 DEF BeginRelease
<1>8. ASSUME NEW c \in Cpu, ReleaseLdr(c) PROVE MutexInv'
  BY <1>8 DEF ReleaseLdr
<1>9. ASSUME NEW c \in Cpu, ReleaseSwp(c) PROVE MutexInv'
  BY <1>9 DEF ReleaseSwp
<1>10. ASSUME NEW c \in Cpu, IgnoreError(c) PROVE MutexInv'
  BY <1>10 DEF IgnoreError
<1>11. QED
  BY <1>1, <1>2, <1>3, <1>4, <1>5, <1>6, <1>7, <1>8, <1>9, <1>10
     DEF Next, Acquire, Release

(* The lock code never lets both processors in, however short the sections  *)
(* and however the accesses to the lock word interleave.                    *)
THEOREM SpinlockMutualExclusion == Spec => [](TypeOK /\ MutualExclusion)
<1>1. Init => MutexInv
  BY DEF Init, MutexInv, TypeOK, SwapBackIsOwner, OwnerOnWord, MutualExclusion, Locked
<1>2. MutexInv => TypeOK /\ MutualExclusion
  BY DEF MutexInv
<1>3. QED
  BY <1>1, <1>2, MutexStep, PTL DEF Spec

(* If every section lasts longer than a contender's failed attempt, a       *)
(* released lock is free and no release meets a foreign value.              *)
THEOREM SpinlockNoOrphan == Spec => [](NoOrphanedLock /\ (hold => ReleaseNeverFails))
<1>1. Init => MutexInv /\ HoldInv
  BY DEF Init, MutexInv, HoldInv, TypeOK, SwapBackIsOwner, OwnerOnWord,
         MutualExclusion, Locked
<1>2. ASSUME MutexInv, HoldInv, [Next]_vars, hold PROVE HoldInv'
  <2> USE <1>2 DEF MutexInv, HoldInv, TypeOK, SwapBackIsOwner, OwnerOnWord,
          MutualExclusion, Locked, Goto
  <2>1. CASE UNCHANGED vars
    BY <2>1 DEF vars
  <2>2. ASSUME NEW c \in Cpu, BeginAcquire(c) PROVE HoldInv'
    BY <2>2 DEF BeginAcquire
  <2>3. ASSUME NEW c \in Cpu, AcquireLdr(c) PROVE HoldInv'
    BY <2>3 DEF AcquireLdr
  <2>4. ASSUME NEW c \in Cpu, AcquireSwp(c) PROVE HoldInv'
    BY <2>4 DEF AcquireSwp
  <2>5. ASSUME NEW c \in Cpu, AcquireSwapBack(c) PROVE HoldInv'
    BY <2>5 DEF AcquireSwapBack
  <2>6. ASSUME NEW c \in Cpu, Retry(c) PROVE HoldInv'
    BY <2>6 DEF Retry
  <2>7. ASSUME NEW c \in Cpu, GiveUp(c) PROVE HoldInv'
    BY <2>7 DEF GiveUp
  <2>8. ASSUME NEW c \in Cpu, BeginRelease(c) PROVE HoldInv'
    BY <2>8 DEF BeginRelease
  <2>9. ASSUME NEW c \in Cpu, ReleaseLdr(c) PROVE HoldInv'
    BY <2>9 DEF ReleaseLdr
  <2>10. ASSUME NEW c \in Cpu, ReleaseSwp(c) PROVE HoldInv'
    BY <2>10 DEF ReleaseSwp
  <2>11. ASSUME NEW c \in Cpu, IgnoreError(c) PROVE HoldInv'
    BY <2>11 DEF IgnoreError
  <2>12. QED
    BY <2>1, <2>2, <2>3, <2>4, <2>5, <2>6, <2>7, <2>8, <2>9, <2>10, <2>11
       DEF Next, Acquire, Release
<1>3. [Next]_vars => hold' = hold
  BY DEF Next, vars, BeginAcquire, Acquire, AcquireLdr, AcquireSwp, AcquireSwapBack,
         Retry, GiveUp, Release, BeginRelease,
         ReleaseLdr, ReleaseSwp, IgnoreError
<1>4. MutexInv /\ (hold => HoldInv) => NoOrphanedLock /\ (hold => ReleaseNeverFails)
  BY DEF MutexInv, HoldInv, TypeOK, NoOrphanedLock, Locked, ReleaseNeverFails
<1>5. MutexInv /\ (hold => HoldInv) /\ [Next]_vars => (hold => HoldInv)'
  BY <1>2, <1>3
<1>6. QED
  BY <1>1, <1>4, <1>5, MutexStep, PTL DEF Spec

=============================================================================
