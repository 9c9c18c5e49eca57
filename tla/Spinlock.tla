------------------------------ MODULE Spinlock ------------------------------
(***************************************************************************)
(* The inter-processor lock of src/source/common/spinlock.s.  The ARM7 and *)
(* the ARM9 share one 32-bit lock word in main RAM and take it with the    *)
(* SWP instruction.  Every step below is one access to the lock word, so   *)
(* the two processors interleave between any two of them.                  *)
(*                                                                         *)
(* A processor that loses the race for a free lock has, for a moment,      *)
(* overwritten the owner's value with its own; it swaps the owner's value  *)
(* back.  SLasm_Release does not expect to see that foreign value.         *)
(***************************************************************************)
EXTENDS Naturals

VARIABLES
  word,   \* the u32 "spinlock" field of the locked struct
  pc,     \* the instruction each processor is about to execute
  r2,     \* the value the processor's last SWP returned
  hold    \* TRUE: the callers keep to the "delay of at least about ~10-20
          \* cycles between a lock and unlock" that spinlock_asm.h asks for

vars == <<word, pc, r2, hold>>
lockVars == <<word, r2, hold>>

(* SPINLOCK_OWNER_ARM7 = 1 and SPINLOCK_OWNER_ARM9 = 2 name the processors. *)
SPINLOCK_OWNER_NOBODY == 0
ARM7 == 1
ARM9 == 2
Cpu == {ARM7, ARM9}
Other(c) == 3 - c

Points == {"outside", "ldr", "swp", "swapback", "inuse", "holding",
           "rel_ldr", "rel_swp", "error"}

Init ==
  /\ word = SPINLOCK_OWNER_NOBODY
  /\ pc = [c \in Cpu |-> "outside"]
  /\ r2 = [c \in Cpu |-> SPINLOCK_OWNER_NOBODY]
  /\ hold \in BOOLEAN

Goto(c, point) == pc' = [pc EXCEPT ![c] = point]

(* A caller masks interrupts and calls Spinlock_Acquire. *)
BeginAcquire(c) ==
  /\ pc[c] = "outside"
  /\ Goto(c, "ldr")
  /\ UNCHANGED lockVars

(* ldr r2, [r0]: SPINLOCK_INUSE unless the word is free *)
AcquireLdr(c) ==
  /\ pc[c] = "ldr"
  /\ Goto(c, IF word = SPINLOCK_OWNER_NOBODY THEN "swp" ELSE "inuse")
  /\ UNCHANGED lockVars

(* Faulty variant: the result is not checked *)
AcquireUnchecked(c) ==
  /\ pc[c] = "swp"
  /\ word' = c
  /\ r2' = [r2 EXCEPT ![c] = word]
  /\ Goto(c, "holding")
  /\ UNCHANGED hold

(* swp r2, r2, [r0]: SPINLOCK_OK if it was free (or already ours) *)
AcquireSwp(c) ==
  /\ pc[c] = "swp"
  /\ word' = c
  /\ r2' = [r2 EXCEPT ![c] = word]
  /\ Goto(c, IF word \in {SPINLOCK_OWNER_NOBODY, c} THEN "holding" ELSE "swapback")
  /\ UNCHANGED hold

(* Faulty variant: the loser of the race keeps its own value in the word *)
NoSwapBack(c) ==
  /\ pc[c] = "swapback"
  /\ Goto(c, "inuse")
  /\ UNCHANGED lockVars

(* The second swp: put the other owner's value back, SPINLOCK_INUSE *)
AcquireSwapBack(c) ==
  /\ pc[c] = "swapback"
  /\ word' = r2[c]
  /\ r2' = [r2 EXCEPT ![c] = word]
  /\ Goto(c, "inuse")
  /\ UNCHANGED hold

(* while (Spinlock_Acquire(...) != SPINLOCK_OK);  of every caller but one *)
Retry(c) ==
  /\ pc[c] = "inuse"
  /\ Goto(c, "ldr")
  /\ UNCHANGED lockVars

(* Wifi_AccessPointAdd tries once and drops the beacon if it fails. *)
GiveUp(c) ==
  /\ pc[c] = "inuse"
  /\ Goto(c, "outside")
  /\ UNCHANGED lockVars

(* The end of the locked section.  With the minimum hold the caller has kept *)
(* the lock for longer than the other processor needs from its LDR to its swap  *)
(* back, so a contender that saw the lock free is done by now.              *)
BeginRelease(c) ==
  /\ pc[c] = "holding"
  /\ hold => pc[Other(c)] \notin {"swp", "swapback"}
  /\ Goto(c, "rel_ldr")
  /\ UNCHANGED lockVars

(* ldr r2, [r0]; cmp r2, r1: SPINLOCK_ERROR if it holds another value *)
ReleaseLdr(c) ==
  /\ pc[c] = "rel_ldr"
  /\ Goto(c, IF word = c THEN "rel_swp" ELSE "error")
  /\ UNCHANGED lockVars

(* Faulty variant: the word is swapped with the owner's own value *)
ReleaseKeeps(c) ==
  /\ pc[c] = "rel_swp"
  /\ Goto(c, "outside")
  /\ UNCHANGED lockVars

(* mov r2, #SPINLOCK_OWNER_NOBODY; swp r2, r2, [r0]; cmp r2, r1 *)
ReleaseSwp(c) ==
  /\ pc[c] = "rel_swp"
  /\ word' = SPINLOCK_OWNER_NOBODY
  /\ r2' = [r2 EXCEPT ![c] = word]
  /\ Goto(c, IF word = c THEN "outside" ELSE "error")
  /\ UNCHANGED hold

(* No caller looks at what Spinlock_Release returns. *)
IgnoreError(c) ==
  /\ pc[c] = "error"
  /\ Goto(c, "outside")
  /\ UNCHANGED lockVars

Acquire(c) == AcquireLdr(c) \/ AcquireSwp(c) \/ AcquireSwapBack(c) \/ Retry(c) \/ GiveUp(c)
Release(c) == BeginRelease(c) \/ ReleaseLdr(c) \/ ReleaseSwp(c) \/ IgnoreError(c)

Next == \E c \in Cpu : BeginAcquire(c) \/ Acquire(c) \/ Release(c)

(* Interrupts are disabled from before Acquire until after Release, so a    *)
(* processor inside the lock code keeps executing.                          *)
Fairness == \A c \in Cpu : WF_vars(Acquire(c) \/ Release(c))

Spec == Init /\ [][Next]_vars /\ Fairness

-----------------------------------------------------------------------------

(* The lock word, the program counters and the registers have their types.  *)
TypeOK ==
  /\ word \in Cpu \cup {SPINLOCK_OWNER_NOBODY}
  /\ pc \in [Cpu -> Points]
  /\ r2 \in [Cpu -> Cpu \cup {SPINLOCK_OWNER_NOBODY}]
  /\ hold \in BOOLEAN

Locked(c) == pc[c] \in {"holding", "rel_ldr", "rel_swp"}

(* The processors are never both between Spinlock_Acquire and               *)
(* Spinlock_Release, whatever the timing.  (Code that writes a locked       *)
(* struct without the lock, as Wifi_MPHost_KickByAID and                    *)
(* Wifi_AccessPointTick do, gains nothing from it.)                         *)
MutualExclusion == ~(Locked(1) /\ Locked(2))

(* A lock that was released is released: if the callers keep to the minimum *)
(* hold time, then once neither processor is inside a locked section or      *)
(* about to settle a lost race, the word is free for the next Acquire.       *)
NoOrphanedLock ==
  hold /\ (\A c \in Cpu : pc[c] \in {"outside", "ldr", "inuse", "error"})
    => word = SPINLOCK_OWNER_NOBODY

(* If a processor calls Spinlock_Acquire, some processor gets the lock: with *)
(* the minimum hold time the spin loops cannot keep each other out for ever. *)
SomeoneGetsIn == (hold /\ \E c \in Cpu : pc[c] = "ldr") ~> (\E c \in Cpu : Locked(c))

(* "if the unlocking side sees the lock incorrectly set, the unlocking side  *)
(* will delay until it has reverted to the correct value, then continue      *)
(* unlocking" (spinlock_asm.h): no release ends with an error.               *)
ReleaseNeverFails == \A c \in Cpu : pc[c] # "error"

=============================================================================
