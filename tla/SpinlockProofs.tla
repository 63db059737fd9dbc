--------------------------- MODULE SpinlockProofs ---------------------------
(***************************************************************************)
(* Mutual exclusion and the discipline of the interrupt flag, for any      *)
(* number of CPUs and locks. The inductive invariant counts: ncli is the   *)
(* number of locks and pushcli's that the running code has, counting those *)
(* under way, so that it is 0 exactly when interrupts may be taken.        *)
(***************************************************************************)
EXTENDS Spinlock, FiniteSetTheorems, TLAPS

Frames == [pc : {"run", "cli"}, lk : Locks \cup {NoLock}, ef : BOOLEAN, hold : {{}}, cli : {0}]

TypeInv ==
  /\ locked \in [Locks -> BOOLEAN] /\ owner \in [Locks -> CPUs \cup {NoCpu}]
  /\ iflag \in [CPUs -> BOOLEAN] /\ ncli \in [CPUs -> Nat] /\ intena \in [CPUs -> BOOLEAN]
  /\ pc \in [CPUs -> Points] /\ lk \in [CPUs -> Locks \cup {NoLock}] /\ ef \in [CPUs -> BOOLEAN]
  /\ hold \in [CPUs -> SUBSET Locks] /\ cli \in [CPUs -> Nat]
  /\ saved \in [CPUs -> Frames \cup {NoFrame}]

\* Points between a pushcli and the lock it was for, or between a lock and its popcli.
Underway(c) == IF pc[c] \in {"check", "spin", "own", "pop"} THEN 1 ELSE 0

CountInv == \A c \in CPUs :
  IsFiniteSet(hold[c]) /\ ncli[c] = Cardinality(hold[c]) + cli[c] + Underway(c)

\* Only ordinary code with ncli = 0 runs with interrupts on, and intena and the flags
\* that pushcli has read remember which code it is.
FlagInv == \A c \in CPUs :
  /\ ncli[c] = 0 => (iflag[c] <=> saved[c] = NoFrame)
  /\ ncli[c] > 0 => ~iflag[c] /\ (intena[c] <=> saved[c] = NoFrame)
  /\ pc[c] = "cli" /\ ncli[c] = 0 => (ef[c] <=> saved[c] = NoFrame)
  /\ saved[c].pc = "cli" => saved[c].ef

PointInv == \A c \in CPUs :
  /\ pc[c] \in {"check", "spin", "own"} => lk[c] \in Locks \ hold[c]
  /\ pc[c] = "cli" => lk[c] \notin hold[c]
  /\ pc[c] = "unlock" => lk[c] \in hold[c]

\* CPU c has won the xchg for l and not yet undone it.
Has(c, l) == l \in hold[c] \/ (pc[c] = "own" /\ lk[c] = l)

LockInv ==
  /\ \A c \in CPUs, l \in Locks : Has(c, l) => locked[l]
  /\ \A c, d \in CPUs, l \in Locks : Has(c, l) /\ Has(d, l) => c = d

OwnerInv == \A c \in CPUs, l \in Locks :
  owner[l] = c <=> l \in hold[c] /\ ~(pc[c] = "unlock" /\ lk[c] = l)

IInv == TypeInv /\ CountInv /\ FlagInv /\ PointInv /\ LockInv /\ OwnerInv /\ ~panicked

-----------------------------------------------------------------------------
\* What taking and giving back a lock does to the count of locks.
LEMMA Counting ==
  ASSUME NEW S, IsFiniteSet(S), NEW x
  PROVE  /\ Cardinality(S) \in Nat /\ (Cardinality(S) = 0 <=> S = {})
         /\ IsFiniteSet(S \cup {x}) /\ (x \notin S => Cardinality(S \cup {x}) = Cardinality(S) + 1)
         /\ IsFiniteSet(S \ {x}) /\ (x \in S => Cardinality(S \ {x}) = Cardinality(S) - 1)
  BY FS_CardinalityType, FS_EmptySet, FS_AddElement, FS_RemoveElement, Zenon

\* initlock, and CPUs that run with interrupts on, satisfy the invariant.
LEMMA InitInv == Init => IInv
  <1>1. Cardinality({}) = 0 /\ IsFiniteSet({})
    BY FS_EmptySet, Zenon
  <1> SUFFICES ASSUME Init PROVE IInv
    OBVIOUS
  <1>2. TypeInv BY Zenon DEF Init, TypeInv, Points
  <1>3. CountInv BY <1>1 DEF Init, CountInv, Underway
  <1>4. FlagInv BY DEF Init, FlagInv, NoFrame
  <1>5. PointInv BY Zenon DEF Init, PointInv
  <1>6. LockInv BY Zenon DEF Init, LockInv, Has
  <1>7. OwnerInv BY LockAssumption, Zenon DEF Init, OwnerInv
  <1> QED BY <1>2, <1>3, <1>4, <1>5, <1>6, <1>7, Zenon DEF IInv, Init

\* The counts of a CPU as the other lemmas use them.
LEMMA Counts ==
  ASSUME IInv, NEW c \in CPUs
  PROVE  /\ IsFiniteSet(hold[c]) /\ Cardinality(hold[c]) \in Nat /\ (Cardinality(hold[c]) = 0 <=> hold[c] = {})
         /\ ncli[c] = Cardinality(hold[c]) + cli[c] + Underway(c) /\ cli[c] \in Nat /\ ncli[c] \in Nat
  <1>1. IsFiniteSet(hold[c]) /\ ncli[c] = Cardinality(hold[c]) + cli[c] + Underway(c)
    BY Zenon DEF IInv, CountInv
  <1>2. cli[c] \in Nat /\ ncli[c] \in Nat
    BY Zenon DEF IInv, TypeInv
  <1>3. Cardinality(hold[c]) \in Nat /\ (Cardinality(hold[c]) = 0 <=> hold[c] = {})
    BY <1>1, Counting, Zenon
  <1> QED BY <1>1, <1>2, <1>3, Zenon

\* pushcli reads the flags.
LEMMA pushcli_Inv ==
  ASSUME IInv, NEW c \in CPUs, pushcli(c) PROVE IInv'
  <1>1. TypeInv'
    BY Zenon DEF IInv, TypeInv, Points, pushcli, Goto, cpu
  <1>2. CountInv'
    BY DEF IInv, CountInv, Underway, pushcli, At, Goto, cpu
  <1>3. FlagInv'
    BY Zenon DEF IInv, FlagInv, TypeInv, pushcli, Goto, cpu
  <1>4. PointInv'
    BY LockAssumption, Zenon DEF IInv, PointInv, TypeInv, pushcli, Goto
  <1>5. LockInv'
    <2> SUFFICES ASSUME NEW d \in CPUs, NEW m \in Locks, Has(d, m)' PROVE Has(d, m)
      BY Zenon DEF IInv, LockInv, pushcli
    <2> QED BY DEF Has, pushcli, At, Goto
  <1>6. OwnerInv'
    BY DEF IInv, OwnerInv, pushcli, At, Goto
  <1>7. ~(panicked')
    BY Zenon DEF pushcli, At
  <1> QED BY <1>1, <1>2, <1>3, <1>4, <1>5, <1>6, <1>7, Zenon DEF IInv

\* cli, and the first pushcli records what the flag was.
LEMMA pushcli_cli_Inv ==
  ASSUME IInv, NEW c \in CPUs, pushcli_cli(c) PROVE IInv'
  <1>1. TypeInv'
    BY DEF IInv, TypeInv, Points, pushcli_cli, Goto
  <1>2. CountInv'
    <2> SUFFICES ASSUME NEW d \in CPUs
                 PROVE  IsFiniteSet(hold'[d]) /\ ncli'[d] = Cardinality(hold'[d]) + cli'[d] + Underway(d)'
      BY Zenon DEF CountInv
    <2>1. CASE d = c
      <3>1. hold'[c] = hold[c] /\ IsFiniteSet(hold[c])
        BY Counts, Zenon DEF pushcli_cli
      <3>2. Cardinality(hold[c]) \in Nat /\ ncli[c] = Cardinality(hold[c]) + cli[c] + Underway(c) /\ cli[c] \in Nat
        BY Counts, Zenon
      <3> QED BY <2>1, <3>1, <3>2 DEF IInv, TypeInv, Underway, pushcli_cli, At, Goto
    <2>2. CASE d # c
      BY <2>2, Zenon DEF IInv, CountInv, TypeInv, Underway, pushcli_cli, Goto
    <2> QED BY <2>1, <2>2, Zenon
  <1>3. FlagInv'
    BY DEF IInv, FlagInv, TypeInv, pushcli_cli, At, Goto
  <1>4. PointInv'
    BY DEF IInv, PointInv, TypeInv, pushcli_cli, At, Goto
  <1>5. LockInv'
    <2> SUFFICES ASSUME NEW d \in CPUs, NEW m \in Locks, Has(d, m)' PROVE Has(d, m)
      BY Zenon DEF IInv, LockInv, pushcli_cli
    <2> QED BY Zenon DEF IInv, TypeInv, Has, pushcli_cli, Goto
  <1>6. OwnerInv'
    BY DEF IInv, OwnerInv, TypeInv, pushcli_cli, At, Goto
  <1>7. ~(panicked')
    BY Zenon DEF pushcli_cli, At
  <1> QED BY <1>1, <1>2, <1>3, <1>4, <1>5, <1>6, <1>7, Zenon DEF IInv

\* acquire never finds its own CPU holding the lock.
LEMMA acquire_check_Inv ==
  ASSUME IInv, NEW c \in CPUs, acquire_check(c) PROVE IInv'
  <1>1. TypeInv'
    BY Zenon DEF IInv, TypeInv, Points, acquire_check, Goto, cpu
  <1>2. CountInv'
    BY DEF IInv, CountInv, Underway, acquire_check, At, Goto, cpu
  <1>3. FlagInv'
    BY Zenon DEF IInv, FlagInv, TypeInv, acquire_check, Goto, cpu
  <1>4. PointInv'
    BY DEF IInv, PointInv, acquire_check, At, Goto
  <1>5. LockInv'
    <2> SUFFICES ASSUME NEW d \in CPUs, NEW m \in Locks, Has(d, m)' PROVE Has(d, m)
      BY Zenon DEF IInv, LockInv, acquire_check
    <2> QED BY DEF Has, acquire_check, Goto
  <1>6. OwnerInv'
    BY DEF IInv, OwnerInv, acquire_check, At, Goto
  <1>7. ~(panicked')
    <2>1. ~holding(c, lk[c])
      BY Zenon DEF IInv, PointInv, OwnerInv, holding, acquire_check, At
    <2> QED BY <2>1, Zenon DEF acquire_check
  <1> QED BY <1>1, <1>2, <1>3, <1>4, <1>5, <1>6, <1>7, Zenon DEF IInv

\* The xchg gives the lock to one CPU.
LEMMA acquire_xchg_Inv ==
  ASSUME IInv, NEW c \in CPUs, acquire_xchg(c) PROVE IInv'
  <1>1. TypeInv'
    BY Zenon DEF IInv, TypeInv, Points, acquire_xchg, Goto, cpu
  <1>2. CountInv'
    BY DEF IInv, CountInv, Underway, acquire_xchg, At, Goto, cpu
  <1>3. FlagInv'
    BY Zenon DEF IInv, FlagInv, TypeInv, acquire_xchg, Goto, cpu
  <1>4. PointInv'
    BY DEF IInv, PointInv, acquire_xchg, At, Goto
  <1>5. LockInv'
    <2> SUFFICES ASSUME NEW d \in CPUs, NEW e \in CPUs, NEW m \in Locks, Has(d, m)'
                 PROVE  locked'[m] /\ (Has(e, m)' => d = e)
      BY Zenon DEF LockInv
    <2>1. \A f \in CPUs : Has(f, m)' => Has(f, m) \/ (f = c /\ m = lk[c])
      BY DEF Has, acquire_xchg, Goto
    <2>2. \A f \in CPUs : ~Has(f, lk[c])
      BY Zenon DEF IInv, PointInv, LockInv, acquire_xchg, At
    <2>3. locked'[m] = (IF m = lk[c] THEN TRUE ELSE locked[m])
      BY Zenon DEF IInv, TypeInv, acquire_xchg
    <2> QED BY <2>1, <2>2, <2>3, Zenon DEF IInv, LockInv
  <1>6. OwnerInv'
    BY DEF IInv, OwnerInv, acquire_xchg, At, Goto
  <1>7. ~(panicked')
    BY Zenon DEF acquire_xchg, At
  <1> QED BY <1>1, <1>2, <1>3, <1>4, <1>5, <1>6, <1>7, Zenon DEF IInv

\* The lock is recorded as taken.
LEMMA acquire_own_Inv ==
  ASSUME IInv, NEW c \in CPUs, acquire_own(c) PROVE IInv'
  <1>1. TypeInv'
    BY Zenon DEF IInv, TypeInv, Points, PointInv, acquire_own, At, Goto, cpu
  <1>2. CountInv'
    <2> SUFFICES ASSUME NEW d \in CPUs
                 PROVE  IsFiniteSet(hold'[d]) /\ ncli'[d] = Cardinality(hold'[d]) + cli'[d] + Underway(d)'
      BY Zenon DEF CountInv
    <2>1. CASE d = c
      <3>1. IsFiniteSet(hold'[c]) /\ Cardinality(hold'[c]) = Cardinality(hold[c]) + 1
        <4>1. hold'[c] = hold[c] \cup {lk[c]} /\ lk[c] \notin hold[c]
          BY DEF IInv, TypeInv, PointInv, acquire_own, At
        <4>2. IsFiniteSet(hold[c])
          BY Counts, Zenon
        <4>3. IsFiniteSet(hold[c] \cup {lk[c]}) /\ Cardinality(hold[c] \cup {lk[c]}) = Cardinality(hold[c]) + 1
          BY <4>1, <4>2, Counting, Zenon
        <4> QED BY <4>1, <4>3, Zenon
      <3>2. Cardinality(hold[c]) \in Nat /\ ncli[c] = Cardinality(hold[c]) + cli[c] + Underway(c) /\ cli[c] \in Nat
        BY Counts, Zenon
      <3> QED BY <2>1, <3>1, <3>2 DEF IInv, TypeInv, Underway, acquire_own, At, Goto, cpu
    <2>2. CASE d # c
      BY <2>2 DEF IInv, CountInv, Underway, acquire_own, Goto, cpu
    <2> QED BY <2>1, <2>2, Zenon
  <1>3. FlagInv'
    BY Zenon DEF IInv, FlagInv, TypeInv, acquire_own, Goto, cpu
  <1>4. PointInv'
    BY Zenon DEF IInv, PointInv, TypeInv, acquire_own, Goto
  <1>5. LockInv'
    <2> SUFFICES ASSUME NEW d \in CPUs, NEW e \in CPUs, NEW m \in Locks, Has(d, m)'
                 PROVE  locked'[m] /\ (Has(e, m)' => d = e)
      BY Zenon DEF LockInv
    <2>1. \A f \in CPUs : Has(f, m)' => Has(f, m)
      BY Zenon DEF IInv, TypeInv, Has, acquire_own, At, Goto
    <2> QED BY <2>1, Zenon DEF IInv, LockInv, acquire_own
  <1>6. OwnerInv'
    <2> SUFFICES ASSUME NEW d \in CPUs, NEW m \in Locks
                 PROVE  owner'[m] = d <=> m \in hold'[d] /\ ~(pc'[d] = "unlock" /\ lk'[d] = m)
      BY Zenon DEF OwnerInv
    <2>1. CASE m = lk[c]
      <3>1. d # c => m \notin hold[d]
        BY <2>1, Zenon DEF IInv, LockInv, Has, acquire_own, At
      <3> QED BY <2>1, <3>1, Zenon DEF IInv, TypeInv, acquire_own, Goto
    <2>2. CASE m # lk[c]
      BY <2>2 DEF IInv, OwnerInv, acquire_own, At, Goto
    <2> QED BY <2>1, <2>2, Zenon
  <1>7. ~(panicked')
    BY Zenon DEF acquire_own, At
  <1> QED BY <1>1, <1>2, <1>3, <1>4, <1>5, <1>6, <1>7, Zenon DEF IInv

\* The lock is given back.
LEMMA release_xchg_Inv ==
  ASSUME IInv, NEW c \in CPUs, release_xchg(c) PROVE IInv'
  <1>1. TypeInv'
    BY Zenon DEF IInv, TypeInv, Points, release_xchg, Goto, cpu
  <1>2. CountInv'
    <2> SUFFICES ASSUME NEW d \in CPUs
                 PROVE  IsFiniteSet(hold'[d]) /\ ncli'[d] = Cardinality(hold'[d]) + cli'[d] + Underway(d)'
      BY Zenon DEF CountInv
    <2>1. CASE d = c
      <3>1. IsFiniteSet(hold'[c]) /\ Cardinality(hold'[c]) = Cardinality(hold[c]) - 1
        BY Counts, Counting, Zenon DEF IInv, TypeInv, PointInv, release_xchg, At
      <3>2. Cardinality(hold[c]) \in Nat /\ ncli[c] = Cardinality(hold[c]) + cli[c] + Underway(c) /\ cli[c] \in Nat
        BY Counts, Zenon
      <3> QED BY <2>1, <3>1, <3>2 DEF IInv, TypeInv, Underway, release_xchg, At, Goto, cpu
    <2>2. CASE d # c
      BY <2>2 DEF IInv, CountInv, Underway, release_xchg, Goto, cpu
    <2> QED BY <2>1, <2>2, Zenon
  <1>3. FlagInv'
    BY Zenon DEF IInv, FlagInv, TypeInv, release_xchg, Goto, cpu
  <1>4. PointInv'
    BY Zenon DEF IInv, PointInv, TypeInv, release_xchg, Goto
  <1>5. LockInv'
    <2> SUFFICES ASSUME NEW d \in CPUs, NEW e \in CPUs, NEW m \in Locks, Has(d, m)'
                 PROVE  locked'[m] /\ (Has(e, m)' => d = e)
      BY Zenon DEF LockInv
    <2>1. \A f \in CPUs : Has(f, m)' => Has(f, m) /\ (f = c => m # lk[c])
      BY Zenon DEF IInv, TypeInv, Has, release_xchg, Goto
    <2>2. Has(c, lk[c]) /\ lk[c] \in Locks
      BY Zenon DEF IInv, TypeInv, PointInv, Has, release_xchg, At
    <2>3. m # lk[c]
      BY <2>1, <2>2, Zenon DEF IInv, LockInv
    <2>4. locked'[m] = locked[m]
      BY <2>3 DEF release_xchg
    <2> QED BY <2>1, <2>4, Zenon DEF IInv, LockInv
  <1>6. OwnerInv'
    BY DEF IInv, OwnerInv, TypeInv, release_xchg, At, Goto
  <1>7. ~(panicked')
    BY Zenon DEF release_xchg, At
  <1> QED BY <1>1, <1>2, <1>3, <1>4, <1>5, <1>6, <1>7, Zenon DEF IInv

\* popcli begins.
LEMMA popcli_Inv ==
  ASSUME IInv, NEW c \in CPUs, popcli(c) PROVE IInv'
  <1>1. TypeInv'
    BY DEF IInv, TypeInv, Points, popcli, Goto, cpu
  <1>2. CountInv'
    <2> SUFFICES ASSUME NEW d \in CPUs
                 PROVE  IsFiniteSet(hold'[d]) /\ ncli'[d] = Cardinality(hold'[d]) + cli'[d] + Underway(d)'
      BY Zenon DEF CountInv
    <2>1. CASE d = c
      <3>1. hold'[c] = hold[c] /\ IsFiniteSet(hold[c])
        BY Counts, Zenon DEF popcli
      <3>2. Cardinality(hold[c]) \in Nat /\ ncli[c] = Cardinality(hold[c]) + cli[c] + Underway(c) /\ cli[c] \in Nat
        BY Counts, Zenon
      <3> QED BY <2>1, <3>1, <3>2 DEF IInv, TypeInv, Underway, popcli, At, Goto, cpu
    <2>2. CASE d # c
      BY <2>2 DEF IInv, CountInv, Underway, popcli, Goto, cpu
    <2> QED BY <2>1, <2>2, Zenon
  <1>3. FlagInv'
    BY Zenon DEF IInv, FlagInv, TypeInv, popcli, Goto, cpu
  <1>4. PointInv'
    BY DEF IInv, PointInv, popcli, Goto
  <1>5. LockInv'
    <2> SUFFICES ASSUME NEW d \in CPUs, NEW m \in Locks, Has(d, m)' PROVE Has(d, m)
      BY Zenon DEF IInv, LockInv, popcli
    <2> QED BY DEF Has, popcli, Goto
  <1>6. OwnerInv'
    BY DEF IInv, OwnerInv, popcli, At, Goto
  <1>7. ~(panicked')
    BY Zenon DEF popcli, At
  <1> QED BY <1>1, <1>2, <1>3, <1>4, <1>5, <1>6, <1>7, Zenon DEF IInv

\* The last popcli, and no other, turns interrupts on again.
LEMMA popcli_sti_Inv ==
  ASSUME IInv, NEW c \in CPUs, popcli_sti(c) PROVE IInv'
  <1>b. Cardinality(hold[c]) \in Nat /\ cli[c] \in Nat
    BY Counts, Zenon
  <1>c. Underway(c) = 1
    BY Zenon DEF Underway, popcli_sti, At
  <1>a. ncli[c] \in Nat \ {0} /\ ~iflag[c]
    BY <1>b, <1>c, Counts DEF IInv, FlagInv
  <1>1. TypeInv'
    <2>1. (iflag[c] \/ (ncli[c] = 1 /\ intena[c])) \in BOOLEAN
      OBVIOUS
    <2>2. iflag' \in [CPUs -> BOOLEAN]
      BY Zenon DEF IInv, TypeInv, popcli_sti
    <2>3. ncli' \in [CPUs -> Nat]
      BY DEF IInv, TypeInv, popcli_sti
    <2> QED BY <2>3, Zenon DEF IInv, TypeInv, Points, popcli_sti, Goto
  <1>2. CountInv'
    <2> SUFFICES ASSUME NEW d \in CPUs
                 PROVE  IsFiniteSet(hold'[d]) /\ ncli'[d] = Cardinality(hold'[d]) + cli'[d] + Underway(d)'
      BY Zenon DEF CountInv
    <2>1. CASE d = c
      <3>1. hold'[c] = hold[c] /\ IsFiniteSet(hold[c])
        BY Counts, Zenon DEF popcli_sti
      <3>2. Cardinality(hold[c]) \in Nat /\ ncli[c] = Cardinality(hold[c]) + cli[c] + Underway(c) /\ cli[c] \in Nat
        BY Counts, Zenon
      <3> QED BY <2>1, <3>1, <3>2 DEF IInv, TypeInv, Underway, popcli_sti, At, Goto
    <2>2. CASE d # c
      BY <2>2 DEF IInv, CountInv, Underway, popcli_sti, Goto
    <2> QED BY <2>1, <2>2, Zenon
  <1>3. FlagInv'
    BY DEF IInv, FlagInv, TypeInv, popcli_sti, Goto
  <1>4. PointInv'
    BY DEF IInv, PointInv, popcli_sti, Goto
  <1>5. LockInv'
    <2> SUFFICES ASSUME NEW d \in CPUs, NEW m \in Locks, Has(d, m)' PROVE Has(d, m)
      BY Zenon DEF IInv, LockInv, popcli_sti
    <2> QED BY DEF Has, popcli_sti, Goto
  <1>6. OwnerInv'
    BY DEF IInv, OwnerInv, popcli_sti, At, Goto
  <1>7. ~(panicked')
    <2>1. ~(iflag[c] \/ ncli[c] = 0)
      BY <1>a, Zenon
    <2> QED BY <2>1, Zenon DEF popcli_sti
  <1> QED BY <1>1, <1>2, <1>3, <1>4, <1>5, <1>6, <1>7, Zenon DEF IInv

\* An interrupt finds no lock held by its CPU.
LEMMA interrupt_Inv ==
  ASSUME IInv, NEW c \in CPUs, interrupt(c) PROVE IInv'
  <1>a. ncli[c] = 0
    BY DEF IInv, TypeInv, FlagInv, interrupt
  <1>b. ncli[c] = Cardinality(hold[c]) + cli[c] + Underway(c) /\ cli[c] \in Nat
        /\ Cardinality(hold[c]) \in Nat /\ (Cardinality(hold[c]) = 0 <=> hold[c] = {})
    BY Counts, Zenon
  <1>c. hold[c] = {} /\ cli[c] = 0 /\ pc[c] \in {"run", "cli"}
    BY <1>a, <1>b DEF IInv, TypeInv, Underway, PointInv, Points
  <1>1. TypeInv'
    <2>1. [pc |-> pc[c], lk |-> lk[c], ef |-> ef[c], hold |-> hold[c], cli |-> cli[c]] \in Frames
      BY <1>c, Zenon DEF IInv, TypeInv, Frames
    <2> QED BY <2>1, Zenon DEF IInv, TypeInv, Points, interrupt, Goto
  <1>2. CountInv'
    <2> SUFFICES ASSUME NEW d \in CPUs
                 PROVE  IsFiniteSet(hold'[d]) /\ ncli'[d] = Cardinality(hold'[d]) + cli'[d] + Underway(d)'
      BY Zenon DEF CountInv
    <2>1. CASE d = c
      <3>1. hold'[c] = {} /\ cli'[c] = 0 /\ ncli'[c] = 0 /\ Underway(c)' = 0
        BY <1>a, <1>c, Zenon DEF IInv, TypeInv, Underway, interrupt, Goto
      <3> QED BY <2>1, <3>1, FS_EmptySet
    <2>2. CASE d # c
      BY <2>2 DEF IInv, CountInv, Underway, interrupt, Goto
    <2> QED BY <2>1, <2>2, Zenon
  <1>3. FlagInv'
    <2> SUFFICES ASSUME NEW d \in CPUs, d = c
                 PROVE  /\ ncli'[d] = 0 => (iflag'[d] <=> saved'[d] = NoFrame)
                        /\ ncli'[d] > 0 => ~iflag'[d] /\ (intena'[d] <=> saved'[d] = NoFrame)
                        /\ pc'[d] = "cli" /\ ncli'[d] = 0 => (ef'[d] <=> saved'[d] = NoFrame)
                        /\ saved'[d].pc = "cli" => saved'[d].ef
      BY DEF IInv, FlagInv, interrupt, Goto
    <2>1. saved'[c] # NoFrame /\ saved'[c].pc = pc[c] /\ saved'[c].ef = ef[c]
      BY <1>c, Zenon DEF IInv, TypeInv, NoFrame, interrupt
    <2>2. pc[c] = "cli" => ef[c]
      BY <1>a, Zenon DEF IInv, FlagInv, interrupt
    <2> QED BY <1>a, <2>1, <2>2 DEF IInv, TypeInv, interrupt
  <1>4. PointInv'
    BY Zenon DEF IInv, PointInv, TypeInv, interrupt, Goto
  <1>5. LockInv'
    BY LockAssumption DEF IInv, LockInv, Has, interrupt, Goto
  <1>6. OwnerInv'
    BY <1>c DEF IInv, OwnerInv, interrupt, Goto
  <1>7. ~(panicked')
    BY Zenon DEF interrupt
  <1> QED BY <1>1, <1>2, <1>3, <1>4, <1>5, <1>6, <1>7, Zenon DEF IInv

\* A handler returns to the code that it interrupted.
LEMMA iret_Inv ==
  ASSUME IInv, NEW c \in CPUs, iret(c) PROVE IInv'
  <1>a. saved[c].pc \in {"run", "cli"} /\ saved[c].hold = {} /\ saved[c].cli = 0
    BY Zenon DEF IInv, TypeInv, Frames, iret
  <1>c. hold[c] = {} /\ cli[c] = 0 /\ pc[c] = "run" /\ Underway(c) = 0
    BY Zenon DEF Underway, iret, At
  <1>b. hold[c] = {} /\ cli[c] = 0 /\ pc[c] = "run" /\ ncli[c] = 0
    BY <1>c, FS_EmptySet DEF IInv, CountInv
  <1>1. TypeInv'
    BY Zenon DEF IInv, TypeInv, Points, Frames, iret, Goto
  <1>2. CountInv'
    <2> SUFFICES ASSUME NEW d \in CPUs
                 PROVE  IsFiniteSet(hold'[d]) /\ ncli'[d] = Cardinality(hold'[d]) + cli'[d] + Underway(d)'
      BY Zenon DEF CountInv
    <2>1. CASE d = c
      <3>1. hold'[c] = {} /\ cli'[c] = 0 /\ ncli'[c] = 0 /\ Underway(c)' = 0
        BY <1>a, <1>b, Zenon DEF IInv, TypeInv, Underway, iret, Goto
      <3> QED BY <2>1, <3>1, FS_EmptySet
    <2>2. CASE d # c
      BY <2>2 DEF IInv, CountInv, Underway, iret, Goto
    <2> QED BY <2>1, <2>2, Zenon
  <1>3. FlagInv'
    <2> SUFFICES ASSUME NEW d \in CPUs, d = c
                 PROVE  /\ ncli'[d] = 0 => (iflag'[d] <=> saved'[d] = NoFrame)
                        /\ ncli'[d] > 0 => ~iflag'[d] /\ (intena'[d] <=> saved'[d] = NoFrame)
                        /\ pc'[d] = "cli" /\ ncli'[d] = 0 => (ef'[d] <=> saved'[d] = NoFrame)
                        /\ saved'[d].pc = "cli" => saved'[d].ef
      BY DEF IInv, FlagInv, iret, Goto
    <2>1. saved'[c] = NoFrame /\ pc'[c] = saved[c].pc /\ ef'[c] = saved[c].ef /\ iflag'[c]
      BY Zenon DEF IInv, TypeInv, iret, Goto
    <2>2. ncli'[c] = 0
      BY <1>b, Zenon DEF iret
    <2>3. NoFrame.pc # "cli"
      BY Zenon DEF NoFrame
    <2>4. saved[c].pc = "cli" => saved[c].ef
      BY Zenon DEF IInv, FlagInv
    <2> QED BY <2>1, <2>2, <2>3, <2>4
  <1>4. PointInv'
    BY Zenon DEF IInv, PointInv, TypeInv, Frames, iret, Goto
  <1>5. LockInv'
    BY <1>a, <1>b DEF IInv, LockInv, Has, iret, Goto
  <1>6. OwnerInv'
    BY DEF IInv, OwnerInv, TypeInv, Frames, iret, Goto
  <1>7. ~(panicked')
    BY Zenon DEF iret, At
  <1> QED BY <1>1, <1>2, <1>3, <1>4, <1>5, <1>6, <1>7, Zenon DEF IInv

\* acquire asks for a lock of higher rank.
LEMMA acquire_Inv ==
  ASSUME IInv, NEW c \in CPUs, NEW l \in Locks, acquire(c, l) PROVE IInv'
  <1>1. TypeInv'
    BY Zenon DEF IInv, TypeInv, Points, acquire, Goto, cpu
  <1>2. CountInv'
    BY DEF IInv, CountInv, Underway, acquire, At, Goto, cpu
  <1>3. FlagInv'
    BY Zenon DEF IInv, FlagInv, TypeInv, acquire, Goto, cpu
  <1>4. PointInv'
    BY LockAssumption DEF IInv, PointInv, TypeInv, acquire, Goto
  <1>5. LockInv'
    <2>1. ASSUME NEW d \in CPUs, NEW m \in Locks, Has(d, m)' PROVE Has(d, m)
      BY <2>1, Zenon DEF IInv, TypeInv, Has, acquire, Goto
    <2>2. locked' = locked
      BY Zenon DEF acquire
    <2> QED BY <2>1, <2>2, Zenon DEF IInv, LockInv
  <1>6. OwnerInv'
    BY DEF IInv, OwnerInv, acquire, At, Goto
  <1>7. ~(panicked')
    BY Zenon DEF acquire, At
  <1> QED BY <1>1, <1>2, <1>3, <1>4, <1>5, <1>6, <1>7, Zenon DEF IInv

\* release finds the lock held by its CPU.
LEMMA release_Inv ==
  ASSUME IInv, NEW c \in CPUs, NEW l \in Locks, release(c, l) PROVE IInv'
  <1>1. TypeInv'
    BY Zenon DEF IInv, TypeInv, Points, release, Goto, cpu
  <1>2. CountInv'
    BY DEF IInv, CountInv, Underway, release, At, Goto, cpu
  <1>3. FlagInv'
    BY Zenon DEF IInv, FlagInv, TypeInv, release, Goto, cpu
  <1>4. PointInv'
    BY Zenon DEF IInv, PointInv, TypeInv, release, Goto
  <1>5. LockInv'
    <2>1. ASSUME NEW d \in CPUs, NEW m \in Locks, Has(d, m)' PROVE Has(d, m)
      BY <2>1, Zenon DEF IInv, TypeInv, Has, release, Goto
    <2>2. locked' = locked
      BY Zenon DEF release
    <2> QED BY <2>1, <2>2, Zenon DEF IInv, LockInv
  <1>6. OwnerInv'
    BY LockAssumption DEF IInv, OwnerInv, TypeInv, PointInv, release, At, Goto
  <1>7. ~(panicked')
    <2>1. holding(c, l)
      BY Zenon DEF IInv, OwnerInv, LockInv, Has, holding, release, At
    <2> QED BY <2>1, Zenon DEF release
  <1> QED BY <1>1, <1>2, <1>3, <1>4, <1>5, <1>6, <1>7, Zenon DEF IInv

\* Every step keeps the invariant.
LEMMA NextInv == IInv /\ [Next]_vars => IInv'
  <1> SUFFICES ASSUME IInv, [Next]_vars PROVE IInv'
    OBVIOUS
  <1>1. CASE UNCHANGED vars
    BY <1>1 DEF IInv, vars, TypeInv, CountInv, Underway, FlagInv, PointInv, LockInv, Has, OwnerInv
  <1>2. CASE Next
    <2> PICK c \in CPUs : Step(c)
      BY <1>2, Zenon DEF Next
    <2> QED
      BY pushcli_Inv, pushcli_cli_Inv, acquire_check_Inv, acquire_xchg_Inv, acquire_own_Inv,
         release_xchg_Inv, popcli_Inv, popcli_sti_Inv, interrupt_Inv, iret_Inv, acquire_Inv, release_Inv,
         Zenon DEF Step
  <1> QED BY <1>1, <1>2, Zenon

\* The invariant holds in every reachable state.
THEOREM LockInvariance == Spec => []IInv
  BY InitInv, NextInv, PTL DEF Spec

\* No two CPUs are in a critical section of one lock, and acquire, release and popcli never
\* panic, whatever interrupts come (spinlock.c).
THEOREM MutualExclusion == Spec => []Exclusive
  <1>1. IInv => Exclusive
    <2> SUFFICES ASSUME IInv PROVE Exclusive
      OBVIOUS
    <2>1. \A c \in CPUs : saved[c].hold = {}
      BY DEF IInv, TypeInv, Frames, NoFrame
    <2> QED BY <2>1, Zenon DEF IInv, LockInv, Has, Exclusive, Inside
  <1> QED BY LockInvariance, <1>1, PTL

\* Interrupts are off as long as a lock or a pushcli is held, and as they were before once all is
\* given back (pushcli, popcli).
THEOREM FlagDiscipline == Spec => []FlagRestored
  <1>1. IInv => FlagRestored
    <2> SUFFICES ASSUME IInv, NEW c \in CPUs
                 PROVE  /\ hold[c] # {} \/ cli[c] > 0 => ~iflag[c]
                        /\ pc[c] = "run" /\ hold[c] = {} /\ cli[c] = 0 => (iflag[c] <=> saved[c] = NoFrame)
      BY Zenon DEF FlagRestored
    <2>1. ncli[c] = Cardinality(hold[c]) + cli[c] + Underway(c) /\ cli[c] \in Nat
          /\ Cardinality(hold[c]) \in Nat /\ (Cardinality(hold[c]) = 0 <=> hold[c] = {})
      BY Counts, Zenon
    <2> QED BY <2>1 DEF IInv, FlagInv, Underway
  <1> QED BY LockInvariance, <1>1, PTL

\* acquire() and release() make critical sections: the two theorems together.
THEOREM CriticalSections == Spec => []CriticalSection
  <1>1. Exclusive /\ FlagRestored => CriticalSection
    BY Zenon DEF CriticalSection
  <1> QED BY <1>1, MutualExclusion, FlagDiscipline, PTL
=============================================================================
