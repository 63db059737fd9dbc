------------------------------ MODULE MCKernel ------------------------------
(***************************************************************************)
(* The machine-level parts of the kernel for TLC. The modules share no     *)
(* state, so a behaviour is one of five: "lock" takes and releases spin    *)
(* locks, "vm" manages memory, "boot" starts the processors, "kbd" reads   *)
(* keys and "eth" probes for the network card.                             *)
(***************************************************************************)
EXTENDS Spinlock, Integers, Sequences

CONSTANTS Procs, initproc

VARIABLES part,
          free, as, new, kstack, state, op, lost, vmpanic,
          bios, entry, ncpu, bcpu, ismp, lapic, id, bpc, stack, me, bc, word, booted, pages,
          wire, shift, kc, down, odd, twins, key,
          card, port, ne, poll, epc, answer

\* MP tables: three processors with the boot processor first or last, a table whose ids have a gap (no MP then).
Mpproc(a, b) == [type |-> "MPPROC", apicid |-> a, boot |-> b]
Three(b) == <<Mpproc(0, b = 0), Mpproc(1, b = 1), [type |-> "MPIOAPIC"], Mpproc(2, b = 2)>>
Gap == <<Mpproc(0, FALSE), Mpproc(2, TRUE), [type |-> "MPBUS"]>>
Machine(ebda, base, rom, ids, b) == {[ebdap |-> e, ebda |-> ebda, base |-> base, rom |-> rom, ids |-> ids, bsp |-> b] :
                                     e \in BOOLEAN}
NoMp == <<>>
BadConf == <<[type |-> "bad"]>>
Machines == Machine(Three(0), NoMp, NoMp, {0, 1, 2}, 0) \cup Machine(NoMp, NoMp, Three(2), {0, 1, 2}, 2)
              \cup Machine(NoMp, Three(1), NoMp, {0, 1, 2}, 1) \cup Machine(Gap, Gap, NoMp, {0, 2}, 2)
              \cup Machine(BadConf, NoMp, Three(0), {0, 1, 2}, 0)

\* sbrk inside a page and across page boundaries, up and down.
Memory == INSTANCE Vm WITH NPAGES <- 9, KTABS <- 1, PGSIZE <- 2, USERTOP <- 6, Sizes <- {-2, 3},
                           Images <- {1, 3}, panicked <- vmpanic
Start == INSTANCE Boot WITH Bioses <- Machines, p <- entry, pc <- bpc, c <- bc
Keyboard == INSTANCE Kbd WITH MaxDown <- 3, c <- kc
Probe == INSTANCE EthProbe WITH Ports <- 2, M <- 2, P <- 4, Byte <- {"W", "x"}, SIGNATURE <- "W", NRead <- 1,
                                i <- port, pc <- epc

lockVars == <<locked, owner, iflag, ncli, intena, pc, lk, ef, hold, cli, saved, panicked>>
vmVars == <<free, as, new, kstack, state, op, lost, vmpanic>>
bootVars == <<bios, entry, ncpu, bcpu, ismp, lapic, id, bpc, stack, me, bc, word, booted, pages>>
kbdVars == <<wire, shift, kc, down, odd, twins, key>>
ethVars == <<card, port, ne, poll, epc, answer>>
allVars == <<part, lockVars, vmVars, bootVars, kbdVars, ethVars>>

\* In the other parts a module stays in one of its initial states.
MCInit == /\ part \in {"lock", "vm", "boot", "kbd", "eth"}
          /\ Init /\ Memory!Init /\ Start!Init /\ Keyboard!Init /\ Probe!Init
          /\ part # "boot" => bios = CHOOSE b \in Machines : TRUE
          /\ part # "eth" => \A n \in DOMAIN card : card[n].kind = "none"
MCNext == \/ /\ part = "lock" /\ Next /\ UNCHANGED <<part, vmVars, bootVars, kbdVars, ethVars>>
          \/ /\ part = "vm" /\ Memory!Next /\ UNCHANGED <<part, lockVars, bootVars, kbdVars, ethVars>>
          \/ /\ part = "boot" /\ Start!Next /\ UNCHANGED <<part, lockVars, vmVars, kbdVars, ethVars>>
          \/ /\ part = "kbd" /\ Keyboard!Next /\ UNCHANGED <<part, lockVars, vmVars, bootVars, ethVars>>
          \/ /\ part = "eth" /\ Probe!Next /\ UNCHANGED <<part, lockVars, vmVars, bootVars, kbdVars>>
MCSpec == MCInit /\ [][MCNext]_allVars

(***************************************************************************)
(* Every page is in exactly one place: on the free list, in one address    *)
(* space, in one that fork or exec is building or wait takes down, a       *)
(* kernel stack, or among those that setupkvm has dropped. Between its     *)
(* calls a process has exactly the pages below its size mapped, whatever   *)
(* sbrk, fork or exec failed before; and vm.c does not panic.              *)
(***************************************************************************)
MemorySound == Memory!MemorySound

(***************************************************************************)
(* Every processor that runs C code has a stack of its own, though they    *)
(* all take it from one word in front of bootother.S, and a struct cpu of  *)
(* its own below ncpu, also when mpinit falls back to one processor. The   *)
(* boot processor schedules only after all that mpinit has accepted do.    *)
(***************************************************************************)
BootSound == part = "boot" => Start!BootSound

(***************************************************************************)
(* What kbdgetc returns for a key is the meaning of the key under the      *)
(* modifiers held and the parity of CAPSLOCK, though it sees the keys only *)
(* byte by byte, and its flags are the keys held; except while a modifier  *)
(* was held with two keys, of which the first release clears the flag.     *)
(***************************************************************************)
KeyMeaning == Keyboard!KeyMeaning

(***************************************************************************)
(* ETH_IPC_SETUP succeeds exactly if there is a card, and the driver then  *)
(* has the port, the width and the address of the first one, whatever the  *)
(* ports probed before have left behind. (An 8-bit card whose PROM is made *)
(* of pairs passes for a 16-bit one, and is left out.)                     *)
(***************************************************************************)
ProbeFinds == Probe!ProbeFinds
=============================================================================
