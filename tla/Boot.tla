-------------------------------- MODULE Boot --------------------------------
(***************************************************************************)
(* From the first C code on the boot processor to the scheduler on all of  *)
(* them: mpinit reads what the BIOS says of the machine, bootothers starts *)
(* one processor after the other. A processor is named by its APIC id. The *)
(* initialisation of memory and devices is one step; memory is not short   *)
(* this early.                                                             *)
(***************************************************************************)
EXTENDS Naturals, Sequences

CONSTANTS Bioses,    \* [ebdap, ebda, base, rom, ids, bsp]: where a table may be, and the processors there are
          NoMp,      \* no floating pointer in an area
          BadConf    \* one that leads to no valid table

VARIABLES bios,
          p, ncpu, bcpu, ismp, lapic, id,   \* the next entry, and what mpinit has found; id: cpus[].id
          pc, stack, me,                    \* per processor; me: the index of its struct cpu
          c, word, booted, pages            \* bootothers: its loop, code[-4], cpus[].booted; kalloc's next page

found == <<p, ncpu, bcpu, ismp, lapic, id>>
vars == <<bios, p, ncpu, bcpu, ismp, lapic, id, pc, stack, me, c, word, booted, pages>>

None == 99
Goto(a, l) == pc' = [pc EXCEPT ![a] = l]
bsp == bios.bsp

mpsearch == LET first == IF bios.ebdap THEN bios.ebda ELSE bios.base
            IN  IF first # NoMp THEN first ELSE bios.rom
mpconfig == IF mpsearch \in {NoMp, BadConf} THEN <<>> ELSE mpsearch

Init == /\ bios \in Bioses
        /\ p = 0 /\ ncpu = 0 /\ bcpu = 0 /\ ismp = FALSE /\ lapic = FALSE /\ id = [k \in 0 .. 7 |-> 0]
        /\ pc = [a \in bios.ids |-> IF a = bios.bsp THEN "mpinit" ELSE "halted"]
        /\ stack = [a \in bios.ids |-> None] /\ me = [a \in bios.ids |-> None]
        /\ c = 0 /\ word = None /\ booted = [k \in 0 .. 7 |-> FALSE] /\ pages = 0

-----------------------------------------------------------------------------
mpinit == /\ pc[bsp] = "mpinit" /\ p = 0
          /\ IF mpconfig = <<>> THEN Goto(bsp, "main") /\ UNCHANGED <<p, ismp, lapic>>
             ELSE p' = 1 /\ ismp' = TRUE /\ lapic' = TRUE /\ UNCHANGED pc
          /\ UNCHANGED <<bios, ncpu, bcpu, id, stack, me, c, word, booted, pages>>

\* Entries of other kinds (MPIOAPIC, MPBUS, MPIOINTR, MPLINTR) say nothing about processors.
mpinit_entry ==
  /\ pc[bsp] = "mpinit" /\ p \in 1 .. Len(mpconfig) /\ p' = p + 1
  /\ LET e == mpconfig[p] IN
     IF e.type # "MPPROC" THEN UNCHANGED <<ncpu, bcpu, ismp, id>>
     ELSE /\ ismp' = (ismp /\ ncpu = e.apicid)
          /\ bcpu' = IF e.boot THEN ncpu ELSE bcpu
          /\ id' = [id EXCEPT ![ncpu] = ncpu] /\ ncpu' = ncpu + 1
  /\ UNCHANGED <<bios, lapic, pc, stack, me, c, word, booted, pages>>

mpinit_end ==
  /\ pc[bsp] = "mpinit" /\ p > Len(mpconfig) /\ Goto(bsp, "main")
  /\ ncpu' = (IF ismp THEN ncpu ELSE 1) /\ lapic' = ismp
  /\ UNCHANGED <<bios, p, bcpu, ismp, id, stack, me, c, word, booted, pages>>

cpunum(a) == IF lapic THEN a ELSE 0
seginit(a) == me' = [me EXCEPT ![a] = cpunum(a)]

\* main up to jmpkstack, and mainc up to bootothers.
main == /\ pc[bsp] = "main" /\ seginit(bsp)
        /\ stack' = [stack EXCEPT ![bsp] = pages] /\ pages' = pages + 1
        /\ Goto(bsp, "bootothers")
        /\ UNCHANGED <<bios, found, c, word, booted>>

\* Only a processor that INIT has halted takes the STARTUP, so the second one is ignored.
lapicstartap(a) == pc' = [d \in bios.ids |-> IF d = bsp THEN "wait"
                                             ELSE IF d = a /\ pc[d] = "halted" THEN "bootother" ELSE pc[d]]

bootothers ==
  /\ pc[bsp] = "bootothers"
  /\ IF c >= ncpu THEN Goto(bsp, "mpmain") /\ UNCHANGED <<c, word, pages>>
     ELSE IF c = cpunum(bsp) THEN c' = c + 1 /\ UNCHANGED <<pc, word, pages>>
     ELSE word' = pages /\ pages' = pages + 1 /\ lapicstartap(id[c]) /\ UNCHANGED c
  /\ UNCHANGED <<bios, found, stack, me, booted>>

\* Mutation of bootothers_wait: it does not.
bootothers_wait_Not ==
  /\ pc[bsp] = "wait" /\ c' = c + 1 /\ Goto(bsp, "bootothers")
  /\ UNCHANGED <<bios, found, stack, me, word, booted, pages>>

bootothers_wait ==
  /\ pc[bsp] = "wait" /\ booted[c] /\ c' = c + 1 /\ Goto(bsp, "bootothers")
  /\ UNCHANGED <<bios, found, stack, me, word, booted, pages>>

-----------------------------------------------------------------------------
\* bootother.S: the stack is what is in front of the code.
bootother(a) == /\ pc[a] = "bootother" /\ Goto(a, "mpmain")
                /\ stack' = [stack EXCEPT ![a] = word]
                /\ UNCHANGED <<bios, found, me, c, word, booted, pages>>

mpmain(a) == /\ pc[a] = "mpmain" /\ Goto(a, "booted")
             /\ IF cpunum(a) # bcpu THEN seginit(a) ELSE UNCHANGED me
             /\ UNCHANGED <<bios, found, stack, c, word, booted, pages>>

mpmain_booted(a) == /\ pc[a] = "booted" /\ Goto(a, "scheduler")
                    /\ booted' = [booted EXCEPT ![me[a]] = TRUE]
                    /\ UNCHANGED <<bios, found, stack, me, c, word, pages>>

Bsp == mpinit \/ mpinit_entry \/ mpinit_end \/ main \/ bootothers \/ bootothers_wait
Cpu(a) == bootother(a) \/ mpmain(a) \/ mpmain_booted(a)
\* The schedulers run; the rest of the system is in other modules.
scheduler == (\A a \in bios.ids : pc[a] \in {"scheduler", "halted"}) /\ UNCHANGED vars
Next == Bsp \/ (\E a \in bios.ids : Cpu(a)) \/ scheduler
-----------------------------------------------------------------------------
\* Every processor that runs C code has a stack and a struct cpu of its own, one of the ncpu.
OneEach == \A a \in bios.ids :
  /\ \A d \in bios.ids : a # d /\ stack[a] # None => stack[a] # stack[d]
  /\ me[a] # None => /\ me[a] = 0 \/ me[a] < ncpu
                     /\ \A d \in bios.ids \ {a} : me[d] # me[a]

\* When the boot processor schedules, all that mpinit has accepted do; after a fallback the others are halted.
AllUp == pc[bsp] = "scheduler" => \A a \in bios.ids \ {bsp} : pc[a] = IF ismp THEN "scheduler" ELSE "halted"

\* Starting the processors one by one through the word in front of bootother.S gives each its own and forgets none.
BootSound == OneEach /\ AllUp
=============================================================================
