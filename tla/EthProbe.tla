------------------------------ MODULE EthProbe ------------------------------
(***************************************************************************)
(* Finding the network card (eth.c ethinit, ne.c ne_probe) and what        *)
(* ethioctl then says of it. A port has nothing, some other device, a      *)
(* controller that does not come out of reset, or a card with a PROM of P  *)
(* bytes, the address (M bytes) first and two signature bytes last; a      *)
(* 16-bit card shows every byte twice, an 8-bit card shows the PROM twice. *)
(***************************************************************************)
EXTENDS Naturals, Sequences

CONSTANTS Ports, M, P,
          Byte, SIGNATURE,
          NRead            \* RESET_TIMEOUT_POLL_LIMIT

VARIABLES card,            \* what is at each port
          i, ne, poll,     \* ethinit's loop, the driver's state, polls of ISR
          pc, answer       \* of ethioctl

vars == <<card, i, ne, poll, pc, answer>>

Proms == {s \in [1 .. P -> Byte] : s[P - 1] = SIGNATURE /\ s[P] = SIGNATURE}
Cards == [kind : {"none", "other", "dead"}] \cup [kind : {"ne"}, bits : {8, 16}, prom : Proms, late : 0 .. NRead + 1]
Zeroed == [base |-> 0, is16bit |-> FALSE, address |-> <<>>, pages |-> 0]

Init == /\ card \in [1 .. Ports -> Cards]
        /\ i = 1 /\ ne = Zeroed /\ poll = 0 /\ pc = "ethinit" /\ answer = 0

\* What 2 * P reads of NE_DATA give (external).
Data(k) == [n \in 1 .. 2 * P |-> IF k.bits = 16 THEN k.prom[(n + 1) \div 2] ELSE k.prom[((n - 1) % P) + 1]]

-----------------------------------------------------------------------------
\* The next port: ne is cleared, ne_probe looks for a DP8390 and resets it.
ethinit ==
  /\ pc = "ethinit" /\ i <= Ports
  /\ ne' = [Zeroed EXCEPT !.base = i] /\ poll' = 0
  /\ IF card[i].kind \in {"none", "other"} THEN i' = i + 1 /\ UNCHANGED pc
     ELSE pc' = "reset" /\ UNCHANGED i
  /\ UNCHANGED <<card, answer>>

\* while(inb(DP_ISR) == 0): one poll.
ne_probe_reset ==
  /\ pc = "reset" /\ UNCHANGED <<card, ne, answer>>
  /\ IF card[i].kind = "ne" /\ poll >= card[i].late THEN pc' = "prom" /\ UNCHANGED <<i, poll>>
     ELSE IF poll > NRead THEN pc' = "ethinit" /\ i' = i + 1 /\ UNCHANGED poll
     ELSE poll' = poll + 1 /\ UNCHANGED <<i, pc>>

Is16(data) == \A n \in 1 .. P : data[2 * n - 1] = data[2 * n]

Eprom(data) == IF Is16(data) THEN [n \in 1 .. P |-> data[2 * n]] ELSE data

\* The PROM; a card that is accepted is initialised, and the loop ends.
ne_probe_prom ==
  /\ pc = "prom"
  /\ LET data == Data(card[i]) eprom == Eprom(data) is16 == Is16(data) IN
     IF eprom[P - 1] # SIGNATURE \/ eprom[P] # SIGNATURE
     THEN pc' = "ethinit" /\ i' = i + 1 /\ ne' = [ne EXCEPT !.is16bit = is16]
     ELSE /\ pc' = "up" /\ UNCHANGED i
          /\ ne' = [ne EXCEPT !.is16bit = is16, !.address = SubSeq(eprom, 1, M), !.pages = IF is16 THEN 16 ELSE 8]
  /\ UNCHANGED <<card, poll, answer>>

ethinit_end == /\ pc = "ethinit" /\ i > Ports /\ pc' = "up"
               /\ UNCHANGED <<card, i, ne, poll, answer>>

\* Mutation of Ready: the second test is missing.
Ready_Base == ne.base # 0

Ready == ne.base # 0 /\ ne.pages # 0

\* ETH_IPC_SETUP, some time after boot.
ethioctl == /\ pc = "up" /\ answer' = (IF Ready THEN 1 ELSE 2)
            /\ UNCHANGED <<card, i, ne, poll, pc>>

Next == ethinit \/ ne_probe_reset \/ ne_probe_prom \/ ethinit_end \/ ethioctl

-----------------------------------------------------------------------------
\* The card the driver must find: the first whose PROM cannot be taken for that of a 16-bit card by mistake.
Paired(k) == k.bits = 8 /\ Is16(Data(k))
Good == {n \in 1 .. Ports : card[n].kind = "ne"}
First(n) == n \in Good /\ \A m \in Good : n <= m

\* ETH_IPC_SETUP succeeds exactly if there is a card, and the driver has the first one's port, width and address.
ProbeFinds == (\A n \in Good : ~Paired(card[n])) =>
  /\ answer # 0 => (answer = 1 <=> Good # {})
  /\ pc = "up" => \A n \in Good : First(n) =>
       /\ ne.base = n /\ ne.address = SubSeq(card[n].prom, 1, M)
       /\ ne.is16bit <=> card[n].bits = 16
=============================================================================
