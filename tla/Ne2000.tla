------------------------------- MODULE Ne2000 -------------------------------
(***************************************************************************)
(* The NE1000/NE2000 driver (eth/ne.c). Three parties share the card's     *)
(* registers: a process in read or write of the device, which holds the    *)
(* inode's lock, so that there is one at a time; the interrupt handler,    *)
(* on the process's CPU or on another one; and the card.                   *)
(* A packet is a number; byte i of packet k is <<k, i>>.                   *)
(***************************************************************************)
EXTENDS Integers, Sequences

CONSTANTS DP_PAGESIZE, HDR,       \* bytes of a page and of a packet's header
          recv_startpage, recv_stoppage, SENDQ_LEN,
          ETH_MIN_SIZE, ETH_MAX_SIZE,
          Lengths, BufSizes,      \* of packets on the wire, and of read's buffer
          OutSizes,               \* of packets written
          MaxIn, MaxOut           \* bounds on the packets received and written

ASSUME NeAssumption ==
  /\ DP_PAGESIZE \in Nat \ {0} /\ HDR \in 1..DP_PAGESIZE
  /\ recv_startpage \in Nat /\ recv_stoppage \in Nat /\ recv_startpage + 1 < recv_stoppage
  /\ SENDQ_LEN \in Nat \ {0}
  /\ Lengths \subseteq Nat /\ BufSizes \subseteq Nat /\ ETH_MIN_SIZE \in Nat /\ ETH_MAX_SIZE \in Nat

VARIABLES prompt,                    \* whether the remote DMA of this card ends with the last access to the data port
          is16bit,                   \* what ne_probe has found
          crpage, isr, curr, bnry,   \* the card's registers
          crda,                      \* DP_CRDA: "start" is startaddr, "past" any address beyond it
          mem, hdr,                  \* its receive ring: bytes, and headers by page
          sendmem, dma, txp,         \* its send buffers, the remote write and the transmission under way
          filled, sendq_head, sendq_tail,
          pc, loc, cpu,              \* the process, and the CPU it is on: "irq" takes the interrupts
          hpc, hisr,                 \* the handler and the value it has read from DP_ISR
          arrived, got, written, sent, reported,  \* history
          overlapped,                \* history: a transmission was started during another one
          astray                     \* history: the handler found the registers of page 1, or words
                                     \* stored past a variable on the stack hit one that is in use

card == <<prompt, is16bit>>
chip == <<crpage, isr, curr, bnry, mem, hdr, crda>>
tx == <<sendmem, dma, txp, sent, overlapped>>
sendq == <<filled, sendq_head, sendq_tail>>
proc == <<pc, loc, cpu>>
handler == <<hpc, hisr, reported>>
vars == <<prompt, is16bit, crpage, isr, curr, bnry, crda, mem, hdr, sendmem, dma, txp, filled, sendq_head,
          sendq_tail, pc, loc, cpu, hpc, hisr, overlapped, astray, arrived, got, written, sent, reported>>

Ring == recv_stoppage - recv_startpage
Slots == 0..(SENDQ_LEN - 1)
NextPage(p) == IF p + 1 = recv_stoppage THEN recv_startpage ELSE p + 1
Wrap(a) == IF a >= recv_stoppage * DP_PAGESIZE THEN a - Ring * DP_PAGESIZE ELSE a

\* ne_init
Init ==
  /\ prompt \in BOOLEAN /\ is16bit \in BOOLEAN /\ crpage = 0 /\ crda = "past" /\ isr = {}
  /\ bnry = recv_startpage /\ curr = recv_startpage + 1
  /\ mem = [a \in (recv_startpage * DP_PAGESIZE)..(recv_stoppage * DP_PAGESIZE - 1) |-> <<0, 0>>]
  /\ hdr = [p \in recv_startpage..(recv_stoppage - 1) |-> [next |-> 0, len |-> 0]]
  /\ sendmem = [q \in Slots |-> 0] /\ dma = <<>> /\ txp = <<>> /\ overlapped = FALSE
  /\ filled = [q \in Slots |-> FALSE] /\ sendq_head = 0 /\ sendq_tail = SENDQ_LEN - 1
  /\ pc = "idle" /\ loc = <<>> /\ cpu = "irq" /\ hpc = "off" /\ hisr = <<>>
  /\ astray = FALSE /\ arrived = <<>> /\ got = <<>> /\ written = <<>> /\ sent = <<>> /\ reported = 0

-----------------------------------------------------------------------------
\* The card.
Stored(n) == (HDR + n + DP_PAGESIZE - 1) \div DP_PAGESIZE
Room == (bnry - curr + Ring) % Ring
\* Pages filled so far, counted on where the ring wraps; the first packet goes to the second page.
Filled == LET l == Len(arrived) IN IF l = 0 THEN 1 ELSE arrived[l].at + Stored(arrived[l].len)

Receive(n) ==
  LET k == Len(arrived) + 1
      At(a) == Wrap(curr * DP_PAGESIZE + HDR + a - 1)
      after == ((curr - recv_startpage + Stored(n)) % Ring) + recv_startpage IN
  /\ k <= MaxIn /\ Stored(n) < Room
  /\ mem' = [a \in DOMAIN mem |-> IF \E i \in 1..n : At(i) = a
                                  THEN <<k, CHOOSE i \in 1..n : At(i) = a>> ELSE mem[a]]
  /\ hdr' = [hdr EXCEPT ![curr] = [next |-> after, len |-> n]]
  /\ curr' = after /\ isr' = isr \cup {"PRX"} /\ arrived' = Append(arrived, [len |-> n, at |-> Filled])
  /\ UNCHANGED <<crpage, crda, bnry, tx, sendq, proc, handler, astray, got, written>>

DmaDone ==
  /\ dma # <<>> /\ sendmem' = [sendmem EXCEPT ![dma[1]] = dma[2]] /\ dma' = <<>>
  /\ isr' = isr \cup {"RDC"}
  /\ UNCHANGED <<crpage, crda, curr, bnry, mem, hdr, txp, sent, overlapped, sendq, proc, handler, astray,
                 arrived, got, written>>

TxDone ==
  /\ txp # <<>> /\ txp' = <<>> /\ sent' = Append(sent, sendmem[txp[1]])
  /\ isr' = isr \cup {"PTX"}
  /\ UNCHANGED <<crpage, crda, curr, bnry, mem, hdr, sendmem, dma, overlapped, sendq, proc, handler, astray,
                 arrived, got, written>>

-----------------------------------------------------------------------------
\* The process runs unless the handler has interrupted it on its own CPU.
Runs == hpc = "off" \/ cpu # "irq"
Starts == pc = "idle" /\ cpu' \in {"irq", "other"} /\ (cpu' = "irq" => hpc = "off")
Goto(l) == pc' = l
Return == pc' = "idle" /\ loc' = <<>>

\* Mutation of write: the queue is not checked.
write_Always(n) ==
  /\ Starts /\ Len(written) < MaxOut
  /\ Goto("setup") /\ loc' = <<sendq_head % SENDQ_LEN, n>> /\ written' = Append(written, Len(written) + 1)
  /\ UNCHANGED <<chip, tx, sendq, handler, astray, arrived, got>>

write(n) ==
  /\ Starts /\ Len(written) < MaxOut
  /\ LET q == sendq_head % SENDQ_LEN IN
     IF filled[q] \/ sendq_head > sendq_tail THEN Return /\ UNCHANGED written
     ELSE Goto("setup") /\ loc' = <<q, n>> /\ written' = Append(written, Len(written) + 1)
  /\ UNCHANGED <<chip, tx, sendq, handler, astray, arrived, got>>

\* insw is given the number of bytes as its number of words: twice as many bytes are stored, and
\* what lies behind dummy or header on the stack may or may not be in use.
Spill == astray' \in {astray, astray \/ is16bit}

\* ne_rdma_setup reads four bytes before the first send buffer, and the end of this read
\* sets ISR_RDC like that of any transfer.
rdma_setup ==
  /\ pc = "setup" /\ Runs /\ Spill /\ isr' = isr \cup {"RDC"}
  /\ loc' = <<loc[1], loc[2], crda>> /\ crda' = "start" /\ Goto("crda")
  /\ UNCHANGED <<crpage, curr, bnry, mem, hdr, tx, sendq, cpu, handler, arrived, got, written>>

\* It then waits until DP_CRDA is not what it was.
rdma_wait ==
  /\ pc = "crda" /\ Runs /\ crda # loc[3] /\ Goto("outs")
  /\ UNCHANGED <<chip, tx, sendq, loc, cpu, handler, astray, arrived, got, written>>

\* The card takes the bytes that were announced; outsw offers it twice as many.
outs ==
  /\ pc = "outs" /\ Runs
  /\ crda' = (IF loc[1] = 0 /\ loc[2] = 0 THEN "start" ELSE "past")
  /\ IF prompt THEN isr' = isr \cup {"RDC"} /\ sendmem' = [sendmem EXCEPT ![loc[1]] = Len(written)] /\ UNCHANGED dma
     ELSE dma' = <<loc[1], Len(written)>> /\ UNCHANGED <<isr, sendmem>>
  /\ Goto("poll")
  /\ UNCHANGED <<crpage, curr, bnry, mem, hdr, txp, sent, overlapped, sendq, loc, cpu, handler, astray, arrived, got,
                 written>>

poll ==
  /\ pc = "poll" /\ Runs /\ "RDC" \in isr
  /\ filled' = [filled EXCEPT ![loc[1]] = TRUE] /\ Goto("xmit")
  /\ UNCHANGED <<chip, tx, sendq_head, sendq_tail, loc, cpu, handler, astray, arrived, got, written>>

\* There is one set of transmit registers: during a transmission the card may miss the command,
\* or leave the packet it was sending for the new one.
start_xmit ==
  /\ pc = "xmit" /\ Runs /\ txp' \in {<<loc[1]>>} \cup ({txp} \ {<<>>}) /\ Goto("count")
  /\ overlapped' = (overlapped \/ txp # <<>>)
  /\ UNCHANGED <<chip, sendmem, dma, sent, sendq, loc, cpu, handler, astray, arrived, got, written>>

count ==
  /\ pc = "count" /\ Runs /\ sendq_head' = sendq_head + 1 /\ Return
  /\ UNCHANGED <<chip, tx, filled, sendq_tail, cpu, handler, astray, arrived, got, written>>

-----------------------------------------------------------------------------
\* ne_pio_read: DP_CURR is in register page 1.
read(n) ==
  /\ Starts /\ crpage' = 1 /\ Goto("curr") /\ loc' = <<n>>
  /\ UNCHANGED <<isr, crda, curr, bnry, mem, hdr, tx, sendq, handler, astray, arrived, got, written>>

read_curr ==
  /\ pc = "curr" /\ Runs /\ loc' = Append(loc, curr) /\ Goto("page0")
  /\ UNCHANGED <<chip, tx, sendq, cpu, handler, astray, arrived, got, written>>

read_page0 ==
  /\ pc = "page0" /\ Runs /\ crpage' = 0 /\ Goto("copy")
  /\ UNCHANGED <<isr, crda, curr, bnry, mem, hdr, tx, sendq, loc, cpu, handler, astray, arrived, got, written>>

\* ne_getblock: insb stores n bytes; insw stores n words, of which the card provides n bytes.
Block(a, n) == [i \in 1..(IF is16bit THEN 2 * n ELSE n) |-> IF i <= n THEN mem[Wrap(a + i - 1)] ELSE <<0, 0>>]
\* The buffer b with c stored from its index m on.
Overlay(b, m, c) ==
  LET l == IF m + Len(c) > Len(b) THEN m + Len(c) ELSE Len(b) IN
  [i \in 1..l |-> IF i > m /\ i <= m + Len(c) THEN c[i - m] ELSE b[i]]
PacketAt(page, n) ==
  LET remain == (recv_stoppage - page) * DP_PAGESIZE
      data == page * DP_PAGESIZE + HDR IN
  IF remain < n THEN Overlay(Block(data, remain), remain, Block(recv_startpage * DP_PAGESIZE, n - remain))
  ELSE Block(data, n)

\* No packet, a bad one, or a buffer that is too small: nothing is taken from the ring.
read_copy ==
  LET page == NextPage(bnry) n == hdr[page].len IN
  /\ pc = "copy" /\ Runs
  /\ IF page = loc[2] THEN Return /\ UNCHANGED <<isr, crda, got, astray>>
     ELSE /\ isr' = isr \cup {"RDC"} /\ crda' = "past" /\ Spill
          /\ IF n < ETH_MIN_SIZE \/ n > ETH_MAX_SIZE \/ n > loc[1] THEN Return /\ UNCHANGED got
             ELSE Goto("bnry") /\ loc' = <<page>> /\ got' = Append(got, PacketAt(page, n))
  /\ UNCHANGED <<crpage, curr, bnry, mem, hdr, tx, sendq, cpu, handler, arrived, written>>

\* Mutation of read_bnry: the boundary is set to the next packet itself.
read_bnry_Next ==
  /\ pc = "bnry" /\ Runs /\ bnry' = hdr[loc[1]].next /\ Return
  /\ UNCHANGED <<crpage, isr, crda, curr, mem, hdr, tx, sendq, cpu, handler, astray, arrived, got, written>>

read_bnry ==
  LET b == hdr[loc[1]].next - 1 IN
  /\ pc = "bnry" /\ Runs
  /\ bnry' = (IF b < recv_startpage THEN recv_stoppage - 1 ELSE b) /\ Return
  /\ UNCHANGED <<crpage, isr, crda, curr, mem, hdr, tx, sendq, cpu, handler, astray, arrived, got, written>>

-----------------------------------------------------------------------------
\* ne_interrupt, started for a received or a transmitted packet (IMR).
interrupt ==
  /\ hpc = "off" /\ isr \cap {"PRX", "PTX"} # {}
  /\ hpc' = "isr" /\ UNCHANGED <<chip, tx, sendq, proc, hisr, reported, astray, arrived, got, written>>

Bits(v) == {b \in {"PRX", "PTX"} : (IF b = "PRX" THEN v ELSE v \div 2) % 2 = 1} \cup {"other"}

\* The port of DP_ISR is that of DP_CURR when page 1 is selected.
int_isr ==
  /\ hpc = "isr" /\ astray' = (astray \/ crpage = 1)
  /\ IF crpage = 1 THEN hisr' = <<Bits(curr), curr>> /\ hpc' = "ack"
     ELSE IF isr = {} THEN hisr' = <<>> /\ hpc' = "off"
     ELSE hisr' = <<isr>> /\ hpc' = "ack"
  /\ UNCHANGED <<chip, tx, sendq, proc, reported, arrived, got, written>>

\* Mutation of int_ack: the status is left set.
int_ack_None ==
  /\ hpc = "ack" /\ hpc' = "ptx"
  /\ UNCHANGED <<chip, tx, sendq, proc, hisr, reported, astray, arrived, got, written>>

int_ack ==
  /\ hpc = "ack" /\ hpc' = "ptx" /\ astray' = (astray \/ crpage = 1)
  /\ IF crpage = 0 THEN isr' = isr \ hisr[1] /\ UNCHANGED curr
     ELSE curr' = (IF Len(hisr) = 2 THEN hisr[2] ELSE curr) /\ UNCHANGED isr
  /\ UNCHANGED <<crpage, crda, bnry, mem, hdr, tx, sendq, proc, hisr, reported, arrived, got, written>>

int_ptx ==
  /\ hpc = "ptx" /\ hpc' = "isr"
  /\ IF "PTX" \in hisr[1]
     THEN /\ sendq_tail' = sendq_tail + 1 /\ filled' = [filled EXCEPT ![(sendq_tail + 1) % SENDQ_LEN] = FALSE]
          /\ reported' = reported + 1
     ELSE UNCHANGED <<sendq_tail, filled, reported>>
  /\ UNCHANGED <<chip, tx, sendq_head, proc, hisr, astray, arrived, got, written>>

-----------------------------------------------------------------------------
Card == (\E n \in Lengths : Receive(n)) \/ DmaDone \/ TxDone
Write == (\E n \in OutSizes : write(n)) \/ rdma_setup \/ rdma_wait \/ outs \/ poll \/ start_xmit \/ count
Read == (\E n \in BufSizes : read(n)) \/ read_curr \/ read_page0 \/ read_copy \/ read_bnry
Handler == interrupt \/ int_isr \/ int_ack \/ int_ptx
Next == (Card \/ Write \/ Read \/ Handler) /\ UNCHANGED card
Spec == Init /\ [][Next]_vars

-----------------------------------------------------------------------------
(***************************************************************************)
(* What goes out are packets that were written, in that order and none     *)
(* twice: a send buffer is not written while its packet is on the way, and *)
(* its bytes are on the card when ne_start_xmit is called. None is left    *)
(* out as long as no transmission is started during another one.           *)
(***************************************************************************)
SentIsWritten ==
  /\ \A k \in 1..Len(sent) : sent[k] \in 1..Len(written)
  /\ \A j, k \in 1..Len(sent) : j < k => sent[j] < sent[k]
  /\ ~overlapped => \A k \in 1..Len(sent) : sent[k] = k

\* The buffers marked as filled are those between the two counters of the send queue.
FilledMatches == \A q \in Slots :
  (pc \notin {"xmit", "count"} \/ loc[1] # q) =>
    (filled[q] <=> \E i \in (sendq_tail - SENDQ_LEN + 1)..(sendq_head - 1) : i % SENDQ_LEN = q)

(***************************************************************************)
(* If the remote DMA is prompt, what goes out are packets that             *)
(* ne_pio_write was given, in that order, none twice and none mixed with   *)
(* another, and none is left out unless ne_start_xmit is called during a   *)
(* transmission. The buffers marked as filled are those between the two    *)
(* counters of the send queue, and ne_interrupt reports no more packets    *)
(* as transmitted than were, so that the buffer of the packet that is      *)
(* being sent is never reused, whatever was lost before it. All this       *)
(* unless the driver has gone astray.                                      *)
(***************************************************************************)
SendQueueSound == astray \/ ((prompt => SentIsWritten) /\ FilledMatches /\ reported <= Len(sent))

\* The bytes from the page at which packet k was stored to the end of the ring.
Remain(k) == (Ring - (arrived[k].at % Ring)) * DP_PAGESIZE

\* b holds packet k of n bytes, of which those beyond the first r are the ones HDR places before;
\* only on a wide card is anything stored behind them.
Copied(b, wide, k, n, r) ==
  /\ n <= Len(b) /\ Len(b) <= 2 * n /\ (wide \/ Len(b) = n)
  /\ \A i \in 1..n : b[i] = <<k, IF i <= r THEN i ELSE i - HDR>>

(***************************************************************************)
(* ne_pio_read returns the packets that arrived, in order, each once,      *)
(* however the ring wraps and whatever buffers were too small. Its bytes   *)
(* are those of the packet, except that of a packet that is longer than    *)
(* what remains of the ring the bytes beyond that are those HDR places     *)
(* before: ne_pio_read forgets the header when it counts what remains.     *)
(* On an 8-bit card nothing is stored behind the packet; on a 16-bit card  *)
(* up to as many bytes again are. All this unless the driver has gone      *)
(* astray.                                                                 *)
(***************************************************************************)
ReadsArrived == astray \/
                /\ Len(got) <= Len(arrived)
                /\ \A k \in 1..Len(got) : Copied(got[k], is16bit, k, arrived[k].len, Remain(k))

(***************************************************************************)
(* The interrupt handler comes to an end, unless the driver has gone       *)
(* astray, or a process on another CPU goes on and on with transfers, each *)
(* of which sets ISR_RDC again.                                            *)
(***************************************************************************)
HandlerEnds == <>[][pc' = pc]_vars => (hpc # "off" ~> hpc = "off" \/ astray)
=============================================================================
