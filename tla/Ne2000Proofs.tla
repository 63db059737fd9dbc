---------------------------- MODULE Ne2000Proofs ----------------------------
(***************************************************************************)
(* The send queue and the receive ring of the NE2000 driver, for every     *)
(* number of send buffers, size and position of the ring, size of a page   *)
(* and any packets. Nothing is claimed once the driver has gone astray.    *)
(* Packets are counted from 0: packet i goes through buffer i % SENDQ_LEN. *)
(* A page or byte of the ring is named by its position counted on where    *)
(* the ring wraps (Page, Addr).                                            *)
(***************************************************************************)
EXTENDS Ne2000, TLAPS

Buffer(i) == i % SENDQ_LEN
Writing == {"setup", "crda", "outs", "poll", "xmit", "count"}
Reading == {"curr", "page0", "copy", "bnry"}

\* Packets handed to the card.
Started == IF pc = "count" THEN sendq_head + 1 ELSE sendq_head

ControlInv ==
  /\ prompt \in BOOLEAN /\ crpage \in {0, 1} /\ pc \in {"idle"} \cup Writing \cup Reading
  /\ hpc \in {"off", "isr", "ack", "ptx"}

QueueInv ==
  /\ sendq_head \in Nat /\ reported \in Nat /\ sendq_tail = reported + SENDQ_LEN - 1
  /\ filled \in [Slots -> BOOLEAN] /\ sendmem \in [Slots -> Nat]
  /\ sent \in Seq(Nat) /\ written \in Seq(Nat)
  /\ txp # <<>> => txp[1] \in Slots
  /\ dma # <<>> => dma[1] \in Slots /\ dma[2] \in Nat
  /\ pc \in Writing => loc[1] = Buffer(sendq_head)

\* A packet is written, then started, then sent unless it is lost, then reported; no more than
\* SENDQ_LEN are started and not reported.
CountInv ==
  /\ Len(sent) <= Started /\ (txp # <<>> => Len(sent) < Started)
  /\ Len(written) = IF pc \in Writing THEN sendq_head + 1 ELSE sendq_head
  /\ sendq_head <= reported + SENDQ_LEN
  /\ pc \in Writing => sendq_head < reported + SENDQ_LEN

\* ISR_PTX, in the register or in the handler's hands, stands for a packet that was sent and not reported.
ReportInv ==
  /\ reported <= Len(sent)
  /\ "PTX" \in isr => reported < Len(sent)
  /\ hpc = "ack" /\ "PTX" \in hisr[1] => "PTX" \in isr
  /\ hpc = "ptx" /\ "PTX" \in hisr[1] => reported < Len(sent) /\ ("PTX" \in isr => reported + 1 < Len(sent))

\* A buffer is marked from the end of the copy until its packet, or a later one, is reported.
MarkInv ==
  /\ \A q \in Slots : pc \notin {"xmit", "count"} \/ q # Buffer(sendq_head) =>
       (filled[q] <=> \E i \in reported..(sendq_head - 1) : Buffer(i) = q)
  /\ pc \in {"xmit", "count"} => (filled[Buffer(sendq_head)] <=> reported <= sendq_head)

\* Packet number s is being transmitted: it comes after those that were sent, and is in its buffer.
OnAir(s) ==
  /\ s \in Nat \ {0} /\ Buffer(s - 1) = txp[1] /\ Len(sent) < s /\ s <= Started
  /\ \A k \in 1..Len(sent) : sent[k] < s

BytesInv ==
  /\ \A k \in 1..Len(written) : written[k] = k
  /\ prompt => /\ dma = <<>>
               /\ \A k \in 1..Len(sent) : sent[k] \in 1..Started
               /\ \A j, k \in 1..Len(sent) : j < k => sent[j] < sent[k]
               /\ txp # <<>> => OnAir(sendmem[txp[1]])
               /\ pc \in {"poll", "xmit"} => sendmem[Buffer(sendq_head)] = sendq_head + 1

\* Without overlapping transmissions all that was started is sent or being sent.
LossInv ==
  overlapped \/ /\ txp = <<>> => Len(sent) = Started
                /\ txp # <<>> => Len(sent) + 1 = Started
                /\ prompt => \A k \in 1..Len(sent) : sent[k] = k

SendInv == QueueInv /\ CountInv /\ ReportInv /\ MarkInv /\ BytesInv /\ LossInv

-----------------------------------------------------------------------------
Page(t) == recv_startpage + (t % Ring)
Span == Ring * DP_PAGESIZE
Addr(x) == recv_startpage * DP_PAGESIZE + (x % Span)

\* Packets taken from the ring, the page after them, and the others.
Taken == IF pc = "bnry" THEN Len(got) - 1 ELSE Len(got)
Front == IF Taken < Len(arrived) THEN arrived[Taken + 1].at ELSE Filled
Unread == (Taken + 1)..Len(arrived)
After(k) == arrived[k].at + Stored(arrived[k].len)

\* The position of byte i of packet k.
Byte(k, i) == arrived[k].at * DP_PAGESIZE + (HDR + i - 1)

RingInv ==
  /\ mem \in [(recv_startpage * DP_PAGESIZE)..(recv_stoppage * DP_PAGESIZE - 1) -> Nat \X Nat]
  /\ hdr \in [recv_startpage..(recv_stoppage - 1) -> [next : Nat, len : Nat]]
  /\ arrived \in Seq([len : Nat, at : Nat \ {0}]) /\ got \in Seq(Seq(Nat \X Nat))
  /\ Taken \in Nat /\ Taken <= Len(arrived)

\* What is unread begins after DP_BNRY and ends before DP_CURR, and does not fill the ring.
WindowInv ==
  /\ curr = Page(Filled) /\ bnry = Page(Front - 1)
  /\ Front <= Filled /\ Filled + 1 < Front + Ring

\* The packets are one behind the other, with their headers and bytes.
ChainInv ==
  /\ \A k \in Unread : Front <= arrived[k].at /\ After(k) <= Filled
  /\ \A k \in Unread : k + 1 \in Unread => arrived[k + 1].at = After(k)
  /\ \A j, k \in Unread : j < k => After(j) <= arrived[k].at

DataInv ==
  \A k \in Unread :
    /\ hdr[Page(arrived[k].at)] = [next |-> Page(After(k)), len |-> arrived[k].len]
    /\ \A i \in 1..arrived[k].len : mem[Addr(Byte(k, i))] = <<k, i>>

\* A reader that has found DP_CURR elsewhere than the front has a packet to read.
ReadInv ==
  /\ pc = "curr" => loc \in Seq(Nat) /\ Len(loc) = 1
  /\ pc \in {"page0", "copy"} => loc \in Seq(Nat) /\ Len(loc) = 2 /\ (loc[2] # Page(Front) => Taken < Len(arrived))
  /\ pc = "bnry" => loc = <<Page(Front)>> /\ Taken < Len(arrived)

\* What was read is what arrived.
GotInv ==
  /\ Len(got) <= Len(arrived)
  /\ \A k \in 1..Len(got) : Copied(got[k], is16bit, k, arrived[k].len, Remain(k))

RecvInv == RingInv /\ WindowInv /\ ChainInv /\ DataInv /\ ReadInv /\ GotInv

IInv == astray \/ (ControlInv /\ SendInv /\ RecvInv)

-----------------------------------------------------------------------------
(* Division with remainder, in the form that the solver uses.               *)
LEMMA Quotient ==
  ASSUME NEW P \in Nat \ {0}, NEW a \in Nat
  PROVE  (a % P) \in 0..(P - 1) /\ \E k \in Nat : a = P * k + (a % P)
  <1>1. (a % P) \in 0..(P - 1) /\ a \div P \in Nat /\ a = P * (a \div P) + (a % P)
    OBVIOUS
  <1> QED BY <1>1, Zenon

(* The remainder of a multiple of P plus something less than P.             *)
LEMMA Remainder ==
  ASSUME NEW P \in Nat \ {0}, NEW k \in Nat, NEW x \in 0..(P - 1)
  PROVE  (P * k + x) % P = x
  OBVIOUS

(* Numbers less than P apart differ modulo P.                               *)
LEMMA Apart ==
  ASSUME NEW P \in Nat \ {0}, NEW a \in Nat, NEW b \in Nat, a < b, b < a + P
  PROVE  a % P # b % P
  <1> SUFFICES ASSUME a % P = b % P PROVE FALSE
    BY Zenon
  <1>1. PICK k \in Nat : a = P * k + (a % P)
    BY Quotient, Zenon
  <1>2. PICK m \in Nat : b = P * m + (b % P)
    BY Quotient, Zenon
  <1>3. (a % P) \in Nat
    BY Quotient
  <1>4. b - a = P * (m - k)
    BY <1>1, <1>2, <1>3
  <1> QED BY <1>4

(* Buffers of the send queue: any SENDQ_LEN packets in a row have different *)
(* ones.                                                                    *)
LEMMA Buffers ==
  ASSUME NEW i \in Nat
  PROVE  /\ Buffer(i) \in Slots /\ Buffer(i + SENDQ_LEN) = Buffer(i)
         /\ \A j \in Nat : i < j /\ j < i + SENDQ_LEN => Buffer(i) # Buffer(j)
  <1> DEFINE P == SENDQ_LEN
  <1>0. P \in Nat \ {0}
    BY NeAssumption, Zenon
  <1>1. Slots = 0..(P - 1) /\ \A x : Buffer(x) = x % P
    BY Zenon DEF Slots, Buffer
  <1> HIDE DEF P
  <1>2. i % P \in 0..(P - 1)
    BY <1>0, Quotient, Zenon
  <1>3. PICK k \in Nat : i = P * k + (i % P)
    BY <1>0, Quotient, Zenon
  <1>4. i + P = P * (k + 1) + (i % P) /\ k + 1 \in Nat
    BY <1>0, <1>2, <1>3
  <1>5. (i + P) % P = i % P
    BY <1>0, <1>2, <1>4, Remainder, Zenon
  <1>6. \A j \in Nat : i < j /\ j < i + P => i % P # j % P
    BY <1>0, Apart, Zenon
  <1> QED BY <1>1, <1>2, <1>5, <1>6, Zenon DEF P

-----------------------------------------------------------------------------
(* Steps that do not concern the send queue.                                *)
LEMMA SendStill ==
  ASSUME SendInv, UNCHANGED <<prompt, filled, sendq_head, sendq_tail, sendmem, dma, txp, overlapped, sent, written, reported, hpc, hisr>>,
         "PTX" \in isr' <=> "PTX" \in isr,
         UNCHANGED <<pc, loc>> \/ (pc \notin Writing /\ pc' \notin Writing)
  PROVE  SendInv'
  <1>0. QueueInv /\ CountInv /\ ReportInv /\ MarkInv /\ BytesInv /\ LossInv
    BY Zenon DEF SendInv
  <1>1. /\ prompt' = prompt /\ filled' = filled /\ sendq_head' = sendq_head /\ sendq_tail' = sendq_tail
        /\ sendmem' = sendmem /\ dma' = dma /\ txp' = txp /\ overlapped' = overlapped /\ sent' = sent /\ written' = written
        /\ reported' = reported /\ hpc' = hpc /\ hisr' = hisr
    BY Zenon
  <1>2. (pc' \in Writing <=> pc \in Writing) /\ (pc' \in Writing => pc' = pc /\ loc' = loc)
    BY Zenon
  <1>3. /\ pc' \in {"xmit", "count"} <=> pc \in {"xmit", "count"}
        /\ pc' \in {"poll", "xmit"} <=> pc \in {"poll", "xmit"}
        /\ pc' = "count" <=> pc = "count"
    BY <1>2, Zenon DEF Writing
  <1>4. Started' = Started
    BY <1>1, <1>3, Zenon DEF Started
  <1>5. QueueInv' /\ CountInv'
    BY <1>0, <1>1, <1>2, <1>4, Zenon DEF QueueInv, CountInv
  <1>6. ReportInv'
    BY <1>0, <1>1, Zenon DEF ReportInv
  <1>7. MarkInv'
    BY <1>0, <1>1, <1>3, Zenon DEF MarkInv
  <1>8. BytesInv'
    <2>1. CASE prompt
      BY <1>0, <1>1, <1>3, <1>4, <2>1, Zenon DEF BytesInv, OnAir
    <2>2. CASE ~prompt
      <3>1. ~prompt'
        BY <1>1, <2>2
      <3> QED BY <1>0, <1>1, <3>1, Zenon DEF BytesInv
    <2> QED BY <2>1, <2>2, Zenon
  <1>9. LossInv'
    BY <1>0, <1>1, <1>4 DEF LossInv
  <1> QED BY <1>5, <1>6, <1>7, <1>8, <1>9, Zenon DEF SendInv

(* The card ends a remote write. This happens later only if it is not       *)
(* prompt.                                                                  *)
LEMMA DmaDoneSend ==
  ASSUME SendInv, DmaDone, UNCHANGED prompt
  PROVE  SendInv'
  <1>0. QueueInv /\ CountInv /\ ReportInv /\ MarkInv /\ BytesInv /\ LossInv
    BY Zenon DEF SendInv
  <1>1. /\ dma # <<>> /\ sendmem' = [sendmem EXCEPT ![dma[1]] = dma[2]] /\ dma' = <<>>
        /\ isr' = isr \cup {"RDC"}
        /\ filled' = filled /\ sendq_head' = sendq_head /\ sendq_tail' = sendq_tail
        /\ txp' = txp /\ overlapped' = overlapped /\ sent' = sent /\ written' = written
        /\ reported' = reported /\ hpc' = hpc /\ hisr' = hisr /\ pc' = pc /\ loc' = loc
    BY Zenon DEF DmaDone, sendq, proc, handler
  <1>2. ~prompt' /\ ("PTX" \in isr' <=> "PTX" \in isr)
    BY <1>0, <1>1 DEF BytesInv
  <1>3. sendmem' \in [Slots -> Nat]
    BY <1>0, <1>1 DEF QueueInv
  <1>4. Started' = Started
    BY <1>1, Zenon DEF Started
  <1>5. QueueInv' /\ CountInv'
    BY <1>0, <1>1, <1>3, <1>4, Zenon DEF QueueInv, CountInv
  <1>6. ReportInv' /\ MarkInv'
    BY <1>0, <1>1, <1>2, Zenon DEF ReportInv, MarkInv
  <1>7. BytesInv'
    BY <1>0, <1>1, <1>2, Zenon DEF BytesInv
  <1>8. LossInv'
    BY <1>0, <1>1, <1>2, <1>4 DEF LossInv
  <1> QED BY <1>5, <1>6, <1>7, <1>8, Zenon DEF SendInv

(* The card has sent a packet.                                              *)
LEMMA TxDoneSend ==
  ASSUME SendInv, TxDone, UNCHANGED prompt
  PROVE  SendInv'
  <1>0. QueueInv /\ CountInv /\ ReportInv /\ MarkInv /\ BytesInv /\ LossInv
    BY Zenon DEF SendInv
  <1>1. /\ txp # <<>> /\ txp' = <<>> /\ sent' = Append(sent, sendmem[txp[1]]) /\ overlapped' = overlapped
        /\ isr' = isr \cup {"PTX"} /\ sendmem' = sendmem /\ dma' = dma
        /\ filled' = filled /\ sendq_head' = sendq_head /\ sendq_tail' = sendq_tail
        /\ written' = written /\ reported' = reported /\ hpc' = hpc /\ hisr' = hisr /\ pc' = pc /\ loc' = loc
    BY Zenon DEF TxDone, sendq, proc, handler
  <1>2. sent \in Seq(Nat) /\ sendmem[txp[1]] \in Nat /\ reported \in Nat /\ sendq_head \in Nat
    BY <1>0, <1>1, Zenon DEF QueueInv
  <1>3. /\ sent' \in Seq(Nat) /\ Len(sent') = Len(sent) + 1 /\ Len(sent) \in Nat
        /\ \A k \in 1..Len(sent) : sent'[k] = sent[k]
        /\ sent'[Len(sent) + 1] = sendmem[txp[1]]
    BY <1>1, <1>2
  <1>4. Started' = Started /\ Started \in Nat /\ Len(sent) < Started
    <2>1. Started' = Started
      BY <1>1, Zenon DEF Started
    <2>2. Started \in Nat
      BY <1>2 DEF Started
    <2> QED BY <1>0, <1>1, <2>1, <2>2, Zenon DEF CountInv
  <1>5. QueueInv'
    BY <1>0, <1>1, <1>3, Zenon DEF QueueInv
  <1>6. CountInv'
    <2>1. Len(sent') <= Started
      BY <1>3, <1>4
    <2> QED BY <1>0, <1>1, <1>4, <2>1, Zenon DEF CountInv
  <1>7. ReportInv'
    BY <1>0, <1>1, <1>2, <1>3 DEF ReportInv
  <1>8. MarkInv'
    BY <1>0, <1>1, Zenon DEF MarkInv
  <1>9. \A k \in 1..Len(sent') : k \in 1..Len(sent) \/ k = Len(sent) + 1
    BY <1>3
  <1>10. ASSUME prompt' PROVE OnAir(sendmem[txp[1]])
    <2>1. prompt
      BY <1>10
    <2> QED BY <1>0, <1>1, <2>1, Zenon DEF BytesInv
  <1>11. BytesInv'
    <2>1. ASSUME prompt'
          PROVE  /\ \A k \in 1..Len(sent') : sent'[k] \in 1..Started
                 /\ \A j, k \in 1..Len(sent') : j < k => sent'[j] < sent'[k]
      <3>1. prompt
        BY <2>1
      <3>2. /\ \A k \in 1..Len(sent) : sent[k] \in 1..Started
            /\ \A j, k \in 1..Len(sent) : j < k => sent[j] < sent[k]
        BY <1>0, <3>1, Zenon DEF BytesInv
      <3> DEFINE s == sendmem[txp[1]]
      <3>3. s \in 1..Started /\ \A k \in 1..Len(sent) : sent[k] < s
        BY <1>4, <1>10, <2>1 DEF OnAir
      <3>4. sent'[Len(sent) + 1] = s
        BY <1>3
      <3> HIDE DEF s
      <3>5. \A j, k \in 1..Len(sent') : j < k => j \in 1..Len(sent)
        BY <1>3
      <3> QED BY <1>3, <1>9, <3>2, <3>3, <3>4, <3>5, Zenon
    <2>2. /\ \A k \in 1..Len(written') : written'[k] = k
          /\ prompt' => dma' = <<>> /\ (pc' \in {"poll", "xmit"} => sendmem'[Buffer(sendq_head')] = sendq_head' + 1)
      BY <1>0, <1>1, Zenon DEF BytesInv
    <2> QED BY <1>1, <1>4, <2>1, <2>2, Zenon DEF BytesInv
  <1>12. LossInv'
    <2> SUFFICES ASSUME ~overlapped' PROVE Len(sent') = Started' /\ (prompt' => \A k \in 1..Len(sent') : sent'[k] = k)
      BY <1>1, Zenon DEF LossInv
    <2>1. ~overlapped
      BY <1>1
    <2>2. Len(sent) + 1 = Started /\ (prompt => \A k \in 1..Len(sent) : sent[k] = k)
      BY <1>0, <1>1, <2>1, Zenon DEF LossInv
    <2>3. ASSUME prompt', NEW k \in 1..Len(sent') PROVE sent'[k] = k
      <3>1. prompt
        BY <2>3
      <3>2. sendmem[txp[1]] = Len(sent) + 1
        <4> DEFINE s == sendmem[txp[1]]
        <4>1. s \in Nat /\ Len(sent) < s /\ s <= Started
          BY <1>2, <1>10, <2>3 DEF OnAir
        <4> HIDE DEF s
        <4>2. s = Len(sent) + 1
          BY <1>3, <2>2, <4>1
        <4> QED BY <4>2 DEF s
      <3> QED BY <1>3, <1>9, <2>2, <3>1, <3>2, Zenon
    <2> QED BY <1>3, <1>4, <2>2, <2>3, Zenon
  <1> QED BY <1>5, <1>6, <1>7, <1>8, <1>11, <1>12, Zenon DEF SendInv

(* ne_pio_write has found a free buffer, or returns.                        *)
LEMMA WriteSend ==
  ASSUME SendInv, NEW n, write(n), UNCHANGED prompt
  PROVE  SendInv'
  <1> DEFINE q == sendq_head % SENDQ_LEN
  <1>0. QueueInv /\ CountInv /\ ReportInv /\ MarkInv /\ BytesInv /\ LossInv
    BY Zenon DEF SendInv
  <1>1. /\ pc = "idle" /\ isr' = isr /\ sendmem' = sendmem /\ dma' = dma /\ txp' = txp /\ overlapped' = overlapped /\ sent' = sent
        /\ filled' = filled /\ sendq_head' = sendq_head /\ sendq_tail' = sendq_tail
        /\ reported' = reported /\ hpc' = hpc /\ hisr' = hisr
    BY Zenon DEF write, Starts, chip, tx, sendq, handler
  <1>2. CASE filled[q] \/ sendq_head > sendq_tail
    <2>1. pc' = "idle" /\ written' = written
      BY <1>2, Zenon DEF write, Return
    <2>2. pc \notin Writing /\ pc' \notin Writing
      BY <1>1, <2>1, Zenon DEF Writing
    <2> QED BY <1>1, <2>1, <2>2, SendStill, Zenon
  <1>3. CASE ~(filled[q] \/ sendq_head > sendq_tail)
    <2>1. pc' = "setup" /\ loc' = <<q, n>> /\ written' = Append(written, Len(written) + 1)
      BY <1>3, Zenon DEF write, Goto
    <2>2. /\ sendq_head \in Nat /\ reported \in Nat /\ sendq_tail = reported + SENDQ_LEN - 1
          /\ written \in Seq(Nat) /\ ~(sendq_head > sendq_tail) /\ SENDQ_LEN \in Nat \ {0}
      BY <1>0, <1>3, NeAssumption, Zenon DEF QueueInv
    <2>3. sendq_head < reported + SENDQ_LEN
      BY <2>2
    <2>4. /\ pc' \in Writing /\ pc \notin Writing /\ pc' \notin {"poll", "xmit", "count"}
          /\ pc \notin {"poll", "xmit", "count"} /\ pc' # "count"
      BY <1>1, <2>1, Zenon DEF Writing
    <2>5. Len(written) = sendq_head
      BY <1>0, <2>4, Zenon DEF CountInv
    <2>6. /\ written' \in Seq(Nat) /\ Len(written') = sendq_head + 1
          /\ \A k \in 1..sendq_head : written'[k] = written[k]
          /\ written'[sendq_head + 1] = sendq_head + 1
      BY <2>1, <2>2, <2>5
    <2>a. loc'[1] = Buffer(sendq_head)
      BY <2>1 DEF Buffer
    <2>b. Started' = Started
      BY <1>1, <2>4, Zenon DEF Started
    <2>7. QueueInv'
      BY <1>0, <1>1, <2>6, <2>a, Zenon DEF QueueInv
    <2>8. CountInv'
      BY <1>0, <1>1, <2>3, <2>4, <2>6, <2>b, Zenon DEF CountInv
    <2>9. ReportInv' /\ MarkInv'
      BY <1>0, <1>1, <2>4, Zenon DEF ReportInv, MarkInv
    <2>10. BytesInv'
      <3>1. ASSUME NEW k \in 1..Len(written') PROVE written'[k] = k
        <4>1. k \in 1..sendq_head \/ k = sendq_head + 1
          BY <2>2, <2>6
        <4>2. \A m \in 1..sendq_head : written[m] = m
          BY <1>0, <2>5, Zenon DEF BytesInv
        <4> QED BY <2>6, <4>1, <4>2, Zenon
      <3> QED BY <1>0, <1>1, <2>4, <2>b, <3>1, Zenon DEF BytesInv, OnAir
    <2>11. LossInv'
      BY <1>0, <1>1, <2>b DEF LossInv
    <2> QED BY <2>7, <2>8, <2>9, <2>10, <2>11, Zenon DEF SendInv
  <1> QED BY <1>2, <1>3, Zenon

(* ne_rdma_setup.                                                           *)
LEMMA SetupSend ==
  ASSUME SendInv, rdma_setup \/ rdma_wait, UNCHANGED prompt
  PROVE  SendInv'
  <1>0. QueueInv /\ CountInv /\ ReportInv /\ MarkInv /\ BytesInv /\ LossInv
    BY Zenon DEF SendInv
  <1>1. /\ pc \in {"setup", "crda"} /\ pc' \in {"crda", "outs"}
        /\ sendmem' = sendmem /\ dma' = dma /\ txp' = txp /\ overlapped' = overlapped /\ sent' = sent
        /\ filled' = filled /\ sendq_head' = sendq_head /\ sendq_tail' = sendq_tail
        /\ reported' = reported /\ hpc' = hpc /\ hisr' = hisr /\ written' = written
    BY Zenon DEF rdma_setup, rdma_wait, Goto, tx, sendq, handler
  <1>2. "PTX" \in isr' <=> "PTX" \in isr
    BY DEF rdma_setup, rdma_wait, chip
  <1>3. loc'[1] = loc[1]
    BY DEF rdma_setup, rdma_wait
  <1>4. /\ pc' \in Writing /\ pc \in Writing /\ pc' \notin {"poll", "xmit", "count"}
        /\ pc \notin {"poll", "xmit", "count"} /\ Started' = Started
    BY <1>1, Zenon DEF Writing, Started
  <1>5. QueueInv' /\ CountInv'
    BY <1>0, <1>1, <1>3, <1>4, Zenon DEF QueueInv, CountInv
  <1>6. ReportInv' /\ MarkInv'
    BY <1>0, <1>1, <1>2, <1>4, Zenon DEF ReportInv, MarkInv
  <1>7. BytesInv'
    BY <1>0, <1>1, <1>4, Zenon DEF BytesInv, OnAir
  <1>8. LossInv'
    BY <1>0, <1>1, <1>4 DEF LossInv
  <1> QED BY <1>5, <1>6, <1>7, <1>8, Zenon DEF SendInv

(* The bytes go to the card: into a buffer other than that of the packet    *)
(* that is being transmitted.                                               *)
LEMMA OutsSend ==
  ASSUME SendInv, outs, UNCHANGED prompt
  PROVE  SendInv'
  <1>0. QueueInv /\ CountInv /\ ReportInv /\ MarkInv /\ BytesInv /\ LossInv
    BY Zenon DEF SendInv
  <1>1. /\ pc = "outs" /\ pc' = "poll" /\ txp' = txp /\ overlapped' = overlapped /\ sent' = sent
        /\ filled' = filled /\ sendq_head' = sendq_head /\ sendq_tail' = sendq_tail
        /\ reported' = reported /\ hpc' = hpc /\ hisr' = hisr /\ loc' = loc /\ written' = written
    BY Zenon DEF outs, Goto, sendq, handler
  <1>2. /\ pc' \in Writing /\ pc \in Writing /\ pc' \notin {"xmit", "count"}
        /\ pc \notin {"poll", "xmit", "count"} /\ Started' = Started /\ Started = sendq_head
    BY <1>1, Zenon DEF Writing, Started
  <1>3. loc[1] = Buffer(sendq_head) /\ Len(written) = sendq_head + 1
    BY <1>0, <1>2 DEF QueueInv, CountInv
  <1>4. /\ sendq_head \in Nat /\ reported \in Nat /\ SENDQ_LEN \in Nat /\ sendmem \in [Slots -> Nat]
        /\ Buffer(sendq_head) \in Slots /\ sent \in Seq(Nat)
    BY <1>0, NeAssumption, Buffers, Zenon DEF QueueInv
  <1>5. \/ prompt /\ isr' = isr \cup {"RDC"} /\ sendmem' = [sendmem EXCEPT ![Buffer(sendq_head)] = sendq_head + 1]
                  /\ dma' = dma
        \/ ~prompt /\ dma' = <<Buffer(sendq_head), sendq_head + 1>> /\ isr' = isr /\ sendmem' = sendmem
    BY <1>3, Zenon DEF outs
  <1>6. "PTX" \in isr' <=> "PTX" \in isr
    BY <1>5
  <1>7. sendmem' \in [Slots -> Nat] /\ (dma' # <<>> => dma'[1] \in Slots /\ dma'[2] \in Nat)
    <2>1. CASE prompt
      <3>1. sendmem' = [sendmem EXCEPT ![Buffer(sendq_head)] = sendq_head + 1] /\ dma' = dma /\ sendq_head + 1 \in Nat
        BY <1>4, <1>5, <2>1
      <3> QED BY <1>0, <1>4, <3>1, Zenon DEF QueueInv
    <2>2. CASE ~prompt
      BY <1>0, <1>4, <1>5, <2>2 DEF QueueInv
    <2> QED BY <2>1, <2>2, Zenon
  <1>8. QueueInv' /\ CountInv'
    BY <1>0, <1>1, <1>2, <1>7, Zenon DEF QueueInv, CountInv
  <1>9. ReportInv' /\ MarkInv'
    BY <1>0, <1>1, <1>2, <1>6, Zenon DEF ReportInv, MarkInv
  <1>10. BytesInv'
    <2>1. CASE ~prompt
      BY <1>0, <1>1, <2>1, Zenon DEF BytesInv
    <2>2. CASE prompt
      <3>1. sendmem' = [sendmem EXCEPT ![Buffer(sendq_head)] = sendq_head + 1] /\ dma' = <<>>
        BY <1>0, <1>5, <2>2, Zenon DEF BytesInv
      <3>2. sendmem'[Buffer(sendq_head)] = sendq_head + 1
        BY <1>4, <3>1, Zenon
      <3>3. ASSUME txp # <<>> PROVE sendmem'[txp[1]] = sendmem[txp[1]] /\ OnAir(sendmem[txp[1]])
        <4> DEFINE s == sendmem[txp[1]]
        <4>1. OnAir(s) /\ txp[1] \in Slots /\ sendq_head < reported + SENDQ_LEN /\ reported <= Len(sent)
          BY <1>0, <1>2, <2>2, <3>3, Zenon DEF BytesInv, QueueInv, CountInv, ReportInv
        <4>2. s \in Nat \ {0} /\ Buffer(s - 1) = txp[1] /\ Len(sent) < s /\ s <= sendq_head
          BY <1>2, <4>1, Zenon DEF OnAir
        <4> HIDE DEF s
        <4>3. s - 1 \in Nat /\ s - 1 < sendq_head /\ sendq_head < s - 1 + SENDQ_LEN
          BY <1>4, <4>1, <4>2
        <4>4. Buffer(s - 1) # Buffer(sendq_head)
          BY <1>4, <4>3, Buffers, Zenon
        <4>5. sendmem'[txp[1]] = sendmem[txp[1]]
          BY <1>4, <3>1, <4>1, <4>2, <4>4, Zenon
        <4> QED BY <4>1, <4>5, Zenon DEF s
      <3> QED BY <1>0, <1>1, <1>2, <2>2, <3>1, <3>2, <3>3, Zenon DEF BytesInv, OnAir
    <2> QED BY <2>1, <2>2, Zenon
  <1>11. LossInv'
    BY <1>0, <1>1, <1>2 DEF LossInv
  <1> QED BY <1>8, <1>9, <1>10, <1>11, Zenon DEF SendInv

(* ISR_RDC is set: the buffer is marked.                                    *)
LEMMA PollSend ==
  ASSUME SendInv, poll, UNCHANGED prompt
  PROVE  SendInv'
  <1>0. QueueInv /\ CountInv /\ ReportInv /\ MarkInv /\ BytesInv /\ LossInv
    BY Zenon DEF SendInv
  <1>1. /\ pc = "poll" /\ pc' = "xmit" /\ txp' = txp /\ overlapped' = overlapped /\ sent' = sent /\ isr' = isr /\ sendmem' = sendmem /\ dma' = dma
        /\ filled' = [filled EXCEPT ![loc[1]] = TRUE] /\ sendq_head' = sendq_head /\ sendq_tail' = sendq_tail
        /\ reported' = reported /\ hpc' = hpc /\ hisr' = hisr /\ loc' = loc /\ written' = written
    BY Zenon DEF poll, Goto, chip, tx, handler
  <1>2. /\ pc' \in Writing /\ pc \in Writing /\ pc' \in {"xmit", "count"} /\ pc \in {"poll", "xmit"}
        /\ pc \notin {"xmit", "count"} /\ Started' = Started /\ Started = sendq_head
    BY <1>1, Zenon DEF Writing, Started
  <1>3. loc[1] = Buffer(sendq_head)
    BY <1>0, <1>2 DEF QueueInv
  <1>4. /\ sendq_head \in Nat /\ reported \in Nat /\ filled \in [Slots -> BOOLEAN]
        /\ Buffer(sendq_head) \in Slots /\ sent \in Seq(Nat)
    BY <1>0, Buffers, Zenon DEF QueueInv
  <1>5. /\ filled' \in [Slots -> BOOLEAN] /\ filled'[Buffer(sendq_head)]
        /\ \A q \in Slots : q # Buffer(sendq_head) => filled'[q] = filled[q]
    BY <1>1, <1>3, <1>4, Zenon
  <1>6. reported <= sendq_head
    <2>1. reported <= Len(sent) /\ Len(sent) <= sendq_head
      BY <1>0, <1>2, Zenon DEF CountInv, ReportInv
    <2>2. Len(sent) \in Nat
      BY <1>4
    <2> QED BY <1>4, <2>1, <2>2
  <1>7. QueueInv' /\ CountInv'
    BY <1>0, <1>1, <1>2, <1>5, Zenon DEF QueueInv, CountInv
  <1>8. ReportInv'
    BY <1>0, <1>1, <1>2, Zenon DEF ReportInv
  <1>9. MarkInv'
    BY <1>0, <1>1, <1>2, <1>5, <1>6, Zenon DEF MarkInv
  <1>10. BytesInv'
    BY <1>0, <1>1, <1>2, Zenon DEF BytesInv, OnAir
  <1>11. LossInv'
    BY <1>0, <1>1, <1>2 DEF LossInv
  <1> QED BY <1>7, <1>8, <1>9, <1>10, <1>11, Zenon DEF SendInv

(* ne_start_xmit.                                                           *)
LEMMA XmitSend ==
  ASSUME SendInv, start_xmit, UNCHANGED prompt
  PROVE  SendInv'
  <1>0. QueueInv /\ CountInv /\ ReportInv /\ MarkInv /\ BytesInv /\ LossInv
    BY Zenon DEF SendInv
  <1>1. /\ pc = "xmit" /\ pc' = "count" /\ overlapped' = (overlapped \/ txp # <<>>)
        /\ (txp' = <<loc[1]>> \/ (txp # <<>> /\ txp' = txp))
        /\ sent' = sent /\ isr' = isr /\ sendmem' = sendmem /\ dma' = dma
        /\ filled' = filled /\ sendq_head' = sendq_head /\ sendq_tail' = sendq_tail
        /\ reported' = reported /\ hpc' = hpc /\ hisr' = hisr /\ loc' = loc /\ written' = written
    BY Zenon DEF start_xmit, Goto, chip, sendq, handler
  <1>2. /\ pc' \in Writing /\ pc \in Writing /\ pc' \in {"xmit", "count"} /\ pc \in {"xmit", "count"}
        /\ pc \in {"poll", "xmit"} /\ pc' \notin {"poll", "xmit"}
        /\ Started' = sendq_head + 1 /\ Started = sendq_head
    BY <1>1, Zenon DEF Writing, Started
  <1>3. loc[1] = Buffer(sendq_head) /\ sendq_head \in Nat /\ sent \in Seq(Nat)
    BY <1>0, <1>2, Zenon DEF QueueInv
  <1>4. Buffer(sendq_head) \in Slots /\ Len(sent) <= sendq_head /\ Len(sent) \in Nat
    <2>1. Len(sent) \in Nat
      BY <1>3
    <2> QED BY <1>0, <1>2, <1>3, <2>1, Buffers, Zenon DEF CountInv
  <1>5. Len(sent) <= sendq_head + 1 /\ Len(sent) < sendq_head + 1 /\ (sendq_head + 1) - 1 = sendq_head
    BY <1>3, <1>4
  <1>6. txp' # <<>> /\ (txp' = txp \/ txp'[1] = Buffer(sendq_head))
    <2>1. \A x : <<x>> # <<>> /\ <<x>>[1] = x
      OBVIOUS
    <2> QED BY <1>1, <1>3, <2>1, Zenon
  <1>7. QueueInv' /\ CountInv'
    BY <1>0, <1>1, <1>2, <1>4, <1>5, <1>6, Zenon DEF QueueInv, CountInv
  <1>8. ReportInv' /\ MarkInv'
    BY <1>0, <1>1, <1>2, Zenon DEF ReportInv, MarkInv
  <1>9. ASSUME prompt PROVE \A k \in 1..Len(sent) : sent[k] \in 1..sendq_head /\ sent[k] < sendq_head + 1 /\ sent[k] \in 1..(sendq_head + 1)
    <2>1. \A k \in 1..Len(sent) : sent[k] \in 1..sendq_head
      BY <1>0, <1>2, <1>9, Zenon DEF BytesInv
    <2> QED BY <1>3, <2>1
  <1>10. ASSUME prompt PROVE OnAir(sendmem[txp[1]])'
    <2>1. CASE txp' = txp /\ txp # <<>>
      <3> DEFINE s == sendmem[txp[1]]
      <3>1. OnAir(s)
        BY <1>0, <1>10, <2>1, Zenon DEF BytesInv
      <3>2. s \in Nat \ {0} /\ s <= sendq_head
        BY <1>2, <3>1, Zenon DEF OnAir
      <3>3. sendmem'[txp'[1]] = s
        BY <1>1, <2>1, Zenon
      <3> HIDE DEF s
      <3>4. s <= sendq_head + 1
        BY <1>3, <3>2
      <3> QED BY <1>1, <1>2, <2>1, <3>1, <3>3, <3>4, Zenon DEF OnAir
    <2>2. CASE txp' = <<loc[1]>>
      <3>1. txp'[1] = Buffer(sendq_head) /\ sendmem'[txp'[1]] = sendq_head + 1 /\ sendq_head + 1 \in Nat \ {0}
        <4>1. txp'[1] = Buffer(sendq_head) /\ sendq_head + 1 \in Nat \ {0}
          BY <1>3, <2>2
        <4>2. sendmem[Buffer(sendq_head)] = sendq_head + 1
          BY <1>0, <1>2, <1>10, Zenon DEF BytesInv
        <4> QED BY <1>1, <4>1, <4>2, Zenon
      <3>2. sendq_head + 1 <= sendq_head + 1
        BY <1>3
      <3> QED BY <1>1, <1>2, <1>5, <1>9, <1>10, <3>1, <3>2, Zenon DEF OnAir
    <2> QED BY <1>1, <2>1, <2>2, Zenon
  <1>11. BytesInv'
    <2>1. prompt' => prompt
      OBVIOUS
    <2> QED BY <1>0, <1>1, <1>2, <1>9, <1>10, <2>1, Zenon DEF BytesInv
  <1>12. LossInv'
    <2> SUFFICES ASSUME ~overlapped'
                 PROVE  Len(sent) + 1 = sendq_head + 1 /\ (prompt' => \A k \in 1..Len(sent) : sent[k] = k)
      BY <1>1, <1>2, <1>6, Zenon DEF LossInv
    <2>1. ~overlapped /\ txp = <<>>
      BY <1>1, Zenon
    <2>2. Len(sent) = sendq_head /\ (prompt => \A k \in 1..Len(sent) : sent[k] = k)
      BY <1>0, <1>2, <2>1, Zenon DEF LossInv
    <2>3. prompt' => prompt
      OBVIOUS
    <2> QED BY <2>2, <2>3, Zenon
  <1> QED BY <1>7, <1>8, <1>11, <1>12, Zenon DEF SendInv

(* sendq_head is counted up, perhaps after the packet was sent and even     *)
(* reported.                                                                *)
LEMMA CountSend ==
  ASSUME SendInv, count, UNCHANGED prompt
  PROVE  SendInv'
  <1>0. QueueInv /\ CountInv /\ ReportInv /\ MarkInv /\ BytesInv /\ LossInv
    BY Zenon DEF SendInv
  <1>1. /\ pc = "count" /\ pc' = "idle" /\ txp' = txp /\ overlapped' = overlapped /\ sent' = sent /\ isr' = isr /\ sendmem' = sendmem /\ dma' = dma
        /\ filled' = filled /\ sendq_head' = sendq_head + 1 /\ sendq_tail' = sendq_tail
        /\ reported' = reported /\ hpc' = hpc /\ hisr' = hisr /\ written' = written
    BY Zenon DEF count, Return, chip, tx, handler
  <1>2. /\ pc' \notin Writing /\ pc \in Writing /\ pc \in {"xmit", "count"} /\ pc' \notin {"poll", "xmit", "count"}
        /\ Started' = sendq_head + 1 /\ Started = sendq_head + 1
    BY <1>1, Zenon DEF Writing, Started
  <1>3. sendq_head \in Nat /\ reported \in Nat /\ SENDQ_LEN \in Nat
    BY <1>0, NeAssumption, Zenon DEF QueueInv
  <1>4. sendq_head + 1 \in Nat /\ (sendq_head + 1) - 1 = sendq_head
    BY <1>3
  <1>5. QueueInv'
    BY <1>0, <1>1, <1>2, <1>4, Zenon DEF QueueInv
  <1>6. CountInv'
    <2>1. sendq_head < reported + SENDQ_LEN
      BY <1>0, <1>2, Zenon DEF CountInv
    <2>2. sendq_head + 1 <= reported + SENDQ_LEN
      BY <1>3, <2>1
    <2> QED BY <1>0, <1>1, <1>2, <2>2, Zenon DEF CountInv
  <1>7. ReportInv'
    BY <1>0, <1>1, Zenon DEF ReportInv
  <1>8. MarkInv'
    <2>1. ASSUME NEW q \in Slots
          PROVE  filled[q] <=> \E i \in reported..sendq_head : Buffer(i) = q
      <3>1. CASE q # Buffer(sendq_head)
        <4>1. filled[q] <=> \E i \in reported..(sendq_head - 1) : Buffer(i) = q
          BY <1>0, <3>1, Zenon DEF MarkInv
        <4>2. reported..(sendq_head - 1) \subseteq reported..sendq_head
          BY <1>3
        <4>3. \A i \in reported..sendq_head : i \in reported..(sendq_head - 1) \/ i = sendq_head
          BY <1>3
        <4> QED BY <3>1, <4>1, <4>2, <4>3, Zenon
      <3>2. CASE q = Buffer(sendq_head)
        <4>1. filled[q] <=> reported <= sendq_head
          BY <1>0, <1>2, <3>2, Zenon DEF MarkInv
        <4>2. reported <= sendq_head => sendq_head \in reported..sendq_head
          BY <1>3
        <4>3. ASSUME NEW i \in reported..sendq_head PROVE reported <= sendq_head
          BY <1>3
        <4> QED BY <3>2, <4>1, <4>2, <4>3, Zenon
      <3> QED BY <3>1, <3>2, Zenon
    <2> QED BY <1>1, <1>2, <1>4, <2>1, Zenon DEF MarkInv
  <1>9. BytesInv'
    BY <1>0, <1>1, <1>2, Zenon DEF BytesInv, OnAir
  <1>10. LossInv'
    BY <1>0, <1>1, <1>2 DEF LossInv
  <1> QED BY <1>5, <1>6, <1>7, <1>8, <1>9, <1>10, Zenon DEF SendInv

-----------------------------------------------------------------------------
(* The handler starts, reads DP_ISR and acknowledges what it has read.      *)
LEMMA AckSend ==
  ASSUME ControlInv, SendInv, interrupt \/ int_isr \/ int_ack, ~astray', UNCHANGED prompt
  PROVE  SendInv'
  <1>0. QueueInv /\ CountInv /\ ReportInv /\ MarkInv /\ BytesInv /\ LossInv
    BY Zenon DEF SendInv
  <1>1. /\ pc' = pc /\ loc' = loc /\ txp' = txp /\ overlapped' = overlapped /\ sent' = sent /\ sendmem' = sendmem /\ dma' = dma
        /\ filled' = filled /\ sendq_head' = sendq_head /\ sendq_tail' = sendq_tail
        /\ reported' = reported /\ written' = written
    BY Zenon DEF interrupt, int_isr, int_ack, tx, sendq, proc
  <1>2. Started' = Started
    BY <1>1, Zenon DEF Started
  <1>3. ReportInv'
    <2>1. CASE interrupt
      <3>1. hpc' = "isr" /\ isr' = isr
        BY <2>1, Zenon DEF interrupt, chip
      <3> QED BY <1>0, <1>1, <3>1, Zenon DEF ReportInv
    <2>2. CASE int_isr
      <3>1. isr' = isr /\ (hpc' = "off" \/ (hisr' = <<isr>> /\ hpc' = "ack"))
        BY <2>2, Zenon DEF int_isr, chip
      <3>2. hpc' # "ptx" /\ (hpc' = "ack" => hisr'[1] = isr)
        BY <3>1
      <3> QED BY <1>0, <1>1, <3>1, <3>2, Zenon DEF ReportInv
    <2>3. CASE int_ack
      <3>1. hpc = "ack" /\ hpc' = "ptx" /\ isr' = isr \ hisr[1] /\ hisr' = hisr
        <4>1. crpage = 0
          BY <2>3, Zenon DEF int_ack, ControlInv
        <4> QED BY <2>3, <4>1, Zenon DEF int_ack
      <3>2. /\ "PTX" \in isr' => "PTX" \in isr /\ "PTX" \notin hisr[1]
            /\ hpc' # "ack" /\ ("PTX" \in hisr[1] => "PTX" \in isr)
        BY <1>0, <3>1, Zenon DEF ReportInv
      <3> QED BY <1>0, <1>1, <3>1, <3>2, Zenon DEF ReportInv
    <2> QED BY <2>1, <2>2, <2>3, Zenon
  <1>4. QueueInv' /\ CountInv'
    BY <1>0, <1>1, <1>2, Zenon DEF QueueInv, CountInv
  <1>5. MarkInv'
    BY <1>0, <1>1, Zenon DEF MarkInv
  <1>6. BytesInv'
    BY <1>0, <1>1, <1>2, Zenon DEF BytesInv, OnAir
  <1>7. LossInv'
    BY <1>0, <1>1, <1>2 DEF LossInv
  <1> QED BY <1>3, <1>4, <1>5, <1>6, <1>7, Zenon DEF SendInv

(* The handler reports a packet: the oldest mark is taken away.             *)
LEMMA ReportSend ==
  ASSUME SendInv, int_ptx, UNCHANGED prompt
  PROVE  SendInv'
  <1>0. QueueInv /\ CountInv /\ ReportInv /\ MarkInv /\ BytesInv /\ LossInv
    BY Zenon DEF SendInv
  <1>1. /\ pc' = pc /\ loc' = loc /\ txp' = txp /\ overlapped' = overlapped /\ sent' = sent /\ sendmem' = sendmem /\ dma' = dma
        /\ sendq_head' = sendq_head /\ written' = written /\ hpc = "ptx" /\ hpc' = "isr" /\ isr' = isr /\ hisr' = hisr
    BY Zenon DEF int_ptx, tx, chip, proc
  <1>2. Started' = Started /\ hpc' # "ack" /\ hpc' # "ptx"
    BY <1>1, Zenon DEF Started
  <1>3. BytesInv'
    BY <1>0, <1>1, <1>2, Zenon DEF BytesInv, OnAir
  <1>l. LossInv'
    BY <1>0, <1>1, <1>2 DEF LossInv
  <1>4. CASE "PTX" \notin hisr[1]
    <2>1. sendq_tail' = sendq_tail /\ filled' = filled /\ reported' = reported
      BY <1>4, Zenon DEF int_ptx
    <2>2. QueueInv' /\ CountInv' /\ MarkInv'
      BY <1>0, <1>1, <1>2, <2>1, Zenon DEF QueueInv, CountInv, MarkInv
    <2>3. ReportInv'
      BY <1>0, <1>1, <1>2, <2>1, Zenon DEF ReportInv
    <2> QED BY <1>3, <1>l, <2>2, <2>3, Zenon DEF SendInv
  <1>5. CASE "PTX" \in hisr[1]
    <2> DEFINE b == Buffer(reported)
    <2>1. /\ sendq_tail' = sendq_tail + 1 /\ filled' = [filled EXCEPT ![(sendq_tail + 1) % SENDQ_LEN] = FALSE]
          /\ reported' = reported + 1
      BY <1>5, Zenon DEF int_ptx
    <2>2. /\ reported \in Nat /\ SENDQ_LEN \in Nat \ {0} /\ sendq_tail = reported + SENDQ_LEN - 1 /\ sendq_head \in Nat
          /\ filled \in [Slots -> BOOLEAN] /\ sent \in Seq(Nat)
      BY <1>0, NeAssumption, Zenon DEF QueueInv
    <2>3. /\ sendq_tail + 1 = reported + SENDQ_LEN /\ sendq_tail' = reported' + SENDQ_LEN - 1
          /\ reported + 1 \in Nat /\ Len(sent) \in Nat
      BY <2>1, <2>2
    <2>4. (sendq_tail + 1) % SENDQ_LEN = b /\ b \in Slots
      <3>1. Buffer(reported + SENDQ_LEN) = b /\ b \in Slots
        BY <2>2, Buffers, Zenon
      <3> QED BY <2>3, <3>1, Zenon DEF Buffer
    <2>5. /\ filled' \in [Slots -> BOOLEAN] /\ ~filled'[b]
          /\ \A q \in Slots : q # b => filled'[q] = filled[q]
      <3> HIDE DEF b
      <3> QED BY <2>1, <2>2, <2>4, Zenon
    <2>6. reported < Len(sent) /\ Len(sent) <= Started /\ ("PTX" \in isr => reported + 1 < Len(sent))
      BY <1>0, <1>1, <1>5, Zenon DEF ReportInv, CountInv
    <2>7. QueueInv'
      BY <1>0, <1>1, <2>1, <2>3, <2>5, Zenon DEF QueueInv
    <2>8. CountInv'
      <3>1. sendq_head <= reported + 1 + SENDQ_LEN /\ (sendq_head < reported + SENDQ_LEN => sendq_head < reported + 1 + SENDQ_LEN)
        BY <1>0, <2>2 DEF CountInv
      <3> QED BY <1>0, <1>1, <1>2, <2>1, <3>1, Zenon DEF CountInv
    <2>9. ReportInv'
      <3>1. reported + 1 <= Len(sent)
        BY <2>2, <2>3, <2>6
      <3> QED BY <1>1, <1>2, <2>1, <2>6, <3>1, Zenon DEF ReportInv
    <2>10. ASSUME NEW i \in (reported + 1)..(sendq_head - 1) PROVE Buffer(i) # b
      <3>1. i \in Nat /\ reported < i /\ i < reported + SENDQ_LEN
        BY <1>0, <2>2 DEF CountInv
      <3> QED BY <2>2, <3>1, Buffers, Zenon
    <2>11. ASSUME NEW q \in Slots, pc \notin {"xmit", "count"} \/ q # Buffer(sendq_head)
           PROVE  filled'[q] <=> \E i \in (reported + 1)..(sendq_head - 1) : Buffer(i) = q
      <3>1. CASE q = b
        BY <2>5, <2>10, <3>1, Zenon
      <3>2. CASE q # b
        <4>1. filled'[q] <=> \E i \in reported..(sendq_head - 1) : Buffer(i) = q
          BY <1>0, <2>5, <2>11, <3>2, Zenon DEF MarkInv
        <4>2. /\ \A i \in (reported + 1)..(sendq_head - 1) : i \in reported..(sendq_head - 1)
              /\ \A i \in reported..(sendq_head - 1) : i \in (reported + 1)..(sendq_head - 1) \/ i = reported
          BY <2>2
        <4> QED BY <3>2, <4>1, <4>2, Zenon
      <3> QED BY <3>1, <3>2, Zenon
    <2>12. ASSUME pc \in {"xmit", "count"} PROVE filled'[Buffer(sendq_head)] <=> reported + 1 <= sendq_head
      <3>1. (filled[Buffer(sendq_head)] <=> reported <= sendq_head) /\ sendq_head < reported + SENDQ_LEN
        BY <1>0, <2>12, Zenon DEF MarkInv, CountInv, Writing
      <3>2. CASE reported < sendq_head
        <4>1. Buffer(sendq_head) # b /\ Buffer(sendq_head) \in Slots
          BY <2>2, <3>1, <3>2, Buffers, Zenon
        <4>2. reported <= sendq_head /\ reported + 1 <= sendq_head
          BY <2>2, <3>2
        <4> QED BY <2>5, <3>1, <4>1, <4>2, Zenon
      <3>3. CASE reported = sendq_head
        <4>1. ~(reported + 1 <= sendq_head)
          BY <2>2, <3>3
        <4> QED BY <2>5, <3>3, <4>1, Zenon
      <3>4. reported < sendq_head \/ reported = sendq_head
        <4>1. Started = sendq_head \/ Started = sendq_head + 1
          BY Zenon DEF Started
        <4> QED BY <2>2, <2>3, <2>6, <4>1
      <3> QED BY <3>2, <3>3, <3>4, Zenon
    <2>13. MarkInv'
      BY <1>1, <2>1, <2>11, <2>12, Zenon DEF MarkInv
    <2> QED BY <1>3, <1>l, <2>7, <2>8, <2>9, <2>13, Zenon DEF SendInv
  <1> QED BY <1>4, <1>5, Zenon

-----------------------------------------------------------------------------
(* The sizes of the ring in pages and in bytes.                             *)
LEMMA Sizes ==
  /\ Ring \in Nat \ {0} /\ 1 < Ring /\ recv_startpage \in Nat /\ recv_stoppage = recv_startpage + Ring
  /\ DP_PAGESIZE \in Nat \ {0} /\ HDR \in Nat \ {0} /\ HDR <= DP_PAGESIZE
  /\ Span \in Nat \ {0} /\ recv_startpage * DP_PAGESIZE \in Nat
  /\ recv_stoppage * DP_PAGESIZE = recv_startpage * DP_PAGESIZE + Span
  <1>1. /\ Ring \in Nat \ {0} /\ 1 < Ring /\ recv_startpage \in Nat /\ recv_stoppage = recv_startpage + Ring
        /\ DP_PAGESIZE \in Nat \ {0} /\ HDR \in Nat \ {0} /\ HDR <= DP_PAGESIZE
    BY NeAssumption DEF Ring
  <1>2. \A a, b \in Nat : \A c \in Nat \ {0} : (a + b) * c = a * c + b * c /\ a * c \in Nat /\ (a # 0 => a * c # 0)
    OBVIOUS
  <1>3. Ring * DP_PAGESIZE \in Nat /\ Ring * DP_PAGESIZE # 0 /\ recv_startpage * DP_PAGESIZE \in Nat
    BY <1>1, <1>2, Zenon
  <1>4. (recv_startpage + Ring) * DP_PAGESIZE = recv_startpage * DP_PAGESIZE + Ring * DP_PAGESIZE
    BY <1>1, <1>2, Zenon
  <1>5. Ring * DP_PAGESIZE \notin {0}
    BY <1>3
  <1> QED BY <1>1, <1>3, <1>4, <1>5, Zenon DEF Span

(* Multiplication, in the form that the solver uses.                        *)
LEMMA Product ==
  ASSUME NEW a \in Nat, NEW b \in Nat, NEW c \in Nat
  PROVE  a * c \in Nat /\ (a + b) * c = a * c + b * c /\ (a <= b => a * c <= b * c)
  <1>1. a * c \in Nat /\ (a + b) * c = a * c + b * c
    OBVIOUS
  <1>2. ASSUME a <= b PROVE a * c <= b * c
    <2>1. PICK d \in Nat : b = a + d
      <3>1. b - a \in Nat /\ b = a + (b - a)
        BY <1>2
      <3> QED BY <3>1, Zenon
    <2>2. b * c = a * c + d * c /\ d * c \in Nat /\ a * c \in Nat
      BY <2>1
    <2> QED BY <2>2
  <1> QED BY <1>1, <1>2, Zenon

(* The remainder of a sum.                                                  *)
LEMMA Advance ==
  ASSUME NEW P \in Nat \ {0}, NEW t \in Nat, NEW s \in Nat
  PROVE  ((t % P) + s) % P = (t + s) % P
  <1>1. PICK k \in Nat : t = P * k + (t % P)
    BY Quotient, Zenon
  <1>2. t % P \in 0..(P - 1)
    BY Quotient, Zenon
  <1>3. (t % P) + s \in Nat
    BY <1>2
  <1> DEFINE u == (t % P) + s
  <1>4. PICK m \in Nat : u = P * m + (u % P)
    BY <1>3, Quotient, Zenon
  <1>5. u % P \in 0..(P - 1)
    BY <1>3, Quotient, Zenon
  <1>6. t + s = P * k + u
    BY <1>1, <1>2
  <1> HIDE DEF u
  <1>7. t + s = P * (k + m) + (u % P) /\ k + m \in Nat
    BY <1>4, <1>5, <1>6
  <1>8. (P * (k + m) + (u % P)) % P = u % P
    BY <1>5, <1>7, Remainder, Zenon
  <1> QED BY <1>7, <1>8, Zenon DEF u

(* The remainder of a number below 2 * P.                                   *)
LEMMA Once ==
  ASSUME NEW P \in Nat \ {0}, NEW x \in Nat, x < 2 * P
  PROVE  (x < P => x % P = x) /\ (~(x < P) => x % P = x - P)
  OBVIOUS

(* Pages of the ring: the next, the previous, s pages on, and different     *)
(* ones.                                                                    *)
LEMMA Pages ==
  ASSUME NEW t \in Nat
  PROVE  /\ Page(t) \in recv_startpage..(recv_stoppage - 1) /\ NextPage(Page(t)) = Page(t + 1)
         /\ Page(t) = IF Page(t + 1) - 1 < recv_startpage THEN recv_stoppage - 1 ELSE Page(t + 1) - 1
         /\ \A s \in Nat : ((Page(t) - recv_startpage + s) % Ring) + recv_startpage = Page(t + s)
         /\ \A u \in Nat : t < u /\ u < t + Ring => Page(t) # Page(u)
  <1> DEFINE P == Ring
             S == recv_startpage
  <1>0. P \in Nat \ {0} /\ 1 < P /\ S \in Nat /\ recv_stoppage = S + P
    BY Sizes, Zenon
  <1>1. \A x : Page(x) = S + (x % P)
    BY Zenon DEF Page
  <1>2. \A x : NextPage(x) = IF x + 1 = recv_stoppage THEN S ELSE x + 1
    BY Zenon DEF NextPage
  <1> HIDE DEF P, S
  <1>3. t % P \in 0..(P - 1)
    BY <1>0, Quotient, Zenon
  <1>4. ((t % P) + 1) % P = (t + 1) % P
    <2>1. 1 \in Nat
      OBVIOUS
    <2> QED BY <1>0, <2>1, Advance, Zenon
  <1>5. /\ (t % P) + 1 < P => (t + 1) % P = (t % P) + 1
        /\ ~((t % P) + 1 < P) => (t + 1) % P = ((t % P) + 1) - P
    <2> DEFINE y == (t % P) + 1
    <2>1. y \in Nat /\ y < 2 * P
      BY <1>0, <1>3
    <2>2. y % P = (t + 1) % P
      BY <1>4, Zenon
    <2> HIDE DEF y
    <2>3. (y < P => y % P = y) /\ (~(y < P) => y % P = y - P)
      BY <1>0, <2>1, Once, Zenon
    <2> QED BY <2>2, <2>3, Zenon DEF y
  <1>6. Page(t) = S + (t % P) /\ Page(t + 1) = S + ((t + 1) % P)
    BY <1>1, Zenon
  <1>7. Page(t) \in S..(recv_stoppage - 1)
    BY <1>0, <1>3, <1>6
  <1>8. NextPage(Page(t)) = Page(t + 1)
    <2>1. NextPage(Page(t)) = IF Page(t) + 1 = recv_stoppage THEN S ELSE Page(t) + 1
      BY <1>2, Zenon
    <2> QED BY <1>0, <1>3, <1>5, <1>6, <2>1
  <1>9. Page(t) = IF Page(t + 1) - 1 < S THEN recv_stoppage - 1 ELSE Page(t + 1) - 1
    BY <1>0, <1>3, <1>5, <1>6
  <1>10. ASSUME NEW s \in Nat PROVE ((Page(t) - S + s) % P) + S = Page(t + s)
    <2>1. Page(t) - S + s = (t % P) + s
      BY <1>0, <1>3, <1>6
    <2>2. ((t % P) + s) % P = (t + s) % P /\ Page(t + s) = S + ((t + s) % P)
      BY <1>0, <1>1, Advance, Zenon
    <2>3. (t + s) % P \in Nat
      BY <1>0, Quotient
    <2> QED BY <1>0, <2>1, <2>2, <2>3
  <1>11. ASSUME NEW u \in Nat, t < u, u < t + P PROVE Page(t) # Page(u)
    <2>1. t % P # u % P
      BY <1>0, <1>11, Apart, Zenon
    <2>2. u % P \in 0..(P - 1) /\ Page(u) = S + (u % P)
      BY <1>0, <1>1, Quotient, Zenon
    <2> QED BY <1>0, <1>3, <1>6, <2>1, <2>2
  <1> QED BY <1>7, <1>8, <1>9, <1>10, <1>11, Zenon DEF P, S

(* The room that the card sees between DP_CURR and DP_BNRY.                 *)
LEMMA Space ==
  ASSUME NEW t \in Nat, NEW d \in 1..(Ring - 1)
  PROVE  (Page(t) - Page(t + d) + Ring) % Ring = Ring - d
  <1> DEFINE P == Ring
             S == recv_startpage
  <1>0. P \in Nat \ {0} /\ S \in Nat
    BY Sizes, Zenon
  <1>1. d \in Nat /\ d \in 1..(P - 1) /\ t + d \in Nat
    BY <1>0
  <1>2. Page(t) = S + (t % P) /\ Page(t + d) = S + ((t + d) % P)
    BY Zenon DEF Page
  <1> HIDE DEF P, S
  <1>3. t % P \in 0..(P - 1) /\ ((t % P) + d) % P = (t + d) % P
    BY <1>0, <1>1, Quotient, Advance, Zenon
  <1>4. /\ (t % P) + d < P => (t + d) % P = (t % P) + d
        /\ ~((t % P) + d < P) => (t + d) % P = ((t % P) + d) - P
    <2> DEFINE y == (t % P) + d
    <2>1. y \in Nat /\ y < 2 * P
      BY <1>0, <1>1, <1>3
    <2>2. y % P = (t + d) % P
      BY <1>3, Zenon
    <2> HIDE DEF y
    <2>3. (y < P => y % P = y) /\ (~(y < P) => y % P = y - P)
      BY <1>0, <2>1, Once, Zenon
    <2> QED BY <2>2, <2>3, Zenon DEF y
  <1> DEFINE x == Page(t) - Page(t + d) + P
  <1>5. x = P - d \/ x = P - d + P
    BY <1>0, <1>1, <1>2, <1>3, <1>4
  <1>6. x \in Nat /\ x < 2 * P
    BY <1>0, <1>1, <1>5
  <1>7. (x < P => x % P = x) /\ (~(x < P) => x % P = x - P)
    <2> HIDE DEF x
    <2> QED BY <1>0, <1>6, Once, Zenon
  <1> HIDE DEF x
  <1>8. x % P = P - d
    BY <1>0, <1>1, <1>5, <1>7
  <1> QED BY <1>8, Zenon DEF x, P

(* A byte at offset o from the start of a page, less than the whole ring    *)
(* away.                                                                    *)
LEMMA Address ==
  ASSUME NEW t \in Nat, NEW o \in Nat, o < Span
  PROVE  /\ Wrap(Page(t) * DP_PAGESIZE + o) = Addr(t * DP_PAGESIZE + o)
         /\ t * DP_PAGESIZE + o \in Nat
  <1> DEFINE P == DP_PAGESIZE
             R == Ring
             N == Span
             S == recv_startpage
             r == t % R
  <1>0. /\ P \in Nat \ {0} /\ R \in Nat \ {0} /\ N \in Nat \ {0} /\ S \in Nat /\ S * P \in Nat
        /\ recv_stoppage * P = S * P + N /\ N = R * P /\ o < N
    BY Sizes, Zenon DEF Span
  <1>1. Page(t) = S + r
    BY Zenon DEF Page
  <1>2. \A x : Wrap(x) = IF x >= recv_stoppage * P THEN x - N ELSE x
    BY Zenon DEF Wrap, Span
  <1>3. \A x : Addr(x) = S * P + (x % N)
    BY Zenon DEF Addr
  <1>4. r \in 0..(R - 1)
    BY <1>0, Quotient, Zenon
  <1>5. PICK k \in Nat : t = R * k + r
    BY <1>0, Quotient, Zenon
  <1> HIDE DEF P, R, N, S, r
  <1>6. r \in Nat /\ r + 1 \in Nat /\ r + 1 <= R /\ P \in Nat /\ R \in Nat /\ 1 \in Nat
    BY <1>0, <1>4
  <1>7. (r + 1) * P <= R * P /\ (r + 1) * P = r * P + 1 * P /\ r * P \in Nat /\ (S + r) * P = S * P + r * P
    BY <1>0, <1>6, Product
  <1>8. r * P \in 0..(N - 1)
    BY <1>0, <1>7
  <1>9. t * P = N * k + r * P
    <2>1. R * k \in Nat
      BY <1>0
    <2>2. (R * k + r) * P = (R * k) * P + r * P
      BY <1>6, <2>1, Product
    <2>3. (R * k) * P = (R * P) * k
      BY <1>6
    <2> QED BY <1>0, <1>5, <2>2, <2>3, Zenon
  <1>10. t * P \in Nat
    BY <1>6, Product, Zenon
  <1> DEFINE x == r * P
             z == S * P
             e == recv_stoppage * P
             y == t * P
  <1>11. x \in 0..(N - 1) /\ z \in Nat /\ e = z + N /\ y \in Nat /\ y = N * k + x
    BY <1>0, <1>8, <1>9, <1>10, Zenon
  <1>12. Page(t) * P + o = z + x + o
    BY <1>1, <1>7, Zenon
  <1>13. \A a : Wrap(a) = IF a >= e THEN a - N ELSE a
    BY <1>2, Zenon
  <1>14. Addr(y + o) = z + ((y + o) % N)
    BY <1>3, Zenon
  <1> HIDE DEF x, y, z, e
  <1>15. (N * k + x) % N = x
    BY <1>0, <1>11, Remainder, Zenon
  <1>16. /\ x + o < N => (y + o) % N = x + o
         /\ ~(x + o < N) => (y + o) % N = (x + o) - N
    <2> DEFINE v == x + o
    <2>1. v \in Nat /\ v < 2 * N
      BY <1>0, <1>11
    <2>2. ((y % N) + o) % N = (y + o) % N
      <3>1. N \in Nat \ {0} /\ y \in Nat /\ o \in Nat
        BY <1>0, <1>11, Zenon
      <3> QED BY <3>1, Advance, Zenon
    <2>3. v % N = (y + o) % N
      BY <1>11, <1>15, <2>2, Zenon
    <2> HIDE DEF v
    <2>4. (v < N => v % N = v) /\ (~(v < N) => v % N = v - N)
      BY <1>0, <2>1, Once, Zenon
    <2> QED BY <2>3, <2>4, Zenon DEF v
  <1>17. Wrap(z + x + o) = Addr(y + o)
    BY <1>0, <1>11, <1>13, <1>14, <1>16
  <1>18. y + o \in Nat
    BY <1>11
  <1> QED BY <1>12, <1>17, <1>18, Zenon DEF P, y

(* Addresses are in the ring, and bytes less than a ring apart do not share *)
(* one.                                                                     *)
LEMMA Addresses ==
  ASSUME NEW x \in Nat
  PROVE  /\ Addr(x) \in (recv_startpage * DP_PAGESIZE)..(recv_stoppage * DP_PAGESIZE - 1)
         /\ \A y \in Nat : x < y /\ y < x + Span => Addr(x) # Addr(y)
  <1> DEFINE N == Span
             z == recv_startpage * DP_PAGESIZE
  <1>0. N \in Nat \ {0} /\ z \in Nat /\ recv_stoppage * DP_PAGESIZE = z + N
    BY Sizes, Zenon
  <1>1. \A a : Addr(a) = z + (a % N)
    BY Zenon DEF Addr
  <1> HIDE DEF N, z
  <1>2. x % N \in 0..(N - 1)
    BY <1>0, Quotient, Zenon
  <1>3. Addr(x) = z + (x % N)
    BY <1>1, Zenon
  <1>4. Addr(x) \in z..(z + N - 1)
    BY <1>0, <1>2, <1>3
  <1>5. ASSUME NEW y \in Nat, x < y, y < x + N PROVE Addr(x) # Addr(y)
    <2>1. x % N # y % N /\ y % N \in 0..(N - 1)
      BY <1>0, <1>5, Apart, Quotient, Zenon
    <2>2. Addr(y) = z + (y % N)
      BY <1>1, Zenon
    <2> QED BY <1>0, <1>2, <1>3, <2>1, <2>2
  <1> QED BY <1>0, <1>4, <1>5 DEF N, z

(* A packet with its header fits into the pages counted for it.             *)
LEMMA Fits ==
  ASSUME NEW n \in Nat
  PROVE  Stored(n) \in Nat \ {0} /\ HDR + n <= Stored(n) * DP_PAGESIZE
  <1> DEFINE P == DP_PAGESIZE
             a == HDR + n + P - 1
             q == a \div P
  <1>0. P \in Nat \ {0} /\ HDR \in Nat \ {0}
    BY Sizes, Zenon
  <1>1. a \in Nat /\ Stored(n) = q
    BY <1>0 DEF Stored
  <1> HIDE DEF P
  <1>2. a = HDR + n + P - 1
    OBVIOUS
  <1> HIDE DEF a
  <1>3. q \in Nat /\ a = P * q + (a % P) /\ a % P \in 0..(P - 1)
    BY <1>0, <1>1
  <1> HIDE DEF q
  <1>4. HDR + n <= q * P
    BY <1>0, <1>2, <1>3
  <1>5. q # 0
    BY <1>0, <1>4
  <1> QED BY <1>1, <1>3, <1>4, <1>5, Zenon DEF P

-----------------------------------------------------------------------------
Addrs == (recv_startpage * DP_PAGESIZE)..(recv_stoppage * DP_PAGESIZE - 1)

(* Where the bytes of a packet are that begins at page t: behind every page *)
(* up to t, before every page from its end on.                              *)
LEMMA ByteBounds ==
  ASSUME NEW t \in Nat, NEW n \in Nat, NEW i \in 1..n
  PROVE  /\ HDR + i - 1 \in Nat /\ t * DP_PAGESIZE + (HDR + i - 1) \in Nat
         /\ Stored(n) <= Ring => HDR + i - 1 < Span
         /\ \A b \in Nat : b <= t => b * DP_PAGESIZE <= t * DP_PAGESIZE + (HDR + i - 1)
         /\ \A f \in Nat : t + Stored(n) <= f => t * DP_PAGESIZE + (HDR + i - 1) < f * DP_PAGESIZE
  <1> DEFINE P == DP_PAGESIZE
             o == HDR + i - 1
             s == Stored(n)
  <1>0. P \in Nat /\ HDR \in Nat \ {0} /\ Ring \in Nat /\ Span = Ring * P
    BY Sizes, Zenon DEF Span
  <1>1. s \in Nat /\ HDR + n <= s * P
    BY Fits, Zenon
  <1>2. o \in Nat /\ o < HDR + n
    BY <1>0
  <1> HIDE DEF P, o, s
  <1>3. t * P \in Nat /\ s * P \in Nat /\ (t + s) * P = t * P + s * P /\ t + s \in Nat
    <2>1. t * P \in Nat /\ s * P \in Nat /\ (t + s) * P = t * P + s * P
      BY <1>0, <1>1, Product
    <2> QED BY <1>1, <2>1
  <1>4. o < s * P
    BY <1>0, <1>1, <1>2, <1>3
  <1>5. ASSUME s <= Ring PROVE o < Span
    <2>1. s * P <= Ring * P /\ Ring * P \in Nat
      BY <1>0, <1>1, <1>5, Product, Zenon
    <2> QED BY <1>0, <1>2, <1>3, <1>4, <2>1
  <1>6. ASSUME NEW b \in Nat, b <= t PROVE b * P <= t * P + o
    <2>1. b * P <= t * P /\ b * P \in Nat
      BY <1>0, <1>6, Product, Zenon
    <2> QED BY <1>2, <1>3, <2>1
  <1>7. ASSUME NEW f \in Nat, t + s <= f PROVE t * P + o < f * P
    <2>1. (t + s) * P <= f * P /\ f * P \in Nat
      BY <1>0, <1>3, <1>7, Product, Zenon
    <2> QED BY <1>2, <1>3, <1>4, <2>1
  <1>8. t * P + o \in Nat
    BY <1>2, <1>3
  <1> QED BY <1>2, <1>5, <1>6, <1>7, <1>8, Zenon DEF P, o, s

\* The memory m after packet k of n bytes was stored from page p on.
Put(m, p, k, n) ==
  [a \in DOMAIN m |-> IF \E i \in 1..n : Wrap(p * DP_PAGESIZE + HDR + i - 1) = a
                      THEN <<k, CHOOSE i \in 1..n : Wrap(p * DP_PAGESIZE + HDR + i - 1) = a>> ELSE m[a]]

\* Packet k, of n bytes, goes to page t and the ring is free from there to page b.
Fitting(m, t, k, n, b) ==
  /\ m \in [Addrs -> Nat \X Nat] /\ t \in Nat /\ k \in Nat /\ n \in Nat /\ b \in Nat
  /\ b <= t /\ t + Stored(n) <= b + Ring

\* Its bytes are there, and those between pages b and t are as before.
PutDone(m, t, k, n, b) ==
  LET m2 == Put(m, Page(t), k, n) IN
  /\ m2 \in [Addrs -> Nat \X Nat]
  /\ \A i \in 1..n : m2[Addr(t * DP_PAGESIZE + (HDR + i - 1))] = <<k, i>>
  /\ \A x \in Nat : b * DP_PAGESIZE <= x /\ x < t * DP_PAGESIZE => m2[Addr(x)] = m[Addr(x)]

(* The card stores a packet: its bytes are where they belong, and what      *)
(* begins at page b is not overwritten.                                     *)
LEMMA PutBytes ==
  ASSUME NEW m, NEW t, NEW k, NEW n, NEW b, Fitting(m, t, k, n, b)
  PROVE  PutDone(m, t, k, n, b)
  <1> DEFINE P == DP_PAGESIZE
             pos(i) == t * P + (HDR + i - 1)
             at(i) == Wrap(Page(t) * P + HDR + i - 1)
             m2 == Put(m, Page(t), k, n)
  <1> USE DEF Fitting
  <1>0. Ring \in Nat /\ P \in Nat /\ Span = Ring * P /\ HDR \in Nat /\ Page(t) \in Nat /\ Span \in Nat
    <2>1. Page(t) \in recv_startpage..(recv_stoppage - 1)
      BY Pages, Zenon
    <2>2. Page(t) \in Nat
      BY <2>1, Sizes
    <2> QED BY <2>2, Sizes, Zenon DEF Span
  <1>1. Stored(n) \in Nat /\ Stored(n) <= Ring
    <2>1. Stored(n) \in Nat
      BY Fits, Zenon
    <2> QED BY <1>0, <2>1
  <1>2. t + Stored(n) \in Nat /\ b + Ring \in Nat
    BY <1>0, <1>1
  <1>3. (b + Ring) * P = b * P + Span /\ b * P \in Nat /\ t * P \in Nat
    BY <1>0, Product
  <1>4. ASSUME NEW i \in 1..n
        PROVE  pos(i) \in Nat /\ at(i) = Addr(pos(i)) /\ t * P <= pos(i) /\ pos(i) < b * P + Span
    <2>1. /\ HDR + i - 1 \in Nat /\ HDR + i - 1 < Span /\ pos(i) \in Nat
          /\ t * P <= pos(i) /\ pos(i) < (b + Ring) * P
      <3>1. /\ HDR + i - 1 \in Nat /\ HDR + i - 1 < Span /\ pos(i) \in Nat
            /\ pos(i) < (b + Ring) * P
        BY <1>1, <1>2, ByteBounds, Zenon
      <3>2. t <= t
        OBVIOUS
      <3>3. t * P <= pos(i)
        BY <3>2, ByteBounds, Zenon
      <3> QED BY <3>1, <3>3, Zenon
    <2>2. Wrap(Page(t) * P + (HDR + i - 1)) = Addr(pos(i))
      BY <2>1, Address, Zenon
    <2>3. Page(t) * P + (HDR + i - 1) = Page(t) * P + HDR + i - 1
      <3>1. Page(t) * P \in Nat
        BY <1>0, Product, Zenon
      <3> QED BY <1>0, <3>1
    <2> QED BY <1>3, <2>1, <2>2, <2>3, Zenon
  <1>5. ASSUME NEW x \in Nat, NEW y \in Nat, b * P <= x, x < y, y < b * P + Span PROVE Addr(x) # Addr(y)
    <2>1. y < x + Span
      BY <1>0, <1>3, <1>5
    <2> QED BY <1>5, <2>1, Addresses, Zenon
  <1>6. m2 = [a \in DOMAIN m |-> IF \E i \in 1..n : at(i) = a THEN <<k, CHOOSE i \in 1..n : at(i) = a>> ELSE m[a]]
    BY Zenon DEF Put
  <1>7. DOMAIN m = Addrs
    OBVIOUS
  <1> HIDE DEF m2, at, pos, P
  <1>8. m2 \in [Addrs -> Nat \X Nat]
    <2>1. ASSUME NEW a \in Addrs
          PROVE  (IF \E i \in 1..n : at(i) = a THEN <<k, CHOOSE i \in 1..n : at(i) = a>> ELSE m[a]) \in Nat \X Nat
      <3>1. CASE \E i \in 1..n : at(i) = a
        <4>1. (CHOOSE i \in 1..n : at(i) = a) \in 1..n
          BY <3>1, Zenon
        <4>2. (CHOOSE i \in 1..n : at(i) = a) \in Nat
          BY <4>1
        <4> QED BY <3>1, <4>2
      <3>2. CASE ~\E i \in 1..n : at(i) = a
        BY <3>2
      <3> QED BY <3>1, <3>2, Zenon
    <2> QED BY <1>6, <1>7, <2>1, Zenon
  <1>9. ASSUME NEW i \in 1..n PROVE m2[Addr(pos(i))] = <<k, i>>
    <2> DEFINE c == CHOOSE j \in 1..n : at(j) = Addr(pos(i))
    <2>1. pos(i) \in Nat /\ at(i) = Addr(pos(i)) /\ t * P <= pos(i) /\ pos(i) < b * P + Span
      BY <1>4, Zenon
    <2>2. c \in 1..n /\ at(c) = Addr(pos(i))
      BY <2>1, Zenon
    <2>3. pos(c) \in Nat /\ Addr(pos(c)) = Addr(pos(i)) /\ t * P <= pos(c) /\ pos(c) < b * P + Span
      BY <2>2, <1>4, Zenon
    <2>4. Addr(pos(i)) \in Addrs
      BY <2>1, Addresses, Zenon DEF Addrs
    <2>5. m2[Addr(pos(i))] = <<k, c>>
      BY <1>6, <1>7, <2>1, <2>4, Zenon
    <2> HIDE DEF c
    <2>6. b * P <= t * P
      BY <1>0, Product, Zenon
    <2>7. b * P <= pos(i) /\ b * P <= pos(c)
      BY <1>3, <2>1, <2>3, <2>6
    <2>8. pos(i) = pos(c)
      <3>1. ~(pos(i) < pos(c)) /\ ~(pos(c) < pos(i))
        BY <1>5, <2>1, <2>3, <2>7, Zenon
      <3> QED BY <2>1, <2>3, <3>1
    <2>9. c = i
      BY <1>0, <1>3, <2>2, <2>8 DEF pos
    <2> QED BY <2>5, <2>9, Zenon
  <1>10. ASSUME NEW x \in Nat, b * P <= x, x < t * P PROVE m2[Addr(x)] = m[Addr(x)]
    <2>1. ASSUME NEW i \in 1..n PROVE at(i) # Addr(x)
      <3>1. pos(i) \in Nat /\ at(i) = Addr(pos(i)) /\ t * P <= pos(i) /\ pos(i) < b * P + Span
        BY <1>4, Zenon
      <3>2. x < pos(i)
        BY <1>3, <1>10, <3>1
      <3> QED BY <1>5, <1>10, <3>1, <3>2, Zenon
    <2>2. Addr(x) \in Addrs
      BY <1>10, Addresses, Zenon DEF Addrs
    <2> QED BY <1>6, <1>7, <2>1, <2>2, Zenon
  <1> QED BY <1>8, <1>9, <1>10, Zenon DEF PutDone, m2, pos, P

(* A function on 1..m is a sequence.                                        *)
LEMMA MakeSeq ==
  ASSUME NEW S, NEW m \in Nat, NEW f \in [1..m -> S]
  PROVE  f \in Seq(S) /\ Len(f) = m
  OBVIOUS

(* What is in a buffer after a second copy into it.                         *)
LEMMA Laid ==
  ASSUME NEW T, NEW b \in Seq(T), NEW c \in Seq(T), NEW m \in Nat, m <= Len(b)
  PROVE  /\ Overlay(b, m, c) \in Seq(T)
         /\ m + Len(c) <= Len(Overlay(b, m, c))
         /\ Len(Overlay(b, m, c)) = m + Len(c) \/ (Len(Overlay(b, m, c)) = Len(b) /\ m + Len(c) <= Len(b))
         /\ \A i \in 1..m : Overlay(b, m, c)[i] = b[i]
         /\ \A i \in 1..Len(c) : Overlay(b, m, c)[m + i] = c[i]
  <1> DEFINE l == IF m + Len(c) > Len(b) THEN m + Len(c) ELSE Len(b)
             f == [i \in 1..l |-> IF i > m /\ i <= m + Len(c) THEN c[i - m] ELSE b[i]]
  <1>0. Overlay(b, m, c) = f
    BY DEF Overlay
  <1>1. /\ Len(b) \in Nat /\ Len(c) \in Nat /\ l \in Nat /\ m + Len(c) <= l
        /\ l = m + Len(c) \/ (l = Len(b) /\ m + Len(c) <= Len(b))
    OBVIOUS
  <1> HIDE DEF l
  <1>2. ASSUME NEW i \in 1..l PROVE (IF i > m /\ i <= m + Len(c) THEN c[i - m] ELSE b[i]) \in T
    <2>1. CASE i > m /\ i <= m + Len(c)
      BY <1>1, <2>1
    <2>2. CASE ~(i > m /\ i <= m + Len(c))
      <3>1. i \in 1..Len(b)
        BY <1>1, <2>2
      <3> QED BY <2>2, <3>1
    <2> QED BY <2>1, <2>2
  <1>3. f \in [1..l -> T]
    BY <1>2
  <1>4. f \in Seq(T) /\ Len(f) = l
    <2> HIDE DEF f
    <2> QED BY <1>1, <1>3, MakeSeq, Zenon
  <1>5. ASSUME NEW i \in 1..m PROVE f[i] = b[i]
    BY <1>1
  <1>6. ASSUME NEW i \in 1..Len(c) PROVE f[m + i] = c[i]
    <2>1. m + i \in 1..l /\ m + i > m /\ m + i <= m + Len(c) /\ (m + i) - m = i
      BY <1>1
    <2> QED BY <2>1
  <1> HIDE DEF f
  <1> QED BY <1>0, <1>1, <1>4, <1>5, <1>6, Zenon

(* ne_getblock: the bytes of the card, and what insw stores behind them.    *)
LEMMA Blocks ==
  ASSUME NEW a, NEW n \in Nat, \A i \in 1..n : mem[Wrap(a + i - 1)] \in Nat \X Nat
  PROVE  /\ Block(a, n) \in Seq(Nat \X Nat) /\ n <= Len(Block(a, n)) /\ Len(Block(a, n)) <= 2 * n
         /\ is16bit \/ Len(Block(a, n)) = n
         /\ \A i \in 1..n : Block(a, n)[i] = mem[Wrap(a + i - 1)]
  <1> DEFINE T == Nat \X Nat
             w == IF is16bit THEN 2 * n ELSE n
             v(i) == IF i <= n THEN mem[Wrap(a + i - 1)] ELSE <<0, 0>>
  <1>1. Block(a, n) = [i \in 1..w |-> v(i)]
    BY Zenon DEF Block
  <1>2. w \in Nat /\ n <= w /\ w <= 2 * n /\ (is16bit \/ w = n)
    OBVIOUS
  <1> HIDE DEF w
  <1>3. <<0, 0>> \in T
    OBVIOUS
  <1> HIDE DEF T
  <1>4. ASSUME NEW i \in 1..w PROVE v(i) \in T
    <2>1. CASE i <= n
      <3>1. i \in 1..n
        BY <1>2, <2>1
      <3>2. mem[Wrap(a + i - 1)] \in T
        BY <3>1, Zenon DEF T
      <3> QED BY <2>1, <3>2, Zenon
    <2>2. CASE ~(i <= n)
      BY <1>3, <2>2, Zenon
    <2> QED BY <2>1, <2>2, Zenon
  <1>5. ASSUME NEW i \in 1..n PROVE i \in 1..w /\ i <= n
    BY <1>2
  <1>6. \A i \in 1..n : v(i) = mem[Wrap(a + i - 1)]
    BY <1>5, Zenon
  <1> HIDE DEF v
  <1>7. Block(a, n) \in [1..w -> T]
    BY <1>1, <1>4, Zenon
  <1>8. Block(a, n) \in Seq(T) /\ Len(Block(a, n)) = w
    BY <1>2, <1>7, MakeSeq, Zenon
  <1>9. \A i \in 1..n : Block(a, n)[i] = mem[Wrap(a + i - 1)]
    BY <1>1, <1>5, <1>6, Zenon
  <1> QED BY <1>2, <1>8, <1>9, Zenon DEF T

(* ne_pio_read copies a packet that begins at page t: beyond the end of the *)
(* ring it takes the bytes HDR places too early.                            *)
LEMMA CopyBytes ==
  ASSUME mem \in [Addrs -> Nat \X Nat], NEW t \in Nat, NEW n \in Nat, Stored(n) <= Ring, NEW k \in Nat,
         \A i \in 1..n : mem[Addr(t * DP_PAGESIZE + (HDR + i - 1))] = <<k, i>>
  PROVE  /\ PacketAt(Page(t), n) \in Seq(Nat \X Nat)
         /\ Copied(PacketAt(Page(t), n), is16bit, k, n, (Ring - (t % Ring)) * DP_PAGESIZE)
  <1> DEFINE P == DP_PAGESIZE
             S == recv_startpage
             E == recv_stoppage
             z == S * P
             e == E * P
             base == Page(t) * P
             rem == (E - Page(t)) * P
             data == base + HDR
             head == Block(data, rem)
             tail == Block(z, n - rem)
             packet == PacketAt(Page(t), n)
  <1>0. /\ P \in Nat /\ S \in Nat /\ Ring \in Nat \ {0} /\ E = S + Ring /\ HDR \in Nat \ {0} /\ HDR <= P
        /\ z \in Nat /\ Span \in Nat /\ e = z + Span
    BY Sizes, Zenon
  <1>1. t % Ring \in 0..(Ring - 1) /\ Page(t) = S + (t % Ring)
    BY <1>0, Quotient, Zenon DEF Page
  <1>2. /\ E - Page(t) = Ring - (t % Ring) /\ Ring - (t % Ring) \in Nat /\ Page(t) \in Nat
        /\ 1 <= E - Page(t) /\ E = Page(t) + (E - Page(t)) /\ E - Page(t) \in Nat
    BY <1>0, <1>1
  <1>3. /\ rem = (Ring - (t % Ring)) * P /\ rem \in Nat /\ base \in Nat /\ P <= rem /\ base + rem = e
    <2>0. \A a, c \in Nat : a * c \in Nat
      OBVIOUS
    <2>1. rem = (Ring - (t % Ring)) * P /\ rem \in Nat /\ base \in Nat
      BY <1>0, <1>2, <2>0, Zenon
    <2>2. 1 * P <= rem
      <3>1. 1 \in Nat
        OBVIOUS
      <3> QED BY <1>0, <1>2, <3>1, Product, Zenon
    <2>3. 1 * P = P
      BY <1>0
    <2>4. e = base + rem
      <3> DEFINE g == Page(t)
                 d == E - Page(t)
      <3>1. g \in Nat /\ d \in Nat /\ E = g + d /\ e = E * P /\ base = g * P /\ rem = d * P
        BY <1>2, Zenon
      <3> HIDE DEF g, d, E, base, rem, e
      <3>2. (g + d) * P = g * P + d * P
        <4>1. g \in Nat /\ d \in Nat /\ P \in Nat
          BY <1>0, <3>1, Zenon
        <4> HIDE DEF P
        <4> QED BY <4>1
      <3> QED BY <3>1, <3>2, Zenon
    <2> QED BY <2>1, <2>2, <2>3, <2>4, Zenon
  <1>p. HDR \in Nat /\ 1 <= HDR /\ HDR <= rem /\ rem \in Nat
    BY <1>0, <1>3
  <1>4. packet = IF rem < n THEN Overlay(head, rem, tail) ELSE Block(data, n)
    BY Zenon DEF PacketAt
  <1>5. Addrs = z..(e - 1) /\ \A x : (x >= e => Wrap(x) = x - Span) /\ (~(x >= e) => Wrap(x) = x)
    BY Zenon DEF Addrs, Wrap, Span
  <1> HIDE DEF rem, head, tail, z, e, base, packet
  <1>6. ASSUME NEW i \in 1..n
        PROVE  mem[Wrap(data + i - 1)] = <<k, i>> /\ mem[Wrap(data + i - 1)] \in Nat \X Nat
    <2>1. HDR + i - 1 \in Nat /\ HDR + i - 1 < Span
      BY ByteBounds, Zenon
    <2>2. Wrap(base + (HDR + i - 1)) = Addr(t * P + (HDR + i - 1)) /\ t * P + (HDR + i - 1) \in Nat
      BY <2>1, Address, Zenon DEF base
    <2>3. base + (HDR + i - 1) = data + i - 1
      BY <1>0, <1>3
    <2>4. Addr(t * P + (HDR + i - 1)) \in Addrs
      BY <2>2, Addresses, Zenon DEF Addrs
    <2> QED BY <2>2, <2>3, <2>4, Zenon
  <1> HIDE DEF data, P
  <1>7. CASE ~(rem < n)
    <2>1. packet = Block(data, n)
      BY <1>4, <1>7, Zenon
    <2>2. /\ packet \in Seq(Nat \X Nat) /\ n <= Len(packet) /\ Len(packet) <= 2 * n /\ (is16bit \/ Len(packet) = n)
          /\ \A i \in 1..n : packet[i] = <<k, i>>
      BY <1>6, <2>1, Blocks, Zenon
    <2>3. \A i \in 1..n : i <= rem
      BY <1>3, <1>7
    <2> QED BY <1>3, <2>2, <2>3, Zenon DEF Copied, packet, P
  <1>8. CASE rem < n
    <2>1. n - rem \in Nat /\ rem + (n - rem) = n
      BY <1>3, <1>8
    <2>2. \A i \in 1..rem : i \in 1..n
      BY <1>3, <1>8
    <2>3. ASSUME NEW i \in 1..(n - rem)
          PROVE  mem[Wrap(z + i - 1)] = <<k, (rem + i) - HDR>> /\ mem[Wrap(z + i - 1)] \in Nat \X Nat
      <3> DEFINE j == (rem + i) - HDR
      <3>1. j \in 1..n /\ HDR + j - 1 = rem + i - 1
        BY <1>p, <1>8
      <3>2. HDR + j - 1 \in Nat /\ HDR + j - 1 < Span
        BY <3>1, ByteBounds, Zenon
      <3>3. Wrap(base + (HDR + j - 1)) = Addr(t * P + (HDR + j - 1)) /\ t * P + (HDR + j - 1) \in Nat
        BY <3>2, Address, Zenon DEF base, P
      <3>4. /\ base + (HDR + j - 1) >= e /\ (base + (HDR + j - 1)) - Span = z + i - 1
            /\ z + i - 1 \in Nat /\ ~(z + i - 1 >= e)
        <4> DEFINE o == HDR + j - 1
        <4>1. o = rem + i - 1 /\ o < Span /\ base \in Nat /\ z \in Nat /\ Span \in Nat /\ e = z + Span /\ base + rem = e
          BY <1>0, <1>3, <3>1, <3>2, Zenon
        <4> HIDE DEF o, j
        <4>2. base + o >= e /\ (base + o) - Span = z + i - 1 /\ z + i - 1 \in Nat
          BY <1>p, <4>1
        <4>3. ~(z + i - 1 >= e)
          BY <1>p, <4>1
        <4> QED BY <4>2, <4>3, Zenon DEF o
      <3>5. Wrap(z + i - 1) = z + i - 1 /\ Wrap(base + (HDR + j - 1)) = z + i - 1
        BY <1>5, <3>4, Zenon
      <3>6. mem[Addr(t * P + (HDR + j - 1))] = <<k, j>>
        BY <3>1, Zenon DEF P
      <3>7. Addr(t * P + (HDR + j - 1)) \in Addrs
        BY <3>3, Addresses, Zenon DEF Addrs
      <3> QED BY <3>3, <3>5, <3>6, <3>7, Zenon
    <2>4. /\ head \in Seq(Nat \X Nat) /\ rem <= Len(head) /\ Len(head) <= 2 * rem /\ (is16bit \/ Len(head) = rem)
          /\ \A i \in 1..rem : head[i] = <<k, i>>
      <3>1. \A i \in 1..rem : mem[Wrap(data + i - 1)] = <<k, i>> /\ mem[Wrap(data + i - 1)] \in Nat \X Nat
        BY <1>6, <2>2, Zenon
      <3> QED BY <1>3, <3>1, Blocks, Zenon DEF head
    <2>5. /\ tail \in Seq(Nat \X Nat) /\ n - rem <= Len(tail) /\ Len(tail) <= 2 * (n - rem)
          /\ is16bit \/ Len(tail) = n - rem
          /\ \A i \in 1..(n - rem) : tail[i] = <<k, (rem + i) - HDR>>
      BY <2>1, <2>3, Blocks, Zenon DEF tail
    <2>6. packet = Overlay(head, rem, tail)
      BY <1>4, <1>8, Zenon
    <2>7. /\ packet \in Seq(Nat \X Nat) /\ rem + Len(tail) <= Len(packet)
          /\ Len(packet) = rem + Len(tail) \/ (Len(packet) = Len(head) /\ rem + Len(tail) <= Len(head))
          /\ \A i \in 1..rem : packet[i] = head[i]
          /\ \A i \in 1..Len(tail) : packet[rem + i] = tail[i]
      <3> DEFINE T == Nat \X Nat
      <3>1. head \in Seq(T) /\ tail \in Seq(T)
        BY <2>4, <2>5, Zenon
      <3> HIDE DEF T
      <3>2. /\ Overlay(head, rem, tail) \in Seq(T) /\ rem + Len(tail) <= Len(Overlay(head, rem, tail))
            /\ \/ Len(Overlay(head, rem, tail)) = rem + Len(tail)
               \/ Len(Overlay(head, rem, tail)) = Len(head) /\ rem + Len(tail) <= Len(head)
            /\ \A i \in 1..rem : Overlay(head, rem, tail)[i] = head[i]
            /\ \A i \in 1..Len(tail) : Overlay(head, rem, tail)[rem + i] = tail[i]
        BY <1>p, <2>4, <3>1, Laid
      <3> QED BY <2>6, <3>2, Zenon DEF T
    <2>8. n <= Len(packet) /\ Len(packet) <= 2 * n
      <3>1. Len(head) \in Nat /\ Len(tail) \in Nat /\ Len(packet) \in Nat
        BY <2>4, <2>5, <2>7
      <3>2. /\ rem \in Nat /\ rem < n /\ Len(head) <= 2 * rem /\ n - rem <= Len(tail) /\ Len(tail) <= 2 * (n - rem)
            /\ rem + Len(tail) <= Len(packet) /\ (Len(packet) = rem + Len(tail) \/ Len(packet) = Len(head))
        BY <1>3, <1>8, <2>4, <2>5, <2>7, Zenon
      <3> DEFINE lh == Len(head) lt == Len(tail) lp == Len(packet)
      <3> HIDE DEF lh, lt, lp
      <3>3. /\ lh \in Nat /\ lt \in Nat /\ lp \in Nat /\ lh <= 2 * rem /\ n - rem <= lt /\ lt <= 2 * (n - rem)
            /\ rem + lt <= lp /\ (lp = rem + lt \/ lp = lh)
        BY <3>1, <3>2, Zenon DEF lh, lt, lp
      <3>4. n <= lp /\ lp <= 2 * n
        BY <3>2, <3>3
      <3> QED BY <3>4, Zenon DEF lp
    <2>9. is16bit \/ Len(packet) = n
      <3> SUFFICES ASSUME ~is16bit PROVE Len(packet) = n
        BY Zenon
      <3>1. Len(head) = rem /\ Len(tail) = n - rem
        BY <2>4, <2>5, Zenon
      <3>2. Len(packet) = n \/ (Len(packet) = rem /\ n <= rem)
        BY <2>1, <2>7, <3>1, Zenon
      <3> QED BY <1>3, <1>8, <3>2
    <2>10. ASSUME NEW i \in 1..n PROVE packet[i] = <<k, IF i <= rem THEN i ELSE i - HDR>>
      <3>1. CASE i <= rem
        <4>1. i \in 1..rem
          BY <1>3, <3>1
        <4> QED BY <2>4, <2>7, <3>1, <4>1, Zenon
      <3>2. CASE ~(i <= rem)
        <4> DEFINE j == i - rem
        <4>0. Len(tail) \in Nat /\ n - rem <= Len(tail)
          BY <2>5
        <4>1. j \in 1..(n - rem) /\ rem + j = i
          BY <1>p, <3>2
        <4> HIDE DEF j
        <4>2. j \in 1..Len(tail)
          BY <2>1, <4>0, <4>1
        <4>3. packet[i] = <<k, i - HDR>>
          BY <2>5, <2>7, <4>1, <4>2, Zenon
        <4> QED BY <3>2, <4>3, Zenon
      <3> QED BY <3>1, <3>2, Zenon
    <2> QED BY <1>3, <2>7, <2>8, <2>9, <2>10, Zenon DEF Copied, packet, P
  <1> QED BY <1>7, <1>8, Zenon DEF packet

-----------------------------------------------------------------------------
(* Types of the pages that delimit what is unread.                          *)
LEMMA Positions ==
  ASSUME RecvInv
  PROVE  /\ Len(arrived) \in Nat /\ Len(got) \in Nat /\ Filled \in Nat \ {0} /\ Front \in Nat \ {0}
         /\ Front - 1 \in Nat /\ Front - 1 + 1 = Front
         /\ \A k \in 1..Len(arrived) : /\ arrived[k].at \in Nat \ {0} /\ arrived[k].len \in Nat
                                       /\ Stored(arrived[k].len) \in Nat \ {0} /\ After(k) \in Nat \ {0}
         /\ \A k \in Unread : k \in 1..Len(arrived)
         /\ Len(arrived) > 0 => Filled = After(Len(arrived))
  <1>1. /\ arrived \in Seq([len : Nat, at : Nat \ {0}]) /\ got \in Seq(Seq(Nat \X Nat))
        /\ Taken \in Nat /\ Taken <= Len(arrived)
    BY Zenon DEF RecvInv, RingInv
  <1>2. Len(arrived) \in Nat /\ Len(got) \in Nat
    BY <1>1
  <1>3. ASSUME NEW k \in 1..Len(arrived)
        PROVE  /\ arrived[k].at \in Nat \ {0} /\ arrived[k].len \in Nat
               /\ Stored(arrived[k].len) \in Nat \ {0} /\ After(k) \in Nat \ {0}
    <2>1. arrived[k] \in [len : Nat, at : Nat \ {0}]
      <3> DEFINE T == [len : Nat, at : Nat \ {0}]
      <3>1. arrived \in Seq(T)
        BY <1>1, Zenon
      <3> HIDE DEF T
      <3>2. arrived[k] \in T
        BY <3>1
      <3> QED BY <3>2, Zenon DEF T
    <2>2. arrived[k].at \in Nat \ {0} /\ arrived[k].len \in Nat
      BY <2>1
    <2>3. Stored(arrived[k].len) \in Nat \ {0}
      BY <2>2, Fits, Zenon
    <2> QED BY <2>2, <2>3 DEF After
  <1>4. \A k \in Unread : k \in 1..Len(arrived)
    BY <1>1, <1>2 DEF Unread
  <1>5. Filled \in Nat \ {0} /\ (Len(arrived) > 0 => Filled = After(Len(arrived)))
    <2>1. CASE Len(arrived) = 0
      <3>1. Filled = 1
        BY <2>1, Zenon DEF Filled
      <3> QED BY <2>1, <3>1
    <2>2. CASE Len(arrived) # 0
      <3>1. Len(arrived) \in 1..Len(arrived)
        BY <1>2, <2>2
      <3>2. Filled = After(Len(arrived))
        BY <2>2, Zenon DEF Filled, After
      <3> QED BY <1>3, <3>1, <3>2, Zenon
    <2> QED BY <2>1, <2>2, Zenon
  <1>6. Front \in Nat \ {0}
    <2>1. CASE Taken < Len(arrived)
      <3>1. Taken + 1 \in 1..Len(arrived)
        BY <1>1, <1>2, <2>1
      <3> QED BY <1>3, <2>1, <3>1, Zenon DEF Front
    <2>2. CASE ~(Taken < Len(arrived))
      BY <1>5, <2>2, Zenon DEF Front
    <2> QED BY <2>1, <2>2, Zenon
  <1>7. Front - 1 \in Nat /\ Front - 1 + 1 = Front
    BY <1>6
  <1> QED BY <1>2, <1>3, <1>4, <1>5, <1>6, <1>7, Zenon

(* Steps that leave the ring and the front of it alone.                     *)
LEMMA RecvKept ==
  ASSUME RecvInv, UNCHANGED <<curr, bnry, mem, hdr, arrived>>, got' \in Seq(Seq(Nat \X Nat)),
         Taken' = Taken, ReadInv', GotInv'
  PROVE  RecvInv'
  <1>0. RingInv /\ WindowInv /\ ChainInv /\ DataInv
    BY Zenon DEF RecvInv
  <1>1. curr' = curr /\ bnry' = bnry /\ mem' = mem /\ hdr' = hdr /\ arrived' = arrived
    BY Zenon
  <1>3. Filled' = Filled
    BY <1>1, Zenon DEF Filled
  <1>4. Front' = Front /\ Unread' = Unread /\ \A k : After(k)' = After(k)
    BY <1>1, <1>3, Zenon DEF Front, Unread, After
  <1>5. RingInv' /\ WindowInv'
    BY <1>0, <1>1, <1>3, <1>4, Zenon DEF RingInv, WindowInv
  <1>6. ChainInv'
    BY <1>0, <1>1, <1>3, <1>4, Zenon DEF ChainInv
  <1>7. DataInv'
    <2>1. ASSUME NEW k \in Unread
          PROVE  /\ hdr'[Page(arrived'[k].at)] = [next |-> Page(After(k)'), len |-> arrived'[k].len]
                 /\ \A i \in 1..arrived'[k].len :
                      mem'[Addr(arrived'[k].at * DP_PAGESIZE + (HDR + i - 1))] = <<k, i>>
      BY <1>0, <1>1, <1>4, Zenon DEF DataInv, Byte
    <2> QED BY <1>4, <2>1, Zenon DEF DataInv, Byte, Page
  <1> QED BY <1>5, <1>6, <1>7, Zenon DEF RecvInv

(* Steps that do not concern the receive ring.                              *)
LEMMA RecvStill ==
  ASSUME RecvInv, UNCHANGED <<is16bit, curr, bnry, mem, hdr, arrived, got>>,
         UNCHANGED <<pc, loc>> \/ (pc \notin Reading /\ pc' \notin Reading)
  PROVE  RecvInv'
  <1>0. RingInv /\ ReadInv /\ GotInv
    BY Zenon DEF RecvInv
  <1>1. curr' = curr /\ bnry' = bnry /\ mem' = mem /\ hdr' = hdr /\ arrived' = arrived /\ got' = got
        /\ is16bit' = is16bit
    BY Zenon
  <1>2. /\ (pc' = "bnry" <=> pc = "bnry") /\ (pc' = "curr" <=> pc = "curr")
        /\ pc' \in {"page0", "copy"} <=> pc \in {"page0", "copy"}
        /\ pc' \in Reading => loc' = loc
    BY Zenon DEF Reading
  <1>3. Taken' = Taken /\ Filled' = Filled
    BY <1>1, <1>2, Zenon DEF Taken, Filled
  <1>4. Front' = Front
    BY <1>1, <1>3, Zenon DEF Front
  <1>5. got' \in Seq(Seq(Nat \X Nat))
    BY <1>0, <1>1, Zenon DEF RingInv
  <1>8. ReadInv'
    BY <1>0, <1>1, <1>2, <1>3, <1>4, Zenon DEF ReadInv, Reading
  <1>9. GotInv'
    BY <1>0, <1>1, Zenon DEF GotInv, Remain
  <1> QED BY <1>1, <1>3, <1>5, <1>8, <1>9, RecvKept, Zenon

(* A packet arrives: it goes behind the others.                             *)
LEMMA ReceiveRecv ==
  ASSUME RecvInv, NEW n \in Lengths, Receive(n), UNCHANGED is16bit
  PROVE  RecvInv'
  <1> SUFFICES ASSUME NEW L, L = Len(arrived) PROVE RecvInv'
    BY Zenon
  <1> DEFINE s == Stored(n)
             rec == [len |-> n, at |-> Filled]
             after == ((curr - recv_startpage + s) % Ring) + recv_startpage
  <1>0. RingInv /\ WindowInv /\ ChainInv /\ DataInv /\ ReadInv /\ GotInv
    BY Zenon DEF RecvInv
  <1>1. /\ s < Room /\ mem' = Put(mem, curr, L + 1, n) /\ hdr' = [hdr EXCEPT ![curr] = [next |-> after, len |-> n]]
        /\ curr' = after /\ arrived' = Append(arrived, rec)
        /\ bnry' = bnry /\ got' = got /\ pc' = pc /\ loc' = loc
    BY Zenon DEF Receive, Put, proc
  <1>2. n \in Nat /\ Ring \in Nat \ {0} /\ recv_startpage \in Nat /\ s \in Nat \ {0}
    <2>1. n \in Nat
      BY NeAssumption, Zenon
    <2> QED BY <2>1, Sizes, Fits, Zenon
  <1>3. /\ L \in Nat /\ Filled \in Nat \ {0} /\ Front \in Nat \ {0} /\ Front - 1 \in Nat /\ Front - 1 + 1 = Front
        /\ \A k \in 1..L : /\ arrived[k].at \in Nat \ {0} /\ arrived[k].len \in Nat
                           /\ Stored(arrived[k].len) \in Nat \ {0} /\ After(k) \in Nat \ {0}
        /\ \A k \in Unread : k \in 1..L
        /\ L > 0 => Filled = After(L)
    BY Positions, Zenon
  <1>4. /\ mem \in [Addrs -> Nat \X Nat] /\ hdr \in [recv_startpage..(recv_stoppage - 1) -> [next : Nat, len : Nat]]
        /\ arrived \in Seq([len : Nat, at : Nat \ {0}]) /\ got \in Seq(Seq(Nat \X Nat))
        /\ Taken \in Nat /\ Taken <= L
    BY <1>0, Zenon DEF RingInv, Addrs
  <1>5. curr = Page(Filled) /\ bnry = Page(Front - 1) /\ Front <= Filled /\ Filled + 1 < Front + Ring
    BY <1>0, Zenon DEF WindowInv
  <1>6. rec \in [len : Nat, at : Nat \ {0}] /\ rec.len = n /\ rec.at = Filled
    BY <1>2, <1>3
  <1>7. /\ arrived' \in Seq([len : Nat, at : Nat \ {0}]) /\ Len(arrived') = L + 1
        /\ arrived'[L + 1] = rec /\ \A k \in 1..L : arrived'[k] = arrived[k]
    <2> HIDE DEF rec
    <2> QED BY <1>1, <1>4, <1>6
  <1> HIDE DEF rec
  <1>8. arrived'[L + 1].len = n /\ arrived'[L + 1].at = Filled
    BY <1>6, <1>7, Zenon
  <1>9. Filled' = Filled + s /\ Filled + s \in Nat /\ Filled <= Filled + s
    <2>1. Len(arrived') # 0
      BY <1>3, <1>7
    <2>2. Filled' = arrived'[Len(arrived')].at + Stored(arrived'[Len(arrived')].len)
      BY <2>1, Zenon DEF Filled, Stored
    <2>3. Filled' = Filled + s
      BY <1>7, <1>8, <2>2, Zenon
    <2> QED BY <1>2, <1>3, <2>3
  <1>10. Taken' = Taken /\ Front' = Front
    <2>1. Taken' = Taken
      BY <1>1, Zenon DEF Taken
    <2>2. Taken < L + 1 /\ (Taken < L => Taken + 1 \in 1..L) /\ (~(Taken < L) => Taken = L)
      BY <1>3, <1>4
    <2>3. Front' = arrived'[Taken + 1].at
      BY <1>7, <2>1, <2>2, Zenon DEF Front
    <2>4. CASE Taken < L
      BY <1>7, <2>1, <2>2, <2>3, <2>4, Zenon DEF Front
    <2>5. CASE ~(Taken < L)
      BY <1>8, <2>1, <2>2, <2>3, <2>5, Zenon DEF Front
    <2> QED BY <2>4, <2>5, Zenon
  <1>11. Filled + s + 1 < Front + Ring
    <2> DEFINE d == Filled - Front + 1
    <2>1. d \in 1..(Ring - 1) /\ Front - 1 + d = Filled
      <3>1. Ring \in Nat /\ Filled \in Nat /\ Front \in Nat /\ Front <= Filled /\ Filled + 1 < Front + Ring
        BY <1>2, <1>3, <1>5, Zenon
      <3> QED BY <3>1
    <2> HIDE DEF d
    <2>2. (Page(Front - 1) - Page(Front - 1 + d) + Ring) % Ring = Ring - d
      BY <1>3, <2>1, Space, Zenon
    <2>3. Room = Ring - d
      BY <1>5, <2>1, <2>2, Zenon DEF Room
    <2> QED BY <1>1, <1>2, <1>3, <2>1, <2>3
  <1>12. after = Page(Filled + s)
    BY <1>2, <1>3, <1>5, Pages, Zenon
  <1>13. WindowInv'
    <2>1. Front <= Filled + s
      BY <1>2, <1>3, <1>5
    <2> QED BY <1>1, <1>5, <1>9, <1>10, <1>11, <1>12, <2>1, Zenon DEF WindowInv
  <1>14. /\ \A k \in Unread' : k \in Unread \/ k = L + 1
         /\ \A k \in Unread : k \in Unread' /\ k # L + 1 /\ arrived'[k] = arrived[k] /\ After(k)' = After(k)
         /\ After(L + 1)' = Filled + s
    <2>1. \A k \in Unread' : k \in Unread \/ k = L + 1
      BY <1>3, <1>4, <1>7, <1>10 DEF Unread
    <2>2. \A k \in Unread : k \in Unread' /\ k # L + 1
      BY <1>3, <1>4, <1>7, <1>10 DEF Unread
    <2>3. \A k \in Unread : arrived'[k] = arrived[k] /\ After(k)' = After(k)
      BY <1>3, <1>7, Zenon DEF After
    <2>4. After(L + 1)' = Filled + s
      BY <1>8, Zenon DEF After, Stored
    <2> QED BY <2>1, <2>2, <2>3, <2>4, Zenon
  <1>15. ASSUME NEW k \in Unread
         PROVE  /\ k \in 1..L /\ Front <= arrived[k].at /\ After(k) <= Filled
                /\ arrived[k].at < Filled /\ Filled < arrived[k].at + Ring /\ After(k) <= Filled + s
    <2>1. k \in 1..L /\ Front <= arrived[k].at /\ After(k) <= Filled
      BY <1>0, <1>3, Zenon DEF ChainInv
    <2>2. arrived[k].at \in Nat /\ Stored(arrived[k].len) \in Nat \ {0} /\ After(k) = arrived[k].at + Stored(arrived[k].len)
      BY <1>3, <2>1, Zenon DEF After
    <2>3. Ring \in Nat /\ s \in Nat /\ Filled \in Nat /\ Front \in Nat /\ Filled + 1 < Front + Ring
      BY <1>2, <1>3, <1>5
    <2> HIDE DEF s
    <2>4. arrived[k].at < Filled /\ Filled < arrived[k].at + Ring /\ After(k) <= Filled + s
      BY <2>1, <2>2, <2>3
    <2> QED BY <2>1, <2>4, Zenon
  <1>16. ChainInv'
    <2>1. ASSUME NEW k \in Unread' PROVE Front <= arrived'[k].at /\ After(k)' <= Filled + s
      <3>1. CASE k \in Unread
        BY <1>14, <1>15, <3>1, Zenon
      <3>2. CASE k = L + 1
        <4>1. Filled + s <= Filled + s
          BY <1>9
        <4> QED BY <1>5, <1>8, <1>14, <3>2, <4>1, Zenon
      <3> QED BY <1>14, <3>1, <3>2, Zenon
    <2>2. ASSUME NEW k \in Unread', k + 1 \in Unread' PROVE arrived'[k + 1].at = After(k)'
      <3>1. k \in Unread
        <4>1. k # L + 1
          BY <1>3, <1>7, <1>10, <2>2 DEF Unread
        <4> QED BY <1>14, <4>1, Zenon
      <3>2. CASE k + 1 \in Unread
        BY <1>0, <1>14, <3>1, <3>2, Zenon DEF ChainInv
      <3>3. CASE k + 1 = L + 1
        <4>1. k = L /\ L > 0
          BY <1>3, <1>15, <3>1, <3>3
        <4> QED BY <1>3, <1>8, <1>14, <3>1, <3>3, <4>1, Zenon
      <3> QED BY <1>14, <2>2, <3>2, <3>3, Zenon
    <2>3. ASSUME NEW j \in Unread', NEW k \in Unread', j < k PROVE After(j)' <= arrived'[k].at
      <3>1. j \in Unread
        <4>1. j # L + 1
          BY <1>3, <1>4, <1>7, <1>10, <2>3 DEF Unread
        <4> QED BY <1>14, <4>1, Zenon
      <3>2. CASE k \in Unread
        BY <1>0, <1>14, <2>3, <3>1, <3>2, Zenon DEF ChainInv
      <3>3. CASE k = L + 1
        BY <1>8, <1>14, <1>15, <3>1, <3>3, Zenon
      <3> QED BY <1>14, <3>2, <3>3, Zenon
    <2> QED BY <1>9, <1>10, <2>1, <2>2, <2>3, Zenon DEF ChainInv
  <1>17. /\ mem' \in [Addrs -> Nat \X Nat]
         /\ \A i \in 1..n : mem'[Addr(Filled * DP_PAGESIZE + (HDR + i - 1))] = <<L + 1, i>>
         /\ \A x \in Nat : Front * DP_PAGESIZE <= x /\ x < Filled * DP_PAGESIZE => mem'[Addr(x)] = mem[Addr(x)]
    <2>1. L + 1 \in Nat /\ Filled \in Nat /\ Front \in Nat /\ Filled + s <= Front + Ring
      BY <1>2, <1>3, <1>11
    <2>2. mem' = Put(mem, Page(Filled), L + 1, n)
      BY <1>1, <1>5, Zenon
    <2>3. Front <= Filled
      BY <1>5, Zenon
    <2>4. PutDone(mem, Filled, L + 1, n, Front)
      <3>1. /\ mem \in [Addrs -> Nat \X Nat] /\ Filled \in Nat /\ L + 1 \in Nat /\ n \in Nat /\ Front \in Nat
            /\ Front <= Filled /\ Filled + Stored(n) <= Front + Ring
        BY <1>2, <1>4, <2>1, <2>3, Zenon
      <3>2. Fitting(mem, Filled, L + 1, n, Front)
        BY <3>1, Zenon DEF Fitting
      <3> QED BY <3>2, PutBytes, Zenon
    <2> QED BY <2>2, <2>4, Zenon DEF PutDone
  <1>18. /\ hdr' \in [recv_startpage..(recv_stoppage - 1) -> [next : Nat, len : Nat]]
         /\ hdr'[Page(Filled)] = [next |-> Page(Filled + s), len |-> n]
         /\ \A p \in recv_startpage..(recv_stoppage - 1) : p # Page(Filled) => hdr'[p] = hdr[p]
    <2>1. Page(Filled) \in recv_startpage..(recv_stoppage - 1) /\ Page(Filled + s) \in recv_startpage..(recv_stoppage - 1)
      BY <1>3, <1>9, Pages, Zenon
    <2>2. Page(Filled + s) \in Nat
      BY <1>2, <2>1
    <2>3. [next |-> Page(Filled + s), len |-> n] \in [next : Nat, len : Nat]
      BY <1>2, <2>2
    <2>4. hdr' = [hdr EXCEPT ![Page(Filled)] = [next |-> Page(Filled + s), len |-> n]]
      BY <1>1, <1>5, <1>12, Zenon
    <2> QED BY <1>4, <2>1, <2>3, <2>4, Zenon
  <1>19. RingInv'
    <2>1. Taken <= L + 1
      BY <1>3, <1>4
    <2> QED BY <1>1, <1>4, <1>7, <1>10, <1>17, <1>18, <2>1, Zenon DEF RingInv, Addrs
  <1>20. DataInv'
    <2>1. ASSUME NEW k \in Unread'
          PROVE  /\ hdr'[Page(arrived'[k].at)] = [next |-> Page(After(k)'), len |-> arrived'[k].len]
                 /\ \A i \in 1..arrived'[k].len :
                      mem'[Addr(arrived'[k].at * DP_PAGESIZE + (HDR + i - 1))] = <<k, i>>
      <3>1. CASE k = L + 1
        <4>1. arrived'[k].at = Filled /\ arrived'[k].len = n /\ After(k)' = Filled + s
          BY <1>8, <1>14, <3>1, Zenon
        <4>2. \A i \in 1..n : mem'[Addr(Filled * DP_PAGESIZE + (HDR + i - 1))] = <<k, i>>
          BY <1>17, <3>1, Zenon
        <4> QED BY <1>18, <4>1, <4>2, Zenon
      <3>2. CASE k \in Unread
        <4>1. /\ hdr[Page(arrived[k].at)] = [next |-> Page(After(k)), len |-> arrived[k].len]
              /\ \A i \in 1..arrived[k].len : mem[Addr(arrived[k].at * DP_PAGESIZE + (HDR + i - 1))] = <<k, i>>
          BY <1>0, <3>2, Zenon DEF DataInv, Byte
        <4>2. arrived[k].at \in Nat /\ arrived[k].len \in Nat /\ Filled \in Nat
          BY <1>3, <1>15, <3>2
        <4>3. Page(arrived[k].at) # Page(Filled) /\ Page(arrived[k].at) \in recv_startpage..(recv_stoppage - 1)
          BY <1>15, <3>2, <4>2, Pages, Zenon
        <4>4. ASSUME NEW i \in 1..arrived[k].len
              PROVE  mem'[Addr(arrived[k].at * DP_PAGESIZE + (HDR + i - 1))] = <<k, i>>
          <5> DEFINE x == arrived[k].at * DP_PAGESIZE + (HDR + i - 1)
          <5>1. Front \in Nat /\ Front <= arrived[k].at /\ arrived[k].at + Stored(arrived[k].len) <= Filled
            BY <1>3, <1>15, <3>2, Zenon DEF After
          <5>2. x \in Nat /\ Front * DP_PAGESIZE <= x /\ x < Filled * DP_PAGESIZE
            BY <4>2, <5>1, ByteBounds, Zenon
          <5>3. mem[Addr(x)] = <<k, i>>
            BY <4>1, Zenon
          <5> HIDE DEF x
          <5>4. mem'[Addr(x)] = <<k, i>>
            BY <1>17, <5>2, <5>3, Zenon
          <5> QED BY <5>4, Zenon DEF x
        <4> QED BY <1>14, <1>18, <3>2, <4>1, <4>3, <4>4, Zenon
      <3> QED BY <1>14, <3>1, <3>2, Zenon
    <2> QED BY <2>1, Zenon DEF DataInv, Byte, Page
  <1>21. ReadInv'
    <2>1. Taken < L => Taken < L + 1
      BY <1>3, <1>4
    <2> QED BY <1>0, <1>1, <1>7, <1>10, <2>1, Zenon DEF ReadInv, Page
  <1>22. GotInv'
    <2>1. Len(got) \in Nat /\ Len(got) <= L
      BY <1>0, <1>4 DEF GotInv
    <2>2. Len(got) <= L + 1 /\ \A k \in 1..Len(got) : k \in 1..L
      BY <1>3, <2>1
    <2>3. \A k \in 1..Len(got) : arrived'[k] = arrived[k] /\ Remain(k)' = Remain(k)
      BY <1>7, <2>2, Zenon DEF Remain, Ring
    <2> QED BY <1>0, <1>1, <1>7, <2>2, <2>3, Zenon DEF GotInv
  <1> QED BY <1>13, <1>16, <1>19, <1>20, <1>21, <1>22, Zenon DEF RecvInv

(* ne_pio_read before the copy: DP_CURR, read on register page 1, may be    *)
(* old when it is used, but if it was not the front then, there is a packet *)
(* at the front.                                                            *)
LEMMA LookRecv ==
  ASSUME RecvInv, (\E n \in BufSizes : read(n)) \/ read_curr \/ read_page0, UNCHANGED is16bit
  PROVE  RecvInv'
  <1>0. RingInv /\ WindowInv /\ ReadInv /\ GotInv
    BY Zenon DEF RecvInv
  <1>1. /\ curr' = curr /\ bnry' = bnry /\ mem' = mem /\ hdr' = hdr /\ arrived' = arrived /\ got' = got
        /\ pc # "bnry" /\ pc' # "bnry"
    BY Zenon DEF read, read_curr, read_page0, Goto, chip, Starts
  <1>2. Taken' = Taken /\ Filled' = Filled
    BY <1>1, Zenon DEF Taken, Filled
  <1>3. Front' = Front
    BY <1>1, <1>2, Zenon DEF Front
  <1>4. got' \in Seq(Seq(Nat \X Nat))
    BY <1>0, <1>1, Zenon DEF RingInv
  <1>5. GotInv'
    BY <1>0, <1>1, Zenon DEF GotInv, Remain
  <1>6. ReadInv'
    <2>1. CASE \E n \in BufSizes : read(n)
      <3>1. PICK n \in BufSizes : read(n)
        BY <2>1, Zenon
      <3>2. n \in Nat /\ pc' = "curr" /\ loc' = <<n>>
        BY <3>1, NeAssumption, Zenon DEF read, Goto
      <3>3. loc' \in Seq(Nat) /\ Len(loc') = 1
        BY <3>2
      <3> QED BY <3>2, <3>3, Zenon DEF ReadInv
    <2>2. CASE read_curr
      <3>1. pc = "curr" /\ pc' = "page0" /\ loc' = Append(loc, curr)
        BY <2>2, Zenon DEF read_curr, Goto
      <3>2. loc \in Seq(Nat) /\ Len(loc) = 1
        BY <1>0, <3>1, Zenon DEF ReadInv
      <3>3. Filled \in Nat /\ Front \in Nat
        BY Positions, Zenon
      <3>4. curr = Page(Filled) /\ curr \in Nat
        <4>1. Page(Filled) \in recv_startpage..(recv_stoppage - 1)
          BY <3>3, Pages, Zenon
        <4>2. Page(Filled) \in Nat
          BY <4>1, Sizes
        <4> QED BY <1>0, <4>2, Zenon DEF WindowInv
      <3>5. loc' \in Seq(Nat) /\ Len(loc') = 2 /\ loc'[2] = curr
        <4>1. curr \in Nat /\ loc \in Seq(Nat) /\ Len(loc) = 1 /\ loc' = Append(loc, curr)
          BY <3>1, <3>2, <3>4, Zenon
        <4>0. \A s \in Seq(Nat), x \in Nat :
                Append(s, x) \in Seq(Nat) /\ Len(Append(s, x)) = Len(s) + 1 /\ Append(s, x)[Len(s) + 1] = x
          OBVIOUS
        <4>2. loc' \in Seq(Nat) /\ Len(loc') = Len(loc) + 1 /\ loc'[Len(loc) + 1] = curr
          BY <4>0, <4>1, Zenon
        <4>3. 1 + 1 = 2
          OBVIOUS
        <4> QED BY <4>1, <4>2, <4>3, Zenon
      <3>6. curr # Page(Front) => Taken < Len(arrived)
        BY <3>4, Zenon DEF Front
      <3> QED BY <1>1, <1>2, <1>3, <3>1, <3>5, <3>6, Zenon DEF ReadInv
    <2>3. CASE read_page0
      <3>1. pc = "page0" /\ pc' = "copy" /\ loc' = loc
        BY <2>3, Zenon DEF read_page0, Goto
      <3> QED BY <1>0, <1>1, <1>2, <1>3, <3>1, Zenon DEF ReadInv
    <2> QED BY <2>1, <2>2, <2>3, Zenon
  <1> QED BY <1>1, <1>2, <1>4, <1>5, <1>6, RecvKept, Zenon

(* ne_pio_read copies the packet at the front of the ring.                  *)
LEMMA CopyRecv ==
  ASSUME RecvInv, read_copy, UNCHANGED is16bit
  PROVE  RecvInv'
  <1> DEFINE page == NextPage(bnry)
             n == hdr[page].len
             packet == PacketAt(page, n)
  <1>0. RingInv /\ WindowInv /\ ChainInv /\ DataInv /\ ReadInv /\ GotInv
    BY Zenon DEF RecvInv
  <1>1. curr' = curr /\ bnry' = bnry /\ mem' = mem /\ hdr' = hdr /\ arrived' = arrived /\ pc = "copy"
    BY Zenon DEF read_copy
  <1>2. got \in Seq(Seq(Nat \X Nat)) /\ mem \in [Addrs -> Nat \X Nat] /\ Taken = Len(got) /\ Taken \in Nat
    BY <1>0, <1>1, Zenon DEF RingInv, Addrs, Taken
  <1>3. CASE pc' = "idle" /\ got' = got
    <2>1. Taken' = Taken
      BY <1>2, <1>3, Zenon DEF Taken
    <2>2. ReadInv'
      BY <1>3, Zenon DEF ReadInv
    <2>3. GotInv'
      BY <1>0, <1>1, <1>3, Zenon DEF GotInv, Remain
    <2> QED BY <1>1, <1>2, <1>3, <2>1, <2>2, <2>3, RecvKept, Zenon
  <1>4. CASE page # loc[2] /\ pc' = "bnry" /\ loc' = <<page>> /\ got' = Append(got, packet)
    <2> DEFINE k == Taken + 1
    <2>1. /\ Front \in Nat /\ Front - 1 \in Nat /\ Front - 1 + 1 = Front /\ Filled \in Nat /\ Len(arrived) \in Nat
          /\ bnry = Page(Front - 1) /\ Filled + 1 < Front + Ring
      BY <1>0, Positions, Zenon DEF WindowInv
    <2>2. page = Page(Front)
      BY <2>1, Pages, Zenon
    <2>3. Taken < Len(arrived) /\ Front = arrived[k].at
      BY <1>0, <1>1, <1>4, <2>2, Zenon DEF ReadInv, Front
    <2>4. k \in Unread /\ k \in 1..Len(arrived)
      BY <1>2, <2>1, <2>3 DEF Unread
    <2>5. n = arrived[k].len /\ \A i \in 1..n : mem[Addr(Front * DP_PAGESIZE + (HDR + i - 1))] = <<k, i>>
      <3>1. /\ hdr[Page(arrived[k].at)] = [next |-> Page(After(k)), len |-> arrived[k].len]
            /\ \A i \in 1..arrived[k].len : mem[Addr(arrived[k].at * DP_PAGESIZE + (HDR + i - 1))] = <<k, i>>
        BY <1>0, <2>4, Zenon DEF DataInv, Byte
      <3>2. hdr[page].len = arrived[k].len
        BY <2>2, <2>3, <3>1
      <3> QED BY <2>3, <3>1, <3>2, Zenon
    <2>6. n \in Nat /\ Stored(n) \in Nat /\ Front + Stored(n) <= Filled
      BY <1>0, <2>3, <2>4, <2>5, Positions, Zenon DEF ChainInv, After
    <2>7. Stored(n) <= Ring
      <3> DEFINE c == Stored(n)
      <3>1. Ring \in Nat /\ Front \in Nat /\ Filled \in Nat /\ c \in Nat /\ Front + c <= Filled /\ Filled + 1 < Front + Ring
        BY <2>1, <2>6, Sizes, Zenon
      <3> HIDE DEF c
      <3>2. c <= Ring
        BY <3>1
      <3> QED BY <3>2, Zenon DEF c
    <2>8. packet \in Seq(Nat \X Nat) /\ Copied(packet, is16bit, k, n, Remain(k))
      <3> HIDE DEF n
      <3>1. k \in Nat
        BY <1>2
      <3> HIDE DEF k
      <3>2. /\ PacketAt(Page(Front), n) \in Seq(Nat \X Nat)
            /\ Copied(PacketAt(Page(Front), n), is16bit, k, n, (Ring - (Front % Ring)) * DP_PAGESIZE)
        BY <1>2, <2>1, <2>5, <2>6, <2>7, <3>1, CopyBytes, Zenon
      <3> QED BY <2>2, <2>3, <3>2, Zenon DEF Remain
    <2> HIDE DEF packet
    <2>9. /\ got' \in Seq(Seq(Nat \X Nat)) /\ Len(got') = k /\ got'[k] = packet
          /\ \A j \in 1..Taken : got'[j] = got[j]
      <3> DEFINE T == Seq(Nat \X Nat)
      <3>1. got \in Seq(T) /\ packet \in T
        BY <1>2, <2>8, Zenon
      <3> HIDE DEF T
      <3>2. got' \in Seq(T) /\ Len(got') = Len(got) + 1 /\ got'[Len(got) + 1] = packet /\ \A j \in 1..Len(got) : got'[j] = got[j]
        BY <1>4, <3>1
      <3> QED BY <1>2, <3>2, Zenon DEF T
    <2>10. Taken' = Taken
      <3>1. Taken' = Len(got') - 1
        BY <1>4, Zenon DEF Taken
      <3> QED BY <1>2, <2>9, <3>1
    <2>11. ReadInv'
      <3>1. Front' = Front
        BY <1>1, <2>3, <2>10, Zenon DEF Front
      <3> QED BY <1>1, <1>4, <2>2, <2>3, <2>10, <3>1, Zenon DEF ReadInv
    <2>12. GotInv'
      <3>1. \A j : Remain(j)' = Remain(j)
        BY <1>1, Zenon DEF Remain
      <3>2. \A j \in 1..k : j \in 1..Taken \/ j = k
        BY <1>2
      <3>3. k <= Len(arrived)
        BY <1>2, <2>1, <2>3
      <3> HIDE DEF k
      <3>4. \A j \in 1..k : Copied(got'[j], is16bit, j, arrived[j].len, Remain(j))
        <4>1. ASSUME NEW j \in 1..Taken PROVE Copied(got'[j], is16bit, j, arrived[j].len, Remain(j))
          BY <1>0, <1>2, <2>9, Zenon DEF GotInv
        <4>2. Copied(got'[k], is16bit, k, arrived[k].len, Remain(k))
          BY <2>5, <2>8, <2>9, Zenon
        <4> QED BY <3>2, <4>1, <4>2, Zenon
      <3> QED BY <1>1, <2>9, <3>1, <3>3, <3>4, Zenon DEF GotInv
    <2> QED BY <1>1, <2>9, <2>10, <2>11, <2>12, RecvKept, Zenon
  <1> QED BY <1>3, <1>4, Zenon DEF read_copy, Return, Goto

(* ne_pio_read sets the boundary behind the packet it has copied.           *)
LEMMA BnryRecv ==
  ASSUME RecvInv, read_bnry, UNCHANGED is16bit
  PROVE  RecvInv'
  <1> SUFFICES ASSUME NEW k, k = Taken + 1 PROVE RecvInv'
    BY Zenon
  <1> DEFINE b == hdr[loc[1]].next - 1
  <1>0. RingInv /\ WindowInv /\ ChainInv /\ DataInv /\ ReadInv /\ GotInv
    BY Zenon DEF RecvInv
  <1>1. /\ curr' = curr /\ mem' = mem /\ hdr' = hdr /\ arrived' = arrived /\ got' = got /\ pc = "bnry" /\ pc' = "idle"
        /\ bnry' = IF b < recv_startpage THEN recv_stoppage - 1 ELSE b
    BY Zenon DEF read_bnry, Return
  <1>2. /\ got \in Seq(Seq(Nat \X Nat)) /\ Len(got) \in Nat /\ Len(arrived) \in Nat
        /\ Taken = Len(got) - 1 /\ Taken \in Nat /\ Taken < Len(arrived)
        /\ loc = <<Page(Front)>> /\ Front = arrived[Taken + 1].at
    BY <1>0, <1>1, Positions, Zenon DEF RingInv, Taken, ReadInv, Front
  <1>3. k = Len(got) /\ k \in Nat /\ k \in Unread /\ k \in 1..Len(arrived) /\ k <= Len(arrived) /\ Front = arrived[k].at
    BY <1>2 DEF Unread
  <1>4. /\ Front \in Nat /\ Filled \in Nat /\ Filled + 1 < Front + Ring /\ Stored(arrived[k].len) \in Nat \ {0}
        /\ After(k) \in Nat \ {0} /\ After(k) <= Filled /\ After(k) = Front + Stored(arrived[k].len)
    BY <1>0, <1>3, Positions, Zenon DEF WindowInv, ChainInv, After
  <1>5. Taken' = k /\ Filled' = Filled /\ \A j : After(j)' = After(j)
    BY <1>1, <1>3, Zenon DEF Taken, Filled, After
  <1>6. Front' = After(k)
    <2>1. Front' = IF k < Len(arrived) THEN arrived[k + 1].at ELSE Filled
      BY <1>1, <1>5, Zenon DEF Front
    <2>2. CASE k < Len(arrived)
      <3>1. k + 1 \in Unread
        BY <1>2, <1>3, <2>2 DEF Unread
      <3>2. arrived[k + 1].at = After(k)
        BY <1>0, <1>3, <3>1, Zenon DEF ChainInv
      <3> QED BY <2>1, <2>2, <3>2, Zenon
    <2>3. CASE ~(k < Len(arrived))
      <3>1. k = Len(arrived) /\ Len(arrived) > 0
        BY <1>2, <1>3, <2>3
      <3>2. Filled = After(k)
        BY <3>1, Positions, Zenon
      <3> QED BY <2>1, <2>3, <3>2, Zenon
    <2> QED BY <2>2, <2>3, Zenon
  <1>7. After(k) - 1 \in Nat /\ After(k) - 1 + 1 = After(k)
    BY <1>4
  <1>8. bnry' = Page(After(k) - 1)
    <2>1. hdr[Page(Front)] = [next |-> Page(After(k)), len |-> arrived[k].len]
      BY <1>0, <1>3, Zenon DEF DataInv
    <2>2. loc[1] = Page(Front)
      BY <1>2
    <2>3. hdr[loc[1]].next = Page(After(k))
      BY <2>1, <2>2
    <2>4. Page(After(k) - 1) = IF Page(After(k)) - 1 < recv_startpage THEN recv_stoppage - 1 ELSE Page(After(k)) - 1
      BY <1>7, Pages, Zenon
    <2> QED BY <1>1, <2>3, <2>4, Zenon
  <1>9. Filled + 1 < After(k) + Ring
    <2>1. Ring \in Nat
      BY Sizes, Zenon
    <2> DEFINE c == Stored(arrived[k].len)
    <2>2. c \in Nat /\ After(k) = Front + c
      BY <1>4
    <2> HIDE DEF c
    <2> QED BY <1>4, <2>1, <2>2
  <1>10. WindowInv'
    BY <1>0, <1>1, <1>4, <1>5, <1>6, <1>8, <1>9, Zenon DEF WindowInv
  <1>11. \A j \in Unread' : j \in Unread /\ k < j
    <2>1. Unread' = (k + 1)..Len(arrived) /\ Unread = (Taken + 1)..Len(arrived) /\ Taken + 1 = k
      BY <1>1, <1>5, Zenon DEF Unread
    <2> QED BY <1>2, <1>3, <2>1
  <1>12. ChainInv'
    <2>1. \A j \in Unread' : After(k) <= arrived[j].at /\ After(j) <= Filled
      BY <1>0, <1>3, <1>11, Zenon DEF ChainInv
    <2>2. \A j \in Unread' : j + 1 \in Unread' => arrived[j + 1].at = After(j)
      BY <1>0, <1>11, Zenon DEF ChainInv
    <2>3. \A i, j \in Unread' : i < j => After(i) <= arrived[j].at
      BY <1>0, <1>11, Zenon DEF ChainInv
    <2> QED BY <1>1, <1>5, <1>6, <2>1, <2>2, <2>3, Zenon DEF ChainInv
  <1>13. DataInv'
    <2>1. ASSUME NEW j \in Unread'
          PROVE  /\ hdr'[Page(arrived'[j].at)] = [next |-> Page(After(j)'), len |-> arrived'[j].len]
                 /\ \A i \in 1..arrived'[j].len :
                      mem'[Addr(arrived'[j].at * DP_PAGESIZE + (HDR + i - 1))] = <<j, i>>
      BY <1>0, <1>1, <1>5, <1>11, Zenon DEF DataInv, Byte
    <2> QED BY <2>1, Zenon DEF DataInv, Byte, Page
  <1>14. RingInv'
    BY <1>0, <1>1, <1>3, <1>5, Zenon DEF RingInv
  <1>15. ReadInv'
    BY <1>1, Zenon DEF ReadInv
  <1>16. GotInv'
    BY <1>0, <1>1, Zenon DEF GotInv, Remain
  <1> QED BY <1>10, <1>12, <1>13, <1>14, <1>15, <1>16, Zenon DEF RecvInv

-----------------------------------------------------------------------------
(* The control state: who is where, and which register page is selected.    *)
LEMMA ControlStep ==
  ASSUME ControlInv, Next
  PROVE  ControlInv'
  <1>1. prompt \in BOOLEAN /\ prompt' \in BOOLEAN
    BY Zenon DEF ControlInv, Next, card
  <1>2. CASE Card
    BY <1>1, <1>2, Zenon DEF ControlInv, Card, Receive, DmaDone, TxDone, proc, handler
  <1>3. CASE Write
    <2>1. crpage' = crpage /\ hpc' = hpc
      BY <1>3, Zenon DEF Write, write, rdma_setup, rdma_wait, outs, poll, start_xmit, count, chip, handler
    <2>2. pc' \in {"idle"} \cup Writing
      BY <1>3, Zenon DEF Write, write, rdma_setup, rdma_wait, outs, poll, start_xmit, count, Goto, Return, Writing
    <2> QED BY <1>1, <2>1, <2>2, Zenon DEF ControlInv
  <1>4. CASE Read
    <2>1. hpc' = hpc /\ crpage' \in {crpage, 0, 1}
      BY <1>4, Zenon DEF Read, read, read_curr, read_page0, read_copy, read_bnry, chip, handler
    <2>2. pc' \in {"idle"} \cup Reading
      BY <1>4, Zenon DEF Read, read, read_curr, read_page0, read_copy, read_bnry, Goto, Return, Reading
    <2> QED BY <1>1, <2>1, <2>2, Zenon DEF ControlInv
  <1>5. CASE Handler
    <2>1. pc' = pc /\ crpage' = crpage /\ hpc' \in {"off", "isr", "ack", "ptx"}
      BY <1>5, Zenon DEF Handler, interrupt, int_isr, int_ack, int_ptx, proc, chip
    <2> QED BY <1>1, <2>1, Zenon DEF ControlInv
  <1> QED BY <1>2, <1>3, <1>4, <1>5, Zenon DEF Next

(* The steps of the card.                                                   *)
LEMMA CardStep ==
  ASSUME SendInv, RecvInv, Card, UNCHANGED <<prompt, is16bit>>
  PROVE  SendInv' /\ RecvInv'
  <1>1. ASSUME NEW n \in Lengths, Receive(n) PROVE SendInv' /\ RecvInv'
    <2>1. /\ UNCHANGED <<filled, sendq_head, sendq_tail, sendmem, dma, txp, overlapped, sent, written, reported, hpc, hisr, pc, loc>>
          /\ "PTX" \in isr' <=> "PTX" \in isr
      BY <1>1, Zenon DEF Receive, tx, sendq, proc, handler
    <2>2. SendInv'
      BY <2>1, SendStill, Zenon
    <2> QED BY <1>1, <2>2, ReceiveRecv, Zenon
  <1>2. ASSUME DmaDone \/ TxDone PROVE RecvInv'
    <2>1. UNCHANGED <<curr, bnry, mem, hdr, arrived, got, pc, loc>>
      BY <1>2, Zenon DEF DmaDone, TxDone, proc
    <2> QED BY <2>1, RecvStill, Zenon
  <1> QED BY <1>1, <1>2, DmaDoneSend, TxDoneSend, Zenon DEF Card

(* The steps of ne_pio_write.                                               *)
LEMMA WriteStep ==
  ASSUME SendInv, RecvInv, Write, UNCHANGED <<prompt, is16bit>>
  PROVE  SendInv' /\ RecvInv'
  <1>1. UNCHANGED <<curr, bnry, mem, hdr, arrived, got>>
    BY Zenon DEF Write, write, rdma_setup, rdma_wait, outs, poll, start_xmit, count, chip
  <1>2. pc \notin Reading /\ pc' \notin Reading
    BY Zenon DEF Write, write, rdma_setup, rdma_wait, outs, poll, start_xmit, count, Starts, Goto, Return, Reading
  <1>3. RecvInv'
    BY <1>1, <1>2, RecvStill, Zenon
  <1> QED BY <1>3, WriteSend, SetupSend, OutsSend, PollSend, XmitSend, CountSend, Zenon DEF Write

(* The steps of ne_pio_read.                                                *)
LEMMA ReadStep ==
  ASSUME SendInv, RecvInv, Read, UNCHANGED <<prompt, is16bit>>
  PROVE  SendInv' /\ RecvInv'
  <1>1. UNCHANGED <<filled, sendq_head, sendq_tail, sendmem, dma, txp, overlapped, sent, written, reported, hpc, hisr>>
    BY Zenon DEF Read, read, read_curr, read_page0, read_copy, read_bnry, tx, sendq, handler
  <1>2. "PTX" \in isr' <=> "PTX" \in isr
    <2>1. isr' = isr \/ isr' = isr \cup {"RDC"}
      BY Zenon DEF Read, read, read_curr, read_page0, read_copy, read_bnry, chip
    <2> QED BY <2>1
  <1>3. pc \notin Writing /\ pc' \notin Writing
    BY Zenon DEF Read, read, read_curr, read_page0, read_copy, read_bnry, Starts, Goto, Return, Writing
  <1>4. SendInv'
    BY <1>1, <1>2, <1>3, SendStill, Zenon
  <1> QED BY <1>4, LookRecv, CopyRecv, BnryRecv, Zenon DEF Read

(* The steps of ne_interrupt, as long as it does not meet register page 1.  *)
LEMMA HandlerStep ==
  ASSUME ControlInv, SendInv, RecvInv, Handler, ~astray', UNCHANGED <<prompt, is16bit>>
  PROVE  SendInv' /\ RecvInv'
  <1>1. UNCHANGED <<curr, bnry, mem, hdr, arrived, got, pc, loc>>
    <2>1. CASE int_ack
      <3>1. crpage = 0
        BY <2>1, Zenon DEF int_ack, ControlInv
      <3> QED BY <2>1, <3>1, Zenon DEF int_ack, proc
    <2>2. CASE interrupt \/ int_isr \/ int_ptx
      BY <2>2, Zenon DEF interrupt, int_isr, int_ptx, chip, proc
    <2> QED BY <2>1, <2>2, Zenon DEF Handler
  <1>2. RecvInv'
    BY <1>1, RecvStill, Zenon
  <1> QED BY <1>2, AckSend, ReportSend, Zenon DEF Handler

(* Every step keeps the invariant, or leads the driver astray.              *)
LEMMA NextStep ==
  ASSUME IInv, [Next]_vars
  PROVE  IInv'
  <1> SUFFICES ASSUME ~astray' PROVE ControlInv' /\ SendInv' /\ RecvInv'
    BY Zenon DEF IInv
  <1>1. CASE Next
    <2>1. astray' = astray \/ astray' = (astray \/ crpage = 1) \/ astray' = (astray \/ is16bit)
      BY <1>1, Zenon DEF Next, Card, Write, Read, Handler, Receive, DmaDone, TxDone, write, rdma_setup, Spill, rdma_wait,
        outs, poll, start_xmit, count, read, read_curr, read_page0, read_copy, read_bnry, interrupt, int_isr, int_ack, int_ptx
    <2>2. ~astray
      <3>1. CASE astray' = astray
        BY <3>1
      <3>2. CASE astray' = (astray \/ crpage = 1)
        BY <3>2, Zenon
      <3>3. CASE astray' = (astray \/ is16bit)
        BY <3>3, Zenon
      <3> QED BY <2>1, <3>1, <3>2, <3>3, Zenon
    <2>3. ControlInv /\ SendInv /\ RecvInv /\ UNCHANGED <<prompt, is16bit>>
      BY <1>1, <2>2, Zenon DEF IInv, Next, card
    <2> QED BY <1>1, <2>3, ControlStep, CardStep, WriteStep, ReadStep, HandlerStep, Zenon DEF Next
  <1>2. CASE UNCHANGED vars
    <2>1. /\ UNCHANGED <<prompt, filled, sendq_head, sendq_tail, sendmem, dma, txp, overlapped, sent, written, reported, hpc, hisr>>
          /\ UNCHANGED <<is16bit, curr, bnry, mem, hdr, arrived, got, pc, loc>> /\ crpage' = crpage /\ isr' = isr /\ astray' = astray
      BY <1>2, Zenon DEF vars
    <2>2. ~astray
      BY <2>1
    <2>3. ControlInv /\ SendInv /\ RecvInv
      BY <2>2, Zenon DEF IInv
    <2>4. ControlInv'
      BY <2>1, <2>3, Zenon DEF ControlInv
    <2>5. SendInv'
      BY <2>1, <2>3, SendStill, Zenon
    <2> QED BY <2>1, <2>3, <2>4, <2>5, RecvStill, Zenon
  <1> QED BY <1>1, <1>2, Zenon

(* ne_init.                                                                 *)
LEMMA InitHolds ==
  ASSUME Init
  PROVE  IInv
  <1>1. ControlInv
    BY Zenon DEF Init, ControlInv
  <1>2. /\ sendq_head = 0 /\ reported = 0 /\ sendq_tail = SENDQ_LEN - 1 /\ txp = <<>> /\ sent = <<>> /\ written = <<>>
        /\ dma = <<>> /\ isr = {} /\ pc = "idle" /\ hpc = "off" /\ arrived = <<>> /\ got = <<>>
        /\ bnry = recv_startpage /\ curr = recv_startpage + 1
    BY Zenon DEF Init
  <1>3. SENDQ_LEN \in Nat \ {0}
    BY NeAssumption, Zenon
  <1>4. Len(sent) = 0 /\ Len(written) = 0 /\ Len(arrived) = 0 /\ Len(got) = 0
    BY <1>2
  <1>5. QueueInv
    <2>1. filled \in [Slots -> BOOLEAN] /\ sendmem \in [Slots -> Nat]
      BY DEF Init
    <2>2. sent \in Seq(Nat) /\ written \in Seq(Nat)
      BY <1>2
    <2>3. sendq_tail = reported + SENDQ_LEN - 1 /\ sendq_head \in Nat /\ reported \in Nat
      BY <1>2, <1>3
    <2> QED BY <1>2, <2>1, <2>2, <2>3, Zenon DEF QueueInv, Writing
  <1>6. CountInv
    <2>1. Started = 0 /\ pc \notin Writing
      BY <1>2, Zenon DEF Started, Writing
    <2>2. 0 <= 0 /\ 0 <= 0 + SENDQ_LEN
      BY <1>3
    <2> QED BY <1>2, <1>4, <2>1, <2>2, Zenon DEF CountInv
  <1>7. ReportInv
    BY <1>2, <1>4 DEF ReportInv
  <1>8. MarkInv
    <2>1. \A q \in Slots : filled[q] = FALSE
      BY Zenon DEF Init
    <2>2. \A i : i \notin reported..(sendq_head - 1)
      BY <1>2
    <2> QED BY <1>2, <2>1, <2>2, Zenon DEF MarkInv
  <1>9. BytesInv
    <2>1. \A i : i \notin 1..0
      OBVIOUS
    <2> QED BY <1>2, <1>4, <2>1, Zenon DEF BytesInv
  <1>l. LossInv
    <2>1. Started = 0 /\ \A i : i \notin 1..0
      BY <1>2 DEF Started
    <2> QED BY <1>2, <1>4, <2>1, Zenon DEF LossInv
  <1>10. Taken = 0 /\ Filled = 1 /\ Front = 1 /\ \A k : k \notin Unread /\ k \notin 1..0
    <2>1. Taken = 0 /\ Filled = 1
      BY <1>2, <1>4, Zenon DEF Taken, Filled
    <2>2. ~(0 < 0) /\ \A k : k \notin (0 + 1)..0 /\ k \notin 1..0
      OBVIOUS
    <2> QED BY <1>4, <2>1, <2>2, Zenon DEF Front, Unread
  <1>11. RingInv
    <2>1. mem \in [(recv_startpage * DP_PAGESIZE)..(recv_stoppage * DP_PAGESIZE - 1) -> Nat \X Nat]
      <3> DEFINE A == (recv_startpage * DP_PAGESIZE)..(recv_stoppage * DP_PAGESIZE - 1)
      <3>1. mem = [a \in A |-> <<0, 0>>]
        BY Zenon DEF Init
      <3> HIDE DEF A
      <3>2. mem \in [A -> Nat \X Nat]
        BY <3>1
      <3> QED BY <3>2, Zenon DEF A
    <2>2. hdr \in [recv_startpage..(recv_stoppage - 1) -> [next : Nat, len : Nat]]
      <3>1. [next |-> 0, len |-> 0] \in [next : Nat, len : Nat]
        OBVIOUS
      <3> QED BY <3>1, Zenon DEF Init
    <2>3. arrived \in Seq([len : Nat, at : Nat \ {0}]) /\ got \in Seq(Seq(Nat \X Nat))
      BY <1>2
    <2>4. 0 \in Nat /\ 0 <= 0
      OBVIOUS
    <2> QED BY <1>4, <1>10, <2>1, <2>2, <2>3, <2>4, Zenon DEF RingInv
  <1>12. WindowInv
    <2>1. Ring \in Nat \ {0} /\ 1 < Ring /\ recv_startpage \in Nat
      BY Sizes, Zenon
    <2>2. 0 % Ring = 0 /\ 1 % Ring = 1
      <3>1. 0 \in Nat /\ 1 \in Nat /\ 0 < Ring /\ 0 < 2 * Ring /\ 1 < 2 * Ring
        BY <2>1
      <3> QED BY <2>1, <3>1, Once, Zenon
    <2>3. 1 - 1 = 0 /\ recv_startpage + 0 = recv_startpage /\ 1 <= 1 /\ 1 + 1 < 1 + Ring
      BY <2>1
    <2> QED BY <1>2, <1>10, <2>2, <2>3, Zenon DEF WindowInv, Page
  <1>13. ChainInv /\ DataInv
    BY <1>10, Zenon DEF ChainInv, DataInv
  <1>14. ReadInv
    BY <1>2, Zenon DEF ReadInv
  <1>15. GotInv
    <2>1. 0 <= 0
      OBVIOUS
    <2> QED BY <1>4, <1>10, <2>1, Zenon DEF GotInv
  <1> QED BY <1>1, <1>5, <1>6, <1>7, <1>8, <1>9, <1>l, <1>11, <1>12, <1>13, <1>14, <1>15, Zenon DEF IInv, SendInv, RecvInv

(* The invariant of the driver and the card.                                *)
THEOREM Invariant == Spec => []IInv
  <1>1. Init => IInv
    BY InitHolds, Zenon
  <1>2. IInv /\ [Next]_vars => IInv'
    BY NextStep, Zenon
  <1> QED BY <1>1, <1>2, PTL DEF Spec

(***************************************************************************)
(* The send queue, whatever the number of buffers: with a card whose       *)
(* remote DMA is prompt what goes out are packets that ne_pio_write was    *)
(* given, in that order and none twice, and all of them as long as no      *)
(* transmission is started during another one; the marks agree with        *)
(* sendq_head and sendq_tail; and ne_interrupt reports no packet that was  *)
(* not transmitted. Nothing is claimed once the driver has gone astray.    *)
(***************************************************************************)
THEOREM SendQueue == Spec => []SendQueueSound
  <1>1. ASSUME SendInv PROVE (prompt => SentIsWritten) /\ FilledMatches /\ reported <= Len(sent)
    <2>0. QueueInv /\ CountInv /\ ReportInv /\ MarkInv /\ BytesInv /\ LossInv
      BY <1>1, Zenon DEF SendInv
    <2>1. sent \in Seq(Nat) /\ sendq_head \in Nat /\ Len(sent) \in Nat
      <3>1. sent \in Seq(Nat) /\ sendq_head \in Nat
        BY <2>0, Zenon DEF QueueInv
      <3> QED BY <3>1
    <2>2. Started \in Nat /\ Len(written) \in Nat /\ Started <= Len(written)
      BY <2>0, <2>1 DEF CountInv, Started, Writing
    <2>4. ASSUME prompt PROVE SentIsWritten
      <3>1. /\ \A k \in 1..Len(sent) : sent[k] \in 1..Started
            /\ \A j, k \in 1..Len(sent) : j < k => sent[j] < sent[k]
        BY <2>0, <2>4, Zenon DEF BytesInv
      <3>2. \A k \in 1..Len(sent) : sent[k] \in 1..Len(written)
        BY <2>2, <3>1
      <3>3. ~overlapped => \A k \in 1..Len(sent) : sent[k] = k
        BY <2>0, <2>4, Zenon DEF LossInv
      <3> QED BY <3>1, <3>2, <3>3, Zenon DEF SentIsWritten
    <2>5. FilledMatches
      <3>1. sendq_tail - SENDQ_LEN + 1 = reported
        <4>1. reported \in Nat /\ SENDQ_LEN \in Nat /\ sendq_tail = reported + SENDQ_LEN - 1
          BY <2>0, NeAssumption, Zenon DEF QueueInv
        <4> QED BY <4>1
      <3>2. pc \in {"xmit", "count"} => loc[1] = Buffer(sendq_head)
        BY <2>0 DEF QueueInv, Writing
      <3> QED BY <2>0, <3>1, <3>2, Zenon DEF FilledMatches, MarkInv, Buffer
    <2> QED BY <2>0, <2>4, <2>5, Zenon DEF ReportInv
  <1>2. IInv => SendQueueSound
    BY <1>1, Zenon DEF IInv, SendQueueSound
  <1> QED BY <1>2, Invariant, PTL

(***************************************************************************)
(* The receive ring, whatever its size, the packets and the buffers:       *)
(* ne_pio_read returns the packets that arrived, in order and each once,   *)
(* with the bytes that ReadsArrived names, for cards of both widths, until *)
(* the driver has gone astray.                                             *)
(***************************************************************************)
THEOREM ReceiveRing == Spec => []ReadsArrived
  <1>1. IInv => ReadsArrived
    BY Zenon DEF IInv, RecvInv, GotInv, ReadsArrived
  <1> QED BY <1>1, Invariant, PTL
=============================================================================
