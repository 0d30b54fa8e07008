---------------------------- MODULE Emac_proofs ----------------------------
(***************************************************************************)
(* The Ethernet driver and its DMA channel, for any size of the ring, any    *)
(* length of the frames and any number of resets: the hardware stays in the  *)
(* list, the stop bits are where they belong, the packet count can be        *)
(* trusted, frames are not copied over each other, and what is put is        *)
(* transferred in order, and again only after a reset.                       *)
(***************************************************************************)
EXTENDS DmaChannel_proofs

(* The driver.  The stack takes received frames in time; without that, a      *)
(* descriptor may be lost (the run emac_drop).                                *)
KeepsUp == \A c \in Setups : c.side = "recv" => c.paced

(* The handler pulls as many packets as it found counted.                    *)
Pulling ==
    /\ PacketsLeft \in Nat
    /\ pc = "pull" => PacketsLeft > 0 /\ PacketsLeft <= count
    /\ pc \in {"stop", "begin"} => resets > 0

(* A receive channel is full but for the descriptors the handler has pulled   *)
(* and not yet given back, which come at PutPtr in turn; there is room for    *)
(* their frames.                                                            *)
Refilled ==
    /\ todo = 0 /\ task = "idle"
    /\ pc \notin {"pull", "call", "put", "commit", "start"} => active = Total
    /\ pc \in {"pull", "call", "commit", "start"} => BdPtr = PutPtr /\ active + NumBds = Total
    /\ pc = "put" => BdPtr = PutPtr /\ active + NumBds + 1 = Total /\ ~ bd[BdPtr].locked
    /\ pc = "commit" => CommitPtr # NULL /\ active > 0
    /\ backlog <= Cardinality(Waiting) + (IF pc = "put" THEN 1 ELSE 0)

Refill ==
    /\ BdPtr \in Slots /\ NumBds \in Nat /\ backlog \in Nat
    /\ pc \in {"put", "commit", "start"} => setup.side = "recv"
    /\ setup.side = "recv" => Refilled

(* The buffer n before b, of the NumBuffers + 1 that NextBuffer counts.       *)
Before(b, n) == IF b >= n THEN b - n ELSE b + NumBuffers + 1 - n

(* Frames that are copied have the buffers before NextSendBuffer in turn.     *)
InTurn ==
    /\ todo \in Nat /\ DOMAIN buf = Slots
    /\ ~ setup.copies => frame_ptr = NULL
    /\ setup.copies =>
          /\ todo <= 1 /\ NextSendBuffer \in 0 .. NumBuffers
          /\ todo = 1 => frame_ptr = Before(NextSendBuffer, 1)
          /\ setup.side = "send" /\ ~ snd_pkt_dropped =>
                \A s \in Slots : From(GetPtr, s) < active =>
                   buf[s] = Before(NextSendBuffer, active - From(GetPtr, s) + todo)

IInv == setup \in Setups /\ Channel /\ Pulling /\ Refill /\ InTurn

(* What a step means for the ring.                                           *)
Kept == active' = active /\ Done' = Done

Resetting == pc = "stop"

RingStep ==
    \/ Kept /\ (pc' = pc \/ ~ Resetting)
    \/ active' = active + 1 /\ active < Total /\ Done' = Done /\ ~ Resetting /\ ~ Resetting'
    \/ active' = active /\ Done < active /\ Done' = Done + 1 /\ pc' = pc
    \/ active' = active - 1 /\ Done > 0 /\ Done' = Done - 1 /\ ~ Resetting /\ ~ Resetting'
    \/ active' = active /\ Done' = 0 /\ Resetting /\ ~ Resetting'

LEMMA SetupFacts ==
    ASSUME setup \in Setups
    PROVE  /\ setup.side \in {"send", "recv"} /\ setup.bds \in Nat \ {0} /\ setup.resets \in Nat
           /\ setup.copies \in BOOLEAN /\ (setup.copies => setup.bds = 1)
  BY EmacAssumption

LEMMA PullingFrame ==
    ASSUME Pulling, UNCHANGED <<PacketsLeft, resets>>, pc' \notin {"pull", "stop", "begin"}
    PROVE  Pulling'
  BY DEF Pulling

LEMMA InTurnFrame ==
    ASSUME InTurn, UNCHANGED <<setup, todo, NextSendBuffer, frame_ptr, buf, snd_pkt_dropped>>,
           setup.side = "send" => UNCHANGED <<GetPtr, active>>
    PROVE  InTurn'
  BY DEF InTurn

(* Steps between which a receive channel stays full.                          *)
LEMMA RefillFrame ==
    ASSUME Refill, UNCHANGED <<setup, todo, task, BdPtr, NumBds, active, PutPtr>>,
           backlog' \in Nat, backlog' <= backlog,
           Cardinality(Waiting) \in Nat, Waiting' = Waiting,
           pc \notin {"pull", "call", "put", "commit", "start"},
           pc' \notin {"pull", "call", "put", "commit", "start"}
    PROVE  Refill'
<1>1. ASSUME setup.side = "recv" PROVE Refilled'
  <2>1. Refilled
    BY <1>1 DEF Refill
  <2>2. backlog' <= Cardinality(Waiting) + 0
    BY <2>1 DEF Refilled, Refill
  <2> QED
    BY <2>1, <2>2 DEF Refilled
<1> QED
  BY <1>1 DEF Refill

LEMMA WaitingFinite ==
    ASSUME ChannelType PROVE IsFiniteSet(Waiting) /\ Cardinality(Waiting) \in Nat
<1>1. IsFiniteSet(Waiting)
  BY PassedFinite, FS_Subset DEF Waiting
<1> QED
  BY <1>1, FS_CardinalityType

LEMMA ChannelFrame ==
    ASSUME Channel, UNCHANGED <<channel, resets>>
    PROVE  Channel' /\ Kept /\ Waiting' = Waiting
<1>1. UNCHANGED <<bd, PutPtr, GetPtr, LastPtr, CommitPtr, active, hw, bda, enable, count>>
  BY DEF channel, list, engine
<1>2. EndStops' /\ CommitPtr' \in Slots \cup {NULL} /\ bd' \in [Slots -> Bits]
      /\ enable' \in BOOLEAN /\ resets' \in Nat
  BY <1>1 DEF Channel, EndStops, Listed, ChannelType
<1> QED
  BY <1>1, <1>2, SameKeeps, Zenon DEF Kept

(* NextBuffer turns the buffer n before into the one n + 1 before.            *)
LEMMA BeforeNext ==
    ASSUME NEW b \in 0 .. NumBuffers, NEW n \in 0 .. NumBuffers
    PROVE  /\ NextBuffer(b) \in 0 .. NumBuffers
           /\ Before(NextBuffer(b), n + 1) = Before(b, n)
           /\ Before(b, 0) = b
  BY EmacAssumption DEF NextBuffer, Before

LEMMA OutputKeeps ==
    ASSUME IInv, NEW n \in 1 .. setup.bds, low_level_output(n)
    PROVE  IInv' /\ RingStep
<1> USE DEF IInv
<1>1. /\ UNCHANGED <<channel, env, task, buf, snd_pkt_dropped, intr, backlog>>
      /\ setup.side = "send" /\ pc = "out" /\ todo = 0 /\ todo' = n
      /\ setup.copies => /\ frame_ptr' = NextSendBuffer
                         /\ NextSendBuffer' = NextBuffer(NextSendBuffer)
      /\ ~ setup.copies => UNCHANGED <<frame_ptr, NextSendBuffer>>
  BY Zenon DEF low_level_output, net
<1>2. UNCHANGED <<setup, resets, pc, PacketsLeft, NumBds, BdPtr, GetPtr, active>>
  BY <1>1 DEF env, intr, channel, list
<1>3. Channel' /\ Kept
  BY <1>1, <1>2, ChannelFrame
<1>4. Pulling' /\ Refill'
  BY <1>1, <1>2 DEF Pulling, Refill
<1>5. InTurn'
  <2>1. n \in Nat /\ n > 0 /\ (setup.copies => n = 1) /\ setup.copies \in BOOLEAN
    BY SetupFacts
  <2>2. CASE ~ setup.copies
    BY <2>1, <2>2, <1>1, <1>2 DEF InTurn
  <2>3. CASE setup.copies
    <3> DEFINE b == NextSendBuffer
    <3>1. /\ b \in 0 .. NumBuffers
          /\ ~ snd_pkt_dropped => \A s \in Slots : From(GetPtr, s) < active =>
                                     buf[s] = Before(b, active - From(GetPtr, s) + 0)
      BY <2>3, <1>1 DEF InTurn
    <3>2. 0 \in 0 .. NumBuffers /\ NumBuffers >= Total /\ NumBuffers \in Nat
      BY EmacAssumption
    <3>3. /\ NextSendBuffer' \in 0 .. NumBuffers /\ frame_ptr' = b
          /\ Before(NextSendBuffer', 1) = b
      BY <3>1, <3>2, <2>3, <1>1, BeforeNext
    <3>4. ASSUME ~ snd_pkt_dropped, NEW s \in Slots, From(GetPtr, s) < active
          PROVE  buf[s] = Before(NextSendBuffer', active - From(GetPtr, s) + 1)
      <4> DEFINE k == active - From(GetPtr, s)
      <4>1. From(GetPtr, s) \in Nat /\ active \in 0 .. Total /\ Total \in Nat
        BY FromMod, Sizes DEF Channel, ChannelType
      <4>2. k \in 0 .. NumBuffers /\ k + 0 = k
        BY <3>2, <3>4, <4>1
      <4>3. buf[s] = Before(b, k)
        BY <3>1, <3>4, <4>2
      <4> QED
        BY <4>2, <4>3, <3>1, <2>3, <1>1, BeforeNext
    <3> QED
      BY <3>3, <3>4, <2>1, <2>3, <1>1, <1>2 DEF InTurn
  <2> QED
    BY <2>1, <2>2, <2>3
<1> QED
  BY <1>2, <1>3, <1>4, <1>5 DEF RingStep, Resetting

LEMMA SendKeeps ==
    ASSUME IInv, XEmac_SgSend
    PROVE  IInv' /\ RingStep
<1> USE DEF IInv
<1>1. /\ pc = "out" /\ todo > 0 /\ task = "idle"
      /\ UNCHANGED <<setup, resets, NextSendBuffer, pc, PacketsLeft, NumBds, BdPtr, backlog>>
      /\ frame_ptr' = IF todo' = 0 THEN NULL ELSE frame_ptr
  BY DEF XEmac_SgSend, env, intr
<1>2. setup.side = "send" /\ setup.copies \in BOOLEAN /\ todo \in Nat
  BY <1>1, SetupFacts DEF Refill, Refilled, InTurn
<1>3. Pulling' /\ Refill'
  BY <1>1, <1>2 DEF Pulling, Refill
<1>4. CASE ~ CanPut
  <2>1. /\ UNCHANGED channel /\ todo' = 0 /\ snd_pkt_dropped' = setup.copies
        /\ buf' = [s \in Slots |-> NULL]
    BY <1>4 DEF XEmac_SgSend
  <2>2. Channel' /\ Kept
    BY <2>1, <1>1, ChannelFrame
  <2>3. InTurn'
    BY <2>1, <1>1, <1>2 DEF InTurn
  <2> QED
    BY <2>2, <2>3, <1>1, <1>3 DEF RingStep, Resetting
<1>5. CASE CanPut
  <2>1. /\ PutDescriptor(NULL, TRUE, todo = 1) /\ todo' = todo - 1
        /\ buf' = [buf EXCEPT ![PutPtr] = IF snd_pkt_dropped THEN NULL ELSE frame_ptr]
        /\ snd_pkt_dropped' = snd_pkt_dropped
    BY <1>5, Zenon DEF XEmac_SgSend
  <2>2. (todo = 1) \in BOOLEAN
    OBVIOUS
  <2>3. Channel' /\ Done' = Done /\ active' = active + 1 /\ active < Total
    BY ZenonT(30), <2>1, <2>2, <1>1, PutKeeps
  <2>4. /\ GetPtr' = GetPtr /\ GetPtr \in Slots /\ PutPtr \in Slots
        /\ active \in Nat /\ From(GetPtr, PutPtr) = active
    <3>1. GetPtr' = GetPtr
      BY <2>1, Zenon DEF PutDescriptor
    <3>2. GetPtr \in Slots /\ PutPtr \in Slots /\ active \in 0 .. Total
      BY Zenon DEF Channel, ChannelType
    <3> QED
      BY <3>1, <3>2, <2>3, Sizes DEF Channel, Ends
  <2>5. InTurn'
    <3>1. CASE ~ setup.copies
      BY <3>1, <2>1, <1>1, <1>2 DEF InTurn
    <3>2. CASE setup.copies
      <4>1. todo = 1 /\ todo' = 0 /\ frame_ptr = Before(NextSendBuffer, 1)
        BY <3>2, <2>1, <1>1, <1>2 DEF InTurn
      <4>2. ASSUME ~ snd_pkt_dropped, NEW s \in Slots, From(GetPtr, s) < active'
            PROVE  buf'[s] = Before(NextSendBuffer, active' - From(GetPtr, s) + 0)
        <5>1. From(GetPtr, s) \in Nat
          BY <2>4, FromMod
        <5>2. CASE s = PutPtr
          <6>1. active' - From(GetPtr, s) + 0 = 1
            BY <5>2, <2>3, <2>4
          <6>2. buf'[s] = frame_ptr
            BY <5>2, <4>2, <2>1 DEF InTurn
          <6> QED
            BY <6>1, <6>2, <4>1
        <5>3. CASE s # PutPtr
          <6>1. From(GetPtr, s) < active
            BY <5>1, <5>3, <4>2, <2>3, <2>4, FromInj
          <6>2. buf[s] = Before(NextSendBuffer, active - From(GetPtr, s) + todo)
            BY <6>1, <4>2, <3>2, <1>2 DEF InTurn
          <6>3. active' - From(GetPtr, s) + 0 = active - From(GetPtr, s) + todo
            BY <5>1, <4>1, <2>3, <2>4
          <6>4. buf'[s] = buf[s]
            BY <5>3, <2>1
          <6> QED
            BY <6>2, <6>3, <6>4
        <5> QED
          BY <5>2, <5>3
      <4> QED
        BY SMTT(30), <4>1, <4>2, <3>2, <2>1, <2>4, <1>1, <1>2 DEF InTurn
    <3> QED
      BY <3>1, <3>2, <1>2
  <2> QED
    BY <2>3, <2>5, <1>1, <1>3 DEF RingStep, Resetting
<1> QED
  BY <1>4, <1>5

LEMMA SendRefill ==
    ASSUME setup.side = "send", UNCHANGED setup,
           BdPtr' \in Slots, NumBds' \in Nat, backlog' \in Nat,
           pc' \notin {"put", "commit", "start"}
    PROVE  Refill'
  BY DEF Refill

LEMMA SendCommitKeeps ==
    ASSUME IInv, SgSend_commit
    PROVE  IInv' /\ RingStep
<1> USE DEF IInv
<1>1. /\ CommitPuts /\ task = "commit"
      /\ UNCHANGED <<setup, resets, todo, NextSendBuffer, frame_ptr, buf, snd_pkt_dropped,
                     pc, PacketsLeft, NumBds, BdPtr, backlog>>
  BY DEF SgSend_commit, env, net, intr
<1>2. UNCHANGED <<GetPtr, active, count>>
  BY <1>1 DEF CommitPuts
<1>3. Channel' /\ Kept
  BY <1>1, CommitKeeps DEF Kept
<1>4. setup.side = "send"
  BY <1>1, SetupFacts DEF Refill, Refilled
<1>5. Refill' /\ InTurn' /\ Pulling'
  BY <1>1, <1>2, <1>4, InTurnFrame DEF Refill, Pulling
<1> QED
  BY <1>1, <1>3, <1>5 DEF RingStep, Resetting

LEMMA SendStartKeeps ==
    ASSUME IInv, SgSend_start
    PROVE  IInv' /\ RingStep
<1> USE DEF IInv
<1>1. /\ SgStart /\ task = "start"
      /\ UNCHANGED <<setup, resets, todo, NextSendBuffer, frame_ptr, buf, snd_pkt_dropped,
                     pc, PacketsLeft, NumBds, BdPtr, backlog>>
  BY DEF SgSend_start, env, net, intr
<1>2. Channel' /\ Kept /\ UNCHANGED <<GetPtr, active, count>>
  BY <1>1, StartKeeps DEF Kept
<1>3. setup.side = "send"
  BY <1>1, SetupFacts DEF Refill, Refilled
<1>4. Refill' /\ InTurn' /\ Pulling'
  BY <1>1, <1>2, <1>3, InTurnFrame DEF Refill, Pulling
<1> QED
  BY <1>1, <1>2, <1>4 DEF RingStep, Resetting

LEMMA InputKeeps ==
    ASSUME IInv, xemacif_input
    PROVE  IInv' /\ RingStep
<1> USE DEF IInv
<1>1. /\ UNCHANGED <<channel, env, setup, resets, todo, task, NextSendBuffer, frame_ptr, buf,
                     snd_pkt_dropped, pc, PacketsLeft, NumBds, BdPtr, PutPtr, GetPtr, active>>
      /\ pc = "out" /\ backlog > 0 /\ backlog' = backlog - 1
  BY DEF xemacif_input, env, cpu, intr, channel, list
<1>2. Channel' /\ Kept /\ Waiting' = Waiting /\ Cardinality(Waiting) \in Nat
  BY <1>1, ChannelFrame, WaitingFinite DEF Channel
<1>3. backlog' \in Nat /\ backlog' <= backlog
  BY <1>1 DEF Refill
<1>4. Refill' /\ InTurn' /\ Pulling'
  BY <1>1, <1>2, <1>3, RefillFrame, InTurnFrame, PullingFrame
<1> QED
  BY <1>1, <1>2, <1>4 DEF RingStep, Resetting

LEMMA HandleKeeps ==
    ASSUME IInv, HandleDmaIntr
    PROVE  IInv' /\ RingStep
<1> USE DEF IInv
<1>1. /\ UNCHANGED <<channel, env, setup, resets, todo, task, NextSendBuffer, frame_ptr, buf,
                     snd_pkt_dropped, PacketsLeft, NumBds, BdPtr, backlog, PutPtr, GetPtr, active>>
      /\ pc = "out" /\ pc' = "count"
  BY DEF HandleDmaIntr, env, cpu, channel, list
<1>2. Channel' /\ Kept /\ Waiting' = Waiting /\ Cardinality(Waiting) \in Nat
  BY <1>1, ChannelFrame, WaitingFinite DEF Channel
<1>3. backlog' \in Nat /\ backlog' <= backlog
  BY <1>1 DEF Refill
<1>4. Refill' /\ InTurn' /\ Pulling'
  BY <1>1, <1>2, <1>3, RefillFrame, InTurnFrame, PullingFrame
<1> QED
  BY <1>1, <1>2, <1>4 DEF RingStep, Resetting

LEMMA CountKeeps ==
    ASSUME IInv, GetPktCount
    PROVE  IInv' /\ RingStep
<1> USE DEF IInv
<1>1. /\ UNCHANGED <<channel, env, setup, resets, todo, task, NextSendBuffer, frame_ptr, buf,
                     snd_pkt_dropped, backlog, PutPtr, GetPtr, active, count>>
      /\ pc = "count" /\ PacketsLeft' = count /\ NumBds' = 0 /\ BdPtr' = GetPtr
      /\ pc' = IF count = 0 THEN "restart" ELSE "pull"
  BY DEF GetPktCount, env, cpu, channel, list
<1>2. Channel' /\ Kept /\ Waiting' = Waiting /\ Cardinality(Waiting) \in Nat
  BY <1>1, ChannelFrame, WaitingFinite DEF Channel
<1>3. count \in Nat /\ GetPtr \in Slots /\ active \in Nat
  BY Sizes DEF Channel, ChannelType
<1>4. Pulling'
  BY <1>1, <1>3 DEF Pulling
<1>5. InTurn'
  BY <1>1, InTurnFrame
<1>6. Refill'
  <2>1. active = Total => PutPtr = GetPtr
    BY DEF Channel, Ends
  <2>2. setup.side = "recv" => Refilled'
    BY <2>1, <1>1, <1>2, <1>3, Sizes DEF Refill, Refilled
  <2> QED
    BY <2>2, <1>1, <1>3 DEF Refill
<1> QED
  BY <1>1, <1>2, <1>4, <1>5, <1>6 DEF RingStep, Resetting

LEMMA PullKeeps ==
    ASSUME IInv, Pull
    PROVE  IInv' /\ RingStep
<1> USE DEF IInv
<1>1. /\ UNCHANGED <<setup, resets, todo, task, NextSendBuffer, frame_ptr, buf,
                     snd_pkt_dropped, BdPtr, backlog>>
      /\ pc = "pull"
  BY DEF Pull, env, cpu
<1>2. PacketsLeft \in Nat /\ PacketsLeft > 0 /\ PacketsLeft <= count /\ count \in Nat
  BY <1>1 DEF Pulling, Channel, ChannelType
<1>3. Done > 0 /\ active > 0 /\ ~ bd[GetPtr].busy /\ active \in Nat
  BY <1>2, CountedBehind, Sizes DEF Channel, ChannelType
<1>4. /\ GetDescriptor /\ NumBds' = NumBds + 1
      /\ UNCHANGED <<bd, hw, bda, enable, PutPtr>>
      /\ bd[GetPtr].last => /\ count' = count - 1 /\ PacketsLeft' = PacketsLeft - 1
                            /\ pc' = IF PacketsLeft = 1 THEN "call" ELSE "pull"
      /\ ~ bd[GetPtr].last => UNCHANGED <<count, PacketsLeft, pc>>
  BY <1>1, <1>2, <1>3 DEF Pull, IsLastStatus, engine, GetDescriptor
<1>5. count' = IF bd[GetPtr].last THEN count - 1 ELSE count
  BY <1>4
<1>6. /\ Channel' /\ Done' = Done - 1 /\ active' = active - 1
      /\ Waiting' = Waiting /\ GetPtr' = GetNextPtr(GetPtr)
      /\ \A s \in Slots : From(GetPtr', s) < active' =>
            /\ From(GetPtr, s) < active /\ From(GetPtr', s) = From(GetPtr, s) - 1
  BY <1>1, <1>3, <1>4, <1>5, GetKeeps
<1>7. Pulling'
  BY <1>1, <1>2, <1>4 DEF Pulling
<1>8. pc' \in {"pull", "call"}
  BY <1>1, <1>4
<1>9. NumBds \in Nat /\ NumBds' \in Nat
  BY <1>4 DEF Refill
<1>10. Refill'
  <2>1. setup.side = "recv" => Refilled'
    BY <1>1, <1>3, <1>4, <1>6, <1>8, <1>9, Sizes DEF Refill, Refilled
  <2> QED
    BY <2>1, <1>1, <1>8, <1>9 DEF Refill
<1>11. InTurn'
  <2>1. ASSUME NEW s \in Slots, From(GetPtr', s) < active'
        PROVE  active' - From(GetPtr', s) = active - From(GetPtr, s)
    <3>1. From(GetPtr, s) \in Nat
      BY FromMod, Sizes DEF Channel, ChannelType
    <3> QED
      BY <3>1, <2>1, <1>3, <1>6
  <2> QED
    BY <2>1, <1>1, <1>6 DEF InTurn
<1> QED
  BY <1>1, <1>3, <1>6, <1>7, <1>8, <1>10, <1>11 DEF RingStep, Resetting

(* The interrupt status is not part of what the channel's invariant is about. *)
LEMMA StatusFrame ==
    ASSUME Channel, UNCHANGED <<bd, list, engine, count, resets>>
    PROVE  Channel' /\ Kept /\ Waiting' = Waiting
<1>1. UNCHANGED <<bd, PutPtr, GetPtr, LastPtr, CommitPtr, active, hw, bda, enable, count>>
  BY DEF list, engine
<1>2. EndStops' /\ CommitPtr' \in Slots \cup {NULL} /\ bd' \in [Slots -> Bits]
      /\ enable' \in BOOLEAN /\ resets' \in Nat
  BY <1>1 DEF Channel, EndStops, Listed, ChannelType
<1> QED
  BY <1>1, <1>2, SameKeeps, Zenon DEF Kept

(* Nor are the locks.                                                        *)
LEMMA LockFrame ==
    ASSUME Channel, bd' \in [Slots -> Bits],
           \A s \in Slots : /\ bd'[s].busy <=> bd[s].busy
                            /\ bd'[s].last <=> bd[s].last
                            /\ bd'[s].stop <=> bd[s].stop,
           UNCHANGED <<list, engine, count, resets>>
    PROVE  Channel' /\ Kept /\ Waiting' = Waiting
<1>1. UNCHANGED <<PutPtr, GetPtr, LastPtr, CommitPtr, active, hw, bda, enable, count>>
  BY DEF list, engine
<1>2. LastPtr \in Slots /\ \A s \in Slots : Listed(s)' <=> Listed(s)
  BY <1>1 DEF Channel, ChannelType, Listed
<1>3. EndStops'
  <2>1. EndStops
    BY DEF Channel
  <2> QED
    BY <2>1, <1>1, <1>2, Zenon DEF EndStops
<1>4. CommitPtr' \in Slots \cup {NULL} /\ enable' \in BOOLEAN /\ resets' \in Nat
  BY <1>1 DEF Channel, ChannelType
<1> QED
  BY ZenonT(30), <1>1, <1>3, <1>4, SameKeeps DEF Kept

LEMMA SendHandlerKeeps ==
    ASSUME IInv, xemacif_send_handler
    PROVE  IInv' /\ RingStep
<1> USE DEF IInv
<1>1. /\ UNCHANGED <<list, engine, count, setup, resets, todo, task, NextSendBuffer, frame_ptr,
                     snd_pkt_dropped, PacketsLeft, NumBds, BdPtr, backlog, GetPtr, active>>
      /\ pc = "call" /\ pc' = "restart" /\ setup.side = "send"
      /\ buf' = [s \in Slots |-> IF Listed(s) THEN buf[s] ELSE NULL]
      /\ bd' = [s \in Slots |-> IF (s + Total - BdPtr) % Total < NumBds
                                THEN [bd[s] EXCEPT !.locked = FALSE] ELSE bd[s]]
  BY DEF xemacif_send_handler, env, net, list
<1>2. ASSUME NEW s \in Slots
      PROVE  /\ bd'[s] \in Bits /\ (bd'[s].busy <=> bd[s].busy)
             /\ (bd'[s].last <=> bd[s].last) /\ (bd'[s].stop <=> bd[s].stop)
  <2>1. bd[s] \in Bits
    BY DEF Channel, ChannelType
  <2>2. bd'[s] = bd[s] \/ bd'[s] = [bd[s] EXCEPT !.locked = FALSE]
    BY <1>1, Zenon
  <2> QED
    BY Zenon, <2>1, <2>2 DEF Bits
<1>3. bd' \in [Slots -> Bits]
  BY <1>1, <1>2
<1>4. Channel' /\ Kept
  BY SMTT(30), <1>1, <1>2, <1>3, LockFrame
<1>5. Refill' /\ Pulling'
  BY <1>1, SendRefill, PullingFrame DEF Refill
<1>6. InTurn'
  <2>1. \A s \in Slots : From(GetPtr, s) < active => buf'[s] = buf[s]
    BY <1>1, ListedFrom DEF Channel
  <2>2. DOMAIN buf' = Slots
    BY <1>1
  <2> QED
    BY <2>1, <2>2, <1>1 DEF InTurn
<1> QED
  BY <1>1, <1>4, <1>5, <1>6 DEF RingStep, Resetting

(* A descriptor outside the list does not wait.                              *)
LEMMA WaitingRoom ==
    ASSUME Channel, active < Total
    PROVE  Cardinality(Waiting) < Total
<1>1. PutPtr \in Slots /\ PutPtr \notin Waiting
  <2>1. PutPtr \in Slots /\ From(GetPtr, PutPtr) = active /\ active \in Nat
    BY Sizes DEF Channel, ChannelType, Ends
  <2>2. ~ Listed(PutPtr)
    BY <2>1, ListedFrom DEF Channel
  <2> QED
    BY <2>1, <2>2 DEF Waiting
<1>2. IsFiniteSet(Slots) /\ Cardinality(Slots) = Total
  <2>1. 0 \in Int /\ Total - 1 \in Int /\ Total \in Nat /\ Total > 1
    BY DmaChannelAssumption
  <2> QED
    BY <2>1, FS_Interval DEF Slots
<1>3. IsFiniteSet(Slots \ {PutPtr}) /\ Cardinality(Slots \ {PutPtr}) = Total - 1
  BY <1>1, <1>2, FS_RemoveElement
<1>4. Waiting \subseteq Slots \ {PutPtr}
  BY <1>1 DEF Waiting
<1>5. Cardinality(Waiting) <= Total - 1 /\ Cardinality(Waiting) \in Nat /\ Total \in Nat
  BY <1>3, <1>4, FS_Subset, WaitingFinite, DmaChannelAssumption DEF Channel
<1> QED
  BY <1>5

LEMMA LowLevelInputKeeps ==
    ASSUME IInv, low_level_input(FALSE)
    PROVE  IInv' /\ RingStep
<1> USE DEF IInv
<1>1. /\ UNCHANGED <<list, engine, count, setup, resets, todo, task, NextSendBuffer, frame_ptr, buf,
                     snd_pkt_dropped, PacketsLeft, BdPtr, GetPtr, PutPtr, active>>
      /\ pc = "call" /\ setup.side = "recv"
  BY DEF low_level_input, env, cpu, list
<1>2. /\ BdPtr = PutPtr /\ active + NumBds = Total /\ backlog <= Cardinality(Waiting)
      /\ Refilled /\ NumBds \in Nat /\ backlog \in Nat /\ BdPtr \in Slots
      /\ active \in Nat /\ Cardinality(Waiting) \in Nat /\ Total \in Nat
  BY <1>1, Sizes, WaitingFinite DEF Refill, Refilled, Channel, ChannelType
<1>3. InTurn'
  BY <1>1, InTurnFrame
<1>4. CASE NumBds = 0
  <2>1. UNCHANGED <<bd, NumBds, backlog>> /\ pc' = "restart"
    BY <1>4 DEF low_level_input
  <2>2. Channel' /\ Kept /\ Waiting' = Waiting
    BY <2>1, <1>1, StatusFrame
  <2>3. Pulling'
    BY <2>1, <1>1, PullingFrame
  <2>4. Refilled'
    BY <2>1, <2>2, <1>1, <1>2, <1>4 DEF Refilled
  <2> QED
    BY <2>1, <2>2, <2>3, <2>4, <1>1, <1>2, <1>3 DEF RingStep, Resetting, Refill
<1>5. CASE NumBds # 0
  <2>1. backlog # Total
    BY <1>2, <1>5, WaitingRoom
  <2>2. /\ pc' = "put" /\ backlog' = backlog + 1 /\ NumBds' = NumBds - 1
        /\ bd' = [bd EXCEPT ![BdPtr].locked = FALSE]
    BY <2>1, <1>5 DEF low_level_input
  <2>3. bd \in [Slots -> Bits]
    BY DEF Channel, ChannelType
  <2>4. /\ bd' \in [Slots -> Bits] /\ ~ bd'[BdPtr].locked
        /\ \A s \in Slots : /\ bd'[s].busy <=> bd[s].busy
                            /\ bd'[s].last <=> bd[s].last
                            /\ bd'[s].stop <=> bd[s].stop
    BY ZenonT(30), <2>2, <2>3, <1>2 DEF Bits
  <2>5. Channel' /\ Kept /\ Waiting' = Waiting
    BY <2>4, <1>1, LockFrame
  <2>6. Pulling'
    BY <2>2, <1>1, PullingFrame
  <2>7. Refilled'
    BY <2>2, <2>4, <2>5, <1>1, <1>2, <1>5 DEF Refilled
  <2> QED
    BY SMTT(30), <2>2, <2>5, <2>6, <2>7, <1>1, <1>2, <1>3, <1>5 DEF RingStep, Resetting, Refill
<1> QED
  BY <1>4, <1>5

LEMMA RecvKeeps ==
    ASSUME IInv, XEmac_SgRecv
    PROVE  IInv' /\ RingStep
<1> USE DEF IInv
<1>1. /\ UNCHANGED <<setup, resets, todo, task, NextSendBuffer, frame_ptr, buf,
                     snd_pkt_dropped, PacketsLeft, NumBds, backlog>>
      /\ pc = "put" /\ BdPtr' = GetNextPtr(BdPtr)
  BY DEF XEmac_SgRecv, env, cpu
<1>2. /\ setup.side = "recv" /\ BdPtr = PutPtr /\ active + NumBds + 1 = Total
      /\ backlog <= Cardinality(Waiting) + 1
      /\ ~ bd[PutPtr].locked /\ todo = 0 /\ task = "idle"
      /\ NumBds \in Nat /\ backlog \in Nat /\ BdPtr \in Slots
      /\ active \in Nat /\ Cardinality(Waiting) \in Nat /\ Total \in Nat
      /\ IsFiniteSet(Waiting)
  BY <1>1, Sizes, WaitingFinite DEF Refill, Refilled, Channel, ChannelType
<1>3. CanPut
  BY <1>2 DEF CanPut
<1>4. PutDescriptor(PutPtr, FALSE, TRUE) /\ pc' = "commit"
  BY ZenonT(30), <1>2, <1>3 DEF XEmac_SgRecv
<1>5. /\ Channel' /\ Done' = Done /\ active' = active + 1 /\ active < Total
      /\ Waiting' = Waiting \cup {PutPtr} /\ PutPtr \notin Waiting
      /\ CommitPtr' # NULL
  BY Zenon, <1>1, <1>4, PutKeeps
<1>6. PutPtr' = GetNextPtr(PutPtr)
  BY <1>4, Zenon DEF PutDescriptor
<1>7. Cardinality(Waiting') = Cardinality(Waiting) + 1
  BY ZenonT(30), <1>2, <1>5, FS_AddElement
<1>8. GetNextPtr(BdPtr) \in Slots
  BY <1>2, NextSlot
<1>9. Refilled'
  BY SMTT(20), <1>1, <1>2, <1>4, <1>5, <1>6, <1>7 DEF Refilled
<1>10. Refill'
  BY <1>1, <1>2, <1>8, <1>9 DEF Refill
<1>11. Pulling'
  BY <1>1, <1>4, PullingFrame
<1>12. InTurn'
  BY <1>1, <1>2, InTurnFrame
<1> QED
  BY <1>1, <1>4, <1>5, <1>10, <1>11, <1>12 DEF RingStep, Resetting

LEMMA RecvCommitKeeps ==
    ASSUME IInv, SgRecv_commit
    PROVE  IInv' /\ RingStep
<1> USE DEF IInv
<1>1. /\ UNCHANGED <<setup, resets, todo, task, NextSendBuffer, frame_ptr, buf,
                     snd_pkt_dropped, PacketsLeft, NumBds, BdPtr, backlog>>
      /\ pc = "commit" /\ CommitPuts /\ pc' = IF CanCommit THEN "start" ELSE "restart"
  BY DEF SgRecv_commit, env, cpu
<1>2. setup.side = "recv" /\ Refilled /\ CanCommit
  BY <1>1 DEF Refill, Refilled, CanCommit
<1>3. UNCHANGED <<PutPtr, GetPtr, active>> /\ pc' = "start"
  BY <1>1, <1>2 DEF CommitPuts
<1>4. Channel' /\ Kept /\ Waiting' = Waiting
  BY <1>1, CommitKeeps DEF Kept
<1>5. Refilled'
  BY <1>1, <1>2, <1>3, <1>4 DEF Refilled
<1>6. Refill' /\ InTurn' /\ Pulling'
  BY SMTT(20), <1>1, <1>2, <1>3, <1>5, InTurnFrame, PullingFrame DEF Refill
<1> QED
  BY <1>1, <1>4, <1>6 DEF RingStep, Resetting

LEMMA RecvStartKeeps ==
    ASSUME IInv, SgRecv_start
    PROVE  IInv' /\ RingStep
<1> USE DEF IInv
<1>1. /\ UNCHANGED <<setup, resets, todo, task, NextSendBuffer, frame_ptr, buf,
                     snd_pkt_dropped, PacketsLeft, NumBds, BdPtr, backlog>>
      /\ pc = "start" /\ SgStart /\ pc' = "call"
  BY DEF SgRecv_start, env, cpu
<1>2. setup.side = "recv" /\ Refilled
  BY <1>1 DEF Refill
<1>3. Channel' /\ Kept /\ Waiting' = Waiting /\ UNCHANGED <<PutPtr, GetPtr, active>>
  BY <1>1, StartKeeps DEF Kept
<1>4. Refilled'
  BY <1>1, <1>2, <1>3 DEF Refilled
<1>5. Refill' /\ InTurn' /\ Pulling'
  BY <1>1, <1>2, <1>3, <1>4, InTurnFrame, PullingFrame DEF Refill
<1> QED
  BY <1>1, <1>3, <1>5 DEF RingStep, Resetting

LEMMA RestartKeeps ==
    ASSUME IInv, Restart
    PROVE  IInv' /\ RingStep
<1> USE DEF IInv
<1>1. /\ UNCHANGED <<setup, resets, todo, task, NextSendBuffer, frame_ptr, buf,
                     snd_pkt_dropped, PacketsLeft, NumBds, BdPtr, backlog>>
      /\ pc = "restart" /\ pc' = "ack" /\ (SgStart \/ UNCHANGED channel)
  BY DEF Restart, env, cpu
<1>2. Channel' /\ Kept /\ Waiting' = Waiting /\ UNCHANGED <<PutPtr, GetPtr, active>>
  <2>1. CASE SgStart
    BY <2>1, <1>1, StartKeeps DEF Kept
  <2>2. CASE UNCHANGED channel
    BY <2>2, <1>1, ChannelFrame DEF channel, list
  <2> QED
    BY <2>1, <2>2, <1>1
<1>3. Cardinality(Waiting) \in Nat /\ backlog \in Nat /\ backlog' <= backlog
  BY <1>1, WaitingFinite DEF Refill, Channel
<1>4. Refill' /\ InTurn' /\ Pulling'
  BY SMTT(20), <1>1, <1>2, <1>3, RefillFrame, InTurnFrame, PullingFrame
<1> QED
  BY <1>1, <1>2, <1>4 DEF RingStep, Resetting

LEMMA AcknowledgeKeeps ==
    ASSUME IInv, Acknowledge
    PROVE  IInv' /\ RingStep
<1> USE DEF IInv
<1>1. /\ UNCHANGED <<setup, resets, todo, task, NextSendBuffer, frame_ptr, buf,
                     snd_pkt_dropped, PacketsLeft, NumBds, BdPtr, backlog>>
      /\ pc = "ack" /\ pc' = "out" /\ UNCHANGED <<bd, list, engine, count>>
  BY DEF Acknowledge, SetIntrStatus, env, cpu
<1>2. Channel' /\ Kept /\ Waiting' = Waiting /\ UNCHANGED <<PutPtr, GetPtr, active>>
  BY <1>1, StatusFrame DEF list
<1>3. Cardinality(Waiting) \in Nat /\ backlog \in Nat /\ backlog' <= backlog
  BY SMTT(20), <1>1, WaitingFinite DEF Refill, Channel
<1>4. Refill' /\ InTurn' /\ Pulling'
  BY SMTT(20), <1>1, <1>2, <1>3, RefillFrame, InTurnFrame, PullingFrame
<1> QED
  BY <1>1, <1>2, <1>4 DEF RingStep, Resetting

LEMMA MacErrorKeeps ==
    ASSUME IInv, MacError
    PROVE  IInv' /\ RingStep
<1> USE DEF IInv
<1>1. /\ UNCHANGED <<setup, todo, task, NextSendBuffer, frame_ptr, buf,
                     snd_pkt_dropped, PacketsLeft, NumBds, BdPtr, backlog>>
      /\ pc = "out" /\ pc' = "stop" /\ resets' = resets + 1
      /\ enable' = FALSE /\ UNCHANGED <<bd, list, hw, bda, count>>
  BY DEF MacError, SgStop, cpu
<1>2. UNCHANGED <<PutPtr, GetPtr, LastPtr, CommitPtr, active>> /\ resets \in Nat
  BY <1>1 DEF list, Channel, ChannelType
<1>3. EndStops' /\ CommitPtr' \in Slots \cup {NULL} /\ bd' \in [Slots -> Bits]
      /\ enable' \in BOOLEAN
  BY ZenonT(30), <1>1, <1>2 DEF Channel, EndStops, Listed, ChannelType
<1>4. resets' \in Nat /\ resets' > 0 /\ (resets' = 0 => resets = 0)
  BY <1>1, <1>2
<1>5. Channel' /\ Done' = Done /\ Waiting' = Waiting /\ active' = active
  BY <1>1, <1>2, <1>3, <1>4, SameKeeps, Zenon
<1>6. Cardinality(Waiting) \in Nat /\ backlog \in Nat /\ backlog' <= backlog
  BY <1>1, WaitingFinite DEF Refill, Channel
<1>7. Refill' /\ InTurn'
  BY SMTT(20), <1>1, <1>2, <1>5, <1>6, RefillFrame, InTurnFrame
<1>8. Pulling'
  BY <1>1, <1>4 DEF Pulling
<1> QED
  BY <1>1, <1>5, <1>7, <1>8 DEF RingStep, Resetting, Kept

LEMMA ResetStepKeeps ==
    ASSUME IInv, XEmac_Reset
    PROVE  IInv' /\ RingStep
<1> USE DEF IInv
<1>1. /\ UNCHANGED <<setup, resets, todo, task, NextSendBuffer, frame_ptr, buf,
                     snd_pkt_dropped, PacketsLeft, NumBds, BdPtr, backlog>>
      /\ pc = "stop" /\ pc' = "begin" /\ ResetRegisters
  BY DEF XEmac_Reset, env, cpu
<1>2. resets > 0
  BY <1>1 DEF Pulling
<1>3. Channel' /\ Done' = 0 /\ Waiting' = Waiting /\ active' = active
  BY <1>1, <1>2, ResetKeeps
<1>4. UNCHANGED <<PutPtr, GetPtr>>
  BY <1>1 DEF ResetRegisters, list
<1>5. Cardinality(Waiting) \in Nat /\ backlog \in Nat /\ backlog' <= backlog
  BY <1>1, WaitingFinite DEF Refill, Channel
<1>6. Refill' /\ InTurn'
  BY SMTT(20), <1>1, <1>3, <1>4, <1>5, RefillFrame, InTurnFrame
<1>7. Pulling'
  BY <1>1, <1>2 DEF Pulling
<1> QED
  BY <1>1, <1>3, <1>6, <1>7 DEF RingStep, Resetting

LEMMA BeginKeeps ==
    ASSUME IInv, NEW late, XEmac_Start(late)
    PROVE  IInv' /\ RingStep
<1> USE DEF IInv
<1>1. /\ UNCHANGED <<setup, resets, todo, task, NextSendBuffer, frame_ptr, buf,
                     snd_pkt_dropped, PacketsLeft, NumBds, BdPtr, backlog>>
      /\ pc = "begin" /\ pc' = "out" /\ (SgStart \/ UNCHANGED channel)
  BY DEF XEmac_Start, env, cpu
<1>2. Channel' /\ Kept /\ Waiting' = Waiting /\ UNCHANGED <<PutPtr, GetPtr, active>>
  <2>1. CASE SgStart
    BY <2>1, <1>1, StartKeeps DEF Kept
  <2>2. CASE UNCHANGED channel
    BY <2>2, <1>1, ChannelFrame DEF channel, list
  <2> QED
    BY <2>1, <2>2, <1>1
<1>3. Cardinality(Waiting) \in Nat /\ backlog \in Nat /\ backlog' <= backlog
  BY <1>1, WaitingFinite DEF Refill, Channel
<1>4. Refill' /\ InTurn' /\ Pulling'
  BY SMTT(20), <1>1, <1>2, <1>3, RefillFrame, InTurnFrame, PullingFrame
<1> QED
  BY <1>1, <1>2, <1>4 DEF RingStep, Resetting

(* The hardware leaves what the handler knows about the list as it was.       *)
LEMMA HardwareFrame ==
    ASSUME IInv, UNCHANGED <<setup, resets, todo, task, NextSendBuffer, frame_ptr, buf,
                             snd_pkt_dropped, pc, PacketsLeft, NumBds, BdPtr, backlog>>,
           UNCHANGED <<PutPtr, GetPtr, CommitPtr, active>>,
           \A s \in Slots : bd'[s].locked <=> bd[s].locked,
           count' \in Nat, count' >= count,
           Cardinality(Waiting') \in Nat,
           setup.side = "send" \/ backlog <= Cardinality(Waiting')
                               \/ Waiting' = Waiting
    PROVE  Pulling' /\ Refill' /\ InTurn'
<1> USE DEF IInv
<1>1. InTurn'
  BY ZenonT(30), InTurnFrame
<1>2. Pulling'
  BY DEF Pulling, Channel, ChannelType
<1>3. setup.side = "recv" => Refilled'
  BY DEF Refill, Refilled
<1> QED
  BY <1>1, <1>2, <1>3 DEF Refill

LEMMA CompleteStepKeeps ==
    ASSUME IInv, Complete, UNCHANGED <<env, cpu, intr, backlog>>,
           setup.side = "send" \/ Cardinality(Waiting) > backlog
    PROVE  IInv' /\ RingStep
<1> USE DEF IInv
<1>1. UNCHANGED <<setup, resets, todo, task, NextSendBuffer, frame_ptr, buf,
                  snd_pkt_dropped, pc, PacketsLeft, NumBds, BdPtr, backlog>>
  BY ZenonT(20) DEF env, cpu, intr
<1>2. /\ Channel' /\ Done' = Done + 1 /\ active' = active /\ Done < active
      /\ Waiting' = Waiting \ {hw.cur}
      /\ UNCHANGED <<PutPtr, GetPtr, LastPtr, CommitPtr, active>>
      /\ \A s \in Slots : bd'[s].locked <=> bd[s].locked
      /\ count' >= count
  BY <1>1, CompleteKeeps
<1>3. ChannelType'
  BY ZenonT(30), <1>2 DEF Channel
<1>4. count' \in Nat
  BY <1>3 DEF ChannelType
<1>5. IsFiniteSet(Waiting) /\ Cardinality(Waiting) \in Nat /\ backlog \in Nat
  BY SMTT(20), WaitingFinite DEF Channel, Refill
<1>6. Cardinality(Waiting') \in Nat /\ Cardinality(Waiting') >= Cardinality(Waiting) - 1
  <2>1. /\ IsFiniteSet(Waiting \ {hw.cur})
        /\ Cardinality(Waiting \ {hw.cur}) =
              IF hw.cur \in Waiting THEN Cardinality(Waiting) - 1 ELSE Cardinality(Waiting)
    BY ZenonT(30), <1>5, FS_RemoveElement
  <2>2. Cardinality(Waiting \ {hw.cur}) \in Nat
    BY <2>1, FS_CardinalityType
  <2> QED
    BY <2>1, <2>2, <1>2, <1>5
<1>7. setup.side = "send" \/ backlog <= Cardinality(Waiting')
  BY <1>5, <1>6
<1>8. Pulling' /\ Refill' /\ InTurn'
  BY ZenonT(30), <1>1, <1>2, <1>4, <1>6, <1>7, HardwareFrame
<1> QED
  BY ZenonT(30), <1>1, <1>2, <1>8 DEF RingStep, Resetting

LEMMA EngineKeeps ==
    ASSUME IInv, Engine
    PROVE  IInv' /\ RingStep
<1> USE DEF IInv
<1>1. UNCHANGED <<setup, resets, todo, task, NextSendBuffer, frame_ptr, buf,
                  snd_pkt_dropped, pc, PacketsLeft, NumBds, BdPtr, backlog>>
  BY DEF Engine, env, cpu, intr
<1>2. count \in Nat /\ Cardinality(Waiting) \in Nat
  BY WaitingFinite DEF Channel, ChannelType
<1>3. CASE Fetch
  <2>1. Channel' /\ Kept /\ Waiting' = Waiting
    BY <1>1, <1>3, FetchKeeps DEF Kept
  <2>2. UNCHANGED <<bd, PutPtr, GetPtr, CommitPtr, active, count>>
    BY <1>3 DEF Fetch, list
  <2>3. Pulling' /\ Refill' /\ InTurn'
    BY <2>1, <2>2, <1>1, <1>2, HardwareFrame
  <2> QED
    BY <2>1, <2>3, <1>1 DEF RingStep, Resetting
<1>4. CASE WaitBound
  <2>1. UNCHANGED <<bd, list, engine, count>>
    BY <1>4 DEF WaitBound
  <2>2. Channel' /\ Kept /\ Waiting' = Waiting
    BY <2>1, <1>1, StatusFrame
  <2>3. UNCHANGED <<bd, PutPtr, GetPtr, CommitPtr, active, count>>
    BY <2>1 DEF list
  <2>4. Pulling' /\ Refill' /\ InTurn'
    BY <2>2, <2>3, <1>1, <1>2, HardwareFrame
  <2> QED
    BY <2>2, <2>4, <1>1 DEF RingStep, Resetting
<1>5. CASE setup.side = "send" /\ Complete
  BY <1>5, CompleteStepKeeps DEF Engine
<1> QED
  BY <1>3, <1>4, <1>5 DEF Engine

LEMMA ArriveKeeps ==
    ASSUME KeepsUp, IInv, Arrive
    PROVE  IInv' /\ RingStep
<1>1. setup.paced
  BY DEF KeepsUp, IInv, Arrive
<1> QED
  BY <1>1, CompleteStepKeeps DEF Arrive

LEMMA NextKeeps ==
    ASSUME KeepsUp, IInv, [Next]_vars
    PROVE  IInv' /\ RingStep
<1>1. CASE \E n \in 1 .. setup.bds : low_level_output(n)
  BY <1>1, OutputKeeps
<1>2. CASE Sending
  BY <1>2, SendKeeps, SendCommitKeeps, SendStartKeeps DEF Sending
<1>3. CASE xemacif_input
  BY <1>3, InputKeeps
<1>4. CASE Handler
  <2>1. CASE \E late \in Late : low_level_input(late) \/ XEmac_Start(late)
    <3>1. PICK late \in Late : low_level_input(late) \/ XEmac_Start(late)
      BY <2>1
    <3>2. CASE low_level_input(late)
      <4>1. setup.paced = TRUE
        BY <3>2, EmacAssumption DEF KeepsUp, IInv, low_level_input
      <4>2. low_level_input(FALSE)
        BY ZenonT(20), <4>1, <3>1, <3>2 DEF Late
      <4> QED
        BY <4>2, LowLevelInputKeeps
    <3>3. CASE XEmac_Start(late)
      BY <3>3, BeginKeeps
    <3> QED
      BY <3>1, <3>2, <3>3
  <2> QED
    BY SMTT(30), <2>1, <1>4, HandleKeeps, CountKeeps, PullKeeps, SendHandlerKeeps, RecvKeeps,
       RecvCommitKeeps, RecvStartKeeps, RestartKeeps, AcknowledgeKeeps, ResetStepKeeps
       DEF Handler
<1>5. CASE MacError
  BY <1>5, MacErrorKeeps
<1>6. CASE Engine
  BY <1>6, EngineKeeps
<1>7. CASE Arrive
  BY <1>7, ArriveKeeps
<1>8. CASE UNCHANGED vars
  <2> USE DEF IInv
  <2>1. UNCHANGED <<channel, setup, resets, todo, task, NextSendBuffer, frame_ptr, buf,
                    snd_pkt_dropped, pc, PacketsLeft, NumBds, BdPtr, backlog,
                    bd, PutPtr, GetPtr, CommitPtr, active, count>>
    BY <1>8 DEF vars, channel, list, env, cpu, intr
  <2>2. Channel' /\ Kept /\ Waiting' = Waiting
    BY <2>1, ChannelFrame
  <2>3. count \in Nat /\ Cardinality(Waiting) \in Nat
    BY WaitingFinite DEF Channel, ChannelType
  <2>4. Pulling' /\ Refill' /\ InTurn'
    BY <2>1, <2>2, <2>3, HardwareFrame
  <2> QED
    BY SMTT(20), <2>1, <2>2, <2>4 DEF RingStep, Resetting
<1> QED
  BY <1>1, <1>2, <1>3, <1>4, <1>5, <1>6, <1>7, <1>8 DEF Next

LEMMA InitIInv == Init => IInv /\ Done = 0 /\ active \in {0, Total} /\ pc = "out"
<1> SUFFICES ASSUME Init PROVE IInv /\ Done = 0 /\ active \in {0, Total} /\ pc = "out"
  OBVIOUS
<1>1. /\ setup \in Setups /\ todo = 0 /\ task = "idle" /\ NextSendBuffer = 0 /\ frame_ptr = NULL
      /\ buf = [s \in Slots |-> NULL] /\ snd_pkt_dropped = FALSE
      /\ pc = "out" /\ PacketsLeft = 0 /\ NumBds = 0 /\ BdPtr = 0 /\ backlog = 0
  BY Zenon DEF Init
<1>2. setup.side \in {"send", "recv"} /\ setup.copies \in BOOLEAN
  BY <1>1, SetupFacts
<1>3. /\ Channel /\ Done = 0
      /\ setup.side = "send" => active = 0
      /\ setup.side = "recv" => active = Total
  BY <1>2, InitSend, InitRecv
<1>4. BdPtr \in Slots
  BY <1>1, Sizes DEF Slots
<1>5. Pulling
  BY <1>1 DEF Pulling
<1>6. Refill
  <2>1. Cardinality(Waiting) \in Nat
    BY <1>3, WaitingFinite DEF Channel
  <2> QED
    BY <2>1, <1>1, <1>3, <1>4 DEF Refill, Refilled
<1>7. InTurn
  <2>1. GetPtr \in Slots
    BY ZenonT(30), <1>3 DEF Channel, ChannelType
  <2>2. \A s \in Slots : From(GetPtr, s) \in Nat
    BY <2>1, FromMod, Sizes
  <2>3. setup.side = "send" => \A s \in Slots : ~ (From(GetPtr, s) < active)
    BY <2>2, <1>3
  <2>4. todo \in Nat /\ todo <= 1 /\ todo # 1 /\ NextSendBuffer \in 0 .. NumBuffers
    BY <1>1, EmacAssumption
  <2>5. DOMAIN buf = Slots
    BY <1>1
  <2> QED
    BY ZenonT(30), <2>3, <2>4, <2>5, <1>1 DEF InTurn
<1> QED
  BY <1>1, <1>2, <1>3, <1>5, <1>6, <1>7 DEF IInv

-----------------------------------------------------------------------------
(* The invariant implies what the runs check.                                *)
LEMMA ListedWork == IInv => HandsOff
<1> SUFFICES ASSUME IInv, hw.at # "idle" PROVE Listed(hw.cur)
  BY DEF HandsOff
<1>1. ChannelType /\ InList
  BY DEF IInv, Channel
<1>2. hw.cur \in Slots /\ From(GetPtr, hw.cur) < active
  BY <1>1 DEF ChannelType, InList
<1> QED
  BY <1>1, <1>2, ListedFrom

LEMMA CountedPackets == IInv => PktCountExact
<1> SUFFICES ASSUME IInv PROVE PktCountExact
  OBVIOUS
<1>1. /\ Channel /\ ChannelType /\ BusyAhead /\ count = Cardinality(Passed)
      /\ Done \in 0 .. active /\ active \in Nat
  <2>1. Channel /\ ChannelType /\ BusyAhead /\ count = Cardinality(Passed)
    BY Zenon DEF IInv, Channel
  <2>2. active \in 0 .. Total
    BY <2>1, Zenon DEF ChannelType
  <2> QED
    BY <2>1, <2>2, DoneRange, Sizes DEF Channel
<1>g. GetPtr \in Slots
  BY <1>1, Zenon DEF ChannelType
<1>2. \A s \in Slots : From(GetPtr, s) \in Nat /\ (Listed(s) <=> From(GetPtr, s) < active)
  BY <1>1, <1>g, FromMod, ListedFrom, Sizes
<1>3. Passed \subseteq Finished
  <2> SUFFICES ASSUME NEW s \in Slots, From(GetPtr, s) < Done, bd[s].last
               PROVE  Listed(s) /\ IsLastStatus(s)
    BY DEF Passed, Finished
  <2>1. ~ bd[s].busy
    BY <1>1 DEF BusyAhead
  <2>2. Listed(s)
    BY <1>1, <1>2
  <2> QED
    BY <2>1, <2>2 DEF IsLastStatus
<1>4. IsFiniteSet(Finished)
  <2>1. 0 \in Int /\ Total - 1 \in Int
    BY Sizes
  <2>2. IsFiniteSet(Slots)
    BY <2>1, FS_Interval DEF Slots
  <2>3. Finished \subseteq Slots
    BY DEF Finished
  <2> QED
    BY <2>2, <2>3, FS_Subset
<1>5. Cardinality(Passed) <= Cardinality(Finished)
  BY <1>3, <1>4, FS_Subset
<1>6. ASSUME resets = 0 PROVE Finished \subseteq Passed
  <2> SUFFICES ASSUME NEW s \in Slots, Listed(s), IsLastStatus(s)
               PROVE  From(GetPtr, s) < Done /\ bd[s].last
    BY DEF Passed, Finished
  <2>1. From(GetPtr, s) < active /\ From(GetPtr, s) \in Nat /\ Done \in Nat
    BY <1>1, <1>2
  <2>2. ~ bd[s].busy /\ bd[s].last
    BY DEF IsLastStatus
  <2>3. ~ (From(GetPtr, s) >= Done)
    BY <2>1, <2>2, <1>1, <1>6 DEF BusyAhead
  <2> QED
    BY <2>1, <2>2, <2>3
<1>7. resets = 0 => Finished = Passed
  BY <1>3, <1>6
<1> QED
  BY <1>1, <1>5, <1>7, Zenon DEF PktCountExact

LEMMA BuffersApart == IInv => FramesIntact
<1> SUFFICES ASSUME IInv, todo > 0, ~ snd_pkt_dropped, NEW s \in Waiting
             PROVE  frame_ptr = NULL \/ buf[s] # frame_ptr
  BY DEF FramesIntact
<1>1. /\ InTurn /\ Channel /\ ChannelType /\ Refill /\ setup \in Setups
  BY DEF IInv, Channel
<1>2. CASE ~ setup.copies
  BY <1>1, <1>2 DEF InTurn
<1>3. CASE setup.copies
  <2>1. setup.side = "send" /\ todo = 1
    BY <1>1, <1>3, SetupFacts DEF InTurn, Refill, Refilled
  <2>2. s \in Slots /\ From(GetPtr, s) < active
    BY <1>1, ListedFrom DEF Waiting
  <2>3. From(GetPtr, s) \in Nat /\ active \in Nat /\ active <= Total /\ Total \in Nat
    <3>1. GetPtr \in Slots /\ active \in 0 .. Total
      BY <1>1, Zenon DEF ChannelType
    <3> QED
      BY <3>1, <2>2, FromMod, Sizes
  <2> DEFINE k == active - From(GetPtr, s)
  <2>4. k \in Nat /\ k >= 1 /\ k <= NumBuffers /\ NumBuffers \in Nat
    BY <2>2, <2>3, EmacAssumption
  <2>5. /\ NextSendBuffer \in 0 .. NumBuffers
        /\ frame_ptr = Before(NextSendBuffer, 1) /\ buf[s] = Before(NextSendBuffer, k + 1)
    BY <2>1, <2>2, <1>1, <1>3 DEF InTurn
  <2> HIDE DEF k
  <2>6. Before(NextSendBuffer, 1) # Before(NextSendBuffer, k + 1)
    BY <2>4, <2>5 DEF Before
  <2> QED
    BY ZenonT(20), <2>5, <2>6
<1> QED
  BY <1>2, <1>3

(* Every step of the driver is one of the ring or leaves it alone.           *)
LEMMA StepImplements ==
    ASSUME Channel, Channel', RingStep
    PROVE  [R!Next]_R!vars
<1>1. /\ active \in 0 .. Total /\ active' \in 0 .. Total /\ Total \in Nat
      /\ Done \in 0 .. active
  BY DoneRange, Sizes DEF Channel, ChannelType
<1>3. CASE Kept /\ (pc' = pc \/ ~ Resetting)
  <2>1. CASE Resetting' /\ ~ Resetting
    BY <2>1, <1>3 DEF Kept, Resetting, R!Next, R!Reset
  <2>2. CASE (pc' = "stop") = (pc = "stop")
    BY <2>2, <1>3 DEF Kept, R!vars
  <2> QED
    BY <2>1, <2>2, <1>3 DEF Resetting
<1>4. CASE active' = active + 1 /\ active < Total /\ Done' = Done /\ ~ Resetting /\ ~ Resetting'
  BY <1>1, <1>4 DEF Resetting, R!Next, R!Put
<1>5. CASE active' = active /\ Done < active /\ Done' = Done + 1 /\ pc' = pc
  BY <1>1, <1>5 DEF R!Next, R!Transfer
<1>6. CASE active' = active - 1 /\ Done > 0 /\ Done' = Done - 1 /\ ~ Resetting /\ ~ Resetting'
  BY <1>1, <1>6 DEF Resetting, R!Next, R!Get
<1>7. CASE active' = active /\ Done' = 0 /\ Resetting /\ ~ Resetting'
  BY <1>1, <1>7 DEF Resetting, R!Next, R!Forget
<1> QED
  BY SMTT(20), <1>3, <1>4, <1>5, <1>6, <1>7 DEF RingStep, Resetting

-----------------------------------------------------------------------------
(* The invariant holds of the driver, over a stack that takes its packets as  *)
(* fast as they come: xemacif_input then leaves room in recv_pkt_buf.         *)
THEOREM ChannelInv == KeepsUp => (Spec => []IInv)
<1> SUFFICES ASSUME KeepsUp PROVE Spec => []IInv
  OBVIOUS
<1>1. Init => IInv
  BY InitIInv
<1>2. IInv /\ [Next]_vars => IInv'
  BY NextKeeps
<1> QED
  BY <1>1, <1>2, PTL DEF Spec

(* Whatever XEmac_SgSend, XEmac_SgRecv, the handler and resets do to the list *)
(* meanwhile, the hardware never works on a descriptor outside it.           *)
THEOREM StaysInList == KeepsUp => (Spec => []HandsOff)
  BY ChannelInv, ListedWork, PTL

(* XDmaChannel_PutDescriptor and XDmaChannel_CommitPuts leave the stop bit    *)
(* at the end of the list.                                                   *)
THEOREM StopBits == KeepsUp => (Spec => []EndStops)
<1>1. IInv => EndStops
  BY DEF IInv, Channel
<1> QED
  BY <1>1, ChannelInv, PTL

(* The handler can trust the unserviced packet count, before a reset and      *)
(* after one.                                                                *)
THEOREM CountTrusted == KeepsUp => (Spec => []PktCountExact)
  BY ChannelInv, CountedPackets, PTL

(* low_level_output copies no frame over one that the hardware still has to   *)
(* send.                                                                     *)
THEOREM FramesApart == KeepsUp => (Spec => []FramesIntact)
  BY ChannelInv, BuffersApart, PTL

(* The driver implements the ring: a descriptor that was put is transferred   *)
(* once, in order, before it is taken out, and again only after XEmac_Reset.  *)
THEOREM ChannelImplementsRing == KeepsUp => (Spec => ImplementsRing)
<1> SUFFICES ASSUME KeepsUp PROVE Spec => R!Spec
  BY DEF ImplementsRing
<1>1. Init => R!Init
  BY InitIInv, Sizes DEF R!Init
<1>2. IInv /\ IInv' /\ [Next]_vars => [R!Next]_R!vars
  BY NextKeeps, StepImplements DEF IInv
<1>3. Spec => []IInv
  BY ChannelInv
<1> QED
  BY <1>1, <1>2, <1>3, PTL DEF Spec, R!Spec
=============================================================================
