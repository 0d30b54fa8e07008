-------------------------------- MODULE Emac --------------------------------
(***************************************************************************)
(* The Ethernet driver over one of its DMA channels (xemac_intr_dma.c), with *)
(* the network interface above it (netif.c).  One CPU runs the task and the  *)
(* interrupt handler; the handler interrupts the task outside XEmac_SgSend,   *)
(* and the hardware runs beside both.                                        *)
(*                                                                         *)
(* setup says what is looked at: the send or the receive channel, how many    *)
(* descriptors a frame may span (bds), how often the MAC reports an error     *)
(* that makes netif.c reset the device (resets), whether the network stack    *)
(* keeps up with the frames that arrive (paced), and whether frames to send   *)
(* are copied to SendBufferMem (copies), as without the realignment engine    *)
(* one of several pbufs, or one that is not aligned, is.                      *)
(***************************************************************************)
EXTENDS DmaChannel

CONSTANTS Setups,
          NumBuffers     \* frames SendBufferMem holds, 64 in netif.c

(* SendBufferMem has a buffer for every descriptor, twice as many in netif.c; *)
(* a frame that is copied there is one descriptor.                           *)
ASSUME EmacAssumption ==
    /\ NumBuffers \in Nat /\ NumBuffers >= Total
    /\ NULL \notin 0 .. NumBuffers
    /\ \A c \in Setups :
          /\ c.side \in {"send", "recv"}
          /\ c.bds \in Nat \ {0} /\ c.resets \in Nat
          /\ c.paced \in BOOLEAN /\ c.copies \in BOOLEAN
          /\ c.copies => c.bds = 1

VARIABLES
    setup, resets,
    todo,                \* task: descriptors of its frame still to be sent
    task,                \* task: the step of XEmac_SgSend it is in
    NextSendBuffer,      \* counted in frames
    frame_ptr,           \* task: the send buffer of its frame, NULL if not copied
    buf,                 \* and that of each descriptor, before a drop
    snd_pkt_dropped,     \* whether a frame that was copied has been
    pc,                  \* handler: its step
    IntrStatus, PacketsLeft, NumBds, BdPtr,
    backlog              \* full entries of recv_pkt_buf

env == <<setup, resets>>
cpu == <<todo, task, NextSendBuffer, frame_ptr, buf, snd_pkt_dropped>>
net == <<NextSendBuffer, frame_ptr>>
intr == <<pc, IntrStatus, PacketsLeft, NumBds, BdPtr>>
vars == <<channel, env, cpu, intr, backlog>>

(* low_level_init gives the receive channel all its descriptors, each        *)
(* locked, committed and started one by one; none arrives meanwhile.         *)
Init ==
    /\ setup \in Setups
    /\ IF setup.side = "send" THEN CreateSgList
       ELSE /\ bd = [s \in Slots |-> [stop |-> s = Total - 2, last |-> TRUE,
                                      busy |-> TRUE, locked |-> TRUE]]
            /\ PutPtr = Total - 1 /\ GetPtr = Total - 1 /\ LastPtr = Total - 2
            /\ CommitPtr = NULL
            /\ active = Total /\ open = 0
            /\ \E latched \in BOOLEAN :
                  hw = [at |-> "move", cur |-> Total - 1, stop |-> latched]
            /\ bda = Total - 1 /\ enable = TRUE /\ threshold = Threshold
            /\ count = 0 /\ isr = {}
    /\ todo = 0 /\ task = "idle"
    /\ NextSendBuffer = 0 /\ frame_ptr = NULL
    /\ buf = [s \in Slots |-> NULL] /\ snd_pkt_dropped = FALSE
    /\ pc = "out" /\ IntrStatus = {} /\ PacketsLeft = 0 /\ NumBds = 0 /\ BdPtr = 0
    /\ backlog = 0 /\ resets = 0

-----------------------------------------------------------------------------
(* Mutant of NextBuffer: it wraps halfway.                                    *)
NextBuffer_half(b) == IF 2 * (b + 1) >= NumBuffers THEN 0 ELSE b + 1

(* The pointer is moved on past the buffer and then compared with the end of  *)
(* SendBufferMem.                                                           *)
NextBuffer(b) == IF b + 1 > NumBuffers THEN 0 ELSE b + 1

(* The task.  low_level_output copies the frame if it has to, calls           *)
(* XEmac_SgSend for each descriptor of it, all locked, and gives the frame up *)
(* when one cannot be put.                                                   *)
low_level_output(n) ==
    /\ setup.side = "send" /\ pc = "out" /\ todo = 0 /\ task = "idle"
    /\ todo' = n
    /\ IF setup.copies
       THEN frame_ptr' = NextSendBuffer /\ NextSendBuffer' = NextBuffer(NextSendBuffer)
       ELSE UNCHANGED net
    /\ UNCHANGED <<channel, env, task, buf, snd_pkt_dropped, intr, backlog>>

XEmac_SgSend ==
    /\ pc = "out" /\ todo > 0 /\ task = "idle"
    /\ IF CanPut
       THEN /\ PutDescriptor(NULL, TRUE, todo = 1)
            /\ todo' = todo - 1
            /\ task' = IF todo = 1 THEN "commit" ELSE "idle"
            /\ buf' = [buf EXCEPT ![PutPtr] =
                                 IF snd_pkt_dropped THEN NULL ELSE frame_ptr]
            /\ UNCHANGED snd_pkt_dropped
       ELSE /\ todo' = 0
            /\ snd_pkt_dropped' = setup.copies
            /\ buf' = [s \in Slots |-> NULL]
            /\ UNCHANGED <<channel, task>>
    /\ frame_ptr' = IF todo' = 0 THEN NULL ELSE frame_ptr
    /\ UNCHANGED <<env, NextSendBuffer, intr, backlog>>

SgSend_commit ==
    /\ task = "commit"
    /\ CommitPuts
    /\ task' = IF CanCommit THEN "start" ELSE "idle"
    /\ UNCHANGED <<env, todo, net, buf, snd_pkt_dropped, intr, backlog>>

(* Mutant of SgSend_start: the channel is left to the SG_END interrupt.      *)
SgSend_start_once ==
    /\ task = "start"
    /\ IF bda = NULL THEN SgStart ELSE UNCHANGED channel
    /\ task' = "idle"
    /\ UNCHANGED <<env, todo, net, buf, snd_pkt_dropped, intr, backlog>>

SgSend_start ==
    /\ task = "start"
    /\ SgStart
    /\ task' = "idle"
    /\ UNCHANGED <<env, todo, net, buf, snd_pkt_dropped, intr, backlog>>

(* xemacif_input takes one packet out of recv_pkt_buf.                       *)
xemacif_input ==
    /\ pc = "out" /\ backlog > 0
    /\ backlog' = backlog - 1
    /\ UNCHANGED <<channel, env, cpu, intr>>

-----------------------------------------------------------------------------
(* The handler.  It is entered with the status it reads first.               *)
HandleDmaIntr ==
    /\ pc = "out" /\ task = "idle" /\ isr # {}
    /\ pc' = "count"
    /\ IntrStatus' = isr
    /\ UNCHANGED <<channel, env, cpu, PacketsLeft, NumBds, BdPtr, backlog>>

(* Mutant of GetPktCount: packets are counted only at the threshold.         *)
GetPktCount_threshold ==
    /\ pc = "count"
    /\ PacketsLeft' = count
    /\ NumBds' = 0 /\ BdPtr' = GetPtr
    /\ pc' = IF "PKT_THRESHOLD" \notin IntrStatus THEN "restart" ELSE "pull"
    /\ UNCHANGED <<channel, env, cpu, IntrStatus, backlog>>

GetPktCount ==
    /\ pc = "count"
    /\ PacketsLeft' = count
    /\ NumBds' = 0 /\ BdPtr' = GetPtr
    /\ pc' = IF count = 0 THEN "restart" ELSE "pull"
    /\ UNCHANGED <<channel, env, cpu, IntrStatus, backlog>>

(* Mutant of Pull: the count goes down with every descriptor.               *)
Pull_perDescriptor ==
    /\ pc = "pull"
    /\ IF active = 0
       THEN /\ pc' = "restart"
            /\ UNCHANGED <<channel, PacketsLeft, NumBds>>
       ELSE /\ GetDescriptor
            /\ NumBds' = NumBds + 1
            /\ count' = IF count > 0 THEN count - 1 ELSE 0
            /\ PacketsLeft' = PacketsLeft - 1
            /\ pc' = IF PacketsLeft = 1 THEN "call" ELSE "pull"
            /\ UNCHANGED <<bd, engine, isr>>
    /\ UNCHANGED <<env, cpu, IntrStatus, BdPtr, backlog>>

(* One descriptor is taken out of the list; an empty list is an error that   *)
(* xemacif_error_handler ignores.                                           *)
Pull ==
    /\ pc = "pull"
    /\ IF active = 0
       THEN /\ pc' = "restart"
            /\ UNCHANGED <<channel, PacketsLeft, NumBds>>
       ELSE /\ GetDescriptor
            /\ NumBds' = NumBds + 1
            /\ IF IsLastStatus(GetPtr)
               THEN /\ count' = IF count > 0 THEN count - 1 ELSE 0
                    /\ PacketsLeft' = PacketsLeft - 1
                    /\ pc' = IF PacketsLeft = 1 THEN "call" ELSE "pull"
               ELSE UNCHANGED <<count, PacketsLeft, pc>>
            /\ UNCHANGED <<bd, engine, isr>>
    /\ UNCHANGED <<env, cpu, IntrStatus, BdPtr, backlog>>

(* xemacif_send_handler unlocks the descriptors for reuse.                   *)
xemacif_send_handler ==
    /\ pc = "call" /\ setup.side = "send"
    /\ bd' = [s \in Slots |->
                 IF (s + Total - BdPtr) % Total < NumBds
                 THEN [bd[s] EXCEPT !.locked = FALSE] ELSE bd[s]]
    /\ buf' = [s \in Slots |-> IF Listed(s) THEN buf[s] ELSE NULL]
    /\ pc' = "restart"
    /\ UNCHANGED <<list, engine, count, isr, env, todo, task, net, snd_pkt_dropped,
                   IntrStatus, PacketsLeft, NumBds, BdPtr, backlog>>

(* low_level_input hands the packets to recv_pkt_buf, one entry each, and    *)
(* returns when it is full, or when the entry has no buffer to exchange or    *)
(* one that is not aligned (late).  XEmac_SgRecv gives the descriptor back    *)
(* with that buffer; when it cannot be put, low_level_input returns too.      *)
low_level_input(late) ==
    /\ pc = "call" /\ setup.side = "recv"
    /\ IF NumBds = 0 \/ backlog = Total \/ late
       THEN /\ pc' = "restart"
            /\ UNCHANGED <<bd, NumBds, backlog>>
       ELSE /\ pc' = "put"
            /\ backlog' = backlog + 1
            /\ NumBds' = NumBds - 1
            /\ bd' = [bd EXCEPT ![BdPtr].locked = FALSE]
    /\ UNCHANGED <<list, engine, count, isr, env, cpu, IntrStatus, PacketsLeft, BdPtr>>

XEmac_SgRecv ==
    /\ pc = "put"
    /\ IF CanPut THEN PutDescriptor(BdPtr, FALSE, TRUE) /\ pc' = "commit"
       ELSE UNCHANGED channel /\ pc' = "restart"
    /\ BdPtr' = GetNextPtr(BdPtr)
    /\ UNCHANGED <<env, cpu, IntrStatus, PacketsLeft, NumBds, backlog>>

SgRecv_commit ==
    /\ pc = "commit"
    /\ CommitPuts
    /\ pc' = IF CanCommit THEN "start" ELSE "restart"
    /\ UNCHANGED <<env, cpu, IntrStatus, PacketsLeft, NumBds, BdPtr, backlog>>

(* Mutant of SgRecv_start: the channel is left to the SG_END interrupt.      *)
SgRecv_start_never ==
    /\ pc = "start"
    /\ pc' = "call"
    /\ UNCHANGED <<channel, env, cpu, IntrStatus, PacketsLeft, NumBds, BdPtr, backlog>>

SgRecv_start ==
    /\ pc = "start"
    /\ SgStart
    /\ pc' = "call"
    /\ UNCHANGED <<env, cpu, IntrStatus, PacketsLeft, NumBds, BdPtr, backlog>>

(* After an SG_END the channel is started again, in case descriptors were    *)
(* put while the hardware was on its way to the end.                         *)
Restart ==
    /\ pc = "restart"
    /\ IF "SG_END" \in IntrStatus THEN SgStart ELSE UNCHANGED channel
    /\ pc' = "ack"
    /\ UNCHANGED <<env, cpu, IntrStatus, PacketsLeft, NumBds, BdPtr, backlog>>

Acknowledge ==
    /\ pc = "ack"
    /\ SetIntrStatus(IntrStatus)
    /\ pc' = "out"
    /\ UNCHANGED <<env, cpu, IntrStatus, PacketsLeft, NumBds, BdPtr, backlog>>

-----------------------------------------------------------------------------
(* A MAC error: xemacif_error_handler resets the device, which waits for the *)
(* hardware to stop, and starts it again.                                   *)
MacError ==
    /\ pc = "out" /\ task = "idle" /\ resets < setup.resets
    /\ resets' = resets + 1
    /\ SgStop
    /\ pc' = "stop"
    /\ UNCHANGED <<setup, cpu, IntrStatus, PacketsLeft, NumBds, BdPtr, backlog>>

XEmac_Reset ==
    /\ pc = "stop"
    /\ ResetRegisters
    /\ pc' = "begin"
    /\ UNCHANGED <<env, cpu, IntrStatus, PacketsLeft, NumBds, BdPtr, backlog>>

(* The send channel is not started when the receive list is empty (late).    *)
XEmac_Start(late) ==
    /\ pc = "begin"
    /\ IF setup.side = "send" /\ late THEN UNCHANGED channel ELSE SgStart
    /\ pc' = "out"
    /\ UNCHANGED <<env, cpu, IntrStatus, PacketsLeft, NumBds, BdPtr, backlog>>

-----------------------------------------------------------------------------
(* The hardware.  On receive a descriptor is done when a frame arrives; a    *)
(* stack that keeps up has room for it in recv_pkt_buf.                      *)
Waiting == {s \in Slots : Listed(s) /\ bd[s].busy}

Engine ==
    /\ Fetch \/ WaitBound \/ (setup.side = "send" /\ Complete)
    /\ UNCHANGED <<env, cpu, intr, backlog>>

Arrive ==
    /\ setup.side = "recv"
    /\ setup.paced => Cardinality(Waiting) > backlog
    /\ Complete
    /\ UNCHANGED <<env, cpu, intr, backlog>>

(* Over a stack that keeps up every entry of recv_pkt_buf has an aligned      *)
(* buffer, and no descriptor is lost, so that the receive list is not empty   *)
(* outside the handler.                                                      *)
Late == {FALSE, ~ setup.paced}

Sending == XEmac_SgSend \/ SgSend_commit \/ SgSend_start

Handler ==
    \/ HandleDmaIntr \/ GetPktCount \/ Pull
    \/ xemacif_send_handler
    \/ XEmac_SgRecv \/ SgRecv_commit \/ SgRecv_start
    \/ Restart \/ Acknowledge
    \/ XEmac_Reset
    \/ \E late \in Late : low_level_input(late) \/ XEmac_Start(late)

Next ==
    \/ \E n \in 1 .. setup.bds : low_level_output(n)
    \/ Sending
    \/ xemacif_input
    \/ Handler
    \/ MacError
    \/ Engine
    \/ Arrive

Spec == Init /\ [][Next]_vars
             /\ WF_vars(Sending) /\ WF_vars(Handler) /\ WF_vars(Engine)

-----------------------------------------------------------------------------
(* The hardware works only on descriptors that are in the list: one that      *)
(* GetDescriptor took out it does not use again until it is put.             *)
HandsOff == hw.at # "idle" => Listed(hw.cur)

(* The last descriptor of the list stops the hardware, and no other does but  *)
(* the one a commit will change: after all the puts, commits and gets that   *)
(* change these bits while the hardware reads them.                         *)
EndStops ==
    /\ active > 0 => bd[LastPtr].stop
    /\ \A s \in Slots : Listed(s) /\ bd[s].stop => s \in {LastPtr, CommitPtr}

Finished == {s \in Slots : Listed(s) /\ IsLastStatus(s)}

(* As long as no frame was dropped, none is copied over one that is still to  *)
(* be sent: low_level_output takes the buffers in turn and never asks which  *)
(* are free.  (A frame that is dropped has taken its buffer all the same.)   *)
FramesIntact ==
    (todo > 0 /\ ~ snd_pkt_dropped) => \A s \in Waiting : frame_ptr = NULL \/ buf[s] # frame_ptr

(* "wrap to the beginning of the send memory if necessary": every copy is     *)
(* made inside SendBufferMem.                                               *)
CopiesInside == frame_ptr # NULL => frame_ptr < NumBuffers

(* The packet count, that the handler trusts instead of looking at the        *)
(* descriptors, is the number of packets done in the list.  After a reset,   *)
(* which clears it, it is never more.                                       *)
PktCountExact ==
    /\ count <= Cardinality(Finished)
    /\ resets = 0 => count = Cardinality(Finished)

(* The channel is stopped before a descriptor that is committed.             *)
Stranded == hw.at = "idle" /\ \E s \in Waiting : ~ Uncommitted(s)

(* A receive channel with descriptors to fill is started in the end, in       *)
(* whatever order the hardware stops, SgStart looks at it and SG_END is      *)
(* acknowledged: an SG_END that is acknowledged unseen comes with a packet,   *)
(* and the descriptor low_level_input gives back for it starts the channel.  *)
KeepsReceiving == (setup.side = "recv" /\ Stranded) ~> ~ Stranded

(* Every frame of one descriptor that XEmac_SgSend accepted is sent and comes *)
(* back to xemacif_send_handler, also across a reset, as long as the stack   *)
(* goes on sending and keeps up with the frames received: a frame that is    *)
(* put starts the channel again, and the list is never full of frames that   *)
(* nothing will start.  (With an empty receive list a reset leaves it so.)   *)
FramesSent ==
    \A s \in Slots :
       []<>(todo > 0) =>
          ((/\ setup.bds = 1 /\ setup.side = "send" /\ setup.paced
            /\ Listed(s) /\ ~ Uncommitted(s)) ~> ~ Listed(s))

(* Every packet received is handed to low_level_input, although fewer than    *)
(* the threshold may be there.                                              *)
FramesHandedUp ==
    \A s \in Slots :
       (setup.side = "recv" /\ resets = 0 /\ s \in Finished)
          ~> (s \notin Finished \/ resets > 0)

(* The descriptor the hardware takes next, and how many of the list it has    *)
(* behind it: all of them once it stopped at the last one, which a full ring  *)
(* has in front of the first one too.                                       *)
Position == IF hw.at # "idle" THEN hw.cur
            ELSE IF bda = NULL THEN GetPtr ELSE GetNextPtr(bda)

Done == IF hw.at = "idle" /\ bda # NULL /\ GetNextPtr(bda) = PutPtr /\ ~ bd[bda].busy
        THEN active
        ELSE (Position + Total - GetPtr) % Total

R == INSTANCE TransferRing
        WITH waiting <- active - Done, done <- Done, resetting <- pc = "stop"

(* Between two resets the descriptors put are transferred once, in order: in  *)
(* whatever order the hardware stops and SgStart looks, the channel goes on   *)
(* with the first descriptor that has not been transferred.  The handler     *)
(* takes none out that has not, with frames of one or two descriptors, partly *)
(* put frames included.                                                     *)
ImplementsRing == R!Spec
=============================================================================
