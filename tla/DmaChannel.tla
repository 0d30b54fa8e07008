----------------------------- MODULE DmaChannel -----------------------------
(***************************************************************************)
(* A scatter gather DMA channel of the Ethernet driver (XDmaChannel): a ring *)
(* of buffer descriptors that software fills and empties while the hardware *)
(* works through it.  The functions of xdma_channel_sg.c are the operators   *)
(* below; each is one step towards the hardware, because it makes at most    *)
(* one access that the hardware can see or answers only while it is stopped. *)
(*                                                                         *)
(* The hardware is external.  It reads the control word of a descriptor when *)
(* it comes to it, clears the busy status when it is done with it, counts    *)
(* the last descriptor of each packet, and stops with an SG_END interrupt    *)
(* after a descriptor whose control word said so.                            *)
(***************************************************************************)
EXTENDS Naturals, FiniteSets

CONSTANTS Total,         \* TotalDescriptorCount, 32 in netif.c
          Threshold,     \* packet threshold low_level_init sets, 5 and 10
          NULL

ASSUME DmaChannelAssumption ==
    /\ Total \in Nat \ {0, 1}
    /\ Threshold \in Nat \ {0}
    /\ NULL \notin 0 .. Total - 1

Slots == 0 .. Total - 1

VARIABLES
    bd,                  \* the descriptors: control and status
    PutPtr, GetPtr, CommitPtr, LastPtr,
    active,              \* ActiveDescriptorCount
    open,                \* puts since the last commit
    hw,                  \* the engine: what it does, where, the stop bit it read
    bda,                 \* XDC_BDA_REG: the last descriptor done, or NULL
    enable,              \* XDC_SWCR_SG_ENABLE
    threshold,           \* packets that make a PKT_THRESHOLD interrupt
    count,               \* unserviced packet count
    isr                  \* interrupt status

list == <<PutPtr, GetPtr, CommitPtr, LastPtr, active, open>>
engine == <<hw, bda, enable, threshold>>
channel == <<bd, list, engine, count, isr>>

GetNextPtr(s) == (s + 1) % Total

(* XDmaChannel_Initialize and CreateSgList.                                  *)
CreateSgList ==
    /\ bd = [s \in Slots |-> [stop |-> FALSE, last |-> FALSE, busy |-> FALSE,
                              locked |-> FALSE]]
    /\ PutPtr = Total - 1 /\ GetPtr = Total - 1 /\ LastPtr = Total - 1
    /\ CommitPtr = NULL
    /\ active = 0 /\ open = 0
    /\ hw = [at |-> "idle", cur |-> 0, stop |-> FALSE]
    /\ bda = NULL /\ enable = FALSE /\ threshold = Threshold
    /\ count = 0 /\ isr = {}

(* The descriptors in the list, from GetPtr on, and those not committed.     *)
Listed(s) == (s + Total - GetPtr) % Total < active
Uncommitted(s) == Listed(s) /\ (s + Total - GetPtr) % Total >= active - open

-----------------------------------------------------------------------------
CanPut == active # Total /\ ~ bd[PutPtr].locked

(* Mutant of PutDescriptor: the new descriptor does not stop the hardware.  *)
PutDescriptor_running(src, locked, last) ==
    /\ CanPut
    /\ bd' = [bd EXCEPT ![PutPtr] = [stop |-> FALSE, last |-> last, busy |-> TRUE,
                                     locked |-> locked]]
    /\ active' = active + 1 /\ open' = open + 1
    /\ CommitPtr' = IF CommitPtr = NULL THEN LastPtr ELSE CommitPtr
    /\ LastPtr' = PutPtr
    /\ PutPtr' = GetNextPtr(PutPtr)
    /\ UNCHANGED <<GetPtr, engine, count, isr>>

(* The stop bit and the busy status are set in the caller's descriptor,      *)
(* which may itself be one of the ring (src), before it is copied to PutPtr. *)
(* From the third put of a series on the one before it no longer stops.      *)
PutDescriptor(src, locked, last) ==
    LET marked == [s \in Slots |-> IF s = src THEN [bd[s] EXCEPT !.stop = TRUE, !.busy = TRUE]
                                   ELSE bd[s]]
        put == [marked EXCEPT
                   ![PutPtr] = [stop |-> TRUE, last |-> last, busy |-> TRUE, locked |-> locked]]
        passed == CommitPtr \notin {LastPtr, NULL}
    IN
    /\ CanPut
    /\ bd' = [put EXCEPT ![LastPtr].stop = @ /\ ~ passed]
    /\ active' = active + 1 /\ open' = open + 1
    /\ CommitPtr' = IF CommitPtr = NULL THEN LastPtr ELSE CommitPtr
    /\ LastPtr' = PutPtr
    /\ PutPtr' = GetNextPtr(PutPtr)
    /\ UNCHANGED <<GetPtr, engine, count, isr>>

CanCommit == CommitPtr # NULL /\ active # 0

(* A commit lets the hardware pass one descriptor, the last one before the   *)
(* series.                                                                  *)
CommitPuts ==
    /\ IF CanCommit
       THEN /\ bd' = [bd EXCEPT ![CommitPtr].stop = @ /\ CommitPtr = LastPtr]
            /\ CommitPtr' = NULL /\ open' = 0
       ELSE UNCHANGED <<bd, CommitPtr, open>>
    /\ UNCHANGED <<PutPtr, GetPtr, LastPtr, active, engine, count, isr>>

(* Mutant of Startable: the status of the descriptor is not looked at.       *)
Startable_unchecked ==
    /\ active # 0
    /\ hw.at = "idle"
    /\ bda # NULL => GetNextPtr(bda) # CommitPtr

(* What SgStart finds before it touches the registers.                       *)
Startable ==
    /\ active # 0
    /\ hw.at = "idle"
    /\ bda # NULL => /\ bd[GetNextPtr(bda)].busy
                     /\ GetNextPtr(bda) # CommitPtr

(* Mutant of SgStart: the channel starts at the first descriptor.            *)
SgStart_first ==
    /\ IF Startable
       THEN /\ hw' = [at |-> "fetch", stop |-> FALSE, cur |-> GetPtr]
            /\ bda' = GetPtr /\ enable' = TRUE
            /\ UNCHANGED threshold
       ELSE UNCHANGED engine
    /\ UNCHANGED <<bd, list, count, isr>>

SgStart ==
    /\ IF Startable
       THEN /\ hw' = [at |-> "fetch", stop |-> FALSE,
                      cur |-> IF bda = NULL THEN GetPtr ELSE GetNextPtr(bda)]
            /\ bda' = IF bda = NULL THEN GetPtr ELSE bda
            /\ enable' = TRUE
            /\ UNCHANGED threshold
       ELSE UNCHANGED engine
    /\ UNCHANGED <<bd, list, count, isr>>

(* GetDescriptor, and DecrementPktCount after the last one of a packet.      *)
GetDescriptor ==
    /\ GetPtr' = GetNextPtr(GetPtr)
    /\ active' = active - 1
    /\ open' = IF open = active THEN open - 1 ELSE open
    /\ UNCHANGED <<PutPtr, CommitPtr, LastPtr>>

IsLastStatus(s) == bd[s].last /\ ~ bd[s].busy

-----------------------------------------------------------------------------
(* The hardware reads the control word.                                     *)
Fetch ==
    /\ hw.at = "fetch"
    /\ hw' = [hw EXCEPT !.at = "move", !.stop = bd[hw.cur].stop]
    /\ UNCHANGED <<bd, list, bda, enable, threshold, count, isr>>

(* It finishes the descriptor, and goes on unless it was told to stop.       *)
Complete ==
    LET n == count + (IF bd[hw.cur].last THEN 1 ELSE 0)
    IN  /\ hw.at = "move"
        /\ bd' = [bd EXCEPT ![hw.cur].busy = FALSE]
        /\ bda' = hw.cur
        /\ count' = n
        /\ isr' = isr \cup (IF hw.stop THEN {"SG_END"} ELSE {})
                      \cup (IF n >= threshold THEN {"PKT_THRESHOLD"} ELSE {})
        /\ hw' = IF hw.stop \/ ~ enable THEN [hw EXCEPT !.at = "idle"]
                 ELSE [hw EXCEPT !.at = "fetch", !.cur = GetNextPtr(@)]
        /\ UNCHANGED <<list, enable, threshold>>

(* The packet wait bound expires: packets wait and no interrupt is pending.  *)
WaitBound ==
    /\ count > 0 /\ isr = {}
    /\ isr' = {"PKT_WAIT_BOUND"}
    /\ UNCHANGED <<bd, list, engine, count>>

(* Writing the status back clears the bits that were read; the threshold     *)
(* comes right back while enough packets are there.                         *)
SetIntrStatus(bits) ==
    /\ isr' = (isr \ bits) \cup (IF count >= threshold THEN {"PKT_THRESHOLD"} ELSE {})
    /\ UNCHANGED <<bd, list, engine, count>>

(* XDmaChannel_SgStop asks the hardware to stop after its descriptor.         *)
SgStop ==
    /\ enable' = FALSE
    /\ UNCHANGED <<bd, list, hw, bda, threshold, count, isr>>

(* XIIF_V123B_RESET clears the registers and leaves the ring alone.  The      *)
(* packet threshold goes back to its default, one.                          *)
ResetRegisters ==
    /\ hw.at = "idle"
    /\ bda' = NULL /\ count' = 0 /\ isr' = {} /\ threshold' = 1
    /\ UNCHANGED <<bd, list, hw, enable>>
=============================================================================
