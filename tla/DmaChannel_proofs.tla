------------------------- MODULE DmaChannel_proofs -------------------------
(***************************************************************************)
(* The DMA channel under the functions of xdma_channel_sg.c, for any size of *)
(* the ring: what holds of the list, the hardware and the descriptors, and   *)
(* that each function and each step of the hardware keeps it so.             *)
(***************************************************************************)
EXTENDS Emac, FiniteSetTheorems, TLAPS

(* How far slot s is behind slot g in the ring.                              *)
From(g, s) == IF s >= g THEN s - g ELSE s + Total - g

Bits == [stop : BOOLEAN, last : BOOLEAN, busy : BOOLEAN, locked : BOOLEAN]

(* The channel: its registers and descriptors have their ranges ...          *)
ChannelType ==
    /\ bd \in [Slots -> Bits]
    /\ PutPtr \in Slots /\ GetPtr \in Slots /\ LastPtr \in Slots
    /\ CommitPtr \in Slots \cup {NULL} /\ bda \in Slots \cup {NULL}
    /\ active \in 0 .. Total
    /\ hw \in [at : {"idle", "fetch", "move"}, cur : Slots, stop : BOOLEAN]
    /\ enable \in BOOLEAN
    /\ count \in Nat /\ resets \in Nat

(* ... PutPtr and LastPtr are at the end of the list ...                     *)
Ends ==
    /\ IF active = Total THEN PutPtr = GetPtr ELSE From(GetPtr, PutPtr) = active
    /\ \/ GetNextPtr(LastPtr) = PutPtr
       \/ active = 0 /\ CommitPtr = NULL /\ LastPtr = PutPtr

(* ... the hardware is at a descriptor of the list, or behind its last ...    *)
InList ==
    /\ hw.at # "idle" => From(GetPtr, hw.cur) < active
    /\ hw.at = "move" /\ ~ hw.stop => hw.cur # LastPtr
    /\ hw.at = "idle" /\ bda # NULL => From(GetPtr, GetNextPtr(bda)) <= active

(* ... and has cleared the busy status of what is behind it.                 *)
BusyAhead ==
    \A s \in Slots :
       /\ bd[s].busy => From(GetPtr, s) < active
       /\ From(GetPtr, s) < Done => ~ bd[s].busy
       /\ resets = 0 /\ From(GetPtr, s) < active /\ From(GetPtr, s) >= Done => bd[s].busy

(* The packets behind the hardware, that the count counts.                   *)
Passed == {s \in Slots : From(GetPtr, s) < Done /\ bd[s].last}

Channel == ChannelType /\ Ends /\ InList /\ EndStops /\ BusyAhead /\ count = Cardinality(Passed)

-----------------------------------------------------------------------------
LEMMA Sizes == Total \in Nat /\ Total > 1 /\ NULL \notin Slots
  BY DmaChannelAssumption DEF Slots

LEMMA NextSlot ==
    ASSUME NEW s \in Slots
    PROVE  /\ GetNextPtr(s) \in Slots
           /\ GetNextPtr(s) = IF s = Total - 1 THEN 0 ELSE s + 1
  BY Sizes DEF GetNextPtr, Slots

LEMMA FromMod ==
    ASSUME NEW g \in Slots, NEW s \in Slots
    PROVE  /\ (s + Total - g) % Total = From(g, s)
           /\ From(g, s) \in 0 .. Total - 1
<1>1. g \in Nat /\ s \in Nat /\ g < Total /\ s < Total /\ Total \in Nat
  BY Sizes DEF Slots
<1>2. CASE s >= g
  <2>1. s + Total - g = (s - g) + Total /\ s - g \in 0 .. Total - 1
    BY <1>1, <1>2
  <2>2. ((s - g) + Total) % Total = s - g
    BY <1>1, <2>1
  <2> QED
    BY <1>2, <2>1, <2>2 DEF From
<1>3. CASE s < g
  <2>1. s + Total - g \in 0 .. Total - 1
    BY <1>1, <1>3
  <2>2. (s + Total - g) % Total = s + Total - g
    BY <1>1, <2>1
  <2> QED
    BY <1>1, <1>3, <2>1, <2>2 DEF From
<1> QED
  BY <1>1, <1>2, <1>3

(* Two slots at the same distance are the same.                              *)
LEMMA FromInj ==
    ASSUME NEW g \in Slots, NEW s \in Slots, NEW t \in Slots, From(g, s) = From(g, t)
    PROVE  s = t
  BY Sizes DEF From, Slots

(* The next slot is one further, up to the one in front of g.                 *)
LEMMA FromNext ==
    ASSUME NEW g \in Slots, NEW s \in Slots
    PROVE  From(g, GetNextPtr(s)) = IF From(g, s) = Total - 1 THEN 0 ELSE From(g, s) + 1
  BY Sizes, NextSlot DEF From, Slots

(* Everything is one nearer when g moves on.                                  *)
LEMMA FromMove ==
    ASSUME NEW g \in Slots, NEW s \in Slots
    PROVE  From(GetNextPtr(g), s) = IF s = g THEN Total - 1 ELSE From(g, s) - 1
  BY Sizes, NextSlot DEF From, Slots

LEMMA FromSelf ==
    ASSUME NEW g \in Slots, NEW s \in Slots
    PROVE  From(g, s) = 0 <=> s = g
  BY Sizes DEF From, Slots

LEMMA ListedFrom ==
    ASSUME ChannelType, NEW s \in Slots
    PROVE  Listed(s) <=> From(GetPtr, s) < active
  BY FromMod DEF Listed, ChannelType

(* Done without the remainder, in a state and in the next one.               *)
Behind(at, cur, b, put, get, act, busy) ==
    IF at = "idle" /\ b # NULL /\ GetNextPtr(b) = put /\ ~ busy THEN act
    ELSE From(get, IF at # "idle" THEN cur ELSE IF b = NULL THEN get ELSE GetNextPtr(b))

LEMMA DoneIs ==
    /\ ChannelType =>
          Done = Behind(hw.at, hw.cur, bda, PutPtr, GetPtr, active, bd[bda].busy)
    /\ ChannelType' =>
          Done' = Behind(hw'.at, hw'.cur, bda', PutPtr', GetPtr', active', bd'[bda'].busy)
<1>1. ASSUME ChannelType
      PROVE  Done = Behind(hw.at, hw.cur, bda, PutPtr, GetPtr, active, bd[bda].busy)
  <2>1. Position \in Slots /\ GetPtr \in Slots
    BY <1>1, NextSlot DEF Position, ChannelType
  <2>2. (Position + Total - GetPtr) % Total = From(GetPtr, Position)
    BY <2>1, FromMod
  <2> QED
    BY <2>2 DEF Done, Behind, Position
<1>2. ASSUME ChannelType'
      PROVE  Done' = Behind(hw'.at, hw'.cur, bda', PutPtr', GetPtr', active', bd'[bda'].busy)
  <2>1. Position' \in Slots /\ GetPtr' \in Slots
    BY <1>2, NextSlot DEF Position, ChannelType
  <2>2. (Position' + Total - GetPtr') % Total = From(GetPtr', Position')
    BY <2>1, FromMod
  <2> QED
    BY <2>2 DEF Done, Behind, Position
<1> QED
  BY <1>1, <1>2

LEMMA DoneRange ==
    ASSUME ChannelType, Ends, InList
    PROVE  Done \in 0 .. active
<1>1. CASE hw.at # "idle"
  <2>1. Done = From(GetPtr, hw.cur) /\ hw.cur \in Slots
    BY <1>1, DoneIs DEF Behind, ChannelType
  <2> QED
    BY <1>1, <2>1, FromMod DEF InList, ChannelType
<1>2. CASE hw.at = "idle" /\ bda = NULL
  <2>1. Done = From(GetPtr, GetPtr)
    BY <1>2, DoneIs DEF Behind
  <2> QED
    BY <2>1, FromSelf DEF ChannelType
<1>3. CASE hw.at = "idle" /\ bda # NULL
  <2>1. Done = active \/ Done = From(GetPtr, GetNextPtr(bda))
    BY <1>3, DoneIs DEF Behind
  <2>2. bda \in Slots /\ GetNextPtr(bda) \in Slots
    BY <1>3, NextSlot DEF ChannelType
  <2> QED
    BY <1>3, <2>1, <2>2, FromMod DEF InList, ChannelType
<1> QED
  BY <1>1, <1>2, <1>3

(* What the hardware has behind it when it is idle at the end of the list.   *)
LEMMA PassedFinite ==
    ASSUME ChannelType PROVE IsFiniteSet(Passed) /\ IsFiniteSet(Slots)
<1>1. IsFiniteSet(Slots)
  BY FS_Interval, Sizes DEF Slots
<1> QED
  BY <1>1, FS_Subset DEF Passed

-----------------------------------------------------------------------------
(* PutDescriptor, bit by bit.  In the caller's descriptor it sets bits before *)
(* it copies it, which does no harm if that is the one it copies to.         *)
LEMMA PutBits ==
    ASSUME ChannelType, Ends, NEW src, src = NULL \/ src = PutPtr,
           NEW locked \in BOOLEAN, NEW last \in BOOLEAN,
           PutDescriptor(src, locked, last)
    PROVE  /\ bd' \in [Slots -> Bits]
           /\ bd'[PutPtr].busy /\ bd'[PutPtr].stop /\ (bd'[PutPtr].last <=> last)
           /\ \A s \in Slots \ {PutPtr} :
                 /\ bd'[s].busy <=> bd[s].busy
                 /\ bd'[s].last <=> bd[s].last
                 /\ bd'[s].stop <=>
                       (bd[s].stop /\ (s = LastPtr => CommitPtr \in {LastPtr, NULL}))
<1> DEFINE new == [stop |-> TRUE, last |-> last, busy |-> TRUE, locked |-> locked]
           marked == [s \in Slots |-> IF s = src THEN [bd[s] EXCEPT !.stop = TRUE, !.busy = TRUE]
                                      ELSE bd[s]]
           passed == CommitPtr \notin {LastPtr, NULL}
           put == [marked EXCEPT ![PutPtr] = new]
<1>1. PutPtr \in Slots /\ LastPtr \in Slots /\ bd \in [Slots -> Bits]
  BY DEF ChannelType
<1>2. bd' = [put EXCEPT ![LastPtr].stop = put[LastPtr].stop /\ ~ passed]
  BY Zenon DEF PutDescriptor
<1>3. LastPtr = PutPtr => ~ passed
  <2>1. GetNextPtr(LastPtr) # LastPtr
    BY <1>1, NextSlot, Sizes DEF Slots
  <2> QED
    BY <2>1 DEF Ends
<1>4. new \in Bits /\ new.busy /\ new.stop /\ (new.last <=> last)
  BY DEF Bits
<1>5. put \in [Slots -> Bits] /\ put[PutPtr] = new
      /\ \A s \in Slots \ {PutPtr} : put[s] = bd[s]
  <2>1. \A s \in Slots : marked[s] \in Bits
    <3> SUFFICES ASSUME NEW s \in Slots PROVE marked[s] \in Bits
      BY Zenon
    <3>1. bd[s] \in Bits
      BY <1>1
    <3>2. [bd[s] EXCEPT !.stop = TRUE, !.busy = TRUE] \in Bits
      BY Zenon, <3>1 DEF Bits
    <3> QED
      BY <3>1, <3>2
  <2>2. \A s \in Slots \ {PutPtr} : marked[s] = bd[s]
    BY Sizes
  <2>3. DOMAIN marked = Slots
    OBVIOUS
  <2> HIDE DEF marked, new
  <2>4. marked \in [Slots -> Bits]
    BY Zenon, <2>1, <2>3 DEF marked
  <2> QED
    BY <2>2, <2>4, <1>1, <1>4
<1> HIDE DEF put, new
<1> DEFINE end == [put[LastPtr] EXCEPT !.stop = put[LastPtr].stop /\ ~ passed]
<1>6. end \in Bits /\ (end.busy <=> put[LastPtr].busy) /\ (end.last <=> put[LastPtr].last)
      /\ (end.stop <=> (put[LastPtr].stop /\ ~ passed))
  <2>1. put[LastPtr] \in Bits
    BY <1>1, <1>5
  <2>2. (put[LastPtr].stop /\ ~ passed) \in BOOLEAN
    OBVIOUS
  <2> HIDE DEF passed
  <2> QED
    BY Zenon, <2>1, <2>2 DEF Bits
<1>7. bd' = [put EXCEPT ![LastPtr] = end]
  BY <1>1, <1>2, <1>5
<1> HIDE DEF end, passed
<1>8. /\ bd' \in [Slots -> Bits] /\ bd'[LastPtr] = end
      /\ \A s \in Slots \ {LastPtr} : bd'[s] = put[s]
  BY <1>1, <1>5, <1>6, <1>7
<1>9. bd'[PutPtr].busy /\ bd'[PutPtr].stop /\ (bd'[PutPtr].last <=> last)
  <2>1. CASE LastPtr = PutPtr
    BY <2>1, <1>3, <1>4, <1>5, <1>6, <1>8, Zenon
  <2>2. CASE LastPtr # PutPtr
    BY <2>2, <1>1, <1>4, <1>5, <1>8, Zenon
  <2> QED
    BY <2>1, <2>2
<1>10. ASSUME NEW s \in Slots \ {PutPtr}
       PROVE  /\ bd'[s].busy <=> bd[s].busy
              /\ bd'[s].last <=> bd[s].last
              /\ bd'[s].stop <=>
                    (bd[s].stop /\ (s = LastPtr => CommitPtr \in {LastPtr, NULL}))
  <2>1. put[s] = bd[s]
    BY <1>5
  <2>2. CASE s = LastPtr
    BY <2>1, <2>2, <1>6, <1>8, Zenon DEF passed
  <2>3. CASE s # LastPtr
    BY <2>1, <2>3, <1>8, Zenon
  <2> QED
    BY <2>2, <2>3
<1> QED
  BY <1>8, <1>9, <1>10

(* A put at the end of the list changes nothing for the hardware.             *)
LEMMA PutKeeps ==
    ASSUME Channel, NEW src, src = NULL \/ src = PutPtr,
           NEW locked \in BOOLEAN, NEW last \in BOOLEAN,
           PutDescriptor(src, locked, last), UNCHANGED resets
    PROVE  /\ Channel' /\ Done' = Done /\ active' = active + 1 /\ active < Total
           /\ Waiting' = Waiting \cup {PutPtr} /\ PutPtr \notin Waiting
           /\ CommitPtr' # NULL
<1> USE DEF Channel
<1>1. /\ PutPtr' = GetNextPtr(PutPtr) /\ LastPtr' = PutPtr /\ active' = active + 1
      /\ CommitPtr' = IF CommitPtr = NULL THEN LastPtr ELSE CommitPtr
      /\ GetPtr' = GetPtr /\ hw' = hw /\ bda' = bda /\ enable' = enable /\ count' = count
      /\ active # Total
  BY Zenon DEF PutDescriptor, engine, CanPut
<1> DEFINE put == PutPtr
           get == GetPtr
<1>2. /\ bd' \in [Slots -> Bits]
      /\ bd'[PutPtr].busy /\ bd'[PutPtr].stop /\ (bd'[PutPtr].last <=> last)
      /\ \A s \in Slots \ {PutPtr} :
            /\ bd'[s].busy <=> bd[s].busy
            /\ bd'[s].last <=> bd[s].last
            /\ bd'[s].stop <=>
                  (bd[s].stop /\ (s = LastPtr => CommitPtr \in {LastPtr, NULL}))
  BY PutBits, Zenon
<1>3. /\ PutPtr \in Slots /\ GetPtr \in Slots /\ LastPtr \in Slots
      /\ active \in Nat /\ active < Total /\ From(GetPtr, PutPtr) = active
      /\ PutPtr' \in Slots /\ PutPtr' # PutPtr
  BY SMTT(30), <1>1, Sizes, NextSlot DEF ChannelType, Ends, Slots
<1>4. ChannelType'
  <2>1. active' \in 0 .. Total /\ CommitPtr' \in Slots \cup {NULL}
    BY <1>1, <1>3, Sizes DEF ChannelType
  <2> QED
    BY <2>1, <1>1, <1>2, <1>3, Zenon DEF ChannelType
<1>5. Ends'
  <2>1. From(GetPtr, PutPtr') = IF active = Total - 1 THEN 0 ELSE active + 1
    BY <1>1, <1>3, FromNext
  <2>2. active' = Total => PutPtr' = GetPtr
    BY <2>1, <1>1, <1>3, Sizes, FromSelf
  <2>3. active' # Total => From(GetPtr, PutPtr') = active'
    BY <2>1, <1>1, <1>3, Sizes
  <2> QED
    BY <2>2, <2>3, <1>1 DEF Ends
<1>6. hw.cur \in Slots /\ (bda # NULL => bda \in Slots /\ GetNextPtr(bda) \in Slots)
  BY NextSlot DEF ChannelType
<1>7. InList'
  <2>1. From(GetPtr, hw.cur) \in Nat /\ (bda # NULL => From(GetPtr, GetNextPtr(bda)) \in Nat)
    BY <1>3, <1>6, FromMod
  <2>2. /\ hw.at # "idle" => From(GetPtr, hw.cur) < active'
        /\ hw.at = "move" /\ ~ hw.stop => hw.cur # LastPtr'
        /\ hw.at = "idle" /\ bda # NULL => From(GetPtr, GetNextPtr(bda)) <= active'
    BY <2>1, <1>1, <1>3 DEF InList
  <2> QED
    BY <2>2, <1>1, Zenon DEF InList
<1>8. Done' = Done
  <2>1. CASE hw.at # "idle" \/ bda = NULL
    BY <2>1, <1>1, <1>4, DoneIs DEF Behind
  <2>2. CASE hw.at = "idle" /\ bda # NULL
    <3> DEFINE n == GetNextPtr(bda)
    <3>1. Done = IF n = PutPtr /\ ~ bd[bda].busy THEN active ELSE From(GetPtr, n)
      BY <2>2, DoneIs DEF Behind
    <3>2. Done = From(GetPtr, n)
      BY <3>1, <1>3
    <3>3. Done' = IF n = PutPtr' /\ ~ bd'[bda].busy THEN active' ELSE From(GetPtr, n)
      BY <2>2, <1>1, <1>4, DoneIs DEF Behind
    <3>4. n = PutPtr' => bda = PutPtr
      BY <1>1, <1>3, <1>6, <2>2, NextSlot, Sizes DEF Slots
    <3> QED
      BY <3>2, <3>3, <3>4, <1>2
  <2> QED
    BY <2>1, <2>2
<1>9. Done \in 0 .. active
  BY DoneRange
<1>10. ASSUME NEW s \in Slots
       PROVE  /\ From(GetPtr, s) \in Nat
              /\ From(GetPtr, s) < active' <=> From(GetPtr, s) < active \/ s = PutPtr
  BY <1>1, <1>3, FromMod, FromInj
<1>11. BusyAhead'
  <2> SUFFICES ASSUME NEW s \in Slots
               PROVE  /\ bd'[s].busy => From(GetPtr, s) < active'
                      /\ From(GetPtr, s) < Done => ~ bd'[s].busy
                      /\ resets = 0 /\ From(GetPtr, s) < active' /\ From(GetPtr, s) >= Done
                            => bd'[s].busy
    BY <1>1, <1>8, Zenon DEF BusyAhead
  <2>1. CASE s = PutPtr
    BY <2>1, <1>2, <1>3, <1>9, <1>10
  <2>2. CASE s # PutPtr
    BY <2>2, <1>2, <1>10, Zenon DEF BusyAhead
  <2> QED
    BY <2>1, <2>2
<1>12. EndStops'
  <2>1. \A s \in Slots : Listed(s)' => Listed(s) \/ s = PutPtr
    <3> SUFFICES ASSUME NEW s \in Slots, Listed(s)' PROVE Listed(s) \/ s = PutPtr
      OBVIOUS
    <3>1. From(GetPtr, s) < active'
      BY <1>1, <1>3, FromMod DEF Listed
    <3> QED
      BY <3>1, <1>10, ListedFrom
  <2>2. ASSUME NEW s \in Slots, Listed(s)', bd'[s].stop
        PROVE  s \in {LastPtr', CommitPtr'}
    <3>1. CASE s # PutPtr
      <4>1. bd[s].stop /\ Listed(s) /\ (s = LastPtr => CommitPtr \in {LastPtr, NULL})
        BY <2>1, <2>2, <3>1, <1>2, Zenon
      <4>2. s \in {LastPtr, CommitPtr}
        BY <4>1 DEF EndStops
      <4> QED
        BY <4>1, <4>2, <1>1, Sizes
    <3> QED
      BY <3>1, <1>1
  <2> QED
    BY <2>2, <1>1, <1>2 DEF EndStops
<1>13. Passed' = Passed
  <2>1. ASSUME NEW s \in Slots
        PROVE  (From(GetPtr, s) < Done /\ bd'[s].last) <=> (From(GetPtr, s) < Done /\ bd[s].last)
    BY <1>2, <1>3, <1>9
  <2> QED
    BY <2>1, <1>1, <1>8, Zenon DEF Passed
<1>14. Waiting' = Waiting \cup {PutPtr} /\ PutPtr \notin Waiting
  <2>1. ASSUME NEW s \in Slots
        PROVE  /\ Listed(s)' <=> From(GetPtr, s) < active'
               /\ Listed(s) <=> From(GetPtr, s) < active
    BY <1>1, <1>3, ListedFrom, FromMod DEF Listed
  <2>2. ASSUME NEW s \in Slots
        PROVE  (Listed(s)' /\ bd'[s].busy) <=> ((Listed(s) /\ bd[s].busy) \/ s = PutPtr)
    <3>1. CASE s = PutPtr
      BY <3>1, <2>1, <1>2, <1>10
    <3>2. CASE s # PutPtr
      BY <3>2, <2>1, <1>2, <1>10, Zenon
    <3> QED
      BY <3>1, <3>2
  <2>3. ~ Listed(PutPtr)
    BY <2>1, <1>3
  <2> QED
    BY <2>2, <2>3, <1>3, Zenon DEF Waiting
<1> QED
  BY <1>1, <1>3, <1>4, <1>5, <1>7, <1>8, <1>11, <1>12, <1>13, <1>14, Sizes

(* Steps that leave the busy status, the list and the hardware alone, and of  *)
(* the stop bits those of the descriptors of the list or CommitPtr.          *)
LEMMA SameKeeps ==
    ASSUME Channel, bd' \in [Slots -> Bits],
           \A s \in Slots : (bd'[s].busy <=> bd[s].busy) /\ (bd'[s].last <=> bd[s].last),
           UNCHANGED <<PutPtr, GetPtr, LastPtr, active, hw, bda, count>>,
           CommitPtr' \in Slots \cup {NULL}, CommitPtr' = NULL \/ CommitPtr' = CommitPtr,
           enable' \in BOOLEAN, resets' \in Nat, resets' = 0 => resets = 0,
           EndStops'
    PROVE  Channel' /\ Done' = Done /\ Waiting' = Waiting /\ active' = active
<1> USE DEF Channel
<1>1. ChannelType'
  BY Zenon DEF ChannelType
<1>2. Ends' /\ InList'
  <2>1. Ends'
    BY Zenon DEF Ends
  <2>2. InList'
    BY Zenon DEF InList
  <2> QED
    BY <2>1, <2>2
<1>3. Done' = Done
  <2>1. bda \in Slots => (bd'[bda].busy <=> bd[bda].busy)
    OBVIOUS
  <2>2. bda # NULL => bda \in Slots
    BY DEF ChannelType
  <2>3. /\ Done = Behind(hw.at, hw.cur, bda, PutPtr, GetPtr, active, bd[bda].busy)
        /\ Done' = Behind(hw.at, hw.cur, bda, PutPtr, GetPtr, active, bd'[bda].busy)
    BY <1>1, DoneIs
  <2> QED
    BY <2>1, <2>2, <2>3, Zenon DEF Behind
<1>4. BusyAhead'
  BY <1>3, Zenon DEF BusyAhead
<1>5. Passed' = Passed
  BY <1>3, Zenon DEF Passed
<1>6. Waiting' = Waiting
  BY Zenon DEF Waiting, Listed
<1> QED
  BY <1>1, <1>2, <1>3, <1>4, <1>5, <1>6

LEMMA CommitKeeps ==
    ASSUME Channel, CommitPuts, UNCHANGED resets
    PROVE  Channel' /\ Done' = Done /\ Waiting' = Waiting /\ active' = active
<1> USE DEF Channel
<1>1. /\ UNCHANGED <<PutPtr, GetPtr, LastPtr, active, hw, bda, enable, count>>
      /\ CanCommit => /\ bd' = [bd EXCEPT ![CommitPtr].stop = @ /\ CommitPtr = LastPtr]
                      /\ CommitPtr' = NULL
      /\ ~ CanCommit => bd' = bd /\ CommitPtr' = CommitPtr
  BY Zenon DEF CommitPuts, engine
<1>2. CASE ~ CanCommit
  <2>1. EndStops' /\ CommitPtr' \in Slots \cup {NULL} /\ bd' \in [Slots -> Bits]
    BY <1>1, <1>2 DEF EndStops, Listed, ChannelType
  <2>2. enable' \in BOOLEAN /\ resets' \in Nat
    BY <1>1 DEF ChannelType
  <2> QED
    BY <2>1, <2>2, <1>1, <1>2, SameKeeps, Zenon
<1>3. CASE CanCommit
  <2>1. CommitPtr \in Slots /\ bd[CommitPtr] \in Bits
    BY <1>3 DEF CanCommit, ChannelType
  <2> DEFINE c == [bd[CommitPtr] EXCEPT !.stop = bd[CommitPtr].stop /\ CommitPtr = LastPtr]
  <2>2. /\ c \in Bits /\ (c.busy <=> bd[CommitPtr].busy) /\ (c.last <=> bd[CommitPtr].last)
        /\ c.stop <=> (bd[CommitPtr].stop /\ CommitPtr = LastPtr)
    <3>1. (bd[CommitPtr].stop /\ CommitPtr = LastPtr) \in BOOLEAN
      OBVIOUS
    <3> QED
      BY Zenon, <2>1, <3>1 DEF Bits
  <2>3. bd' = [bd EXCEPT ![CommitPtr] = c] /\ bd \in [Slots -> Bits]
    BY <1>1, <1>3, Zenon DEF ChannelType
  <2> HIDE DEF c
  <2>4. /\ bd' \in [Slots -> Bits] /\ bd'[CommitPtr] = c
        /\ \A s \in Slots : s # CommitPtr => bd'[s] = bd[s]
    BY <2>1, <2>2, <2>3
  <2>5. \A s \in Slots : (bd'[s].busy <=> bd[s].busy) /\ (bd'[s].last <=> bd[s].last)
    BY <2>2, <2>4, Zenon
  <2>6. \A s \in Slots : bd'[s].stop <=> (bd[s].stop /\ (s = CommitPtr => s = LastPtr))
    BY <2>2, <2>4, Zenon
  <2>7. EndStops'
    <3>1. active > 0 => bd'[LastPtr].stop
      BY <2>6 DEF EndStops, ChannelType
    <3>2. \A s \in Slots : Listed(s) /\ bd'[s].stop => s \in {LastPtr, CommitPtr'}
      BY <2>6, Zenon DEF EndStops
    <3> QED
      BY <3>1, <3>2, <1>1 DEF EndStops, Listed
  <2>8. CommitPtr' = NULL /\ enable' \in BOOLEAN /\ resets' \in Nat
    BY <1>1, <1>3 DEF ChannelType
  <2> QED
    BY <2>4, <2>5, <2>7, <2>8, <1>1, SameKeeps
<1> QED
  BY <1>2, <1>3

(* SgStart puts the hardware where Done says it is.                           *)
LEMMA StartKeeps ==
    ASSUME Channel, SgStart, UNCHANGED resets
    PROVE  /\ Channel' /\ Done' = Done /\ Waiting' = Waiting /\ active' = active
           /\ UNCHANGED <<bd, PutPtr, GetPtr, LastPtr, CommitPtr, active, count>>
<1> USE DEF Channel
<1>1. UNCHANGED <<bd, PutPtr, GetPtr, LastPtr, CommitPtr, active, count>>
  BY DEF SgStart, list
<1>2. CASE ~ Startable
  <2>1. UNCHANGED <<hw, bda, enable>>
    BY <1>2 DEF SgStart, engine
  <2>2. EndStops' /\ CommitPtr' \in Slots \cup {NULL} /\ bd' \in [Slots -> Bits]
        /\ enable' \in BOOLEAN /\ resets' \in Nat
    BY <1>1, <2>1 DEF EndStops, Listed, ChannelType
  <2> QED
    BY <1>1, <2>1, <2>2, SameKeeps, Zenon
<1>3. CASE Startable
  <2> DEFINE at == IF bda = NULL THEN GetPtr ELSE GetNextPtr(bda)
  <2>1. /\ hw' = [at |-> "fetch", stop |-> FALSE, cur |-> at]
        /\ bda' = (IF bda = NULL THEN GetPtr ELSE bda) /\ enable' = TRUE
    BY <1>3, Zenon DEF SgStart
  <2>2. at \in Slots /\ bda' \in Slots
    BY <2>1, NextSlot DEF ChannelType
  <2>3. active > 0 /\ hw.at = "idle" /\ (bda # NULL => bd[at].busy)
    BY <1>3 DEF Startable, ChannelType
  <2>4. From(GetPtr, at) < active
    <3>1. CASE bda = NULL
      BY <3>1, <2>2, <2>3, FromSelf DEF ChannelType
    <3>2. CASE bda # NULL
      BY <3>2, <2>2, <2>3 DEF BusyAhead
    <3> QED
      BY <3>1, <3>2
  <2>5. Done = From(GetPtr, at)
    <3>1. CASE bda = NULL
      BY <3>1, <2>3, DoneIs DEF Behind
    <3>2. CASE bda # NULL
      <4>1. Done = active \/ Done = From(GetPtr, at)
        BY <3>2, <2>3, DoneIs DEF Behind
      <4>2. ~ (From(GetPtr, at) < Done)
        BY <3>2, <2>2, <2>3 DEF BusyAhead
      <4> QED
        BY <4>1, <4>2, <2>4
    <3> QED
      BY <3>1, <3>2
  <2> HIDE DEF at
  <2>6. ChannelType'
    <3>1. hw' \in [at : {"idle", "fetch", "move"}, cur : Slots, stop : BOOLEAN]
      BY <2>1, <2>2
    <3> QED
      BY <3>1, <2>1, <2>2, <1>1, Zenon DEF ChannelType
  <2>7. hw'.at = "fetch" /\ hw'.cur = at
    BY <2>1
  <2>8. Done' = Done
    BY <2>5, <2>6, <2>7, <1>1, DoneIs DEF Behind
  <2>9. Ends' /\ InList'
    BY <2>4, <2>7, <1>1 DEF Ends, InList
  <2>10. EndStops' /\ BusyAhead' /\ Passed' = Passed /\ Waiting' = Waiting
    BY <2>8, <1>1, Zenon DEF EndStops, BusyAhead, Passed, Waiting, Listed
  <2> QED
    BY <2>6, <2>8, <2>9, <2>10, <1>1
<1> QED
  BY <1>2, <1>3

LEMMA FetchKeeps ==
    ASSUME Channel, Fetch, UNCHANGED resets
    PROVE  Channel' /\ Done' = Done /\ Waiting' = Waiting /\ active' = active
<1> USE DEF Channel
<1>1. UNCHANGED <<bd, PutPtr, GetPtr, LastPtr, CommitPtr, active, bda, enable, count>>
  BY DEF Fetch, list
<1>2. /\ hw.at = "fetch" /\ hw.cur \in Slots /\ bd[hw.cur].stop \in BOOLEAN
      /\ hw' = [hw EXCEPT !.at = "move", !.stop = bd[hw.cur].stop]
  BY DEF Fetch, ChannelType, Bits
<1>3. /\ hw' \in [at : {"idle", "fetch", "move"}, cur : Slots, stop : BOOLEAN]
      /\ hw'.at = "move" /\ hw'.cur = hw.cur /\ (hw'.stop <=> bd[hw.cur].stop)
  BY ZenonT(30), <1>2 DEF ChannelType
<1>4. ChannelType'
  BY <1>1, <1>3, Zenon DEF ChannelType
<1>5. Done' = Done
  BY <1>1, <1>2, <1>3, <1>4, DoneIs DEF Behind
<1>6. active > 0
  BY <1>2, FromMod DEF InList, ChannelType
<1>7. Ends' /\ InList'
  <2>1. ~ hw'.stop => hw'.cur # LastPtr
    BY <1>3, <1>6 DEF EndStops
  <2> QED
    BY <2>1, <1>1, <1>2, <1>3 DEF Ends, InList
<1>8. EndStops' /\ BusyAhead' /\ Passed' = Passed /\ Waiting' = Waiting
  BY <1>5, <1>1, Zenon DEF EndStops, BusyAhead, Passed, Waiting, Listed
<1> QED
  BY <1>1, <1>4, <1>5, <1>7, <1>8

(* The descriptors of the list that come before its last one.                *)
LEMMA NextInList ==
    ASSUME ChannelType, Ends, NEW c \in Slots, From(GetPtr, c) < active
    PROVE  /\ GetNextPtr(c) = PutPtr <=> From(GetPtr, c) = active - 1
           /\ From(GetPtr, c) = active - 1 => c = LastPtr
           /\ From(GetPtr, c) # active - 1 =>
                 From(GetPtr, GetNextPtr(c)) = From(GetPtr, c) + 1
           /\ From(GetPtr, GetNextPtr(c)) <= active
<1> DEFINE f == From(GetPtr, c)
           n == GetNextPtr(c)
<1>1. /\ GetPtr \in Slots /\ PutPtr \in Slots /\ LastPtr \in Slots /\ n \in Slots
      /\ active \in 0 .. Total /\ f \in Nat /\ f < active /\ Total \in Nat /\ Total > 1
  BY NextSlot, FromMod, Sizes DEF ChannelType
<1>2. From(GetPtr, n) = IF f = Total - 1 THEN 0 ELSE f + 1
  BY <1>1, FromNext
<1>3. IF active = Total THEN PutPtr = GetPtr ELSE From(GetPtr, PutPtr) = active
  BY DEF Ends
<1> HIDE DEF f, n
<1>4. n = PutPtr => f = active - 1
  <2>1. CASE active = Total
    BY <2>1, <1>1, <1>2, <1>3, FromSelf
  <2>2. CASE active # Total
    BY <2>2, <1>1, <1>2, <1>3
  <2> QED
    BY <2>1, <2>2
<1>5. f = active - 1 => n = PutPtr
  <2>1. CASE active = Total
    BY <2>1, <1>1, <1>2, <1>3, FromSelf
  <2>2. CASE active # Total
    BY <2>2, <1>1, <1>2, <1>3, FromInj
  <2> QED
    BY <2>1, <2>2
<1>6. n = PutPtr => c = LastPtr
  <2>1. GetNextPtr(LastPtr) = PutPtr
    BY <1>1 DEF Ends
  <2> QED
    BY <2>1, <1>1, NextSlot, Sizes DEF n, Slots
<1> QED
  BY <1>1, <1>2, <1>4, <1>5, <1>6 DEF f, n

(* The hardware finishes a descriptor: one more is behind it.                 *)
LEMMA CompleteKeeps ==
    ASSUME Channel, Complete, UNCHANGED resets
    PROVE  /\ Channel' /\ Done' = Done + 1 /\ active' = active /\ Done < active
           /\ Waiting' = Waiting \ {hw.cur}
           /\ UNCHANGED <<PutPtr, GetPtr, LastPtr, CommitPtr, active>>
           /\ \A s \in Slots : bd'[s].locked <=> bd[s].locked
           /\ count' >= count
<1> USE DEF Channel
<1> DEFINE c == hw.cur
           f == From(GetPtr, c)
<1>1. /\ UNCHANGED <<PutPtr, GetPtr, LastPtr, CommitPtr, active, enable>>
      /\ hw.at = "move" /\ bda' = c /\ bd' = [bd EXCEPT ![c].busy = FALSE]
      /\ count' = count + (IF bd[c].last THEN 1 ELSE 0)
      /\ hw' = IF hw.stop \/ ~ enable THEN [hw EXCEPT !.at = "idle"]
               ELSE [hw EXCEPT !.at = "fetch", !.cur = GetNextPtr(c)]
  BY Zenon DEF Complete, list
<1>2. /\ c \in Slots /\ GetPtr \in Slots /\ f \in Nat /\ f < active /\ active \in 0 .. Total
      /\ GetNextPtr(c) \in Slots /\ count \in Nat /\ Total \in Nat
  BY <1>1, FromMod, NextSlot, Sizes DEF InList, ChannelType
<1>3. Done = f
  BY <1>1, DoneIs DEF Behind
<1>4. /\ bd' \in [Slots -> Bits] /\ ~ bd'[c].busy
      /\ \A s \in Slots : /\ bd'[s].last <=> bd[s].last
                          /\ bd'[s].stop <=> bd[s].stop
                          /\ bd'[s].locked <=> bd[s].locked
                          /\ s # c => (bd'[s].busy <=> bd[s].busy)
  <2>1. bd \in [Slots -> Bits] /\ bd[c] \in Bits
    BY <1>2 DEF ChannelType
  <2> DEFINE b == [bd[c] EXCEPT !.busy = FALSE]
  <2>2. /\ b \in Bits /\ ~ b.busy /\ (b.last <=> bd[c].last)
        /\ (b.stop <=> bd[c].stop) /\ (b.locked <=> bd[c].locked)
    BY Zenon, <2>1 DEF Bits
  <2>3. bd' = [bd EXCEPT ![c] = b]
    BY <1>1, <2>1
  <2> HIDE DEF b
  <2>4. /\ bd' \in [Slots -> Bits] /\ bd'[c] = b
        /\ \A s \in Slots : s # c => bd'[s] = bd[s]
    BY <2>1, <2>2, <2>3, <1>2
  <2> QED
    BY <2>2, <2>4, Zenon
<1>5. hw' \in [at : {"idle", "fetch", "move"}, cur : Slots, stop : BOOLEAN]
  BY Zenon, <1>1, <1>2 DEF ChannelType
<1>6. ChannelType'
  <2>1. count' \in Nat
    BY <1>1, <1>2
  <2> QED
    BY <2>1, <1>1, <1>2, <1>4, <1>5, Zenon DEF ChannelType
<1>7. Done' = f + 1
  <2>1. CASE hw.stop \/ ~ enable
    <3>1. hw'.at = "idle" /\ bda' = c /\ bda' # NULL
      BY <2>1, <1>1, <1>2, Sizes DEF ChannelType
    <3>2. Done' = IF GetNextPtr(c) = PutPtr THEN active ELSE From(GetPtr, GetNextPtr(c))
      BY <3>1, <1>1, <1>4, <1>6, DoneIs DEF Behind
    <3> QED
      BY <3>2, <1>2, NextInList
  <2>2. CASE ~ (hw.stop \/ ~ enable)
    <3>1. hw'.at = "fetch" /\ hw'.cur = GetNextPtr(c)
      BY <2>2, <1>1, <1>2 DEF ChannelType
    <3>2. c # LastPtr
      BY <2>2, <1>1 DEF InList
    <3>3. Done' = From(GetPtr, GetNextPtr(c))
      BY <3>1, <1>1, <1>6, DoneIs DEF Behind
    <3> QED
      BY <3>2, <3>3, <1>2, NextInList
  <2> QED
    BY <2>1, <2>2
<1>8. Ends' /\ InList'
  <2>1. Ends'
    BY <1>1 DEF Ends
  <2>2. CASE hw.stop \/ ~ enable
    <3>1. hw'.at = "idle"
      BY <2>2, <1>1, <1>2 DEF ChannelType
    <3>2. From(GetPtr, GetNextPtr(c)) <= active
      BY <1>2, NextInList
    <3> QED
      BY <2>1, <3>1, <3>2, <1>1 DEF InList
  <2>3. CASE ~ (hw.stop \/ ~ enable)
    <3>1. hw'.at = "fetch" /\ hw'.cur = GetNextPtr(c)
      BY <2>3, <1>1, <1>2 DEF ChannelType
    <3>2. c # LastPtr
      BY <2>3, <1>1 DEF InList
    <3>3. f # active - 1 /\ From(GetPtr, GetNextPtr(c)) = f + 1
      BY <3>2, <1>2, NextInList
    <3>4. From(GetPtr, GetNextPtr(c)) < active
      BY <3>3, <1>2
    <3> QED
      BY <2>1, <3>1, <3>4, <1>1 DEF InList
  <2> QED
    BY <2>2, <2>3
<1>9. EndStops'
  <2>1. active > 0 => bd'[LastPtr].stop
    BY <1>4 DEF EndStops, ChannelType
  <2>2. \A s \in Slots : Listed(s) /\ bd'[s].stop => s \in {LastPtr, CommitPtr}
    BY <1>4, Zenon DEF EndStops
  <2> QED
    BY <2>1, <2>2, <1>1 DEF EndStops, Listed
<1>10. \A s \in Slots : From(GetPtr, s) \in Nat /\ (From(GetPtr, s) = f => s = c)
  BY <1>2, FromMod, FromInj
<1>11. \A s \in Slots : From(GetPtr, s) < f + 1 <=> From(GetPtr, s) < f \/ s = c
  BY <1>2, <1>10
<1>12. BusyAhead'
  <2> SUFFICES ASSUME NEW s \in Slots
               PROVE  /\ bd'[s].busy => From(GetPtr, s) < active
                      /\ From(GetPtr, s) < f + 1 => ~ bd'[s].busy
                      /\ resets = 0 /\ From(GetPtr, s) < active /\ From(GetPtr, s) >= f + 1
                            => bd'[s].busy
    BY <1>1, <1>7, Zenon DEF BusyAhead
  <2>1. CASE s = c
    BY <2>1, <1>2, <1>4
  <2>2. CASE s # c
    <3>1. From(GetPtr, s) < f + 1 <=> From(GetPtr, s) < f
      BY <2>2, <1>11
    <3>2. From(GetPtr, s) >= f + 1 => From(GetPtr, s) >= f
      BY <1>2, <1>10
    <3> QED
      BY <2>2, <3>1, <3>2, <1>3, <1>4, Zenon DEF BusyAhead
  <2> QED
    BY <2>1, <2>2
<1>13. Passed' = (IF bd[c].last THEN Passed \cup {c} ELSE Passed) /\ c \notin Passed
  <2>1. Passed = {s \in Slots : From(GetPtr, s) < f /\ bd[s].last}
    BY <1>3 DEF Passed
  <2>2. Passed' = {s \in Slots : From(GetPtr, s) < f + 1 /\ bd'[s].last}
    BY <1>1, <1>7 DEF Passed
  <2>3. Passed' = {s \in Slots : (From(GetPtr, s) < f \/ s = c) /\ bd[s].last}
    BY <2>2, <1>4, <1>11
  <2>4. c \notin Passed
    BY <2>1, <1>2
  <2> QED
    BY <2>1, <2>3, <2>4, <1>2
<1>14. count' = Cardinality(Passed')
  <2>1. Cardinality(Passed \cup {c}) = Cardinality(Passed) + 1
    BY Zenon, <1>13, PassedFinite, FS_AddElement
  <2>2. CASE bd[c].last
    BY <2>1, <2>2, <1>1, <1>2, <1>13
  <2>3. CASE ~ bd[c].last
    BY <2>3, <1>1, <1>2, <1>13
  <2> QED
    BY <2>2, <2>3
<1>15. Waiting' = Waiting \ {c}
  BY <1>1, <1>4, Zenon DEF Waiting, Listed
<1> QED
  BY SMTT(30), <1>1, <1>2, <1>3, <1>4, <1>6, <1>7, <1>8, <1>9, <1>12, <1>14, <1>15

(* A packet that was counted is behind the hardware.                          *)
LEMMA CountedBehind ==
    ASSUME Channel, count > 0
    PROVE  Done > 0 /\ active > 0 /\ ~ bd[GetPtr].busy
<1> USE DEF Channel
<1>1. Passed # {}
  BY FS_EmptySet DEF ChannelType
<1>2. PICK s \in Slots : From(GetPtr, s) < Done
  BY <1>1 DEF Passed
<1>3. Done \in 0 .. active /\ active \in Nat /\ GetPtr \in Slots /\ From(GetPtr, s) \in Nat
  BY DoneRange, FromMod DEF ChannelType
<1>4. Done > 0 /\ active > 0
  BY <1>2, <1>3
<1>5. From(GetPtr, GetPtr) = 0
  BY <1>3, FromSelf
<1>6. ~ bd[GetPtr].busy
  BY <1>3, <1>4, <1>5 DEF BusyAhead
<1> QED
  BY <1>4, <1>6

(* A descriptor that is behind the hardware is taken out.                     *)
LEMMA GetKeeps ==
    ASSUME Channel, Done > 0, GetDescriptor, UNCHANGED <<bd, hw, bda, enable, resets>>,
           count' = IF bd[GetPtr].last THEN count - 1 ELSE count
    PROVE  /\ Channel' /\ Done' = Done - 1 /\ active' = active - 1 /\ active > 0
           /\ Waiting' = Waiting
           /\ GetPtr' = GetNextPtr(GetPtr)
           /\ \A s \in Slots : From(GetPtr', s) < active' =>
                 /\ From(GetPtr, s) < active
                 /\ From(GetPtr', s) = From(GetPtr, s) - 1
<1> USE DEF Channel
<1> DEFINE g == GetPtr
<1>1. /\ UNCHANGED <<PutPtr, LastPtr, CommitPtr>>
      /\ GetPtr' = GetNextPtr(g) /\ active' = active - 1
  BY DEF GetDescriptor
<1>2. /\ g \in Slots /\ PutPtr \in Slots /\ GetNextPtr(g) \in Slots /\ hw.cur \in Slots
      /\ active \in 0 .. Total /\ Done \in 0 .. active /\ active > 0 /\ Total \in Nat /\ Total > 1
      /\ count \in Nat
  BY DoneRange, NextSlot, Sizes DEF ChannelType
<1>3. \A s \in Slots : /\ From(g, s) \in 0 .. Total - 1
                       /\ From(g, s) = 0 <=> s = g
                       /\ From(GetPtr', s) = IF s = g THEN Total - 1 ELSE From(g, s) - 1
  BY <1>1, <1>2, FromMod, FromSelf, FromMove
<1>4. ~ bd[g].busy
  BY <1>2, <1>3 DEF BusyAhead
<1>5. Passed' = Passed \ {g} /\ (g \in Passed <=> bd[g].last) /\ ChannelType'
      /\ Done' = Done - 1 /\ Ends' /\ InList'
  <2>1. bd[g].last => count > 0
    <3> SUFFICES ASSUME bd[g].last PROVE count > 0
      OBVIOUS
    <3>1. g \in Passed
      BY <1>2, <1>3 DEF Passed
    <3> QED
      BY <3>1, <1>2, PassedFinite, FS_EmptySet
  <2>2. ChannelType'
    <3>1. count' \in Nat /\ active' \in 0 .. Total
      BY <2>1, <1>1, <1>2
    <3> QED
      BY <3>1, <1>1, <1>2 DEF ChannelType
  <2>3. Ends'
    <3>1. From(GetPtr', PutPtr) = active - 1
      BY <1>2, <1>3 DEF Ends
    <3>2. active' # Total
      BY <1>1, <1>2
    <3> QED
      BY <3>1, <3>2, <1>1, <1>2 DEF Ends
  <2>4. Done' = Done - 1 /\ InList'
    <3>1. CASE hw.at # "idle"
      <4>1. Done = From(g, hw.cur) /\ Done' = From(GetPtr', hw.cur)
        BY <3>1, <1>1, <2>2, DoneIs DEF Behind
      <4>2. Done' = Done - 1 /\ From(GetPtr', hw.cur) < active'
        BY <4>1, <1>1, <1>2, <1>3, <3>1 DEF InList
      <4> QED
        BY <3>1, <4>2, <1>1 DEF InList
    <3>2. CASE hw.at = "idle" /\ bda = NULL
      <4>1. Done = From(g, g)
        BY <3>2, DoneIs DEF Behind
      <4> QED
        BY <4>1, <1>2, <1>3
    <3>3. CASE hw.at = "idle" /\ bda # NULL
      <4> DEFINE n == GetNextPtr(bda)
      <4>1. n \in Slots /\ From(g, n) <= active
        BY <3>3, NextSlot DEF ChannelType, InList
      <4>2. /\ Done = IF n = PutPtr /\ ~ bd[bda].busy THEN active ELSE From(g, n)
            /\ Done' = IF n = PutPtr /\ ~ bd[bda].busy THEN active' ELSE From(GetPtr', n)
        BY <3>3, <1>1, <2>2, DoneIs DEF Behind
      <4> HIDE DEF n
      <4>3. Done' = Done - 1 /\ From(GetPtr', n) <= active'
        <5>1. CASE n = g
          <6>1. n = PutPtr /\ ~ bd[bda].busy /\ Done = active
            BY <5>1, <4>2, <1>2, <1>3
          <6>2. active = Total
            BY <6>1, <5>1, <1>2, <1>3 DEF Ends
          <6> QED
            BY SMTT(20), <5>1, <6>1, <6>2, <4>1, <4>2, <1>1, <1>2, <1>3
        <5>2. CASE n # g
          BY <5>2, <4>1, <4>2, <1>1, <1>2, <1>3
        <5> QED
          BY <5>1, <5>2
      <4> QED
        BY <3>3, <4>3, <1>1 DEF InList, n
    <3> QED
      BY <3>1, <3>2, <3>3 DEF ChannelType
  <2>5. g \in Passed <=> bd[g].last
    BY SMTT(20), <1>2, <1>3 DEF Passed
  <2>6. ASSUME NEW s \in Slots
        PROVE  From(GetPtr', s) < Done' <=> From(g, s) < Done /\ s # g
    BY <2>4, <1>2, <1>3
  <2>7. Passed' = Passed \ {g}
    BY <2>6 DEF Passed
  <2> QED
    BY <2>2, <2>3, <2>4, <2>5, <2>7
<1>6. count' = Cardinality(Passed')
  <2>1. CASE bd[g].last
    BY Zenon, <2>1, <1>5, PassedFinite, FS_RemoveElement
  <2>2. CASE ~ bd[g].last
    <3>1. Passed' = Passed
      BY <2>2, <1>5
    <3> QED
      BY <2>2, <3>1
  <2> QED
    BY <2>1, <2>2
<1>7. \A s \in Slots : From(GetPtr', s) < active' =>
         s # g /\ From(g, s) < active /\ From(GetPtr', s) = From(g, s) - 1
  BY <1>1, <1>2, <1>3
<1>8. \A s \in Slots : s # g => (From(GetPtr', s) < active' <=> From(g, s) < active)
  BY <1>1, <1>2, <1>3
<1>9. BusyAhead'
  <2> SUFFICES ASSUME NEW s \in Slots
               PROVE  /\ bd[s].busy => From(GetPtr', s) < active'
                      /\ From(GetPtr', s) < Done' => ~ bd[s].busy
                      /\ resets = 0 /\ From(GetPtr', s) < active' /\ From(GetPtr', s) >= Done'
                            => bd[s].busy
    BY Zenon DEF BusyAhead
  <2>1. CASE s = g
    <3>1. From(GetPtr', s) = Total - 1
      BY <2>1, <1>2, <1>3
    <3>2. active' \in Int /\ active' <= Total - 1
      BY <1>1, <1>2
    <3>3. ~ bd[s].busy
      BY <2>1, <1>4, Zenon
    <3> QED
      BY <3>1, <3>2, <3>3, <1>2
  <2>2. CASE s # g
    <3>1. From(GetPtr', s) < active' <=> From(g, s) < active
      BY <2>2, <1>8
    <3>2. From(g, s) \in Int /\ From(GetPtr', s) = From(g, s) - 1
      BY <2>2, <1>3
    <3>3. Done' = Done - 1 /\ Done \in Int
      BY <1>2, <1>5
    <3>4. /\ bd[s].busy => From(g, s) < active
          /\ From(g, s) < Done => ~ bd[s].busy
          /\ resets = 0 /\ From(g, s) < active /\ From(g, s) >= Done => bd[s].busy
      BY Zenon DEF BusyAhead
    <3> QED
      BY <3>1, <3>2, <3>3, <3>4
  <2> QED
    BY <2>1, <2>2
<1>10. ASSUME NEW s \in Slots
       PROVE  /\ Listed(s) <=> From(g, s) < active
              /\ Listed(s)' <=> From(GetPtr', s) < active'
  BY <1>1, <1>2, ListedFrom, FromMod DEF Listed
<1>11. EndStops'
  <2>1. active' > 0 => bd[LastPtr].stop
    BY <1>2 DEF EndStops
  <2>2. \A s \in Slots : Listed(s)' /\ bd[s].stop => s \in {LastPtr, CommitPtr}
    BY <1>7, <1>10 DEF EndStops
  <2> QED
    BY <2>1, <2>2, <1>1 DEF EndStops
<1>12. Waiting' = Waiting
  <2>1. ASSUME NEW s \in Slots PROVE (Listed(s)' /\ bd[s].busy) <=> (Listed(s) /\ bd[s].busy)
    BY <1>4, <1>7, <1>8, <1>10
  <2> QED
    BY <2>1, Zenon DEF Waiting
<1> QED
  BY <1>1, <1>2, <1>5, <1>6, <1>7, <1>9, <1>11, <1>12

(* A reset: what is in the list is transferred from its first descriptor on.  *)
LEMMA ResetKeeps ==
    ASSUME Channel, ResetRegisters, UNCHANGED resets, resets > 0
    PROVE  Channel' /\ Done' = 0 /\ Waiting' = Waiting /\ active' = active
<1> USE DEF Channel
<1>1. /\ UNCHANGED <<bd, PutPtr, GetPtr, LastPtr, CommitPtr, active, hw, enable>>
      /\ hw.at = "idle" /\ bda' = NULL /\ count' = 0
  BY DEF ResetRegisters, list
<1>2. ChannelType'
  BY <1>1 DEF ChannelType
<1>3. Done' = 0
  <2>1. Done' = From(GetPtr, GetPtr)
    BY <1>1, <1>2, DoneIs DEF Behind
  <2> QED
    BY <2>1, FromSelf DEF ChannelType
<1>4. Ends' /\ InList'
  BY <1>1 DEF Ends, InList
<1>5. \A s \in Slots : From(GetPtr, s) \in Nat
  BY FromMod DEF ChannelType
<1>6. BusyAhead'
  <2>1. ASSUME NEW s \in Slots
        PROVE  /\ bd[s].busy => From(GetPtr, s) < active
               /\ ~ (From(GetPtr, s) < 0)
    BY <1>5 DEF BusyAhead
  <2>2. resets' # 0
    BY DEF ChannelType
  <2> QED
    BY <2>1, <2>2, <1>1, <1>3, Zenon DEF BusyAhead
<1>7. EndStops' /\ Waiting' = Waiting
  BY <1>1, Zenon DEF EndStops, Waiting, Listed
<1>8. Passed' = {}
  <2>1. \A s \in Slots : ~ (From(GetPtr, s) < 0)
    BY <1>5
  <2> QED
    BY <2>1, <1>1, <1>3, Zenon DEF Passed
<1>9. count' = Cardinality(Passed')
  BY <1>1, <1>8, FS_EmptySet
<1> QED
  BY <1>1, <1>2, <1>3, <1>4, <1>6, <1>7, <1>9

-----------------------------------------------------------------------------
LEMMA InitSend ==
    ASSUME Init, setup.side = "send"
    PROVE  Channel /\ Done = 0 /\ active = 0
<1>1. /\ CreateSgList /\ resets = 0
  BY DEF Init
<1>2. /\ active = 0 /\ count = 0 /\ hw = [at |-> "idle", cur |-> 0, stop |-> FALSE]
      /\ bda = NULL /\ CommitPtr = NULL /\ enable = FALSE
      /\ PutPtr = Total - 1 /\ GetPtr = Total - 1 /\ LastPtr = Total - 1
      /\ bd = [s \in Slots |-> [stop |-> FALSE, last |-> FALSE, busy |-> FALSE,
                                locked |-> FALSE]]
  BY <1>1 DEF CreateSgList
<1>3. Total - 1 \in Slots /\ 0 \in Slots
  BY Sizes DEF Slots
<1>4. bd \in [Slots -> Bits]
  BY <1>2 DEF Bits
<1>5. ChannelType
  <2>1. hw \in [at : {"idle", "fetch", "move"}, cur : Slots, stop : BOOLEAN]
    BY <1>2, <1>3
  <2>2. active \in 0 .. Total /\ count \in Nat /\ resets \in Nat
    BY <1>1, <1>2, Sizes
  <2>3. /\ PutPtr \in Slots /\ GetPtr \in Slots /\ LastPtr \in Slots
        /\ CommitPtr \in Slots \cup {NULL} /\ bda \in Slots \cup {NULL} /\ enable \in BOOLEAN
    BY ZenonT(30), <1>2, <1>3
  <2> QED
    BY ZenonT(30), <2>1, <2>2, <2>3, <1>4 DEF ChannelType
<1>6. From(GetPtr, GetPtr) = 0 /\ PutPtr = GetPtr /\ GetPtr \in Slots
  BY <1>2, <1>3, FromSelf
<1>7. (GetPtr + Total - GetPtr) % Total = 0
  BY <1>6, FromMod
<1>8. Done = 0
  BY <1>2, <1>7 DEF Done, Position
<1>9. \A s \in Slots : From(GetPtr, s) \in Nat
  BY <1>2, <1>3, FromMod, Sizes
<1>10. Passed = {}
  BY <1>8, <1>9 DEF Passed
<1>11. count = Cardinality(Passed)
  BY <1>2, <1>10, FS_EmptySet
<1>12. Ends /\ InList
  BY ZenonT(30), <1>2, <1>6, Sizes DEF Ends, InList
<1>13. \A s \in Slots : ~ bd[s].busy /\ ~ bd[s].stop
  BY <1>2
<1>14. EndStops /\ BusyAhead
  BY <1>2, <1>8, <1>9, <1>13 DEF EndStops, BusyAhead
<1> QED
  BY <1>2, <1>5, <1>8, <1>11, <1>12, <1>14 DEF Channel

LEMMA InitRecv ==
    ASSUME Init, setup.side = "recv"
    PROVE  Channel /\ Done = 0 /\ active = Total /\ \A s \in Slots : bd[s].busy
<1>1. /\ active = Total /\ count = 0 /\ hw.at = "move" /\ hw.cur = Total - 1
      /\ hw \in [at : {"idle", "fetch", "move"}, cur : Slots, stop : BOOLEAN]
      /\ bda = Total - 1 /\ CommitPtr = NULL /\ enable = TRUE /\ resets = 0
      /\ PutPtr = Total - 1 /\ GetPtr = Total - 1 /\ LastPtr = Total - 2
      /\ bd = [s \in Slots |-> [stop |-> s = Total - 2, last |-> TRUE,
                                busy |-> TRUE, locked |-> TRUE]]
  <2>1. PICK latched \in BOOLEAN :
            /\ hw = [at |-> "move", cur |-> Total - 1, stop |-> latched]
            /\ active = Total /\ count = 0
            /\ bda = Total - 1 /\ CommitPtr = NULL /\ enable = TRUE /\ resets = 0
            /\ PutPtr = Total - 1 /\ GetPtr = Total - 1 /\ LastPtr = Total - 2
            /\ bd = [s \in Slots |-> [stop |-> s = Total - 2, last |-> TRUE,
                                      busy |-> TRUE, locked |-> TRUE]]
    BY Zenon DEF Init
  <2>2. Total - 1 \in Slots
    BY Sizes DEF Slots
  <2>3. /\ hw.at = "move" /\ hw.cur = Total - 1
        /\ hw \in [at : {"idle", "fetch", "move"}, cur : Slots, stop : BOOLEAN]
    BY Zenon, <2>1, <2>2
  <2> QED
    BY <2>1, <2>3, Zenon
<1>2. Total - 1 \in Slots /\ Total - 2 \in Slots
  BY Sizes DEF Slots
<1>3. bd \in [Slots -> Bits]
  BY <1>1 DEF Bits
<1>4. ChannelType
  BY <1>1, <1>2, <1>3, Sizes DEF ChannelType
<1>5. From(GetPtr, hw.cur) = 0
  BY <1>1, <1>2, FromSelf
<1>6. (hw.cur + Total - GetPtr) % Total = 0
  BY <1>1, <1>2, <1>5, FromMod
<1>7. Done = 0
  BY <1>1, <1>6 DEF Done, Position
<1>8. \A s \in Slots : From(GetPtr, s) \in Nat
  BY <1>1, <1>2, FromMod, Sizes
<1>9. Passed = {}
  BY <1>7, <1>8 DEF Passed
<1>10. count = Cardinality(Passed)
  BY <1>1, <1>9, FS_EmptySet
<1>11. GetNextPtr(LastPtr) = PutPtr
  BY <1>1, <1>2, NextSlot, Sizes
<1>12. Ends
  BY <1>1, <1>11 DEF Ends
<1>13. InList
  BY <1>1, <1>5, Sizes DEF InList
<1>14. \A s \in Slots : bd[s].busy /\ (bd[s].stop <=> s = LastPtr)
  BY ZenonT(30), <1>1
<1>15. EndStops
  BY <1>1, <1>2, <1>14 DEF EndStops
<1>16. BusyAhead
  <2>1. \A s \in Slots : From(GetPtr, s) < active
    BY <1>1, <1>2, FromMod, Sizes
  <2> QED
    BY <2>1, <1>7, <1>8, <1>14 DEF BusyAhead
<1> QED
  BY SMTT(30), <1>1, <1>4, <1>7, <1>10, <1>12, <1>13, <1>14, <1>15, <1>16 DEF Channel
=============================================================================
