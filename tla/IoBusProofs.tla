---------------------------- MODULE IoBusProofs ----------------------------
(***************************************************************************)
(* The safety of the parts of the IO bus, for any interrupt bits, timers,  *)
(* latches, cards and files.                                               *)
(***************************************************************************)
EXTENDS IoBus, TLAPS

Names == {"machine", "video"}
Words16 == SUBSET (Bits \cup {"irq", "fiq", "abort"})
ThreadType == [pc : {"idle", "sub", "subtract", "while", "add", "raise", "clear", "raised",
                     "cleared", "irq", "irqstore", "fiq", "fiqstore", "abort"},
               timer : Timers \cup {"none"}, seen : Int, word : Words16, bits : SUBSET Bits]

(* What a thread carries from a read to the write that follows it.         *)
Carries(r) ==
    /\ r.pc \in {"sub", "subtract", "while", "add"} => r.timer \in Timers
    /\ r.pc = "add" => r.seen >= Floor
    /\ r.pc \in {"raised", "cleared"} => Forced \cap Of("A") \subseteq r.word /\ r.word \subseteq Bits
    /\ r.pc \in {"irqstore", "fiqstore", "abort"} => r.word \subseteq {"irq", "fiq", "abort"}

TimersInv ==
    /\ threads \in [Names -> ThreadType]
    /\ \A th \in Names : Carries(threads[th])
    /\ counter \in [Timers -> Int] /\ latch \in [Timers -> Latches \cup {1}]
    /\ \A t \in Timers : counter[t] >= Floor

LinesInv ==
    /\ Forced \subseteq status /\ status \cup mask \subseteq Bits
    /\ armirq \subseteq {"irq", "fiq", "abort"}

CardType == [timer : BOOLEAN, irq : BOOLEAN, fiq : BOOLEAN, msectimer : Int]
PodulesInv ==
    /\ podules \in [0 .. Slots - 1 -> CardType]
    /\ freepodule \in 0 .. Slots
    /\ running \in [slot : 1 .. Slots, again : BOOLEAN]

Lines3 == {"PODULE", "PODULE_FIQ_AS_IRQ", "FIQ_PODULE"}
CardsAgree == status \cap Lines3 = Wanted(podules)

(* The first of two keys is the last write while the second is awaited.    *)
SuperInv ==
    /\ super \in {"FDC37C665GT", "FDC37C672"}
    /\ config \in [mode : {"normal", "intermediate", "configuration"}, reg : {"c", "d", "plain"}]
    /\ super = "FDC37C665GT" /\ config.mode = "intermediate" => last = "key"
    /\ gp \in [{"c", "d", "e", "f"} -> SUBSET Sources] /\ gp_index \in {"c", "d", "e", "f"}
    /\ i8042 \in [command : {"none", "WRITE_MODE", "WRITE_MOUSE"},
                  mode : SUBSET {"DISABLE_KBD", "DISABLE_MOUSE"},
                  irq_kbd : BOOLEAN, irq_mouse : BOOLEAN]

ChunkType == [base : Nat, size : Nat]

(* The chunks s lie in order between first and end.                        *)
Ordered(s, first, end) ==
    /\ \A i \in 1 .. Len(s) : /\ s[i].base >= first /\ s[i].base % 4 = 0
                              /\ s[i].base + s[i].size <= end
    /\ \A i, j \in 1 .. Len(s) : i < j => s[i].base + s[i].size <= s[j].base

(* The three counters of the image advance together.                       *)
RomType == [files : Nat, state : {"reading", "stopped", "podule"}, chunkbase : Nat, filebase : Nat,
            poduleromsize : Nat, chunks : Seq(ChunkType)]
RomInv ==
    /\ image \in RomType
    /\ Len(image.chunks) <= image.files + 1
    /\ image.chunkbase = HeaderEnd + 8 * Len(image.chunks)
    /\ image.filebase = image.poduleromsize /\ image.filebase % 4 = 0
    /\ FirstFile(image.files) <= image.filebase
    /\ Ordered(image.chunks, FirstFile(image.files), image.filebase)

BusInv == LinesInv /\ TimersInv /\ PodulesInv /\ (part = "podules" => CardsAgree) /\ SuperInv /\ RomInv

-----------------------------------------------------------------------------
(* The timers. *)

LEMMA NextTimerType == ASSUME NEW t \in Timers \cup {"none"} PROVE NextTimer(t) \in Timers \cup {"none"}
BY TimerAssumption DEF NextTimer

LEMMA FirstTimer == NextTimer("none") \in Timers
BY TimerAssumption DEF NextTimer

(* A new record for one thread keeps what threads carry.                   *)
LEMMA OneThread ==
    ASSUME TimersInv, NEW th \in Names, NEW r \in ThreadType, Carries(r),
           threads' = [threads EXCEPT ![th] = r]
    PROVE  threads' \in [Names -> ThreadType] /\ \A u \in Names : Carries(threads[u])'
BY DEF TimersInv, Carries

LEMMA UpdatedType ==
    ASSUME LinesInv, NEW s, NEW m PROVE Updated(s, m, armirq) \subseteq {"irq", "fiq", "abort"}
BY DEF LinesInv, Updated

LEMMA ForcedBits == Forced \subseteq Bits /\ Forced \cap Timers \subseteq Bits /\ Timers \subseteq Bits
BY TimerAssumption DEF Forced, Of

-----------------------------------------------------------------------------
(* The image of the extension ROM. *)

LEMMA WordUp == ASSUME NEW n \in Nat PROVE Word(n) \in Nat /\ Word(n) >= n /\ Word(n) % 4 = 0
<1> DEFINE k == (n + 3) \div 4
<1>1. k \in Nat /\ 4 * k >= n
  OBVIOUS
<1>2. Word(n) = 4 * k
  BY DEF Word
<1> HIDE DEF k
<1>3. (4 * k) % 4 = 0
  BY <1>1
<1> QED BY <1>1, <1>2, <1>3

(* A chunk put at the end of all others lies behind them.                  *)
LEMMA ChunkBehind ==
    ASSUME NEW s \in Seq(ChunkType), NEW first \in Nat, NEW end \in Nat, first <= end, end % 4 = 0,
           NEW len \in Nat, NEW room \in Nat, len <= room, Ordered(s, first, end),
           NEW c, c = Chunk(end, len)
    PROVE  /\ Append(s, c) \in Seq(ChunkType) /\ Len(Append(s, c)) = Len(s) + 1
           /\ Ordered(Append(s, c), first, end + room)
<1> DEFINE size == len % 16777216
<1>0. size \in Nat /\ size <= room
  OBVIOUS
<1> HIDE DEF size
<1>1. c \in ChunkType /\ c.base = end /\ c.size = size
  BY <1>0 DEF Chunk, ChunkType, size
<1> DEFINE new == Append(s, c)
<1>2. /\ new \in Seq(ChunkType) /\ Len(new) = Len(s) + 1 /\ Len(s) \in Nat
      /\ \A i \in 1 .. Len(s) : new[i] = s[i]
      /\ new[Len(s) + 1] = c
  BY <1>1
<1> HIDE DEF new
<1>3. ASSUME NEW i \in 1 .. Len(s) PROVE s[i].base \in Nat /\ s[i].size \in Nat
  <2>1. s[i] \in ChunkType
    OBVIOUS
  <2> QED BY <2>1 DEF ChunkType
<1>4. ASSUME NEW i \in 1 .. Len(new)
      PROVE  /\ new[i].base >= first /\ new[i].base % 4 = 0
             /\ new[i].base + new[i].size <= end + room
  <2>1. CASE i = Len(s) + 1
    BY <1>1, <1>0, <1>2, <2>1
  <2>2. CASE i \in 1 .. Len(s)
    <3>1. s[i].base >= first /\ s[i].base % 4 = 0 /\ s[i].base + s[i].size <= end
      BY <2>2 DEF Ordered
    <3>2. s[i].base \in Nat /\ s[i].size \in Nat /\ new[i] = s[i]
      BY <1>2, <1>3, <2>2
    <3> QED BY <3>1, <3>2, SMTT(20)
  <2> QED BY <1>2, <2>1, <2>2
<1>5. ASSUME NEW i \in 1 .. Len(new), NEW j \in 1 .. Len(new), i < j
      PROVE  new[i].base + new[i].size <= new[j].base
  <2>1. i \in 1 .. Len(s)
    BY <1>2, <1>5
  <2>2. CASE j = Len(s) + 1
    BY <1>1, <1>2, <1>3, <2>1, <2>2 DEF Ordered
  <2>3. CASE j \in 1 .. Len(s)
    BY <1>2, <1>3, <1>5, <2>1, <2>3 DEF Ordered
  <2> QED BY <1>2, <2>2, <2>3
<1>6. Ordered(new, first, end + room)
  BY <1>4, <1>5 DEF Ordered
<1> QED BY <1>2, <1>6 DEF new

LEMMA AddFileInv == ASSUME RomInv, AddFile PROVE RomInv'
<1>0. PICK len \in Lengths : image' = Added(len)
  BY DEF AddFile
<1>1. len \in Nat /\ Word(len) \in Nat /\ Word(len) >= len /\ Word(len) % 4 = 0
  BY RomAssumption, WordUp
<1> DEFINE s == image.chunks
           new == Append(s, Chunk(image.filebase, len))
           end == image.filebase
           first == FirstFile(image.files)
<1>2. /\ image \in RomType /\ s \in Seq(ChunkType) /\ end \in Nat /\ image.files \in Nat
      /\ end % 4 = 0 /\ first <= end /\ Ordered(s, first, end) /\ end = image.poduleromsize
      /\ Len(s) - 1 < image.files /\ Len(s) \in Nat /\ image.chunkbase = HeaderEnd + 8 * Len(s)
  BY DEF RomInv, RomType, AddFile, Left
<1>3. first \in Nat
  BY <1>2 DEF FirstFile, HeaderEnd
<1>4. new \in Seq(ChunkType) /\ Len(new) = Len(s) + 1 /\ Ordered(new, first, end + Word(len))
  BY <1>1, <1>2, <1>3, ChunkBehind
<1> HIDE DEF new
<1>5. image' = [files |-> image.files, state |-> image.state, chunkbase |-> image.chunkbase + 8,
                filebase |-> end + Word(len), poduleromsize |-> end + Word(len), chunks |-> new]
  BY <1>0, <1>2 DEF Added, RomType, new
<1>6. /\ image'.files = image.files
      /\ image'.chunkbase = image.chunkbase + 8
      /\ image'.filebase = end + Word(len) /\ image'.poduleromsize = end + Word(len)
      /\ image'.chunks = new
  BY <1>5
<1>7. image' \in RomType
  <2>1. image.chunkbase \in Nat /\ image.state \in {"reading", "stopped", "podule"}
    BY <1>2 DEF RomType
  <2> QED BY <1>1, <1>2, <1>4, <1>5, <2>1 DEF RomType
<1>8. (end + Word(len)) % 4 = 0
  <2>1. ASSUME NEW a \in Nat, NEW b \in Nat, a % 4 = 0, b % 4 = 0 PROVE (a + b) % 4 = 0
    BY <2>1
  <2> QED BY <1>1, <1>2, <2>1
<1>9. Len(new) <= image.files + 1 /\ image.chunkbase + 8 = HeaderEnd + 8 * Len(new)
  BY <1>2, <1>4 DEF HeaderEnd
<1>10. first <= end + Word(len)
  BY <1>1, <1>2, <1>3
<1> QED BY <1>4, <1>6, <1>7, <1>8, <1>9, <1>10 DEF RomInv

LEMMA RomStep == RomInv /\ RomNext => RomInv'
<1> SUFFICES ASSUME RomInv, RomNext PROVE RomInv'
  OBVIOUS
<1>1. CASE AddFile
  BY <1>1, AddFileInv
<1>2. CASE LoseFile
  BY <1>2 DEF LoseFile, RomInv, RomType
<1>3. CASE RomDone
  BY <1>3 DEF RomDone, RomInv, RomType
<1>4. CASE UNCHANGED image
  BY <1>4 DEF RomInv
<1> QED BY <1>1, <1>2, <1>3, <1>4 DEF RomNext

LEMMA RomStart == RomInit => RomInv
<1> SUFFICES ASSUME NEW files \in 0 .. MaxRoms, image = Header(files) PROVE RomInv
  BY DEF RomInit
<1> DEFINE first == FirstFile(files)
           end == first + Word(Description)
           s == <<Chunk(first, Description)>>
<1>1. /\ files \in Nat /\ Description \in Nat
      /\ Word(Description) \in Nat /\ Word(Description) >= Description /\ Word(Description) % 4 = 0
  BY RomAssumption, WordUp
<1>2. first \in Nat /\ first % 4 = 0 /\ first >= 24
  BY <1>1 DEF FirstFile, HeaderEnd
<1>3. end \in Nat /\ end % 4 = 0 /\ first <= end
  <2>1. ASSUME NEW a \in Nat, NEW b \in Nat, a % 4 = 0, b % 4 = 0 PROVE (a + b) % 4 = 0
    BY <2>1
  <2> HIDE DEF first
  <2> QED BY <1>1, <1>2, <2>1
<1> HIDE DEF first
<1>4. s \in Seq(ChunkType) /\ Len(s) = 1 /\ Ordered(s, first, end)
  <2>1. Chunk(first, Description) \in ChunkType
    BY <1>1, <1>2 DEF Chunk, ChunkType
  <2>2. Len(s) = 1 /\ s[1] = Chunk(first, Description) /\ s \in Seq(ChunkType)
    BY <2>1
  <2>3. s[1].base = first /\ s[1].size = Description
    BY <2>2, RomAssumption DEF Chunk
  <2> HIDE DEF s
  <2> QED BY <1>1, <1>2, <2>2, <2>3 DEF Ordered
<1> HIDE DEF end, s
<1>5. image = [files |-> files, state |-> "reading", chunkbase |-> HeaderEnd + 8,
               filebase |-> end, poduleromsize |-> end, chunks |-> s]
  BY DEF Header, first, end, s
<1>6. image \in RomType
  BY <1>1, <1>3, <1>4, <1>5 DEF RomType, HeaderEnd
<1>7. /\ image.files = files /\ image.chunkbase = HeaderEnd + 8 /\ image.chunks = s
      /\ image.filebase = end /\ image.poduleromsize = end
  BY <1>5
<1>8. Ordered(image.chunks, FirstFile(image.files), image.filebase) /\ FirstFile(image.files) <= image.filebase
  BY <1>3, <1>4, <1>7 DEF first
<1>9. Len(image.chunks) <= image.files + 1 /\ image.chunkbase = HeaderEnd + 8 * Len(image.chunks)
  <2>1. Len(image.chunks) = 1
    BY <1>4, <1>7
  <2> QED BY <1>1, <1>7, <2>1 DEF HeaderEnd
<1>10. image.filebase = image.poduleromsize /\ image.filebase % 4 = 0
  BY <1>3, <1>7
<1> QED BY <1>6, <1>8, <1>9, <1>10 DEF RomInv

-----------------------------------------------------------------------------
(* The expansion cards. *)

LEMMA HandledInv ==
    ASSUME LinesInv, PodulesInv, NEW n \in 0 .. Slots - 1, NEW card \in CardType, Handled(n, card),
           status \cap {"PODULE", "PODULE_FIQ_AS_IRQ", "FIQ_PODULE"} = Wanted(podules)
    PROVE  /\ LinesInv' /\ podules' \in [0 .. Slots - 1 -> CardType]
           /\ status' \cap {"PODULE", "PODULE_FIQ_AS_IRQ", "FIQ_PODULE"} = Wanted(podules')
<1> DEFINE p == [podules EXCEPT ![n] = card]
           Three == {"PODULE", "PODULE_FIQ_AS_IRQ", "FIQ_PODULE"}
<1>1. podules' = p /\ p \in [0 .. Slots - 1 -> CardType] /\ DOMAIN p = DOMAIN podules
  BY DEF Handled, PodulesInv
<1>2. CASE card.irq # Card(n).irq \/ card.fiq # Card(n).fiq
  <2>1. rethinkpoduleints(p)
    BY <1>2 DEF Handled
  <2>2. /\ status' = (status \ Three) \cup Wanted(p) /\ mask' = mask
        /\ armirq' = Updated(status', mask, armirq)
    BY <2>1 DEF rethinkpoduleints, Update
  <2>3. Wanted(p) \subseteq Three /\ Three \subseteq Bits /\ Three \cap Forced = {}
    BY PodulesAssumption DEF Wanted, Forced
  <2>4. armirq' \subseteq {"irq", "fiq", "abort"}
    BY <2>2, UpdatedType
  <2> HIDE DEF Three, p
  <2>5. LinesInv'
    BY <2>2, <2>3, <2>4 DEF LinesInv
  <2>6. status' \cap Three = Wanted(p)
    BY <2>2, <2>3
  <2> QED BY <1>1, <2>5, <2>6 DEF Three
<1>3. CASE ~(card.irq # Card(n).irq \/ card.fiq # Card(n).fiq)
  <2>1. UNCHANGED lines
    BY <1>3 DEF Handled
  <2>2. \A m \in DOMAIN podules : p[m].irq = podules[m].irq /\ p[m].fiq = podules[m].fiq
    BY <1>3 DEF Card, PodulesInv
  <2>3. Wanted(p) = Wanted(podules)
    BY <1>1, <2>2 DEF Wanted
  <2>4. LinesInv'
    BY <2>1 DEF LinesInv, lines
  <2> QED BY <1>1, <2>1, <2>3, <2>4 DEF lines
<1> QED BY <1>2, <1>3

(* The cards: every step leaves the lines those of the single cards.       *)

LEMMA PodulesStep ==
    ASSUME LinesInv, PodulesInv, CardsAgree, PodulesNext
    PROVE  LinesInv' /\ PodulesInv' /\ CardsAgree'
<1> USE DEF CardsAgree, Lines3
<1>1. CASE addpodule
  <2>1. freepodule \in 0 .. Slots - 1 /\ freepodule' \in 0 .. Slots /\ UNCHANGED lines /\ running' = running
    BY <1>1, PodulesAssumption DEF addpodule, PodulesInv
  <2>2. PICK timer \in BOOLEAN : podules' = [podules EXCEPT ![freepodule].timer = timer]
    BY <1>1 DEF addpodule
  <2>3. podules' \in [0 .. Slots - 1 -> CardType] /\ PodulesInv'
    BY <2>1, <2>2 DEF PodulesInv, CardType
  <2>4. DOMAIN podules' = DOMAIN podules
        /\ \A m \in DOMAIN podules : podules'[m].irq = podules[m].irq /\ podules'[m].fiq = podules[m].fiq
    BY <2>1, <2>2 DEF PodulesInv, CardType
  <2>5. Wanted(podules') = Wanted(podules)
    BY <2>4 DEF Wanted
  <2> QED BY <2>1, <2>3, <2>5 DEF LinesInv, lines
<1>2. CASE access
  <2>1. PICK n \in 0 .. freepodule - 1, i \in BOOLEAN, f \in BOOLEAN, m \in {0} \cup Periods :
            Handled(n, [Card(n) EXCEPT !.irq = i, !.fiq = f, !.msectimer = IF Card(n).timer THEN m ELSE @])
    BY <1>2 DEF access
  <2>2. n \in 0 .. Slots - 1
    BY PodulesAssumption DEF PodulesInv
  <2>3. Card(n) \in CardType /\ m \in Int
    BY <2>2, PodulesAssumption DEF PodulesInv, Card
  <2>4. [Card(n) EXCEPT !.irq = i, !.fiq = f, !.msectimer = IF Card(n).timer THEN m ELSE @] \in CardType
    BY <2>3 DEF CardType
  <2>5. LinesInv' /\ podules' \in [0 .. Slots - 1 -> CardType] /\ CardsAgree'
    BY <2>1, <2>2, <2>4, HandledInv
  <2>6. UNCHANGED <<freepodule, running>>
    BY <1>2 DEF access
  <2> QED BY <2>5, <2>6 DEF PodulesInv
<1>3. CASE StartTimers
  BY <1>3, PodulesAssumption DEF StartTimers, PodulesInv, LinesInv, lines
<1>4. CASE CountTimer
  <2> DEFINE n == running.slot
  <2>1. n \in 0 .. Slots - 1 /\ n \in 1 .. Slots - 1 /\ UNCHANGED <<freepodule, lines>>
    BY <1>4, PodulesAssumption DEF CountTimer, PodulesInv
  <2>2. NextSlot \in [slot : 1 .. Slots, again : BOOLEAN] /\ [running EXCEPT !.again = TRUE] \in [slot : 1 .. Slots, again : BOOLEAN]
    <3>1. n + 1 \in 1 .. Slots /\ NextSlot = [slot |-> n + 1, again |-> FALSE]
      BY <2>1, PodulesAssumption DEF NextSlot
    <3>2. [running EXCEPT !.again = TRUE] \in [slot : 1 .. Slots, again : BOOLEAN]
      BY DEF PodulesInv
    <3> HIDE DEF n
    <3> QED BY <3>1, <3>2
  <2>3. running' \in [slot : 1 .. Slots, again : BOOLEAN]
    BY <1>4, <2>2 DEF CountTimer
  <2>4. podules' = podules \/ podules' = [podules EXCEPT ![n].msectimer = @ - Elapsed]
    BY <1>4 DEF CountTimer
  <2> DEFINE k == podules[n]
             c == [timer |-> k.timer, irq |-> k.irq, fiq |-> k.fiq, msectimer |-> k.msectimer - Elapsed]
  <2>8. k \in CardType /\ c \in CardType
    <3>1. k \in CardType
      BY <2>1 DEF PodulesInv
    <3> HIDE DEF k
    <3>2. k.msectimer - Elapsed \in Int
      BY <3>1, PodulesAssumption DEF CardType
    <3> QED BY <3>1, <3>2 DEF CardType
  <2>9. [k EXCEPT !.msectimer = k.msectimer - Elapsed] = c
    BY <2>8 DEF CardType
  <2>10. podules' = podules \/ podules' = [podules EXCEPT ![n] = c]
    BY <2>4, <2>9
  <2>11. c.irq = podules[n].irq /\ c.fiq = podules[n].fiq
    OBVIOUS
  <2> HIDE DEF c, n
  <2>5. podules' \in [0 .. Slots - 1 -> CardType]
    BY <2>1, <2>8, <2>10 DEF PodulesInv
  <2>6. DOMAIN podules' = DOMAIN podules
        /\ \A m \in DOMAIN podules : podules'[m].irq = podules[m].irq /\ podules'[m].fiq = podules[m].fiq
    BY <2>1, <2>10, <2>11 DEF PodulesInv
  <2>7. Wanted(podules') = Wanted(podules)
    BY <2>6 DEF Wanted
  <2> QED BY <2>1, <2>3, <2>5, <2>7 DEF PodulesInv, LinesInv, lines
<1>5. CASE CallTimer
  <2> DEFINE n == running.slot
  <2>1. n \in 0 .. Slots - 1 /\ n \in 1 .. Slots - 1 /\ UNCHANGED freepodule
    BY <1>5, PodulesAssumption DEF CallTimer, PodulesInv
  <2>2. PICK d \in {0} \cup Periods, i \in BOOLEAN, f \in BOOLEAN :
            /\ Handled(n, [Card(n) EXCEPT !.irq = i, !.fiq = f, !.msectimer = IF d = 0 THEN 0 ELSE @ + d])
            /\ running' = IF d = 0 THEN NextSlot ELSE running
    BY <1>5 DEF CallTimer
  <2>3. Card(n) \in CardType /\ d \in Int
    BY <2>1, PodulesAssumption DEF PodulesInv, Card
  <2>4. [Card(n) EXCEPT !.irq = i, !.fiq = f, !.msectimer = IF d = 0 THEN 0 ELSE @ + d] \in CardType
    <3> DEFINE k == Card(n)
               v == IF d = 0 THEN 0 ELSE k.msectimer + d
    <3>1. k \in CardType /\ v \in Int
      BY <2>3 DEF CardType
    <3>3. [k EXCEPT !.irq = i, !.fiq = f, !.msectimer = v] \in CardType
      <4> HIDE DEF k, v
      <4> QED BY <3>1 DEF CardType
    <3> QED BY <3>3
  <2>5. LinesInv' /\ podules' \in [0 .. Slots - 1 -> CardType] /\ CardsAgree'
    BY <2>1, <2>2, <2>4, HandledInv
  <2>6. running' \in [slot : 1 .. Slots, again : BOOLEAN]
    BY <2>1, <2>2, PodulesAssumption DEF NextSlot, PodulesInv
  <2> QED BY <2>1, <2>5, <2>6 DEF PodulesInv
<1>6. CASE DoneTimer
  BY <1>6, PodulesAssumption DEF DoneTimer, NextSlot, PodulesInv, LinesInv, lines
<1>7. CASE podules_reset
  <2>1. Empty \in CardType /\ ~Empty.irq /\ ~Empty.fiq
    BY DEF Empty, CardType
  <2>2. /\ podules' = [n \in 0 .. Slots - 1 |-> Empty] /\ freepodule' = 0 /\ running' = running
        /\ status' = Forced /\ mask' = {} /\ armirq' = armirq
    BY <1>7 DEF podules_reset
  <2>3. Wanted(podules') = {}
    BY <2>1, <2>2 DEF Wanted
  <2>4. Forced \cap Lines3 = {}
    BY DEF Forced
  <2> QED BY <2>1, <2>2, <2>3, <2>4, ForcedBits, PodulesAssumption DEF PodulesInv, LinesInv
<1>8. CASE GuestMask
  <2>1. UNCHANGED <<status, pvars>> /\ mask' \subseteq Bits
    BY <1>8 DEF GuestMask, Of, LinesInv
  <2>2. armirq' \subseteq {"irq", "fiq", "abort"}
    BY <1>8, UpdatedType DEF GuestMask
  <2> QED BY <2>1, <2>2 DEF PodulesInv, LinesInv, pvars
<1> QED BY <1>1, <1>2, <1>3, <1>4, <1>5, <1>6, <1>7, <1>8 DEF PodulesNext, runpoduletimers

-----------------------------------------------------------------------------
(* The timers and the two threads. *)

LEMMA NewSeen ==
    ASSUME NEW r \in ThreadType, NEW p \in {"while", "raise"}, NEW s \in Int, NEW b \in SUBSET Bits
    PROVE  /\ [r EXCEPT !.pc = p, !.seen = s] \in ThreadType
           /\ [r EXCEPT !.pc = p, !.seen = s, !.bits = b] \in ThreadType
BY DEF ThreadType

LEMMA ThreadStepInv ==
    ASSUME LinesInv, TimersInv, NEW th \in Names, ThreadStep(th)
    PROVE  LinesInv' /\ TimersInv'
<1> DEFINE r == threads[th]
<1>1. r \in ThreadType /\ Carries(r) /\ Floor \in Int /\ Tick \in Nat
  BY TickAssumption DEF TimersInv
<1>2. CASE SubLoad(th)
  <2>1. threads' = [threads EXCEPT ![th] = [r EXCEPT !.pc = "subtract", !.seen = counter[r.timer]]]
        /\ r.pc = "sub" /\ UNCHANGED <<counter, latch, lines>>
    BY <1>2 DEF SubLoad, At, TimersInv, ThreadType
  <2>2. r.timer \in Timers /\ counter[r.timer] \in Int
    BY <1>1, <2>1 DEF Carries, TimersInv
  <2> DEFINE n == [r EXCEPT !.pc = "subtract", !.seen = counter[r.timer]]
  <2>3. n \in ThreadType /\ Carries(n)
    BY <1>1, <2>2 DEF ThreadType, Carries
  <2> HIDE DEF n
  <2> QED BY <2>1, <2>3, OneThread DEF TimersInv, LinesInv, lines, n
<1>3. CASE SubStore(th)
  <2>1. threads' = [threads EXCEPT ![th] = [r EXCEPT !.pc = "while", !.seen = 0]]
        /\ r.pc = "subtract" /\ UNCHANGED <<latch, lines>>
    BY <1>3 DEF SubStore, At, TimersInv, ThreadType
  <2>2. r.timer \in Timers /\ r.seen \in Int
    BY <1>1, <2>1 DEF Carries, ThreadType
  <2> DEFINE n == [r EXCEPT !.pc = "while", !.seen = 0]
             v == IF r.seen - Tick < Floor THEN Floor ELSE r.seen - Tick
  <2>3. n \in ThreadType /\ Carries(n)
    <3> DEFINE z == 0
    <3>0. z \in Int /\ n = [r EXCEPT !.pc = "while", !.seen = z]
      OBVIOUS
    <3> HIDE DEF r, v, n, z
    <3>1. n \in ThreadType
      BY <1>1, <3>0, NewSeen
    <3>2. n.pc = "while" /\ n.timer = r.timer
      BY <1>1, <3>0 DEF ThreadType
    <3> QED BY <2>2, <3>1, <3>2 DEF Carries
  <2>4. counter' = [counter EXCEPT ![r.timer] = v]
    BY <1>3 DEF SubStore
  <2>5. v \in Int /\ v >= Floor
    BY <1>1, <2>2
  <2> HIDE DEF v, n
  <2>6. counter' \in [Timers -> Int] /\ \A t \in Timers : counter'[t] >= Floor
    BY <2>2, <2>4, <2>5 DEF TimersInv
  <2> QED BY <2>1, <2>3, <2>6, OneThread DEF TimersInv, LinesInv, lines, n
<1>4. CASE While(th)
  <2>1. UNCHANGED <<counter, latch, lines>> /\ r.pc = "while" /\ r.timer \in Timers
    BY <1>1, <1>4 DEF While, At, Carries
  <2> DEFINE t == r.timer
             n == [r EXCEPT !.pc = "add", !.seen = counter[t]]
             u == NextTimer(t)
             m == [AtRest EXCEPT !.timer = u, !.pc = IF u = "none" THEN "idle" ELSE "sub"]
  <2>2. threads' = [threads EXCEPT ![th] = n] \/ threads' = [threads EXCEPT ![th] = m]
    BY <1>4 DEF While, TimersInv, ThreadType
  <2>3. n \in ThreadType /\ Carries(n)
    <3>1. counter[t] \in Int /\ counter[t] >= Floor
      BY <2>1 DEF TimersInv
    <3> QED BY <1>1, <2>1, <3>1 DEF ThreadType, Carries
  <2>4. m \in ThreadType /\ Carries(m)
    <3>1. u \in Timers \cup {"none"}
      BY <2>1, NextTimerType
    <3> HIDE DEF u
    <3>2. AtRest \in ThreadType
      BY DEF ThreadType, AtRest, Words16
    <3> DEFINE p == IF u = "none" THEN "idle" ELSE "sub"
    <3>3. p \in {"idle", "sub"} /\ (p = "sub" => u \in Timers)
      BY <3>1
    <3> HIDE DEF p
    <3>4. [AtRest EXCEPT !.timer = u, !.pc = p] \in ThreadType
      BY <3>1, <3>2, <3>3 DEF ThreadType
    <3>5. /\ [AtRest EXCEPT !.timer = u, !.pc = p].pc = p
          /\ [AtRest EXCEPT !.timer = u, !.pc = p].timer = u
      BY <3>2 DEF ThreadType
    <3>6. m = [AtRest EXCEPT !.timer = u, !.pc = p]
      BY DEF p
    <3> HIDE DEF m
    <3> QED BY <3>3, <3>4, <3>5, <3>6 DEF Carries
  <2> HIDE DEF n, m
  <2>5. threads' \in [Names -> ThreadType] /\ \A w \in Names : Carries(threads[w])'
    BY <2>2, <2>3, <2>4, OneThread
  <2> QED BY <2>1, <2>5 DEF TimersInv, LinesInv, lines
<1>5. CASE AddStore(th)
  <2> DEFINE t == r.timer
             n == [r EXCEPT !.pc = "raise", !.seen = 0, !.bits = {t}]
  <2>1. /\ threads' = [threads EXCEPT ![th] = n] /\ counter' = [counter EXCEPT ![t] = r.seen + latch[t]]
        /\ r.pc = "add" /\ UNCHANGED <<latch, lines>>
    BY <1>5 DEF AddStore, At, TimersInv, ThreadType
  <2>2. t \in Timers /\ r.seen \in Int /\ r.seen >= Floor /\ latch[t] \in Nat
    BY <1>1, <2>1, TimerAssumption DEF Carries, ThreadType, TimersInv
  <2>3. n \in ThreadType /\ Carries(n)
    <3>1. {t} \in SUBSET Bits
      BY <2>2, ForcedBits
    <3> DEFINE z == 0
               b == {t}
    <3>0. z \in Int /\ b \in SUBSET Bits /\ n = [r EXCEPT !.pc = "raise", !.seen = z, !.bits = b]
      BY <3>1
    <3> HIDE DEF r, n, z, b
    <3>2. n \in ThreadType
      BY <1>1, <3>0, NewSeen
    <3>3. n.pc = "raise"
      BY <1>1, <3>0 DEF ThreadType
    <3> QED BY <3>2, <3>3 DEF Carries
  <2>4. r.seen + latch[t] \in Int /\ r.seen + latch[t] >= Floor
    BY <1>1, <2>2
  <2>5. counter' \in [Timers -> Int] /\ \A w \in Timers : counter'[w] >= Floor
    BY <2>1, <2>2, <2>4 DEF TimersInv
  <2> HIDE DEF n
  <2> QED BY <2>1, <2>3, <2>5, OneThread DEF TimersInv, LinesInv, lines, n
<1>6. CASE StatusLoad(th)
  <2> DEFINE n == [r EXCEPT !.pc = IF r.pc = "raise" THEN "raised" ELSE "cleared", !.word = status \cap Of("A")]
  <2>1. threads' = [threads EXCEPT ![th] = n] /\ r.pc \in {"raise", "clear"} /\ UNCHANGED <<counter, latch, lines>>
    BY <1>6 DEF StatusLoad, At, TimersInv, ThreadType
  <2>2. status \cap Of("A") \subseteq Bits /\ Forced \cap Of("A") \subseteq status \cap Of("A")
    BY DEF LinesInv
  <2>3. n \in ThreadType /\ Carries(n)
    BY <1>1, <2>2 DEF ThreadType, Carries, Words16
  <2> HIDE DEF n
  <2> QED BY <2>1, <2>3, OneThread DEF TimersInv, LinesInv, lines
<1>7. CASE StatusStore(th)
  <2> DEFINE n == [r EXCEPT !.pc = "irq", !.word = {}, !.bits = {}]
             word == IF r.pc = "raised" THEN r.word \cup r.bits ELSE (r.word \ r.bits) \cup (Forced \cap Of("A"))
  <2>1. /\ threads' = [threads EXCEPT ![th] = n] /\ r.pc \in {"raised", "cleared"}
        /\ UNCHANGED <<mask, armirq, counter, latch>>
    BY <1>7 DEF StatusStore, At, TimersInv, ThreadType
  <2>2. status' = (status \ Of("A")) \cup word
    BY <1>7 DEF StatusStore
  <2>3. Forced \cap Of("A") \subseteq word /\ word \subseteq Bits
    BY <1>1, <2>1, ForcedBits DEF Carries, ThreadType
  <2> HIDE DEF word
  <2>4. LinesInv'
    BY <2>1, <2>2, <2>3 DEF LinesInv
  <2>5. n \in ThreadType /\ Carries(n)
    BY <1>1 DEF ThreadType, Carries, Words16
  <2> HIDE DEF n
  <2> QED BY <2>1, <2>4, <2>5, OneThread DEF TimersInv
<1>8. CASE UpdateLoad(th)
  <2>1. PICK line \in {"irq", "fiq"} :
            /\ At(th, line)
            /\ threads' = [threads EXCEPT ![th].pc = IF line = "irq" THEN "irqstore" ELSE "fiqstore",
                     ![th].word = IF Pending(line) THEN armirq \cup {line} ELSE armirq \ {line}]
    BY <1>8 DEF UpdateLoad
  <2> DEFINE w == IF Pending(line) THEN armirq \cup {line} ELSE armirq \ {line}
             n == [r EXCEPT !.pc = IF line = "irq" THEN "irqstore" ELSE "fiqstore", !.word = w]
  <2>2. threads' = [threads EXCEPT ![th] = n] /\ UNCHANGED <<counter, latch, lines>>
    BY <1>8, <2>1 DEF UpdateLoad, TimersInv, ThreadType
  <2>3. w \subseteq {"irq", "fiq", "abort"}
    BY DEF LinesInv
  <2> HIDE DEF w
  <2>4. n \in ThreadType /\ Carries(n)
    BY <1>1, <2>3 DEF ThreadType, Carries, Words16
  <2> HIDE DEF n
  <2> QED BY <2>2, <2>4, OneThread DEF TimersInv, LinesInv, lines
<1>9. CASE UpdateStore(th)
  <2> DEFINE p == IF r.pc = "irqstore" THEN "fiq" ELSE IF r.timer = "none" THEN "idle" ELSE "while"
             n == [r EXCEPT !.word = {}, !.pc = p]
  <2>1. /\ threads' = [threads EXCEPT ![th] = n] /\ r.pc \in {"irqstore", "fiqstore"} /\ armirq' = r.word
        /\ UNCHANGED <<status, mask, counter, latch>>
    BY <1>9 DEF UpdateStore, At, TimersInv, ThreadType
  <2>2. LinesInv'
    BY <1>1, <2>1 DEF LinesInv, Carries
  <2>3. n \in ThreadType /\ Carries(n)
    BY <1>1, TimerAssumption DEF ThreadType, Carries, Words16
  <2> HIDE DEF n
  <2> QED BY <2>1, <2>2, <2>3, OneThread DEF TimersInv
<1> QED BY <1>2, <1>3, <1>4, <1>5, <1>6, <1>7, <1>8, <1>9 DEF ThreadStep

LEMMA GotoInv ==
    ASSUME TimersInv, NEW th \in Names, NEW p \in {"idle", "sub", "clear", "raise", "irq", "abort"},
           NEW t \in Timers, NEW w, w \subseteq {"irq", "fiq", "abort"}, NEW b \in SUBSET Bits
    PROVE  LET r == threads[th] IN
           /\ p \notin {"sub", "abort"} =>
                 /\ [r EXCEPT !.pc = p] \in ThreadType /\ Carries([r EXCEPT !.pc = p])
                 /\ [r EXCEPT !.pc = p, !.bits = b] \in ThreadType /\ Carries([r EXCEPT !.pc = p, !.bits = b])
           /\ p = "sub" => [r EXCEPT !.pc = p, !.timer = t] \in ThreadType /\ Carries([r EXCEPT !.pc = p, !.timer = t])
           /\ p = "abort" => [r EXCEPT !.pc = p, !.word = w] \in ThreadType /\ Carries([r EXCEPT !.pc = p, !.word = w])
<1>1. threads[th] \in ThreadType
  BY DEF TimersInv
<1> QED BY <1>1 DEF ThreadType, Carries, Words16

LEMMA RestType == AtRest \in ThreadType /\ Carries(AtRest)
BY DEF AtRest, ThreadType, Carries, Words16

(* The counters after the guest wrote or read a timer.                     *)
LEMMA CounterSet ==
    ASSUME TimersInv, NEW t \in Timers, NEW v \in Int, v >= Floor, counter' = [counter EXCEPT ![t] = v]
    PROVE  counter' \in [Timers -> Int] /\ \A u \in Timers : counter'[u] >= Floor
BY TickAssumption DEF TimersInv

LEMMA LatchNat == ASSUME TimersInv, NEW t \in Timers PROVE latch[t] \in Nat
<1>1. latch[t] \in Latches \cup {1}
  BY DEF TimersInv
<1>2. Latches \subseteq Nat
  BY TimerAssumption
<1>3. CASE latch[t] = 1
  BY <1>3
<1>4. CASE latch[t] \in Latches
  BY <1>2, <1>4
<1> QED BY <1>1, <1>3, <1>4

LEMMA IomdStep ==
    ASSUME LinesInv, TimersInv, IomdNext
    PROVE  LinesInv' /\ TimersInv'
<1> DEFINE r == threads["machine"]
           m == "machine"
<1>0. m \in Names /\ r \in ThreadType /\ Carries(r) /\ threads \in [Names -> ThreadType]
  BY DEF Names, TimersInv
<1>1. ASSUME NEW th \in Names, ThreadStep(th) PROVE LinesInv' /\ TimersInv'
  BY <1>1, ThreadStepInv
<1>2. ASSUME NEW th \in Names, gentimerirq(th) PROVE LinesInv' /\ TimersInv'
  <2> DEFINE n == [threads[th] EXCEPT !.pc = "sub", !.timer = NextTimer("none")]
  <2>1. threads' = [threads EXCEPT ![th] = n] /\ UNCHANGED <<counter, latch, lines>>
    BY <1>2, <1>0 DEF gentimerirq, ThreadType
  <2>2. n \in ThreadType /\ Carries(n)
    BY GotoInv, FirstTimer
  <2> HIDE DEF n
  <2> QED BY <2>1, <2>2, OneThread DEF TimersInv, LinesInv, lines
<1>3. CASE AbortStore
  <2>1. /\ threads' = [threads EXCEPT ![m] = AtRest] /\ r.pc = "abort" /\ armirq' = r.word
        /\ UNCHANGED <<status, mask, counter, latch>>
    BY <1>3 DEF AbortStore, At
  <2>2. LinesInv'
    BY <1>0, <2>1 DEF LinesInv, Carries
  <2> QED BY <1>0, <2>1, <2>2, OneThread, RestType DEF TimersInv
<1>4. CASE EndOfInstruction \/ Abort
  <2>1. UNCHANGED <<counter, latch, lines>>
    BY <1>4 DEF EndOfInstruction, Abort
  <2>2. CASE UNCHANGED threads
    BY <2>1, <2>2 DEF TimersInv, LinesInv, lines, Carries
  <2>3. ASSUME NEW w, w \subseteq {"irq", "fiq", "abort"},
               threads' = [threads EXCEPT ![m] = [r EXCEPT !.pc = "abort", !.word = w]]
        PROVE  LinesInv' /\ TimersInv'
    <3> DEFINE n == [r EXCEPT !.pc = "abort", !.word = w]
    <3>1. n \in ThreadType /\ Carries(n)
      BY <1>0, <2>3, GotoInv, TimerAssumption
    <3> HIDE DEF n
    <3> QED BY <1>0, <2>1, <2>3, <3>1, OneThread DEF TimersInv, LinesInv, lines, n
  <2>4. CASE EndOfInstruction
    <3>1. \/ UNCHANGED threads
          \/ threads' = [threads EXCEPT ![m] = [r EXCEPT !.pc = "abort", !.word = armirq \ {"abort"}]]
      BY <1>0, <2>4 DEF EndOfInstruction, ThreadType
    <3>2. armirq \ {"abort"} \subseteq {"irq", "fiq", "abort"}
      BY DEF LinesInv
    <3> QED BY <2>2, <2>3, <3>1, <3>2
  <2>5. CASE Abort
    <3>1. threads' = [threads EXCEPT ![m] = [r EXCEPT !.pc = "abort", !.word = armirq \cup {"abort"}]]
      BY <1>0, <2>5 DEF Abort, ThreadType
    <3>2. armirq \cup {"abort"} \subseteq {"irq", "fiq", "abort"}
      BY DEF LinesInv
    <3> QED BY <2>3, <3>1, <3>2
  <2> QED BY <1>4, <2>4, <2>5
<1>5. CASE WriteIrqRqA
  <2>1. PICK bits \in SUBSET ((Timers \cup Asking) \cap Of("A")) :
            threads' = [threads EXCEPT ![m] = [r EXCEPT !.pc = "clear", !.bits = bits]]
    BY <1>0, <1>5 DEF WriteIrqRqA, ThreadType
  <2>2. bits \in SUBSET Bits /\ UNCHANGED <<counter, latch, lines>>
    BY <1>5 DEF WriteIrqRqA, Of
  <2> DEFINE n == [r EXCEPT !.pc = "clear", !.bits = bits]
  <2>3. n \in ThreadType /\ Carries(n)
    BY <1>0, <2>2, GotoInv, TimerAssumption
  <2> HIDE DEF n
  <2> QED BY <1>0, <2>1, <2>2, <2>3, OneThread DEF TimersInv, LinesInv, lines, n
<1>6. CASE WriteMask
  <2>1. PICK g \in {"A", "B", "D", "DMA", "FIQ"}, bits \in SUBSET (Timers \cup Asking) :
            /\ bits \subseteq Of(g) /\ mask' = (mask \ Of(g)) \cup bits
            /\ Goto("machine", IF g \in {"A", "B"} THEN "irq" ELSE "idle")
    BY <1>6 DEF WriteMask
  <2>2. PICK p \in {"irq", "idle"} : threads' = [threads EXCEPT ![m] = [r EXCEPT !.pc = p]]
    BY <1>0, <2>1 DEF Goto, ThreadType
  <2>3. UNCHANGED <<status, armirq, counter, latch>> /\ mask' \subseteq Bits
    BY <1>6, <2>1 DEF WriteMask, Of, LinesInv
  <2> DEFINE n == [r EXCEPT !.pc = p]
  <2>4. n \in ThreadType /\ Carries(n)
    BY <1>0, GotoInv, TimerAssumption
  <2> HIDE DEF n
  <2> QED BY <1>0, <2>2, <2>3, <2>4, OneThread DEF TimersInv, LinesInv, n
<1>7. CASE Device
  <2>1. PICK b \in Asking :
            IF b \in Of("A")
            THEN /\ threads' = [threads EXCEPT !["machine"].pc = "raise", !["machine"].bits = {b}]
                 /\ UNCHANGED status
            ELSE /\ status' \in {status \cup {b}, (status \ {b}) \cup Forced}
                 /\ Goto("machine", "irq")
    BY <1>7 DEF Device
  <2>2. UNCHANGED <<mask, armirq, counter, latch>> /\ b \in Bits
    BY <1>7, TimerAssumption DEF Device
  <2>3. LinesInv'
    BY <2>1, <2>2, ForcedBits DEF LinesInv
  <2> DEFINE n == [r EXCEPT !.pc = "irq"]
             k == [r EXCEPT !.pc = "raise", !.bits = {b}]
  <2>4. threads' = [threads EXCEPT ![m] = n] \/ threads' = [threads EXCEPT ![m] = k]
    BY <1>0, <2>1 DEF Goto, ThreadType
  <2>5. n \in ThreadType /\ Carries(n)
    BY <1>0, GotoInv, TimerAssumption
  <2>6. k \in ThreadType /\ Carries(k)
    <3>1. {b} \in SUBSET Bits
      BY <2>2
    <3> QED BY <1>0, <3>1, GotoInv, TimerAssumption
  <2> HIDE DEF n, k
  <2>7. threads' \in [Names -> ThreadType] /\ \A u \in Names : Carries(threads[u])'
    BY <1>0, <2>4, <2>5, <2>6, OneThread
  <2> QED BY <2>2, <2>3, <2>7 DEF TimersInv
<1>8. CASE WriteLatch
  <2>1. latch' \in [Timers -> Latches \cup {1}] /\ UNCHANGED <<counter, threads, lines>>
    BY <1>8 DEF WriteLatch, TimersInv
  <2> QED BY <2>1 DEF TimersInv, LinesInv, lines, Carries
<1>9. CASE WriteGo
  <2>1. PICK t \in Timers : counter' = [counter EXCEPT ![t] = latch[t] - 1]
    BY <1>9 DEF WriteGo
  <2>2. latch[t] - 1 \in Int /\ latch[t] - 1 >= Floor
    <3>1. latch[t] \in Nat
      BY LatchNat
    <3>2. Tick \in Nat /\ Tick >= 1 /\ Floor \in Int /\ Floor < -Tick
      BY TickAssumption
    <3> QED BY <3>1, <3>2
  <2>3. UNCHANGED <<latch, threads, lines>>
    BY <1>9 DEF WriteGo
  <2>4. counter' \in [Timers -> Int] /\ \A u \in Timers : counter'[u] >= Floor
    BY <2>1, <2>2, CounterSet
  <2> QED BY <2>3, <2>4 DEF TimersInv, LinesInv, lines, Carries
<1>10. CASE WriteLat
  <2>1. PICK t \in Timers :
            counter' = [counter EXCEPT ![t] = IF counter[t] - 1 < Floor THEN Floor
                          ELSE IF counter[t] - 1 < 0 THEN counter[t] - 1 + latch[t] ELSE counter[t] - 1]
    BY <1>10 DEF WriteLat
  <2> DEFINE v == IF counter[t] - 1 < Floor THEN Floor
                  ELSE IF counter[t] - 1 < 0 THEN counter[t] - 1 + latch[t] ELSE counter[t] - 1
  <2>2. v \in Int /\ v >= Floor
    <3>1. latch[t] \in Nat
      BY LatchNat
    <3>2. counter[t] \in Int /\ Floor \in Int
      BY TickAssumption DEF TimersInv
    <3>3. Floor <= 0
      BY TickAssumption
    <3> QED BY <3>1, <3>2, <3>3
  <2>3. UNCHANGED <<latch, threads, lines>>
    BY <1>10 DEF WriteLat
  <2> HIDE DEF v
  <2>4. counter' \in [Timers -> Int] /\ \A u \in Timers : counter'[u] >= Floor
    BY <2>1, <2>2, CounterSet DEF v
  <2> QED BY <2>3, <2>4 DEF TimersInv, LinesInv, lines, Carries
<1>11. "video" \in Names
  BY DEF Names
<1> QED BY <1>0, <1>1, <1>2, <1>3, <1>4, <1>5, <1>6, <1>7, <1>8, <1>9, <1>10, <1>11
        DEF IomdNext, MachineNext, VideoNext

-----------------------------------------------------------------------------
(* The Super I/O chip. *)

GpType == [{"c", "d", "e", "f"} -> SUBSET Sources]
KbcType == [command : {"none", "WRITE_MODE", "WRITE_MOUSE"},
            mode : SUBSET {"DISABLE_KBD", "DISABLE_MOUSE"}, irq_kbd : BOOLEAN, irq_mouse : BOOLEAN]
PortType == [mode : {"normal", "intermediate", "configuration"}, reg : {"c", "d", "plain"}]

LEMMA UpdateInv ==
    ASSUME LinesInv, NEW s, Update(s), Forced \subseteq s, s \subseteq Bits
    PROVE  LinesInv'
BY UpdatedType DEF LinesInv, Update

LEMMA SmiInv ==
    ASSUME LinesInv, NEW g, smi_update(g)
    PROVE  LinesInv' /\ gp' = g
<1> DEFINE s == (status \ {"SMI"}) \cup
              {b \in {"SMI"} : g["e"] \cap g["c"] # {} \/ g["f"] \cap g["d"] # {}}
<1>1. Forced \subseteq s /\ s \subseteq Bits
  BY SuperAssumption DEF LinesInv, Forced
<1>2. Update(s) /\ gp' = g
  BY DEF smi_update
<1> HIDE DEF s
<1> QED BY <1>1, <1>2, UpdateInv

LEMMA AskedType == ASSUME NEW k PROVE Asked(k) \subseteq Sources
BY DEF Asked, Sources

(* What a byte that comes or goes changes.                                 *)
LEMMA IrqUpdateInv ==
    ASSUME LinesInv, SuperInv, NEW k \in KbcType, irq_update(k), Elsewhere
    PROVE  LinesInv' /\ SuperInv'
<1>1. LinesInv' /\ gp' = [gp EXCEPT !["f"] = Asked(k)] /\ i8042' = k
  BY SmiInv DEF irq_update
<1>2. gp' \in GpType
  BY <1>1, AskedType DEF SuperInv, GpType
<1> QED BY <1>1, <1>2 DEF SuperInv, Elsewhere, GpType, KbcType

LEMMA PortInv ==
    ASSUME SuperInv, Port, gp' \in GpType, gp_index' \in {"c", "d", "e", "f"}, i8042' \in KbcType
    PROVE  SuperInv'
<1>1. /\ config' = [config EXCEPT !.mode = "normal"] /\ UNCHANGED super
  BY DEF Port, Closed
<1>2. config' \in PortType /\ config'.mode = "normal"
  BY <1>1 DEF SuperInv, PortType
<1> QED BY <1>1, <1>2 DEF SuperInv, GpType, KbcType, PortType

LEMMA SuperStep ==
    ASSUME LinesInv, SuperInv, SuperNext
    PROVE  LinesInv' /\ SuperInv'
<1>0. gp \in GpType /\ i8042 \in KbcType /\ config \in PortType /\ gp_index \in {"c", "d", "e", "f"}
  BY DEF SuperInv, GpType, KbcType, PortType
<1>1. CASE Knock
  <2>1. UNCHANGED <<super, gp, gp_index, i8042, lines>> /\ last' = "key"
    BY <1>1 DEF Knock
  <2>2. config' \in PortType
    BY <1>0, <1>1 DEF Knock, PortType
  <2> QED BY <2>1, <2>2 DEF SuperInv, LinesInv, lines, PortType
<1>2. CASE Select
  <2>1. UNCHANGED <<super, gp, gp_index, i8042, lines>> /\ config.mode = "configuration"
    BY <1>2 DEF Select
  <2>2. \/ config' = Closed
        \/ \E c \in {"c", "d", "plain"} : config' = [config EXCEPT !.reg = c]
    BY <1>2, SuperAssumption DEF Select
  <2>3. config' \in PortType /\ config'.mode \in {"normal", "configuration"}
    BY <1>0, <2>1, <2>2 DEF Closed, PortType
  <2> QED BY <2>1, <2>3 DEF SuperInv, LinesInv, lines, PortType
<1>3. CASE config_reg_write
  <2>1. UNCHANGED <<super, config, gp_index, i8042, lines>> /\ config.mode = "configuration"
    BY <1>3 DEF config_reg_write
  <2>2. PICK v \in {{}, Sources} : gp' = IF config.reg = "plain" THEN gp ELSE [gp EXCEPT ![config.reg] = v]
    BY <1>3 DEF config_reg_write
  <2>3. gp' \in GpType
    BY <1>0, <2>2 DEF GpType, PortType
  <2> QED BY <2>1, <2>3 DEF SuperInv, LinesInv, lines, GpType
<1>4. CASE Port672
  <2>1. Port /\ UNCHANGED lines
    BY <1>4 DEF Port672
  <2>2. CASE \E mode \in SUBSET {"DISABLE_KBD", "DISABLE_MOUSE"} :
                data_write(mode) /\ UNCHANGED <<gp, gp_index>>
    <3>1. i8042' \in KbcType
      BY <1>0, <2>2 DEF data_write, KbcType
    <3> QED BY <1>0, <2>1, <2>2, <3>1, PortInv DEF LinesInv, lines
  <2>3. CASE command_write /\ UNCHANGED <<gp, gp_index>>
    <3>1. i8042' \in KbcType
      BY <1>0, <2>3 DEF command_write, KbcType
    <3> QED BY <1>0, <2>1, <2>3, <3>1, PortInv DEF LinesInv, lines
  <2>4. CASE UNCHANGED <<i8042, gp, gp_index>>
    BY <1>0, <2>1, <2>4, PortInv DEF LinesInv, lines
  <2>5. CASE (\E i \in GpIndexes : gp_index' = i) /\ UNCHANGED <<i8042, gp>>
    BY <1>0, <2>1, <2>5, SuperAssumption, PortInv DEF LinesInv, lines
  <2>6. CASE (\E v \in {{}, Sources} : gp' = [gp EXCEPT ![gp_index] = v]) /\ UNCHANGED <<i8042, gp_index>>
    <3>1. gp' \in GpType
      BY <1>0, <2>6 DEF GpType
    <3> QED BY <1>0, <2>1, <2>6, <3>1, PortInv DEF LinesInv, lines
  <2> QED BY <1>4, <2>2, <2>3, <2>4, <2>5, <2>6 DEF Port672
<1>5. CASE Parallel
  <2>1. Port /\ UNCHANGED <<gp, gp_index, i8042>>
    BY <1>5 DEF Parallel
  <2>2. Update(status \cup {"PARALLEL"}) \/ UNCHANGED lines
    BY <1>5 DEF Parallel
  <2>3. LinesInv'
    BY <2>2, SuperAssumption, UpdateInv DEF LinesInv, lines
  <2> QED BY <1>0, <2>1, <2>3, PortInv
<1>6. CASE Serial
  <2>1. Port /\ UNCHANGED <<gp, gp_index, i8042>>
    BY <1>6 DEF Serial
  <2>2. Update(status \cup {"SERIAL"}) \/ UNCHANGED lines
    BY <1>6 DEF Serial
  <2>3. LinesInv'
    BY <2>2, SuperAssumption, UpdateInv DEF LinesInv, lines
  <2> QED BY <1>0, <2>1, <2>3, PortInv
<1>7. CASE SerialRead
  <2>1. LinesInv'
    BY <1>7, UpdateInv DEF SerialRead, LinesInv, Forced
  <2> QED BY <1>7, <2>1 DEF SerialRead, SuperInv, svars
<1>8. CASE GuestIomd
  <2>1. UNCHANGED svars
    BY <1>8 DEF GuestIomd
  <2>2. CASE Update(status \ {"SMI"})
    BY <2>1, <2>2, UpdateInv DEF LinesInv, Forced, SuperInv, svars
  <2>3. CASE \E on \in BOOLEAN : /\ mask' = IF on THEN mask \cup {"SMI"} ELSE mask \ {"SMI"}
                                 /\ armirq' = Updated(status, mask', armirq) /\ UNCHANGED status
    <3>1. armirq' \subseteq {"irq", "fiq", "abort"}
      BY <2>3, UpdatedType
    <3>2. mask' \subseteq Bits
      BY <2>3, SuperAssumption DEF LinesInv
    <3> QED BY <2>1, <2>3, <3>1, <3>2 DEF LinesInv, SuperInv, svars
  <2> QED BY <1>8, <2>2, <2>3 DEF GuestIomd
<1>9. CASE data_read
  <2>1. CASE UNCHANGED <<i8042, gp, lines>>
    BY <1>9, <2>1 DEF data_read, Elsewhere, SuperInv, LinesInv, lines
  <2>2. [i8042 EXCEPT !.irq_kbd = FALSE] \in KbcType /\ [i8042 EXCEPT !.irq_mouse = FALSE] \in KbcType
    BY <1>0 DEF KbcType
  <2> QED BY <1>9, <2>1, <2>2, IrqUpdateInv DEF data_read
<1>10. CASE keyboard_irq_raise \/ mouse_irq_raise
  <2>1. [i8042 EXCEPT !.irq_kbd = TRUE] \in KbcType /\ [i8042 EXCEPT !.irq_mouse = TRUE] \in KbcType
    BY <1>0 DEF KbcType
  <2> QED BY <1>10, <2>1, IrqUpdateInv DEF keyboard_irq_raise, mouse_irq_raise
<1>11. CASE UNCHANGED <<svars, lines>>
  BY <1>11 DEF svars, lines, SuperInv, LinesInv
<1> QED BY <1>1, <1>2, <1>3, <1>4, <1>5, <1>6, <1>7, <1>8, <1>9, <1>10, <1>11
        DEF SuperNext, superio_write, SuperRead, Devices

-----------------------------------------------------------------------------
(* The whole bus. *)

LEMMA InitInv == Init => BusInv
<1> SUFFICES ASSUME Init PROVE BusInv
  OBVIOUS
<1>1. LinesInv
  BY ForcedBits DEF Init, LinesInit, LinesInv
<1>2. TimersInv
  <2>1. /\ threads = [th \in Names |-> AtRest] /\ counter = [t \in Timers |-> 1] /\ latch = [t \in Timers |-> 1]
    BY DEF Init, IomdInit, Names
  <2>2. Floor <= 1 /\ Floor \in Int
    BY TickAssumption
  <2> QED BY <2>1, <2>2, RestType DEF TimersInv
<1>3. PodulesInv /\ CardsAgree
  <2>1. Empty \in CardType /\ ~Empty.irq /\ ~Empty.fiq
    BY DEF Empty, CardType
  <2>2. /\ podules = [n \in 0 .. Slots - 1 |-> Empty] /\ freepodule = 0
        /\ running = [slot |-> Slots, again |-> FALSE] /\ status = Forced
    BY DEF Init, PodulesInit, LinesInit
  <2>3. Wanted(podules) = {}
    BY <2>1, <2>2 DEF Wanted
  <2>4. Forced \cap Lines3 = {}
    BY DEF Forced, Lines3
  <2> QED BY <2>1, <2>2, <2>3, <2>4, PodulesAssumption DEF PodulesInv, CardsAgree
<1>4. SuperInv
  BY DEF Init, SuperInit, SuperInv, i8042_reset
<1>5. RomInv
  BY RomStart DEF Init
<1> QED BY <1>1, <1>2, <1>3, <1>4, <1>5 DEF BusInv

LEMMA StepInv == BusInv /\ [Next]_vars => BusInv'
<1> SUFFICES ASSUME BusInv, [Next]_vars PROVE BusInv'
  OBVIOUS
<1> USE DEF BusInv
<1>1. ASSUME UNCHANGED lines PROVE LinesInv'
  BY <1>1 DEF LinesInv, lines
<1>2. ASSUME UNCHANGED ivars PROVE TimersInv'
  BY <1>2 DEF TimersInv, ivars, Carries
<1>3. ASSUME UNCHANGED pvars PROVE PodulesInv'
  BY <1>3 DEF PodulesInv, pvars
<1>4. ASSUME UNCHANGED svars PROVE SuperInv'
  BY <1>4 DEF SuperInv, svars
<1>5. ASSUME UNCHANGED romvars PROVE RomInv'
  BY <1>5 DEF RomInv, romvars
<1>12. part' = part
  BY DEF Next, TimersPart, RegistersPart, SuperPart, PodulesPart, RomPart, vars
<1>6. CASE TimersPart
  BY <1>12, <1>3, <1>4, <1>5, <1>6, IomdStep DEF TimersPart
<1>7. CASE RegistersPart
  BY <1>12, <1>1, <1>2, <1>3, <1>4, <1>5, <1>7 DEF RegistersPart
<1>8. CASE SuperPart
  BY <1>12, <1>2, <1>3, <1>5, <1>8, SuperStep DEF SuperPart
<1>9. CASE PodulesPart
  BY <1>12, <1>2, <1>4, <1>5, <1>9, PodulesStep DEF PodulesPart
<1>10. CASE RomPart
  BY <1>12, <1>1, <1>2, <1>3, <1>4, <1>10, RomStep DEF RomPart
<1>11. CASE UNCHANGED vars
  <2>1. (part = "podules" => CardsAgree)'
    BY <1>11 DEF CardsAgree, vars, lines, pvars
  <2> QED BY <2>1, <1>1, <1>2, <1>3, <1>4, <1>5, <1>11 DEF vars
<1> QED BY <1>6, <1>7, <1>8, <1>9, <1>10, <1>11 DEF Next

LEMMA InvHolds == Spec => []BusInv
BY InitInv, StepInv, PTL DEF Spec

(* Status bits, masks and counters keep their types, the bits that force   *)
(* an interrupt stay, and the lines of all cards are those of the single   *)
(* ones: rethinkpoduleints is called often enough.                         *)
THEOREM BusKept == Spec => []IoBusInv
<1>1. BusInv => IoBusInv
  <2> SUFFICES ASSUME BusInv PROVE IoBusInv
    OBVIOUS
  <2>1. \A t \in Timers : counter[t] >= Floor /\ latch[t] \in Latches \cup {1}
    BY DEF BusInv, TimersInv
  <2>2. gp["f"] \subseteq Sources /\ i8042.command \in {"none", "WRITE_MODE", "WRITE_MOUSE"}
    BY DEF BusInv, SuperInv
  <2>3. freepodule \in 0 .. Slots /\ running.slot \in 1 .. Slots
    BY DEF BusInv, PodulesInv
  <2>4. PodulesAgree
    BY DEF BusInv, CardsAgree, Lines3, PodulesAgree, Wanted
  <2> QED BY <2>1, <2>2, <2>3, <2>4 DEF BusInv, LinesInv, IoBusInv, TypeOK
<1> QED BY <1>1, InvHolds, PTL

(* initpodulerom places the chunks of the extension ROM one behind the     *)
(* other in the image, behind the directory, for files of any lengths, and  *)
(* readpodulerom reads those within 4 MB where the directory says they are. *)
THEOREM ChunksPlaced == Spec => []ChunksApart
<1>1. BusInv => ChunksApart
  <2> SUFFICES ASSUME RomInv PROVE ChunksApart
    BY DEF BusInv
  <2> DEFINE s == image.chunks
             first == FirstFile(image.files)
             end == image.filebase
  <2>1. /\ s \in Seq(ChunkType) /\ Len(s) \in Nat /\ image.files \in Nat /\ end \in Nat
        /\ Ordered(s, first, end) /\ end = image.poduleromsize
        /\ Len(s) <= image.files + 1 /\ image.chunkbase = HeaderEnd + 8 * Len(s)
    BY DEF RomInv, RomType
  <2>2. image.chunkbase <= first /\ first \in Nat /\ image.chunkbase \in Nat
    BY <2>1 DEF FirstFile, HeaderEnd
  <2> HIDE DEF first
  <2>3. ASSUME NEW i \in 1 .. Len(s)
        PROVE  s[i].base \in Nat /\ s[i].size \in Nat
    <3>1. s[i] \in ChunkType
      BY <2>1
    <3> QED BY <3>1 DEF ChunkType
  <2>4. ASSUME NEW i \in 1 .. Len(s)
        PROVE  /\ s[i].base >= image.chunkbase /\ s[i].base % 4 = 0
               /\ ChunkEnd(i) <= image.poduleromsize
    <3>1. s[i].base >= first /\ s[i].base % 4 = 0 /\ s[i].base + s[i].size <= end
      BY <2>1 DEF Ordered
    <3>2. ChunkEnd(i) = s[i].base + s[i].size
      BY DEF ChunkEnd
    <3> HIDE DEF s, end
    <3> QED BY <2>1, <2>2, <2>3, <3>1, <3>2, SMTT(20)
  <2>5. ASSUME NEW i \in 1 .. Len(s), s[i].size > 0, ChunkEnd(i) <= Reach
        PROVE  readpodulerom(TRUE, 4 * (ChunkEnd(i) - 1)) = <<"image", ChunkEnd(i) - 1>>
    <3> DEFINE e == ChunkEnd(i) - 1
    <3>1. e \in Nat /\ e < 4194304 /\ e < image.poduleromsize
      <4>1. ChunkEnd(i) = s[i].base + s[i].size
        BY DEF ChunkEnd
      <4>2. s[i].base \in Nat /\ s[i].size \in Nat /\ s[i].size > 0
        BY <2>3, <2>5
      <4>3. ChunkEnd(i) <= image.poduleromsize /\ image.poduleromsize \in Nat
        BY <2>1, <2>4
      <4> HIDE DEF s
      <4> QED BY <2>5, <4>1, <4>2, <4>3, SMT DEF Reach
    <3> HIDE DEF e
    <3>2. (4 * e) % 16777216 = 4 * e /\ (4 * e) \div 4 = e
      BY <3>1
    <3>3. image.poduleromsize # 0
      BY <2>1, <3>1
    <3>4. readpodulerom(TRUE, 4 * e) = <<"image", e>>
      BY <3>1, <3>2, <3>3 DEF readpodulerom
    <3> QED BY <3>4 DEF e
  <2>6. \A i, j \in 1 .. Len(s) : i < j => ChunkEnd(i) <= s[j].base
    BY <2>1 DEF Ordered, ChunkEnd
  <2>7. DOMAIN s = 1 .. Len(s)
    BY <2>1
  <2>8. image.chunkbase <= FirstFile(image.files) /\ image.filebase = image.poduleromsize
    BY <2>1, <2>2 DEF first
  <2>9. \A i \in DOMAIN s :
          /\ s[i].base >= image.chunkbase /\ s[i].base % 4 = 0 /\ ChunkEnd(i) <= image.poduleromsize
          /\ s[i].size > 0 /\ ChunkEnd(i) <= Reach
               => readpodulerom(TRUE, 4 * (ChunkEnd(i) - 1)) = <<"image", ChunkEnd(i) - 1>>
    <3> HIDE DEF s, end
    <3> QED BY <2>4, <2>5, <2>7
  <2>10. \A i, j \in DOMAIN s : i < j => ChunkEnd(i) <= s[j].base
    <3> HIDE DEF s, end
    <3> QED BY <2>6, <2>7
  <2> HIDE DEF end
  <2> QED BY <2>8, <2>9, <2>10 DEF ChunksApart
<1> QED BY <1>1, InvHolds, PTL

(* The configuration registers open for the key alone: the first of two    *)
(* keys is forgotten by every other write (superio_write).                 *)
THEOREM OnlyTheKeyOpens == Spec => KeyOpens
<1>1. SuperInv /\ [Next]_vars =>
        [config.mode # "configuration" /\ config'.mode = "configuration"
           => last' = "key" /\ (super = "FDC37C665GT" => last = "key")]_<<config>>
  <2> SUFFICES ASSUME SuperInv, [Next]_vars, config'.mode = "configuration", config.mode # "configuration"
               PROVE  last' = "key" /\ (super = "FDC37C665GT" => last = "key")
    OBVIOUS
  <2>1. config' # config /\ config.mode \in {"normal", "intermediate"}
    BY DEF SuperInv
  <2>2. SuperNext
    BY <2>1 DEF Next, TimersPart, RegistersPart, PodulesPart, RomPart, SuperPart, vars, svars
  <2>3. ~Port
    BY DEF Port, Closed, SuperInv
  <2>4. UNCHANGED config \/ Knock
    BY <2>2, <2>3 DEF SuperNext, superio_write, SuperRead, Devices, GuestIomd, svars, SerialRead, data_read,
        irq_update, Elsewhere, keyboard_irq_raise, mouse_irq_raise, Port672, Parallel, Serial,
        Select, config_reg_write
  <2>5. Knock
    BY <2>1, <2>4
  <2>6. last' = "key" /\ config' = [config EXCEPT !.mode =
            IF super = "FDC37C665GT" /\ config.mode = "normal" THEN "intermediate" ELSE "configuration"]
    BY <2>5 DEF Knock
  <2>7. ~(super = "FDC37C665GT" /\ config.mode = "normal")
    BY <2>6 DEF SuperInv
  <2> QED BY <2>1, <2>6, <2>7 DEF SuperInv
<1> QED BY <1>1, InvHolds, PTL DEF BusInv, Spec, KeyOpens

-----------------------------------------------------------------------------
(* A variant holds what was written to the registers it has; the others     *)
(* stay as the power left them.                                            *)
RegistersInv ==
    /\ type \in Types /\ DOMAIN store = Held /\ DOMAIN written = Held
    /\ \A r \in Held : store[r] = IF Has(type, r) THEN Kept(r, written[r]) ELSE Power(type, r)

LEMMA RegistersStart == RegistersInit => RegistersInv
<1> SUFFICES ASSUME RegistersInit PROVE RegistersInv
  OBVIOUS
<1>1. ASSUME NEW r \in Held PROVE Kept(r, Power(type, r)) = Power(type, r)
  <2>1. CASE r \in Bytes
    <3>1. Power(type, r) \in {0, 1, 64}
      BY DEF Power, RomCr
    <3>2. Kept(r, Power(type, r)) = Power(type, r) % 256
      BY <2>1 DEF Kept
    <3> QED BY <3>1, <3>2
  <2>2. CASE r \notin Bytes
    <3>1. Power(type, r) = 0
      BY <2>2 DEF Power, Bytes
    <3> QED BY <2>2, <3>1 DEF Kept
  <2> QED BY <2>1, <2>2
<1> QED BY <1>1 DEF RegistersInit, RegistersInv

LEMMA RegistersStep == RegistersInv /\ RegistersNext => RegistersInv'
BY DEF RegistersInv, RegistersNext, iomd_write

(* A register reads as what the guest last wrote to it, as far as its field *)
(* has room, and as 0 where the chip lacks it: for all registers of struct  *)
(* iomd, all values and all variants.                                       *)
THEOREM RegistersReadBack == Spec => []ReadsBack
<1>1. Init => RegistersInv
  BY RegistersStart DEF Init
<1>2. RegistersInv /\ [Next]_vars => RegistersInv'
  <2>1. RegistersInv /\ UNCHANGED rvars => RegistersInv'
    BY DEF RegistersInv, rvars
  <2> QED BY <2>1, RegistersStep DEF Next, TimersPart, RegistersPart, SuperPart, PodulesPart, RomPart, vars
<1>3. RegistersInv => ReadsBack
  <2> SUFFICES ASSUME RegistersInv, NEW r \in Held
               PROVE  iomd_read(r) = IF Has(type, r) THEN Shown(r, Kept(r, written[r])) ELSE 0
    BY DEF ReadsBack
  <2>1. CASE Has(type, r)
    <3>1. Answers(type, r)
      BY <2>1 DEF Answers, Has, OnIomd
    <3> QED BY <2>1, <3>1 DEF RegistersInv, iomd_read
  <2>2. CASE ~Has(type, r) /\ Answers(type, r)
    <3>1. r = "DMAEXT"
      BY <2>2 DEF Answers
    <3>2. Power(type, r) = 0 /\ store[r] = 0
      BY <2>2, <3>1 DEF Power, RegistersInv
    <3> QED BY <2>2, <3>1, <3>2 DEF iomd_read, Shown
  <2>3. CASE ~Has(type, r) /\ ~Answers(type, r)
    BY <2>3 DEF iomd_read
  <2> QED BY <2>1, <2>2, <2>3
<1> QED BY <1>1, <1>2, <1>3, PTL DEF Spec

-----------------------------------------------------------------------------
(* Bytes. *)

LEMMA ByteTold ==
    ASSUME SuperInv, NEW k, irq_update(k), k.mode = i8042.mode
    PROVE  /\ i8042.mode = {} => gp["f"]' = IF i8042'.irq_kbd THEN {"KINT"}
                                             ELSE IF i8042'.irq_mouse THEN {"MINT"} ELSE {}
           /\ ("SMI" \in status') = (gp["e"]' \cap gp["c"]' # {} \/ gp["f"]' \cap gp["d"]' # {})
<1>1. i8042' = k /\ gp' = [gp EXCEPT !["f"] = Asked(k)] /\ gp \in GpType
  BY DEF irq_update, smi_update, SuperInv, GpType
<1>2. gp["f"]' = Asked(k)
  BY <1>1 DEF GpType
<1>3. i8042.mode = {} => Asked(k) = IF k.irq_kbd THEN {"KINT"} ELSE IF k.irq_mouse THEN {"MINT"} ELSE {}
  BY DEF Asked
<1> DEFINE g == [gp EXCEPT !["f"] = Asked(k)]
           smi == {b \in {"SMI"} : g["e"] \cap g["c"] # {} \/ g["f"] \cap g["d"] # {}}
<1>4. status' = (status \ {"SMI"}) \cup smi /\ gp' = g
  BY DEF irq_update, smi_update, Update
<1> HIDE DEF g
<1>5. ("SMI" \in smi) = (g["e"] \cap g["c"] # {} \/ g["f"] \cap g["d"] # {})
  BY DEF smi
<1> HIDE DEF smi
<1>6. ("SMI" \in status') = ("SMI" \in smi)
  BY <1>4
<1> QED BY <1>1, <1>2, <1>3, <1>4, <1>5, <1>6

(* Of two devices that share a port, the SMI bits always name the one the   *)
(* port gives next, and the interrupt follows the masks of the guest.       *)
THEOREM BytesAreSignalled == Spec => BytesSignalled
<1> DEFINE Pair == <<i8042.irq_kbd, i8042.irq_mouse>>
           Told == /\ i8042.mode = {} => gp["f"]' = IF i8042'.irq_kbd THEN {"KINT"}
                                                    ELSE IF i8042'.irq_mouse THEN {"MINT"} ELSE {}
                   /\ ("SMI" \in status') = (gp["e"]' \cap gp["c"]' # {} \/ gp["f"]' \cap gp["d"]' # {})
<1>1. SuperInv /\ [Next]_vars => [Pair' # Pair => Told]_<<i8042>>
  <2> SUFFICES ASSUME SuperInv, [Next]_vars, Pair' # Pair PROVE Told
    OBVIOUS
  <2>1. i8042' # i8042 /\ i8042 \in KbcType
    BY DEF SuperInv, KbcType
  <2>2. SuperNext
    BY <2>1 DEF Next, TimersPart, RegistersPart, PodulesPart, RomPart, SuperPart, vars, svars
  <2>3. ~(\E m : data_write(m))
    BY <2>1 DEF data_write, KbcType
  <2>4. ~command_write
    BY <2>1 DEF command_write, KbcType
  <2>5. data_read \/ keyboard_irq_raise \/ mouse_irq_raise
    BY <2>1, <2>2, <2>3, <2>4 DEF SuperNext, superio_write, SuperRead, Devices, GuestIomd, svars, SerialRead,
        Port672, Parallel, Serial, Select, config_reg_write, Knock
  <2>6. \E k : irq_update(k) /\ k.mode = i8042.mode
    <3>1. /\ [i8042 EXCEPT !.irq_kbd = FALSE].mode = i8042.mode /\ [i8042 EXCEPT !.irq_mouse = FALSE].mode = i8042.mode
          /\ [i8042 EXCEPT !.irq_kbd = TRUE].mode = i8042.mode /\ [i8042 EXCEPT !.irq_mouse = TRUE].mode = i8042.mode
      BY <2>1 DEF KbcType
    <3> QED BY <2>1, <2>5, <3>1 DEF data_read, keyboard_irq_raise, mouse_irq_raise
  <2> QED BY <2>6, ByteTold
<1> QED BY <1>1, InvHolds, PTL DEF BusInv, Spec, BytesSignalled
=============================================================================
