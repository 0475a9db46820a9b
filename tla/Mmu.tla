-------------------------------- MODULE Mmu --------------------------------
(***************************************************************************)
(* The address-translation caches of the emulated ARM (cp15.c, mem.c,      *)
(* mem.h, and the fetch at the head of execarm in arm.c).                  *)
(*                                                                         *)
(* A guest page reaches a host page through up to seven caches, none of    *)
(* which re-reads the guest's page tables:                                 *)
(*   tlbcache       page -> frame, with tlbcache2 the FIFO of its pages    *)
(*   vraddrl        page -> host pointer for reads, FIFO vraddrls          *)
(*   vwaddrl        page -> host pointer for writes, FIFO vwaddrls and     *)
(*                  vwaddrphys, the physical page of each slot             *)
(*   readmemcache, writememcache, writemembcache   the last page of each   *)
(*                  kind of access and its physical page                   *)
(*   pccache        the page instructions are fetched from                 *)
(* Only cp15_tlb_flush_all empties them, and it finds the entries of the   *)
(* three big tables only through the FIFOs. `legit' is a history variable: *)
(* the frames the page tables allowed each page since that last flush.     *)
(*                                                                         *)
(* An operator whose name has a capitalised suffix (vwadd_KeepPhys)        *)
(* is a wrong form of the one it precedes; nothing uses it. The mutants of *)
(* PROJECT.json put it in its place.                                       *)
(*                                                                         *)
(* A 4 KB page is the unit: a section or a large page is the set of its    *)
(* 4 KB descriptors. A host pointer is the frame it points into.           *)
(***************************************************************************)
EXTENDS Naturals, FiniteSets

CONSTANTS
    Pages,          \* virtual pages the guest uses
    Frames,         \* physical pages
    NoPage,         \* 0xffffffff in readmemcache, pccache, vraddrls, ...
    NoFrame,        \* 0xffffffff in tlbcache, vraddrl, vwaddrl, vwaddrphys
    ZeroPage,       \* page 0: what zero-initialised statics name
    Identity,       \* Identity[p]: the frame of p while the MMU is off
    Region,         \* Region[f]: "rom", "vram", "ram" or "io"
    Chunk,          \* Chunk[f]: the 16 MB chunk of f; Chunk[NoFrame] is 0x1f000000
    VideoChunks,    \* chunks drawscr may find in iomd.vidinit
    Domains,        \* protection domains
    Descs,          \* descriptors the guest puts in its tables
    FaultDesc,      \* the all-zero descriptor
    Tables,         \* values of the translation table base
    DacValues,      \* values of the domain access control register
    RsValues,       \* values of control bits 8 and 9 (System, ROM)
    TlbSize,        \* TLBCACHESIZE
    VaSize          \* slots of vraddrls and vwaddrls (1024)

PageOrNone  == Pages \cup {NoPage}
FrameOrNone == Frames \cup {NoFrame}
ZeroFrame   == Identity[ZeroPage]
TlbSlots    == 0 .. TlbSize - 1
VaSlots     == 0 .. VaSize - 1
DescType    == [kind : {"fault", "page"}, frame : Frames, ap : 0 .. 3, domain : Domains]

ASSUME SizesAssumption == TlbSize \in Nat \ {0} /\ VaSize \in Nat \ {0}
ASSUME NamesAssumption == NoPage \notin Pages /\ NoFrame \notin Frames /\ ZeroPage \in Pages
ASSUME MemoryAssumption ==
    /\ Identity \in [Pages -> Frames]
    /\ Region \in [Frames -> {"rom", "vram", "ram", "io"}]
    /\ Chunk \in [FrameOrNone -> STRING]
ASSUME GuestAssumption ==
    /\ Descs \subseteq DescType /\ FaultDesc \in Descs /\ FaultDesc.kind = "fault"
    /\ DacValues \subseteq [Domains -> 0 .. 3]
    /\ RsValues \subseteq {"00", "01", "10", "11"} /\ "00" \in RsValues
    /\ [d \in Domains |-> 0] \in DacValues
    /\ Tables # {}

VARIABLES
    mmu, rs, memmode, translation_table, domain_access_control, tables,
    armirq,             \* "none", "data" (bit 0x40) or "prefetch" (bit 0x80)
    tlbcache, tlbcache2, tlbcachepos,
    vraddrl, vraddrls, vraddrlpos,
    vwaddrl, vwaddrls, vwaddrphys, vwaddrlpos,
    memcache,           \* memcache[k]: readmemcache and writemem(b)cache, page and frame
    pccache, pccache2,
    stray,              \* vwaddrl was written outside its bounds
    legit               \* history: frames each page was entitled to since the last flush

guestVars == <<mmu, rs, translation_table, domain_access_control, tables>>
tlbVars   == <<tlbcache, tlbcache2, tlbcachepos>>
rdVars    == <<vraddrl, vraddrls, vraddrlpos>>
wrVars    == <<vwaddrl, vwaddrls, vwaddrphys, vwaddrlpos>>
pcVars    == <<pccache, pccache2>>
vars == <<guestVars, memmode, armirq, tlbVars, rdVars, wrVars, memcache, pcVars, stray, legit>>

AccessKinds == {"read", "word", "byte"}     \* readmemcache, writememcache, writemembcache

-----------------------------------------------------------------------------
\* Translation (cp15_check_permissions, cp15_domain_access, translateaddress2)

\* TRUE when the access is to be faulted.
cp15_check_permissions(ap, write, priv, sr) ==
    \/ ap = 0 /\ (sr \in {"00", "11"} \/ (sr = "01" /\ (~priv \/ write)) \/ (sr = "10" /\ write))
    \/ ap = 1 /\ ~priv
    \/ ap = 2 /\ ~priv /\ write

\* What the table walk faults on, for descriptor d.
WalkFaults(d, write, priv, sr, dac) ==
    \/ d.kind = "fault"
    \/ dac[d.domain] \in {0, 2}
    \/ dac[d.domain] = 1 /\ cp15_check_permissions(d.ap, write, priv, sr)

Desc(p) == tables[translation_table][p]

\* The macro translateaddress: a hit in tlbcache skips the walk and its checks.
TlbHit(p) == tlbcache[p] # NoFrame
TranslateFaults(p, write, priv) ==
    ~TlbHit(p) /\ WalkFaults(Desc(p), write, priv, rs, domain_access_control)
TranslateFrame(p) == IF TlbHit(p) THEN tlbcache[p] ELSE Desc(p).frame

\* map without the entry of page q, which may be NoPage.
Drop(map, q) == [p \in Pages |-> IF p = q THEN NoFrame ELSE map[p]]

\* The slot after pos of a FIFO of the given size; the masks of the code.
NextPos(pos, size) == (pos + 1) % size

\* cp15_tlb_add_entry, reached only on a miss.
cp15_tlb_add_entry(p) ==
    /\ tlbcache' = [Drop(tlbcache, tlbcache2[tlbcachepos]) EXCEPT ![p] = Desc(p).frame]
    /\ tlbcache2' = [tlbcache2 EXCEPT ![tlbcachepos] = p]
    /\ tlbcachepos' = NextPos(tlbcachepos, TlbSize)

Translate(p) == IF TlbHit(p) THEN UNCHANGED tlbVars ELSE cp15_tlb_add_entry(p)

-----------------------------------------------------------------------------
\* Host-pointer caches (vradd, vwadd) and flushing

vradd(p, f) ==
    /\ vraddrl' = [Drop(vraddrl, vraddrls[vraddrlpos]) EXCEPT ![p] = f]
    /\ vraddrls' = [vraddrls EXCEPT ![vraddrlpos] = p]
    /\ vraddrlpos' = NextPos(vraddrlpos, VaSize)

vwadd_KeepPhys(p, f) ==
    /\ vwaddrl' = [Drop(vwaddrl, vwaddrls[vwaddrlpos]) EXCEPT ![p] = f]
    /\ vwaddrls' = [vwaddrls EXCEPT ![vwaddrlpos] = p]
    /\ vwaddrphys' = vwaddrphys
    /\ vwaddrlpos' = NextPos(vwaddrlpos, VaSize)

vwadd(p, f) ==
    /\ vwaddrl' = [Drop(vwaddrl, vwaddrls[vwaddrlpos]) EXCEPT ![p] = f]
    /\ vwaddrls' = [vwaddrls EXCEPT ![vwaddrlpos] = p]
    /\ vwaddrphys' = [vwaddrphys EXCEPT ![vwaddrlpos] = f]
    /\ vwaddrlpos' = NextPos(vwaddrlpos, VaSize)

\* map without the entries of the pages the FIFO names.
DropListed(map, slots, fifo) ==
    [p \in Pages |-> IF \E c \in slots : fifo[c] = p THEN NoFrame ELSE map[p]]

cp15_tlb_flush ==
    /\ tlbcache' = DropListed(tlbcache, TlbSlots, tlbcache2)
    /\ tlbcache2' = [c \in TlbSlots |-> NoPage]
    /\ UNCHANGED tlbcachepos

cp15_vaddr_reset_KeepSlots ==
    /\ vraddrl' = DropListed(vraddrl, VaSlots, vraddrls)
    /\ vwaddrl' = DropListed(vwaddrl, VaSlots, vwaddrls)
    /\ UNCHANGED <<vraddrls, vraddrlpos, vwaddrls, vwaddrphys, vwaddrlpos>>

cp15_vaddr_reset ==
    /\ vraddrl' = DropListed(vraddrl, VaSlots, vraddrls)
    /\ vraddrls' = [c \in VaSlots |-> NoPage]
    /\ vwaddrl' = DropListed(vwaddrl, VaSlots, vwaddrls)
    /\ vwaddrphys' = [c \in VaSlots |-> IF vwaddrls[c] # NoPage THEN NoFrame ELSE vwaddrphys[c]]
    /\ vwaddrls' = [c \in VaSlots |-> NoPage]
    /\ UNCHANGED <<vraddrlpos, vwaddrlpos>>

\* An entry that names no page; the frame left beside it is never read again.
NoEntry == [page |-> NoPage, frame |-> ZeroFrame]
clearmemcache == memcache' = [k \in AccessKinds |-> NoEntry]

\* pccache = 0xffffffff: no fetch matches it, so pccache2 is not read either.
ForgetFetchPage == pccache' = NoPage /\ pccache2' = NoFrame

cp15_tlb_flush_all_KeepMemcache ==
    /\ UNCHANGED memcache
    /\ ForgetFetchPage
    /\ cp15_tlb_flush
    /\ cp15_vaddr_reset

cp15_tlb_flush_all ==
    /\ clearmemcache
    /\ ForgetFetchPage
    /\ cp15_tlb_flush
    /\ cp15_vaddr_reset

\* What each page may reach: <<frame, privileged, write>> for each kind of
\* access that passes the walk.
Grants(on, sr, dac, table) ==
    [p \in Pages |->
        {g \in Frames \X BOOLEAN \X BOOLEAN :
            IF on THEN g[1] = table[p].frame /\ ~WalkFaults(table[p], g[3], g[2], sr, dac)
                  ELSE g[1] = Identity[p]}]

\* After a flush each page is entitled to what its descriptor now grants, no more.
RestartHistory ==
    legit' = Grants(mmu', rs', domain_access_control', tables'[translation_table'])

-----------------------------------------------------------------------------
\* The state main() leaves after resetarm, mem_reset and cp15_reset. The
\* caches are empty; the statics of mem.c still name page 0, which is mapped
\* to itself until the MMU goes on.
Init ==
    /\ mmu = FALSE /\ rs = "00" /\ memmode = TRUE
    /\ translation_table \in Tables
    /\ domain_access_control = [d \in Domains |-> 0]
    /\ tables = [t \in Tables |-> [p \in Pages |-> FaultDesc]]
    /\ armirq = "none"
    /\ tlbcache = [p \in Pages |-> NoFrame] /\ tlbcache2 = [c \in TlbSlots |-> NoPage]
    /\ vraddrl = [p \in Pages |-> NoFrame] /\ vraddrls = [c \in VaSlots |-> NoPage]
    /\ vwaddrl = [p \in Pages |-> NoFrame] /\ vwaddrls = [c \in VaSlots |-> NoPage]
    /\ vwaddrphys = [c \in VaSlots |-> ZeroFrame]
    /\ tlbcachepos = 0 /\ vraddrlpos = 0 /\ vwaddrlpos = 0
    /\ memcache = [k \in AccessKinds |-> [page |-> ZeroPage, frame |-> ZeroFrame]]
    /\ pccache = NoPage /\ pccache2 = NoFrame
    /\ stray = FALSE
    /\ legit = Grants(FALSE, rs, domain_access_control, tables[translation_table])

\* An instruction runs only while no abort is pending: load and store multiples
\* stop at the first one, and execarm dispatches it before the next instruction.
Running == armirq = "none"

FillRead(p, f)  == IF Region[f] # "io" THEN vradd(p, f) ELSE UNCHANGED rdVars
FillWrite(p, f) == IF Region[f] \in {"vram", "ram"} THEN vwadd(p, f) ELSE UNCHANGED wrVars

\* The page of an access by way of memcache[k], the MMU on: the page of the
\* last access of this kind, a page translated now, or an abort. When it is
\* found, memcache'[k].frame is its frame.
Found(k, p, write, priv) ==
    /\ \/ memcache[k].page = p /\ UNCHANGED <<tlbVars, memcache>>
       \/ /\ memcache[k].page # p /\ ~TranslateFaults(p, write, priv)
          /\ Translate(p)
          /\ memcache' = [memcache EXCEPT ![k] = [page |-> p, frame |-> TranslateFrame(p)]]
    /\ UNCHANGED armirq

Aborts(k, p, write, priv) ==
    /\ memcache[k].page # p /\ TranslateFaults(p, write, priv)
    /\ armirq' = "data" /\ memcache' = [memcache EXCEPT ![k] = NoEntry]
    /\ UNCHANGED tlbVars

\* mem_read32 and mem_read8 when the page has no host pointer (with one they
\* change nothing). An LDRT reads with priv FALSE.
Read(p, priv) ==
    /\ Running /\ mmu /\ vraddrl[p] = NoFrame /\ priv \in {FALSE, memmode}
    /\ \/ Found("read", p, FALSE, priv) /\ FillRead(p, memcache'["read"].frame)
       \/ Aborts("read", p, FALSE, priv) /\ UNCHANGED rdVars
    /\ UNCHANGED <<guestVars, memmode, wrVars, pcVars, stray, legit>>

\* readmemfl with the MMU off; readmemfb then caches nothing.
ReadUnmapped(p) ==
    /\ Running /\ ~mmu /\ vraddrl[p] = NoFrame
    /\ Region[Identity[p]] \in {"vram", "ram"}
    /\ vradd(p, Identity[p])
    /\ UNCHANGED <<guestVars, memmode, armirq, tlbVars, wrVars, memcache, pcVars, stray, legit>>

\* mem_write32 (k = "word") and mem_write8 (k = "byte"); with the MMU off
\* they cache nothing.
Write(k, p, priv) ==
    /\ Running /\ mmu /\ vwaddrl[p] = NoFrame /\ priv \in {FALSE, memmode}
    /\ \/ Found(k, p, TRUE, priv) /\ FillWrite(p, memcache'[k].frame)
       \/ Aborts(k, p, TRUE, priv) /\ UNCHANGED wrVars
    /\ UNCHANGED <<guestVars, memmode, rdVars, pcVars, stray, legit>>

\* The fetch of an instruction from a page other than pccache: execarm and
\* getpccache. A frame that holds no code falls off the end of getpccache:
\* fatal() is printf, and the pointer returned is whatever the register held.
Fetch(p) ==
    /\ Running /\ pccache # p
    /\ \/ /\ mmu /\ TranslateFaults(p, FALSE, memmode)
          /\ armirq' = "prefetch" /\ ForgetFetchPage
          /\ UNCHANGED <<tlbVars, vwaddrl>>
       \/ /\ mmu => ~TranslateFaults(p, FALSE, memmode)
          /\ IF mmu THEN Translate(p) ELSE UNCHANGED tlbVars
          /\ vwaddrl' = Drop(vwaddrl, p)
          /\ pccache' = p
          /\ LET f == IF mmu THEN TranslateFrame(p) ELSE Identity[p] IN
             IF Region[f] # "io" THEN pccache2' = f ELSE pccache2' \in FrameOrNone
          /\ UNCHANGED armirq
    /\ UNCHANGED <<guestVars, memmode, rdVars, vwaddrls, vwaddrphys, vwaddrlpos,
                   memcache, stray, legit>>

\* The end of an instruction of execarm that aborted: exception(ABORT, ...)
\* enters a privileged mode.
TakeAbort ==
    /\ ~Running /\ armirq' = "none" /\ memmode' = TRUE
    /\ UNCHANGED <<guestVars, tlbVars, rdVars, wrVars, memcache, pcVars, stray, legit>>

\* updatemode: exceptions, returns from them, and writes to the PSR.
updatemode(priv) ==
    /\ Running /\ priv # memmode /\ memmode' = priv
    /\ UNCHANGED <<guestVars, armirq, tlbVars, rdVars, wrVars, memcache, pcVars, stray, legit>>

-----------------------------------------------------------------------------
\* cp15_write, by register. There is no check of the mode.

Cp15Flushes ==
    /\ Running /\ cp15_tlb_flush_all /\ RestartHistory
    /\ UNCHANGED <<memmode, armirq, stray>>

Control(on, sr) ==
    /\ <<on, sr>> # <<mmu, rs>> /\ mmu' = on /\ rs' = sr
    /\ UNCHANGED <<translation_table, domain_access_control, tables>>
    /\ Cp15Flushes

TranslationTableBase(t) ==
    /\ translation_table' = t
    /\ UNCHANGED <<mmu, rs, domain_access_control, tables>>
    /\ Cp15Flushes

DomainAccessControl(v) ==
    /\ v # domain_access_control /\ domain_access_control' = v
    /\ UNCHANGED <<mmu, rs, translation_table, tables>>
    /\ Cp15Flushes

\* TLB flush and purge: registers 5 and 6 before ARMv4, 8 on ARMv4.
TlbOperation == UNCHANGED guestVars /\ Cp15Flushes

\* Register 7: only the fetch page is forgotten.
FlushCache ==
    /\ Running /\ ForgetFetchPage
    /\ UNCHANGED <<guestVars, memmode, armirq, tlbVars, rdVars, wrVars, memcache,
                   stray, legit>>

\* The guest stores a descriptor into a table in RAM (mem_phys_write32).
StoreDescriptor(t, p, d) ==
    /\ Running /\ tables[t][p] # d
    /\ tables' = [tables EXCEPT ![t][p] = d]
    /\ legit' = [q \in Pages |->
                   legit[q] \cup Grants(mmu, rs, domain_access_control,
                                        tables'[translation_table])[q]]
    /\ UNCHANGED <<mmu, rs, translation_table, domain_access_control, memmode, armirq,
                   tlbVars, rdVars, wrVars, memcache, pcVars, stray>>

\* The slots cp15_tlb_invalidate_physical clears.
InChunk_FirstOnly(chunk) ==
    {c \in VaSlots : /\ Chunk[vwaddrphys[c]] = chunk
                     /\ \A e \in 0 .. c - 1 : Chunk[vwaddrphys[e]] # chunk}

InChunk(chunk) == {c \in VaSlots : Chunk[vwaddrphys[c]] = chunk}

\* drawscr hands a frame to the video thread and forgets the write pointers
\* into the 16 MB chunk the screen is in. A slot that matches while it names
\* no page indexes vwaddrl with 0xffffffff.
cp15_tlb_invalidate_physical(chunk) ==
    /\ Running
    /\ vwaddrl' = DropListed(vwaddrl, InChunk(chunk), vwaddrls)
    /\ vwaddrls' = [c \in VaSlots |-> IF c \in InChunk(chunk) THEN NoPage ELSE vwaddrls[c]]
    /\ vwaddrphys' = [c \in VaSlots |-> IF c \in InChunk(chunk) THEN NoFrame ELSE vwaddrphys[c]]
    /\ stray' = (stray \/ \E c \in InChunk(chunk) : vwaddrls[c] = NoPage)
    /\ UNCHANGED <<guestVars, memmode, armirq, tlbVars, rdVars, vwaddrlpos, memcache,
                   pcVars, legit>>

Next ==
    \/ \E p \in Pages, priv \in BOOLEAN : Read(p, priv)
    \/ \E p \in Pages : ReadUnmapped(p)
    \/ \E k \in {"word", "byte"}, p \in Pages, priv \in BOOLEAN : Write(k, p, priv)
    \/ \E p \in Pages : Fetch(p)
    \/ TakeAbort
    \/ \E priv \in BOOLEAN : updatemode(priv)
    \/ \E on \in BOOLEAN, sr \in RsValues : Control(on, sr)
    \/ \E t \in Tables : TranslationTableBase(t)
    \/ \E v \in DacValues : DomainAccessControl(v)
    \/ TlbOperation
    \/ FlushCache
    \/ \E t \in Tables, p \in Pages, d \in Descs : StoreDescriptor(t, p, d)
    \/ \E chunk \in VideoChunks : cp15_tlb_invalidate_physical(chunk)

Spec == Init /\ [][Next]_vars

-----------------------------------------------------------------------------
\* The types of the caches and of the registers that rule them.
TypeOK ==
    /\ mmu \in BOOLEAN /\ rs \in RsValues /\ memmode \in BOOLEAN
    /\ translation_table \in Tables /\ domain_access_control \in DacValues
    /\ tables \in [Tables -> [Pages -> Descs]]
    /\ armirq \in {"none", "data", "prefetch"}
    /\ tlbcache \in [Pages -> FrameOrNone] /\ tlbcache2 \in [TlbSlots -> PageOrNone]
    /\ vraddrl \in [Pages -> FrameOrNone] /\ vraddrls \in [VaSlots -> PageOrNone]
    /\ vwaddrl \in [Pages -> FrameOrNone] /\ vwaddrls \in [VaSlots -> PageOrNone]
    /\ vwaddrphys \in [VaSlots -> FrameOrNone]
    /\ tlbcachepos \in TlbSlots /\ vraddrlpos \in VaSlots /\ vwaddrlpos \in VaSlots
    /\ memcache \in [AccessKinds -> [page : PageOrNone, frame : Frames]]
    /\ pccache \in PageOrNone /\ pccache2 \in FrameOrNone
    /\ stray \in BOOLEAN
    /\ legit \in [Pages -> SUBSET (Frames \X BOOLEAN \X BOOLEAN)]

\* Some access to page p was entitled to frame f since the last flush.
MayReach(p, f) == \E u, w \in BOOLEAN : <<f, u, w>> \in legit[p]

\* Every entry of the three big tables is in a slot of its FIFO, which is all
\* a flush or an eviction looks at; for writes the slot also holds the frame,
\* which is all drawscr's invalidation looks at.
TlbCovered   == \A p \in Pages : tlbcache[p] # NoFrame => \E c \in TlbSlots : tlbcache2[c] = p
ReadCovered  == \A p \in Pages : vraddrl[p] # NoFrame => \E c \in VaSlots : vraddrls[c] = p
WriteCovered == \A p \in Pages : vwaddrl[p] # NoFrame =>
                  \E c \in VaSlots : vwaddrls[c] = p /\ vwaddrphys[c] = vwaddrl[p]
Covered == TlbCovered /\ ReadCovered /\ WriteCovered

\* No cache outlives a flush: whatever a cache answers for a page, the page
\* tables (or the identity map) granted some access to since the last
\* cp15_tlb_flush_all. The caches are filled from one another, so one that a
\* flush missed would refill the rest.
TlbFresh   == \A p \in Pages : tlbcache[p] # NoFrame => MayReach(p, tlbcache[p])
ReadFresh  == \A p \in Pages : vraddrl[p] # NoFrame => MayReach(p, vraddrl[p])
WriteFresh == \A p \in Pages : vwaddrl[p] # NoFrame => MayReach(p, vwaddrl[p])
CacheFresh == \A k \in AccessKinds :
                memcache[k].page # NoPage => MayReach(memcache[k].page, memcache[k].frame)
FetchFresh == pccache # NoPage =>
                \E f \in Frames : MayReach(pccache, f) /\ (Region[f] = "io" \/ pccache2 = f)
Fresh == TlbFresh /\ ReadFresh /\ WriteFresh /\ CacheFresh /\ FetchFresh

\* The history is kept up to date: whatever the tables and registers grant now
\* has been granted since the last flush.
HistoryCurrent ==
    \A p \in Pages :
        Grants(mmu, rs, domain_access_control, tables[translation_table])[p] \subseteq legit[p]

\* The inductive invariant of the proofs.
CacheInv == TypeOK /\ Covered /\ HistoryCurrent /\ Fresh

\* A page occupies at most one slot of tlbcache2 and of vraddrls, so the FIFOs
\* hold as many translations as they have slots. (vwaddrls may repeat a page:
\* getpccache clears its pointer and leaves its slot.)
SlotsDistinct ==
    /\ \A c, d \in TlbSlots : tlbcache2[c] = tlbcache2[d] /\ tlbcache2[c] # NoPage => c = d
    /\ \A c, d \in VaSlots : vraddrls[c] = vraddrls[d] /\ vraddrls[c] # NoPage => c = d

\* A named slot of those two FIFOs is in use; a page is added only when its
\* entry is empty, so this keeps the slots distinct.
SlotsLive ==
    /\ \A c \in TlbSlots : tlbcache2[c] # NoPage => tlbcache[tlbcache2[c]] # NoFrame
    /\ \A c \in VaSlots : vraddrls[c] # NoPage => vraddrl[vraddrls[c]] # NoFrame
FifoInv == TypeOK /\ SlotsLive /\ SlotsDistinct

\* Once drawscr has invalidated the screen's chunk, the next write to any page
\* there takes the slow path, which marks the dirty buffer.
ScreenWritesSeen ==
    [][\A chunk \in VideoChunks : cp15_tlb_invalidate_physical(chunk) =>
         \A p \in Pages : vwaddrl'[p] # NoFrame => Chunk[vwaddrl'[p]] # chunk]_vars
=============================================================================
