---------------------------- MODULE MemoryProofs ----------------------------
(***************************************************************************)
(* Theorems about the translation caches, for every number of pages,       *)
(* frames, slots, tables and register values; and about the frames that    *)
(* are drawn from the memory behind them: their types, for any set of      *)
(* drawing threads, and, when the machine thread alone calls drawscr, that *)
(* no changed page is missed and the two dirty buffers are never shared.   *)
(***************************************************************************)
EXTENDS Mmu, Vidc, TLAPS

-----------------------------------------------------------------------------
\* The translation caches

USE DEF PageOrNone, FrameOrNone, TlbSlots, VaSlots

LEMMA SlotWraps ==
    ASSUME NEW n \in Nat \ {0}, NEW i \in 0 .. n - 1
    PROVE  (i + 1) % n \in 0 .. n - 1
  OBVIOUS

LEMMA WalkType ==
    ASSUME NEW p \in Pages, TypeOK
    PROVE  Desc(p).frame \in Frames
  BY GuestAssumption DEF TypeOK, Desc, DescType

LEMMA TranslateType ==
    ASSUME NEW p \in Pages, TypeOK
    PROVE  TranslateFrame(p) \in Frames
  BY WalkType DEF TranslateFrame, TlbHit, TypeOK

LEMMA TranslateKeepsTypes ==
    ASSUME NEW p \in Pages, TypeOK, Translate(p)
    PROVE  /\ tlbcache' \in [Pages -> FrameOrNone] /\ tlbcache2' \in [TlbSlots -> PageOrNone]
           /\ tlbcachepos' \in TlbSlots
<1>1. CASE TlbHit(p)
  BY <1>1 DEF Translate, tlbVars, TypeOK
<1>2. CASE ~TlbHit(p)
  <2>1. tlbcachepos' \in TlbSlots
    BY <1>2, SlotWraps, SizesAssumption DEF NextPos, Translate, cp15_tlb_add_entry, TypeOK
  <2> QED
    BY <1>2, <2>1, WalkType DEF Translate, cp15_tlb_add_entry, Drop, TypeOK
<1> QED BY <1>1, <1>2

LEMMA GrantsType ==
    ASSUME NEW on, NEW sr, NEW dac, NEW table
    PROVE  Grants(on, sr, dac, table) \in [Pages -> SUBSET (Frames \X BOOLEAN \X BOOLEAN)]
  BY DEF Grants

LEMMA FoundTypes ==
    ASSUME TypeOK, NEW k \in AccessKinds, NEW p \in Pages, NEW write, NEW priv,
           Found(k, p, write, priv)
    PROVE  /\ tlbcache' \in [Pages -> FrameOrNone] /\ tlbcache2' \in [TlbSlots -> PageOrNone]
           /\ tlbcachepos' \in TlbSlots
           /\ memcache' \in [AccessKinds -> [page : PageOrNone, frame : Frames]]
           /\ memcache'[k].page = p /\ memcache'[k].frame \in Frames
           /\ armirq' = armirq
<1>1. CASE memcache[k].page = p /\ UNCHANGED <<tlbVars, memcache>>
  BY <1>1 DEF Found, tlbVars, TypeOK
<1>2. CASE /\ Translate(p)
           /\ memcache' = [memcache EXCEPT ![k] = [page |-> p, frame |-> TranslateFrame(p)]]
  BY <1>2, TranslateType, TranslateKeepsTypes DEF Found, TypeOK
<1> QED BY <1>1, <1>2 DEF Found

LEMMA AbortsTypes ==
    ASSUME TypeOK, NEW k \in AccessKinds, NEW p \in Pages, NEW write, NEW priv,
           Aborts(k, p, write, priv)
    PROVE  /\ UNCHANGED tlbVars /\ armirq' = "data"
           /\ memcache' \in [AccessKinds -> [page : PageOrNone, frame : Frames]]
  BY NamesAssumption, MemoryAssumption DEF Aborts, NoEntry, ZeroFrame, TypeOK

LEMMA FillReadTypes ==
    ASSUME NEW p \in Pages, NEW f \in Frames, TypeOK, FillRead(p, f)
    PROVE  /\ vraddrl' \in [Pages -> FrameOrNone]
           /\ vraddrls' \in [VaSlots -> PageOrNone]
           /\ vraddrlpos' \in VaSlots
<1>1. CASE vradd(p, f)
  BY <1>1, SlotWraps, SizesAssumption DEF NextPos, vradd, Drop, TypeOK
<1>2. CASE UNCHANGED rdVars
  BY <1>2 DEF rdVars, TypeOK
<1> QED BY <1>1, <1>2 DEF FillRead

LEMMA FillWriteTypes ==
    ASSUME NEW p \in Pages, NEW f \in Frames, TypeOK, FillWrite(p, f)
    PROVE  /\ vwaddrl' \in [Pages -> FrameOrNone]
           /\ vwaddrls' \in [VaSlots -> PageOrNone]
           /\ vwaddrphys' \in [VaSlots -> FrameOrNone]
           /\ vwaddrlpos' \in VaSlots
<1>1. CASE vwadd(p, f)
  BY <1>1, SlotWraps, SizesAssumption DEF NextPos, vwadd, Drop, TypeOK
<1>2. CASE UNCHANGED wrVars
  BY <1>2 DEF wrVars, TypeOK
<1> QED BY <1>1, <1>2 DEF FillWrite

LEMMA FlushTypes ==
    ASSUME TypeOK, Cp15Flushes
    PROVE  /\ memmode' \in BOOLEAN /\ armirq' = armirq /\ stray' = stray
           /\ tlbcache' \in [Pages -> FrameOrNone] /\ tlbcache2' \in [TlbSlots -> PageOrNone]
           /\ vraddrl' \in [Pages -> FrameOrNone] /\ vraddrls' \in [VaSlots -> PageOrNone]
           /\ vwaddrl' \in [Pages -> FrameOrNone] /\ vwaddrls' \in [VaSlots -> PageOrNone]
           /\ vwaddrphys' \in [VaSlots -> FrameOrNone]
           /\ tlbcachepos' = tlbcachepos /\ vraddrlpos' = vraddrlpos /\ vwaddrlpos' = vwaddrlpos
           /\ memcache' \in [AccessKinds -> [page : PageOrNone, frame : Frames]]
           /\ pccache' \in PageOrNone /\ pccache2' \in FrameOrNone
           /\ legit' \in [Pages -> SUBSET (Frames \X BOOLEAN \X BOOLEAN)]
<1>1. ZeroFrame \in Frames
  BY NamesAssumption, MemoryAssumption DEF ZeroFrame
<1>2. legit' \in [Pages -> SUBSET (Frames \X BOOLEAN \X BOOLEAN)]
  BY GrantsType DEF Cp15Flushes, RestartHistory
<1>3. memcache' \in [AccessKinds -> [page : PageOrNone, frame : Frames]]
  BY <1>1 DEF Cp15Flushes, cp15_tlb_flush_all, clearmemcache, NoEntry
<1> QED
  BY <1>2, <1>3 DEF Cp15Flushes, cp15_tlb_flush_all, cp15_tlb_flush, cp15_vaddr_reset,
                    DropListed, ForgetFetchPage, TypeOK

LEMMA InitTypes == Init => TypeOK
<1> SUFFICES ASSUME Init PROVE TypeOK
  OBVIOUS
<1>1. ZeroFrame \in Frames
  BY NamesAssumption, MemoryAssumption DEF ZeroFrame
<1>2. 0 \in TlbSlots /\ 0 \in VaSlots
  BY SizesAssumption
<1>3. legit \in [Pages -> SUBSET (Frames \X BOOLEAN \X BOOLEAN)]
  BY GrantsType DEF Init
<1>4. memcache \in [AccessKinds -> [page : PageOrNone, frame : Frames]]
  BY <1>1, NamesAssumption DEF Init
<1>5. /\ tables \in [Tables -> [Pages -> Descs]] /\ domain_access_control \in DacValues
      /\ rs \in RsValues /\ translation_table \in Tables
  BY GuestAssumption DEF Init
<1> QED
  BY <1>1, <1>2, <1>3, <1>4, <1>5 DEF Init, TypeOK

LEMMA NextTypes == TypeOK /\ [Next]_vars => TypeOK'
<1> SUFFICES ASSUME TypeOK, [Next]_vars PROVE TypeOK'
  OBVIOUS
<1>1. ASSUME NEW p \in Pages, NEW priv \in BOOLEAN, Read(p, priv) PROVE TypeOK'
  <2>0. "read" \in AccessKinds
    BY DEF AccessKinds
  <2>1. CASE Found("read", p, FALSE, priv) /\ FillRead(p, memcache'["read"].frame)
    BY <1>1, <2>0, <2>1, FoundTypes, FillReadTypes
       DEF Read, TypeOK, guestVars, wrVars, pcVars
  <2>2. CASE Aborts("read", p, FALSE, priv) /\ UNCHANGED rdVars
    BY <1>1, <2>0, <2>2, AbortsTypes
       DEF Read, TypeOK, guestVars, tlbVars, rdVars, wrVars, pcVars
  <2> QED BY <1>1, <2>1, <2>2 DEF Read
<1>2. ASSUME NEW p \in Pages, ReadUnmapped(p) PROVE TypeOK'
  <2>1. Identity[p] \in Frames
    BY MemoryAssumption
  <2> QED
    BY <1>2, <2>1, SlotWraps, SizesAssumption
       DEF NextPos, ReadUnmapped, vradd, Drop, TypeOK, guestVars, tlbVars, wrVars, pcVars
<1>3. ASSUME NEW k \in {"word", "byte"}, NEW p \in Pages, NEW priv \in BOOLEAN,
             Write(k, p, priv)
      PROVE  TypeOK'
  <2>0. k \in AccessKinds
    BY DEF AccessKinds
  <2>1. CASE Found(k, p, TRUE, priv) /\ FillWrite(p, memcache'[k].frame)
    BY <1>3, <2>0, <2>1, FoundTypes, FillWriteTypes
       DEF Write, TypeOK, guestVars, rdVars, pcVars
  <2>2. CASE Aborts(k, p, TRUE, priv) /\ UNCHANGED wrVars
    BY <1>3, <2>0, <2>2, AbortsTypes
       DEF Write, TypeOK, guestVars, tlbVars, rdVars, wrVars, pcVars
  <2> QED BY <1>3, <2>1, <2>2 DEF Write
<1>4. ASSUME NEW p \in Pages, Fetch(p) PROVE TypeOK'
  <2>1. tlbcache' \in [Pages -> FrameOrNone] /\ tlbcache2' \in [TlbSlots -> PageOrNone]
        /\ tlbcachepos' \in TlbSlots
    BY <1>4, TranslateKeepsTypes DEF Fetch, tlbVars, TypeOK
  <2>2. pccache' \in PageOrNone /\ pccache2' \in FrameOrNone
    BY <1>4, TranslateType, MemoryAssumption DEF Fetch, ForgetFetchPage
  <2>3. vwaddrl' \in [Pages -> FrameOrNone]
    BY <1>4 DEF Fetch, Drop, TypeOK
  <2> QED
    BY <1>4, <2>1, <2>2, <2>3 DEF Fetch, TypeOK, guestVars, rdVars
<1>5. CASE TakeAbort
  BY <1>5 DEF TakeAbort, TypeOK, guestVars, tlbVars, rdVars, wrVars, pcVars
<1>6. ASSUME NEW priv \in BOOLEAN, updatemode(priv) PROVE TypeOK'
  BY <1>6 DEF updatemode, TypeOK, guestVars, tlbVars, rdVars, wrVars, pcVars
<1>7. ASSUME NEW on \in BOOLEAN, NEW sr \in RsValues, Control(on, sr) PROVE TypeOK'
  BY <1>7, FlushTypes DEF Control, TypeOK
<1>8. ASSUME NEW t \in Tables, TranslationTableBase(t) PROVE TypeOK'
  BY <1>8, FlushTypes DEF TranslationTableBase, TypeOK
<1>9. ASSUME NEW v \in DacValues, DomainAccessControl(v) PROVE TypeOK'
  BY <1>9, FlushTypes DEF DomainAccessControl, TypeOK
<1>10. CASE TlbOperation
  BY <1>10, FlushTypes DEF TlbOperation, guestVars, TypeOK
<1>11. CASE FlushCache
  BY <1>11 DEF FlushCache, ForgetFetchPage, TypeOK, guestVars, tlbVars, rdVars, wrVars
<1>12. ASSUME NEW t \in Tables, NEW p \in Pages, NEW d \in Descs, StoreDescriptor(t, p, d)
       PROVE  TypeOK'
  <2>1. legit' \in [Pages -> SUBSET (Frames \X BOOLEAN \X BOOLEAN)]
    BY <1>12, GrantsType DEF StoreDescriptor, TypeOK
  <2> QED
    BY <1>12, <2>1 DEF StoreDescriptor, TypeOK, tlbVars, rdVars, wrVars, pcVars
<1>13. ASSUME NEW chunk \in VideoChunks, cp15_tlb_invalidate_physical(chunk) PROVE TypeOK'
  BY <1>13 DEF InChunk, cp15_tlb_invalidate_physical, DropListed, TypeOK, guestVars, tlbVars, rdVars, pcVars
<1>14. CASE UNCHANGED vars
  BY <1>14 DEF vars, TypeOK, guestVars, tlbVars, rdVars, wrVars, pcVars
<1> QED
  BY <1>1, <1>2, <1>3, <1>4, <1>5, <1>6, <1>7, <1>8, <1>9, <1>10, <1>11, <1>12, <1>13, <1>14
     DEF Next

\* Every register, FIFO and cache keeps its type.
THEOREM TypesHold == Spec => []TypeOK
  BY InitTypes, NextTypes, PTL DEF Spec

-----------------------------------------------------------------------------
(* A flush finds every entry, and no cache outlives a flush.               *)

LEMMA TranslateCovered ==
    ASSUME TypeOK, TlbCovered, NEW p \in Pages, Translate(p)
    PROVE  TlbCovered'
<1>1. CASE TlbHit(p)
  BY <1>1 DEF Translate, tlbVars, TlbCovered
<1>2. CASE ~TlbHit(p)
  <2> SUFFICES ASSUME NEW q \in Pages, tlbcache'[q] # NoFrame
               PROVE  \E c \in TlbSlots : tlbcache2'[c] = q
    BY DEF TlbCovered
  <2>1. tlbcachepos \in TlbSlots /\ tlbcache2'[tlbcachepos] = p
    BY <1>2 DEF Translate, cp15_tlb_add_entry, TypeOK
  <2>2. CASE q # p
    <3>1. q # tlbcache2[tlbcachepos] /\ tlbcache[q] # NoFrame
      BY <1>2, <2>2 DEF Translate, cp15_tlb_add_entry, Drop, TypeOK
    <3>2. PICK c \in TlbSlots : tlbcache2[c] = q
      BY <3>1 DEF TlbCovered
    <3> QED BY <1>2, <3>1, <3>2 DEF Translate, cp15_tlb_add_entry, TypeOK
  <2> QED BY <2>1, <2>2
<1> QED BY <1>1, <1>2

LEMMA ReadAddCovered ==
    ASSUME TypeOK, ReadCovered, NEW p \in Pages, NEW f \in Frames, vradd(p, f)
    PROVE  ReadCovered'
<1> SUFFICES ASSUME NEW q \in Pages, vraddrl'[q] # NoFrame
             PROVE  \E c \in VaSlots : vraddrls'[c] = q
  BY DEF ReadCovered
<1>1. vraddrlpos \in VaSlots /\ vraddrls'[vraddrlpos] = p
  BY DEF vradd, TypeOK
<1>2. CASE q # p
  <2>1. q # vraddrls[vraddrlpos] /\ vraddrl[q] # NoFrame
    BY <1>2 DEF vradd, Drop, TypeOK
  <2>2. PICK c \in VaSlots : vraddrls[c] = q
    BY <2>1 DEF ReadCovered
  <2> QED BY <2>1, <2>2 DEF vradd, TypeOK
<1> QED BY <1>1, <1>2

LEMMA WriteAddCovered ==
    ASSUME TypeOK, WriteCovered, NEW p \in Pages, NEW f \in Frames, vwadd(p, f)
    PROVE  WriteCovered'
<1> SUFFICES ASSUME NEW q \in Pages, vwaddrl'[q] # NoFrame
             PROVE  \E c \in VaSlots : vwaddrls'[c] = q /\ vwaddrphys'[c] = vwaddrl'[q]
  BY DEF WriteCovered
<1>0. vwaddrlpos \in VaSlots
  BY DEF TypeOK
<1>1. CASE q = p
  BY <1>0, <1>1 DEF vwadd, Drop, TypeOK
<1>2. CASE q # p
  <2>1. q # vwaddrls[vwaddrlpos] /\ vwaddrl[q] # NoFrame /\ vwaddrl'[q] = vwaddrl[q]
    BY <1>2 DEF vwadd, Drop, TypeOK
  <2>2. PICK c \in VaSlots : vwaddrls[c] = q /\ vwaddrphys[c] = vwaddrl[q]
    BY <2>1 DEF WriteCovered
  <2>3. c # vwaddrlpos
    BY <2>1, <2>2
  <2> QED BY <2>1, <2>2, <2>3 DEF vwadd, TypeOK
<1> QED BY <1>1, <1>2

LEMMA FillReadCovered ==
    ASSUME TypeOK, ReadCovered, NEW p \in Pages, NEW f \in Frames, FillRead(p, f)
    PROVE  ReadCovered'
  BY ReadAddCovered DEF FillRead, rdVars, ReadCovered

LEMMA FillWriteCovered ==
    ASSUME TypeOK, WriteCovered, NEW p \in Pages, NEW f \in Frames, FillWrite(p, f)
    PROVE  WriteCovered'
  BY WriteAddCovered DEF FillWrite, wrVars, WriteCovered

LEMMA FlushLeavesNothing ==
    ASSUME TypeOK, Covered, Cp15Flushes
    PROVE  /\ \A q \in Pages : tlbcache'[q] = NoFrame /\ vraddrl'[q] = NoFrame
                                /\ vwaddrl'[q] = NoFrame
           /\ \A k \in AccessKinds : memcache'[k].page = NoPage
           /\ pccache' = NoPage
<1>1. \A q \in Pages : tlbcache'[q] = NoFrame
  BY DEF DropListed, Covered, TlbCovered, Cp15Flushes, cp15_tlb_flush_all, cp15_tlb_flush
<1>2. \A q \in Pages : vraddrl'[q] = NoFrame
  BY DEF DropListed, Covered, ReadCovered, Cp15Flushes, cp15_tlb_flush_all, cp15_vaddr_reset
<1>3. \A q \in Pages : vwaddrl[q] # NoFrame => \E c \in VaSlots : vwaddrls[c] = q
  BY DEF Covered, WriteCovered
<1>4. \A q \in Pages : vwaddrl'[q] = NoFrame
  BY <1>3 DEF DropListed, Cp15Flushes, cp15_tlb_flush_all, cp15_vaddr_reset
<1>5. \A k \in AccessKinds : memcache'[k].page = NoPage
  BY DEF Cp15Flushes, cp15_tlb_flush_all, clearmemcache, NoEntry
<1>6. pccache' = NoPage
  BY DEF Cp15Flushes, cp15_tlb_flush_all, ForgetFetchPage
<1> QED BY <1>1, <1>2, <1>4, <1>5, <1>6

LEMMA FlushKeeps ==
    ASSUME TypeOK, Covered, Cp15Flushes
    PROVE  Covered' /\ HistoryCurrent' /\ Fresh'
<1>1. Covered' /\ Fresh'
  BY FlushLeavesNothing
     DEF Covered, TlbCovered, ReadCovered, WriteCovered,
         Fresh, TlbFresh, ReadFresh, WriteFresh, CacheFresh, FetchFresh
<1>2. HistoryCurrent'
  BY DEF Cp15Flushes, RestartHistory, HistoryCurrent
<1> QED BY <1>1, <1>2

LEMMA TranslateEntitled ==
    ASSUME CacheInv, mmu, NEW p \in Pages, NEW write \in BOOLEAN, NEW priv \in BOOLEAN,
           ~TranslateFaults(p, write, priv)
    PROVE  MayReach(p, TranslateFrame(p))
<1>1. CASE TlbHit(p)
  BY <1>1 DEF TlbHit, TranslateFrame, CacheInv, Fresh, TlbFresh
<1>2. CASE ~TlbHit(p)
  <2> DEFINE g == <<Desc(p).frame, priv, write>>
  <2>1. g \in Frames \X BOOLEAN \X BOOLEAN /\ g[1] = Desc(p).frame /\ g[2] = priv /\ g[3] = write
    BY WalkType DEF CacheInv
  <2>2. ~WalkFaults(Desc(p), g[3], g[2], rs, domain_access_control)
    BY <1>2, <2>1 DEF TranslateFaults
  <2>3. g \in Grants(mmu, rs, domain_access_control, tables[translation_table])[p]
    BY <2>1, <2>2 DEF Grants, Desc
  <2>4. g \in legit[p]
    BY <2>3 DEF CacheInv, HistoryCurrent
  <2> QED BY <1>2, <2>4 DEF TlbHit, TranslateFrame, MayReach
<1> QED BY <1>1, <1>2

LEMMA IdentityEntitled ==
    ASSUME CacheInv, ~mmu, NEW p \in Pages
    PROVE  MayReach(p, Identity[p])
<1> DEFINE g == <<Identity[p], TRUE, TRUE>>
<1>1. g \in Frames \X BOOLEAN \X BOOLEAN /\ g[1] = Identity[p]
  BY MemoryAssumption
<1>2. g \in Grants(mmu, rs, domain_access_control, tables[translation_table])[p]
  BY <1>1 DEF Grants
<1>3. g \in legit[p]
  BY <1>2 DEF CacheInv, HistoryCurrent
<1> QED BY <1>3 DEF MayReach

LEMMA TranslateFresh ==
    ASSUME CacheInv, mmu, NEW p \in Pages, NEW write \in BOOLEAN, NEW priv \in BOOLEAN,
           ~TranslateFaults(p, write, priv), Translate(p), legit' = legit
    PROVE  TlbFresh'
<1>1. CASE TlbHit(p)
  BY <1>1 DEF Translate, tlbVars, CacheInv, Fresh, TlbFresh, MayReach
<1>2. CASE ~TlbHit(p)
  <2>1. MayReach(p, Desc(p).frame)
    BY <1>2, TranslateEntitled DEF TranslateFrame
  <2> QED
    BY <1>2, <2>1 DEF Translate, cp15_tlb_add_entry, Drop, CacheInv, TypeOK, Fresh, TlbFresh,
                      MayReach
<1> QED BY <1>1, <1>2

LEMMA FoundKeeps ==
    ASSUME CacheInv, mmu, NEW k \in AccessKinds, NEW p \in Pages, NEW write \in BOOLEAN,
           NEW priv \in BOOLEAN, Found(k, p, write, priv), legit' = legit
    PROVE  /\ TlbCovered' /\ TlbFresh' /\ CacheFresh'
           /\ memcache'[k].frame \in Frames /\ MayReach(p, memcache'[k].frame)
<1>0. p # NoPage
  BY NamesAssumption
<1>1. CASE memcache[k].page = p /\ UNCHANGED <<tlbVars, memcache>>
  BY <1>0, <1>1 DEF tlbVars, CacheInv, TypeOK, Covered, TlbCovered, Fresh, TlbFresh, CacheFresh, MayReach
<1>2. CASE /\ ~TranslateFaults(p, write, priv) /\ Translate(p)
           /\ memcache' = [memcache EXCEPT ![k] = [page |-> p, frame |-> TranslateFrame(p)]]
  <2>1. MayReach(p, TranslateFrame(p)) /\ TranslateFrame(p) \in Frames
    BY <1>2, TranslateEntitled, TranslateType DEF CacheInv
  <2>2. TlbCovered' /\ TlbFresh'
    BY <1>2, TranslateCovered, TranslateFresh DEF CacheInv, Covered
  <2>3. CacheFresh'
    BY <1>2, <2>1 DEF CacheInv, TypeOK, Fresh, CacheFresh, MayReach
  <2> QED BY <1>2, <2>1, <2>2, <2>3 DEF CacheInv, TypeOK
<1> QED BY <1>1, <1>2 DEF Found

LEMMA AbortsKeeps ==
    ASSUME CacheInv, NEW k \in AccessKinds, NEW p \in Pages, NEW write, NEW priv,
           Aborts(k, p, write, priv), legit' = legit
    PROVE  TlbCovered' /\ TlbFresh' /\ CacheFresh'
  BY DEF Aborts, NoEntry, tlbVars, CacheInv, TypeOK, Covered, TlbCovered, Fresh, TlbFresh,
         CacheFresh, MayReach

LEMMA ReadAddFresh ==
    ASSUME CacheInv, NEW p \in Pages, NEW f \in Frames, MayReach(p, f), vradd(p, f),
           legit' = legit
    PROVE  ReadFresh'
  BY DEF vradd, Drop, CacheInv, TypeOK, Fresh, ReadFresh, MayReach

LEMMA WriteAddFresh ==
    ASSUME CacheInv, NEW p \in Pages, NEW f \in Frames, MayReach(p, f), vwadd(p, f),
           legit' = legit
    PROVE  WriteFresh'
  BY DEF vwadd, Drop, CacheInv, TypeOK, Fresh, WriteFresh, MayReach

LEMMA InitCacheInv == Init => CacheInv
<1> SUFFICES ASSUME Init PROVE CacheInv
  OBVIOUS
<1>1. TypeOK
  BY InitTypes
<1>2. Covered /\ HistoryCurrent
  BY DEF Init, Covered, TlbCovered, ReadCovered, WriteCovered, HistoryCurrent
<1>3. TlbFresh /\ ReadFresh /\ WriteFresh /\ FetchFresh
  BY DEF Init, TlbFresh, ReadFresh, WriteFresh, FetchFresh
<1>4. MayReach(ZeroPage, ZeroFrame)
  <2> DEFINE g == <<ZeroFrame, TRUE, TRUE>>
  <2>1. g \in Frames \X BOOLEAN \X BOOLEAN /\ g[1] = Identity[ZeroPage]
    BY NamesAssumption, MemoryAssumption DEF ZeroFrame
  <2>2. g \in legit[ZeroPage]
    BY <2>1, NamesAssumption DEF Init, Grants
  <2> QED BY <2>2 DEF MayReach
<1>5. CacheFresh
  BY <1>4 DEF Init, CacheFresh
<1> QED BY <1>1, <1>2, <1>3, <1>5 DEF CacheInv, Fresh

LEMMA NextCacheInv == CacheInv /\ [Next]_vars => CacheInv'
<1> SUFFICES ASSUME CacheInv, [Next]_vars PROVE Covered' /\ HistoryCurrent' /\ Fresh'
  BY NextTypes DEF CacheInv
<1> USE DEF CacheInv
<1>1. ASSUME NEW p \in Pages, NEW priv \in BOOLEAN, Read(p, priv)
      PROVE  Covered' /\ HistoryCurrent' /\ Fresh'
  <2>1. /\ UNCHANGED <<guestVars, wrVars, pcVars, legit>> /\ mmu /\ "read" \in AccessKinds
    BY <1>1 DEF Read, AccessKinds
  <2>2. HistoryCurrent' /\ WriteCovered' /\ WriteFresh' /\ FetchFresh'
    BY <2>1 DEF guestVars, wrVars, pcVars, HistoryCurrent, Covered, WriteCovered, Fresh, WriteFresh,
                FetchFresh, MayReach
  <2>3. CASE Found("read", p, FALSE, priv) /\ FillRead(p, memcache'["read"].frame)
    <3>1. /\ TlbCovered' /\ TlbFresh' /\ CacheFresh'
          /\ memcache'["read"].frame \in Frames /\ MayReach(p, memcache'["read"].frame)
      BY <2>1, <2>3, FoundKeeps
    <3>2. ReadCovered'
      BY <2>3, <3>1, FillReadCovered DEF Covered
    <3>3. ReadFresh'
      BY <2>1, <2>3, <3>1, ReadAddFresh DEF FillRead, rdVars, Fresh, ReadFresh, MayReach
    <3> QED BY <2>2, <3>1, <3>2, <3>3 DEF Covered, Fresh
  <2>4. CASE Aborts("read", p, FALSE, priv) /\ UNCHANGED rdVars
    <3>1. TlbCovered' /\ TlbFresh' /\ CacheFresh'
      BY <2>1, <2>4, AbortsKeeps
    <3>2. ReadCovered' /\ ReadFresh'
      BY <2>1, <2>4 DEF rdVars, Covered, ReadCovered, Fresh, ReadFresh, MayReach
    <3> QED BY <2>2, <3>1, <3>2 DEF Covered, Fresh
  <2> QED BY <1>1, <2>3, <2>4 DEF Read
<1>2. ASSUME NEW p \in Pages, ReadUnmapped(p)
      PROVE  Covered' /\ HistoryCurrent' /\ Fresh'
  <2>1. /\ UNCHANGED <<guestVars, tlbVars, wrVars, memcache, pcVars, legit>>
        /\ ~mmu /\ vradd(p, Identity[p]) /\ Identity[p] \in Frames
    BY <1>2, MemoryAssumption DEF ReadUnmapped
  <2>2. ReadCovered' /\ ReadFresh'
    BY <2>1, ReadAddCovered, ReadAddFresh, IdentityEntitled DEF Covered
  <2>3. HistoryCurrent' /\ TlbCovered' /\ WriteCovered'
    BY <2>1 DEF guestVars, tlbVars, wrVars, HistoryCurrent, Covered, TlbCovered, WriteCovered
  <2>4. TlbFresh' /\ WriteFresh' /\ CacheFresh' /\ FetchFresh'
    BY <2>1 DEF tlbVars, wrVars, pcVars, Fresh, TlbFresh, WriteFresh, CacheFresh, FetchFresh, MayReach
  <2> QED BY <2>2, <2>3, <2>4 DEF Covered, Fresh
<1>3. ASSUME NEW k \in {"word", "byte"}, NEW p \in Pages, NEW priv \in BOOLEAN,
             Write(k, p, priv)
      PROVE  Covered' /\ HistoryCurrent' /\ Fresh'
  <2>1. /\ UNCHANGED <<guestVars, rdVars, pcVars, legit>> /\ mmu /\ k \in AccessKinds
    BY <1>3 DEF Write, AccessKinds
  <2>2. HistoryCurrent' /\ ReadCovered' /\ ReadFresh' /\ FetchFresh'
    BY <2>1 DEF guestVars, rdVars, pcVars, HistoryCurrent, Covered, ReadCovered, Fresh, ReadFresh,
                FetchFresh, MayReach
  <2>3. CASE Found(k, p, TRUE, priv) /\ FillWrite(p, memcache'[k].frame)
    <3>1. /\ TlbCovered' /\ TlbFresh' /\ CacheFresh'
          /\ memcache'[k].frame \in Frames /\ MayReach(p, memcache'[k].frame)
      BY <2>1, <2>3, FoundKeeps
    <3>2. WriteCovered'
      BY <2>3, <3>1, FillWriteCovered DEF Covered
    <3>3. WriteFresh'
      BY <2>1, <2>3, <3>1, WriteAddFresh DEF FillWrite, wrVars, Fresh, WriteFresh, MayReach
    <3> QED BY <2>2, <3>1, <3>2, <3>3 DEF Covered, Fresh
  <2>4. CASE Aborts(k, p, TRUE, priv) /\ UNCHANGED wrVars
    <3>1. TlbCovered' /\ TlbFresh' /\ CacheFresh'
      BY <2>1, <2>4, AbortsKeeps
    <3>2. WriteCovered' /\ WriteFresh'
      BY <2>1, <2>4 DEF wrVars, Covered, WriteCovered, Fresh, WriteFresh, MayReach
    <3> QED BY <2>2, <3>1, <3>2 DEF Covered, Fresh
  <2> QED BY <1>3, <2>3, <2>4 DEF Write
<1>4. ASSUME NEW p \in Pages, Fetch(p)
      PROVE  Covered' /\ HistoryCurrent' /\ Fresh'
  <2>1. UNCHANGED <<guestVars, rdVars, vwaddrls, vwaddrphys, vwaddrlpos, memcache, legit>>
    BY <1>4 DEF Fetch
  <2>2. HistoryCurrent' /\ ReadCovered' /\ ReadFresh' /\ CacheFresh'
    BY <2>1 DEF guestVars, rdVars, HistoryCurrent, Covered, ReadCovered, Fresh, ReadFresh,
                CacheFresh, MayReach
  <2>3. \A q \in Pages : vwaddrl'[q] # NoFrame => vwaddrl[q] # NoFrame /\ vwaddrl'[q] = vwaddrl[q]
    BY <1>4 DEF Fetch, Drop
  <2>4. WriteCovered' /\ WriteFresh'
    BY <2>1, <2>3 DEF Covered, WriteCovered, Fresh, WriteFresh, MayReach
  <2>5. CASE mmu /\ TranslateFaults(p, FALSE, memmode)
    BY <1>4, <2>1, <2>2, <2>4, <2>5
       DEF Fetch, ForgetFetchPage, tlbVars, Covered, TlbCovered, Fresh, TlbFresh, FetchFresh, MayReach
  <2>6. CASE mmu /\ ~TranslateFaults(p, FALSE, memmode)
    <3>1. Translate(p) /\ memmode \in BOOLEAN
      BY <1>4, <2>6 DEF Fetch, TypeOK
    <3>2. TlbCovered' /\ TlbFresh'
      BY <2>1, <2>6, <3>1, TranslateCovered, TranslateFresh DEF Covered
    <3>3. MayReach(p, TranslateFrame(p)) /\ TranslateFrame(p) \in Frames
      BY <2>6, <3>1, TranslateEntitled, TranslateType
    <3>4. FetchFresh'
      BY <1>4, <2>1, <2>6, <3>3 DEF Fetch, FetchFresh, MayReach
    <3> QED BY <2>2, <2>4, <3>2, <3>4 DEF Covered, Fresh
  <2>7. CASE ~mmu
    <3>1. UNCHANGED tlbVars /\ MayReach(p, Identity[p]) /\ Identity[p] \in Frames
      BY <1>4, <2>7, IdentityEntitled, MemoryAssumption DEF Fetch
    <3>2. TlbCovered' /\ TlbFresh'
      BY <2>1, <3>1 DEF tlbVars, Covered, TlbCovered, Fresh, TlbFresh, MayReach
    <3>3. FetchFresh'
      BY <1>4, <2>1, <2>7, <3>1 DEF Fetch, FetchFresh, MayReach
    <3> QED BY <2>2, <2>4, <3>2, <3>3 DEF Covered, Fresh
  <2> QED BY <2>5, <2>6, <2>7
<1>5. ASSUME UNCHANGED <<guestVars, tlbVars, rdVars, wrVars, memcache, pcVars, legit>>
      PROVE  Covered' /\ HistoryCurrent' /\ Fresh'
  <2>1. Covered' /\ HistoryCurrent'
    BY <1>5 DEF guestVars, tlbVars, rdVars, wrVars, HistoryCurrent, Covered, TlbCovered,
                ReadCovered, WriteCovered
  <2>2. Fresh'
    BY <1>5 DEF tlbVars, rdVars, wrVars, pcVars, Fresh, TlbFresh, ReadFresh, WriteFresh, CacheFresh,
                FetchFresh, MayReach
  <2> QED BY <2>1, <2>2
<1>6. CASE TakeAbort \/ (\E priv \in BOOLEAN : updatemode(priv)) \/ UNCHANGED vars
  BY <1>5, <1>6 DEF TakeAbort, updatemode, vars
<1>7. CASE \/ \E on \in BOOLEAN, sr \in RsValues : Control(on, sr)
           \/ \E t \in Tables : TranslationTableBase(t)
           \/ \E v \in DacValues : DomainAccessControl(v)
           \/ TlbOperation
  BY <1>7, FlushKeeps DEF Control, TranslationTableBase, DomainAccessControl, TlbOperation
<1>8. CASE FlushCache
  <2>1. Covered' /\ HistoryCurrent'
    BY <1>8 DEF FlushCache, guestVars, tlbVars, rdVars, wrVars, HistoryCurrent, Covered,
                TlbCovered, ReadCovered, WriteCovered
  <2>2. Fresh'
    BY <1>8 DEF FlushCache, ForgetFetchPage, tlbVars, rdVars, wrVars, Fresh, TlbFresh, ReadFresh,
                WriteFresh, CacheFresh, FetchFresh, MayReach
  <2> QED BY <2>1, <2>2
<1>9. ASSUME NEW t \in Tables, NEW p \in Pages, NEW d \in Descs, StoreDescriptor(t, p, d)
      PROVE  Covered' /\ HistoryCurrent' /\ Fresh'
  <2>1. /\ UNCHANGED <<mmu, rs, translation_table, domain_access_control, tlbVars, rdVars,
                       wrVars, memcache, pcVars>>
        /\ legit' = [q \in Pages |->
                       legit[q] \cup Grants(mmu, rs, domain_access_control,
                                            tables'[translation_table])[q]]
    BY <1>9 DEF StoreDescriptor
  <2>2. Covered'
    BY <2>1 DEF tlbVars, rdVars, wrVars, Covered, TlbCovered, ReadCovered, WriteCovered
  <2>3. HistoryCurrent'
    BY <2>1 DEF HistoryCurrent
  <2>4. ASSUME NEW q \in Pages, NEW f \in Frames, MayReach(q, f) PROVE MayReach(q, f)'
    BY <2>1, <2>4 DEF MayReach
  <2>5. TlbFresh' /\ ReadFresh' /\ WriteFresh'
    BY <2>1, <2>4 DEF tlbVars, rdVars, wrVars, TypeOK, Fresh, TlbFresh, ReadFresh, WriteFresh
  <2>6. CacheFresh'
    BY <2>1, <2>4 DEF TypeOK, Fresh, CacheFresh
  <2>7. FetchFresh'
    BY <2>1, <2>4 DEF pcVars, TypeOK, Fresh, FetchFresh
  <2> QED BY <2>2, <2>3, <2>5, <2>6, <2>7 DEF Fresh
<1>10. ASSUME NEW chunk \in VideoChunks, cp15_tlb_invalidate_physical(chunk)
       PROVE  Covered' /\ HistoryCurrent' /\ Fresh'
  <2>1. UNCHANGED <<guestVars, tlbVars, rdVars, memcache, pcVars, legit>>
    BY <1>10 DEF InChunk, cp15_tlb_invalidate_physical
  <2>2. HistoryCurrent' /\ TlbCovered' /\ ReadCovered'
    BY <2>1 DEF guestVars, tlbVars, rdVars, HistoryCurrent, Covered, TlbCovered, ReadCovered
  <2>3. TlbFresh' /\ ReadFresh' /\ CacheFresh' /\ FetchFresh'
    BY <2>1 DEF tlbVars, rdVars, pcVars, Fresh, TlbFresh, ReadFresh, CacheFresh, FetchFresh, MayReach
  <2>4. \A q \in Pages : vwaddrl'[q] # NoFrame => vwaddrl[q] # NoFrame /\ vwaddrl'[q] = vwaddrl[q]
    BY <1>10 DEF InChunk, cp15_tlb_invalidate_physical, DropListed
  <2>5. WriteFresh'
    BY <2>1, <2>4 DEF Fresh, WriteFresh, MayReach
  <2>6. WriteCovered'
    BY <1>10, <2>4 DEF InChunk, cp15_tlb_invalidate_physical, DropListed, Covered, WriteCovered
  <2> QED BY <2>2, <2>3, <2>5, <2>6 DEF Covered, Fresh
<1> QED
  BY <1>1, <1>2, <1>3, <1>4, <1>6, <1>7, <1>8, <1>9, <1>10 DEF Next

\* The inductive invariant of the translation caches holds.
THEOREM CacheInvariant == Spec => []CacheInv
  BY InitCacheInv, NextCacheInv, PTL DEF Spec

\* Every cached translation is where a flush, an eviction or drawscr's
\* invalidation finds it (cp15_tlb_flush, cp15_vaddr_reset, vradd, vwadd).
THEOREM CoveredHolds == Spec => []Covered
<1>1. CacheInv => Covered
  BY DEF CacheInv
<1> QED BY <1>1, CacheInvariant, PTL

\* No cache answers with a frame that the page tables have not granted the page
\* since the last cp15_tlb_flush_all, whatever the sizes of the FIFOs.
THEOREM FreshHolds == Spec => []Fresh
<1>1. CacheInv => Fresh
  BY DEF CacheInv
<1> QED BY <1>1, CacheInvariant, PTL

-----------------------------------------------------------------------------
(* No page takes two slots of the translation FIFO or of the read FIFO.    *)

TlbSlotsLive == \A c \in TlbSlots : tlbcache2[c] # NoPage => tlbcache[tlbcache2[c]] # NoFrame
ReadSlotsLive == \A c \in VaSlots : vraddrls[c] # NoPage => vraddrl[vraddrls[c]] # NoFrame
TlbSlotsDistinct ==
    \A c, d \in TlbSlots : tlbcache2[c] = tlbcache2[d] /\ tlbcache2[c] # NoPage => c = d
ReadSlotsDistinct ==
    \A c, d \in VaSlots : vraddrls[c] = vraddrls[d] /\ vraddrls[c] # NoPage => c = d

LEMMA TranslateSlots ==
    ASSUME TypeOK, TlbSlotsLive, TlbSlotsDistinct, NEW p \in Pages, Translate(p)
    PROVE  TlbSlotsLive' /\ TlbSlotsDistinct'
<1>1. CASE TlbHit(p)
  BY <1>1 DEF Translate, tlbVars, TlbSlotsLive, TlbSlotsDistinct
<1>2. CASE ~TlbHit(p)
  <2>1. /\ tlbcachepos \in TlbSlots /\ tlbcache2 \in [TlbSlots -> PageOrNone]
        /\ tlbcache2' = [tlbcache2 EXCEPT ![tlbcachepos] = p]
    BY <1>2 DEF Translate, cp15_tlb_add_entry, TypeOK
  <2>2. \A c \in TlbSlots : tlbcache2[c] # p
    BY <1>2, NamesAssumption DEF TlbHit, TlbSlotsLive
  <2>3. TlbSlotsDistinct'
    BY <2>1, <2>2 DEF TlbSlotsDistinct
  <2>4. ASSUME NEW c \in TlbSlots, tlbcache2'[c] # NoPage
        PROVE  tlbcache'[tlbcache2'[c]] # NoFrame
    <3>1. CASE c = tlbcachepos
      BY <1>2, <2>1, <3>1, WalkType, NamesAssumption
         DEF Translate, cp15_tlb_add_entry, Drop, TypeOK
    <3>2. CASE c # tlbcachepos
      <4>1. tlbcache2'[c] = tlbcache2[c] /\ tlbcache2[c] \in Pages
        BY <2>1, <2>4, <3>2
      <4>2. tlbcache2[c] # tlbcache2[tlbcachepos] /\ tlbcache[tlbcache2[c]] # NoFrame
        BY <2>1, <2>4, <3>2, <4>1 DEF TlbSlotsDistinct, TlbSlotsLive
      <4> QED
        BY <1>2, <2>2, <4>1, <4>2, ZenonT(30) DEF Translate, cp15_tlb_add_entry, Drop, TypeOK
    <3> QED BY <3>1, <3>2
  <2> QED BY <2>3, <2>4 DEF TlbSlotsLive
<1> QED BY <1>1, <1>2

LEMMA ReadAddSlots ==
    ASSUME TypeOK, ReadSlotsLive, ReadSlotsDistinct, NEW p \in Pages, NEW f \in Frames,
           vraddrl[p] = NoFrame, vradd(p, f)
    PROVE  ReadSlotsLive' /\ ReadSlotsDistinct'
<1>1. /\ vraddrlpos \in VaSlots /\ vraddrls \in [VaSlots -> PageOrNone]
      /\ vraddrls' = [vraddrls EXCEPT ![vraddrlpos] = p]
  BY DEF vradd, TypeOK
<1>2. \A c \in VaSlots : vraddrls[c] # p
  BY NamesAssumption DEF ReadSlotsLive
<1>3. ReadSlotsDistinct'
  BY <1>1, <1>2 DEF ReadSlotsDistinct
<1>4. ASSUME NEW c \in VaSlots, vraddrls'[c] # NoPage
      PROVE  vraddrl'[vraddrls'[c]] # NoFrame
  <2>1. CASE c = vraddrlpos
    BY <1>1, <2>1, NamesAssumption DEF vradd, Drop, TypeOK
  <2>2. CASE c # vraddrlpos
    <3>1. vraddrls'[c] = vraddrls[c] /\ vraddrls[c] \in Pages
      BY <1>1, <1>4, <2>2
    <3>2. vraddrls[c] # vraddrls[vraddrlpos] /\ vraddrl[vraddrls[c]] # NoFrame
      BY <1>1, <1>4, <2>2, <3>1 DEF ReadSlotsDistinct, ReadSlotsLive
    <3> QED
      BY <1>2, <3>1, <3>2 DEF vradd, Drop, TypeOK
  <2> QED BY <2>1, <2>2
<1> QED BY <1>3, <1>4 DEF ReadSlotsLive

LEMMA FlushSlots ==
    ASSUME Cp15Flushes
    PROVE  TlbSlotsLive' /\ TlbSlotsDistinct' /\ ReadSlotsLive' /\ ReadSlotsDistinct'
  BY DEF Cp15Flushes, cp15_tlb_flush_all, cp15_tlb_flush, cp15_vaddr_reset,
         TlbSlotsLive, TlbSlotsDistinct, ReadSlotsLive, ReadSlotsDistinct

LEMMA NextFifoInv == FifoInv /\ [Next]_vars => FifoInv'
<1> SUFFICES ASSUME FifoInv, [Next]_vars
             PROVE  TlbSlotsLive' /\ TlbSlotsDistinct' /\ ReadSlotsLive' /\ ReadSlotsDistinct'
  BY NextTypes DEF FifoInv, SlotsLive, SlotsDistinct, TlbSlotsLive, TlbSlotsDistinct,
                   ReadSlotsLive, ReadSlotsDistinct
<1> DEFINE Kept == TlbSlotsLive' /\ TlbSlotsDistinct' /\ ReadSlotsLive' /\ ReadSlotsDistinct'
<1>0. TypeOK /\ TlbSlotsLive /\ TlbSlotsDistinct /\ ReadSlotsLive /\ ReadSlotsDistinct
  BY DEF FifoInv, SlotsLive, SlotsDistinct, TlbSlotsLive, TlbSlotsDistinct,
         ReadSlotsLive, ReadSlotsDistinct
<1>t. ASSUME UNCHANGED tlbVars \/ \E p \in Pages : Translate(p)
      PROVE  TlbSlotsLive' /\ TlbSlotsDistinct'
  BY <1>0, <1>t, TranslateSlots DEF tlbVars, TlbSlotsLive, TlbSlotsDistinct
<1>r. ASSUME UNCHANGED rdVars \/ \E p \in Pages, f \in Frames : vraddrl[p] = NoFrame /\ vradd(p, f)
      PROVE  ReadSlotsLive' /\ ReadSlotsDistinct'
  BY <1>0, <1>r, ReadAddSlots DEF rdVars, ReadSlotsLive, ReadSlotsDistinct
<1>1. ASSUME NEW p \in Pages, NEW priv \in BOOLEAN, Read(p, priv) PROVE Kept
  <2>1. UNCHANGED tlbVars \/ Translate(p)
    BY <1>1 DEF Read, Found, Aborts, tlbVars
  <2>2. "read" \in AccessKinds
    BY DEF AccessKinds
  <2>3. CASE Found("read", p, FALSE, priv) /\ FillRead(p, memcache'["read"].frame)
    <3>1. memcache'["read"].frame \in Frames
      BY <1>0, <2>2, <2>3, FoundTypes
    <3> QED BY <1>1, <1>t, <1>r, <2>1, <2>3, <3>1 DEF Read, FillRead
  <2>4. CASE UNCHANGED rdVars
    BY <1>t, <1>r, <2>1, <2>4
  <2> QED BY <1>1, <2>3, <2>4 DEF Read
<1>2. ASSUME NEW p \in Pages, ReadUnmapped(p) PROVE Kept
  BY <1>2, <1>t, <1>r, MemoryAssumption DEF ReadUnmapped
<1>3. ASSUME NEW k \in {"word", "byte"}, NEW p \in Pages, NEW priv \in BOOLEAN,
             Write(k, p, priv)
      PROVE  Kept
  <2>1. (UNCHANGED tlbVars \/ Translate(p)) /\ UNCHANGED rdVars
    BY <1>3 DEF Write, Found, Aborts, tlbVars
  <2> QED BY <2>1, <1>t, <1>r
<1>4. ASSUME NEW p \in Pages, Fetch(p) PROVE Kept
  <2>1. (UNCHANGED tlbVars \/ Translate(p)) /\ UNCHANGED rdVars
    BY <1>4 DEF Fetch, tlbVars
  <2> QED BY <2>1, <1>t, <1>r
<1>5. CASE UNCHANGED <<tlbVars, rdVars>>
  BY <1>5, <1>t, <1>r
<1>6. CASE Cp15Flushes
  BY <1>6, FlushSlots
<1> QED
  BY <1>1, <1>2, <1>3, <1>4, <1>5, <1>6
     DEF Next, TakeAbort, updatemode, Control, TranslationTableBase, DomainAccessControl,
         TlbOperation, FlushCache, StoreDescriptor, cp15_tlb_invalidate_physical, vars

\* No page takes two slots of tlbcache2 or of vraddrls (cp15_tlb_add_entry, vradd).
THEOREM SlotsDistinctHolds == Spec => []SlotsDistinct
<1>1. Init => FifoInv
  BY InitTypes DEF Init, FifoInv, SlotsLive, SlotsDistinct
<1>2. FifoInv => SlotsDistinct
  BY DEF FifoInv
<1> QED BY <1>1, <1>2, NextFifoInv, PTL DEF Spec

\* After drawscr invalidates the screen's chunk no write pointer into it is left.
THEOREM ScreenWritesSeenHolds == Spec => ScreenWritesSeen
<1>1. CacheInv /\ [Next]_vars =>
        [\A chunk \in VideoChunks : cp15_tlb_invalidate_physical(chunk) =>
           \A p \in Pages : vwaddrl'[p] # NoFrame => Chunk[vwaddrl'[p]] # chunk]_vars
  <2> SUFFICES ASSUME CacheInv, NEW chunk \in VideoChunks,
                      cp15_tlb_invalidate_physical(chunk),
                      NEW p \in Pages, vwaddrl'[p] # NoFrame
               PROVE  Chunk[vwaddrl'[p]] # chunk
    OBVIOUS
  <2>1. vwaddrl'[p] = vwaddrl[p] /\ vwaddrl[p] # NoFrame
    BY DEF InChunk, cp15_tlb_invalidate_physical, DropListed
  <2>2. PICK c \in VaSlots : vwaddrls[c] = p /\ vwaddrphys[c] = vwaddrl[p]
    BY <2>1 DEF CacheInv, Covered, WriteCovered
  <2> QED
    BY <2>1, <2>2 DEF InChunk, cp15_tlb_invalidate_physical, DropListed
<1> QED BY <1>1, CacheInvariant, PTL DEF Spec, ScreenWritesSeen

HIDE DEF PageOrNone, FrameOrNone, TlbSlots, VaSlots

-----------------------------------------------------------------------------
USE ThreadsAssumption, ScreenAssumption

-----------------------------------------------------------------------------
\* The hand-off of frames: types

LEMMA TypeInit == VidcInit => VidcTypeOK
  <1>. SUFFICES ASSUME VidcInit PROVE VidcTypeOK
    OBVIOUS
  <1>. USE DEF VidcInit
  <1>1. bitmap \in [ScreenPages -> Pixels] /\ shown \in [ScreenPages -> Pixels]
    BY DEF Pixels
  <1>2. pc \in [Threads -> DrawscrSteps] /\ redraw \in [Threads -> BOOLEAN]
    BY DEF DrawscrSteps
  <1>3. buf \in [Buffers -> SUBSET ScreenPages] /\ dirtybuffer \in Buffers
    BY DEF Buffers
  <1>4. thr \in [size : Sizes \cup {NoSize}, palette : Palettes, dirtybuffer : 0 .. 2,
                 needvsync : BOOLEAN]
    OBVIOUS
  <1>5. vpage \in 0 .. NPages /\ vpc \in VideoSteps /\ drawn \subseteq ScreenPages
    BY DEF VideoSteps
  <1>6. \A t \in Threads : pc[t] \in {"idle", "copy"}
    OBVIOUS
  <1>7. vpc \notin {"row", "plot"}
    OBVIOUS
  <1>. QED BY <1>1, <1>2, <1>3, <1>4, <1>5, <1>6, <1>7 DEF VidcTypeOK

LEMMA TypeGuest == VidcTypeOK /\ Guest => VidcTypeOK'
  <1>. SUFFICES ASSUME VidcTypeOK, Guest PROVE VidcTypeOK'
    OBVIOUS
  <1>. USE DEF VidcTypeOK, noDrawing, guest, machine, video, irqs
  <1>1. ASSUME NEW p \in ScreenPages, NEW v \in Vals, GuestStores(p, v) PROVE VidcTypeOK'
    BY <1>1 DEF GuestStores
  <1>2. ASSUME NEW c \in Palettes, GuestLoadsPalette(c) PROVE VidcTypeOK'
    BY <1>2 DEF GuestLoadsPalette
  <1>3. ASSUME NEW s \in Sizes, NEW b \in BOOLEAN, GuestSetsMode(s, b) PROVE VidcTypeOK'
    BY <1>3 DEF GuestSetsMode
  <1>4. CASE GuestClearsFlyback
    BY <1>4, ZenonT(30) DEF GuestClearsFlyback
  <1>. QED BY <1>1, <1>2, <1>3, <1>4 DEF Guest

LEMMA TypeDrawscr == ASSUME VidcTypeOK, NEW t \in Threads, drawscr(t) PROVE VidcTypeOK'
  <1>. USE DEF VidcTypeOK, guest, machine, video, irqs, noHandoff, Goto, DrawscrSteps
  <1>1. CASE CallDrawscr(t)
    BY <1>1 DEF CallDrawscr
  <1>2. CASE Copy(t)
    BY <1>2, ZenonT(30) DEF Copy
  <1>3. CASE Resize(t)
    <2>1. thr.size \in Sizes
      BY <1>3 DEF Resize
    <2>2. CASE thr.size = current_size
      BY <1>3, <2>2 DEF Resize
    <2>3. CASE thr.size # current_size
      <3>1. current_size' \in Sizes /\ vidpLive' = FALSE
        BY <1>3, <2>1, <2>3 DEF Resize, resizedisplay
      <3>2. bitmap' \in [ScreenPages -> Pixels]
        BY <1>3, <2>3 DEF Resize, resizedisplay, Pixels
      <3>3. buf' \in [Buffers -> SUBSET ScreenPages]
        BY <1>3, <2>3 DEF Resize, resizedisplay, resetbuffer
      <3>. QED BY <1>3, <2>1, <3>1, <3>2, <3>3 DEF Resize
    <2>. QED BY <2>2, <2>3
  <1>4. CASE FullBorder(t)
    <2>1. thr' \in [size : Sizes \cup {NoSize}, palette : Palettes, dirtybuffer : 0 .. 2,
                    needvsync : BOOLEAN]
      <3>1. thr' = [thr EXCEPT !.needvsync = TRUE]
        BY <1>4 DEF FullBorder
      <3>2. thr \in [size : Sizes \cup {NoSize}, palette : Palettes, dirtybuffer : 0 .. 2,
                     needvsync : BOOLEAN]
        OBVIOUS
      <3>. HIDE DEF VidcTypeOK
      <3>. QED BY <3>1, <3>2
    <2>2. buf' \in [Buffers -> SUBSET ScreenPages] /\ palchange' \in BOOLEAN
      <3>1. \/ buf' = buf /\ palchange' = palchange
            \/ buf' = [buf EXCEPT ![dirtybuffer] = @ \ {0}] /\ palchange' = FALSE
        BY <1>4 DEF FullBorder
      <3>2. buf \in [Buffers -> SUBSET ScreenPages] /\ dirtybuffer \in Buffers
            /\ palchange \in BOOLEAN
        OBVIOUS
      <3>. HIDE DEF VidcTypeOK
      <3>3. buf[dirtybuffer] \ {0} \in SUBSET ScreenPages
        BY <3>2
      <3>. QED BY <3>1, <3>2, <3>3
    <2>3. bitmap' \in [ScreenPages -> Pixels] /\ shown' \in [ScreenPages -> Pixels]
      BY <1>4 DEF FullBorder, Pixels
    <2>4. \A u \in Threads : pc'[u] \notin {"idle", "copy"} => thr.size \in Sizes
      BY <1>4 DEF FullBorder
    <2>5. thr'.size = thr.size
      BY <1>4 DEF FullBorder
    <2>. QED BY <1>4, <2>1, <2>2, <2>3, <2>4, <2>5 DEF FullBorder
  <1>5. CASE Picture(t)
    BY <1>5 DEF Picture, resetbuffer
  <1>6. CASE Handoff(t)
    BY <1>6 DEF Handoff, Buffers
  <1>7. CASE Swap(t)
    BY <1>7 DEF Swap, Buffers
  <1>8. CASE Invalidate(t)
    BY <1>8 DEF Invalidate
  <1>9. CASE Vsync(t)
    BY <1>9, ZenonT(30) DEF Vsync
  <1>10. CASE ClearNeedvsync(t)
    BY <1>10 DEF ClearNeedvsync
  <1>11. CASE VsyncLow(t)
    <2>1. CASE redraw[t]
      BY <1>11, <2>1, ZenonT(30) DEF VsyncLow
    <2>2. CASE ~redraw[t]
      BY <1>11, <2>2 DEF VsyncLow
    <2>. QED BY <2>1, <2>2
  <1>12. CASE vidcwakeupthread(t)
    <2>1. /\ vpc' \in VideoSteps /\ vpage' \in 0 .. NPages /\ drawn' \subseteq ScreenPages
          /\ (vpc' \in {"row", "plot"} => vpage' < NPages)
      BY <1>12 DEF vidcwakeupthread, VideoSteps
    <2>. QED BY <1>12, <2>1 DEF vidcwakeupthread
  <1>. QED
    BY <1>1, <1>2, <1>3, <1>4, <1>5, <1>6, <1>7, <1>8, <1>9, <1>10, <1>11, <1>12 DEF drawscr

LEMMA TypeVideo == VidcTypeOK /\ (SpuriousWakeup \/ vidcthread) => VidcTypeOK'
  <1>. SUFFICES ASSUME VidcTypeOK, SpuriousWakeup \/ vidcthread PROVE VidcTypeOK'
    OBVIOUS
  <1>. USE DEF VidcTypeOK, noVideo, guest, machine, irqs, VideoSteps
  <1>1. CASE SpuriousWakeup
    <2>1. /\ vpc' = "row" /\ vpage' = 0 /\ drawn' = {}
          /\ 0 \in 0 .. NPages /\ 0 < NPages
      BY <1>1 DEF SpuriousWakeup
    <2>. QED BY <1>1, <2>1 DEF SpuriousWakeup
  <1>2. CASE Row
    <2>1. vpage \in Nat /\ vpage < NPages /\ vpage + 1 \in 0 .. NPages
          /\ (vpage + 1 # NPages => vpage + 1 < NPages)
      BY <1>2 DEF Row
    <2>2. CASE thr.dirtybuffer = 0
      BY <1>2, <2>1, <2>2 DEF Row
    <2>3. CASE thr.dirtybuffer # 0 /\ vpage \in buf[thr.dirtybuffer]
      BY <1>2, <2>1, <2>3 DEF Row
    <2>4. CASE thr.dirtybuffer # 0 /\ vpage \notin buf[thr.dirtybuffer]
      BY <1>2, <2>1, <2>4 DEF Row, NextPage
    <2>. QED BY <2>2, <2>3, <2>4
  <1>3. CASE Plot
    <2>1. vpage \in ScreenPages
      BY <1>3 DEF Plot, ScreenPages
    <2>2. <<vram[vpage], thr.palette>> \in Pixels
      BY <2>1 DEF Pixels
    <2>3. bitmap' \in [ScreenPages -> Pixels]
      BY <1>3, <2>2 DEF Plot
    <2>4. vpage + 1 \in 0 .. NPages /\ (vpage + 1 # NPages => vpage + 1 < NPages)
      BY <2>1 DEF ScreenPages
    <2>5. vpc' \in {"finish", "row"} /\ (vpc' = "row" => vpage' < NPages)
          /\ vpage' = vpage + 1 /\ drawn' \subseteq ScreenPages
      BY <1>3, <2>1, <2>4 DEF Plot, NextPage
    <2>. QED BY <1>3, <2>3, <2>4, <2>5 DEF Plot
  <1>4. CASE Finish
    BY <1>4 DEF Finish
  <1>5. CASE Update
    BY <1>5 DEF Update
  <1>. QED BY <1>1, <1>2, <1>3, <1>4, <1>5 DEF vidcthread

LEMMA TypeStep == VidcTypeOK /\ [VidcNext]_vidcvars => VidcTypeOK'
  <1>. SUFFICES ASSUME VidcTypeOK, [VidcNext]_vidcvars PROVE VidcTypeOK'
    OBVIOUS
  <1>1. CASE UNCHANGED vidcvars
    BY <1>1 DEF vidcvars, VidcTypeOK, guest, machine, video, irqs
  <1>. QED BY <1>1, TypeGuest, TypeDrawscr, TypeVideo DEF VidcNext

\* The state of the hand-off has its types, whichever threads draw (drawscr, vidcthread).
THEOREM ScreenTypesHold == VidcSpec => []VidcTypeOK
  BY TypeInit, TypeStep, PTL DEF VidcSpec

-----------------------------------------------------------------------------
\* The dirty buffers, when the machine thread alone calls drawscr

\* While a buffer is handed over no border was pending, so it is full; thr names
\* the machine thread's own buffer only between the two assignments.
HandoffInv ==
    /\ NothingMissed
    /\ pc["emu"] \in {"handoff", "swap"} => ~lastframeborder
    /\ (pc["emu"] = "swap") <=> (thr.dirtybuffer = dirtybuffer)

LEMMA HandoffInit == Threads = {"emu"} /\ VidcInit => HandoffInv
  BY DEF VidcInit, HandoffInv, NothingMissed, Buffers

LEMMA HandoffGuest == VidcTypeOK /\ HandoffInv /\ Guest => HandoffInv'
  <1>. SUFFICES ASSUME VidcTypeOK, HandoffInv, Guest PROVE HandoffInv'
    OBVIOUS
  <1>. USE DEF HandoffInv, NothingMissed, noDrawing, machine
  <1>1. ASSUME NEW p \in ScreenPages, NEW v \in Vals, GuestStores(p, v) PROVE HandoffInv'
    BY <1>1 DEF GuestStores, VidcTypeOK
  <1>2. ASSUME NEW c \in Palettes, GuestLoadsPalette(c) PROVE HandoffInv'
    BY <1>2 DEF GuestLoadsPalette
  <1>3. ASSUME NEW s \in Sizes, NEW b \in BOOLEAN, GuestSetsMode(s, b) PROVE HandoffInv'
    BY <1>3 DEF GuestSetsMode
  <1>4. CASE GuestClearsFlyback
    BY <1>4 DEF GuestClearsFlyback
  <1>. QED BY <1>1, <1>2, <1>3, <1>4 DEF Guest

LEMMA HandoffDrawscr ==
  ASSUME Threads = {"emu"}, VidcTypeOK, HandoffInv, drawscr("emu") PROVE HandoffInv'
  <1>. USE DEF HandoffInv, NothingMissed, noHandoff, Goto
  <1>0. /\ buf \in [Buffers -> SUBSET ScreenPages] /\ dirtybuffer \in Buffers
        /\ pc \in [Threads -> DrawscrSteps] /\ "emu" \in Threads
        /\ thr \in [size : Sizes \cup {NoSize}, palette : Palettes, dirtybuffer : 0 .. 2,
                     needvsync : BOOLEAN]
    BY DEF VidcTypeOK
  <1>1. CASE CallDrawscr("emu")
    BY <1>0, <1>1 DEF CallDrawscr, CanCall
  <1>2. CASE Copy("emu")
    BY <1>0, <1>2 DEF Copy
  <1>3. CASE Resize("emu")
    <2>1. buf' = buf \/ buf' = resetbuffer
      BY <1>3 DEF Resize, resizedisplay
    <2>2. \A b \in Buffers : buf[b] \subseteq buf'[b]
      BY <1>0, <2>1 DEF resetbuffer
    <2>3. pc["emu"] = "resize" /\ pc'["emu"] = "branch"
      BY <1>0, <1>3 DEF Resize
    <2>. QED BY <1>3, <2>2, <2>3 DEF Resize
  <1>4. CASE FullBorder("emu")
    <2>1. \A b \in Buffers : b # dirtybuffer => buf'[b] = buf[b]
      BY <1>0, <1>4 DEF FullBorder
    <2>2. buf[dirtybuffer] \ {0} \subseteq buf'[dirtybuffer]
      BY <1>0, <1>4 DEF FullBorder
    <2>3. pc["emu"] = "branch" /\ pc'["emu"] = "vsync"
      BY <1>0, <1>4 DEF FullBorder
    <2>4. thr'.dirtybuffer = thr.dirtybuffer /\ dirtybuffer' = dirtybuffer
      BY <1>0, <1>4 DEF FullBorder
    <2>. QED BY <1>0, <1>4, <2>1, <2>2, <2>3, <2>4 DEF FullBorder
  <1>5. CASE Picture("emu")
    <2>1. \A b \in Buffers : ScreenPages \subseteq buf'[b]
      BY <1>0, <1>5 DEF Picture, resetbuffer
    <2>2. pc["emu"] = "branch" /\ pc'["emu"] = "handoff"
      BY <1>0, <1>5 DEF Picture
    <2>. QED BY <1>5, <2>1, <2>2 DEF Picture
  <1>6. CASE Handoff("emu")
    BY <1>0, <1>6 DEF Handoff
  <1>7. CASE Swap("emu")
    BY <1>0, <1>7 DEF Swap, Buffers
  <1>8. CASE Invalidate("emu")
    BY <1>0, <1>8 DEF Invalidate
  <1>9. CASE Vsync("emu")
    BY <1>0, <1>9 DEF Vsync
  <1>10. CASE ClearNeedvsync("emu")
    BY <1>0, <1>10 DEF ClearNeedvsync
  <1>11. CASE VsyncLow("emu")
    BY <1>0, <1>11 DEF VsyncLow
  <1>12. CASE vidcwakeupthread("emu")
    BY <1>0, <1>12 DEF vidcwakeupthread
  <1>. QED
    BY <1>1, <1>2, <1>3, <1>4, <1>5, <1>6, <1>7, <1>8, <1>9, <1>10, <1>11, <1>12 DEF drawscr

LEMMA HandoffVideo ==
  VidcTypeOK /\ HandoffInv /\ (SpuriousWakeup \/ vidcthread) => HandoffInv'
  <1>. SUFFICES ASSUME VidcTypeOK, HandoffInv, SpuriousWakeup \/ vidcthread PROVE HandoffInv'
    OBVIOUS
  <1>1. UNCHANGED <<pc, lastframeborder, dirtybuffer, buf>>
    BY DEF SpuriousWakeup, vidcthread, Row, Plot, Finish, Update, noVideo, machine
  <1>2. thr' = thr \/ thr' = [thr EXCEPT !.needvsync = TRUE]
    BY DEF SpuriousWakeup, vidcthread, Row, Plot, Finish, Update
  <1>3. thr'.dirtybuffer = thr.dirtybuffer
    BY <1>2 DEF VidcTypeOK
  <1>. QED BY <1>1, <1>3 DEF HandoffInv, NothingMissed

LEMMA HandoffHolds == ASSUME Threads = {"emu"} PROVE VidcSpec => []HandoffInv
  <1>1. VidcTypeOK /\ HandoffInv /\ [VidcNext]_vidcvars => HandoffInv'
    <2>1. CASE UNCHANGED vidcvars
      BY <2>1 DEF vidcvars, machine, HandoffInv, NothingMissed
    <2>. QED BY <2>1, HandoffGuest, HandoffDrawscr, HandoffVideo DEF VidcNext
  <1>. QED BY <1>1, HandoffInit, ScreenTypesHold, PTL DEF VidcSpec

\* No page that may have changed is unmarked, whatever the interleaving, as long as the
\* machine thread alone calls drawscr (drawscr, resetbuffer, mem_phys_write32).
THEOREM NothingMissedHolds == ASSUME Threads = {"emu"} PROVE VidcSpec => []NothingMissed
  BY HandoffHolds, PTL DEF HandoffInv

\* The video thread never reads the buffer being written, as long as the machine thread
\* alone calls drawscr (vidc20.c:431-432).
THEOREM BuffersApartHolds == ASSUME Threads = {"emu"} PROVE VidcSpec => []BuffersApart
  <1>1. HandoffInv => BuffersApart
    BY DEF HandoffInv, BuffersApart
  <1>. QED BY <1>1, HandoffHolds, PTL
=============================================================================
