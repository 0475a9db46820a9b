-------------------------------- MODULE Vidc --------------------------------
(***************************************************************************)
(* The hand-off of frames between the machine thread and the video thread  *)
(* (vidc20.c, with the mutex and condition variable of muimain.c, and      *)
(* iomd_vsync).                                                            *)
(*                                                                         *)
(* The machine thread runs the guest and, between two slices of it,        *)
(* drawscr, which copies what the video thread needs into thr, hands over  *)
(* one of two buffers of dirty pages and signals video_cond.  The video    *)
(* thread waits on video_cond and runs vidcthread.  vidctrymutex always    *)
(* succeeds, so nothing keeps the two apart; every step below is one       *)
(* access, or one run of accesses no other thread can tell apart.          *)
(*                                                                         *)
(* A pixel of the bitmap is a pair of what the guest wrote in the page and *)
(* the palette it was drawn with, or Border, or Junk.  The cursor layer is *)
(* left out.  A definition with a capitalised suffix (Swap_Skipped) is a   *)
(* wrong form of the one that follows it, for the mutants of PROJECT.json. *)
(***************************************************************************)
EXTENDS Naturals

CONSTANTS
    Threads,        \* threads that call drawscr: "emu", and "ui" during startup
    NPages,         \* 4 KB pages of screen memory
    Vals,           \* what the guest may store in a page
    Palettes,       \* palettes the guest may load
    Sizes,          \* screen sizes the guest may select
    Clamp,          \* Clamp[s]: the size resizedisplay makes of s (320x256 at least)
    NoSize,         \* current_sizex = -1, and the zeroed thr.vidc_xsize
    Border, Junk,   \* pixels that no page of the guest produced
    Spurious        \* whether pthread_cond_wait may return without a signal

ASSUME ThreadsAssumption == Threads \subseteq {"emu", "ui"} /\ "emu" \in Threads
ASSUME ScreenAssumption ==
    /\ NPages \in Nat \ {0}
    /\ Sizes # {} /\ Clamp \in [Sizes -> Sizes] /\ NoSize \notin Sizes
    /\ Spurious \in BOOLEAN

ScreenPages == 0 .. NPages - 1
Pixels      == (Vals \X Palettes) \cup {Border, Junk}
Buffers     == {1, 2}           \* dirtybuffer1 and dirtybuffer2; 0 is the null pointer

VARIABLES
    size, border, palette, palchange, vram,     \* the guest's screen
    direct,         \* pages whose writes go through vwaddrl and mark nothing
    pc,             \* pc[t]: where thread t is in drawscr
    redraw,         \* redraw[t]: needredraw, as drawscr leaves it
    uidone,         \* the user interface thread has made its only call
    lastframeborder, dirtybuffer,
    buf,            \* buf[b]: the pages marked in buffer b
    current_size,
    thr,            \* the fields of thr that both threads use
    bitmap, shown,  \* thr.bitmap and the window, page by page
    vpc, vpage,     \* where the video thread is in vidcthread
    vidpLive,       \* its row pointer vidp points into the present bitmap
    drawn,          \* pages it drew in this pass (yl and yh)
    flyback, irqFlyback

guest   == <<size, border, palette, vram>>
machine == <<pc, redraw, uidone>>
video   == <<vpc, vpage, drawn>>
irqs    == <<flyback, irqFlyback>>
vidcvars == <<guest, palchange, direct, machine, lastframeborder, dirtybuffer, buf,
              current_size, thr, bitmap, shown, video, vidpLive, irqs>>

DrawscrSteps  == {"idle", "copy", "resize", "branch", "handoff", "swap", "invalidate",
                  "vsync", "clear", "low", "wake"}
VideoSteps == {"wait", "row", "plot", "finish", "update", "crashed"}

\* initvideo, before the machine thread starts: no frame was handed over yet.
VidcInit ==
    /\ size \in Sizes /\ border = TRUE /\ palette \in Palettes /\ palchange = FALSE
    /\ vram \in [ScreenPages -> Vals] /\ direct = {}
    /\ pc = [t \in Threads |-> "idle"] /\ redraw = [t \in Threads |-> FALSE]
    /\ uidone = FALSE /\ lastframeborder = FALSE
    /\ dirtybuffer = 1 /\ buf = [b \in Buffers |-> ScreenPages]
    /\ current_size = NoSize
    /\ thr = [size |-> NoSize, palette |-> palette, dirtybuffer |-> 0, needvsync |-> FALSE]
    /\ bitmap = [p \in ScreenPages |-> Junk] /\ shown = [p \in ScreenPages |-> Junk]
    /\ vpc = "wait" /\ vpage = 0 /\ vidpLive = FALSE /\ drawn = {}
    /\ flyback = FALSE /\ irqFlyback = FALSE

-----------------------------------------------------------------------------
\* The guest, run by execarm of a thread that is not in drawscr

CanCall(t) == pc[t] = "idle" /\ (t = "ui" => ~uidone)
GuestRuns  == \E t \in Threads : CanCall(t)

noDrawing == <<machine, lastframeborder, current_size, thr, bitmap, shown, video, vidpLive>>

\* A store to the screen: through vwaddrl when the page is there, else through
\* mem_phys_write32, which marks the page, with vwadd for the next store.
GuestStores(p, v) ==
    /\ GuestRuns
    /\ vram' = [vram EXCEPT ![p] = v]
    /\ direct' = direct \cup {p}
    /\ buf' = IF p \in direct THEN buf ELSE [buf EXCEPT ![dirtybuffer] = @ \cup {p}]
    /\ UNCHANGED <<size, border, palette, palchange, dirtybuffer, noDrawing, irqs>>

\* writevidc20, palette entries.
GuestLoadsPalette(c) ==
    /\ GuestRuns
    /\ palette' = c
    /\ palchange' = (palchange \/ c # palette)
    /\ UNCHANGED <<size, border, vram, direct, dirtybuffer, buf, noDrawing, irqs>>

\* writevidc20, display start and end; the video enable bit of IOMD's VIDCR.
GuestSetsMode(s, b) ==
    /\ GuestRuns
    /\ size' = s /\ border' = b
    /\ UNCHANGED <<palette, palchange, vram, direct, dirtybuffer, buf, noDrawing, irqs>>

\* The handler of the flyback interrupt clears the bit.
GuestClearsFlyback ==
    /\ GuestRuns
    /\ irqFlyback' = FALSE
    /\ UNCHANGED <<guest, palchange, direct, dirtybuffer, buf, noDrawing, flyback>>

Guest ==
    \/ \E p \in ScreenPages, v \in Vals : GuestStores(p, v)
    \/ \E c \in Palettes : GuestLoadsPalette(c)
    \/ \E s \in Sizes, b \in BOOLEAN : GuestSetsMode(s, b)
    \/ GuestClearsFlyback

-----------------------------------------------------------------------------
\* drawscr(1)

Goto(t, step) == pc' = [pc EXCEPT ![t] = step]

resetbuffer == [buf EXCEPT ![dirtybuffer] = ScreenPages]

CallDrawscr(t) ==
    /\ CanCall(t)
    /\ Goto(t, "copy") /\ redraw' = [redraw EXCEPT ![t] = TRUE]
    /\ uidone' = (uidone \/ t = "ui")
    /\ UNCHANGED <<guest, palchange, direct, lastframeborder, dirtybuffer, buf,
                   current_size, thr, bitmap, shown, video, vidpLive, irqs>>

Copy(t) ==
    /\ pc[t] = "copy" /\ Goto(t, "resize")
    /\ thr' = [thr EXCEPT !.size = size,
                          !.palette = IF palchange THEN palette ELSE @]
    /\ UNCHANGED <<guest, palchange, direct, redraw, uidone, lastframeborder, dirtybuffer,
                   buf, current_size, bitmap, shown, video, vidpLive, irqs>>

\* resizedisplay reallocates the bitmap, whatever the video thread is doing.
resizedisplay(s) ==
    /\ current_size' = Clamp[s]
    /\ bitmap' = [p \in ScreenPages |-> Junk]
    /\ vidpLive' = FALSE
    /\ buf' = resetbuffer

Resize(t) ==
    /\ pc[t] = "resize" /\ Goto(t, "branch")
    /\ IF thr.size # current_size
       THEN resizedisplay(thr.size)
       ELSE UNCHANGED <<current_size, bitmap, vidpLive, buf>>
    /\ UNCHANGED <<guest, palchange, direct, redraw, uidone, lastframeborder, dirtybuffer,
                   thr, shown, video, irqs>>

\* The screen is all border: fill it, unless that was done and nothing changed.
FullBorder(t) ==
    /\ pc[t] = "branch" /\ border
    /\ Goto(t, "vsync") /\ redraw' = [redraw EXCEPT ![t] = FALSE]
    /\ lastframeborder' = TRUE
    /\ thr' = [thr EXCEPT !.needvsync = TRUE]
    /\ IF 0 \in buf[dirtybuffer] \/ palchange
       THEN /\ buf' = [buf EXCEPT ![dirtybuffer] = @ \ {0}]
            /\ palchange' = FALSE
            /\ bitmap' = [p \in ScreenPages |-> Border]
            /\ shown' = [p \in ScreenPages |-> Border]
       ELSE UNCHANGED <<buf, palchange, bitmap, shown>>
    /\ UNCHANGED <<guest, direct, uidone, dirtybuffer, current_size, video, vidpLive, irqs>>

\* A frame with a picture; everything is dirty after a change of palette or a border.
Picture_NoBorderReset(t) ==
    /\ pc[t] = "branch" /\ ~border
    /\ Goto(t, "handoff")
    /\ buf' = IF palchange THEN resetbuffer ELSE buf
    /\ palchange' = FALSE /\ lastframeborder' = FALSE
    /\ UNCHANGED <<guest, direct, redraw, uidone, dirtybuffer, current_size, thr, bitmap,
                   shown, video, vidpLive, irqs>>

Picture(t) ==
    /\ pc[t] = "branch" /\ ~border
    /\ Goto(t, "handoff")
    /\ buf' = IF palchange \/ lastframeborder THEN resetbuffer ELSE buf
    /\ palchange' = FALSE /\ lastframeborder' = FALSE
    /\ UNCHANGED <<guest, direct, redraw, uidone, dirtybuffer, current_size, thr, bitmap,
                   shown, video, vidpLive, irqs>>

noHandoff == <<guest, palchange, redraw, uidone, lastframeborder, buf, current_size,
               bitmap, shown, vidpLive>>

Handoff(t) ==
    /\ pc[t] = "handoff" /\ Goto(t, "swap")
    /\ thr' = [thr EXCEPT !.dirtybuffer = dirtybuffer]
    /\ UNCHANGED <<noHandoff, direct, dirtybuffer, video, irqs>>

Swap_Skipped(t) ==
    /\ pc[t] = "swap" /\ Goto(t, "invalidate")
    /\ dirtybuffer' = 2
    /\ UNCHANGED <<noHandoff, direct, thr, video, irqs>>

Swap(t) ==
    /\ pc[t] = "swap" /\ Goto(t, "invalidate")
    /\ dirtybuffer' = 3 - dirtybuffer
    /\ UNCHANGED <<noHandoff, direct, thr, video, irqs>>

\* cp15_tlb_invalidate_physical: the next store to each page is seen again.
Invalidate(t) ==
    /\ pc[t] = "invalidate" /\ Goto(t, "vsync")
    /\ direct' = {}
    /\ UNCHANGED <<noHandoff, dirtybuffer, thr, video, irqs>>

\* iomd_vsync(1), when the video thread, or a border, finished a frame.
Vsync(t) ==
    /\ pc[t] = "vsync"
    /\ IF thr.needvsync
       THEN Goto(t, "clear") /\ flyback' = TRUE /\ irqFlyback' = TRUE
       ELSE Goto(t, "low") /\ UNCHANGED irqs
    /\ UNCHANGED <<noHandoff, direct, dirtybuffer, thr, video>>

ClearNeedvsync(t) ==
    /\ pc[t] = "clear" /\ Goto(t, "low")
    /\ thr' = [thr EXCEPT !.needvsync = FALSE]
    /\ UNCHANGED <<noHandoff, direct, dirtybuffer, video, irqs>>

\* iomd_vsync(0), and on to the wakeup, only for a frame with a picture.
VsyncLow(t) ==
    /\ pc[t] = "low"
    /\ IF redraw[t]
       THEN Goto(t, "wake") /\ flyback' = FALSE
       ELSE Goto(t, "idle") /\ UNCHANGED flyback
    /\ UNCHANGED <<noHandoff, direct, dirtybuffer, thr, video, irqFlyback>>

\* pthread_cond_signal is lost unless the video thread waits.
Wakes == vpc = "wait"

vidcwakeupthread(t) ==
    /\ pc[t] = "wake" /\ Goto(t, "idle")
    /\ IF Wakes
       THEN vpc' = "row" /\ vpage' = 0 /\ drawn' = {}
       ELSE UNCHANGED video
    /\ UNCHANGED <<noHandoff, direct, dirtybuffer, thr, irqs>>

drawscr(t) ==
    \/ CallDrawscr(t) \/ Copy(t) \/ Resize(t) \/ FullBorder(t) \/ Picture(t)
    \/ Handoff(t) \/ Swap(t) \/ Invalidate(t) \/ Vsync(t) \/ ClearNeedvsync(t)
    \/ VsyncLow(t) \/ vidcwakeupthread(t)

-----------------------------------------------------------------------------
\* The video thread

noVideo == <<guest, palchange, direct, machine, lastframeborder, dirtybuffer, buf,
             current_size, irqs>>

\* pthread_cond_wait returns although nobody signalled.
SpuriousWakeup ==
    /\ Spurious /\ vpc = "wait"
    /\ vpc' = "row" /\ vpage' = 0 /\ drawn' = {}
    /\ UNCHANGED <<noVideo, thr, bitmap, shown, vidpLive>>

\* Where the video thread goes after page vpage.
NextPage == IF vpage + 1 = NPages THEN "finish" ELSE "row"

\* The start of a page: is it dirty in the buffer thr names now?
Row ==
    /\ vpc = "row"
    /\ IF thr.dirtybuffer = 0
       THEN vpc' = "crashed" /\ UNCHANGED <<vpage, vidpLive>>
       ELSE IF vpage \in buf[thr.dirtybuffer]
       THEN vpc' = "plot" /\ vidpLive' = TRUE /\ UNCHANGED vpage
       ELSE vpc' = NextPage /\ vpage' = vpage + 1 /\ UNCHANGED vidpLive
    /\ UNCHANGED <<noVideo, thr, bitmap, shown, drawn>>

\* The rows of the page; through a pointer into a freed bitmap they are lost.
Plot ==
    /\ vpc = "plot"
    /\ bitmap' = IF vidpLive THEN [bitmap EXCEPT ![vpage] = <<vram[vpage], thr.palette>>]
                             ELSE bitmap
    /\ drawn' = drawn \cup {vpage}
    /\ vpc' = NextPage /\ vpage' = vpage + 1
    /\ UNCHANGED <<noVideo, thr, shown, vidpLive>>

Finish_NoVsync ==
    /\ vpc = "finish" /\ vpc' = "update"
    /\ UNCHANGED <<noVideo, thr, bitmap, shown, vpage, drawn, vidpLive>>

Finish ==
    /\ vpc = "finish" /\ vpc' = "update"
    /\ thr' = [thr EXCEPT !.needvsync = TRUE]
    /\ UNCHANGED <<noVideo, bitmap, shown, vpage, drawn, vidpLive>>

\* video_update of the rows from yl to yh; then the thread waits again.
Update ==
    /\ vpc = "update" /\ vpc' = "wait"
    /\ shown' = [p \in ScreenPages |-> IF \E lo, hi \in drawn : lo <= p /\ p <= hi
                                 THEN bitmap[p] ELSE shown[p]]
    /\ UNCHANGED <<noVideo, thr, bitmap, vpage, drawn, vidpLive>>

vidcthread == Row \/ Plot \/ Finish \/ Update

VidcNext == Guest \/ (\E t \in Threads : drawscr(t)) \/ SpuriousWakeup \/ vidcthread

VidcSpec == VidcInit /\ [][VidcNext]_vidcvars

\* The machine thread keeps calling drawscr (drawscre is counted up by the clock)
\* and both threads are scheduled.  The guest need not do anything.
VidcFairSpec ==
    VidcSpec /\ (\A t \in Threads : WF_vidcvars(drawscr(t))) /\ WF_vidcvars(vidcthread)

-----------------------------------------------------------------------------
\* Properties

\* Types of the state of drawscr, vidcthread and the guest's screen.
VidcTypeOK ==
    /\ size \in Sizes /\ border \in BOOLEAN /\ palette \in Palettes /\ palchange \in BOOLEAN
    /\ vram \in [ScreenPages -> Vals] /\ direct \subseteq ScreenPages
    /\ pc \in [Threads -> DrawscrSteps] /\ redraw \in [Threads -> BOOLEAN]
    /\ uidone \in BOOLEAN
    /\ lastframeborder \in BOOLEAN /\ dirtybuffer \in Buffers
    /\ buf \in [Buffers -> SUBSET ScreenPages] /\ current_size \in Sizes \cup {NoSize}
    /\ thr \in [size : Sizes \cup {NoSize}, palette : Palettes, dirtybuffer : 0 .. 2,
                needvsync : BOOLEAN]
    /\ bitmap \in [ScreenPages -> Pixels] /\ shown \in [ScreenPages -> Pixels]
    /\ vpc \in VideoSteps /\ vpage \in 0 .. NPages /\ drawn \subseteq ScreenPages
    /\ (vpc \in {"row", "plot"} => vpage < NPages)
    /\ \A t \in Threads : pc[t] \notin {"idle", "copy"} => thr.size \in Sizes
    /\ vidpLive \in BOOLEAN /\ flyback \in BOOLEAN /\ irqFlyback \in BOOLEAN

\* Stores that go through vwaddrl mark nothing, signals are lost and buffers are
\* handed over without being drawn, yet no page that may have changed is ever
\* unmarked: only a border frame unmarks a page, page 0 of the buffer the machine
\* thread holds, and lastframeborder remembers it (drawscr, vidc20.c:370-414).
NothingMissed ==
    \A b \in Buffers : \A p \in ScreenPages \ buf[b] : p = 0 /\ b = dirtybuffer /\ lastframeborder

\* The video thread never reads the buffer stores are marked in ("Two dirty buffers,
\* so one can be written to by the main thread while the display thread is reading
\* the other", vidc20.c:111), but for the instant between the two assignments.
BuffersApart ==
    (\A t \in Threads : pc[t] # "swap") => thr.dirtybuffer # dirtybuffer

\* The video thread plots only through pointers into the bitmap there is ("The machine
\* thread should only change them when it has the mutex (and so the video thread is
\* not running)", vidc20.c:80): violated, resizedisplay reallocates under it.
PlotsLiveBitmap == vpc = "plot" => vidpLive

\* A guest that leaves its screen alone, with the picture on, ends up seeing it:
\* no hand-off, lost signal or change of mode leaves an old page in the window.
ScreenCatchesUp ==
    \A p \in ScreenPages, v \in Vals, c \in Palettes :
        <>[](vram[p] = v /\ palette = c /\ ~border) => <>[](shown[p] = <<v, c>>)

\* The flyback interrupt keeps coming, although a request (thr.needvsync) set while
\* drawscr serves the previous one is overwritten, and signals may be lost.
VsyncKeepsComing == []<>(\E t \in Threads : pc[t] = "clear")

=============================================================================
