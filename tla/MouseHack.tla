----------------------------- MODULE MouseHack -----------------------------
(***************************************************************************)
(* The pointer of keyboard.c, which always follows the host's (mousehack is *)
(* 1 in rpcemu.h): opSWI of arm_common.c takes the pointer calls of RISC OS *)
(* away from the ROM and answers them from the host's mouse, which the user *)
(* interface thread moves, and from the bounding box the guest set.         *)
(***************************************************************************)
EXTENDS Integers

CONSTANTS
    Places,         \* the host positions, <<x, y>>
    Boxes,          \* the bounding boxes, [left, right, bottom, top] in OS units
    Offsets,        \* the active points of a pointer
    Screens,        \* the displays, [ysize, doublex, doubley]
    Numbers,        \* the pointers the guest names
    Idles           \* config.cpu_idle
ASSUME HackAssumption == Numbers \subseteq Nat

VARIABLES
    host,           \* mouse: x, y and buttons
    moving,         \* the y of a move of which only x is stored yet, or -1
    hack,           \* pointer, linked, unlinked, active and box
    screen,         \* ysize, doublex and doubley of the display
    answer          \* what the call just made returned, or where it went

hvars == <<host, moving, hack, screen, answer>>

Pointers == 0 .. 4

HackInit ==
    /\ host = [x |-> 0, y |-> 0, buttons |-> {}]
    /\ moving = -1
    /\ hack = [pointer |-> 0, linked |-> TRUE, unlinked |-> <<0, 0>>,
               active |-> [p \in Pointers |-> <<0, 0>>],
               box |-> [left |-> 0, right |-> 0, bottom |-> 0, top |-> 0]]
    /\ screen \in Screens
    /\ answer = <<"none">>

-----------------------------------------------------------------------------
(* The user interface thread: x and y are two assignments. *)

MoveX ==
    /\ moving = -1
    /\ \E p \in Places : host' = [host EXCEPT !.x = p[1]] /\ moving' = p[2]
    /\ answer' = <<"none">>
    /\ UNCHANGED <<hack, screen>>

MoveY ==
    /\ moving # -1
    /\ host' = [host EXCEPT !.y = moving]
    /\ moving' = -1
    /\ answer' = <<"none">>
    /\ UNCHANGED <<hack, screen>>

Buttons ==
    /\ moving = -1
    /\ \E b \in {"left", "middle"} :
         \/ host' = [host EXCEPT !.buttons = @ \cup {b}]
         \/ host' = [host EXCEPT !.buttons = @ \ {b}]
    /\ answer' = <<"none">>
    /\ UNCHANGED <<moving, hack, screen>>

\* A screen mode change that VIDC20 makes visible.
NewScreen ==
    /\ screen' \in Screens
    /\ answer' = <<"none">>
    /\ UNCHANGED <<host, moving, hack>>

-----------------------------------------------------------------------------
(* The machine thread. *)

XUnit == IF screen.doublex THEN 4 ELSE 2        \* OS units per pixel, 1 << xeig
YUnit == IF screen.doubley THEN 4 ELSE 2

\* The upper or right edge first, except that the lower one comes before the top.
ClipX(v) == LET r == IF v > hack.box.right THEN hack.box.right ELSE v
            IN IF r < hack.box.left THEN hack.box.left ELSE r
ClipY(v) == LET b == IF v < hack.box.bottom THEN hack.box.bottom ELSE v
            IN IF b > hack.box.top THEN hack.box.top ELSE b

OsX == ClipX(host.x * 2)
OsY == ClipY((screen.ysize - 1) * YUnit - host.y * 2)

\* mouse_get_osxy: the position in pixels that the clipped position has.
mouse_get_osxy == <<OsX \div XUnit, ((screen.ysize - 1) * YUnit - OsY) \div YUnit>>

Less(p, q) == <<p[1] - q[1], p[2] - q[2]>>

\* Where VIDC20 draws the cursor.
mouse_hack_get_pos(h) == IF h.linked THEN Less(mouse_get_osxy, h.active[h.pointer]) ELSE h.unlinked

\* OS_Word 21, 4.
osword_21_4 ==
    /\ answer' = <<"position", OsX, OsY>>
    /\ UNCHANGED <<host, moving, hack, screen>>

\* OS_Mouse: the last row is one pixel further up than it is for OS_Word 21, 4.
mouse_hack_osmouse ==
    /\ answer' = <<"position", OsX, ClipY(screen.ysize * YUnit - host.y * 2), host.buttons>>
    /\ UNCHANGED <<host, moving, hack, screen>>

\* OS_Word 21, 3: the host's pointer stays where it is, the call that moves it is commented out.
osword_21_3 ==
    /\ answer' = <<"none">>
    /\ UNCHANGED <<host, moving, hack, screen>>

\* OS_Word 21, 1.
osword_21_1 ==
    /\ \E b \in Boxes : hack' = [hack EXCEPT !.box = b]
    /\ answer' = <<"none">>
    /\ UNCHANGED <<host, moving, screen>>

\* OS_Word 21, 0 goes on to the ROM; pointers above 4 are rejected.
osword_21_0 ==
    /\ \E p \in Numbers, at \in Offsets :
         hack' = IF p <= 4 THEN [hack EXCEPT !.active[p] = at] ELSE hack
    /\ answer' = <<"rom">>
    /\ UNCHANGED <<host, moving, screen>>

\* Mutant: the cursor is unlinked before its place is taken down.
osbyte_106_UnlinksFirst ==
    /\ \E p \in Numbers, unlink \in BOOLEAN :
         LET h == [hack EXCEPT !.pointer = p, !.linked = ~unlink]
         IN hack' = IF p > 4 THEN hack
                    ELSE IF unlink THEN [h EXCEPT !.unlinked = mouse_hack_get_pos(h)]
                    ELSE h
    /\ answer' = <<"rom">>
    /\ UNCHANGED <<host, moving, screen>>

\* OS_Byte 106 goes on to the ROM; the new pointer's active point places the cursor it leaves.
osbyte_106 ==
    /\ \E p \in Numbers, unlink \in BOOLEAN :
         hack' = IF p > 4 THEN hack
                 ELSE IF unlink THEN
                     LET h == [hack EXCEPT !.pointer = p]
                     IN [h EXCEPT !.unlinked = mouse_hack_get_pos(h), !.linked = FALSE]
                 ELSE [hack EXCEPT !.pointer = p, !.linked = TRUE]
    /\ answer' = <<"rom">>
    /\ UNCHANGED <<host, moving, screen>>

\* With cpu_idle the Portable calls are answered; every other call is the ROM's.
OtherSwi ==
    /\ answer' \in {<<"rom">>} \cup (IF Idles THEN {<<"features">>, <<"idle">>} ELSE {})
    /\ UNCHANGED <<host, moving, hack, screen>>

opSWI ==
    \/ osword_21_4 \/ mouse_hack_osmouse \/ osword_21_3 \/ osword_21_1
    \/ osword_21_0 \/ osbyte_106 \/ OtherSwi

\* The mousehack part of keyboard_reset.
hack_reset ==
    /\ hack' = [hack EXCEPT !.pointer = 0, !.linked = TRUE]
    /\ answer' = <<"none">>
    /\ UNCHANGED <<host, moving, screen>>

HackNext == MoveX \/ MoveY \/ Buttons \/ NewScreen \/ opSWI \/ hack_reset
=============================================================================
