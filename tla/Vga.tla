-------------------------------- MODULE Vga --------------------------------
(***************************************************************************)
(* The picture: the counters and sync signals of custom/vga_driver.v and   *)
(* the sprites of custom/pong_drawer.v, at every clock of the pixel clock, *)
(* with a monitor that knows nothing but the signals.  The processor       *)
(* writes the four registers at any time.                                  *)
(***************************************************************************)
EXTENDS Integers

CONSTANTS
  FRAME_WIDTH, FRAME_HEIGHT,
  H_FP, H_PW, H_MAX, V_FP, V_PW, V_MAX,
  CURSOR_WIDTH, CURSOR_OFFSET, CURSOR_HEIGHT, BALL_SIDE,
  Px, Py,                   \* coordinates that the processor writes
  MaxWrites, MaxVgaResets   \* bounds of the model

ASSUME VgaAssumption ==
  /\ {FRAME_WIDTH, FRAME_HEIGHT, H_FP, H_PW, V_FP, V_PW} \subseteq Nat \ {0}
  /\ {H_MAX, V_MAX, CURSOR_WIDTH, CURSOR_OFFSET} \subseteq Nat
  /\ \A side \in {CURSOR_HEIGHT, BALL_SIDE} : side \in Nat /\ side % 2 = 0
  /\ Px \subseteq Nat /\ Py \subseteq Nat
  /\ FRAME_WIDTH + H_FP + H_PW <= H_MAX /\ FRAME_HEIGHT + V_FP + V_PW <= V_MAX

VARIABLES
  hCntr, vCntr, Hsync, Vsync,
  place,            \* the registers: cursor_left_py, cursor_right_py, ball_px, ball_py
  monitor,          \* clocks since Hsync fell, lines since Vsync fell; whether it has locked
  vgaBudget         \* writes and resets that are left

vgaVars == <<hCntr, vCntr, Hsync, Vsync, place, monitor, vgaBudget>>

hCntrEnd_late == hCntr = H_MAX
hCntrEnd == hCntr = H_MAX - 1
vCntrEnd == vCntr = V_MAX - 1

VgaInit ==
  /\ hCntr = 0 /\ vCntr = 0 /\ Hsync = 0 /\ Vsync = 0
  /\ place \in [left : {0}, right : {0}, x : {0}, y : {0}]
  /\ monitor = [h |-> 0, v |-> 0, locked |-> FALSE]
  /\ vgaBudget = [writes |-> MaxWrites, resets |-> MaxVgaResets]

(* A rising edge of the pixel clock.  The sync signals are registers: they *)
(* follow the counters one clock later.                                    *)
pxlClk(rst) ==
  /\ hCntr' = IF rst \/ hCntrEnd THEN 0 ELSE hCntr + 1
  /\ vCntr' = IF rst \/ (hCntrEnd /\ vCntrEnd) THEN 0 ELSE IF hCntrEnd THEN vCntr + 1 ELSE vCntr
  /\ Hsync' = IF hCntr \in H_FP + FRAME_WIDTH - 1 .. H_FP + FRAME_WIDTH + H_PW - 2 THEN 0 ELSE 1
  /\ Vsync' = IF vCntr \in V_FP + FRAME_HEIGHT - 1 .. V_FP + FRAME_HEIGHT + V_PW - 2 THEN 0 ELSE 1

HsyncFalls == Hsync = 1 /\ Hsync' = 0
VsyncFalls == Vsync = 1 /\ Vsync' = 0

Locks(rst) ==
  monitor' = [h |-> IF HsyncFalls THEN 0 ELSE IF monitor.h < H_MAX THEN monitor.h + 1 ELSE H_MAX,
              v |-> IF VsyncFalls THEN 0
                    ELSE IF HsyncFalls /\ monitor.v < V_MAX THEN monitor.v + 1 ELSE monitor.v,
              locked |-> ~ rst /\ (VsyncFalls \/ monitor.locked)]

PixelClock == pxlClk(FALSE) /\ Locks(FALSE) /\ UNCHANGED <<place, vgaBudget>>

VgaReset ==
  /\ vgaBudget.resets > 0 /\ vgaBudget' = [vgaBudget EXCEPT !.resets = @ - 1]
  /\ pxlClk(TRUE) /\ Locks(TRUE) /\ UNCHANGED place

WriteRegister ==
  /\ vgaBudget.writes > 0 /\ vgaBudget' = [vgaBudget EXCEPT !.writes = @ - 1]
  /\ \/ \E y \in Py, r \in {"left", "right", "y"} : place' = [place EXCEPT ![r] = y]
     \/ \E x \in Px : place' = [place EXCEPT !.x = x]
  /\ UNCHANGED <<hCntr, vCntr, Hsync, Vsync, monitor>>

VgaNext == PixelClock \/ VgaReset \/ WriteRegister
VgaSpec == VgaInit /\ [][VgaNext]_vgaVars

-----------------------------------------------------------------------------
Near(cntr, side, at) == cntr + side \div 2 > at /\ cntr < at + side \div 2

draw_left_cursor ==
  /\ hCntr > CURSOR_OFFSET /\ hCntr < CURSOR_OFFSET + CURSOR_WIDTH
  /\ Near(vCntr, CURSOR_HEIGHT, place.left)
draw_right_cursor ==
  /\ hCntr > FRAME_WIDTH - (CURSOR_OFFSET + CURSOR_WIDTH) /\ hCntr < FRAME_WIDTH - CURSOR_OFFSET
  /\ Near(vCntr, CURSOR_HEIGHT, place.right)
draw_ball == Near(hCntr, BALL_SIDE, place.x) /\ Near(vCntr, BALL_SIDE, place.y)

active == hCntr < FRAME_WIDTH /\ vCntr < FRAME_HEIGHT
rgb ==
  IF ~ active THEN "blank"
  ELSE IF draw_left_cursor \/ draw_right_cursor \/ draw_ball THEN "color" ELSE "off_color"

-----------------------------------------------------------------------------
(* Where the monitor is: the first pixel comes H_MAX - FRAME_WIDTH - H_FP  *)
(* clocks after Hsync falls, the first line V_MAX - FRAME_HEIGHT lines     *)
(* after Vsync falls (of which V_FP - 1 are left as the front porch: the   *)
(* comparison of vCntr takes off one line for a register that is late by   *)
(* one clock).                                                             *)
column == monitor.h - (H_MAX - FRAME_WIDTH - H_FP)
row    == monitor.v - (V_MAX - FRAME_HEIGHT - V_FP + 1)

Lit(x, y) ==
  LET In(cx, cy, w, h) == 2 * x \in 2 * cx - w + 1 .. 2 * cx + w - 1
                           /\ 2 * y \in 2 * cy - h + 1 .. 2 * cy + h - 1
      middle == 2 * CURSOR_OFFSET + CURSOR_WIDTH
  IN \/ In(place.x, place.y, BALL_SIDE, BALL_SIDE)
     \/ \E p \in {<<middle, place.left>>, <<2 * FRAME_WIDTH - middle, place.right>>} :
          /\ 2 * x \in p[1] - CURSOR_WIDTH + 1 .. p[1] + CURSOR_WIDTH - 1
          /\ 2 * y \in 2 * p[2] - CURSOR_HEIGHT + 1 .. 2 * p[2] + CURSOR_HEIGHT - 1

(* A monitor that has seen one whole sync without a reset shows, at each   *)
(* of its points, what the registers say is there, nothing outside of the  *)
(* frame, and receives sync pulses of the lengths it needs.                *)
FrameIsRight ==
  monitor.locked =>
    /\ rgb = IF column \in 0 .. FRAME_WIDTH - 1 /\ row \in 0 .. FRAME_HEIGHT - 1
             THEN IF Lit(column, row) THEN "color" ELSE "off_color" ELSE "blank"
    /\ (Hsync = 0) = (monitor.h < H_PW)
    /\ Vsync = 0 => monitor.v \in 0 .. V_PW
    /\ Vsync = 1 => monitor.v \in V_PW .. V_MAX
=============================================================================
