------------------------------- MODULE Board -------------------------------
(***************************************************************************)
(* The devices on the board that share nothing with each other: the time   *)
(* base, the servo, the picture, the I2C master and the SPI flash.  One of *)
(* them runs at a time; their product would show nothing more.             *)
(***************************************************************************)
EXTENDS GameTimer, Servo, Vga, I2c, SpiFlash

VARIABLE part

boardVars == <<part, timerVars, servoVars, vgaVars, i2cVars, flashVars>>

BoardInit ==
  /\ part \in {"timer", "servo", "vga", "i2c", "flash"}
  /\ time_init /\ ServoInit /\ VgaInit /\ I2cInit /\ FlashInit
  /\ part # "servo" => ~ reset
  /\ part # "flash" => clock.lowest = Slowest

BoardNext ==
  /\ UNCHANGED part
  /\ \/ /\ part = "timer" /\ TimerNext
        /\ UNCHANGED <<servoVars, vgaVars, i2cVars, flashVars>>
     \/ /\ part = "servo" /\ ServoClock
        /\ UNCHANGED <<timerVars, vgaVars, i2cVars, flashVars>>
     \/ /\ part = "vga" /\ VgaNext
        /\ UNCHANGED <<timerVars, servoVars, i2cVars, flashVars>>
     \/ /\ part = "i2c" /\ I2cNext
        /\ UNCHANGED <<timerVars, servoVars, vgaVars, flashVars>>
     \/ /\ part = "flash" /\ FlashNext
        /\ UNCHANGED <<timerVars, servoVars, vgaVars, i2cVars>>

BoardSpec == BoardInit /\ [][BoardNext]_boardVars
=============================================================================
