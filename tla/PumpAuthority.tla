---------------------------- MODULE PumpAuthority ----------------------------
(***************************************************************************)
(* What the controller promises about the pump, without any of its         *)
(* bookkeeping: at every moment the pump has one holder, and only the      *)
(* holder moves it.                                                        *)
(*                                                                         *)
(*   - a user command takes the pump and sets it, whoever held it before,  *)
(*     and while the user holds the pump it stays as commanded;            *)
(*   - an active timer received from the server takes the pump from its    *)
(*     holder but does not move it by being received;                      *)
(*   - an inactive timer takes the pump away from the timer only: it       *)
(*     never cancels a user command;                                       *)
(*   - a pump that nobody holds stays as it is;                            *)
(*   - going down switches the pump off and forgets the holder, and        *)
(*     coming up again does not move it.                                   *)
(***************************************************************************)
VARIABLES
  up,      \* FALSE from a loss of power until setup() has begun
  pump,    \* TRUE while the relay is energised
  holder   \* who may move the pump: "nobody", "timer", or the user, who
           \* ordered it "on" or "off"

vars == <<up, pump, holder>>

Init == up = FALSE /\ pump = FALSE /\ holder = "nobody"

Start == ~up /\ up' = TRUE /\ UNCHANGED <<pump, holder>>

UserCommand(on) ==
  /\ up
  /\ pump' = on
  /\ holder' = IF on THEN "on" ELSE "off"
  /\ UNCHANGED up

ServerArms == up /\ holder' = "timer" /\ UNCHANGED <<up, pump>>

ServerDisarms ==
  /\ up /\ holder = "timer"
  /\ holder' = "nobody"
  /\ UNCHANGED <<up, pump>>

TimerMoves ==
  /\ up /\ holder = "timer"
  /\ pump' \in BOOLEAN
  /\ UNCHANGED <<up, holder>>

GoDown == up /\ up' = FALSE /\ pump' = FALSE /\ holder' = "nobody"

Next ==
  \/ Start \/ GoDown
  \/ \E on \in BOOLEAN : UserCommand(on)
  \/ ServerArms \/ ServerDisarms
  \/ TimerMoves

Spec == Init /\ [][Next]_vars
=============================================================================
