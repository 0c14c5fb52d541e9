-------------------------------- MODULE Leds --------------------------------
(***************************************************************************)
(* The blinking patterns of the LEDs: task_led.c.  taskLED is the only     *)
(* task that uses them, with blinking patterns; Morse code and fading are  *)
(* never asked for and left out.  A step is one pass of the loop, every    *)
(* 50 ms.                                                                  *)
(***************************************************************************)
EXTENDS Naturals

CONSTANTS
  TIME_ON, TIME_OFF, TIME_PAUSE,  (* of the red LED, in 50 ms      (each 10) *)
  REPEAT,                         (* its flashes between two pauses     (10) *)
  COUNTER_RANGE                   (* values of actionCounter         (65536) *)

\* The pattern is one that blinks, its counter does not overflow.
ASSUME LedsAssumption ==
  /\ TIME_ON \in Nat \ {0} /\ TIME_OFF \in Nat /\ TIME_PAUSE \in Nat
  /\ REPEAT \in Nat \ {0}
  /\ COUNTER_RANGE \in Nat /\ 2 * REPEAT < COUNTER_RANGE

\* led_id_t and ledPatternPriority_t.
lid_none == 0
lid_red == 1
lid_green == 2
lid_yellow == 3
Leds == lid_red .. lid_yellow

lpp_priority_0_max == 1
lpp_priority_1 == 2
Priorities == lpp_priority_0_max .. lpp_priority_1

VARIABLES
  ledPatterns,   (* per priority and LED                                   *)
  lit,           (* the LEDs that are on                                   *)
  flashes,       (* history: times the red LED went on since the pause     *)
  pausing        (* history: the red LED is in its pause                   *)

ledVars == <<ledPatterns, lit, flashes, pausing>>

----------------------------------------------------------------------------
(* Patterns.                                                               *)

\* ledPatternDeactivate; statics are zero at the start, too.
Inactive(id) ==
  [active |-> FALSE, ledID |-> id, on |-> 0, off |-> 0, pause |-> 0,
   repeat |-> 0, actionCounter |-> 0, nextActionTime |-> 0]

ledPatternSetToBlink(p, id, on, off, pause, repeat) ==
  [active |-> TRUE, ledID |-> id, on |-> on, off |-> off, pause |-> pause,
   repeat |-> repeat, actionCounter |-> 0, nextActionTime |-> p.nextActionTime]

getMaxPatternPriority(l) ==
  IF \E prio \in Priorities : ledPatterns[prio][l].active
  THEN CHOOSE prio \in Priorities :
         /\ ledPatterns[prio][l].active
         /\ \A higher \in Priorities : ledPatterns[higher][l].active => prio <= higher
  ELSE lpp_priority_1

\* taskLED passes the priority for the LED and the LED for the priority: the
\* loop over two priorities and three LEDs comes to the patterns of the first
\* two LEDs, and to what lies behind the array, which is not modelled.  The
\* yellow LED keeps lid_none.
Deactivated ==
  [prio \in Priorities |-> [l \in Leds |->
     IF l \in Priorities THEN Inactive(l) ELSE Inactive(lid_none)]]

----------------------------------------------------------------------------
(* ledTick.                                                                *)

Elapsed(p) == IF p.nextActionTime = 0 THEN 0 ELSE p.nextActionTime - 1

Next16(n) == (n + 1) % COUNTER_RANGE

\* Mutant of IsLastAction: the pause comes before the last flash.
IsLastFlash(p, n) == n = p.repeat * 2 - 2

IsLastAction(p, n) == n = p.repeat * 2

\* What the pattern does next, when its counter has become n.
Action(p, n) ==
  CASE p.repeat = 0 -> "off"
    [] p.repeat # 0 /\ IsLastAction(p, n) -> "pause"
    [] p.repeat # 0 /\ ~IsLastAction(p, n) ->
         IF n % 2 = 1 /\ p.on # 0 THEN "on" ELSE "off"

Due(p) == Elapsed(p) = 0

Acts(p, action) == Due(p) /\ Action(p, Next16(p.actionCounter)) = action

ledTick(p) ==
  LET n == Next16(p.actionCounter)
  IN IF Due(p)
     THEN [p EXCEPT !.actionCounter = IF IsLastAction(p, n) THEN 0 ELSE n,
                    !.nextActionTime = CASE Acts(p, "on") -> p.on
                                         [] Acts(p, "off") -> p.off
                                         [] Acts(p, "pause") -> p.pause]
     ELSE [p EXCEPT !.nextActionTime = Elapsed(p)]

\* boardSetLED: the green LED is not connected.
Wired == {lid_red, lid_yellow}

----------------------------------------------------------------------------
(* taskLED.                                                                *)

LedsInit ==
  /\ ledPatterns = [prio \in Priorities |-> [l \in Leds |-> Inactive(lid_none)]]
  /\ lit = {}
  /\ flashes = 0 /\ pausing = FALSE

LedsReset ==
  /\ ledPatterns' = [prio \in Priorities |-> [l \in Leds |-> Inactive(lid_none)]]
  /\ lit' = {}
  /\ flashes' = 0 /\ pausing' = FALSE

\* Until its loop, which begins with a delay.
taskLED ==
  /\ ledPatterns' = [Deactivated EXCEPT ![lpp_priority_1][lid_red] =
       ledPatternSetToBlink(@, lid_red, TIME_ON, TIME_OFF, TIME_PAUSE, REPEAT)]
  /\ lit' = lit \ (Wired \cap Priorities)
  /\ UNCHANGED <<flashes, pausing>>

\* The pattern of an LED that is played.
Played(l) == ledPatterns[getMaxPatternPriority(l)][l]

\* The LEDs that their patterns switch on, or off.
Switched(action) ==
  {Played(l).ledID : l \in {x \in Leds : Acts(Played(x), action)}} \cap Wired

RedDoes(action) == Acts(Played(lid_red), action)

taskLEDPatternLoop ==
  /\ ledPatterns' = [prio \in Priorities |-> [l \in Leds |->
       IF prio = getMaxPatternPriority(l) THEN ledTick(ledPatterns[prio][l])
       ELSE ledPatterns[prio][l]]]
  /\ lit' = (lit \ (Switched("off") \cup Switched("pause"))) \cup Switched("on")
  /\ flashes' = IF RedDoes("on") THEN (IF pausing THEN 1 ELSE flashes + 1) ELSE flashes
  /\ pausing' = IF RedDoes("on") THEN FALSE ELSE pausing \/ RedDoes("pause")

----------------------------------------------------------------------------
(* Properties.                                                             *)

LedsTypeOK ==
  /\ \A prio \in Priorities, l \in Leds :
       /\ ledPatterns[prio][l].ledID \in Leds \cup {lid_none}
       /\ ledPatterns[prio][l].actionCounter \in 0 .. (COUNTER_RANGE - 1)
       /\ ledPatterns[prio][l].nextActionTime \in Nat
  /\ lit \subseteq Wired
  /\ flashes \in Nat /\ pausing \in BOOLEAN

\* The red LED flashes as often as its pattern says, then it pauses, and in
\* the pause it is off (task_led.c:189, 201-204).
FlashesBetweenPauses ==
  /\ flashes <= REPEAT
  /\ pausing => flashes = REPEAT /\ lid_red \notin lit

=============================================================================
