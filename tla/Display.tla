------------------------------ MODULE Display ------------------------------
(***************************************************************************)
(* The LCD: task_display.c and its driver hd44780.c, with the RPC          *)
(* functions of rpc_func_freertos.c that change the screen.                *)
(*                                                                         *)
(* taskDisplay (priority 3) and the RPC task (priority 1) both call        *)
(* display_set_screen, paint and update screens, and no mutex keeps them   *)
(* apart.  The RPC task is interrupted anywhere and goes on only while     *)
(* taskDisplay is delayed: between two updates, and in the 3 ms the LCD    *)
(* takes to clear.  `todo' holds what a task has still to execute of the   *)
(* functions it is in, first thing first.                                  *)
(*                                                                         *)
(* Of the LCD remains which screens the text on the glass comes from.  One *)
(* byte stands for all the text of a screen.                               *)
(***************************************************************************)
EXTENDS Naturals, Sequences

CONSTANTS
  SWITCH_SCREEN_INTERVAL,             (* updates of a screen          (10) *)
  COUNT_OF_POSSIBLE_SYSSTAT_SCREENS,  (* system status screens         (3) *)
  NoScreen                            (* current_screen_id before the boot *)
                                      (* screen (-1)                       *)

Screens == {"boot", "iu", "pbt", "sysstat", "custom"}
Tasks == {"display", "rpc"}

ASSUME DisplayAssumption ==
  /\ SWITCH_SCREEN_INTERVAL \in Nat
  /\ COUNT_OF_POSSIBLE_SYSSTAT_SCREENS \in Nat \ {0}
  /\ NoScreen \notin Screens

VARIABLES
  todo,                          (* per task, a sequence of Steps          *)
  current_screen_id,
  update_count,                  (* of iu and of pbt                       *)
  current_sysstat_screens_index,
  used_sysstat_screens,
  last_screen_id,                (* the screen the RPC task returns to     *)
  glass,                         (* the screens whose text is to be seen   *)
  garbled,                       (* bytes were cut in two by another byte  *)
  asked,                         (* the last screen the RPC task asked for *)
  again                          (* custom was set while it was shown       *)

request == <<last_screen_id, asked, again>>
counters == <<update_count, current_sysstat_screens_index>>
lcd == <<glass, garbled>>
displayVars ==
  <<todo, current_screen_id, counters, used_sysstat_screens, request, lcd>>

----------------------------------------------------------------------------
(* The steps of which the functions of a screen consist.                   *)

Step(do, what) == [do |-> do, what |-> what]

Set(s) == Step("set", s)
Paint == Step("paint", "current")
Update(reason) == Step("update", reason)
Delay(for) == Step("delay", for)
Reset(counter) == Step("reset", counter)

\* The high nibble of a byte, then the low one.
lcd_write(b) == Step("high", b)

\* The commands it sends are not told from the time it waits.
lcd_init == <<Delay("init")>>

\* lcd_locate and lcd_putc: places and characters are bytes of the text.
lcd_putc(s) == <<lcd_write(s)>>

\* lcd_putc of '\f'; the text printed next begins with lcd_locate.
FormFeed == <<lcd_write("clear"), Delay("clear")>>

lcd_printf_at(s) == lcd_putc(s)

Rows == <<Step("rows", "sysstat")>>

----------------------------------------------------------------------------
(* The paint functions; custom and sysstat paint nothing.                  *)

display_screen_boot_background == FormFeed \o lcd_printf_at("boot")
display_screen_pbt_background == FormFeed \o lcd_printf_at("pbt")

\* Mutant of display_screen_iu_background: the LCD is not cleared first.
IuBackgroundUncleared == lcd_printf_at("iu")

display_screen_iu_background == FormFeed \o lcd_printf_at("iu")

Background(s) ==
  CASE s = "boot" -> display_screen_boot_background
    [] s = "iu" -> display_screen_iu_background
    [] s = "pbt" -> display_screen_pbt_background
    [] s \in {"sysstat", "custom"} -> <<>>

----------------------------------------------------------------------------
\* lcd_init takes 48 ms; the current screen is none until it is over.
DisplayInit ==
  /\ todo = [t \in Tasks |->
       IF t = "display" THEN lcd_init \o <<Set("boot"), Delay("update"), Set("iu")>> ELSE <<>>]
  /\ current_screen_id = NoScreen
  /\ update_count = [s \in {"iu", "pbt"} |-> 0]
  /\ current_sysstat_screens_index = 0 /\ used_sysstat_screens = 0
  /\ last_screen_id = "boot"
  /\ glass = {} /\ garbled = FALSE
  /\ asked = "nothing" /\ again = FALSE

Busy(t) == todo[t] # <<>>

\* taskDisplay has to wait: tasks of lower priority run.
DisplayWaits == Busy("display") /\ Head(todo["display"]).do = "delay"

MayRun(t) == t = "rpc" => DisplayWaits

AtStep(t, do) == MayRun(t) /\ Busy(t) /\ Head(todo[t]).do = do

\* The step is done, `more' comes before the rest.
Continue(t, more) == todo' = [todo EXCEPT ![t] = more \o Tail(@)]

What(t) == Head(todo[t]).what

----------------------------------------------------------------------------
(* Choosing, painting and updating a screen.                               *)

display_set_screen(t) ==
  /\ AtStep(t, "set")
  /\ IF current_screen_id # What(t)
     THEN current_screen_id' = What(t) /\ Continue(t, <<Paint, Update("just_set")>>)
     ELSE UNCHANGED current_screen_id /\ Continue(t, <<>>)
  /\ UNCHANGED <<counters, used_sysstat_screens, request, lcd>>

\* The table is indexed with what the current screen is by then.
paint_function(t) ==
  /\ AtStep(t, "paint")
  /\ Continue(t, Background(current_screen_id))
  /\ UNCHANGED <<current_screen_id, counters, used_sysstat_screens, request, lcd>>

Updates(t, screens) == AtStep(t, "update") /\ current_screen_id \in screens

\* Mutant of CountsUpdate: only the update after painting is counted.
CountsJustSet(t) == What(t) = "just_set"

\* Mutant of CountsUpdate: no update is counted.
CountsNothing(t) == FALSE

CountsUpdate(t) == What(t) = "regular"

\* A screen of values, followed by another after some updates.
ValuesUpdate(t, s, successor) ==
  /\ Updates(t, {s})
  /\ LET n == update_count[s] + IF CountsUpdate(t) THEN 1 ELSE 0
     IN /\ update_count' = [update_count EXCEPT ![s] = n]
        /\ Continue(t, IF n > SWITCH_SCREEN_INTERVAL
                       THEN <<Set(successor), Reset(s)>>
                       ELSE lcd_printf_at(s))
  /\ UNCHANGED <<current_screen_id, current_sysstat_screens_index,
                 used_sysstat_screens, request, lcd>>

display_screen_iu_update(t) == ValuesUpdate(t, "iu", "pbt")

display_screen_pbt_update(t) == ValuesUpdate(t, "pbt", "sysstat")

ResetCount(t) ==
  /\ AtStep(t, "reset") /\ What(t) \in {"iu", "pbt"}
  /\ update_count' = [update_count EXCEPT ![What(t)] = 0]
  /\ Continue(t, <<>>)
  /\ UNCHANGED <<current_screen_id, current_sysstat_screens_index,
                 used_sysstat_screens, request, lcd>>

\* Mutant of NoSuchScreen: one screen more than there are.
OneScreenMore(index) == index > used_sysstat_screens

NoSuchScreen(index) == index >= used_sysstat_screens

display_screen_sys_stat_update(t) ==
  /\ Updates(t, {"sysstat"})
  /\ LET index == current_sysstat_screens_index + IF What(t) = "regular" THEN 1 ELSE 0
     IN /\ current_sysstat_screens_index' = index
        /\ Continue(t, IF NoSuchScreen(index)
                       THEN <<Set("iu"), Reset("index")>>
                       ELSE FormFeed \o Rows)
  /\ UNCHANGED <<current_screen_id, update_count, used_sysstat_screens, request, lcd>>

ResetIndex(t) ==
  /\ AtStep(t, "reset") /\ What(t) = "index"
  /\ current_sysstat_screens_index' = 0
  /\ Continue(t, <<>>)
  /\ UNCHANGED <<current_screen_id, update_count, used_sysstat_screens, request, lcd>>

\* Each row is read from sysstat_screen with the index of that moment.
PrintRows(t) ==
  /\ AtStep(t, "rows")
  /\ Continue(t, lcd_printf_at("sysstat"))
  /\ UNCHANGED <<current_screen_id, counters, used_sysstat_screens, request, lcd>>

\* Mutant of CustomUpdate: the custom screen gives way like the others.
CustomRotates == <<Set("iu")>>

CustomUpdate == FormFeed \o lcd_printf_at("custom")

display_screen_custom_update(t) ==
  /\ Updates(t, {"custom"})
  /\ Continue(t, CustomUpdate)
  /\ UNCHANGED <<current_screen_id, counters, used_sysstat_screens, request, lcd>>

display_screen_boot_update(t) ==
  /\ Updates(t, {"boot"})
  /\ Continue(t, <<>>)
  /\ UNCHANGED <<current_screen_id, counters, used_sysstat_screens, request, lcd>>

----------------------------------------------------------------------------
(* The LCD.                                                                *)

\* The other task has been interrupted between the two nibbles of a byte.
CutsInTwo(t) == \E u \in Tasks \ {t} : Busy(u) /\ Head(todo[u]).do = "low"

\* What the controller makes of nibbles of different bytes is not modelled:
\* from then on the glass may show anything.
HighNibble(t) ==
  /\ AtStep(t, "high")
  /\ Continue(t, <<Step("low", What(t))>>)
  /\ garbled' = (garbled \/ CutsInTwo(t))
  /\ UNCHANGED <<current_screen_id, counters, used_sysstat_screens, request, glass>>

\* What is left of u when another task begins to wait for the LCD.
Due(u) ==
  IF Busy(u) /\ Head(todo[u]) = Delay("clear")
  THEN <<Delay("due")>> \o Tail(todo[u])
  ELSE todo[u]

LowNibble(t) ==
  /\ AtStep(t, "low")
  /\ todo' = [u \in Tasks |-> IF u = t THEN Tail(todo[u])
                              ELSE IF u = "rpc" /\ What(t) = "clear" THEN Due(u)
                              ELSE todo[u]]
  /\ glass' = IF What(t) = "clear" THEN {} ELSE glass \cup {What(t)}
  /\ UNCHANGED <<current_screen_id, counters, used_sysstat_screens, request, garbled>>

\* Both tasks wait 3 ticks for the LCD: the RPC task goes on within a wait of
\* taskDisplay only when its own began before.
ClearedBefore(t) ==
  t = "rpc" /\ What("display") = "clear" => What("rpc") = "due"

DelayOver(t) ==
  /\ AtStep(t, "delay")
  /\ ClearedBefore(t)
  /\ Continue(t, <<>>)
  /\ UNCHANGED <<current_screen_id, counters, used_sysstat_screens, request, lcd>>

\* The loop of taskDisplay, after the boot screen.
UpdateRegularly ==
  /\ ~Busy("display")
  /\ todo' = [todo EXCEPT !["display"] = <<Update("regular"), Delay("update")>>]
  /\ UNCHANGED <<current_screen_id, counters, used_sysstat_screens, request, lcd>>

----------------------------------------------------------------------------
(* The RPC functions, one at a time.  The RPC task starts 50 ms after it   *)
(* has started the others, lcd_init takes 48 ms: none comes before the     *)
(* boot screen.                                                            *)

RpcIdle == ~Busy("rpc") /\ DisplayWaits /\ current_screen_id # NoScreen

display_get_current_screen == current_screen_id

\* Mutant of RememberAndSet: the screen to return to is read too late.
SetAndRemember == <<Set("custom"), Step("remember", "current")>>

RememberAndSet == <<Step("remember", "current"), Set("custom")>>

display_clear_and_set_custom_screen ==
  /\ RpcIdle
  /\ todo' = [todo EXCEPT !["rpc"] = RememberAndSet]
  /\ asked' = "custom"
  /\ again' = (current_screen_id = "custom")
  /\ UNCHANGED <<current_screen_id, counters, used_sysstat_screens,
                 last_screen_id, lcd>>

Remember ==
  /\ AtStep("rpc", "remember")
  /\ last_screen_id' = display_get_current_screen
  /\ Continue("rpc", <<>>)
  /\ UNCHANGED <<current_screen_id, counters, used_sysstat_screens, asked, again, lcd>>

display_return_to_normal_screen ==
  /\ RpcIdle
  /\ todo' = [todo EXCEPT !["rpc"] =
       IF display_get_current_screen = "custom" THEN <<Set(last_screen_id)>> ELSE <<>>]
  /\ asked' = "normal"
  /\ UNCHANGED <<current_screen_id, counters, used_sysstat_screens,
                 last_screen_id, again, lcd>>

\* The index and text of the row are abstracted from.
display_set_sysstat_screen(count_of_screens) ==
  /\ RpcIdle
  /\ used_sysstat_screens' = count_of_screens
  /\ UNCHANGED <<todo, current_screen_id, counters, request, lcd>>

----------------------------------------------------------------------------
TaskStep(t) ==
  \/ display_set_screen(t) \/ paint_function(t)
  \/ display_screen_iu_update(t) \/ display_screen_pbt_update(t) \/ ResetCount(t)
  \/ display_screen_sys_stat_update(t) \/ ResetIndex(t) \/ PrintRows(t)
  \/ display_screen_custom_update(t) \/ display_screen_boot_update(t)
  \/ HighNibble(t) \/ LowNibble(t) \/ DelayOver(t)

DisplayStep == TaskStep("display") \/ UpdateRegularly

RpcCall ==
  \/ display_clear_and_set_custom_screen
  \/ display_return_to_normal_screen
  \/ \E n \in 0 .. COUNT_OF_POSSIBLE_SYSSTAT_SCREENS : display_set_sysstat_screen(n)

RpcStep == TaskStep("rpc") \/ Remember

DisplayNext == DisplayStep \/ RpcCall \/ RpcStep

\* taskDisplay has a high priority and waits only for time to pass.
DisplaySpec ==
  /\ DisplayInit /\ [][DisplayNext]_displayVars
  /\ WF_displayVars(DisplayStep)

----------------------------------------------------------------------------
(* Properties.                                                             *)

Targets == Screens \cup {NoScreen}

\* The steps a task has still to do, at the most.
DEPTH == 7

\* Painting and updating call display_set_screen, which paints and updates:
\* the nesting ends, at a depth that fits the stack of a task (task_display.c:
\* 77, 104, 164, 242).
DisplayTypeOK ==
  /\ \A t \in Tasks : Len(todo[t]) <= DEPTH
  /\ current_screen_id \in Targets
  /\ \A s \in {"iu", "pbt"} : update_count[s] \in 0 .. (SWITCH_SCREEN_INTERVAL + 1)
  /\ current_sysstat_screens_index \in 0 .. COUNT_OF_POSSIBLE_SYSSTAT_SCREENS
  /\ used_sysstat_screens \in 0 .. COUNT_OF_POSSIBLE_SYSSTAT_SCREENS
  /\ last_screen_id \in Screens
  /\ glass \subseteq Screens /\ garbled \in BOOLEAN
  /\ asked \in {"nothing", "custom", "normal"} /\ again \in BOOLEAN

\* taskDisplay is on its way from the system status to the voltages.
Leaving == \E i \in DOMAIN todo["display"] : todo["display"][i] = Reset("index")

\* A row is read within sysstat_screen (the bound of the assertion in
\* display_set_sysstat_screen_).  The exception is real: the RPC task paints
\* the system status, waits for the LCD to clear, and goes on while
\* taskDisplay has counted past the last screen and not yet reset the index.
SysstatIndexInRange ==
  \A t \in Tasks :
    (Busy(t) /\ Head(todo[t]).do = "rows" /\ (t = "rpc" => ~Leaving)) =>
      current_sysstat_screens_index < COUNT_OF_POSSIBLE_SYSSTAT_SCREENS

\* A custom screen stays until the RPC task returns from it, whatever
\* taskDisplay is in the middle of when it is set.  The only exception is the
\* end of the boot screen, which replaces it.
CustomIsKept ==
  [][(current_screen_id = "custom" /\ current_screen_id' # "custom") =>
       \/ asked = "normal" /\ Busy("rpc")
       \/ todo["display"] = <<Set("iu")>>]_displayVars

\* After display_return_to_normal_screen the custom screen is gone, unless it
\* was set while it was shown: then it is what last_screen_id holds.
ReturnLeavesCustom ==
  (asked = "normal" /\ ~Busy("rpc") /\ ~again) => current_screen_id # "custom"

RpcIsQuiet == <>[](~Busy("rpc"))

\* However calls and updates mixed on the LCD: when the RPC task is quiet, in
\* the end nothing but the current screen is to be seen whenever taskDisplay
\* waits for its next update, as long as no byte was cut in two.  The boot
\* screen is never painted again.
HealsWhenRpcIsQuiet ==
  RpcIsQuiet =>
    <>[](todo["display"] = <<Delay("update")>> =>
           glass = {current_screen_id} \/ garbled \/ current_screen_id = "boot")

\* When the RPC task is quiet the screens go on changing, unless it has left
\* the custom screen behind, or the boot screen, which it can have taken for
\* the screen to return to just when taskDisplay left it.
RotationGoesOn ==
  RpcIsQuiet =>
    \/ <>[](current_screen_id \in {"boot", "custom"})
    \/ []<>(current_screen_id = "iu") /\ []<>(current_screen_id = "pbt")

============================================================================
