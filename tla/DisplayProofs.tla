--------------------------- MODULE DisplayProofs ---------------------------
(***************************************************************************)
(* What the screens keep while taskDisplay and the RPC task change them,   *)
(* for every interval of the rotation and every number of system status    *)
(* screens.                                                                *)
(*                                                                         *)
(* What a task has still to do is one of finitely many sequences, each the *)
(* code of a place: what is left of the screen being changed (Front), the  *)
(* update after it (Then), and the counters to reset after that, innermost *)
(* call first, with the loop of the task (Base).  The invariant relates    *)
(* the places of the two tasks, the current screen and the counters.       *)
(***************************************************************************)
EXTENDS Display, SequenceTheorems, TLAPS

Verbs == {"set", "paint", "update", "delay", "reset", "high", "low", "rows", "remember"}
Objects ==
  Screens \cup {"current", "just_set", "regular", "init", "update", "clear", "due", "index"}

AllSteps == [do : Verbs, what : Objects]

----------------------------------------------------------------------------
(* Places.                                                                 *)

\* One step before others.
Push(step, q) == <<step>> \o q

\* What the text of a screen begins with.
Text(s) == IF s = "sysstat" THEN Step("rows", "sysstat") ELSE lcd_write(s)

Front(at, s, q) ==
  CASE at = "none" -> q
    [] at = "set" -> Push(Set(s), q)
    [] at = "remember" -> Push(Step("remember", "current"), Push(Set("custom"), q))
    [] at = "paint" -> Push(Paint, q)
    [] at = "clear" -> Push(lcd_write("clear"), Push(Delay("clear"), Push(Text(s), q)))
    [] at = "clearing" -> Push(Step("low", "clear"), Push(Delay("clear"), Push(Text(s), q)))
    [] at = "wait" -> Push(Delay("clear"), Push(Text(s), q))
    [] at = "due" -> Push(Delay("due"), Push(Text(s), q))
    [] at = "text" -> Push(Text(s), q)
    [] at = "high" -> Push(lcd_write(s), q)
    [] at = "low" -> Push(Step("low", s), q)

Then(j, q) ==
  CASE j = "no" -> q
    [] j = "just" -> Push(Update("just_set"), q)
    [] j = "regular" -> Push(Update("regular"), q)

BootEnd == Push(Delay("update"), Push(Set("iu"), <<>>))
Loop == Push(Delay("update"), <<>>)

Base(b) ==
  CASE b = "start" -> Push(Delay("init"), Push(Set("boot"), BootEnd))
    [] b = "boot_end" -> BootEnd
    [] b = "end" -> <<>>
    [] b = "loop" -> Loop
    [] b = "iu" -> Push(Reset("iu"), Loop)
    [] b = "iu_iu" -> Push(Reset("iu"), Push(Reset("iu"), Loop))
    [] b = "pbt" -> Push(Reset("pbt"), Loop)
    [] b = "index" -> Push(Reset("index"), Loop)
    [] b = "index_pbt" -> Push(Reset("index"), Push(Reset("pbt"), Loop))
    [] b = "owed" -> Push(Reset("index"), <<>>)

Code(p) == Front(p.at, p.s, Then(p.j, Base(p.b)))

DisplayBases ==
  {"start", "boot_end", "end", "loop", "iu", "iu_iu", "pbt", "index", "index_pbt"}

\* The screens taskDisplay goes on to, with what is to be done after.
Nested ==
  {<<"boot", "boot_end">>, <<"iu", "end">>, <<"pbt", "iu">>, <<"pbt", "iu_iu">>,
   <<"sysstat", "pbt">>, <<"iu", "index">>, <<"iu", "index_pbt">>}

DisplayPlaces ==
  {d \in [at : {"none", "set", "paint", "clear", "clearing", "wait", "text", "high", "low"},
          s : Screens, j : {"no", "just", "regular"}, b : DisplayBases] :
     /\ d.j = "regular" => d.at = "none" /\ d.b = "loop"
     /\ d.j = "just" \/ d.at = "set" => <<d.s, d.b>> \in Nested
     /\ d.at \in {"set", "high"} => d.j = "no"
     /\ d.at = "paint" => d.j = "just"
     /\ d.at \in {"clear", "clearing"} /\ d.j = "no" => d.s \in {"sysstat", "custom"}
     /\ d.b = "start" => d.at = "none" /\ d.j = "no"
     /\ d.j = "just" /\ d.s = "sysstat" => d.at \in {"paint", "none"}}

RpcPlaces ==
  {r \in [at : {"none", "set", "remember", "paint", "clear", "clearing", "wait", "due",
                "text", "high", "low"},
          s : Screens, j : {"no", "just"}, b : {"end", "owed"}] :
     /\ r.at \in {"set", "remember"} => r.j = "no"
     /\ r.at = "remember" => r.b = "end"
     /\ r.at = "paint" => r.j = "just"}

----------------------------------------------------------------------------
(* The code of places.                                                     *)

LEMMA StepFields ==
  ASSUME NEW do \in Verbs, NEW what \in Objects
  PROVE  Step(do, what) \in AllSteps /\ Step(do, what).do = do /\ Step(do, what).what = what
  BY DEF Step, AllSteps

LEMMA Pushed ==
  ASSUME NEW S, NEW q \in Seq(S), NEW x \in S
  PROVE  /\ Push(x, q) \in Seq(S) /\ Push(x, q) # <<>>
         /\ Len(Push(x, q)) = Len(q) + 1
         /\ Head(Push(x, q)) = x /\ Tail(Push(x, q)) = q
<1> DEFINE p == <<x>> \o q
<1>1. /\ <<x>> \in Seq(S) /\ Len(<<x>>) = 1 /\ <<x>>[1] = x
      /\ Len(q) \in Nat
  OBVIOUS
<1>2. /\ p \in Seq(S) /\ Len(p) = Len(<<x>>) + Len(q)
      /\ \A i \in 1 .. Len(<<x>>) + Len(q) : p[i] = IF i <= Len(<<x>>) THEN <<x>>[i]
                                                ELSE q[i - Len(<<x>>)]
  BY <1>1, ConcatProperties, Zenon
<1> HIDE DEF p
<1>3. /\ p \in Seq(S) /\ Len(p) = Len(q) + 1 /\ p[1] = x
      /\ \A i \in 1 .. Len(q) : p[i + 1] = q[i]
  BY <1>1, <1>2
<1>4. p # <<>>
  BY <1>1, <1>3
<1>5. /\ Tail(p) \in Seq(S) /\ Len(Tail(p)) = Len(p) - 1
      /\ \A i \in 1 .. Len(Tail(p)) : Tail(p)[i] = p[i + 1]
  BY <1>3, <1>4, HeadTailProperties
<1>6. Len(Tail(p)) = Len(q) /\ \A i \in 1 .. Len(Tail(p)) : Tail(p)[i] = q[i]
  BY <1>1, <1>3, <1>5
<1>7. Tail(p) = q
  BY <1>5, <1>6, SeqEqual
<1>8. Head(p) = x
  BY <1>3
<1> QED
  BY <1>3, <1>4, <1>7, <1>8 DEF p, Push

LEMMA Pairs ==
  ASSUME NEW S, NEW x \in S, NEW y \in S
  PROVE  <<x, y>> = <<x>> \o <<y>>
<1> DEFINE c == <<x>> \o <<y>>
           d == <<x, y>>
<1>1. /\ <<x>> \in Seq(S) /\ Len(<<x>>) = 1 /\ <<x>>[1] = x
      /\ <<y>> \in Seq(S) /\ Len(<<y>>) = 1 /\ <<y>>[1] = y
      /\ d \in Seq(S) /\ Len(d) = 2 /\ d[1] = x /\ d[2] = y
  OBVIOUS
<1>2. /\ c \in Seq(S) /\ Len(c) = Len(<<x>>) + Len(<<y>>)
      /\ \A i \in 1 .. Len(<<x>>) + Len(<<y>>) :
           c[i] = IF i <= Len(<<x>>) THEN <<x>>[i] ELSE <<y>>[i - Len(<<x>>)]
  BY <1>1, ConcatProperties, Zenon
<1> HIDE DEF c, d
<1>3. Len(c) = 2 /\ c[1] = x /\ c[2] = y
  BY <1>1, <1>2
<1>4. \A i \in 1 .. Len(c) : c[i] = d[i]
  BY <1>1, <1>3
<1>5. c = d
  BY <1>1, <1>2, <1>3, <1>4, SeqEqual
<1> QED
  BY <1>5 DEF c, d

LEMMA Triples ==
  ASSUME NEW S, NEW x \in S, NEW y \in S, NEW z \in S
  PROVE  <<x, y, z>> = <<x>> \o <<y, z>>
<1> DEFINE c == <<x>> \o <<y, z>>
           d == <<x, y, z>>
<1>1. /\ <<x>> \in Seq(S) /\ Len(<<x>>) = 1 /\ <<x>>[1] = x
      /\ <<y, z>> \in Seq(S) /\ Len(<<y, z>>) = 2 /\ <<y, z>>[1] = y /\ <<y, z>>[2] = z
      /\ d \in Seq(S) /\ Len(d) = 3 /\ d[1] = x /\ d[2] = y /\ d[3] = z
  OBVIOUS
<1>2. /\ c \in Seq(S) /\ Len(c) = Len(<<x>>) + Len(<<y, z>>)
      /\ \A i \in 1 .. Len(<<x>>) + Len(<<y, z>>) :
           c[i] = IF i <= Len(<<x>>) THEN <<x>>[i] ELSE <<y, z>>[i - Len(<<x>>)]
  BY <1>1, ConcatProperties, Zenon
<1> HIDE DEF c, d
<1>3. Len(c) = 3 /\ c[1] = x /\ c[2] = y /\ c[3] = z
  BY <1>1, <1>2
<1>4. \A i \in 1 .. Len(c) : c[i] = d[i]
  BY <1>1, <1>3
<1>5. c = d
  BY <1>1, <1>2, <1>3, <1>4, SeqEqual
<1> QED
  BY <1>5 DEF c, d

\* Two and three steps before others.
LEMMA TwoSteps ==
  ASSUME NEW q \in Seq(AllSteps), NEW x \in AllSteps, NEW y \in AllSteps
  PROVE  <<x, y>> \o q = Push(x, Push(y, q))
<1>1. <<x>> \in Seq(AllSteps) /\ <<y>> \in Seq(AllSteps)
  OBVIOUS
<1>2. <<x, y>> = <<x>> \o <<y>>
  BY Pairs
<1> QED
  BY <1>1, <1>2, ConcatAssociative DEF Push

LEMMA ThreeSteps ==
  ASSUME NEW q \in Seq(AllSteps),
         NEW x \in AllSteps, NEW y \in AllSteps, NEW z \in AllSteps
  PROVE  (<<x, y>> \o <<z>>) \o q = Push(x, Push(y, Push(z, q)))
<1> DEFINE p == <<z>> \o q
<1>1. /\ <<x, y>> \in Seq(AllSteps) /\ <<z>> \in Seq(AllSteps)
  OBVIOUS
<1>2. p \in Seq(AllSteps)
  BY <1>1, ConcatProperties
<1>3. (<<x, y>> \o <<z>>) \o q = <<x, y>> \o (<<z>> \o q)
  BY <1>1, ConcatAssociative
<1>4. <<x, y>> \o p = Push(x, Push(y, p))
  <2> HIDE DEF p
  <2> QED
    BY <1>2, TwoSteps
<1> QED
  BY <1>3, <1>4 DEF Push

LEMMA TripleIs ==
  ASSUME NEW x \in AllSteps, NEW y \in AllSteps, NEW z \in AllSteps
  PROVE  <<x, y, z>> = Push(x, Push(y, Push(z, <<>>)))
<1>1. <<z>> \o <<>> = <<z>>
  BY ConcatEmptySeq
<1>2. <<y, z>> = <<y>> \o <<z>>
  BY Pairs
<1>3. <<x, y, z>> = <<x>> \o <<y, z>>
  BY Triples
<1> QED
  BY <1>1, <1>2, <1>3 DEF Push

----------------------------------------------------------------------------
(* What a step does to the steps that are left.                            *)

Todos(x, y) == [t \in Tasks |-> IF t = "display" THEN x ELSE y]

TodoOK == todo \in [Tasks -> Seq(AllSteps)]

LEMMA Doing ==
  ASSUME TodoOK, NEW t \in Tasks, NEW x \in AllSteps, NEW q \in Seq(AllSteps),
         todo[t] = Push(x, q), TaskStep(t)
  PROVE  /\ MayRun(t)
         /\ What(t) = x.what
         /\ x.do = "set" => display_set_screen(t)
         /\ x.do = "paint" => paint_function(t)
         /\ x.do = "update" => \/ display_screen_iu_update(t) \/ display_screen_pbt_update(t)
                               \/ display_screen_sys_stat_update(t)
                               \/ display_screen_custom_update(t)
                               \/ display_screen_boot_update(t)
         /\ x.do = "reset" => ResetCount(t) \/ ResetIndex(t)
         /\ x.do = "rows" => PrintRows(t)
         /\ x.do = "high" => HighNibble(t)
         /\ x.do = "low" => LowNibble(t)
         /\ x.do = "delay" => DelayOver(t)
         /\ x.do # "remember"
<1>1. Head(todo[t]) = x
  BY Pushed
<1>2. /\ display_set_screen(t) => AtStep(t, "set")
      /\ paint_function(t) => AtStep(t, "paint")
      /\ display_screen_iu_update(t) => AtStep(t, "update")
      /\ display_screen_pbt_update(t) => AtStep(t, "update")
      /\ ResetCount(t) => AtStep(t, "reset")
      /\ display_screen_sys_stat_update(t) => AtStep(t, "update")
      /\ ResetIndex(t) => AtStep(t, "reset")
      /\ PrintRows(t) => AtStep(t, "rows")
      /\ display_screen_custom_update(t) => AtStep(t, "update")
      /\ display_screen_boot_update(t) => AtStep(t, "update")
      /\ HighNibble(t) => AtStep(t, "high")
      /\ LowNibble(t) => AtStep(t, "low")
      /\ DelayOver(t) => AtStep(t, "delay")
  BY Zenon DEF display_set_screen, paint_function, display_screen_iu_update,
       display_screen_pbt_update, ValuesUpdate, Updates, ResetCount,
       display_screen_sys_stat_update, ResetIndex, PrintRows, display_screen_custom_update,
       display_screen_boot_update, HighNibble, LowNibble, DelayOver
<1>3. \A do : AtStep(t, do) <=> MayRun(t) /\ Busy(t) /\ x.do = do
  BY <1>1 DEF AtStep
<1>4. What(t) = x.what
  BY <1>1 DEF What
<1> QED
  BY <1>2, <1>3, <1>4 DEF TaskStep

LEMMA Continued ==
  ASSUME TodoOK, NEW t \in Tasks, NEW x \in AllSteps, NEW q \in Seq(AllSteps),
         todo[t] = Push(x, q), NEW more, Continue(t, more)
  PROVE  todo' = [todo EXCEPT ![t] = more \o q]
<1>1. Tail(todo[t]) = q
  BY Pushed
<1> QED
  BY <1>1 DEF Continue, TodoOK

\* The strings the steps are made of.
LEMMA Words ==
  /\ \A s \in Screens : /\ Set(s) \in AllSteps /\ Set(s).do = "set" /\ Set(s).what = s
                        /\ lcd_write(s) \in AllSteps
                        /\ lcd_write(s).do = "high" /\ lcd_write(s).what = s
                        /\ Step("low", s) \in AllSteps /\ Text(s) \in AllSteps
                        /\ Step("low", s).do = "low" /\ Step("low", s).what = s
  /\ Paint \in AllSteps /\ Paint.do = "paint"
  /\ \A w \in {"just_set", "regular"} :
       Update(w) \in AllSteps /\ Update(w).do = "update" /\ Update(w).what = w
  /\ \A w \in {"init", "update", "clear", "due"} :
       Delay(w) \in AllSteps /\ Delay(w).do = "delay" /\ Delay(w).what = w
  /\ \A w \in {"iu", "pbt", "index"} :
       Reset(w) \in AllSteps /\ Reset(w).do = "reset" /\ Reset(w).what = w
  /\ lcd_write("clear") \in AllSteps /\ lcd_write("clear").do = "high"
  /\ lcd_write("clear").what = "clear"
  /\ Step("low", "clear") \in AllSteps /\ Step("low", "clear").do = "low"
  /\ Step("low", "clear").what = "clear"
  /\ Step("rows", "sysstat") \in AllSteps /\ Step("rows", "sysstat").do = "rows"
  /\ Step("remember", "current") \in AllSteps /\ Step("remember", "current").do = "remember"
<1>1. \A do \in Verbs, what \in Objects :
        Step(do, what) \in AllSteps /\ Step(do, what).do = do /\ Step(do, what).what = what
  BY StepFields, Zenon
<1> HIDE DEF AllSteps
<1>2. Screens \subseteq Objects
  BY DEF Objects
<1>3. \A s \in Screens : /\ Set(s) \in AllSteps /\ Set(s).do = "set" /\ Set(s).what = s
                         /\ lcd_write(s) \in AllSteps
                         /\ lcd_write(s).do = "high" /\ lcd_write(s).what = s
                         /\ Step("low", s) \in AllSteps
                         /\ Step("low", s).do = "low" /\ Step("low", s).what = s
  BY <1>1, <1>2 DEF Verbs, Set, lcd_write
<1>4. /\ lcd_write("clear") \in AllSteps /\ lcd_write("clear").do = "high"
      /\ lcd_write("clear").what = "clear"
      /\ Step("low", "clear") \in AllSteps /\ Step("low", "clear").do = "low"
      /\ Step("low", "clear").what = "clear"
      /\ Step("rows", "sysstat") \in AllSteps /\ Step("rows", "sysstat").do = "rows"
      /\ Step("remember", "current") \in AllSteps
      /\ Step("remember", "current").do = "remember"
      /\ Paint \in AllSteps /\ Paint.do = "paint"
  BY <1>1 DEF Verbs, Objects, Screens, lcd_write, Paint
<1>5. \A w \in {"just_set", "regular"} :
       Update(w) \in AllSteps /\ Update(w).do = "update" /\ Update(w).what = w
  BY <1>1 DEF Verbs, Objects, Update
<1>6. \A w \in {"init", "update", "clear", "due"} :
       Delay(w) \in AllSteps /\ Delay(w).do = "delay" /\ Delay(w).what = w
  BY <1>1 DEF Verbs, Objects, Delay
<1>7. \A w \in {"iu", "pbt", "index"} :
       Reset(w) \in AllSteps /\ Reset(w).do = "reset" /\ Reset(w).what = w
  BY <1>1 DEF Verbs, Objects, Screens, Reset
<1>8. \A s \in Screens : Text(s) \in AllSteps
  BY <1>3, <1>4, Zenon DEF Text
<1> QED
  BY <1>3, <1>4, <1>5, <1>6, <1>7, <1>8

LEMMA DoesSet ==
  ASSUME TodoOK, NEW t \in Tasks, NEW s \in Screens, NEW q \in Seq(AllSteps),
         todo[t] = Push(Set(s), q), TaskStep(t)
  PROVE  /\ MayRun(t)
         /\ current_screen_id' = s
         /\ todo' = [todo EXCEPT ![t] = IF current_screen_id # s
                                        THEN Push(Paint, Push(Update("just_set"), q)) ELSE q]
         /\ UNCHANGED <<counters, used_sysstat_screens, request, lcd>>
<1>1. Set(s) \in AllSteps /\ Set(s).do = "set" /\ Set(s).what = s
  BY Words
<1>2. MayRun(t) /\ display_set_screen(t) /\ What(t) = s
  BY <1>1, Doing
<1>3. CASE current_screen_id # s
  <2>1. current_screen_id' = s /\ Continue(t, <<Paint, Update("just_set")>>)
    BY <1>2, <1>3 DEF display_set_screen
  <2>2. Paint \in AllSteps /\ Update("just_set") \in AllSteps
    BY Words
  <2>3. <<Paint, Update("just_set")>> \o q = Push(Paint, Push(Update("just_set"), q))
    BY <2>2, TwoSteps
  <2>4. todo' = [todo EXCEPT ![t] = <<Paint, Update("just_set")>> \o q]
    BY <1>1, <2>1, Continued, Zenon
  <2> QED
    BY <1>2, <1>3, <2>1, <2>3, <2>4 DEF display_set_screen
<1>4. CASE current_screen_id = s
  <2>1. current_screen_id' = s /\ Continue(t, <<>>)
    BY <1>2, <1>4 DEF display_set_screen
  <2>2. <<>> \o q = q
    BY ConcatEmptySeq
  <2>3. todo' = [todo EXCEPT ![t] = <<>> \o q]
    BY <1>1, <2>1, Continued, Zenon
  <2> QED
    BY <1>2, <1>4, <2>1, <2>2, <2>3 DEF display_set_screen
<1> QED
  BY <1>3, <1>4

\* A text begins when the LCD is clear.
LEMMA ClearAndPrint ==
  ASSUME NEW s \in Screens, NEW q \in Seq(AllSteps)
  PROVE  (FormFeed \o lcd_printf_at(s)) \o q
           = Push(lcd_write("clear"), Push(Delay("clear"), Push(lcd_write(s), q)))
<1>1. lcd_write("clear") \in AllSteps /\ Delay("clear") \in AllSteps /\ lcd_write(s) \in AllSteps
  BY Words
<1> DEFINE x == lcd_write("clear")
           y == Delay("clear")
           z == lcd_write(s)
<1>2. (FormFeed \o lcd_printf_at(s)) \o q = (<<x, y>> \o <<z>>) \o q
  BY DEF FormFeed, lcd_printf_at, lcd_putc
<1>3. x \in AllSteps /\ y \in AllSteps /\ z \in AllSteps
  BY <1>1
<1> HIDE DEF x, y, z
<1>4. (<<x, y>> \o <<z>>) \o q = Push(x, Push(y, Push(z, q)))
  BY <1>3, ThreeSteps, Zenon
<1> QED
  BY <1>2, <1>4 DEF x, y, z

LEMMA DoesPaint ==
  ASSUME TodoOK, NEW t \in Tasks, NEW q \in Seq(AllSteps),
         todo[t] = Push(Paint, q), TaskStep(t), current_screen_id \in Screens
  PROVE  /\ MayRun(t)
         /\ todo' = [todo EXCEPT ![t] = IF current_screen_id \in {"boot", "iu", "pbt"}
                                        THEN Front("clear", current_screen_id, q) ELSE q]
         /\ UNCHANGED <<current_screen_id, counters, used_sysstat_screens, request, lcd>>
<1>1. Paint \in AllSteps /\ Paint.do = "paint"
  BY Words
<1>2. MayRun(t) /\ paint_function(t)
  BY <1>1, Doing
<1>3. todo' = [todo EXCEPT ![t] = Background(current_screen_id) \o q]
  BY <1>1, <1>2, Continued DEF paint_function
<1>4. <<>> \o q = q
  BY ConcatEmptySeq
<1>5. ASSUME current_screen_id \in {"boot", "iu", "pbt"}
      PROVE  Background(current_screen_id) \o q = Front("clear", current_screen_id, q)
  <2>1. Background(current_screen_id) = FormFeed \o lcd_printf_at(current_screen_id)
    BY <1>5 DEF Background, display_screen_boot_background, display_screen_iu_background,
                display_screen_pbt_background
  <2> QED
    BY <1>5, <2>1, ClearAndPrint DEF Front, Text
<1>6. ASSUME current_screen_id \notin {"boot", "iu", "pbt"}
      PROVE  Background(current_screen_id) = <<>>
  BY <1>6 DEF Background, Screens
<1> QED
  BY <1>2, <1>3, <1>4, <1>5, <1>6 DEF paint_function

LEMMA DoesHigh ==
  ASSUME TodoOK, NEW t \in Tasks, NEW b \in Screens \cup {"clear"}, NEW q \in Seq(AllSteps),
         todo[t] = Push(lcd_write(b), q), TaskStep(t)
  PROVE  /\ MayRun(t)
         /\ todo' = [todo EXCEPT ![t] = Push(Step("low", b), q)]
         /\ garbled \in BOOLEAN => garbled' \in BOOLEAN
         /\ UNCHANGED <<current_screen_id, counters, used_sysstat_screens, request, glass>>
<1>1. lcd_write(b) \in AllSteps /\ lcd_write(b).do = "high" /\ lcd_write(b).what = b
  BY Words
<1>2. MayRun(t) /\ HighNibble(t) /\ What(t) = b
  BY <1>1, Doing
<1>3. todo' = [todo EXCEPT ![t] = <<Step("low", b)>> \o q]
  BY <1>1, <1>2, Continued DEF HighNibble
<1>4. garbled \in BOOLEAN => garbled' \in BOOLEAN
  BY <1>2 DEF HighNibble, CutsInTwo
<1> QED
  BY <1>2, <1>3, <1>4 DEF HighNibble, Push

LEMMA DoesDelay ==
  ASSUME TodoOK, NEW t \in Tasks, NEW w \in {"init", "update", "clear", "due"},
         NEW q \in Seq(AllSteps), todo[t] = Push(Delay(w), q), TaskStep(t)
  PROVE  /\ MayRun(t) /\ (t = "rpc" /\ What("display") = "clear" => w = "due")
         /\ todo' = [todo EXCEPT ![t] = q]
         /\ UNCHANGED <<current_screen_id, counters, used_sysstat_screens, request, lcd>>
<1>1. Delay(w) \in AllSteps /\ Delay(w).do = "delay" /\ Delay(w).what = w
  BY Words
<1>2. MayRun(t) /\ DelayOver(t) /\ What(t) = w
  BY <1>1, Doing
<1>3. todo' = [todo EXCEPT ![t] = <<>> \o q]
  BY <1>1, <1>2, Continued DEF DelayOver
<1> QED
  BY <1>2, <1>3, ConcatEmptySeq DEF DelayOver, ClearedBefore

LEMMA DoesRows ==
  ASSUME TodoOK, NEW t \in Tasks, NEW q \in Seq(AllSteps),
         todo[t] = Push(Step("rows", "sysstat"), q), TaskStep(t)
  PROVE  /\ MayRun(t)
         /\ todo' = [todo EXCEPT ![t] = Push(lcd_write("sysstat"), q)]
         /\ UNCHANGED <<current_screen_id, counters, used_sysstat_screens, request, lcd>>
<1>1. Step("rows", "sysstat") \in AllSteps /\ Step("rows", "sysstat").do = "rows"
  BY Words
<1>2. MayRun(t) /\ PrintRows(t)
  BY <1>1, Doing
<1>3. todo' = [todo EXCEPT ![t] = <<lcd_write("sysstat")>> \o q]
  BY <1>1, <1>2, Continued DEF PrintRows, lcd_printf_at, lcd_putc
<1> QED
  BY <1>2, <1>3 DEF PrintRows, Push

----------------------------------------------------------------------------
(* How a task goes from place to place.                                    *)

Ats == {"none", "set", "remember", "paint", "clear", "clearing", "wait", "due", "text",
        "high", "low"}
Bases == DisplayBases \cup {"owed"}
Places == [at : Ats, s : Screens, j : {"no", "just", "regular"}, b : Bases]

Place(at, s, j, b) == [at |-> at, s |-> s, j |-> j, b |-> b]

Rest(p) == Then(p.j, Base(p.b))

\* Task t goes to place e.
Goes(t, e) == todo' = [todo EXCEPT ![t] = Code(e)]

LEMMA PlaceFields ==
  ASSUME NEW at \in Ats, NEW s \in Screens, NEW j \in {"no", "just", "regular"}, NEW b \in Bases
  PROVE  /\ Place(at, s, j, b) \in Places
         /\ Place(at, s, j, b).at = at /\ Place(at, s, j, b).s = s
         /\ Place(at, s, j, b).j = j /\ Place(at, s, j, b).b = b
         /\ Code(Place(at, s, j, b)) = Front(at, s, Then(j, Base(b)))
<1>1. /\ Place(at, s, j, b) \in Places
      /\ Place(at, s, j, b).at = at /\ Place(at, s, j, b).s = s
      /\ Place(at, s, j, b).j = j /\ Place(at, s, j, b).b = b
  BY DEF Place, Places
<1> QED
  BY <1>1, Zenon DEF Code

LEMMA BaseIs ==
  /\ Base("start") = Push(Delay("init"), Push(Set("boot"), BootEnd))
  /\ Base("boot_end") = BootEnd
  /\ Base("end") = <<>>
  /\ Base("loop") = Loop
  /\ Base("iu") = Push(Reset("iu"), Loop)
  /\ Base("iu_iu") = Push(Reset("iu"), Base("iu"))
  /\ Base("pbt") = Push(Reset("pbt"), Loop)
  /\ Base("index") = Push(Reset("index"), Loop)
  /\ Base("index_pbt") = Push(Reset("index"), Base("pbt"))
  /\ Base("owed") = Push(Reset("index"), <<>>)
  BY DEF Base

\* At most n steps.
Steps(q, n) == q \in Seq(AllSteps) /\ Len(q) <= n

LEMMA OneMoreStep ==
  /\ \A n \in Nat : Steps(<<>>, n)
  /\ \A q : \A n \in Nat, x \in AllSteps : Steps(q, n) => Steps(Push(x, q), n + 1)
<1>1. ASSUME NEW q \in Seq(AllSteps), NEW n \in Nat, NEW x \in AllSteps, Len(q) <= n
      PROVE  Push(x, q) \in Seq(AllSteps) /\ Len(Push(x, q)) <= n + 1
  <2>1. Push(x, q) \in Seq(AllSteps) /\ Len(Push(x, q)) = Len(q) + 1 /\ Len(q) \in Nat
    BY Pushed
  <2> QED
    BY <1>1, <2>1
<1>2. <<>> \in Seq(AllSteps) /\ Len(<<>>) = 0
  OBVIOUS
<1> QED
  BY <1>1, <1>2 DEF Steps

LEMMA BasesAreSteps ==
  /\ Steps(Base("start"), 4)
  /\ \A b \in Bases \ {"start"} : Steps(Base(b), 3)
<1>1. /\ Delay("update") \in AllSteps /\ Delay("init") \in AllSteps
      /\ Reset("iu") \in AllSteps /\ Reset("pbt") \in AllSteps /\ Reset("index") \in AllSteps
      /\ Set("iu") \in AllSteps /\ Set("boot") \in AllSteps
  BY Words DEF Screens
<1>2. Steps(<<>>, 0) /\ Steps(<<>>, 1) /\ Steps(<<>>, 2) /\ Steps(<<>>, 3)
  BY OneMoreStep
<1>3. \A q : \A x \in AllSteps : /\ Steps(q, 0) => Steps(Push(x, q), 1)
                                 /\ Steps(q, 1) => Steps(Push(x, q), 2)
                                 /\ Steps(q, 2) => Steps(Push(x, q), 3)
                                 /\ Steps(q, 3) => Steps(Push(x, q), 4)
  BY OneMoreStep
<1>4. /\ Steps(Loop, 2) /\ Steps(Loop, 1) /\ Steps(Loop, 3)
      /\ Steps(<<>>, 3)
  <2>1. Steps(Loop, 1) /\ Steps(Loop, 2)
    BY <1>1, <1>2, <1>3 DEF Loop
  <2>2. \A q : Steps(q, 2) => Steps(q, 3)
    BY DEF Steps
  <2> QED
    BY <1>2, <2>1, <2>2
<1>5. Steps(BootEnd, 2) /\ Steps(BootEnd, 3)
  <2>1. Steps(Push(Set("iu"), <<>>), 1) /\ Steps(Push(Set("iu"), <<>>), 2)
    BY <1>1, <1>2, <1>3
  <2> QED
    BY <1>1, <1>3, <2>1 DEF BootEnd
<1>6. /\ Steps(Base("iu"), 3) /\ Steps(Base("pbt"), 3) /\ Steps(Base("index"), 3)
      /\ Steps(Base("iu"), 2) /\ Steps(Base("pbt"), 2)
  BY <1>1, <1>3, <1>4, BaseIs
<1>7. Steps(Base("iu_iu"), 3) /\ Steps(Base("index_pbt"), 3)
  BY <1>1, <1>3, <1>6, BaseIs
<1>8. Steps(Base("owed"), 3)
  BY <1>1, <1>2, <1>3, BaseIs
<1>9. Steps(Base("start"), 4)
  BY <1>1, <1>3, <1>5, BaseIs
<1>10. Steps(Base("end"), 3) /\ Steps(Base("loop"), 3) /\ Steps(Base("boot_end"), 3)
  BY <1>4, <1>5, BaseIs
<1> QED
  BY <1>6, <1>7, <1>8, <1>9, <1>10 DEF Bases, DisplayBases

LEMMA RestIsSteps ==
  ASSUME NEW p \in Places
  PROVE  /\ p.b # "start" \/ p.j = "no" => Steps(Rest(p), 4)
         /\ Rest(p) \in Seq(AllSteps)
         /\ p.j = "no" => Rest(p) = Base(p.b)
<1>1. p.j \in {"no", "just", "regular"} /\ p.b \in Bases
  BY DEF Places
<1>2. /\ p.j = "no" => Rest(p) = Base(p.b)
      /\ p.j = "just" => Rest(p) = Push(Update("just_set"), Base(p.b))
      /\ p.j = "regular" => Rest(p) = Push(Update("regular"), Base(p.b))
  BY DEF Rest, Then
<1>3. Update("just_set") \in AllSteps /\ Update("regular") \in AllSteps
  BY Words
<1>4. \A q : \A x \in AllSteps : /\ Steps(q, 3) => Steps(Push(x, q), 4) /\ Steps(q, 4)
                                 /\ Steps(q, 4) => Steps(Push(x, q), 5)
  <2>1. \A q : Steps(q, 3) => Steps(q, 4)
    BY DEF Steps
  <2>2. \A q : \A x \in AllSteps : /\ Steps(q, 3) => Steps(Push(x, q), 4)
                                   /\ Steps(q, 4) => Steps(Push(x, q), 5)
    BY OneMoreStep
  <2> QED
    BY <2>1, <2>2, Zenon
<1>5. Steps(Base("start"), 4) /\ \A b \in Bases \ {"start"} : Steps(Base(b), 3)
  BY BasesAreSteps
<1>6. /\ p.b # "start" \/ p.j = "no" => Steps(Rest(p), 4)
      /\ Steps(Rest(p), 4) \/ Steps(Rest(p), 5)
  BY <1>1, <1>2, <1>3, <1>4, <1>5
<1> QED
  BY <1>2, <1>6, Zenon DEF Steps

LEMMA FrontIs ==
  ASSUME NEW p \in Places
  PROVE  /\ p.at = "none" => Code(p) = Rest(p)
         /\ p.at = "set" => Code(p) = Push(Set(p.s), Rest(p))
         /\ p.at = "remember" =>
              Code(p) = Push(Step("remember", "current"), Push(Set("custom"), Rest(p)))
         /\ p.at = "paint" => Code(p) = Push(Paint, Rest(p))
         /\ p.at = "clear" =>
              Code(p) = Push(lcd_write("clear"), Push(Delay("clear"), Push(Text(p.s), Rest(p))))
         /\ p.at = "clearing" =>
              Code(p) = Push(Step("low", "clear"), Push(Delay("clear"), Push(Text(p.s), Rest(p))))
         /\ p.at = "wait" => Code(p) = Push(Delay("clear"), Push(Text(p.s), Rest(p)))
         /\ p.at = "due" => Code(p) = Push(Delay("due"), Push(Text(p.s), Rest(p)))
         /\ p.at = "text" => Code(p) = Push(Text(p.s), Rest(p))
         /\ p.at = "high" => Code(p) = Push(lcd_write(p.s), Rest(p))
         /\ p.at = "low" => Code(p) = Push(Step("low", p.s), Rest(p))
  BY DEF Code, Front, Rest

LEMMA CodeIsSteps ==
  ASSUME NEW p \in Places
  PROVE  /\ Code(p) \in Seq(AllSteps)
         /\ p.b # "start" \/ (p.j = "no" /\ p.at = "none") => Len(Code(p)) <= 7
<1>1. p.at \in Ats /\ p.s \in Screens
  BY DEF Places
<1>2. /\ Set(p.s) \in AllSteps /\ lcd_write(p.s) \in AllSteps /\ Step("low", p.s) \in AllSteps
      /\ Text(p.s) \in AllSteps /\ Paint \in AllSteps /\ Delay("clear") \in AllSteps
      /\ Delay("due") \in AllSteps /\ lcd_write("clear") \in AllSteps
      /\ Step("low", "clear") \in AllSteps /\ Step("remember", "current") \in AllSteps
      /\ Set("custom") \in AllSteps
  BY <1>1, Words DEF Screens
<1>3. \A n \in Nat : Steps(Rest(p), n) => Steps(Code(p), n + 3)
  <2> SUFFICES ASSUME NEW n \in Nat, Steps(Rest(p), n)
               PROVE  Steps(Code(p), n + 3)
    OBVIOUS
  <2>1. \A q : \A x \in AllSteps : /\ Steps(q, n) => Steps(Push(x, q), n + 1)
                                   /\ Steps(q, n + 1) => Steps(Push(x, q), n + 2)
                                   /\ Steps(q, n + 2) => Steps(Push(x, q), n + 3)
    <3>1. n + 1 \in Nat /\ n + 2 \in Nat /\ (n + 1) + 1 = n + 2 /\ (n + 2) + 1 = n + 3
      OBVIOUS
    <3> QED
      BY <3>1, OneMoreStep
  <2>2. \A q : (Steps(q, n) => Steps(q, n + 3)) /\ (Steps(q, n + 1) => Steps(q, n + 3))
              /\ (Steps(q, n + 2) => Steps(q, n + 3))
    <3>1. ASSUME NEW q, NEW m \in {n, n + 1, n + 2}, Steps(q, m)
          PROVE  Steps(q, n + 3)
      <4>1. Len(q) \in Nat /\ Len(q) <= m
        BY <3>1 DEF Steps
      <4>2. Len(q) <= n + 3
        BY <4>1
      <4> QED
        BY <3>1, <4>2 DEF Steps
    <3> QED
      BY <3>1
  <2> QED
    BY <1>1, <1>2, <2>1, <2>2, FrontIs DEF Ats
<1>4. Steps(Rest(p), Len(Rest(p))) /\ Len(Rest(p)) \in Nat
  BY RestIsSteps DEF Steps
<1>5. Code(p) \in Seq(AllSteps)
  BY <1>3, <1>4 DEF Steps
<1>6. ASSUME p.b # "start" \/ (p.j = "no" /\ p.at = "none")
      PROVE  Len(Code(p)) <= 7
  <2>1. Steps(Rest(p), 4)
    BY <1>6, RestIsSteps
  <2>2. Steps(Code(p), 4 + 3)
    BY <1>3, <2>1
  <2> QED
    BY <2>2 DEF Steps
<1> QED
  BY <1>5, <1>6

LEMMA GoesOn ==
  ASSUME NEW p \in Places, NEW t \in Tasks, todo[t] = Code(p), TodoOK, TaskStep(t)
  PROVE  /\ p.at = "set" /\ p.j = "no" =>
              /\ current_screen_id' = p.s
              /\ Goes(t, IF current_screen_id # p.s THEN Place("paint", p.s, "just", p.b)
                                                    ELSE Place("none", p.s, "no", p.b))
              /\ UNCHANGED <<counters, used_sysstat_screens, request, lcd>>
         /\ p.at = "paint" /\ current_screen_id \in Screens =>
              /\ Goes(t, IF current_screen_id \in {"boot", "iu", "pbt"}
                         THEN Place("clear", current_screen_id, p.j, p.b)
                         ELSE Place("none", p.s, p.j, p.b))
              /\ UNCHANGED <<current_screen_id, counters, used_sysstat_screens, request, lcd>>
         /\ p.at \in {"wait", "due"} =>
              /\ t = "rpc" /\ What("display") = "clear" => p.at = "due"
              /\ Goes(t, Place("text", p.s, p.j, p.b))
              /\ UNCHANGED <<current_screen_id, counters, used_sysstat_screens, request, lcd>>
         /\ p.at = "text" /\ p.s = "sysstat" =>
              /\ Goes(t, Place("high", p.s, p.j, p.b))
              /\ UNCHANGED <<current_screen_id, counters, used_sysstat_screens, request, lcd>>
         /\ p.at \in {"clear", "high"} \/ (p.at = "text" /\ p.s # "sysstat") =>
              /\ Goes(t, Place(IF p.at = "clear" THEN "clearing" ELSE "low", p.s, p.j, p.b))
              /\ garbled \in BOOLEAN => garbled' \in BOOLEAN
              /\ UNCHANGED <<current_screen_id, counters, used_sysstat_screens, request, glass>>
         /\ p.at \notin {"none", "remember"} => MayRun(t)
         /\ p.at # "remember"
<1>1. /\ p.at \in Ats /\ p.s \in Screens /\ p.j \in {"no", "just", "regular"} /\ p.b \in Bases
      /\ Rest(p) \in Seq(AllSteps)
  BY RestIsSteps DEF Places
<1> DEFINE q == Rest(p)
           G(at, s, j) == todo' = [todo EXCEPT ![t] = Front(at, s, Then(j, Base(p.b)))]
<1>2. \A at \in Ats, s \in Screens, j \in {"no", "just", "regular"} :
        G(at, s, j) => Goes(t, Place(at, s, j, p.b))
  <2> SUFFICES ASSUME NEW at \in Ats, NEW s \in Screens, NEW j \in {"no", "just", "regular"}
               PROVE  G(at, s, j) => Goes(t, Place(at, s, j, p.b))
    OBVIOUS
  <2>1. Code(Place(at, s, j, p.b)) = Front(at, s, Then(j, Base(p.b)))
    BY <1>1, PlaceFields
  <2> QED
    BY <2>1 DEF Goes
<1>3. /\ q \in Seq(AllSteps)
      /\ q = Then(p.j, Base(p.b))
  BY <1>1 DEF Rest
<1> HIDE DEF q
<1>4. ASSUME p.at = "set", p.j = "no"
      PROVE  /\ current_screen_id' = p.s
             /\ Goes(t, IF current_screen_id # p.s THEN Place("paint", p.s, "just", p.b)
                                                   ELSE Place("none", p.s, "no", p.b))
             /\ UNCHANGED <<counters, used_sysstat_screens, request, lcd>>
             /\ MayRun(t)
  <2>1. todo[t] = Push(Set(p.s), q)
    BY <1>4, FrontIs DEF q
  <2>2. /\ MayRun(t) /\ current_screen_id' = p.s
        /\ todo' = [todo EXCEPT ![t] = IF current_screen_id # p.s
                                        THEN Push(Paint, Push(Update("just_set"), q)) ELSE q]
        /\ UNCHANGED <<counters, used_sysstat_screens, request, lcd>>
    BY <1>1, <1>3, <2>1, DoesSet
  <2>3. /\ Front("paint", p.s, Then("just", Base(p.b))) = Push(Paint, Push(Update("just_set"), q))
        /\ Front("none", p.s, Then("no", Base(p.b))) = q
    BY <1>3, <1>4 DEF Front, Then
  <2>4. IF current_screen_id # p.s THEN G("paint", p.s, "just") ELSE G("none", p.s, "no")
    BY <2>2, <2>3
  <2>5. Goes(t, IF current_screen_id # p.s THEN Place("paint", p.s, "just", p.b)
                                           ELSE Place("none", p.s, "no", p.b))
    <3> HIDE DEF G
    <3> QED
      BY <1>1, <1>2, <2>4 DEF Ats
  <2> QED
    BY <2>2, <2>5
<1>5. ASSUME p.at = "paint", current_screen_id \in Screens
      PROVE  /\ Goes(t, IF current_screen_id \in {"boot", "iu", "pbt"}
                        THEN Place("clear", current_screen_id, p.j, p.b)
                        ELSE Place("none", p.s, p.j, p.b))
             /\ UNCHANGED <<current_screen_id, counters, used_sysstat_screens, request, lcd>>
             /\ MayRun(t)
  <2>1. todo[t] = Push(Paint, q)
    BY <1>5, FrontIs DEF q
  <2>2. /\ MayRun(t)
        /\ todo' = [todo EXCEPT ![t] = IF current_screen_id \in {"boot", "iu", "pbt"}
                                        THEN Front("clear", current_screen_id, q) ELSE q]
        /\ UNCHANGED <<current_screen_id, counters, used_sysstat_screens, request, lcd>>
    BY <1>3, <1>5, <2>1, DoesPaint
  <2>3. Front("none", p.s, q) = q
    BY DEF Front
  <2>4. IF current_screen_id \in {"boot", "iu", "pbt"} THEN G("clear", current_screen_id, p.j)
                                                      ELSE G("none", p.s, p.j)
    BY <1>3, <2>2, <2>3
  <2>5. Goes(t, IF current_screen_id \in {"boot", "iu", "pbt"}
                THEN Place("clear", current_screen_id, p.j, p.b)
                ELSE Place("none", p.s, p.j, p.b))
    <3> HIDE DEF G
    <3> QED
      BY <1>1, <1>2, <1>5, <2>4 DEF Ats
  <2> QED
    BY <2>2, <2>5
<1>6. ASSUME p.at \in {"wait", "due"}
      PROVE  /\ t = "rpc" /\ What("display") = "clear" => p.at = "due"
             /\ Goes(t, Place("text", p.s, p.j, p.b))
             /\ UNCHANGED <<current_screen_id, counters, used_sysstat_screens, request, lcd>>
             /\ MayRun(t)
  <2>1. PICK w \in {"clear", "due"} :
          /\ todo[t] = Push(Delay(w), Push(Text(p.s), q))
          /\ w = "due" => p.at = "due"
    BY <1>6, FrontIs DEF q
  <2>2. Push(Text(p.s), q) \in Seq(AllSteps)
    BY <1>1, <1>3, Words, Pushed
  <2>3. /\ MayRun(t) /\ (t = "rpc" /\ What("display") = "clear" => w = "due")
        /\ todo' = [todo EXCEPT ![t] = Push(Text(p.s), q)]
        /\ UNCHANGED <<current_screen_id, counters, used_sysstat_screens, request, lcd>>
    BY <2>1, <2>2, DoesDelay
  <2>4. G("text", p.s, p.j)
    BY <1>3, <2>3 DEF Front
  <2>5. Goes(t, Place("text", p.s, p.j, p.b))
    <3> HIDE DEF G
    <3> QED
      BY <1>1, <1>2, <2>4 DEF Ats
  <2> QED
    BY <2>1, <2>3, <2>5
<1>7. ASSUME p.at = "text", p.s = "sysstat"
      PROVE  /\ Goes(t, Place("high", p.s, p.j, p.b))
             /\ UNCHANGED <<current_screen_id, counters, used_sysstat_screens, request, lcd>>
             /\ MayRun(t)
  <2>1. todo[t] = Push(Step("rows", "sysstat"), q)
    BY <1>7, FrontIs DEF q, Text
  <2>2. /\ MayRun(t)
        /\ todo' = [todo EXCEPT ![t] = Push(lcd_write("sysstat"), q)]
        /\ UNCHANGED <<current_screen_id, counters, used_sysstat_screens, request, lcd>>
    BY <1>3, <2>1, DoesRows
  <2>3. G("high", p.s, p.j)
    BY <1>3, <1>7, <2>2 DEF Front
  <2>4. Goes(t, Place("high", p.s, p.j, p.b))
    <3> HIDE DEF G
    <3> QED
      BY <1>1, <1>2, <2>3 DEF Ats
  <2> QED
    BY <2>2, <2>4
<1>8. ASSUME p.at \in {"clear", "high"} \/ (p.at = "text" /\ p.s # "sysstat")
      PROVE  /\ Goes(t, Place(IF p.at = "clear" THEN "clearing" ELSE "low", p.s, p.j, p.b))
             /\ garbled \in BOOLEAN => garbled' \in BOOLEAN
             /\ UNCHANGED <<current_screen_id, counters, used_sysstat_screens, request, glass>>
             /\ MayRun(t)
  <2> DEFINE b == IF p.at = "clear" THEN "clear" ELSE p.s
             r == IF p.at = "clear" THEN Push(Delay("clear"), Push(Text(p.s), q)) ELSE q
             at == IF p.at = "clear" THEN "clearing" ELSE "low"
  <2>1. b \in Screens \cup {"clear"} /\ at \in Ats
    BY <1>1 DEF Ats
  <2>2. r \in Seq(AllSteps)
    <3>1. Push(Text(p.s), q) \in Seq(AllSteps)
      BY <1>1, <1>3, Words, Pushed
    <3>2. Push(Delay("clear"), Push(Text(p.s), q)) \in Seq(AllSteps)
      BY <3>1, Words, Pushed
    <3> QED
      BY <1>3, <3>2
  <2>3. todo[t] = Push(lcd_write(b), r)
    BY <1>8, FrontIs DEF q, Text
  <2>4. G(at, p.s, p.j) <=> todo' = [todo EXCEPT ![t] = Push(Step("low", b), r)]
    <3>1. Front(at, p.s, q) = Push(Step("low", b), r)
      BY DEF Front
    <3> QED
      BY <1>3, <3>1
  <2>5. Place(IF p.at = "clear" THEN "clearing" ELSE "low", p.s, p.j, p.b) = Place(at, p.s, p.j, p.b)
    OBVIOUS
  <2> HIDE DEF b, r, at, G
  <2>6. /\ MayRun(t)
        /\ todo' = [todo EXCEPT ![t] = Push(Step("low", b), r)]
        /\ garbled \in BOOLEAN => garbled' \in BOOLEAN
        /\ UNCHANGED <<current_screen_id, counters, used_sysstat_screens, request, glass>>
    BY <2>1, <2>2, <2>3, DoesHigh
  <2>7. Goes(t, Place(at, p.s, p.j, p.b))
    BY <1>1, <1>2, <2>1, <2>4, <2>6
  <2> QED
    BY <2>5, <2>6, <2>7
<1>9. p.at # "remember"
  <2> SUFFICES ASSUME p.at = "remember" PROVE FALSE
    OBVIOUS
  <2>1. todo[t] = Push(Step("remember", "current"), Push(Set("custom"), q))
    BY FrontIs DEF q
  <2>2. Push(Set("custom"), q) \in Seq(AllSteps)
    BY <1>3, Words, Pushed DEF Screens
  <2>3. Step("remember", "current") \in AllSteps /\ Step("remember", "current").do = "remember"
    BY Words
  <2> QED
    BY <2>1, <2>2, <2>3, Doing
<1>10. ASSUME p.at = "clearing" \/ p.at = "low" PROVE MayRun(t)
  <2>1. PICK b \in Screens \cup {"clear"}, r \in {q, Push(Delay("clear"), Push(Text(p.s), q))} :
          todo[t] = Push(Step("low", b), r)
    BY <1>1, <1>10, FrontIs DEF q
  <2>2. Push(Text(p.s), q) \in Seq(AllSteps)
    BY <1>1, <1>3, Words, Pushed
  <2>3. Push(Delay("clear"), Push(Text(p.s), q)) \in Seq(AllSteps)
    BY <2>2, Words, Pushed
  <2>4. Step("low", b) \in AllSteps
    BY Words
  <2> QED
    BY <1>3, <2>1, <2>3, <2>4, Doing
<1>11. p.at \notin {"none", "remember"} => MayRun(t)
  <2>1. p.at = "paint" => MayRun(t)
    <3> SUFFICES ASSUME p.at = "paint" PROVE MayRun(t)
      OBVIOUS
    <3>1. todo[t] = Push(Paint, q) /\ Paint \in AllSteps
      BY Words, FrontIs DEF q
    <3> QED
      BY <1>3, <3>1, Doing
  <2>2. p.at = "set" => MayRun(t)
    <3> SUFFICES ASSUME p.at = "set" PROVE MayRun(t)
      OBVIOUS
    <3>1. todo[t] = Push(Set(p.s), q) /\ Set(p.s) \in AllSteps
      BY <1>1, Words, FrontIs DEF q
    <3> QED
      BY <1>3, <3>1, Doing
  <2>3. p.at = "text" => MayRun(t)
    BY <1>7, <1>8
  <2> QED
    BY <1>1, <1>6, <1>8, <1>10, <2>1, <2>2, <2>3 DEF Ats
<1> QED
  BY <1>4, <1>5, <1>6, <1>7, <1>8, <1>9, <1>11

\* The bases taskDisplay boots with, as places.
LEMMA BootPlaces ==
  /\ Base("start") = Push(Delay("init"), Code(Place("set", "boot", "no", "boot_end")))
  /\ Base("boot_end") = Push(Delay("update"), Code(Place("set", "iu", "no", "end")))
<1>2. Push(Set("boot"), BootEnd) = Code(Place("set", "boot", "no", "boot_end"))
  <2>1. Code(Place("set", "boot", "no", "boot_end"))
          = Front("set", "boot", Then("no", Base("boot_end")))
    BY DEF Code, Place
  <2> QED
    BY <2>1, BaseIs DEF Front, Then
<1>3. Push(Set("iu"), <<>>) = Code(Place("set", "iu", "no", "end"))
  <2>1. Code(Place("set", "iu", "no", "end")) = Front("set", "iu", Then("no", Base("end")))
    BY DEF Code, Place
  <2> QED
    BY <2>1, BaseIs DEF Front, Then
<1> QED
  BY <1>2, <1>3, BaseIs DEF BootEnd

LEMMA ResetBases ==
  ASSUME NEW b \in Bases \ {"start", "boot_end", "loop", "end"}
  PROVE  \E w \in {"iu", "pbt", "index"}, q \in Seq(AllSteps) : Base(b) = Push(Reset(w), q)
<1>1. \A c \in {"loop", "iu", "pbt", "end"} : Base(c) \in Seq(AllSteps)
  BY BasesAreSteps DEF Steps, Bases, DisplayBases
<1>2. \E w \in {"iu", "pbt", "index"}, c \in {"loop", "iu", "pbt", "end"} :
        Base(b) = Push(Reset(w), Base(c))
  BY BaseIs DEF Bases, DisplayBases
<1> QED
  BY <1>1, <1>2

LEMMA CodeBegins ==
  ASSUME NEW p \in Places
  PROVE  /\ Code(p) = <<>> <=> p.at = "none" /\ p.j = "no" /\ p.b = "end"
         /\ Code(p) # <<>> /\ Head(Code(p)).do = "delay" =>
              \/ p.at \in {"wait", "due"}
              \/ p.at = "none" /\ p.j = "no" /\ p.b \in {"start", "boot_end", "loop"}
         /\ Code(p) # <<>> /\ Head(Code(p)).do = "rows" => p.at = "text" /\ p.s = "sysstat"
         /\ Code(p) # <<>> /\ Head(Code(p)).do = "remember" => p.at = "remember"
         /\ Code(p) # <<>> /\ Head(Code(p)).do = "set" => p.at = "set"
         /\ p.at = "wait" => Head(Code(p)) = Delay("clear")
         /\ Code(p) # <<>> /\ Head(Code(p)) = Delay("clear") => p.at = "wait"
<1>1. /\ p.at \in Ats /\ p.s \in Screens /\ p.j \in {"no", "just", "regular"} /\ p.b \in Bases
      /\ Rest(p) \in Seq(AllSteps) /\ Base(p.b) \in Seq(AllSteps)
      /\ p.j = "no" => Rest(p) = Base(p.b)
  BY RestIsSteps, BasesAreSteps DEF Places, Steps
<1>2. \A x \in AllSteps, q \in Seq(AllSteps) :
        Push(x, q) # <<>> /\ Head(Push(x, q)) = x /\ Push(x, q) \in Seq(AllSteps)
  BY Pushed
<1>3. /\ Text(p.s) \in AllSteps
      /\ p.s = "sysstat" \/ Text(p.s).do = "high"
      /\ Delay("clear") # Delay("due") /\ Delay("clear") # Delay("init")
      /\ Delay("clear") # Delay("update")
  <2>1. \A w \in {"init", "update", "clear", "due"} : Delay(w).what = w
    BY Words
  <2> QED
    BY <1>1, <2>1, Words DEF Text
<1>4. CASE p.at = "none" /\ p.j = "no"
  <2>1. Code(p) = Base(p.b)
    BY <1>1, <1>4, FrontIs
  <2>2. CASE p.b = "end"
    BY <1>4, <2>1, <2>2, BaseIs
  <2>3. CASE p.b \in {"start", "boot_end", "loop"}
    <3>1. PICK w \in {"init", "update"}, q \in Seq(AllSteps) : Base(p.b) = Push(Delay(w), q)
      <4>1. /\ Code(Place("set", "boot", "no", "boot_end")) \in Seq(AllSteps)
            /\ Code(Place("set", "iu", "no", "end")) \in Seq(AllSteps)
        <5>1. /\ Place("set", "boot", "no", "boot_end") \in Places
              /\ Place("set", "iu", "no", "end") \in Places
          BY DEF Place, Places, Ats, Screens, Bases, DisplayBases
        <5> QED
          BY <5>1, CodeIsSteps
      <4>2. <<>> \in Seq(AllSteps)
        OBVIOUS
      <4> QED
        BY <2>3, <4>1, <4>2, BootPlaces, BaseIs DEF Loop
    <3>2. Delay(w) \in AllSteps /\ Delay(w).do = "delay" /\ Delay(w) # Delay("clear")
      BY <1>3, Words
    <3>3. Code(p) # <<>> /\ Head(Code(p)) = Delay(w)
      BY <1>2, <2>1, <3>1, <3>2
    <3> QED
      BY <1>4, <2>3, <3>2, <3>3
  <2>4. CASE p.b \notin {"start", "boot_end", "loop", "end"}
    <3>1. PICK w \in {"iu", "pbt", "index"}, q \in Seq(AllSteps) : Base(p.b) = Push(Reset(w), q)
      BY <1>1, <2>4, ResetBases
    <3>2. Reset(w) \in AllSteps /\ Reset(w).do = "reset" /\ Delay("clear").do = "delay"
      BY Words
    <3>3. Code(p) # <<>> /\ Head(Code(p)) = Reset(w)
      BY <1>2, <2>1, <3>1, <3>2
    <3> QED
      BY <1>4, <2>4, <3>2, <3>3
  <2> QED
    BY <2>2, <2>3, <2>4
<1>5. CASE p.at = "none" /\ p.j # "no"
  <2>1. \E w \in {"just_set", "regular"} : Code(p) = Push(Update(w), Base(p.b))
    BY <1>1, <1>5, FrontIs DEF Rest, Then
  <2>2. PICK w \in {"just_set", "regular"} : Code(p) = Push(Update(w), Base(p.b))
    BY <2>1
  <2>3. Update(w) \in AllSteps /\ Update(w).do = "update" /\ Delay("clear").do = "delay"
    BY Words
  <2>4. Code(p) # <<>> /\ Head(Code(p)) = Update(w)
    BY <1>1, <1>2, <2>2, <2>3
  <2> QED
    BY <1>5, <2>3, <2>4
<1>6. CASE p.at # "none"
  <2> DEFINE h == CASE p.at = "set" -> Set(p.s)
                    [] p.at = "remember" -> Step("remember", "current")
                    [] p.at = "paint" -> Paint
                    [] p.at = "clear" -> lcd_write("clear")
                    [] p.at = "clearing" -> Step("low", "clear")
                    [] p.at = "wait" -> Delay("clear")
                    [] p.at = "due" -> Delay("due")
                    [] p.at = "text" -> Text(p.s)
                    [] p.at = "high" -> lcd_write(p.s)
                    [] p.at = "low" -> Step("low", p.s)
  <2>1. /\ Push(Text(p.s), Rest(p)) \in Seq(AllSteps)
        /\ Push(Delay("clear"), Push(Text(p.s), Rest(p))) \in Seq(AllSteps)
        /\ Push(Set("custom"), Rest(p)) \in Seq(AllSteps)
    <3>1. Set("custom") \in AllSteps /\ Delay("clear") \in AllSteps
      BY Words DEF Screens
    <3> QED
      BY <1>1, <1>2, <1>3, <3>1
  <2>2. h \in AllSteps
    BY <1>1, <1>3, <1>6, Words DEF Ats
  <2>3. \E q \in Seq(AllSteps) : Code(p) = Push(h, q)
    BY <1>1, <1>6, <2>1, FrontIs DEF Ats
  <2>4. /\ h.do = "delay" => p.at \in {"wait", "due"}
        /\ h.do = "rows" => p.at = "text" /\ p.s = "sysstat"
        /\ h.do = "remember" => p.at = "remember"
        /\ h.do = "set" => p.at = "set"
    <3>1. /\ Paint.do = "paint" /\ Set(p.s).do = "set" /\ lcd_write(p.s).do = "high"
          /\ Step("low", p.s).do = "low" /\ lcd_write("clear").do = "high"
          /\ Step("low", "clear").do = "low" /\ Delay("clear").do = "delay"
          /\ Delay("due").do = "delay" /\ Step("rows", "sysstat").do = "rows"
          /\ Step("remember", "current").do = "remember"
      BY <1>1, Words
    <3>2. Text(p.s).do \notin {"delay", "remember", "set"}
      BY <1>3, <3>1 DEF Text
    <3> QED
      BY <1>1, <1>3, <1>6, <3>1, <3>2 DEF Ats
  <2>5. p.at = "wait" <=> h = Delay("clear")
    <3>1. Delay("clear").do = "delay"
      BY Words
    <3>2. p.at = "due" => h = Delay("due")
      OBVIOUS
    <3>3. p.at = "wait" => h = Delay("clear")
      OBVIOUS
    <3> HIDE DEF h
    <3> QED
      BY <1>3, <2>4, <3>1, <3>2, <3>3
  <2> HIDE DEF h
  <2>6. Code(p) # <<>> /\ Head(Code(p)) = h
    BY <1>2, <2>2, <2>3
  <2> QED
    BY <1>6, <2>4, <2>5, <2>6
<1> QED
  BY <1>4, <1>5, <1>6

----------------------------------------------------------------------------
\* The tasks are at places d and r.
Stands(d, r) == TodoOK /\ todo["display"] = Code(d) /\ todo["rpc"] = Code(r)

LEMMA Arrives ==
  ASSUME NEW d \in Places, NEW r \in Places, Stands(d, r), NEW e \in Places
  PROVE  /\ Goes("display", e) => Stands(e, r)'
         /\ Goes("rpc", e) => Stands(d, e)'
<1>1. Code(e) \in Seq(AllSteps)
  BY CodeIsSteps
<1> QED
  BY <1>1 DEF Stands, TodoOK, Goes, Tasks

LEMMA NoText == \A s \in Screens : s # "clear"
  BY DEF Screens

\* The low nibble of a byte of the text, and of the command to clear.
LEMMA GoesLow ==
  ASSUME NEW p \in Places, NEW t \in Tasks, todo[t] = Code(p), TodoOK, TaskStep(t),
         p.at \in {"clearing", "low"}
  PROVE  /\ MayRun(t)
         /\ todo' = [u \in Tasks |->
              IF u = t THEN Code(Place(IF p.at = "clearing" THEN "wait" ELSE "none", p.s, p.j, p.b))
              ELSE IF u = "rpc" /\ p.at = "clearing" THEN Due(u)
              ELSE todo[u]]
         /\ glass \subseteq Screens => glass' \subseteq Screens
         /\ UNCHANGED <<current_screen_id, counters, used_sysstat_screens, request, garbled>>
<1>1. p.s \in Screens /\ p.j \in {"no", "just", "regular"} /\ p.b \in Bases /\ Rest(p) \in Seq(AllSteps)
  BY RestIsSteps DEF Places
<1> DEFINE b == IF p.at = "clearing" THEN "clear" ELSE p.s
           r == IF p.at = "clearing" THEN Push(Delay("clear"), Push(Text(p.s), Rest(p))) ELSE Rest(p)
           e == Place(IF p.at = "clearing" THEN "wait" ELSE "none", p.s, p.j, p.b)
<1>2. b \in Screens \cup {"clear"} /\ (b = "clear" <=> p.at = "clearing")
  BY <1>1, NoText
<1>3. r \in Seq(AllSteps)
  <2>1. Push(Text(p.s), Rest(p)) \in Seq(AllSteps)
    BY <1>1, Words, Pushed
  <2>2. Push(Delay("clear"), Push(Text(p.s), Rest(p))) \in Seq(AllSteps)
    BY <2>1, Words, Pushed
  <2> QED
    BY <1>1, <2>2
<1>4. todo[t] = Push(Step("low", b), r)
  BY FrontIs
<1>5. Code(e) = r
  <2>1. CASE p.at = "clearing"
    <3>1. Code(e) = Front("wait", p.s, Then(p.j, Base(p.b)))
      BY <2>1 DEF Code, Place
    <3> QED
      BY <2>1, <3>1 DEF Front, Rest
  <2>2. CASE p.at = "low"
    <3>1. Code(e) = Front("none", p.s, Then(p.j, Base(p.b)))
      BY <2>2 DEF Code, Place
    <3> QED
      BY <2>2, <3>1 DEF Front, Rest
  <2> QED
    BY <2>1, <2>2
<1> HIDE DEF b, r, e
<1>6. Step("low", b) \in AllSteps /\ Step("low", b).do = "low" /\ Step("low", b).what = b
  BY <1>2, Words
<1>7. MayRun(t) /\ LowNibble(t) /\ What(t) = b
  BY <1>3, <1>4, <1>6, Doing
<1>8. Tail(todo[t]) = r
  BY <1>3, <1>4, <1>6, Pushed
<1>9. todo' = [u \in Tasks |-> IF u = t THEN Code(e)
                               ELSE IF u = "rpc" /\ p.at = "clearing" THEN Due(u)
                               ELSE todo[u]]
  <2>1. todo' = [u \in Tasks |-> IF u = t THEN Tail(todo[u])
                                 ELSE IF u = "rpc" /\ What(t) = "clear" THEN Due(u)
                                 ELSE todo[u]]
    BY <1>7, Zenon DEF LowNibble
  <2> QED
    BY <1>2, <1>5, <1>7, <1>8, <2>1
<1>10. glass \subseteq Screens => glass' \subseteq Screens
  BY <1>2, <1>7 DEF LowNibble
<1> QED
  BY <1>7, <1>9, <1>10 DEF LowNibble, e

\* When taskDisplay begins to wait for the LCD, a wait of the RPC task ends before.
LEMMA DueIs ==
  ASSUME NEW r \in Places, todo["rpc"] = Code(r)
  PROVE  Due("rpc") = Code(IF r.at = "wait" THEN Place("due", r.s, r.j, r.b) ELSE r)
<1>1. CASE r.at = "wait"
  <2> DEFINE q == Push(Text(r.s), Rest(r))
  <2>1. todo["rpc"] = Push(Delay("clear"), q)
    BY <1>1, FrontIs
  <2>2. q \in Seq(AllSteps)
    BY RestIsSteps, Words, Pushed DEF Places
  <2>3. Code(Place("due", r.s, r.j, r.b)) = Push(Delay("due"), q)
    <3>1. Code(Place("due", r.s, r.j, r.b)) = Front("due", r.s, Then(r.j, Base(r.b)))
      BY DEF Code, Place
    <3> QED
      BY <3>1 DEF Front, Rest
  <2> HIDE DEF q
  <2>4. todo["rpc"] # <<>> /\ Head(todo["rpc"]) = Delay("clear") /\ Tail(todo["rpc"]) = q
    <3>1. Delay("clear") \in AllSteps
      BY Words
    <3> QED
      BY <2>1, <2>2, <3>1, Pushed
  <2>5. Due("rpc") = <<Delay("due")>> \o q
    BY <2>4 DEF Due, Busy
  <2> QED
    BY <1>1, <2>3, <2>5 DEF Push
<1>2. CASE r.at # "wait"
  BY <1>2, CodeBegins DEF Due, Busy
<1> QED
  BY <1>1, <1>2

LEMMA LowArrives ==
  ASSUME NEW d \in Places, NEW r \in Places, Stands(d, r)
  PROVE  /\ TaskStep("display") /\ d.at \in {"clearing", "low"} =>
              /\ Stands(Place(IF d.at = "clearing" THEN "wait" ELSE "none", d.s, d.j, d.b),
                        IF d.at = "clearing" /\ r.at = "wait"
                        THEN Place("due", r.s, r.j, r.b) ELSE r)'
              /\ glass \subseteq Screens => glass' \subseteq Screens
              /\ UNCHANGED <<current_screen_id, counters, used_sysstat_screens, request, garbled>>
         /\ TaskStep("rpc") /\ r.at \in {"clearing", "low"} =>
              /\ Stands(d, Place(IF r.at = "clearing" THEN "wait" ELSE "none", r.s, r.j, r.b))'
              /\ glass \subseteq Screens => glass' \subseteq Screens
              /\ UNCHANGED <<current_screen_id, counters, used_sysstat_screens, request, garbled>>
<1> DEFINE On(p) == Place(IF p.at = "clearing" THEN "wait" ELSE "none", p.s, p.j, p.b)
           rest == IF r.at = "wait" THEN Place("due", r.s, r.j, r.b) ELSE r
<1>1. \A p \in Places : On(p) \in Places
  BY DEF Place, Places, Ats
<1>2. rest \in Places
  BY DEF Place, Places, Ats
<1> HIDE DEF On, rest
<1>3. Code(On(d)) \in Seq(AllSteps) /\ Code(On(r)) \in Seq(AllSteps) /\ Code(rest) \in Seq(AllSteps)
  BY <1>1, <1>2, CodeIsSteps
<1>4. Due("rpc") = Code(rest)
  BY DueIs DEF Stands, rest
<1>5. "display" \in Tasks /\ "rpc" \in Tasks /\ Tasks = {"display", "rpc"}
  BY DEF Tasks
<1>6. ASSUME TaskStep("display"), d.at \in {"clearing", "low"}
      PROVE  /\ Stands(On(d), IF d.at = "clearing" THEN rest ELSE r)'
             /\ glass \subseteq Screens => glass' \subseteq Screens
             /\ UNCHANGED <<current_screen_id, counters, used_sysstat_screens, request, garbled>>
  <2>1. /\ todo' = [u \in Tasks |-> IF u = "display" THEN Code(On(d))
                                    ELSE IF u = "rpc" /\ d.at = "clearing" THEN Due(u)
                                    ELSE todo[u]]
        /\ glass \subseteq Screens => glass' \subseteq Screens
        /\ UNCHANGED <<current_screen_id, counters, used_sysstat_screens, request, garbled>>
    BY <1>5, <1>6, GoesLow DEF Stands, On
  <2>2. Stands(On(d), IF d.at = "clearing" THEN rest ELSE r)'
    BY <1>3, <1>4, <1>5, <2>1 DEF Stands, TodoOK
  <2> QED
    BY <2>1, <2>2
<1>7. ASSUME TaskStep("rpc"), r.at \in {"clearing", "low"}
      PROVE  /\ Stands(d, On(r))'
             /\ glass \subseteq Screens => glass' \subseteq Screens
             /\ UNCHANGED <<current_screen_id, counters, used_sysstat_screens, request, garbled>>
  <2>1. /\ todo' = [u \in Tasks |-> IF u = "rpc" THEN Code(On(r))
                                    ELSE IF u = "rpc" /\ r.at = "clearing" THEN Due(u)
                                    ELSE todo[u]]
        /\ glass \subseteq Screens => glass' \subseteq Screens
        /\ UNCHANGED <<current_screen_id, counters, used_sysstat_screens, request, garbled>>
    BY <1>5, <1>7, GoesLow DEF Stands, On
  <2>2. Stands(d, On(r))'
    BY <1>3, <1>5, <2>1 DEF Stands, TodoOK
  <2> QED
    BY <2>1, <2>2
<1> QED
  BY <1>6, <1>7 DEF On, rest

\* The delays between the screens.
LEMMA DelayArrives ==
  ASSUME NEW d \in Places, NEW r \in Places, Stands(d, r), TaskStep("display"),
         d.at = "none", d.j = "no", d.b \in {"start", "boot_end", "loop"}
  PROVE  /\ Stands(CASE d.b = "start" -> Place("set", "boot", "no", "boot_end")
                     [] d.b = "boot_end" -> Place("set", "iu", "no", "end")
                     [] d.b = "loop" -> Place("none", d.s, "no", "end"), r)'
         /\ UNCHANGED <<current_screen_id, counters, used_sysstat_screens, request, lcd>>
<1> DEFINE e == CASE d.b = "start" -> Place("set", "boot", "no", "boot_end")
                  [] d.b = "boot_end" -> Place("set", "iu", "no", "end")
                  [] d.b = "loop" -> Place("none", d.s, "no", "end")
<1>1. e \in Places
  BY DEF Place, Places, Ats, Screens, Bases, DisplayBases
<1>2. Code(d) = Base(d.b)
  BY FrontIs, RestIsSteps
<1>3. d.b = "loop" => Code(e) = <<>>
  <2>1. d.b = "loop" => Code(e) = Front("none", d.s, Then("no", Base("end")))
    BY DEF Code, Place
  <2> QED
    BY <2>1, BaseIs DEF Front, Then
<1>4. PICK w \in {"init", "update"} : Base(d.b) = Push(Delay(w), Code(e))
  BY <1>3, BootPlaces, BaseIs DEF Loop
<1>5. Code(e) \in Seq(AllSteps)
  BY <1>1, CodeIsSteps
<1> HIDE DEF e
<1>6. /\ todo' = [todo EXCEPT !["display"] = Code(e)]
      /\ UNCHANGED <<current_screen_id, counters, used_sysstat_screens, request, lcd>>
  BY <1>2, <1>4, <1>5, DoesDelay DEF Stands, Tasks
<1>7. Stands(e, r)'
  BY <1>1, <1>6, Arrives DEF Goes
<1> QED
  BY <1>6, <1>7 DEF e

\* What is left after the first counter is reset.
After(b) ==
  CASE b \in {"iu", "pbt", "index"} -> "loop"
    [] b = "iu_iu" -> "iu"
    [] b = "index_pbt" -> "pbt"
    [] b = "owed" -> "end"

Counter(b) == IF b \in {"iu", "iu_iu"} THEN "iu" ELSE IF b = "pbt" THEN "pbt" ELSE "index"

LEMMA GoesReset ==
  ASSUME NEW p \in Places, NEW t \in Tasks, todo[t] = Code(p), TodoOK, TaskStep(t),
         p.at = "none", p.j = "no", p.b \notin {"start", "boot_end", "loop", "end"}
  PROVE  /\ MayRun(t)
         /\ Goes(t, Place("none", p.s, "no", After(p.b)))
         /\ Counter(p.b) = "index" =>
              current_sysstat_screens_index' = 0 /\ UNCHANGED update_count
         /\ Counter(p.b) # "index" =>
              /\ update_count' = [update_count EXCEPT ![Counter(p.b)] = 0]
              /\ UNCHANGED current_sysstat_screens_index
         /\ UNCHANGED <<current_screen_id, used_sysstat_screens, request, lcd>>
<1> DEFINE w == Counter(p.b)
           e == Place("none", p.s, "no", After(p.b))
<1>1. p.b \in Bases /\ w \in {"iu", "pbt", "index"} /\ After(p.b) \in Bases
  BY DEF Places, Counter, After, Bases, DisplayBases
<1>2. Code(p) = Base(p.b)
  BY FrontIs, RestIsSteps
<1>3. Base(p.b) = Push(Reset(w), Base(After(p.b)))
  BY <1>1, BaseIs DEF Bases, DisplayBases, Counter, After
<1>4. Code(e) = Base(After(p.b))
  BY DEF Code, Place, Front, Then
<1>5. Base(After(p.b)) \in Seq(AllSteps)
  BY <1>1, BasesAreSteps DEF Steps
<1> HIDE DEF w, e
<1>6. Reset(w) \in AllSteps /\ Reset(w).do = "reset" /\ Reset(w).what = w
  BY <1>1, Words
<1>7. todo[t] = Push(Reset(w), Code(e)) /\ Code(e) \in Seq(AllSteps)
  BY <1>2, <1>3, <1>4, <1>5
<1>8. MayRun(t) /\ (ResetCount(t) \/ ResetIndex(t)) /\ What(t) = w
  BY <1>6, <1>7, Doing
<1>9. Continue(t, <<>>)
  BY <1>8 DEF ResetCount, ResetIndex
<1>10. todo' = [todo EXCEPT ![t] = <<>> \o Code(e)]
  BY <1>6, <1>7, <1>9, Continued
<1>11. Goes(t, e)
  BY <1>7, <1>10, ConcatEmptySeq DEF Goes
<1>12. CASE w = "index"
  <2>1. ResetIndex(t)
    BY <1>8, <1>12 DEF ResetCount
  <2> QED
    BY <1>8, <1>11, <1>12, <2>1 DEF ResetIndex, w, e
<1>13. CASE w # "index"
  <2>1. ResetCount(t)
    BY <1>8, <1>13 DEF ResetIndex
  <2> QED
    BY <1>8, <1>11, <1>13, <2>1 DEF ResetCount, w, e
<1> QED
  BY <1>12, <1>13

\* What an update leaves to be done after the screen it goes on to.
AfterNext(b, s) ==
  CASE s = "pbt" /\ b = "loop" -> "iu"
    [] s = "pbt" /\ b = "iu" -> "iu_iu"
    [] s = "sysstat" /\ b = "loop" -> "pbt"
    [] s = "iu" /\ b = "loop" -> "index"
    [] s = "iu" /\ b = "pbt" -> "index_pbt"
    [] s = "iu" /\ b = "end" -> "owed"

GoesOnFrom(b, s) ==
  <<b, s>> \in {<<"loop", "pbt">>, <<"iu", "pbt">>, <<"loop", "sysstat">>, <<"loop", "iu">>,
                <<"pbt", "iu">>, <<"end", "iu">>}

\* The updates of a screen.
One(p) == IF p.j = "regular" THEN 1 ELSE 0

LEMMA GoesUpdate ==
  ASSUME NEW p \in Places, NEW t \in Tasks, todo[t] = Code(p), TodoOK, TaskStep(t),
         p.at = "none", p.j # "no"
  PROVE  /\ MayRun(t)
         /\ current_screen_id \in Screens
         /\ \A s \in {"iu", "pbt"} : current_screen_id = s =>
              LET n == update_count[s] + One(p)
                  next == IF s = "iu" THEN "pbt" ELSE "sysstat"
              IN /\ update_count' = [update_count EXCEPT ![s] = n]
                 /\ n > SWITCH_SCREEN_INTERVAL /\ GoesOnFrom(p.b, next) =>
                      Goes(t, Place("set", next, "no", AfterNext(p.b, next)))
                 /\ ~(n > SWITCH_SCREEN_INTERVAL) => Goes(t, Place("high", s, "no", p.b))
                 /\ UNCHANGED current_sysstat_screens_index
         /\ current_screen_id = "sysstat" =>
              LET n == current_sysstat_screens_index + One(p)
              IN /\ current_sysstat_screens_index' = n
                 /\ n >= used_sysstat_screens /\ GoesOnFrom(p.b, "iu") =>
                      Goes(t, Place("set", "iu", "no", AfterNext(p.b, "iu")))
                 /\ ~(n >= used_sysstat_screens) => Goes(t, Place("clear", "sysstat", "no", p.b))
                 /\ UNCHANGED update_count
         /\ current_screen_id = "custom" =>
              Goes(t, Place("clear", "custom", "no", p.b)) /\ UNCHANGED counters
         /\ current_screen_id = "boot" =>
              Goes(t, Place("none", p.s, "no", p.b)) /\ UNCHANGED counters
         /\ UNCHANGED <<current_screen_id, used_sysstat_screens, request, lcd>>
<1> DEFINE w == IF p.j = "just" THEN "just_set" ELSE "regular"
           q == Base(p.b)
<1>1. /\ p.b \in Bases /\ p.j \in {"just", "regular"} /\ w \in {"just_set", "regular"}
      /\ (w = "regular" <=> p.j = "regular") /\ p.s \in Screens
  BY DEF Places
<1>2. q \in Seq(AllSteps)
  BY <1>1, BasesAreSteps DEF Steps
<1>3. todo[t] = Push(Update(w), q)
  BY <1>1, FrontIs DEF Rest, Then
<1>4. Update(w) \in AllSteps /\ Update(w).do = "update" /\ Update(w).what = w
  BY <1>1, Words
<1>5. \A s \in Screens : /\ Code(Place("high", s, "no", p.b)) = Push(lcd_write(s), q)
                         /\ Code(Place("none", s, "no", p.b)) = q
                         /\ Code(Place("clear", s, "no", p.b))
                              = Push(lcd_write("clear"), Push(Delay("clear"), Push(Text(s), q)))
  BY DEF Code, Place, Front, Then
<1>6. \A s \in Screens : Code(Place("set", s, "no", AfterNext(p.b, s)))
                           = Push(Set(s), Base(AfterNext(p.b, s)))
  BY DEF Code, Place, Front, Then
<1>7. /\ GoesOnFrom(p.b, "pbt") => Base(AfterNext(p.b, "pbt")) = Push(Reset("iu"), q)
      /\ GoesOnFrom(p.b, "sysstat") => Base(AfterNext(p.b, "sysstat")) = Push(Reset("pbt"), q)
      /\ GoesOnFrom(p.b, "iu") => Base(AfterNext(p.b, "iu")) = Push(Reset("index"), q)
  BY BaseIs DEF GoesOnFrom, AfterNext
<1> HIDE DEF q, w
<1>8. /\ MayRun(t) /\ What(t) = w
      /\ \/ display_screen_iu_update(t) \/ display_screen_pbt_update(t)
         \/ display_screen_sys_stat_update(t)
         \/ display_screen_custom_update(t)
         \/ display_screen_boot_update(t)
  BY <1>2, <1>3, <1>4, Doing
<1>9. current_screen_id \in Screens
  BY <1>8 DEF display_screen_iu_update, display_screen_pbt_update, ValuesUpdate, Updates,
       display_screen_sys_stat_update, display_screen_custom_update, display_screen_boot_update,
       Screens
<1>10. \A more : Continue(t, more) => todo' = [todo EXCEPT ![t] = more \o q]
  BY <1>2, <1>3, <1>4, Continued
<1>11. \A s \in Screens, c \in {"iu", "pbt", "index"} :
         <<Set(s), Reset(c)>> \o q = Push(Set(s), Push(Reset(c), q))
  <2>1. \A s \in Screens : Set(s) \in AllSteps
    BY Words
  <2>2. \A c \in {"iu", "pbt", "index"} : Reset(c) \in AllSteps
    BY Words
  <2> QED
    BY <1>2, <2>1, <2>2, TwoSteps
<1>12. ASSUME NEW s \in {"iu", "pbt"}, current_screen_id = s
       PROVE  LET n == update_count[s] + One(p)
                  next == IF s = "iu" THEN "pbt" ELSE "sysstat"
              IN /\ update_count' = [update_count EXCEPT ![s] = n]
                 /\ n > SWITCH_SCREEN_INTERVAL /\ GoesOnFrom(p.b, next) =>
                      Goes(t, Place("set", next, "no", AfterNext(p.b, next)))
                 /\ ~(n > SWITCH_SCREEN_INTERVAL) => Goes(t, Place("high", s, "no", p.b))
                 /\ UNCHANGED current_sysstat_screens_index
                 /\ UNCHANGED <<current_screen_id, used_sysstat_screens, request, lcd>>
  <2> DEFINE n == update_count[s] + One(p)
             next == IF s = "iu" THEN "pbt" ELSE "sysstat"
  <2>1. ValuesUpdate(t, s, next)
    BY <1>8, <1>12 DEF display_screen_iu_update, display_screen_pbt_update, ValuesUpdate, Updates,
       display_screen_sys_stat_update, display_screen_custom_update, display_screen_boot_update
  <2>2. update_count[s] + (IF CountsUpdate(t) THEN 1 ELSE 0) = n
    BY <1>1, <1>8 DEF CountsUpdate, One
  <2>3. /\ update_count' = [update_count EXCEPT ![s] = n]
        /\ Continue(t, IF n > SWITCH_SCREEN_INTERVAL
                       THEN <<Set(next), Reset(s)>>
                       ELSE lcd_printf_at(s))
        /\ UNCHANGED <<current_screen_id, current_sysstat_screens_index,
                       used_sysstat_screens, request, lcd>>
    BY <2>1, <2>2 DEF ValuesUpdate
  <2>4. s \in Screens /\ next \in Screens
    BY DEF Screens
  <2> HIDE DEF n
  <2>5. ASSUME n > SWITCH_SCREEN_INTERVAL, GoesOnFrom(p.b, next)
        PROVE  Goes(t, Place("set", next, "no", AfterNext(p.b, next)))
    <3>1. Continue(t, <<Set(next), Reset(s)>>)
      BY <2>3, <2>5
    <3>2. <<Set(next), Reset(s)>> \o q = Push(Set(next), Push(Reset(s), q))
      BY <1>11, <2>4
    <3>3. Base(AfterNext(p.b, next)) = Push(Reset(s), q)
      BY <1>7, <2>5
    <3>4. Code(Place("set", next, "no", AfterNext(p.b, next))) = Push(Set(next), Push(Reset(s), q))
      BY <1>6, <2>4, <3>3
    <3>5. todo' = [todo EXCEPT ![t] = <<Set(next), Reset(s)>> \o q]
      BY <1>10, <3>1
    <3> QED
      BY <3>2, <3>4, <3>5 DEF Goes
  <2>6. ASSUME ~(n > SWITCH_SCREEN_INTERVAL)
        PROVE  Goes(t, Place("high", s, "no", p.b))
    <3>1. Continue(t, <<lcd_write(s)>>)
      BY <2>3, <2>6 DEF lcd_printf_at, lcd_putc
    <3>2. todo' = [todo EXCEPT ![t] = <<lcd_write(s)>> \o q]
      BY <1>10, <3>1
    <3> QED
      BY <1>5, <2>4, <3>2 DEF Goes, Push
  <2> QED
    BY <2>3, <2>5, <2>6 DEF n
<1>13. ASSUME current_screen_id = "sysstat"
       PROVE  LET n == current_sysstat_screens_index + One(p)
              IN /\ current_sysstat_screens_index' = n
                 /\ n >= used_sysstat_screens /\ GoesOnFrom(p.b, "iu") =>
                      Goes(t, Place("set", "iu", "no", AfterNext(p.b, "iu")))
                 /\ ~(n >= used_sysstat_screens) => Goes(t, Place("clear", "sysstat", "no", p.b))
                 /\ UNCHANGED update_count
                 /\ UNCHANGED <<current_screen_id, used_sysstat_screens, request, lcd>>
  <2> DEFINE n == current_sysstat_screens_index + One(p)
  <2>1. display_screen_sys_stat_update(t)
    BY <1>8, <1>13 DEF display_screen_iu_update, display_screen_pbt_update, ValuesUpdate, Updates,
       display_screen_custom_update, display_screen_boot_update
  <2>2. current_sysstat_screens_index + (IF What(t) = "regular" THEN 1 ELSE 0) = n
    BY <1>1, <1>8 DEF One
  <2>3. /\ current_sysstat_screens_index' = n
        /\ Continue(t, IF n >= used_sysstat_screens
                       THEN <<Set("iu"), Reset("index")>>
                       ELSE FormFeed \o Rows)
        /\ UNCHANGED <<current_screen_id, update_count, used_sysstat_screens, request, lcd>>
    BY <2>1, <2>2 DEF display_screen_sys_stat_update, NoSuchScreen
  <2> HIDE DEF n
  <2>4. ASSUME n >= used_sysstat_screens, GoesOnFrom(p.b, "iu")
        PROVE  Goes(t, Place("set", "iu", "no", AfterNext(p.b, "iu")))
    <3>1. Continue(t, <<Set("iu"), Reset("index")>>)
      BY <2>3, <2>4
    <3>2. <<Set("iu"), Reset("index")>> \o q = Push(Set("iu"), Push(Reset("index"), q))
      BY <1>11 DEF Screens
    <3>3. Code(Place("set", "iu", "no", AfterNext(p.b, "iu")))
            = Push(Set("iu"), Push(Reset("index"), q))
      BY <1>6, <1>7, <2>4 DEF Screens
    <3>4. todo' = [todo EXCEPT ![t] = <<Set("iu"), Reset("index")>> \o q]
      BY <1>10, <3>1
    <3> QED
      BY <3>2, <3>3, <3>4 DEF Goes
  <2>5. ASSUME ~(n >= used_sysstat_screens)
        PROVE  Goes(t, Place("clear", "sysstat", "no", p.b))
    <3>1. Continue(t, FormFeed \o Rows)
      BY <2>3, <2>5
    <3>2. (FormFeed \o Rows) \o q
            = Push(lcd_write("clear"), Push(Delay("clear"), Push(Step("rows", "sysstat"), q)))
      <4>1. /\ lcd_write("clear") \in AllSteps /\ Delay("clear") \in AllSteps
            /\ Step("rows", "sysstat") \in AllSteps
        BY Words
      <4> DEFINE x == lcd_write("clear")
                 y == Delay("clear")
                 z == Step("rows", "sysstat")
      <4>2. (FormFeed \o Rows) \o q = (<<x, y>> \o <<z>>) \o q
        BY DEF FormFeed, Rows
      <4>3. x \in AllSteps /\ y \in AllSteps /\ z \in AllSteps
        BY <4>1
      <4> HIDE DEF x, y, z
      <4>4. (<<x, y>> \o <<z>>) \o q = Push(x, Push(y, Push(z, q)))
        BY <1>2, <4>3, ThreeSteps, Zenon
      <4> QED
        BY <4>2, <4>4 DEF x, y, z
    <3>3. todo' = [todo EXCEPT ![t] = (FormFeed \o Rows) \o q]
      BY <1>10, <3>1
    <3> QED
      BY <1>5, <3>2, <3>3 DEF Goes, Text, Screens
  <2> QED
    BY <2>3, <2>4, <2>5 DEF n
<1>14. ASSUME current_screen_id = "custom"
       PROVE  /\ Goes(t, Place("clear", "custom", "no", p.b)) /\ UNCHANGED counters
              /\ UNCHANGED <<current_screen_id, used_sysstat_screens, request, lcd>>
  <2>1. display_screen_custom_update(t)
    BY <1>8, <1>14 DEF display_screen_iu_update, display_screen_pbt_update, ValuesUpdate, Updates,
       display_screen_sys_stat_update, display_screen_boot_update
  <2>2. /\ Continue(t, FormFeed \o lcd_printf_at("custom"))
        /\ UNCHANGED <<current_screen_id, counters, used_sysstat_screens, request, lcd>>
    BY <2>1 DEF display_screen_custom_update, CustomUpdate
  <2>3. todo' = [todo EXCEPT ![t] = (FormFeed \o lcd_printf_at("custom")) \o q]
    BY <1>10, <2>2
  <2>4. (FormFeed \o lcd_printf_at("custom")) \o q
          = Push(lcd_write("clear"), Push(Delay("clear"), Push(lcd_write("custom"), q)))
    BY <1>2, ClearAndPrint DEF Screens
  <2> QED
    BY <1>5, <2>2, <2>3, <2>4 DEF Goes, Text, Screens
<1>15. ASSUME current_screen_id = "boot"
       PROVE  /\ Goes(t, Place("none", p.s, "no", p.b)) /\ UNCHANGED counters
              /\ UNCHANGED <<current_screen_id, used_sysstat_screens, request, lcd>>
  <2>1. display_screen_boot_update(t)
    BY <1>8, <1>15 DEF display_screen_iu_update, display_screen_pbt_update, ValuesUpdate, Updates,
       display_screen_sys_stat_update, display_screen_custom_update
  <2>2. /\ Continue(t, <<>>)
        /\ UNCHANGED <<current_screen_id, counters, used_sysstat_screens, request, lcd>>
    BY <2>1 DEF display_screen_boot_update
  <2>3. todo' = [todo EXCEPT ![t] = <<>> \o q]
    BY <1>10, <2>2
  <2> QED
    BY <1>1, <1>2, <1>5, <2>2, <2>3, ConcatEmptySeq DEF Goes
<1>16. UNCHANGED <<current_screen_id, used_sysstat_screens, request, lcd>>
  BY <1>9, <1>12, <1>13, <1>14, <1>15 DEF Screens
<1> QED
  BY <1>8, <1>9, <1>12, <1>13, <1>14, <1>15, <1>16

----------------------------------------------------------------------------
(* The invariant.                                                          *)

Typed ==
  /\ current_screen_id \in Targets
  /\ update_count \in [{"iu", "pbt"} -> 0 .. (SWITCH_SCREEN_INTERVAL + 1)]
  /\ current_sysstat_screens_index \in 0 .. COUNT_OF_POSSIBLE_SYSSTAT_SCREENS
  /\ used_sysstat_screens \in 0 .. COUNT_OF_POSSIBLE_SYSSTAT_SCREENS
  /\ last_screen_id \in Screens
  /\ glass \subseteq Screens /\ garbled \in BOOLEAN
  /\ asked \in {"nothing", "custom", "normal"} /\ again \in BOOLEAN

\* From the end of lcd_init to the end of the boot screen.
Booting(d) == d.b \in {"start", "boot_end"} \/ (d.at = "set" /\ d.b = "end")

\* What taskDisplay knows of the screen: only the custom and the boot screen,
\* or the voltages, can have come in between since it was chosen.
DisplayPlace(d) ==
  /\ d.at = "set" => current_screen_id # d.s /\ (d.b # "end" => current_screen_id # "custom")
  /\ d.at \in {"paint", "clear", "clearing"} => current_screen_id = d.s
  /\ d.j = "just" /\ d.s = "sysstat" => current_screen_id = "sysstat"
  /\ d.j = "just" => /\ current_screen_id \in {d.s, "boot", "custom", "iu"}
                     /\ d.b = "iu_iu" => current_screen_id # "iu"
  /\ Booting(d) => /\ current_screen_id \in {NoScreen, "boot", "custom"}
                   /\ last_screen_id \in {"boot", "custom"}
  /\ current_screen_id = NoScreen <=> d.b = "start" \/ (d.at = "set" /\ d.b = "boot_end")

\* The counter of a screen has passed its limit, the index the last screen
\* there can be, and the last screen that is used.
Over(s) == update_count[s] > SWITCH_SCREEN_INTERVAL
Past == current_sysstat_screens_index >= COUNT_OF_POSSIBLE_SYSSTAT_SCREENS
NoneLeft == current_sysstat_screens_index >= used_sysstat_screens

\* They have until taskDisplay resets them.
Counts(d) ==
  /\ Over("iu") => d.b \in {"iu", "iu_iu"}
  /\ Over("pbt") => d.b \in {"pbt", "index_pbt"}
  /\ Past => d.b \in {"index", "index_pbt"}
  /\ d.s = "sysstat" /\ d.at \in {"clear", "clearing", "wait", "text"} => ~Past

\* What the RPC task was asked for.
RpcPlace(r) ==
  /\ r.at = "set" /\ r.b = "owed" => r.s = "iu" /\ current_screen_id # "custom"
  /\ r.at = "set" /\ r.b = "end" /\ current_screen_id # "custom" => r.s \in {"boot", "custom"}
  /\ r.at = "set" /\ r.b = "end" /\ r.s # "custom" => asked = "normal"
  /\ current_screen_id = NoScreen => r.at = "none" /\ r.j = "no" /\ r.b = "end"
  /\ r.at = "remember" \/ (r.at = "set" /\ r.s = "custom") => asked = "custom" \/ again
  /\ ~again /\ last_screen_id = "custom" => r.at = "remember"
  /\ r.at = "remember" /\ ~again => current_screen_id # "custom"
  /\ asked = "normal" /\ ~again /\ current_screen_id = "custom" => r.at = "set" /\ r.s # "custom"

\* The RPC task has chosen a screen and waits for the LCD since.
Fresh(r) == r.at \in {"paint", "clear", "clearing", "wait"}

Together(d, r) ==
  /\ Booting(d) => r.b = "end" /\ (r.at = "set" => r.s \in {"boot", "custom"})
  /\ \/ current_screen_id = "iu" /\ Over("iu")
     \/ current_screen_id = "pbt" /\ Over("pbt")
     => Fresh(r) \/ d.at = "set"
  /\ d.j = "just" /\ current_screen_id = "custom" => Fresh(r) \/ (r.at = "none" /\ r.j = "just")
  /\ d.b = "iu_iu" /\ (d.j = "just" \/ d.at = "set") => ~(r.at = "set" /\ r.b = "owed")
  /\ current_screen_id = "sysstat" /\ r.b = "owed" /\ r.at # "set" =>
       ~NoneLeft \/ d.at = "set" \/ (d.j = "just" /\ d.s = "sysstat")

Related(d, r) == Typed /\ DisplayPlace(d) /\ Counts(d) /\ RpcPlace(r) /\ Together(d, r)

IInv == \E d \in DisplayPlaces, r \in RpcPlaces : Stands(d, r) /\ Related(d, r)

LEMMA PlacesArePlaces == DisplayPlaces \subseteq Places /\ RpcPlaces \subseteq Places
<1>1. DisplayPlaces \subseteq Places
  BY DEF DisplayPlaces, Places, Ats, Bases
<1>2. RpcPlaces \subseteq Places
  BY DEF RpcPlaces, Places, Ats, Bases, DisplayBases
<1> QED
  BY <1>1, <1>2

LEMMA SameCounters ==
  ASSUME UNCHANGED counters
  PROVE  /\ Over("iu")' = Over("iu") /\ Over("pbt")' = Over("pbt") /\ Past' = Past
         /\ UNCHANGED used_sysstat_screens => NoneLeft' = NoneLeft
  BY DEF counters, Over, Past, NoneLeft

----------------------------------------------------------------------------
(* What taskDisplay does keeps the invariant.                              *)

LEMMA DisplaySets ==
  ASSUME NEW d \in DisplayPlaces, NEW r \in RpcPlaces, Stands(d, r), Related(d, r),
         TaskStep("display"), d.at = "set"
  PROVE  IInv'
<1> DEFINE e == Place("paint", d.s, "just", d.b)
<1>1. d \in Places /\ r \in Places /\ e \in Places
  BY PlacesArePlaces DEF Place, Places, Ats
<1>2. d.j = "no" /\ current_screen_id # d.s /\ <<d.s, d.b>> \in Nested
  BY DEF DisplayPlaces, Related, DisplayPlace
<1>3. /\ current_screen_id' = d.s
      /\ Stands(e, r)'
      /\ UNCHANGED <<counters, used_sysstat_screens, request, lcd>>
  BY <1>1, <1>2, GoesOn, Arrives DEF Stands, Tasks
<1>4. e \in DisplayPlaces /\ e.at = "paint" /\ e.s = d.s /\ e.j = "just" /\ e.b = d.b
  BY <1>2 DEF DisplayPlaces, Place
<1>5. d.s \in Screens /\ d.s # NoScreen /\ r \in RpcPlaces
  BY DisplayAssumption DEF DisplayPlaces
<1> HIDE DEF e
<1>6. Typed'
  BY <1>3, <1>5 DEF Related, Typed, Targets, counters, request, lcd
<1>7. DisplayPlace(e)'
  BY <1>2, <1>3, <1>4, <1>5 DEF Related, DisplayPlace, Booting, Nested, request
<1>8. /\ Over("iu")' = Over("iu") /\ Over("pbt")' = Over("pbt") /\ Past' = Past
      /\ NoneLeft' = NoneLeft
  BY <1>3, SameCounters
<1>9. Counts(e)'
  BY <1>2, <1>4, <1>8, Zenon DEF Related, Counts
<1>10. RpcPlace(r)'
  BY <1>2, <1>3, <1>4, <1>5 DEF Related, DisplayPlace, RpcPlace, Together, Booting, request, Nested, RpcPlaces
<1>11. Together(e, r)'
  BY <1>2, <1>3, <1>4, <1>5, <1>8
     DEF Related, DisplayPlace, Together, Booting, Counts, Fresh, Nested
<1> QED
  BY <1>3, <1>4, <1>6, <1>7, <1>9, <1>10, <1>11 DEF IInv, Related

\* A step that changes nothing but the places and the text on the glass.
LEMMA OnlyPlaces ==
  ASSUME NEW d \in DisplayPlaces, NEW r \in RpcPlaces, Stands(d, r)', Related(d, r),
         UNCHANGED <<current_screen_id, counters, used_sysstat_screens, request>>,
         glass' \subseteq Screens, garbled' \in BOOLEAN
  PROVE  IInv'
<1>1. /\ Over("iu")' = Over("iu") /\ Over("pbt")' = Over("pbt") /\ Past' = Past
      /\ NoneLeft' = NoneLeft
  BY SameCounters
<1>2. /\ UNCHANGED current_screen_id /\ UNCHANGED last_screen_id /\ UNCHANGED asked
      /\ UNCHANGED again /\ UNCHANGED used_sysstat_screens /\ UNCHANGED update_count
      /\ UNCHANGED current_sysstat_screens_index
  BY DEF request, counters
<1>3. Typed'
  BY <1>2, Zenon DEF Related, Typed
<1>4. DisplayPlace(d)'
  BY <1>2, Zenon DEF Related, DisplayPlace, Booting
<1>5. Counts(d)'
  BY <1>1, Zenon DEF Related, Counts
<1>6. RpcPlace(r)'
  BY <1>2, Zenon DEF Related, RpcPlace
<1>7. Together(d, r)'
  BY <1>1, <1>2, Zenon DEF Related, Together, Booting, Fresh
<1> QED
  BY <1>3, <1>4, <1>5, <1>6, <1>7 DEF IInv, Related

LEMMA DisplayPaints ==
  ASSUME NEW d \in DisplayPlaces, NEW r \in RpcPlaces, Stands(d, r), Related(d, r),
         TaskStep("display"), d.at = "paint"
  PROVE  IInv'
<1> DEFINE e == IF d.s \in {"boot", "iu", "pbt"} THEN Place("clear", d.s, "just", d.b)
                                               ELSE Place("none", d.s, "just", d.b)
<1>1. /\ d \in Places /\ r \in Places /\ e \in Places
      /\ e.at = (IF d.s \in {"boot", "iu", "pbt"} THEN "clear" ELSE "none")
      /\ e.s = d.s /\ e.j = "just" /\ e.b = d.b
  BY PlacesArePlaces DEF Place, Places, Ats
<1>2. d.j = "just" /\ current_screen_id = d.s /\ <<d.s, d.b>> \in Nested /\ d.s \in Screens
  BY DEF DisplayPlaces, Related, DisplayPlace
<1>3. /\ Goes("display", e)
      /\ UNCHANGED <<current_screen_id, counters, used_sysstat_screens, request, lcd>>
  BY <1>1, <1>2, GoesOn DEF Stands, Tasks
<1>4. e \in DisplayPlaces
  BY <1>2 DEF DisplayPlaces, Place
<1> HIDE DEF e
<1>5. Stands(e, r)'
  BY <1>1, <1>3, Arrives
<1>6. DisplayPlace(e)
  BY <1>1, <1>2, <1>4 DEF Related, DisplayPlace, Booting, DisplayPlaces
<1>7. Counts(e)
  BY <1>1, <1>2 DEF Related, Counts
<1>8. Together(e, r)
  BY <1>1, <1>2 DEF Related, Together, Booting, Nested
<1>9. glass' \subseteq Screens /\ garbled' \in BOOLEAN
  BY <1>3 DEF lcd, Related, Typed
<1> QED
  BY <1>3, <1>4, <1>5, <1>6, <1>7, <1>8, <1>9, OnlyPlaces DEF Related

LEMMA DisplayWrites ==
  ASSUME NEW d \in DisplayPlaces, NEW r \in RpcPlaces, Stands(d, r), Related(d, r),
         TaskStep("display"), d.at \in {"clear", "wait", "text", "high"}
  PROVE  IInv'
<1> DEFINE at == CASE d.at = "clear" -> "clearing"
                   [] d.at = "wait" -> "text"
                   [] d.at = "text" -> IF d.s = "sysstat" THEN "high" ELSE "low"
                   [] d.at = "high" -> "low"
           e == Place(at, d.s, d.j, d.b)
<1>1. /\ d \in Places /\ r \in Places /\ e \in Places
      /\ e.at = at /\ e.s = d.s /\ e.j = d.j /\ e.b = d.b
  BY PlacesArePlaces DEF Place, Places, Ats
<1>2. /\ Goes("display", e)
      /\ garbled \in BOOLEAN => garbled' \in BOOLEAN
      /\ UNCHANGED <<current_screen_id, counters, used_sysstat_screens, request, glass>>
  BY <1>1, GoesOn DEF Stands, Tasks, lcd
<1>3. e \in DisplayPlaces
  BY DEF DisplayPlaces, Place
<1> HIDE DEF e
<1>4. Stands(e, r)'
  BY <1>1, <1>2, Arrives
<1>5. DisplayPlace(e)
  BY <1>1, <1>3 DEF Related, DisplayPlace, Booting
<1>6. Counts(e)
  BY <1>1 DEF Related, Counts
<1>7. Together(e, r)
  BY <1>1 DEF Related, Together, Booting
<1>8. glass' \subseteq Screens /\ garbled' \in BOOLEAN
  BY <1>2 DEF Related, Typed
<1> QED
  BY <1>2, <1>3, <1>4, <1>5, <1>6, <1>7, <1>8, OnlyPlaces DEF Related

LEMMA DisplayEndsByte ==
  ASSUME NEW d \in DisplayPlaces, NEW r \in RpcPlaces, Stands(d, r), Related(d, r),
         TaskStep("display"), d.at \in {"clearing", "low"}
  PROVE  IInv'
<1> DEFINE e == Place(IF d.at = "clearing" THEN "wait" ELSE "none", d.s, d.j, d.b)
           f == IF d.at = "clearing" /\ r.at = "wait" THEN Place("due", r.s, r.j, r.b) ELSE r
<1>1. /\ d \in Places /\ r \in Places
      /\ e.at = (IF d.at = "clearing" THEN "wait" ELSE "none")
      /\ e.s = d.s /\ e.j = d.j /\ e.b = d.b
  BY PlacesArePlaces DEF Place
<1>2. /\ f.at = (IF d.at = "clearing" /\ r.at = "wait" THEN "due" ELSE r.at)
      /\ f.s = r.s /\ f.j = r.j /\ f.b = r.b
  BY DEF Place
<1>3. /\ Stands(e, f)'
      /\ glass \subseteq Screens => glass' \subseteq Screens
      /\ UNCHANGED <<current_screen_id, counters, used_sysstat_screens, request, garbled>>
  BY <1>1, LowArrives
<1>4. e \in DisplayPlaces
  BY DEF DisplayPlaces, Place
<1>5. f \in RpcPlaces
  BY DEF RpcPlaces, Place
<1> HIDE DEF e, f
<1>6. DisplayPlace(e)
  BY <1>1, <1>4 DEF Related, DisplayPlace, Booting
<1>7. Counts(e)
  BY <1>1 DEF Related, Counts
<1>8. RpcPlace(f)
  BY <1>2 DEF Related, RpcPlace
<1>9. Together(e, f)
  <2>1. d.at = "clearing" => /\ ~(current_screen_id = "iu" /\ Over("iu"))
                             /\ ~(current_screen_id = "pbt" /\ Over("pbt"))
                             /\ ~(d.j = "just" /\ current_screen_id = "custom")
    BY DEF Related, DisplayPlace, Counts, DisplayPlaces, Nested
  <2> QED
    BY <1>1, <1>2, <2>1 DEF Related, Together, Booting, Fresh
<1>10. glass' \subseteq Screens /\ garbled' \in BOOLEAN
  BY <1>3 DEF Related, Typed
<1> QED
  BY <1>3, <1>4, <1>5, <1>6, <1>7, <1>8, <1>9, <1>10, OnlyPlaces DEF Related

LEMMA DisplayDelays ==
  ASSUME NEW d \in DisplayPlaces, NEW r \in RpcPlaces, Stands(d, r), Related(d, r),
         TaskStep("display"), d.at = "none", d.j = "no", d.b \in {"start", "boot_end", "loop"}
  PROVE  IInv'
<1> DEFINE e == CASE d.b = "start" -> Place("set", "boot", "no", "boot_end")
                  [] d.b = "boot_end" -> Place("set", "iu", "no", "end")
                  [] d.b = "loop" -> Place("none", d.s, "no", "end")
<1>1. d \in Places /\ r \in Places
  BY PlacesArePlaces
<1>2. /\ Stands(e, r)'
      /\ UNCHANGED <<current_screen_id, counters, used_sysstat_screens, request, lcd>>
  BY <1>1, DelayArrives
<1>3. /\ e.at = (IF d.b = "loop" THEN "none" ELSE "set") /\ e.j = "no"
      /\ e.s = (IF d.b = "loop" THEN d.s ELSE IF d.b = "start" THEN "boot" ELSE "iu")
      /\ e.b = (IF d.b = "start" THEN "boot_end" ELSE "end")
  BY DEF Place
<1>4. e \in DisplayPlaces
  BY DEF DisplayPlaces, DisplayBases, Place, Nested, Screens
<1> HIDE DEF e
<1>5. DisplayPlace(e)
  BY <1>3, DisplayAssumption DEF Related, DisplayPlace, Booting, Screens
<1>6. Counts(e)
  BY <1>3 DEF Related, Counts
<1>7. Together(e, r)
  BY <1>3 DEF Related, Together, Booting
<1>8. glass' \subseteq Screens /\ garbled' \in BOOLEAN
  BY <1>2 DEF lcd, Related, Typed
<1> QED
  BY <1>2, <1>4, <1>5, <1>6, <1>7, <1>8, OnlyPlaces DEF Related

\* A step that changes the places and the counters.
LEMMA OnlyCounters ==
  ASSUME NEW d \in DisplayPlaces, NEW r \in RpcPlaces, Stands(d, r)', Typed,
         UNCHANGED <<current_screen_id, used_sysstat_screens, request, lcd>>,
         update_count' \in [{"iu", "pbt"} -> 0 .. (SWITCH_SCREEN_INTERVAL + 1)],
         current_sysstat_screens_index' \in 0 .. COUNT_OF_POSSIBLE_SYSSTAT_SCREENS,
         DisplayPlace(d), Counts(d)', RpcPlace(r), Together(d, r)'
  PROVE  IInv'
<1>1. /\ UNCHANGED current_screen_id /\ UNCHANGED last_screen_id /\ UNCHANGED asked
      /\ UNCHANGED again /\ UNCHANGED used_sysstat_screens
      /\ UNCHANGED glass /\ UNCHANGED garbled
  BY DEF request, lcd
<1>2. Typed'
  BY <1>1, Zenon DEF Typed
<1>3. DisplayPlace(d)'
  BY <1>1, Zenon DEF DisplayPlace, Booting
<1>4. RpcPlace(r)'
  BY <1>1, Zenon DEF RpcPlace
<1> QED
  BY <1>2, <1>3, <1>4 DEF IInv, Related

LEMMA DisplayResets ==
  ASSUME NEW d \in DisplayPlaces, NEW r \in RpcPlaces, Stands(d, r), Related(d, r),
         TaskStep("display"), d.at = "none", d.j = "no",
         d.b \notin {"start", "boot_end", "loop", "end"}
  PROVE  IInv'
<1> DEFINE e == Place("none", d.s, "no", After(d.b))
<1>1. d \in Places /\ r \in Places /\ d.b \in {"iu", "iu_iu", "pbt", "index", "index_pbt"}
  BY PlacesArePlaces DEF DisplayPlaces, DisplayBases
<1>2. After(d.b) \in {"loop", "iu", "pbt"} /\ Counter(d.b) \in {"iu", "pbt", "index"}
  BY <1>1 DEF After, Counter
<1>3. /\ Goes("display", e)
      /\ Counter(d.b) = "index" =>
              current_sysstat_screens_index' = 0 /\ UNCHANGED update_count
      /\ Counter(d.b) # "index" =>
              /\ update_count' = [update_count EXCEPT ![Counter(d.b)] = 0]
              /\ UNCHANGED current_sysstat_screens_index
      /\ UNCHANGED <<current_screen_id, used_sysstat_screens, request, lcd>>
  BY <1>1, GoesReset DEF Stands, Tasks
<1>4. e \in Places /\ e.at = "none" /\ e.s = d.s /\ e.j = "no" /\ e.b = After(d.b)
  BY <1>1, <1>2 DEF Place, Places, Ats, Bases, DisplayBases
<1>5. e \in DisplayPlaces
  BY <1>2 DEF DisplayPlaces, DisplayBases, Place
<1> HIDE DEF e
<1>6. Stands(e, r)'
  BY <1>1, <1>3, <1>4, Arrives
<1>7. /\ update_count' \in [{"iu", "pbt"} -> 0 .. (SWITCH_SCREEN_INTERVAL + 1)]
      /\ current_sysstat_screens_index' \in 0 .. COUNT_OF_POSSIBLE_SYSSTAT_SCREENS
  BY <1>2, <1>3, DisplayAssumption DEF Related, Typed
<1>8. /\ Over("iu")' => (Over("iu") /\ Counter(d.b) # "iu")
      /\ Over("pbt")' => (Over("pbt") /\ Counter(d.b) # "pbt")
  <2>1. CASE Counter(d.b) = "index"
    BY <1>3, <2>1 DEF Over
  <2>2. CASE Counter(d.b) # "index"
    <3>1. /\ update_count'[Counter(d.b)] = 0
          /\ \A s \in {"iu", "pbt"} \ {Counter(d.b)} : update_count'[s] = update_count[s]
      BY <1>2, <1>3, <2>2 DEF Related, Typed
    <3>2. ~(0 > SWITCH_SCREEN_INTERVAL)
      BY DisplayAssumption
    <3> QED
      BY <1>2, <2>2, <3>1, <3>2 DEF Over
  <2> QED
    BY <2>1, <2>2
<1>9. /\ Past' => (Past /\ Counter(d.b) # "index")
      /\ NoneLeft' => NoneLeft
  <2>1. CASE Counter(d.b) = "index"
    <3>1. current_sysstat_screens_index' = 0 /\ used_sysstat_screens' = used_sysstat_screens
      BY <1>3, <2>1
    <3>2. /\ current_sysstat_screens_index \in Nat /\ used_sysstat_screens \in Nat
          /\ COUNT_OF_POSSIBLE_SYSSTAT_SCREENS \in Nat \ {0}
      BY DisplayAssumption DEF Related, Typed
    <3> QED
      BY <3>1, <3>2 DEF Past, NoneLeft
  <2>2. CASE Counter(d.b) # "index"
    BY <1>3, <2>2, Zenon DEF Past, NoneLeft
  <2> QED
    BY <2>1, <2>2
<1>10. DisplayPlace(e)
  BY <1>1, <1>2, <1>4 DEF Related, DisplayPlace, Booting
<1>11. Counts(e)'
  BY <1>1, <1>4, <1>8, <1>9 DEF Related, Counts, Counter, After
<1>12. Together(e, r)'
  <2>1. UNCHANGED current_screen_id
    BY <1>3
  <2> QED
    BY <1>1, <1>2, <1>4, <1>8, <1>9, <2>1 DEF Related, Together, Booting
<1> QED
  BY <1>3, <1>5, <1>6, <1>7, <1>10, <1>11, <1>12, OnlyCounters DEF Related

LEMMA DisplayUpdatesValues ==
  ASSUME NEW d \in DisplayPlaces, NEW r \in RpcPlaces, Stands(d, r), Related(d, r),
         TaskStep("display"), d.at = "none", d.j # "no",
         NEW s \in {"iu", "pbt"}, current_screen_id = s
  PROVE  IInv'
<1>0. PICK n : n = update_count[s] + One(d)
  OBVIOUS
<1> DEFINE next == IF s = "iu" THEN "pbt" ELSE "sysstat"
           e == IF n > SWITCH_SCREEN_INTERVAL THEN Place("set", next, "no", AfterNext(d.b, next))
                                              ELSE Place("high", s, "no", d.b)
<1>1. /\ d \in Places /\ r \in Places /\ d.b \in DisplayBases
      /\ \/ d.j = "regular" /\ d.b = "loop"
         \/ d.j = "just" /\ <<d.s, d.b>> \in Nested
  BY PlacesArePlaces DEF DisplayPlaces
<1>2. /\ SWITCH_SCREEN_INTERVAL \in Nat
      /\ update_count[s] \in 0 .. (SWITCH_SCREEN_INTERVAL + 1)
      /\ One(d) = (IF d.j = "regular" THEN 1 ELSE 0)
      /\ n \in Nat
  BY <1>0, DisplayAssumption DEF Related, Typed, One
<1>3. /\ update_count' = [update_count EXCEPT ![s] = n]
      /\ n > SWITCH_SCREEN_INTERVAL /\ GoesOnFrom(d.b, next) =>
           Goes("display", Place("set", next, "no", AfterNext(d.b, next)))
      /\ ~(n > SWITCH_SCREEN_INTERVAL) => Goes("display", Place("high", s, "no", d.b))
      /\ UNCHANGED current_sysstat_screens_index
      /\ UNCHANGED <<current_screen_id, used_sysstat_screens, request, lcd>>
  BY <1>0, <1>1, GoesUpdate DEF Stands, Tasks
<1>4. n <= SWITCH_SCREEN_INTERVAL + 1
  BY <1>0, <1>1, <1>2 DEF Over, Related, Counts
<1>5. ASSUME n > SWITCH_SCREEN_INTERVAL
      PROVE  /\ \/ d.j = "regular" /\ d.b = "loop"
                \/ d.j = "just" /\ s = "iu" /\ d.b = "iu" /\ Fresh(r)
             /\ GoesOnFrom(d.b, next)
  <2>1. d.j = "just" => Over(s)
    BY <1>0, <1>2, <1>5 DEF Over
  <2>2. d.j = "just" => s = "iu" /\ d.b = "iu" /\ Fresh(r)
    BY <1>1, <2>1 DEF Related, Counts, Together, DisplayPlace, Nested
  <2> QED
    BY <1>1, <2>2 DEF GoesOnFrom
<1>6. /\ e.at = (IF n > SWITCH_SCREEN_INTERVAL THEN "set" ELSE "high")
      /\ e.s = (IF n > SWITCH_SCREEN_INTERVAL THEN next ELSE s) /\ e.j = "no"
      /\ e.b = (IF n > SWITCH_SCREEN_INTERVAL THEN AfterNext(d.b, next) ELSE d.b)
  BY DEF Place
<1>7. n > SWITCH_SCREEN_INTERVAL =>
        /\ s = "iu" => e.b = IF d.b = "loop" THEN "iu" ELSE "iu_iu"
        /\ s = "pbt" => e.b = "pbt"
  <2>1. AfterNext("loop", "pbt") = "iu" /\ AfterNext("iu", "pbt") = "iu_iu"
        /\ AfterNext("loop", "sysstat") = "pbt"
    BY DEF AfterNext
  <2> QED
    BY <1>5, <1>6, <2>1
<1>8. e \in DisplayPlaces
  <2>1. CASE n > SWITCH_SCREEN_INTERVAL
    <3>1. AfterNext(d.b, next) \in DisplayBases /\ <<next, AfterNext(d.b, next)>> \in Nested
          /\ next \in Screens /\ AfterNext(d.b, next) # "start"
      BY <1>5, <1>6, <1>7, <2>1 DEF DisplayBases, Nested, Screens
    <3>2. e = Place("set", next, "no", AfterNext(d.b, next))
      BY <2>1
    <3> HIDE DEF next, e
    <3> QED
      BY <3>1, <3>2 DEF DisplayPlaces, Place
  <2>2. CASE ~(n > SWITCH_SCREEN_INTERVAL)
    <3>1. d.b # "start" /\ s \in Screens
      BY <1>1 DEF Nested, Screens
    <3>2. e = Place("high", s, "no", d.b)
      BY <2>2
    <3> HIDE DEF next, e
    <3> QED
      BY <1>1, <3>1, <3>2 DEF DisplayPlaces, Place
  <2> QED
    BY <2>1, <2>2
<1>9. Goes("display", e)
  BY <1>3, <1>5
<1> HIDE DEF e, next
<1>10. Stands(e, r)'
  <2>1. e \in Places
    BY <1>8, PlacesArePlaces
  <2> QED
    BY <1>1, <1>9, <2>1, Arrives
<1>11. /\ update_count' \in [{"iu", "pbt"} -> 0 .. (SWITCH_SCREEN_INTERVAL + 1)]
       /\ current_sysstat_screens_index' \in 0 .. COUNT_OF_POSSIBLE_SYSSTAT_SCREENS
  BY <1>2, <1>3, <1>4 DEF Related, Typed
<1>12. /\ Over(s)' <=> n > SWITCH_SCREEN_INTERVAL
       /\ s = "iu" => Over("pbt")' = Over("pbt")
       /\ s = "pbt" => Over("iu")' = Over("iu")
       /\ Past' = Past /\ NoneLeft' = NoneLeft
  <2>1. /\ update_count'[s] = n
        /\ \A u \in {"iu", "pbt"} \ {s} : update_count'[u] = update_count[u]
    BY <1>3 DEF Related, Typed
  <2>2. Past' = Past /\ NoneLeft' = NoneLeft
    BY <1>3, Zenon DEF Past, NoneLeft
  <2> QED
    BY <2>1, <2>2 DEF Over
<1>13. DisplayPlace(e)
  <2>1. n > SWITCH_SCREEN_INTERVAL => s # next
    BY DEF next
  <2>2. s # "custom" /\ s # NoScreen /\ s # "boot"
    BY DisplayAssumption DEF Screens
  <2> QED
    BY <1>1, <1>5, <1>6, <1>7, <2>1, <2>2 DEF Related, DisplayPlace, Booting, Nested
<1>14. Counts(e)'
  <2>1. CASE n > SWITCH_SCREEN_INTERVAL
    <3>1. e.at = "set" /\ ~Past /\ (s = "pbt" => ~Over("iu")) /\ (s = "iu" => ~Over("pbt"))
      BY <1>5, <1>6, <2>1 DEF Related, Counts
    <3> QED
      BY <1>5, <1>7, <1>12, <2>1, <3>1 DEF Counts
  <2>2. CASE ~(n > SWITCH_SCREEN_INTERVAL)
    <3>1. e.at = "high" /\ e.b = d.b
      BY <1>6, <2>2
    <3> QED
      BY <1>12, <2>2, <3>1 DEF Related, Counts
  <2> QED
    BY <2>1, <2>2
<1>15. Together(e, r)'
  <2>1. current_screen_id' = s
    BY <1>3
  <2>2. CASE n > SWITCH_SCREEN_INTERVAL
    <3>1. e.at = "set" /\ e.j = "no" /\ e.b \in {"iu", "iu_iu", "pbt"}
      BY <1>6, <1>7, <2>2
    <3>2. e.b = "iu_iu" => Fresh(r)
      BY <1>5, <1>7, <2>2
    <3> QED
      BY <2>1, <3>1, <3>2 DEF Together, Booting, Fresh
  <2>3. CASE ~(n > SWITCH_SCREEN_INTERVAL)
    <3>1. e.at = "high" /\ e.j = "no" /\ e.b = d.b
      BY <1>6, <2>3
    <3>2. s # "sysstat"
      OBVIOUS
    <3> QED
      BY <1>12, <2>1, <2>3, <3>1, <3>2 DEF Related, Together, Booting
  <2> QED
    BY <2>2, <2>3
<1>16. Typed /\ RpcPlace(r)
  BY DEF Related
<1> QED
  BY <1>3, <1>8, <1>10, <1>11, <1>13, <1>14, <1>15, <1>16, OnlyCounters

LEMMA DisplayUpdatesSysstat ==
  ASSUME NEW d \in DisplayPlaces, NEW r \in RpcPlaces, Stands(d, r), Related(d, r),
         TaskStep("display"), d.at = "none", d.j # "no", current_screen_id = "sysstat"
  PROVE  IInv'
<1>1. PICK n : n = current_sysstat_screens_index + One(d)
  OBVIOUS
<1>2. PICK none \in BOOLEAN : none <=> n >= used_sysstat_screens
  OBVIOUS
<1> DEFINE e == IF none THEN Place("set", "iu", "no", AfterNext(d.b, "iu"))
                        ELSE Place("clear", "sysstat", "no", d.b)
<1>3. /\ d \in Places /\ r \in Places /\ d.b \in DisplayBases
      /\ \/ d.j = "regular" /\ d.b = "loop"
         \/ d.j = "just" /\ d.s = "sysstat" /\ d.b = "pbt"
  BY PlacesArePlaces DEF DisplayPlaces, Related, DisplayPlace, Nested
<1>4. /\ current_sysstat_screens_index' = n
      /\ n >= used_sysstat_screens /\ GoesOnFrom(d.b, "iu") =>
              Goes("display", Place("set", "iu", "no", AfterNext(d.b, "iu")))
      /\ ~(n >= used_sysstat_screens) => Goes("display", Place("clear", "sysstat", "no", d.b))
      /\ UNCHANGED update_count
      /\ UNCHANGED <<current_screen_id, used_sysstat_screens, request, lcd>>
  BY <1>1, <1>3, GoesUpdate DEF Stands, Tasks
<1>5. /\ GoesOnFrom(d.b, "iu")
      /\ AfterNext(d.b, "iu") = IF d.b = "loop" THEN "index" ELSE "index_pbt"
  BY <1>3 DEF GoesOnFrom, AfterNext
<1>6. /\ e.at = (IF none THEN "set" ELSE "clear") /\ e.j = "no"
      /\ e.s = (IF none THEN "iu" ELSE "sysstat")
      /\ e.b = (IF none THEN AfterNext(d.b, "iu") ELSE d.b)
  BY DEF Place
<1>7. e \in DisplayPlaces
  <2>1. CASE none
    BY <1>5, <2>1 DEF DisplayPlaces, DisplayBases, Place, Nested, Screens
  <2>2. CASE ~none
    BY <1>3, <2>2 DEF DisplayPlaces, DisplayBases, Place, Screens
  <2> QED
    BY <2>1, <2>2
<1>8. Goes("display", e)
  BY <1>2, <1>4, <1>5
<1> HIDE DEF e
<1>9. Stands(e, r)'
  <2>1. e \in Places
    BY <1>7, PlacesArePlaces
  <2> QED
    BY <1>3, <1>8, <2>1, Arrives
<1>10. /\ n \in 0 .. COUNT_OF_POSSIBLE_SYSSTAT_SCREENS
       /\ ~none => ~(n >= COUNT_OF_POSSIBLE_SYSSTAT_SCREENS)
  <2>1. /\ current_sysstat_screens_index \in 0 .. COUNT_OF_POSSIBLE_SYSSTAT_SCREENS
        /\ used_sysstat_screens \in 0 .. COUNT_OF_POSSIBLE_SYSSTAT_SCREENS
        /\ COUNT_OF_POSSIBLE_SYSSTAT_SCREENS \in Nat
    BY DisplayAssumption DEF Related, Typed
  <2>2. ~Past
    BY <1>3 DEF Related, Counts
  <2>3. One(d) = (IF d.j = "regular" THEN 1 ELSE 0)
    BY DEF One
  <2> QED
    BY <1>1, <1>2, <1>3, <2>1, <2>2, <2>3 DEF Past
<1>11. /\ update_count' \in [{"iu", "pbt"} -> 0 .. (SWITCH_SCREEN_INTERVAL + 1)]
       /\ current_sysstat_screens_index' \in 0 .. COUNT_OF_POSSIBLE_SYSSTAT_SCREENS
  BY <1>4, <1>10 DEF Related, Typed
<1>12. /\ Over("iu")' = Over("iu") /\ Over("pbt")' = Over("pbt")
       /\ ~none => ~Past' /\ ~NoneLeft'
  <2>1. Over("iu")' = Over("iu") /\ Over("pbt")' = Over("pbt")
    BY <1>4, Zenon DEF Over
  <2>2. ~none => ~Past' /\ ~NoneLeft'
    BY <1>2, <1>4, <1>10 DEF Past, NoneLeft
  <2> QED
    BY <2>1, <2>2
<1>13. DisplayPlace(e)
  BY <1>3, <1>5, <1>6, DisplayAssumption DEF DisplayPlace, Booting, Screens
<1>14. Counts(e)'
  BY <1>3, <1>5, <1>6, <1>12 DEF Related, Counts
<1>15. Together(e, r)'
  <2>1. current_screen_id' = "sysstat"
    BY <1>4
  <2> QED
    BY <1>3, <1>5, <1>6, <1>12, <2>1 DEF Together, Booting
<1>16. Typed /\ RpcPlace(r)
  BY DEF Related
<1> QED
  BY <1>4, <1>7, <1>9, <1>11, <1>13, <1>14, <1>15, <1>16, OnlyCounters

LEMMA DisplayUpdatesRest ==
  ASSUME NEW d \in DisplayPlaces, NEW r \in RpcPlaces, Stands(d, r), Related(d, r),
         TaskStep("display"), d.at = "none", d.j # "no", current_screen_id \in {"custom", "boot"}
  PROVE  IInv'
<1>1. PICK custom \in BOOLEAN : custom <=> current_screen_id = "custom"
  OBVIOUS
<1> DEFINE e == IF custom THEN Place("clear", "custom", "no", d.b)
                          ELSE Place("none", d.s, "no", d.b)
<1>2. /\ d \in Places /\ r \in Places /\ d.b \in DisplayBases /\ d.b # "start" /\ d.s \in Screens
  BY PlacesArePlaces DEF DisplayPlaces
<1>3. /\ current_screen_id = "custom" =>
              Goes("display", Place("clear", "custom", "no", d.b)) /\ UNCHANGED counters
      /\ current_screen_id = "boot" =>
              Goes("display", Place("none", d.s, "no", d.b)) /\ UNCHANGED counters
      /\ UNCHANGED <<current_screen_id, used_sysstat_screens, request, lcd>>
  BY <1>2, GoesUpdate DEF Stands, Tasks
<1>4. Goes("display", e) /\ UNCHANGED counters
  BY <1>1, <1>3
<1>5. /\ e.at = (IF custom THEN "clear" ELSE "none") /\ e.j = "no" /\ e.b = d.b
      /\ e.s = IF custom THEN "custom" ELSE d.s
  BY DEF Place
<1>6. e \in DisplayPlaces
  BY <1>2 DEF DisplayPlaces, DisplayBases, Place, Screens
<1> HIDE DEF e
<1>7. Stands(e, r)'
  <2>1. e \in Places
    BY <1>6, PlacesArePlaces
  <2> QED
    BY <1>2, <1>4, <2>1, Arrives
<1>8. DisplayPlace(e)
  BY <1>1, <1>2, <1>5, DisplayAssumption DEF Related, DisplayPlace, Booting, Screens
<1>9. Counts(e)
  BY <1>5 DEF Related, Counts
<1>10. Together(e, r)
  BY <1>5 DEF Related, Together, Booting
<1>11. glass' \subseteq Screens /\ garbled' \in BOOLEAN
  BY <1>3 DEF lcd, Related, Typed
<1> QED
  BY <1>3, <1>4, <1>6, <1>7, <1>8, <1>9, <1>10, <1>11, OnlyPlaces DEF Related

LEMMA DisplayLoops ==
  ASSUME NEW d \in DisplayPlaces, NEW r \in RpcPlaces, Stands(d, r), Related(d, r),
         UpdateRegularly
  PROVE  IInv'
<1> DEFINE e == Place("none", d.s, "regular", "loop")
<1>1. d \in Places /\ r \in Places /\ d.s \in Screens
  BY PlacesArePlaces DEF DisplayPlaces
<1>2. todo["display"] = <<>>
  BY DEF UpdateRegularly, Busy
<1>3. d.at = "none" /\ d.j = "no" /\ d.b = "end"
  BY <1>1, <1>2, CodeBegins DEF Stands
<1>4. e \in Places /\ e.at = "none" /\ e.s = d.s /\ e.j = "regular" /\ e.b = "loop"
  BY <1>1 DEF Place, Places, Ats, Bases, DisplayBases
<1>5. e \in DisplayPlaces
  BY <1>1 DEF DisplayPlaces, DisplayBases, Place
<1>6. Code(e) = <<Update("regular"), Delay("update")>>
  <2>1. Code(e) = Push(Update("regular"), Push(Delay("update"), <<>>))
    BY BaseIs DEF Code, Place, Front, Then, Loop
  <2>2. Update("regular") \in AllSteps /\ Delay("update") \in AllSteps
    BY Words
  <2>3. <<Delay("update")>> \o <<>> = <<Delay("update")>>
    BY <2>2, ConcatEmptySeq
  <2>4. <<Update("regular"), Delay("update")>> = <<Update("regular")>> \o <<Delay("update")>>
    BY <2>2, Pairs
  <2> QED
    BY <2>1, <2>3, <2>4 DEF Push
<1> HIDE DEF e
<1>7. /\ Goes("display", e)
      /\ UNCHANGED <<current_screen_id, counters, used_sysstat_screens, request, lcd>>
  BY <1>6 DEF UpdateRegularly, Goes
<1>8. Stands(e, r)'
  BY <1>1, <1>4, <1>7, Arrives
<1>9. DisplayPlace(e)
  BY <1>3, <1>4 DEF Related, DisplayPlace, Booting
<1>10. Counts(e)
  BY <1>3, <1>4 DEF Related, Counts
<1>11. Together(e, r)
  BY <1>3, <1>4 DEF Related, Together, Booting
<1>12. glass' \subseteq Screens /\ garbled' \in BOOLEAN
  BY <1>7 DEF lcd, Related, Typed
<1> QED
  BY <1>5, <1>7, <1>8, <1>9, <1>10, <1>11, <1>12, OnlyPlaces DEF Related

LEMMA DisplayKeeps ==
  ASSUME NEW d \in DisplayPlaces, NEW r \in RpcPlaces, Stands(d, r), Related(d, r),
         DisplayStep
  PROVE  IInv'
<1>1. CASE UpdateRegularly
  BY <1>1, DisplayLoops
<1>2. CASE TaskStep("display")
  <2>1. /\ d.at \in {"none", "set", "paint", "clear", "clearing", "wait", "text", "high", "low"}
        /\ d.j \in {"no", "just", "regular"} /\ d \in Places /\ d.b \in DisplayBases
    BY PlacesArePlaces DEF DisplayPlaces
  <2>2. CASE d.at = "set"
    BY <1>2, <2>2, DisplaySets
  <2>3. CASE d.at = "paint"
    BY <1>2, <2>3, DisplayPaints
  <2>4. CASE d.at \in {"clear", "wait", "text", "high"}
    BY <1>2, <2>4, DisplayWrites
  <2>5. CASE d.at \in {"clearing", "low"}
    BY <1>2, <2>5, DisplayEndsByte
  <2>6. CASE d.at = "none" /\ d.j = "no"
    <3>1. d.b # "end"
      <4>1. Busy("display")
        BY <1>2 DEF TaskStep, display_set_screen, paint_function, display_screen_iu_update,
             display_screen_pbt_update, ValuesUpdate, Updates, ResetCount,
             display_screen_sys_stat_update, ResetIndex, PrintRows, display_screen_custom_update,
             display_screen_boot_update, HighNibble, LowNibble, DelayOver, AtStep
      <4> QED
        BY <2>1, <2>6, <4>1, CodeBegins DEF Stands, Busy
    <3>2. CASE d.b \in {"start", "boot_end", "loop"}
      BY <1>2, <2>6, <3>2, DisplayDelays
    <3>3. CASE d.b \notin {"start", "boot_end", "loop"}
      BY <1>2, <2>6, <3>1, <3>3, DisplayResets
    <3> QED
      BY <3>2, <3>3
  <2>7. CASE d.at = "none" /\ d.j # "no"
    <3>1. current_screen_id \in Screens
      BY <1>2, <2>1, <2>7, GoesUpdate DEF Stands, Tasks
    <3>2. CASE current_screen_id \in {"iu", "pbt"}
      BY <1>2, <2>7, <3>2, DisplayUpdatesValues
    <3>3. CASE current_screen_id = "sysstat"
      BY <1>2, <2>7, <3>3, DisplayUpdatesSysstat
    <3>4. CASE current_screen_id \in {"custom", "boot"}
      BY <1>2, <2>7, <3>4, DisplayUpdatesRest
    <3> QED
      BY <3>1, <3>2, <3>3, <3>4 DEF Screens
  <2> QED
    BY <2>1, <2>2, <2>3, <2>4, <2>5, <2>6, <2>7
<1> QED
  BY <1>1, <1>2 DEF DisplayStep

----------------------------------------------------------------------------
(* What the RPC task does keeps the invariant.                             *)

\* Where taskDisplay is while the RPC task runs.
Waiting(d) ==
  \/ d.at = "wait"
  \/ d.at = "none" /\ d.j = "no" /\ d.b \in {"start", "boot_end", "loop"}

LEMMA DisplayIsWaiting ==
  ASSUME NEW d \in DisplayPlaces, NEW r \in RpcPlaces, Stands(d, r), DisplayWaits
  PROVE  Waiting(d) /\ (d.at = "wait" => What("display") = "clear")
<1>1. d \in Places /\ d.at # "due"
  BY PlacesArePlaces DEF DisplayPlaces
<1>2. Waiting(d)
  BY <1>1, CodeBegins DEF Stands, DisplayWaits, Busy, Waiting
<1>3. d.at = "wait" => What("display") = Delay("clear").what
  BY <1>1, CodeBegins DEF Stands, What
<1> QED
  BY <1>2, <1>3, Words

LEMMA RpcPaints ==
  ASSUME NEW d \in DisplayPlaces, NEW r \in RpcPlaces, Stands(d, r), Related(d, r),
         TaskStep("rpc"), r.at = "paint"
  PROVE  IInv'
<1>1. PICK s : s = current_screen_id
  OBVIOUS
<1> DEFINE e == IF s \in {"boot", "iu", "pbt"} THEN Place("clear", s, "just", r.b)
                                              ELSE Place("none", r.s, "just", r.b)
<1>2. d \in Places /\ r \in Places /\ r.j = "just" /\ r.b \in {"end", "owed"} /\ r.s \in Screens
  BY PlacesArePlaces DEF RpcPlaces
<1>3. s \in Screens
  BY <1>1, <1>2 DEF Related, RpcPlace, Typed, Targets
<1>4. /\ Goes("rpc", e)
      /\ UNCHANGED <<current_screen_id, counters, used_sysstat_screens, request, lcd>>
  BY <1>1, <1>2, <1>3, GoesOn DEF Stands, Tasks
<1>5. /\ e.at = (IF s \in {"boot", "iu", "pbt"} THEN "clear" ELSE "none")
      /\ e.j = "just" /\ e.b = r.b
  BY DEF Place
<1>6. e \in RpcPlaces
  BY <1>2, <1>3 DEF RpcPlaces, Place
<1> HIDE DEF e
<1>7. Stands(d, e)'
  <2>1. e \in Places
    BY <1>6, PlacesArePlaces
  <2> QED
    BY <1>2, <1>4, <2>1, Arrives
<1>8. RpcPlace(e)
  BY <1>1, <1>3, <1>5, DisplayAssumption DEF Related, RpcPlace
<1>9. Together(d, e)
  BY <1>1, <1>3, <1>5 DEF Related, Together, Booting, Fresh
<1>10. glass' \subseteq Screens /\ garbled' \in BOOLEAN
  BY <1>4 DEF lcd, Related, Typed
<1> QED
  BY <1>4, <1>6, <1>7, <1>8, <1>9, <1>10, OnlyPlaces DEF Related

LEMMA RpcWrites ==
  ASSUME NEW d \in DisplayPlaces, NEW r \in RpcPlaces, Stands(d, r), Related(d, r),
         TaskStep("rpc"), r.at \in {"clear", "wait", "due", "text", "high"}
  PROVE  IInv'
<1> DEFINE at == CASE r.at = "clear" -> "clearing"
                   [] r.at \in {"wait", "due"} -> "text"
                   [] r.at = "text" -> IF r.s = "sysstat" THEN "high" ELSE "low"
                   [] r.at = "high" -> "low"
           e == Place(at, r.s, r.j, r.b)
<1>1. /\ d \in Places /\ r \in Places /\ e \in Places
      /\ e.at = at /\ e.s = r.s /\ e.j = r.j /\ e.b = r.b
  BY PlacesArePlaces DEF Place, Places, Ats
<1>2. /\ Goes("rpc", e)
      /\ garbled \in BOOLEAN => garbled' \in BOOLEAN
      /\ UNCHANGED <<current_screen_id, counters, used_sysstat_screens, request, glass>>
      /\ MayRun("rpc")
      /\ r.at \in {"wait", "due"} => (What("display") = "clear" => r.at = "due")
  BY <1>1, GoesOn DEF Stands, Tasks, lcd
<1>3. e \in RpcPlaces
  BY DEF RpcPlaces, Place
<1> HIDE DEF e
<1>4. Stands(d, e)'
  BY <1>1, <1>2, Arrives
<1>5. RpcPlace(e)
  BY <1>1 DEF Related, RpcPlace
<1>6. Waiting(d) /\ (r.at = "wait" => d.at # "wait")
  BY <1>2, DisplayIsWaiting DEF MayRun
<1>7. Together(d, e)
  <2>1. r.at = "wait" => /\ ~(current_screen_id = "iu" /\ Over("iu"))
                         /\ ~(current_screen_id = "pbt" /\ Over("pbt"))
                         /\ d.j # "just"
    BY <1>6 DEF Waiting, Related, Counts
  <2> QED
    BY <1>1, <2>1 DEF Related, Together, Booting, Fresh
<1>8. glass' \subseteq Screens /\ garbled' \in BOOLEAN
  BY <1>2 DEF Related, Typed
<1> QED
  BY <1>2, <1>3, <1>4, <1>5, <1>7, <1>8, OnlyPlaces DEF Related

LEMMA RpcEndsByte ==
  ASSUME NEW d \in DisplayPlaces, NEW r \in RpcPlaces, Stands(d, r), Related(d, r),
         TaskStep("rpc"), r.at \in {"clearing", "low"}
  PROVE  IInv'
<1> DEFINE e == Place(IF r.at = "clearing" THEN "wait" ELSE "none", r.s, r.j, r.b)
<1>1. /\ d \in Places /\ r \in Places
      /\ e.at = (IF r.at = "clearing" THEN "wait" ELSE "none")
      /\ e.s = r.s /\ e.j = r.j /\ e.b = r.b
  BY PlacesArePlaces DEF Place
<1>2. /\ Stands(d, e)'
      /\ glass \subseteq Screens => glass' \subseteq Screens
      /\ UNCHANGED <<current_screen_id, counters, used_sysstat_screens, request, garbled>>
  BY <1>1, LowArrives
<1>3. e \in RpcPlaces
  BY DEF RpcPlaces, Place
<1> HIDE DEF e
<1>4. RpcPlace(e)
  BY <1>1 DEF Related, RpcPlace
<1>5. Together(d, e)
  BY <1>1 DEF Related, Together, Booting, Fresh
<1>6. glass' \subseteq Screens /\ garbled' \in BOOLEAN
  BY <1>2 DEF Related, Typed
<1> QED
  BY <1>2, <1>3, <1>4, <1>5, <1>6, OnlyPlaces DEF Related

LEMMA RpcResets ==
  ASSUME NEW d \in DisplayPlaces, NEW r \in RpcPlaces, Stands(d, r), Related(d, r),
         TaskStep("rpc"), r.at = "none", r.j = "no"
  PROVE  IInv'
<1> DEFINE e == Place("none", r.s, "no", "end")
<1>1. d \in Places /\ r \in Places
  BY PlacesArePlaces
<1>2. r.b = "owed"
  <2>1. Busy("rpc")
    BY DEF TaskStep, display_set_screen, paint_function, display_screen_iu_update,
         display_screen_pbt_update, ValuesUpdate, Updates, ResetCount,
         display_screen_sys_stat_update, ResetIndex, PrintRows, display_screen_custom_update,
         display_screen_boot_update, HighNibble, LowNibble, DelayOver, AtStep
  <2>2. r.b # "end"
    BY <1>1, <2>1, CodeBegins DEF Stands, Busy
  <2> QED
    BY <2>2 DEF RpcPlaces
<1>3. /\ Goes("rpc", e)
      /\ current_sysstat_screens_index' = 0 /\ UNCHANGED update_count
      /\ UNCHANGED <<current_screen_id, used_sysstat_screens, request, lcd>>
      /\ MayRun("rpc")
  <2>1. Counter("owed") = "index" /\ After("owed") = "end"
    BY DEF Counter, After
  <2> QED
    BY <1>1, <1>2, <2>1, GoesReset DEF Stands, Tasks
<1>4. e \in Places /\ e.at = "none" /\ e.s = r.s /\ e.j = "no" /\ e.b = "end"
  BY <1>1 DEF Place, Places, Ats, Bases, DisplayBases
<1>5. e \in RpcPlaces
  BY DEF RpcPlaces, Place
<1> HIDE DEF e
<1>6. Stands(d, e)'
  BY <1>1, <1>3, <1>4, Arrives
<1>7. /\ update_count' \in [{"iu", "pbt"} -> 0 .. (SWITCH_SCREEN_INTERVAL + 1)]
      /\ current_sysstat_screens_index' \in 0 .. COUNT_OF_POSSIBLE_SYSSTAT_SCREENS
  BY <1>3, DisplayAssumption DEF Related, Typed
<1>8. Over("iu")' = Over("iu") /\ Over("pbt")' = Over("pbt") /\ ~Past'
  <2>1. ~Past'
    BY <1>3, DisplayAssumption DEF Past
  <2> QED
    BY <1>3, <2>1, Zenon DEF Over
<1>9. Counts(d)'
  BY <1>8, Zenon DEF Related, Counts
<1>10. RpcPlace(e)
  BY <1>2, <1>4 DEF Related, RpcPlace
<1>11. Together(d, e)'
  <2>1. current_screen_id' = current_screen_id
    BY <1>3
  <2> QED
    BY <1>2, <1>4, <1>8, <2>1 DEF Related, Together, Booting, Fresh
<1>12. Typed /\ DisplayPlace(d)
  BY DEF Related
<1> QED
  BY <1>3, <1>5, <1>6, <1>7, <1>9, <1>10, <1>11, <1>12, OnlyCounters

LEMMA RpcUpdates ==
  ASSUME NEW d \in DisplayPlaces, NEW r \in RpcPlaces, Stands(d, r), Related(d, r),
         TaskStep("rpc"), r.at = "none", r.j # "no"
  PROVE  IInv'
<1>1. PICK s : s = current_screen_id
  OBVIOUS
<1>2. PICK none \in BOOLEAN : none <=> NoneLeft
  OBVIOUS
<1> DEFINE e == CASE s \in {"iu", "pbt"} -> Place("high", s, "no", r.b)
                  [] s = "sysstat" -> IF none THEN Place("set", "iu", "no", "owed")
                                              ELSE Place("clear", "sysstat", "no", r.b)
                  [] s = "custom" -> Place("clear", "custom", "no", r.b)
                  [] s = "boot" -> Place("none", r.s, "no", r.b)
<1>3. d \in Places /\ r \in Places /\ r.j = "just" /\ r.b \in {"end", "owed"} /\ r.s \in Screens
  BY PlacesArePlaces DEF RpcPlaces
<1>4. /\ MayRun("rpc")
      /\ s \in Screens
      /\ \A u \in {"iu", "pbt"} : s = u =>
           LET n == update_count[u] + One(r)
               next == IF u = "iu" THEN "pbt" ELSE "sysstat"
           IN /\ update_count' = [update_count EXCEPT ![u] = n]
              /\ n > SWITCH_SCREEN_INTERVAL /\ GoesOnFrom(r.b, next) =>
                   Goes("rpc", Place("set", next, "no", AfterNext(r.b, next)))
              /\ ~(n > SWITCH_SCREEN_INTERVAL) => Goes("rpc", Place("high", u, "no", r.b))
              /\ UNCHANGED current_sysstat_screens_index
      /\ s = "sysstat" =>
           LET n == current_sysstat_screens_index + One(r)
           IN /\ current_sysstat_screens_index' = n
              /\ n >= used_sysstat_screens /\ GoesOnFrom(r.b, "iu") =>
                   Goes("rpc", Place("set", "iu", "no", AfterNext(r.b, "iu")))
              /\ ~(n >= used_sysstat_screens) => Goes("rpc", Place("clear", "sysstat", "no", r.b))
              /\ UNCHANGED update_count
      /\ s = "custom" => Goes("rpc", Place("clear", "custom", "no", r.b)) /\ UNCHANGED counters
      /\ s = "boot" => Goes("rpc", Place("none", r.s, "no", r.b)) /\ UNCHANGED counters
      /\ UNCHANGED <<current_screen_id, used_sysstat_screens, request, lcd>>
  BY <1>1, <1>3, GoesUpdate DEF Stands, Tasks
<1>5. Waiting(d)
  BY <1>4, DisplayIsWaiting DEF MayRun
<1>6. /\ s = "iu" => ~Over("iu")
      /\ s = "pbt" => ~Over("pbt")
      /\ s = "sysstat" /\ none => r.b = "end"
  <2>1. d.at # "set" /\ ~(d.j = "just" /\ d.s = "sysstat")
    BY <1>5 DEF Waiting, DisplayPlaces
  <2>2. ~Fresh(r) /\ r.at # "set"
    BY DEF Fresh
  <2> QED
    BY <1>1, <1>2, <1>3, <2>1, <2>2, Zenon DEF Related, Together, RpcPlaces
<1>7. One(r) = 0
  BY <1>3 DEF One
<1>8. UNCHANGED counters
  <2>1. /\ update_count \in [{"iu", "pbt"} -> 0 .. (SWITCH_SCREEN_INTERVAL + 1)]
        /\ current_sysstat_screens_index \in 0 .. COUNT_OF_POSSIBLE_SYSSTAT_SCREENS
        /\ SWITCH_SCREEN_INTERVAL \in Nat /\ COUNT_OF_POSSIBLE_SYSSTAT_SCREENS \in Nat
    BY DisplayAssumption DEF Related, Typed
  <2>2. CASE s \in {"iu", "pbt"}
    <3>1. update_count' = [update_count EXCEPT ![s] = update_count[s] + 0]
      BY <1>4, <1>7, <2>2
    <3>2. update_count[s] + 0 = update_count[s]
      BY <2>1, <2>2
    <3>3. update_count' = update_count
      BY <2>1, <3>1, <3>2
    <3> QED
      BY <1>4, <2>2, <3>3 DEF counters
  <2>3. CASE s = "sysstat"
    <3>1. current_sysstat_screens_index' = current_sysstat_screens_index + 0
      BY <1>4, <1>7, <2>3
    <3> QED
      BY <1>4, <2>1, <2>3, <3>1 DEF counters
  <2> QED
    BY <1>4, <2>2, <2>3 DEF Screens
<1>9. Goes("rpc", e)
  <2>1. CASE s \in {"iu", "pbt"}
    <3>1. ~(update_count[s] + 0 > SWITCH_SCREEN_INTERVAL)
      BY <1>6, <2>1, DisplayAssumption DEF Over, Related, Typed
    <3>2. Goes("rpc", Place("high", s, "no", r.b))
      BY <1>4, <1>7, <2>1, <3>1
    <3> QED
      BY <2>1, <3>2
  <2>2. CASE s = "sysstat"
    <3>1. none <=> current_sysstat_screens_index + 0 >= used_sysstat_screens
      BY <1>2, DisplayAssumption DEF NoneLeft, Related, Typed
    <3>2. none => /\ GoesOnFrom(r.b, "iu") /\ AfterNext(r.b, "iu") = "owed"
      BY <1>6, <2>2 DEF GoesOnFrom, AfterNext
    <3>3. Goes("rpc", IF none THEN Place("set", "iu", "no", "owed")
                             ELSE Place("clear", "sysstat", "no", r.b))
      BY <1>4, <1>7, <2>2, <3>1, <3>2
    <3> QED
      BY <2>2, <3>3
  <2>3. CASE s = "custom"
    BY <1>4, <2>3
  <2>4. CASE s = "boot"
    BY <1>4, <2>4
  <2> QED
    BY <1>4, <2>1, <2>2, <2>3, <2>4 DEF Screens
<1>10. /\ e.j = "no"
       /\ e.at = (IF s \in {"iu", "pbt"} THEN "high" ELSE IF s = "boot" THEN "none"
                  ELSE IF s = "sysstat" /\ none THEN "set" ELSE "clear")
       /\ e.b = (IF s = "sysstat" /\ none THEN "owed" ELSE r.b)
       /\ s = "sysstat" /\ none => e.s = "iu"
  BY <1>4 DEF Place, Screens
<1>11. e \in RpcPlaces
  BY <1>3, <1>4 DEF RpcPlaces, Place, Screens
<1> HIDE DEF e
<1>12. Stands(d, e)'
  <2>1. e \in Places
    BY <1>11, PlacesArePlaces
  <2> QED
    BY <1>3, <1>9, <2>1, Arrives
<1>13. RpcPlace(e)
  BY <1>1, <1>3, <1>4, <1>10, DisplayAssumption DEF Related, RpcPlace, Screens
<1>14. Together(d, e)
  <2>1. d.j = "just" => d.at = "wait"
    BY <1>5 DEF Waiting
  <2>2. s = "sysstat" => ~Booting(d)
    BY <1>1, DisplayAssumption DEF Related, DisplayPlace, Screens
  <2>3. s = "sysstat" /\ d.b = "iu_iu" => d.j # "just" /\ d.at # "set"
    <3>1. d.j = "just" /\ d.b = "iu_iu" => d.s = "pbt"
      BY DEF DisplayPlaces, Nested
    <3> QED
      BY <1>1, <1>5, <3>1 DEF Waiting, Related, DisplayPlace
  <2> QED
    BY <1>1, <1>2, <1>4, <1>6, <1>10, <2>2, <2>3 DEF Related, Together, Booting, Fresh, Screens
<1>15. glass' \subseteq Screens /\ garbled' \in BOOLEAN
  BY <1>4 DEF lcd, Related, Typed
<1> QED
  BY <1>4, <1>8, <1>11, <1>12, <1>13, <1>14, <1>15, OnlyPlaces DEF Related

LEMMA RpcSets ==
  ASSUME NEW d \in DisplayPlaces, NEW r \in RpcPlaces, Stands(d, r), Related(d, r),
         TaskStep("rpc"), r.at = "set"
  PROVE  IInv'
<1>1. PICK new \in BOOLEAN : new <=> current_screen_id # r.s
  OBVIOUS
<1> DEFINE e == IF new THEN Place("paint", r.s, "just", r.b) ELSE Place("none", r.s, "no", r.b)
<1>2. d \in Places /\ r \in Places /\ r.j = "no" /\ r.b \in {"end", "owed"} /\ r.s \in Screens
  BY PlacesArePlaces DEF RpcPlaces
<1>3. /\ current_screen_id' = r.s
      /\ Goes("rpc", e)
      /\ UNCHANGED <<counters, used_sysstat_screens, request, lcd>>
      /\ MayRun("rpc")
  BY <1>1, <1>2, GoesOn DEF Stands, Tasks
<1>4. Waiting(d)
  BY <1>3, DisplayIsWaiting DEF MayRun
<1>5. /\ e.at = (IF new THEN "paint" ELSE "none") /\ e.s = r.s
      /\ e.j = (IF new THEN "just" ELSE "no") /\ e.b = r.b
  BY DEF Place
<1>6. e \in RpcPlaces
  BY <1>2 DEF RpcPlaces, Place
<1> HIDE DEF e
<1>7. Stands(d, e)'
  <2>1. e \in Places
    BY <1>6, PlacesArePlaces
  <2> QED
    BY <1>2, <1>3, <2>1, Arrives
<1>8. /\ Over("iu")' = Over("iu") /\ Over("pbt")' = Over("pbt") /\ Past' = Past
      /\ NoneLeft' = NoneLeft
  BY <1>3, SameCounters
<1>9. /\ r.s # NoScreen /\ current_screen_id # NoScreen
      /\ r.b = "owed" => r.s = "iu" /\ current_screen_id # "custom"
      /\ r.b = "end" /\ current_screen_id # "custom" => r.s \in {"boot", "custom"}
  BY <1>2, DisplayAssumption DEF Related, RpcPlace
<1>10. /\ d.j = "just" => d.at = "wait" /\ d.s # "sysstat" /\ current_screen_id # "custom"
       /\ d.j = "just" /\ d.b = "iu_iu" => r.b # "owed"
       /\ Booting(d) => r.b = "end" /\ r.s \in {"boot", "custom"}
  BY <1>2, <1>4 DEF Waiting, DisplayPlaces, Related, Together, Fresh
<1>11. Typed'
  BY <1>2, <1>3 DEF Related, Typed, Targets, counters, request, lcd
<1>12. DisplayPlace(d)'
  <2>1. UNCHANGED last_screen_id
    BY <1>3 DEF request
  <2> QED
    BY <1>2, <1>3, <1>4, <1>9, <1>10, <2>1 DEF Related, DisplayPlace, Waiting, Booting
<1>13. Counts(d)'
  BY <1>8, Zenon DEF Related, Counts
<1>14. RpcPlace(e)'
  <2>1. UNCHANGED last_screen_id /\ UNCHANGED asked /\ UNCHANGED again
    BY <1>3 DEF request
  <2> QED
    BY <1>2, <1>3, <1>5, <1>9, <2>1 DEF Related, RpcPlace
<1>15. Together(d, e)'
  BY <1>1, <1>2, <1>3, <1>4, <1>5, <1>8, <1>9, <1>10 DEF Related, Together, Booting, Fresh, Waiting
<1> QED
  BY <1>6, <1>7, <1>11, <1>12, <1>13, <1>14, <1>15 DEF IInv, Related

\* The tuple of RememberAndSet as a place.
LEMMA RememberIs ==
  ASSUME NEW s \in Screens
  PROVE  /\ Code(Place("remember", s, "no", "end")) = RememberAndSet
         /\ Code(Place("set", s, "no", "end")) = <<Set(s)>>
         /\ Place("remember", s, "no", "end") \in RpcPlaces
         /\ Place("set", s, "no", "end") \in RpcPlaces
<1>1. Step("remember", "current") \in AllSteps /\ Set("custom") \in AllSteps /\ Set(s) \in AllSteps
  BY Words DEF Screens
<1>2. Code(Place("remember", s, "no", "end"))
        = Push(Step("remember", "current"), Push(Set("custom"), <<>>))
  BY BaseIs DEF Code, Place, Front, Then
<1>3. Code(Place("set", s, "no", "end")) = Push(Set(s), <<>>)
  BY BaseIs DEF Code, Place, Front, Then
<1>4. <<Set("custom")>> \o <<>> = <<Set("custom")>> /\ <<Set(s)>> \o <<>> = <<Set(s)>>
  BY <1>1, ConcatEmptySeq
<1>5. <<Step("remember", "current"), Set("custom")>>
        = <<Step("remember", "current")>> \o <<Set("custom")>>
  BY <1>1, Pairs
<1>6. /\ Place("remember", s, "no", "end") \in RpcPlaces
      /\ Place("set", s, "no", "end") \in RpcPlaces
  BY DEF RpcPlaces, Place
<1> QED
  BY <1>2, <1>3, <1>4, <1>5, <1>6 DEF Push, RememberAndSet

LEMMA RpcRemembers ==
  ASSUME NEW d \in DisplayPlaces, NEW r \in RpcPlaces, Stands(d, r), Related(d, r), Remember
  PROVE  IInv'
<1> DEFINE e == Place("set", "custom", "no", "end")
<1>1. d \in Places /\ r \in Places /\ "custom" \in Screens
  BY PlacesArePlaces DEF Screens
<1>2. r.at = "remember"
  BY <1>1, CodeBegins DEF Remember, AtStep, Busy, Stands
<1>3. r.j = "no" /\ r.b = "end"
  BY <1>2 DEF RpcPlaces
<1>4. /\ last_screen_id' = current_screen_id
      /\ UNCHANGED <<current_screen_id, counters, used_sysstat_screens, asked, again, lcd>>
      /\ Continue("rpc", <<>>)
  BY DEF Remember, display_get_current_screen
<1>5. Goes("rpc", e)
  <2>1. Rest(r) = <<>>
    BY <1>1, <1>3, RestIsSteps, BaseIs
  <2>2. todo["rpc"] = Push(Step("remember", "current"), Push(Set("custom"), <<>>))
    BY <1>1, <1>2, <2>1, FrontIs DEF Stands
  <2>3. Code(e) = Push(Set("custom"), <<>>)
    BY BaseIs DEF Code, Place, Front, Then
  <2>4. Code(e) \in Seq(AllSteps)
    BY <1>1, RememberIs, CodeIsSteps, PlacesArePlaces
  <2>5. Step("remember", "current") \in AllSteps
    BY Words
  <2>6. todo' = [todo EXCEPT !["rpc"] = <<>> \o Code(e)]
    BY <1>4, <2>2, <2>3, <2>4, <2>5, Continued DEF Stands, Tasks
  <2> QED
    BY <2>4, <2>6, ConcatEmptySeq DEF Goes
<1>6. e.at = "set" /\ e.s = "custom" /\ e.j = "no" /\ e.b = "end"
  BY DEF Place
<1>7. e \in RpcPlaces
  BY <1>1, RememberIs
<1> HIDE DEF e
<1>8. Stands(d, e)'
  <2>1. e \in Places
    BY <1>7, PlacesArePlaces
  <2> QED
    BY <1>1, <1>5, <2>1, Arrives
<1>9. /\ Over("iu")' = Over("iu") /\ Over("pbt")' = Over("pbt") /\ Past' = Past
      /\ NoneLeft' = NoneLeft
  BY <1>4, SameCounters
<1>10. current_screen_id # NoScreen
  BY <1>2 DEF Related, RpcPlace
<1>11. Typed'
  BY <1>4, <1>10 DEF Related, Typed, Targets, counters, lcd
<1>12. DisplayPlace(d)'
  BY <1>4, <1>10 DEF Related, DisplayPlace, Booting
<1>13. Counts(d)'
  BY <1>9, Zenon DEF Related, Counts
<1>14. RpcPlace(e)'
  BY <1>2, <1>4, <1>6, <1>10 DEF Related, RpcPlace
<1>15. Together(d, e)'
  BY <1>2, <1>3, <1>4, <1>6, <1>9 DEF Related, Together, Booting, Fresh
<1> QED
  BY <1>7, <1>8, <1>11, <1>12, <1>13, <1>14, <1>15 DEF IInv, Related

\* The RPC task is between two calls.
LEMMA RpcIsIdle ==
  ASSUME NEW d \in DisplayPlaces, NEW r \in RpcPlaces, Stands(d, r), RpcIdle
  PROVE  /\ r.at = "none" /\ r.j = "no" /\ r.b = "end"
         /\ Waiting(d) /\ current_screen_id # NoScreen
<1>1. d \in Places /\ r \in Places
  BY PlacesArePlaces
<1>2. r.at = "none" /\ r.j = "no" /\ r.b = "end"
  BY <1>1, CodeBegins DEF Stands, RpcIdle, Busy
<1> QED
  BY <1>2, DisplayIsWaiting DEF RpcIdle

LEMMA RpcSetsCustom ==
  ASSUME NEW d \in DisplayPlaces, NEW r \in RpcPlaces, Stands(d, r), Related(d, r),
         display_clear_and_set_custom_screen
  PROVE  IInv'
<1> DEFINE e == Place("remember", r.s, "no", "end")
<1>1. d \in Places /\ r \in Places /\ r.s \in Screens
  BY PlacesArePlaces DEF RpcPlaces
<1>2. /\ r.at = "none" /\ r.j = "no" /\ r.b = "end"
      /\ Waiting(d) /\ current_screen_id # NoScreen
  BY RpcIsIdle DEF display_clear_and_set_custom_screen
<1>3. /\ asked' = "custom" /\ again' = (current_screen_id = "custom")
      /\ UNCHANGED <<current_screen_id, counters, used_sysstat_screens, last_screen_id, lcd>>
      /\ todo' = [todo EXCEPT !["rpc"] = RememberAndSet]
  BY DEF display_clear_and_set_custom_screen
<1>4. e \in RpcPlaces /\ Code(e) = RememberAndSet
  BY <1>1, RememberIs
<1>5. e.at = "remember" /\ e.j = "no" /\ e.b = "end"
  BY DEF Place
<1> HIDE DEF e
<1>6. Stands(d, e)'
  <2>1. e \in Places
    BY <1>4, PlacesArePlaces
  <2> QED
    BY <1>1, <1>3, <1>4, <2>1, Arrives DEF Goes
<1>7. /\ Over("iu")' = Over("iu") /\ Over("pbt")' = Over("pbt") /\ Past' = Past
      /\ NoneLeft' = NoneLeft
  BY <1>3, SameCounters
<1>8. Typed'
  BY <1>3 DEF Related, Typed, counters, lcd
<1>9. DisplayPlace(d)'
  BY <1>3 DEF Related, DisplayPlace, Booting
<1>10. Counts(d)'
  BY <1>7, Zenon DEF Related, Counts
<1>11. RpcPlace(e)'
  BY <1>2, <1>3, <1>5 DEF Related, RpcPlace
<1>12. Together(d, e)'
  BY <1>2, <1>3, <1>5, <1>7 DEF Related, Together, Booting, Fresh
<1> QED
  BY <1>4, <1>6, <1>8, <1>9, <1>10, <1>11, <1>12 DEF IInv, Related

LEMMA RpcReturns ==
  ASSUME NEW d \in DisplayPlaces, NEW r \in RpcPlaces, Stands(d, r), Related(d, r),
         display_return_to_normal_screen
  PROVE  IInv'
<1>1. /\ d \in Places /\ r \in Places /\ last_screen_id \in Screens
      /\ r.at = "none" /\ r.j = "no" /\ r.b = "end"
      /\ Waiting(d) /\ current_screen_id # NoScreen
  BY PlacesArePlaces, RpcIsIdle DEF display_return_to_normal_screen, Related, Typed
<1>2. /\ asked' = "normal"
      /\ UNCHANGED <<current_screen_id, counters, used_sysstat_screens, last_screen_id, again, lcd>>
      /\ todo' = [todo EXCEPT !["rpc"] =
                    IF current_screen_id = "custom" THEN <<Set(last_screen_id)>> ELSE <<>>]
  BY DEF display_return_to_normal_screen, display_get_current_screen
<1>3. /\ Over("iu")' = Over("iu") /\ Over("pbt")' = Over("pbt") /\ Past' = Past
      /\ NoneLeft' = NoneLeft
  BY <1>2, SameCounters
<1>4. Typed'
  BY <1>2 DEF Related, Typed, counters, lcd
<1>5. DisplayPlace(d)'
  BY <1>2 DEF Related, DisplayPlace, Booting
<1>6. Counts(d)'
  BY <1>3, Zenon DEF Related, Counts
<1>7. CASE current_screen_id = "custom"
  <2>1. PICK s \in Screens : s = last_screen_id
    BY <1>1
  <2> DEFINE e == Place("set", s, "no", "end")
  <2>2. e \in RpcPlaces /\ Code(e) = <<Set(s)>>
    BY RememberIs
  <2>3. e.at = "set" /\ e.s = s /\ e.j = "no" /\ e.b = "end"
    BY DEF Place
  <2> HIDE DEF e
  <2>4. Goes("rpc", e)
    BY <1>2, <1>7, <2>1, <2>2 DEF Goes
  <2>5. Stands(d, e)'
    <3>1. e \in Places
      BY <2>2, PlacesArePlaces
    <3> QED
      BY <1>1, <2>4, <3>1, Arrives
  <2>6. s = "custom" => again
    BY <1>1, <2>1 DEF Related, RpcPlace
  <2>7. RpcPlace(e)'
    BY <1>1, <1>2, <1>7, <2>1, <2>3, <2>6 DEF Related, RpcPlace
  <2>8. Together(d, e)'
    <3>1. Booting(d) => s \in {"boot", "custom"}
      BY <2>1 DEF Related, DisplayPlace
    <3> QED
      BY <1>1, <1>2, <1>3, <1>7, <2>3, <3>1 DEF Related, Together, Booting, Fresh
  <2> QED
    BY <2>2, <2>5, <1>4, <1>5, <1>6, <2>7, <2>8 DEF IInv, Related
<1>8. CASE current_screen_id # "custom"
  <2>1. todo["rpc"] = <<>>
    BY DEF display_return_to_normal_screen, RpcIdle, Busy
  <2>2. todo' = todo
    BY <1>2, <1>8, <2>1 DEF Stands, TodoOK, Tasks
  <2>3. Stands(d, r)'
    BY <2>2 DEF Stands, TodoOK
  <2>4. RpcPlace(r)'
    BY <1>1, <1>2, <1>8 DEF Related, RpcPlace
  <2>5. Together(d, r)'
    BY <1>1, <1>2, <1>3 DEF Related, Together, Booting, Fresh
  <2> QED
    BY <2>3, <1>4, <1>5, <1>6, <2>4, <2>5 DEF IInv, Related
<1> QED
  BY <1>7, <1>8

LEMMA RpcSetsSysstat ==
  ASSUME NEW d \in DisplayPlaces, NEW r \in RpcPlaces, Stands(d, r), Related(d, r),
         NEW n \in 0 .. COUNT_OF_POSSIBLE_SYSSTAT_SCREENS, display_set_sysstat_screen(n)
  PROVE  IInv'
<1>1. r.at = "none" /\ r.j = "no" /\ r.b = "end"
  BY RpcIsIdle DEF display_set_sysstat_screen
<1>2. used_sysstat_screens' = n /\ UNCHANGED <<todo, current_screen_id, counters, request, lcd>>
  BY DEF display_set_sysstat_screen
<1>3. /\ UNCHANGED last_screen_id /\ UNCHANGED asked /\ UNCHANGED again
      /\ UNCHANGED update_count /\ UNCHANGED current_sysstat_screens_index
  BY <1>2 DEF request, counters
<1>4. /\ Over("iu")' = Over("iu") /\ Over("pbt")' = Over("pbt") /\ Past' = Past
  BY <1>2, SameCounters
<1>5. Stands(d, r)'
  BY <1>2 DEF Stands, TodoOK
<1>6. Typed'
  BY <1>2, <1>3 DEF Related, Typed, lcd
<1>7. DisplayPlace(d)'
  BY <1>2, <1>3 DEF Related, DisplayPlace, Booting
<1>8. Counts(d)'
  BY <1>4, Zenon DEF Related, Counts
<1>9. RpcPlace(r)'
  BY <1>2, <1>3 DEF Related, RpcPlace
<1>10. Together(d, r)'
  BY <1>1, <1>2, <1>4 DEF Related, Together, Booting, Fresh
<1> QED
  BY <1>5, <1>6, <1>7, <1>8, <1>9, <1>10 DEF IInv, Related

LEMMA RpcKeeps ==
  ASSUME NEW d \in DisplayPlaces, NEW r \in RpcPlaces, Stands(d, r), Related(d, r),
         RpcCall \/ RpcStep
  PROVE  IInv'
<1>1. CASE RpcCall
  BY <1>1, RpcSetsCustom, RpcReturns, RpcSetsSysstat DEF RpcCall
<1>2. CASE Remember
  BY <1>2, RpcRemembers
<1>3. CASE TaskStep("rpc")
  <2>1. /\ r \in Places /\ r.at \in Ats /\ r.at # "remember"
    <3>1. r \in Places /\ r.at \in Ats
      BY PlacesArePlaces DEF Places
    <3> QED
      BY <1>3, <3>1, GoesOn DEF Stands, Tasks
  <2>2. CASE r.at = "set"
    BY <1>3, <2>2, RpcSets
  <2>3. CASE r.at = "paint"
    BY <1>3, <2>3, RpcPaints
  <2>4. CASE r.at \in {"clear", "wait", "due", "text", "high"}
    BY <1>3, <2>4, RpcWrites
  <2>5. CASE r.at \in {"clearing", "low"}
    BY <1>3, <2>5, RpcEndsByte
  <2>6. CASE r.at = "none" /\ r.j = "no"
    BY <1>3, <2>6, RpcResets
  <2>7. CASE r.at = "none" /\ r.j # "no"
    BY <1>3, <2>7, RpcUpdates
  <2> QED
    BY <2>1, <2>2, <2>3, <2>4, <2>5, <2>6, <2>7 DEF Ats
<1> QED
  BY <1>1, <1>2, <1>3 DEF RpcStep

----------------------------------------------------------------------------
(* The invariant holds from the beginning and is kept.                     *)

LEMMA DisplayInitInv == DisplayInit => IInv
<1> SUFFICES ASSUME DisplayInit
             PROVE  IInv
  OBVIOUS
<1> DEFINE d == Place("none", "boot", "no", "start")
           r == Place("none", "boot", "no", "end")
<1>1. d \in DisplayPlaces /\ r \in RpcPlaces /\ d \in Places /\ r \in Places
  <2>1. d \in DisplayPlaces
    BY DEF DisplayPlaces, DisplayBases, Screens, Place
  <2>2. r \in RpcPlaces
    BY DEF RpcPlaces, Screens, Place
  <2> QED
    BY <2>1, <2>2, PlacesArePlaces
<1>2. /\ d.at = "none" /\ d.s = "boot" /\ d.j = "no" /\ d.b = "start"
      /\ r.at = "none" /\ r.s = "boot" /\ r.j = "no" /\ r.b = "end"
  BY DEF Place
<1>3. Code(r) = <<>>
  BY <1>1, <1>2, CodeBegins
<1>4. Code(d) = lcd_init \o <<Set("boot"), Delay("update"), Set("iu")>>
  <2>1. /\ Delay("init") \in AllSteps /\ Set("boot") \in AllSteps /\ Delay("update") \in AllSteps
        /\ Set("iu") \in AllSteps
    BY Words DEF Screens
  <2>2. Code(d) = Push(Delay("init"), Push(Set("boot"), Push(Delay("update"), Push(Set("iu"), <<>>))))
    BY BaseIs DEF Code, Place, Front, Then, BootEnd
  <2>3. <<Set("boot"), Delay("update"), Set("iu")>>
          = Push(Set("boot"), Push(Delay("update"), Push(Set("iu"), <<>>)))
    BY <2>1, TripleIs DEF Push
  <2> QED
    BY <2>2, <2>3 DEF Push, lcd_init
<1> HIDE DEF d, r
<1>5. Stands(d, r)
  <2>1. Code(d) \in Seq(AllSteps) /\ Code(r) \in Seq(AllSteps)
    BY <1>1, CodeIsSteps
  <2>2. todo = [t \in Tasks |-> IF t = "display" THEN Code(d) ELSE Code(r)]
    BY <1>3, <1>4 DEF DisplayInit
  <2> QED
    BY <2>1, <2>2 DEF Stands, TodoOK, Tasks
<1>6. /\ current_screen_id = NoScreen /\ last_screen_id = "boot" /\ asked = "nothing" /\ ~again
      /\ update_count = [s \in {"iu", "pbt"} |-> 0] /\ current_sysstat_screens_index = 0
      /\ used_sysstat_screens = 0 /\ glass = {} /\ garbled = FALSE
      /\ again = FALSE
  BY DEF DisplayInit
<1>7. NoScreen \notin Screens
  BY DisplayAssumption
<1>8. ~Over("iu") /\ ~Over("pbt") /\ ~Past
  BY <1>6, DisplayAssumption DEF Over, Past
<1>9. Typed
  <2>1. 0 \in 0 .. (SWITCH_SCREEN_INTERVAL + 1) /\ 0 \in 0 .. COUNT_OF_POSSIBLE_SYSSTAT_SCREENS
    BY DisplayAssumption
  <2>2. update_count \in [{"iu", "pbt"} -> 0 .. (SWITCH_SCREEN_INTERVAL + 1)]
    BY <1>6, <2>1
  <2> QED
    BY <1>6, <2>1, <2>2 DEF Typed, Targets, Screens
<1>10. DisplayPlace(d)
  BY <1>2, <1>6, <1>7 DEF DisplayPlace, Booting, Screens
<1>11. Counts(d)
  BY <1>2, <1>8 DEF Counts
<1>12. RpcPlace(r)
  BY <1>2, <1>6, <1>7 DEF RpcPlace, Screens
<1>13. Together(d, r)
  BY <1>2, <1>6, <1>8 DEF Together, Booting
<1> QED
  BY <1>1, <1>5, <1>9, <1>10, <1>11, <1>12, <1>13 DEF IInv, Related

LEMMA DisplayStepInv == IInv /\ [DisplayNext]_displayVars => IInv'
<1> SUFFICES ASSUME IInv, [DisplayNext]_displayVars
             PROVE  IInv'
  OBVIOUS
<1>1. PICK d \in DisplayPlaces, r \in RpcPlaces : Stands(d, r) /\ Related(d, r)
  BY DEF IInv
<1>2. CASE DisplayStep
  BY <1>1, <1>2, DisplayKeeps
<1>3. CASE RpcCall \/ RpcStep
  BY <1>1, <1>3, RpcKeeps
<1>4. CASE UNCHANGED displayVars
  <2>1. /\ UNCHANGED <<todo, current_screen_id, counters, used_sysstat_screens, request>>
        /\ UNCHANGED glass /\ UNCHANGED garbled
    BY <1>4 DEF displayVars, lcd
  <2>2. Stands(d, r)'
    BY <1>1, <2>1 DEF Stands, TodoOK
  <2>3. glass' \subseteq Screens /\ garbled' \in BOOLEAN
    BY <1>1, <2>1 DEF Related, Typed
  <2> QED
    BY <1>1, <2>1, <2>2, <2>3, OnlyPlaces
<1> QED
  BY <1>2, <1>3, <1>4 DEF DisplayNext

LEMMA DisplayInvariant == DisplaySpec => []IInv
  BY DisplayInitInv, DisplayStepInv, PTL DEF DisplaySpec

----------------------------------------------------------------------------
(* What follows from it.                                                   *)

\* A place after which the index of the system status is to be reset.
Owing(q) == q \in Seq(AllSteps) /\ \E i \in 1 .. Len(q) : q[i] = Reset("index")

LEMMA OwingIs ==
  /\ \A q \in Seq(AllSteps) : Owing(Push(Reset("index"), q))
  /\ \A q : \A x \in AllSteps : Owing(q) => Owing(Push(x, q))
<1>1. ASSUME NEW q \in Seq(AllSteps), NEW x \in AllSteps
      PROVE  /\ Push(x, q) \in Seq(AllSteps) /\ Len(Push(x, q)) = Len(q) + 1
             /\ Push(x, q)[1] = x
             /\ \A i \in 1 .. Len(q) : Push(x, q)[i + 1] = q[i]
  <2>1. /\ Push(x, q) \in Seq(AllSteps) /\ Push(x, q) # <<>>
        /\ Len(Push(x, q)) = Len(q) + 1
        /\ Head(Push(x, q)) = x /\ Tail(Push(x, q)) = q
    BY Pushed
  <2> DEFINE s == Push(x, q)
  <2> HIDE DEF s
  <2>2. /\ s \in Seq(AllSteps) /\ s # <<>> /\ Len(s) = Len(q) + 1 /\ Len(q) \in Nat
        /\ Head(s) = x /\ Tail(s) = q
    BY <2>1 DEF s
  <2>3. s[1] = x /\ \A i \in 1 .. Len(Tail(s)) : Tail(s)[i] = s[i + 1]
    BY <2>2, HeadTailProperties
  <2> QED
    BY <2>2, <2>3 DEF s
<1>2. ASSUME NEW q \in Seq(AllSteps), NEW x \in AllSteps, Owing(q)
      PROVE  Owing(Push(x, q))
  <2>1. PICK i \in 1 .. Len(q) : q[i] = Reset("index")
    BY <1>2 DEF Owing
  <2>2. Push(x, q)[i + 1] = Reset("index")
    BY <1>1, <2>1
  <2>3. i + 1 \in 1 .. Len(Push(x, q))
    <3>1. Len(q) \in Nat /\ Len(Push(x, q)) = Len(q) + 1
      BY <1>1
    <3> QED
      BY <3>1
  <2> QED
    BY <1>1, <2>2, <2>3 DEF Owing
<1>3. ASSUME NEW q \in Seq(AllSteps)
      PROVE  Owing(Push(Reset("index"), q))
  <2>1. Reset("index") \in AllSteps
    BY Words
  <2>2. /\ Push(Reset("index"), q) \in Seq(AllSteps) /\ 1 \in 1 .. Len(Push(Reset("index"), q))
        /\ Push(Reset("index"), q)[1] = Reset("index")
    BY <1>1, <2>1
  <2> QED
    BY <2>2 DEF Owing
<1> QED
  BY <1>2, <1>3 DEF Owing

LEMMA CodeOwes ==
  ASSUME NEW p \in Places, p.b \in {"index", "index_pbt"}
  PROVE  Owing(Code(p))
<1>1. p.at \in Ats /\ p.s \in Screens /\ p.j \in {"no", "just", "regular"} /\ p.b \in Bases
  BY DEF Places
<1>2. Owing(Base(p.b))
  <2>1. Base("pbt") \in Seq(AllSteps) /\ Loop \in Seq(AllSteps)
    BY BasesAreSteps, BaseIs DEF Steps, Bases, DisplayBases
  <2> QED
    BY <2>1, BaseIs, OwingIs
<1>3. Owing(Rest(p))
  <2>1. Update("just_set") \in AllSteps /\ Update("regular") \in AllSteps
    BY Words
  <2> QED
    BY <1>1, <1>2, <2>1, OwingIs DEF Rest, Then
<1>4. /\ Set(p.s) \in AllSteps /\ lcd_write(p.s) \in AllSteps /\ Step("low", p.s) \in AllSteps
      /\ Text(p.s) \in AllSteps /\ Paint \in AllSteps /\ Delay("clear") \in AllSteps
      /\ Delay("due") \in AllSteps /\ lcd_write("clear") \in AllSteps
      /\ Step("low", "clear") \in AllSteps /\ Step("remember", "current") \in AllSteps
      /\ Set("custom") \in AllSteps
  BY <1>1, Words DEF Screens
<1>5. \A q : \A x \in AllSteps : Owing(q) => Owing(Push(x, q))
  BY OwingIs
<1> QED
  BY <1>1, <1>3, <1>4, <1>5, FrontIs DEF Ats

\* Painting and updating screens that change the screen nest no deeper than
\* DEPTH, for every interval of the rotation and every number of screens
\* (task_display.c:77, 104, 164, 242), and the counters stay in their range.
THEOREM DisplayTypes == DisplaySpec => []DisplayTypeOK
<1>1. ASSUME IInv
      PROVE  DisplayTypeOK
  <2>1. PICK d \in DisplayPlaces, r \in RpcPlaces : Stands(d, r) /\ Related(d, r)
    BY <1>1 DEF IInv
  <2>2. d \in Places /\ r \in Places
    BY PlacesArePlaces
  <2>3. Len(todo["display"]) <= 7 /\ Len(todo["rpc"]) <= 7
    <3>1. d.b # "start" \/ (d.j = "no" /\ d.at = "none")
      BY DEF DisplayPlaces
    <3>2. r.b # "start"
      BY DEF RpcPlaces
    <3> QED
      BY <2>1, <2>2, <3>1, <3>2, CodeIsSteps DEF Stands
  <2>4. \A s \in {"iu", "pbt"} : update_count[s] \in 0 .. (SWITCH_SCREEN_INTERVAL + 1)
    BY <2>1 DEF Related, Typed
  <2> QED
    BY <2>1, <2>3, <2>4 DEF Related, Typed, DisplayTypeOK, Tasks, DEPTH
<1> QED
  BY <1>1, DisplayInvariant, PTL

\* No row is read behind the last of sysstat_screen, except by the RPC task
\* while taskDisplay is about to reset the index, for every number of screens
\* (task_display.c:71-85).
THEOREM SysstatInRange == DisplaySpec => []SysstatIndexInRange
<1>1. ASSUME IInv
      PROVE  SysstatIndexInRange
  <2>1. PICK d \in DisplayPlaces, r \in RpcPlaces : Stands(d, r) /\ Related(d, r)
    BY <1>1 DEF IInv
  <2>2. d \in Places /\ r \in Places
    BY PlacesArePlaces
  <2>3. ~Past => current_sysstat_screens_index < COUNT_OF_POSSIBLE_SYSSTAT_SCREENS
    BY <2>1, DisplayAssumption DEF Related, Typed, Past
  <2>4. Busy("display") /\ Head(todo["display"]).do = "rows" => ~Past
    <3>1. Busy("display") /\ Head(todo["display"]).do = "rows" => d.at = "text" /\ d.s = "sysstat"
      BY <2>1, <2>2, CodeBegins DEF Stands, Busy
    <3> QED
      BY <2>1, <3>1 DEF Related, Counts
  <2>5. ~Leaving => ~Past
    <3>1. ASSUME Past
          PROVE  Leaving
      <4>1. Owing(todo["display"])
        BY <2>1, <2>2, <3>1, CodeOwes DEF Related, Counts, Stands
      <4> QED
        BY <4>1 DEF Owing, Leaving
    <3> QED
      BY <3>1
  <2> QED
    BY <2>3, <2>4, <2>5 DEF SysstatIndexInRange, Tasks
<1> QED
  BY <1>1, DisplayInvariant, PTL

\* After the RPC task returned to the normal screen the custom screen is gone,
\* unless it was set while it was shown (rpc_func_freertos.c:155-170).
THEOREM ReturnLeaves == DisplaySpec => []ReturnLeavesCustom
<1>1. ASSUME IInv
      PROVE  ReturnLeavesCustom
  <2>1. PICK d \in DisplayPlaces, r \in RpcPlaces : Stands(d, r) /\ Related(d, r)
    BY <1>1 DEF IInv
  <2>2. ~Busy("rpc") => r.at = "none"
    BY <2>1, PlacesArePlaces, CodeBegins DEF Stands, Busy
  <2> QED
    BY <2>1, <2>2 DEF Related, RpcPlace, ReturnLeavesCustom
<1> QED
  BY <1>1, DisplayInvariant, PTL

\* Nothing but the RPC task and the end of the boot screen replaces a custom
\* screen, whatever taskDisplay is in the middle of (task_display.c:239-245,
\* 262-265).
THEOREM CustomStays == DisplaySpec => CustomIsKept
<1> DEFINE Kept == (current_screen_id = "custom" /\ current_screen_id' # "custom") =>
                     \/ asked = "normal" /\ Busy("rpc")
                     \/ todo["display"] = <<Set("iu")>>
<1>1. ASSUME IInv, [DisplayNext]_displayVars
      PROVE  Kept
  <2> SUFFICES ASSUME current_screen_id = "custom", current_screen_id' # "custom"
               PROVE  \/ asked = "normal" /\ Busy("rpc")
                      \/ todo["display"] = <<Set("iu")>>
    OBVIOUS
  <2>1. PICK d \in DisplayPlaces, r \in RpcPlaces : Stands(d, r) /\ Related(d, r)
    BY <1>1 DEF IInv
  <2>2. d \in Places /\ r \in Places
    BY PlacesArePlaces
  <2>3. PICK t \in Tasks : display_set_screen(t)
    BY <1>1, Zenon DEF DisplayNext, DisplayStep, RpcCall, RpcStep, TaskStep, paint_function,
         display_screen_iu_update, display_screen_pbt_update, ValuesUpdate, ResetCount,
         display_screen_sys_stat_update, ResetIndex, PrintRows, display_screen_custom_update,
         display_screen_boot_update, HighNibble, LowNibble, DelayOver, UpdateRegularly, Remember,
         display_clear_and_set_custom_screen, display_return_to_normal_screen,
         display_set_sysstat_screen, displayVars, Tasks
  <2>4. /\ Busy(t) /\ Head(todo[t]).do = "set" /\ current_screen_id' = What(t)
    BY <2>3 DEF display_set_screen, AtStep
  <2>5. CASE t = "display"
    <3>1. d.at = "set"
      BY <2>1, <2>2, <2>4, <2>5, CodeBegins DEF Stands, Busy
    <3>2. d.b = "end" /\ d.s = "iu" /\ d.j = "no"
      BY <2>1, <3>1 DEF DisplayPlaces, Related, DisplayPlace, Nested
    <3>3. Code(d) = Push(Set("iu"), Rest(d)) /\ Rest(d) = <<>>
      BY <2>2, <3>1, <3>2, FrontIs, RestIsSteps, BaseIs
    <3>4. <<Set("iu")>> \o <<>> = <<Set("iu")>>
      <4>1. Set("iu") \in AllSteps
        BY Words DEF Screens
      <4> QED
        BY <4>1, ConcatEmptySeq
    <3> QED
      BY <2>1, <3>3, <3>4 DEF Stands, Push
  <2>6. CASE t = "rpc"
    <3>1. r.at = "set"
      BY <2>1, <2>2, <2>4, <2>6, CodeBegins DEF Stands, Busy
    <3>2. What("rpc") = r.s
      <4>1. Code(r) = Push(Set(r.s), Rest(r)) /\ Rest(r) \in Seq(AllSteps) /\ r.s \in Screens
        BY <2>2, <3>1, FrontIs, RestIsSteps DEF Places
      <4>2. Set(r.s) \in AllSteps /\ Set(r.s).what = r.s
        BY <4>1, Words
      <4>3. Head(Code(r)) = Set(r.s)
        BY <4>1, <4>2, Pushed
      <4> QED
        BY <2>1, <4>2, <4>3 DEF Stands, What
    <3>3. r.b = "end" /\ r.s # "custom"
      BY <2>1, <2>4, <2>6, <3>1, <3>2 DEF RpcPlaces, Related, RpcPlace
    <3> QED
      BY <2>1, <2>4, <2>6, <3>1, <3>3 DEF Related, RpcPlace
  <2> QED
    BY <2>5, <2>6 DEF Tasks
<1>2. IInv /\ [DisplayNext]_displayVars => [Kept]_displayVars
  BY <1>1
<1> QED
  BY <1>2, DisplayInvariant, PTL DEF DisplaySpec, CustomIsKept
============================================================================
