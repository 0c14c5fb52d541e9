---------------------------- MODULE PanelProofs ----------------------------
(***************************************************************************)
(* What taskKey and taskLED keep.                                          *)
(*                                                                         *)
(* Keys, for every threshold and every number of keys: the counter of a    *)
(* key stops one behind the threshold, so that it never passes the         *)
(* threshold a second time.                                                *)
(*                                                                         *)
(* LEDs, for every pattern that blinks: the red LED flashes as often as it *)
(* should between two pauses.  The counter of its pattern tells how many   *)
(* flashes there were since the pause, and all the other patterns are off. *)
(***************************************************************************)
EXTENDS Keys, Leds, SequenceTheorems, TLAPS

----------------------------------------------------------------------------
(* Keys.                                                                   *)

T == KEYPRESS_LONG_THRESHOLD

\* What taskKey counts of a press seen in n polls.
CountOf(n) == IF n < T + 1 THEN n ELSE T + 1

NoHandles == [i \in Places |-> NULL]
OneHandle == [i \in Places |-> IF i = 1 THEN key_handler ELSE NULL]

\* The latest event of a press, or of the release after it.
Latest(k) == IF held[k] = 0 THEN "release" ELSE fired[k][Len(fired[k])]

KeysInv ==
  /\ KeysTypeOK
  /\ keyHandleList \in {NoHandles, OneHandle}
  /\ \A k \in Key : keyList[k] = CountOf(held[k])
  /\ \A k \in Key : fired[k] = Reports(held[k])
  /\ \A k \in Key : keystates[k] \in {"none", Latest(k)}
  /\ ~Registered(key_handler) => \A k \in Key : keystates[k] = "none"

----------------------------------------------------------------------------
(* The reports of a press.                                                 *)

\* A report is a sequence of events, and only what was never seen has none.
LEMMA ReportsType ==
  ASSUME NEW n \in 0 .. (T + 2)
  PROVE  /\ Reports(n) \in Seq(Events)
         /\ n # 0 => Reports(n)[Len(Reports(n))] \in Events
<1>1. CASE n = 0
  BY <1>1 DEF Reports, Events
<1>2. CASE n \in 1 .. (T - 1)
  BY <1>2, KeysAssumption DEF Reports, Events, T
<1>3. CASE n >= T
  <2>1. Reports(n) = <<"pressShort", "pressLong">>
    BY <1>3, KeysAssumption DEF Reports, T
  <2> QED BY <2>1 DEF Events
<1> QED BY <1>1, <1>2, <1>3, KeysAssumption DEF T

\* Concatenation of the sequences that occur.
LEMMA Concatenations ==
  ASSUME NEW S, NEW x \in S, NEW y \in S
  PROVE  /\ <<>> \in Seq(S) /\ <<x>> \in Seq(S) /\ <<x, y>> \in Seq(S)
         /\ <<x>> \o <<y>> = <<x, y>>
         /\ <<x>> \o <<>> = <<x>>
         /\ \A s \in Seq(S) : s \o <<>> = s /\ <<>> \o s = s
<1>1. <<>> \in Seq(S) /\ <<x>> \in Seq(S) /\ <<x, y>> \in Seq(S)
  OBVIOUS
<1>2. \A s \in Seq(S) : s \o <<>> = s /\ <<>> \o s = s
  BY ConcatEmptySeq
<1>3. <<x>> \o <<y>> = <<x, y>>
  <2> DEFINE c == <<x>> \o <<y>>
  <2>1. <<y>> \in Seq(S)
    OBVIOUS
  <2>2. Len(<<x>>) = 1 /\ Len(<<y>>) = 1 /\ Len(<<x, y>>) = 2
    OBVIOUS
  <2>3. c \in Seq(S) /\ Len(c) = Len(<<x>>) + Len(<<y>>)
    BY <1>1, <2>1, ConcatProperties
  <2>4. \A i \in 1 .. 2 : c[i] = IF i <= 1 THEN <<x>>[i] ELSE <<y>>[i - 1]
    BY <1>1, <2>1, <2>2, ConcatProperties
  <2> HIDE DEF c
  <2>5. c[1] = x /\ c[2] = y
    BY <2>4
  <2> DEFINE d == <<x, y>>
  <2>6. d \in Seq(S) /\ Len(d) = 2 /\ d[1] = x /\ d[2] = y
    BY <1>1, <2>2
  <2> HIDE DEF d
  <2>7. Len(c) = Len(d) /\ \A i \in 1 .. Len(c) : c[i] = d[i]
    BY <2>2, <2>3, <2>5, <2>6
  <2>8. c = d
    BY <2>3, <2>6, <2>7, SeqEqual
  <2> QED BY <2>8 DEF c, d
<1>4. <<x>> \o <<>> = <<x>>
  BY <1>1, <1>2
<1> QED BY <1>1, <1>2, <1>3, <1>4

\* One more poll of a pressed key completes the reports, and the last of its
\* events, if there are any, is the latest.
LEMMA PressStep ==
  ASSUME NEW n \in 0 .. (T + 2)
  PROVE  /\ Hold(n) \in 0 .. (T + 2) /\ Hold(n) # 0
         /\ Counted(CountOf(n)) = CountOf(Hold(n))
         /\ Reports(Hold(n)) = Reports(n) \o PressEvents(CountOf(n))
         /\ PressEvents(CountOf(n)) # <<>> =>
              Reports(Hold(n))[Len(Reports(Hold(n)))]
                = PressEvents(CountOf(n))[Len(PressEvents(CountOf(n)))]
         /\ PressEvents(CountOf(n)) = <<>> => n # 0 /\ Reports(Hold(n)) = Reports(n)
<1> USE KeysAssumption
<1>0. T \in Nat \ {0}
  BY DEF T
<1>1. Hold(n) \in 0 .. (T + 2) /\ Hold(n) # 0 /\ Counted(CountOf(n)) = CountOf(Hold(n))
  BY <1>0 DEF Hold, Counted, CountOf, T
<1>2. CASE n = 0
  <2>1. CountOf(n) = 0 /\ Hold(n) = 1 /\ Counted(0) = 1
    BY <1>0, <1>2 DEF CountOf, Hold, Counted, T
  <2>2. Reports(n) = <<>>
    BY <1>2 DEF Reports
  <2>3. CASE T = 1
    <3>1. PressEvents(0) = <<"pressShort", "pressLong">>
      <4>1. PressEvents(0) = <<"pressShort">> \o <<"pressLong">>
        BY <2>1, <2>3, Zenon DEF PressEvents, T
      <4> QED BY <4>1, Concatenations
    <3>2. Reports(1) = <<"pressShort", "pressLong">>
      BY <2>3 DEF Reports, T
    <3> QED BY <1>1, <2>1, <2>2, <3>1, <3>2, Concatenations
  <2>4. CASE T # 1
    <3>1. PressEvents(0) = <<"pressShort">>
      <4>1. PressEvents(0) = <<"pressShort">> \o <<>>
        BY <2>1, <2>4, Zenon DEF PressEvents, T
      <4> QED BY <4>1, Concatenations
    <3>2. Reports(1) = <<"pressShort">>
      BY <1>0, <2>4 DEF Reports, T
    <3> QED BY <1>1, <2>1, <2>2, <3>1, <3>2, Concatenations
  <2> QED BY <2>3, <2>4
<1>3. CASE n # 0 /\ n + 1 = T
  <2>1. CountOf(n) = n /\ Hold(n) = n + 1 /\ Counted(n) = T
    BY <1>0, <1>3 DEF CountOf, Hold, Counted, T
  <2>2. PressEvents(n) = <<"pressLong">>
    BY <1>3, <2>1 DEF PressEvents, T
  <2>3. Reports(n) = <<"pressShort">>
    BY <1>0, <1>3 DEF Reports, T
  <2>4. Reports(n + 1) = <<"pressShort", "pressLong">>
    BY <1>0, <1>3 DEF Reports, T
  <2> QED BY <1>1, <2>1, <2>2, <2>3, <2>4
<1>4. CASE n # 0 /\ n + 1 # T
  <2>1. CountOf(n) # 0 /\ Counted(CountOf(n)) # T
    BY <1>0, <1>4 DEF CountOf, Counted, T
  <2>2. PressEvents(CountOf(n)) = <<>>
    BY <2>1 DEF PressEvents, T
  <2>3. Reports(Hold(n)) = Reports(n)
    BY <1>0, <1>4 DEF Reports, Hold, T
  <2>4. Reports(n) \o <<>> = Reports(n)
    BY ReportsType
  <2> QED BY <1>1, <1>4, <2>2, <2>3, <2>4
<1> QED BY <1>2, <1>3, <1>4

----------------------------------------------------------------------------
(* The steps.                                                              *)

LEMMA HandleLists ==
  /\ NoHandles \in [Places -> Handlers \cup {NULL}]
  /\ OneHandle \in [Places -> Handlers \cup {NULL}]
  /\ 1 \in Places
  /\ NULL \notin Handlers
BY KeysAssumption DEF NoHandles, OneHandle, Places, Handlers

LEMMA ResetKeepsKeys == KeysReset => KeysInv'
<1> SUFFICES ASSUME KeysReset PROVE KeysInv'
  OBVIOUS
<1>1. KeysTypeOK'
  BY HandleLists, KeysAssumption DEF KeysReset, KeysTypeOK, Events, NoHandles
<1>2. (keyHandleList \in {NoHandles, OneHandle})'
  BY DEF KeysReset, NoHandles
<1>3. \A k \in Key : keyList'[k] = CountOf(held'[k]) /\ fired'[k] = Reports(held'[k])
  <2>1. CountOf(0) = 0 /\ Reports(0) = <<>>
    BY KeysAssumption DEF CountOf, Reports, T
  <2> QED BY <2>1 DEF KeysReset
<1>4. \A k \in Key : keystates'[k] = "none"
  BY DEF KeysReset
<1> QED BY <1>1, <1>2, <1>3, <1>4 DEF KeysInv

LEMMA InitKeys == KeysInit => KeysInv
<1> SUFFICES ASSUME KeysInit PROVE KeysInv
  OBVIOUS
<1>1. KeysTypeOK
  BY HandleLists, KeysAssumption DEF KeysInit, KeysTypeOK, Events, NoHandles
<1>2. keyHandleList \in {NoHandles, OneHandle}
  BY DEF KeysInit, NoHandles
<1>3. \A k \in Key : keyList[k] = CountOf(held[k]) /\ fired[k] = Reports(held[k])
  <2>1. CountOf(0) = 0 /\ Reports(0) = <<>>
    BY KeysAssumption DEF CountOf, Reports, T
  <2> QED BY <2>1 DEF KeysInit
<1>4. \A k \in Key : keystates[k] = "none"
  BY DEF KeysInit
<1> QED BY <1>1, <1>2, <1>3, <1>4 DEF KeysInv

\* What a poll does to one key.
LEMMA PollOfKey ==
  ASSUME KeysInv, NEW down \in SUBSET Key, Poll(down), NEW k \in Key
  PROVE  /\ held'[k] \in 0 .. (T + 2)
         /\ keyList'[k] = CountOf(held'[k])
         /\ fired'[k] = Reports(held'[k])
         /\ keystates'[k] \in {"none", Latest(k)'}
         /\ keystates'[k] # keystates[k] => Registered(key_handler)
<1> DEFINE n == held[k]
<1>1. /\ n \in 0 .. (T + 2) /\ keyList[k] = CountOf(n) /\ fired[k] = Reports(n)
      /\ keystates[k] \in {"none", Latest(k)}
  BY DEF KeysInv, KeysTypeOK, T
<1>2. /\ keyList'[k] = IF k \in down THEN Counted(keyList[k]) ELSE 0
      /\ keystates'[k] = fireEvent(k, Fires(k, down))
      /\ held'[k] = IF k \in down THEN Hold(n) ELSE 0
      /\ fired'[k] = IF k \in down THEN Reports(n) \o Fires(k, down) ELSE <<>>
  BY <1>1 DEF Poll
<1>3. keystates'[k] # keystates[k] => Registered(key_handler)
  BY <1>2 DEF fireEvent
<1>4. CASE k \in down
  <2>1. Fires(k, down) = PressEvents(CountOf(n))
    BY <1>1, <1>4 DEF Fires
  <2>2. /\ held'[k] = Hold(n) /\ held'[k] # 0 /\ held'[k] \in 0 .. (T + 2)
        /\ keyList'[k] = CountOf(held'[k])
        /\ fired'[k] = Reports(held'[k])
    BY <1>1, <1>2, <1>4, <2>1, PressStep
  <2>3. Latest(k)' = Reports(Hold(n))[Len(Reports(Hold(n)))]
    BY <2>2 DEF Latest
  <2>4. CASE PressEvents(CountOf(n)) # <<>>
    <3>1. \/ keystates'[k] = PressEvents(CountOf(n))[Len(PressEvents(CountOf(n)))]
          \/ keystates'[k] = keystates[k] /\ ~Registered(key_handler)
      BY <1>2, <2>1, <2>4 DEF fireEvent
    <3>2. ~Registered(key_handler) => keystates[k] = "none"
      BY DEF KeysInv
    <3> QED BY <1>1, <1>3, <2>2, <2>3, <2>4, <3>1, <3>2, PressStep
  <2>5. CASE PressEvents(CountOf(n)) = <<>>
    <3>1. keystates'[k] = keystates[k]
      BY <1>2, <2>1, <2>5 DEF fireEvent
    <3>2. n # 0 /\ Reports(Hold(n)) = Reports(n)
      BY <1>1, <2>5, PressStep
    <3>3. Latest(k) = Latest(k)'
      BY <1>1, <2>3, <3>2 DEF Latest
    <3> QED BY <1>1, <1>3, <2>2, <3>1, <3>3
  <2> QED BY <2>4, <2>5
<1>5. CASE k \notin down
  <2>1. Fires(k, down) = ReleaseEvents(CountOf(n))
    BY <1>1, <1>5 DEF Fires
  <2>2. /\ held'[k] = 0 /\ keyList'[k] = CountOf(held'[k])
        /\ fired'[k] = Reports(held'[k])
    BY <1>2, <1>5, KeysAssumption DEF CountOf, Reports, T
  <2>3. Latest(k)' = "release"
    BY <2>2 DEF Latest
  <2>4. CASE n = 0
    <3>1. ReleaseEvents(CountOf(n)) = <<>>
      BY <2>4, KeysAssumption DEF ReleaseEvents, CountOf, T
    <3>2. keystates'[k] = keystates[k] /\ Latest(k) = "release"
      BY <1>2, <2>1, <2>4, <3>1 DEF fireEvent, Latest
    <3> QED BY <1>1, <1>3, <2>2, <2>3, <3>2, KeysAssumption DEF T
  <2>5. CASE n # 0
    <3>1. ReleaseEvents(CountOf(n)) = <<"release">>
      BY <1>1, <2>5, KeysAssumption DEF ReleaseEvents, CountOf, T
    <3>2. <<"release">> # <<>> /\ <<"release">>[Len(<<"release">>)] = "release"
      OBVIOUS
    <3>3. keystates'[k] = "release" \/ (keystates'[k] = keystates[k] /\ ~Registered(key_handler))
      BY <1>2, <2>1, <3>1, <3>2 DEF fireEvent
    <3>4. ~Registered(key_handler) => keystates[k] = "none"
      BY DEF KeysInv
    <3> QED BY <1>3, <2>2, <2>3, <3>3, <3>4, KeysAssumption DEF T
  <2> QED BY <2>4, <2>5
<1> QED BY <1>4, <1>5

LEMMA PollKeepsKeys ==
  ASSUME KeysInv, NEW down \in SUBSET Key, Poll(down)
  PROVE  KeysInv'
<1>1. \A k \in Key :
        /\ held'[k] \in 0 .. (T + 2)
        /\ keyList'[k] = CountOf(held'[k])
        /\ fired'[k] = Reports(held'[k])
        /\ keystates'[k] \in {"none", Latest(k)'}
        /\ keystates'[k] # keystates[k] => Registered(key_handler)
  BY PollOfKey
<1>2. \A k \in Key : keyList'[k] \in 0 .. (T + 1) /\ fired'[k] \in Seq(Events)
  <2>1. \A n \in 0 .. (T + 2) : CountOf(n) \in 0 .. (T + 1)
    BY KeysAssumption DEF CountOf, T
  <2>2. \A k \in Key : keyList'[k] \in 0 .. (T + 1)
    BY <1>1, <2>1
  <2>3. \A k \in Key : fired'[k] \in Seq(Events)
    BY <1>1, ReportsType
  <2> QED BY <2>2, <2>3
<1>3. \A k \in Key : Latest(k)' \in Events /\ "none" \in Events
  BY <1>1, ReportsType DEF Latest, Events
<1>4. \A k \in Key : keystates'[k] \in Events
  BY <1>1, <1>3
<1>5. UNCHANGED <<keyHandleList, clearing>>
  BY DEF Poll
<1>6. KeysTypeOK'
  <2>1. /\ keyList' = [k \in Key |-> keyList'[k]] /\ keystates' = [k \in Key |-> keystates'[k]]
        /\ held' = [k \in Key |-> held'[k]] /\ fired' = [k \in Key |-> fired'[k]]
    BY Zenon DEF Poll
  <2>2. keyHandleList' \in [Places -> Handlers \cup {NULL}] /\ clearing' \in SUBSET Key
    BY <1>5 DEF KeysInv, KeysTypeOK
  <2>3. keyList' \in [Key -> 0 .. (T + 1)] /\ held' \in [Key -> 0 .. (T + 2)]
    BY <1>1, <1>2, <2>1, Zenon
  <2>4. keystates' \in [Key -> Events] /\ fired' \in [Key -> Seq(Events)]
    BY <1>2, <1>4, <2>1, Zenon
  <2> QED BY <2>2, <2>3, <2>4 DEF KeysTypeOK, T
<1>7. Registered(key_handler)' <=> Registered(key_handler)
  BY <1>5 DEF Registered
<1> QED BY <1>1, <1>5, <1>6, <1>7 DEF KeysInv

LEMMA RegisterKeepsKeys ==
  ASSUME KeysInv, init_rpc_key_handler
  PROVE  KeysInv'
<1> DEFINE list == keyUnRegisterHandle(keyHandleList, key_handler)
<1>1. list = NoHandles
  BY HandleLists DEF KeysInv, keyUnRegisterHandle, NoHandles, OneHandle
<1>2. findHandle(NoHandles, NULL) = 1
  <2>1. NoHandles[1] = NULL /\ \A j \in 1 .. (1 - 1) : NoHandles[j] # NULL
    BY HandleLists DEF NoHandles
  <2>2. \A i \in Places :
          (NoHandles[i] = NULL /\ \A j \in 1 .. (i - 1) : NoHandles[j] # NULL) => i = 1
    BY KeysAssumption DEF NoHandles, Places
  <2> QED BY <2>1, <2>2, HandleLists DEF findHandle
<1>3. keyHandleList' = OneHandle
  <2>1. keyHandleList' = [i \in Places |-> IF i = findHandle(list, NULL) THEN key_handler ELSE list[i]]
    BY DEF init_rpc_key_handler, keyRegisterHandle
  <2> QED BY <1>1, <1>2, <2>1 DEF NoHandles, OneHandle
<1>4. UNCHANGED <<keyList, keystates, clearing, held, fired>>
  BY DEF init_rpc_key_handler, presses
<1>5. Registered(key_handler)'
  BY <1>3, HandleLists DEF Registered, OneHandle
<1>6. KeysTypeOK'
  BY <1>3, <1>4, HandleLists DEF KeysInv, KeysTypeOK
<1> QED BY <1>3, <1>4, <1>5, <1>6 DEF KeysInv, Latest

LEMMA CallKeepsKeys ==
  ASSUME KeysInv, NEW k \in Key, NEW reset \in BOOLEAN, get_last_key_state(k, reset)
  PROVE  KeysInv'
<1>1. UNCHANGED <<keyList, keyHandleList, keystates, held, fired>> /\ clearing' \in SUBSET Key
  BY DEF get_last_key_state, presses
<1> QED BY <1>1 DEF KeysInv, KeysTypeOK, Registered, Latest

LEMMA ClearKeepsKeys ==
  ASSUME KeysInv, NEW k \in Key, ClearState(k)
  PROVE  KeysInv'
<1>1. /\ UNCHANGED <<keyList, keyHandleList, held, fired>>
      /\ clearing' \in SUBSET Key
      /\ keystates' = [keystates EXCEPT ![k] = "none"]
  BY DEF ClearState, presses, KeysInv, KeysTypeOK
<1>2. \A j \in Key : keystates'[j] \in {"none", keystates[j]}
  BY <1>1 DEF KeysInv, KeysTypeOK
<1>3. KeysTypeOK'
  BY <1>1 DEF KeysInv, KeysTypeOK, Events
<1> QED BY <1>1, <1>2, <1>3 DEF KeysInv, Registered, Latest

LEMMA StutterKeepsKeys == KeysInv /\ UNCHANGED keyVars => KeysInv'
BY DEF KeysInv, KeysTypeOK, keyVars, presses, Registered, Latest

\* The invariant states the property.
LEMMA KeysInvImplies == KeysInv => PressIsReportedOnce
BY DEF KeysInv, PressIsReportedOnce, Latest

----------------------------------------------------------------------------
(* LEDs.                                                                   *)

Counters == 0 .. (COUNTER_RANGE - 1)

Fields ==
  {"active", "ledID", "on", "off", "pause", "repeat", "actionCounter", "nextActionTime"}

\* A pattern that only ever switches off the LED l, or none.
IsOff(p, l) ==
  /\ DOMAIN p = Fields
  /\ p.active = FALSE /\ p.ledID \in {l, lid_none}
  /\ p.off = 0 /\ p.repeat = 0 /\ p.nextActionTime = 0 /\ p.actionCounter \in Counters

\* The pattern of the red LED, when its counter is n.
IsBlink(p, n) ==
  /\ DOMAIN p = Fields
  /\ p.ledID = lid_red /\ p.on = TIME_ON /\ p.off = TIME_OFF /\ p.pause = TIME_PAUSE
  /\ p.repeat = REPEAT /\ p.actionCounter = n /\ p.nextActionTime \in Nat

\* The flashes that have begun when the counter has come to n.
FlashesAt(n) == IF n % 2 = 1 THEN (n + 1) \div 2 ELSE n \div 2

\* The red LED blinks: its counter is n.
Blinks(n) ==
  /\ IF pausing THEN n = 0 /\ flashes = REPEAT /\ lid_red \notin lit
                ELSE flashes = FlashesAt(n)

LedsInv ==
  /\ ledPatterns = [prio \in Priorities |-> [l \in Leds |-> ledPatterns[prio][l]]]
  /\ \A prio \in Priorities, l \in Leds :
       (prio # lpp_priority_1 \/ l # lid_red) => IsOff(ledPatterns[prio][l], l)
  /\ \/ IsOff(ledPatterns[lpp_priority_1][lid_red], lid_red) /\ flashes = 0 /\ pausing = FALSE
     \/ \E n \in 0 .. (2 * REPEAT - 1) :
          IsBlink(ledPatterns[lpp_priority_1][lid_red], n) /\ Blinks(n)
  /\ lit \subseteq Wired /\ pausing \in BOOLEAN

----------------------------------------------------------------------------
(* Arithmetic of the counter.                                              *)

\* An even number and its half.
LEMMA Halves ==
  ASSUME NEW n \in Nat
  PROVE  /\ FlashesAt(n) \in Nat
         /\ (n + 1) % 2 = 1 => FlashesAt(n + 1) = FlashesAt(n) + 1
         /\ (n + 1) % 2 # 1 => FlashesAt(n + 1) = FlashesAt(n)
         /\ FlashesAt(2 * n) = n
         /\ FlashesAt(0) = 0
BY DEF FlashesAt

LEMMA FlashesBounded ==
  ASSUME NEW n \in Nat, NEW r \in Nat, n < 2 * r
  PROVE  FlashesAt(n) <= r
BY DEF FlashesAt

LEMMA CounterStep ==
  ASSUME NEW n \in Counters
  PROVE  /\ Next16(n) \in Counters
         /\ n + 1 < COUNTER_RANGE => Next16(n) = n + 1
<1>1. COUNTER_RANGE \in Nat \ {0} /\ n \in Nat
  BY LedsAssumption DEF Counters
<1>2. n + 1 < COUNTER_RANGE => Next16(n) = n + 1
  BY <1>1 DEF Next16
<1>3. n + 1 = COUNTER_RANGE => Next16(n) = 0
  BY <1>1 DEF Next16
<1> QED BY <1>1, <1>2, <1>3 DEF Counters

----------------------------------------------------------------------------
(* The pattern of one LED.                                                 *)

LEMMA OffStaysOff ==
  ASSUME NEW l \in Leds, NEW p, IsOff(p, l)
  PROVE  /\ IsOff(ledTick(p), l)
         /\ ~p.active
         /\ p.ledID \in {l, lid_none}
         /\ ~Acts(p, "on") /\ ~Acts(p, "pause")
<1> DEFINE n == p.actionCounter
<1>1. n \in Counters /\ p.off = 0 /\ p.repeat = 0 /\ p.nextActionTime = 0
  BY DEF IsOff
<1>2. Due(p) /\ Elapsed(p) = 0
  BY <1>1 DEF Due, Elapsed
<1>3. \A m : Action(p, m) = "off"
  BY <1>1 DEF Action
<1>4. Acts(p, "off") /\ ~Acts(p, "on") /\ ~Acts(p, "pause")
  BY <1>2, <1>3 DEF Acts
<1> DEFINE m == IF IsLastAction(p, Next16(n)) THEN 0 ELSE Next16(n)
<1>5. m \in Counters
  <2>1. 0 \in Counters
    BY LedsAssumption DEF Counters
  <2>2. Next16(n) \in Counters
    BY <1>1, CounterStep
  <2> QED BY <2>1, <2>2
<1>6. ledTick(p) = [p EXCEPT !.actionCounter = m, !.nextActionTime = 0]
  BY <1>1, <1>2, <1>4, Zenon DEF ledTick
<1> DEFINE q == ledTick(p)
<1> HIDE DEF q, m
<1>7. DOMAIN q = Fields
  BY <1>6 DEF IsOff, q
<1>8. /\ q.active = p.active /\ q.ledID = p.ledID /\ q.off = p.off /\ q.repeat = p.repeat
      /\ q.actionCounter = m /\ q.nextActionTime = 0
  BY <1>6 DEF IsOff, Fields, q
<1>9. IsOff(q, l)
  BY <1>5, <1>7, <1>8 DEF IsOff
<1> QED BY <1>4, <1>9 DEF IsOff, q

\* A step of the pattern changes two of its fields.
LEMMA BlinkExcept ==
  ASSUME NEW p, NEW n, IsBlink(p, n), NEW m, NEW u \in Nat
  PROVE  IsBlink([p EXCEPT !.actionCounter = m, !.nextActionTime = u], m)
<1> DEFINE q == [p EXCEPT !.actionCounter = m, !.nextActionTime = u]
<1>1. DOMAIN q = Fields
  BY DEF IsBlink
<1>2. /\ q.ledID = p.ledID /\ q.on = p.on /\ q.off = p.off /\ q.pause = p.pause
      /\ q.repeat = p.repeat
  BY DEF IsBlink, Fields
<1>3. q.actionCounter = m /\ q.nextActionTime = u
  BY DEF IsBlink, Fields
<1> HIDE DEF q
<1> QED BY <1>1, <1>2, <1>3 DEF IsBlink, q

LEMMA BlinkWaits ==
  ASSUME NEW p, NEW n, IsBlink(p, n), NEW u \in Nat
  PROVE  IsBlink([p EXCEPT !.nextActionTime = u], n)
<1> DEFINE q == [p EXCEPT !.nextActionTime = u]
<1>1. DOMAIN q = Fields
  BY DEF IsBlink
<1>2. /\ q.ledID = p.ledID /\ q.on = p.on /\ q.off = p.off /\ q.pause = p.pause
      /\ q.repeat = p.repeat /\ q.actionCounter = p.actionCounter
  BY DEF IsBlink, Fields
<1>3. q.nextActionTime = u
  BY DEF IsBlink, Fields
<1> HIDE DEF q
<1> QED BY <1>1, <1>2, <1>3 DEF IsBlink, q

\* The red pattern: not due, or it pauses, or its counter goes on.
LEMMA BlinkStep ==
  ASSUME NEW n \in 0 .. (2 * REPEAT - 1), NEW p, IsBlink(p, n)
  PROVE  \/ /\ IsBlink(ledTick(p), n)
            /\ \A a : ~Acts(p, a)
         \/ /\ n + 1 = 2 * REPEAT
            /\ IsBlink(ledTick(p), 0)
            /\ \A a : Acts(p, a) <=> a = "pause"
         \/ /\ n + 1 < 2 * REPEAT /\ (n + 1) % 2 = 1
            /\ IsBlink(ledTick(p), n + 1)
            /\ \A a : Acts(p, a) <=> a = "on"
         \/ /\ n + 1 < 2 * REPEAT /\ (n + 1) % 2 # 1
            /\ IsBlink(ledTick(p), n + 1)
            /\ \A a : Acts(p, a) <=> a = "off"
<1> USE LedsAssumption
<1>1. Elapsed(p) \in Nat
  BY DEF Elapsed, IsBlink
<1>2. p.actionCounter = n /\ p.repeat = REPEAT /\ p.on = TIME_ON /\ REPEAT # 0 /\ TIME_ON # 0
      /\ p.off = TIME_OFF /\ p.pause = TIME_PAUSE
  BY DEF IsBlink
<1>3. n \in Counters /\ n + 1 < COUNTER_RANGE
  BY DEF Counters
<1>4. Next16(p.actionCounter) = n + 1
  BY <1>2, <1>3, CounterStep
<1>5. \A m : IsLastAction(p, m) <=> m = 2 * REPEAT
  BY <1>2 DEF IsLastAction
<1>6. \A m, u \in Nat : IsBlink([p EXCEPT !.actionCounter = m, !.nextActionTime = u], m)
  BY BlinkExcept
<1>11. n + 1 \in Nat /\ 0 \in Nat /\ TIME_ON \in Nat /\ TIME_OFF \in Nat /\ TIME_PAUSE \in Nat
  OBVIOUS
<1>7. CASE ~Due(p)
  <2>1. ledTick(p) = [p EXCEPT !.nextActionTime = Elapsed(p)]
    BY <1>7 DEF ledTick
  <2> QED BY <1>1, <1>7, <2>1, BlinkWaits DEF Acts
<1>8. CASE Due(p) /\ n + 1 = 2 * REPEAT
  <2>1. Action(p, n + 1) = "pause"
    BY <1>2, <1>5, <1>8 DEF Action
  <2>2. \A a : Acts(p, a) <=> a = "pause"
    BY <1>4, <1>8, <2>1 DEF Acts
  <2>3. ledTick(p) = [p EXCEPT !.actionCounter = 0, !.nextActionTime = TIME_PAUSE]
    BY <1>2, <1>4, <1>5, <1>8, <2>2 DEF ledTick
  <2>4. IsBlink(ledTick(p), 0)
    BY <1>6, <1>11, <2>3
  <2> QED BY <1>8, <2>2, <2>4
<1>9. CASE Due(p) /\ n + 1 # 2 * REPEAT /\ (n + 1) % 2 = 1
  <2>1. Action(p, n + 1) = "on"
    BY <1>2, <1>5, <1>9 DEF Action
  <2>2. \A a : Acts(p, a) <=> a = "on"
    BY <1>4, <1>9, <2>1 DEF Acts
  <2>3. ledTick(p) = [p EXCEPT !.actionCounter = n + 1, !.nextActionTime = TIME_ON]
    BY <1>2, <1>4, <1>5, <1>9, <2>2 DEF ledTick
  <2>4. IsBlink(ledTick(p), n + 1)
    BY <1>6, <1>11, <2>3
  <2> QED BY <1>9, <2>2, <2>4
<1>10. CASE Due(p) /\ n + 1 # 2 * REPEAT /\ (n + 1) % 2 # 1
  <2>1. Action(p, n + 1) = "off"
    BY <1>2, <1>5, <1>10 DEF Action
  <2>2. \A a : Acts(p, a) <=> a = "off"
    BY <1>4, <1>10, <2>1 DEF Acts
  <2>3. ledTick(p) = [p EXCEPT !.actionCounter = n + 1, !.nextActionTime = TIME_OFF]
    BY <1>2, <1>4, <1>5, <1>10, <2>2 DEF ledTick
  <2>4. IsBlink(ledTick(p), n + 1)
    BY <1>6, <1>11, <2>3
  <2> QED BY <1>10, <2>2, <2>4
<1> QED BY <1>7, <1>8, <1>9, <1>10

----------------------------------------------------------------------------
(* The steps.                                                              *)

LEMMA Numbers ==
  /\ Priorities = {1, 2} /\ Leds = {1, 2, 3} /\ Wired = {1, 3}
  /\ lpp_priority_1 = 2 /\ lpp_priority_0_max = 1 /\ lid_red = 1 /\ lid_none = 0
BY DEF Priorities, lpp_priority_0_max, lpp_priority_1, Leds, lid_none, lid_red, lid_yellow, Wired

LEMMA InactiveIsOff ==
  ASSUME NEW l \in Leds, NEW id \in {l, lid_none}
  PROVE  IsOff(Inactive(id), l)
<1>1. 0 \in Counters
  BY LedsAssumption DEF Counters
<1> QED BY <1>1 DEF Inactive, IsOff, Fields

LEMMA InitLeds == LedsInit => LedsInv
<1> SUFFICES ASSUME LedsInit PROVE LedsInv
  OBVIOUS
<1>1. \A prio \in Priorities, l \in Leds : ledPatterns[prio][l] = Inactive(lid_none)
  BY DEF LedsInit
<1>2. ledPatterns = [prio \in Priorities |-> [l \in Leds |-> ledPatterns[prio][l]]]
  BY DEF LedsInit
<1>3. \A prio \in Priorities, l \in Leds : IsOff(ledPatterns[prio][l], l)
  BY <1>1, InactiveIsOff
<1>4. IsOff(ledPatterns[lpp_priority_1][lid_red], lid_red)
  BY <1>3, Numbers
<1> QED BY <1>2, <1>3, <1>4 DEF LedsInv, LedsInit

LEMMA ResetKeepsLeds == LedsReset => LedsInv'
<1> SUFFICES ASSUME LedsReset PROVE LedsInv'
  OBVIOUS
<1>1. \A prio \in Priorities, l \in Leds : ledPatterns'[prio][l] = Inactive(lid_none)
  BY DEF LedsReset
<1>2. ledPatterns' = [prio \in Priorities |-> [l \in Leds |-> ledPatterns'[prio][l]]]
  BY DEF LedsReset
<1>3. \A prio \in Priorities, l \in Leds : IsOff(ledPatterns'[prio][l], l)
  BY <1>1, InactiveIsOff
<1>4. IsOff(ledPatterns'[lpp_priority_1][lid_red], lid_red)
  BY <1>3, Numbers
<1> QED BY <1>2, <1>3, <1>4 DEF LedsInv, LedsReset

\* taskLED sets the one pattern; nothing was played before.
LEMMA StartKeepsLeds ==
  ASSUME LedsInv, taskLED, flashes = 0, pausing = FALSE
  PROVE  LedsInv'
<1> DEFINE blink == ledPatternSetToBlink(Deactivated[lpp_priority_1][lid_red],
                      lid_red, TIME_ON, TIME_OFF, TIME_PAUSE, REPEAT)
<1>1. \A prio \in Priorities, l \in Leds :
        Deactivated[prio][l] = Inactive(IF l \in Priorities THEN l ELSE lid_none)
  BY DEF Deactivated
<1>2. ledPatterns' = [Deactivated EXCEPT ![lpp_priority_1][lid_red] = blink]
  BY Zenon DEF taskLED
<1> HIDE DEF blink
<1>3. \A prio \in Priorities, l \in Leds :
        ledPatterns'[prio][l] = IF prio = lpp_priority_1 /\ l = lid_red THEN blink
                                ELSE Deactivated[prio][l]
  BY <1>2, Numbers DEF Deactivated
<1>4. ledPatterns' = [prio \in Priorities |-> [l \in Leds |-> ledPatterns'[prio][l]]]
  BY <1>2, Numbers DEF Deactivated
<1>5. \A prio \in Priorities, l \in Leds :
        (prio # lpp_priority_1 \/ l # lid_red) => IsOff(ledPatterns'[prio][l], l)
  BY <1>1, <1>3, InactiveIsOff
<1>6. IsBlink(ledPatterns'[lpp_priority_1][lid_red], 0)
  <2>1. ledPatterns'[lpp_priority_1][lid_red] = blink
    BY <1>3, Numbers
  <2>2. Deactivated[lpp_priority_1][lid_red] = Inactive(1)
    BY <1>1, Numbers
  <2>3. blink.nextActionTime = 0
    BY <2>2 DEF blink, ledPatternSetToBlink, Inactive
  <2>4. IsBlink(blink, 0)
    BY <2>3 DEF blink, ledPatternSetToBlink, IsBlink, Fields
  <2> QED BY <2>1, <2>4
<1>7. 0 \in 0 .. (2 * REPEAT - 1) /\ FlashesAt(0) = 0
  BY LedsAssumption, Halves
<1>8. lit' \subseteq Wired /\ flashes' = 0 /\ pausing' = FALSE
  BY DEF taskLED, LedsInv
<1>9. Blinks(0)'
  BY <1>7, <1>8 DEF Blinks
<1> QED BY <1>4, <1>5, <1>6, <1>7, <1>8, <1>9 DEF LedsInv

\* Only patterns of the lower priority are ever played.
LEMMA PlayedPriority ==
  ASSUME LedsInv, NEW l \in Leds
  PROVE  getMaxPatternPriority(l) = lpp_priority_1
<1>1. \A prio \in Priorities : ledPatterns[prio][l].active => prio = lpp_priority_1
  BY OffStaysOff, Numbers DEF LedsInv
<1>2. lpp_priority_1 \in Priorities /\ lpp_priority_1 <= lpp_priority_1
  BY Numbers
<1> QED BY <1>1, <1>2 DEF getMaxPatternPriority

LEMMA LoopKeepsLeds ==
  ASSUME LedsInv, taskLEDPatternLoop
  PROVE  LedsInv'
<1> DEFINE Old(l) == ledPatterns[lpp_priority_1][l]
           red == ledPatterns[lpp_priority_1][lid_red]
<1>1. \A l \in Leds : getMaxPatternPriority(l) = lpp_priority_1
  BY PlayedPriority
<1>2. \A l \in Leds : Played(l) = Old(l)
  BY <1>1 DEF Played
<1>3. ledPatterns' = [prio \in Priorities |-> [l \in Leds |-> ledPatterns'[prio][l]]]
  BY DEF taskLEDPatternLoop
<1>4. \A prio \in Priorities, l \in Leds :
        ledPatterns'[prio][l] = IF prio = lpp_priority_1 THEN ledTick(ledPatterns[prio][l])
                                ELSE ledPatterns[prio][l]
  BY <1>1 DEF taskLEDPatternLoop
<1>5. \A prio \in Priorities, l \in Leds :
        (prio # lpp_priority_1 \/ l # lid_red) => IsOff(ledPatterns'[prio][l], l)
  BY <1>4, OffStaysOff DEF LedsInv
<1>6. \A l \in Leds \ {lid_red} : ~Acts(Old(l), "on") /\ ~Acts(Old(l), "pause")
  BY OffStaysOff, Numbers DEF LedsInv
<1>7. /\ \A a : Switched(a) \subseteq Wired
      /\ ~Acts(red, "on") => Switched("on") = {}
      /\ \A a : Acts(red, a) /\ red.ledID = lid_red => lid_red \in Switched(a)
  BY <1>2, <1>6, Numbers DEF Switched
<1>8. lit' = (lit \ (Switched("off") \cup Switched("pause"))) \cup Switched("on")
  BY DEF taskLEDPatternLoop
<1>9. \A a : RedDoes(a) <=> Acts(red, a)
  BY <1>2, Numbers DEF RedDoes
<1>10. lit' \subseteq Wired
  BY <1>7, <1>8 DEF LedsInv
<1>11. pausing' \in BOOLEAN
  BY Zenon DEF taskLEDPatternLoop, LedsInv
<1>12. ledPatterns'[lpp_priority_1][lid_red] = ledTick(red)
  BY <1>4, Numbers
<1>13. CASE IsOff(red, lid_red) /\ flashes = 0 /\ pausing = FALSE
  <2>1. IsOff(ledTick(red), lid_red) /\ ~Acts(red, "on") /\ ~Acts(red, "pause")
    BY <1>13, OffStaysOff, Numbers
  <2>2. flashes' = 0 /\ pausing' = FALSE
    BY <1>9, <1>13, <2>1, Zenon DEF taskLEDPatternLoop
  <2> QED BY <1>3, <1>5, <1>10, <1>12, <2>1, <2>2 DEF LedsInv
<1>14. CASE \E n \in 0 .. (2 * REPEAT - 1) : IsBlink(red, n) /\ Blinks(n)
  <2> PICK n \in 0 .. (2 * REPEAT - 1) : IsBlink(red, n) /\ Blinks(n)
    BY <1>14
  <2>1. red.ledID = lid_red
    BY DEF IsBlink
  <2> SUFFICES \E m \in 0 .. (2 * REPEAT - 1) : IsBlink(ledTick(red), m) /\ Blinks(m)'
    BY <1>3, <1>5, <1>10, <1>11, <1>12 DEF LedsInv
  <2>2. CASE IsBlink(ledTick(red), n) /\ \A a : ~Acts(red, a)
    <3>1. flashes' = flashes /\ pausing' = pausing
      BY <1>9, <2>2, Zenon DEF taskLEDPatternLoop, LedsInv
    <3>2. lid_red \notin lit => lid_red \notin lit'
      BY <1>7, <1>8, <2>2
    <3> QED BY <2>2, <3>1, <3>2 DEF Blinks
  <2>3. CASE /\ n + 1 = 2 * REPEAT
             /\ IsBlink(ledTick(red), 0)
             /\ \A a : Acts(red, a) <=> a = "pause"
    <3>1. Acts(red, "pause") /\ ~Acts(red, "on")
      BY <2>3
    <3>2. flashes' = flashes /\ pausing' = TRUE
      BY <1>9, <3>1, Zenon DEF taskLEDPatternLoop
    <3>3. lid_red \notin lit'
      BY <1>7, <1>8, <2>1, <3>1
    <3>4. flashes = REPEAT
      <4>1. n # 0
        BY <2>3, LedsAssumption
      <4>2. flashes = FlashesAt(n)
        BY <4>1 DEF Blinks
      <4>3. (n + 1) % 2 # 1 /\ n \in Nat
        BY <2>3, LedsAssumption
      <4>4. FlashesAt(n) = FlashesAt(n + 1)
        BY <4>3, Halves
      <4> QED BY <2>3, <4>2, <4>4, Halves, LedsAssumption
    <3>5. 0 \in 0 .. (2 * REPEAT - 1)
      BY LedsAssumption
    <3> QED BY <2>3, <3>2, <3>3, <3>4, <3>5 DEF Blinks
  <2>4. CASE /\ n + 1 < 2 * REPEAT /\ (n + 1) % 2 = 1
             /\ IsBlink(ledTick(red), n + 1)
             /\ \A a : Acts(red, a) <=> a = "on"
    <3>1. Acts(red, "on")
      BY <2>4
    <3>2. flashes' = (IF pausing THEN 1 ELSE flashes + 1) /\ pausing' = FALSE
      BY <1>9, <3>1, Zenon DEF taskLEDPatternLoop
    <3>3. n \in Nat /\ n + 1 \in 0 .. (2 * REPEAT - 1)
      BY <2>4, LedsAssumption
    <3>4. FlashesAt(n + 1) = FlashesAt(n) + 1 /\ FlashesAt(0) = 0
      BY <2>4, <3>3, Halves
    <3>5. flashes' = FlashesAt(n + 1)
      BY <3>2, <3>4 DEF Blinks
    <3> QED BY <2>4, <3>2, <3>3, <3>5 DEF Blinks
  <2>5. CASE /\ n + 1 < 2 * REPEAT /\ (n + 1) % 2 # 1
             /\ IsBlink(ledTick(red), n + 1)
             /\ \A a : Acts(red, a) <=> a = "off"
    <3>1. ~Acts(red, "on") /\ ~Acts(red, "pause")
      BY <2>5
    <3>2. flashes' = flashes /\ pausing' = pausing
      BY <1>9, <3>1, Zenon DEF taskLEDPatternLoop, LedsInv
    <3>3. n \in Nat /\ n + 1 \in 0 .. (2 * REPEAT - 1) /\ n # 0
      BY <2>5, LedsAssumption
    <3>4. FlashesAt(n + 1) = FlashesAt(n)
      BY <2>5, <3>3, Halves
    <3> QED BY <2>5, <3>2, <3>3, <3>4 DEF Blinks
  <2> QED BY <2>2, <2>3, <2>4, <2>5, BlinkStep
<1> QED BY <1>13, <1>14 DEF LedsInv

LEMMA StutterKeepsLeds == LedsInv /\ UNCHANGED ledVars => LedsInv'
BY DEF LedsInv, ledVars, Blinks

\* The invariant implies the property and the types.
LEMMA LedsInvImplies == LedsInv => FlashesBetweenPauses /\ LedsTypeOK
<1> SUFFICES ASSUME LedsInv PROVE FlashesBetweenPauses /\ LedsTypeOK
  OBVIOUS
<1>1. \A n \in 0 .. (2 * REPEAT - 1) :
        /\ n \in Nat /\ n \in Counters
        /\ FlashesAt(n) \in Nat /\ FlashesAt(n) <= REPEAT
  <2> TAKE n \in 0 .. (2 * REPEAT - 1)
  <2>1. n \in Nat /\ n \in Counters /\ n < 2 * REPEAT
    BY LedsAssumption DEF Counters
  <2> QED BY <2>1, FlashesBounded, Halves, LedsAssumption
<1>2. FlashesBetweenPauses /\ flashes \in Nat
  BY <1>1, LedsAssumption DEF LedsInv, Blinks, FlashesBetweenPauses
<1>3. ASSUME NEW prio \in Priorities, NEW l \in Leds
      PROVE  /\ ledPatterns[prio][l].ledID \in Leds \cup {lid_none}
             /\ ledPatterns[prio][l].actionCounter \in Counters
             /\ ledPatterns[prio][l].nextActionTime \in Nat
  <2>1. CASE IsOff(ledPatterns[prio][l], l)
    BY <2>1 DEF IsOff
  <2>2. CASE \E n \in 0 .. (2 * REPEAT - 1) : IsBlink(ledPatterns[prio][l], n)
    BY <1>1, <2>2, Numbers DEF IsBlink
  <2> QED BY <2>1, <2>2 DEF LedsInv
<1> QED BY <1>2, <1>3 DEF LedsTypeOK, LedsInv, Counters

============================================================================
