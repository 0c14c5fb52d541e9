-------------------------------- MODULE Keys --------------------------------
(***************************************************************************)
(* The keys: task_key.c, which polls them every 50 ms and reports presses  *)
(* and releases to the functions registered for them, and the memory the   *)
(* RPC functions of rpc_func_freertos.c keep of the last event of a key.   *)
(*                                                                         *)
(* taskKey (priority 3) interrupts the RPC task (priority 1) anywhere,     *)
(* also while get_last_key_state clears the memory; a poll is not          *)
(* interrupted by anyone who has to do with keys.                          *)
(***************************************************************************)
EXTENDS Naturals, Sequences

CONSTANTS
  Key,                      (* key_id_t without kid_none: 4 keys           *)
  HANDLELIST_SIZE,          (* functions that can be registered        (8) *)
  KEYPRESS_LONG_THRESHOLD,  (* polls until a press is a long one      (20) *)
  key_handler,              (* the function the RPC functions register     *)
  NULL                      (* a free place in the list                    *)

ASSUME KeysAssumption ==
  /\ HANDLELIST_SIZE \in Nat \ {0}
  /\ KEYPRESS_LONG_THRESHOLD \in Nat \ {0}
  /\ key_handler # NULL

Events == {"none", "pressShort", "pressLong", "release"}
Handlers == {key_handler}

VARIABLES
  keyList,        (* polls a key has been found pressed, up to a limit     *)
  keyHandleList,
  keystates,      (* the last event of each key                            *)
  clearing,       (* keys that get_last_key_state has still to clear       *)
  held,           (* history: polls since the key was up, up to one more   *)
                  (* than keyList counts                                   *)
  fired           (* history: the events of the press in progress          *)

presses == <<held, fired>>
keyVars == <<keyList, keyHandleList, keystates, clearing, presses>>

----------------------------------------------------------------------------
(* The list of functions.                                                  *)

Places == 1 .. HANDLELIST_SIZE

\* The first place that holds h, 0 if none does.
findHandle(list, h) ==
  IF \E i \in Places : list[i] = h
  THEN CHOOSE i \in Places : list[i] = h /\ \A j \in 1 .. (i - 1) : list[j] # h
  ELSE 0

keyUnRegisterHandle(list, h) == [i \in Places |-> IF list[i] = h THEN NULL ELSE list[i]]

\* Without a free place h is not registered.
keyRegisterHandle(h) ==
  LET list == keyUnRegisterHandle(keyHandleList, h)
  IN  keyHandleList' = [i \in Places |-> IF i = findHandle(list, NULL) THEN h ELSE list[i]]

Registered(h) == \E i \in Places : keyHandleList[i] = h

----------------------------------------------------------------------------
(* taskKey.                                                                *)

\* What keyList, keyHandleList and keystates are when the program starts, and
\* what keyInit makes of the first two.
KeysReset ==
  /\ keyList' = [k \in Key |-> 0]
  /\ keyHandleList' = [i \in Places |-> NULL]
  /\ keystates' = [k \in Key |-> "none"]
  /\ clearing' = {}
  /\ held' = [k \in Key |-> 0]
  /\ fired' = [k \in Key |-> <<>>]

KeysInit ==
  /\ keyList = [k \in Key |-> 0]
  /\ keyHandleList = [i \in Places |-> NULL]
  /\ keystates = [k \in Key |-> "none"]
  /\ clearing = {}
  /\ held = [k \in Key |-> 0]
  /\ fired = [k \in Key |-> <<>>]

\* Mutant of Counted: the count stops when the press has become a long one.
CountedToThreshold(n) == IF n < KEYPRESS_LONG_THRESHOLD THEN n + 1 ELSE n

Counted(n) == IF n < KEYPRESS_LONG_THRESHOLD + 1 THEN n + 1 ELSE n

\* The events of a key that is pressed, then of one that is not.
PressEvents(n) ==
  (IF n = 0 THEN <<"pressShort">> ELSE <<>>) \o
  (IF Counted(n) = KEYPRESS_LONG_THRESHOLD THEN <<"pressLong">> ELSE <<>>)

ReleaseEvents(n) == IF n # 0 THEN <<"release">> ELSE <<>>

Fires(k, down) ==
  IF k \in down THEN PressEvents(keyList[k]) ELSE ReleaseEvents(keyList[k])

\* fireEvent: key_handler keeps the last of the events.
fireEvent(k, events) ==
  IF events # <<>> /\ Registered(key_handler)
  THEN events[Len(events)]
  ELSE keystates[k]

Hold(n) == IF n < KEYPRESS_LONG_THRESHOLD + 2 THEN n + 1 ELSE n

\* boardTestKey finds the keys `down' pressed.
Poll(down) ==
  /\ keyList' = [k \in Key |-> IF k \in down THEN Counted(keyList[k]) ELSE 0]
  /\ keystates' = [k \in Key |-> fireEvent(k, Fires(k, down))]
  /\ held' = [k \in Key |-> IF k \in down THEN Hold(held[k]) ELSE 0]
  /\ fired' = [k \in Key |-> IF k \in down THEN fired[k] \o Fires(k, down) ELSE <<>>]
  /\ UNCHANGED <<keyHandleList, clearing>>

----------------------------------------------------------------------------
(* The RPC functions.                                                      *)

init_rpc_key_handler ==
  /\ keyRegisterHandle(key_handler)
  /\ UNCHANGED <<keyList, keystates, clearing, presses>>

\* The answer is the state of one key; the memory of all keys is reset.
get_last_key_state(key_id, reset_key_memory) ==
  /\ clearing = {}
  /\ clearing' = IF reset_key_memory THEN Key ELSE {}
  /\ UNCHANGED <<keyList, keyHandleList, keystates, presses>>

\* memset comes to the state of one key.
ClearState(k) ==
  /\ k \in clearing
  /\ keystates' = [keystates EXCEPT ![k] = "none"]
  /\ clearing' = clearing \ {k}
  /\ UNCHANGED <<keyList, keyHandleList, presses>>

----------------------------------------------------------------------------
(* Properties.                                                             *)

KeysTypeOK ==
  /\ keyList \in [Key -> 0 .. (KEYPRESS_LONG_THRESHOLD + 1)]
  /\ keyHandleList \in [Places -> Handlers \cup {NULL}]
  /\ keystates \in [Key -> Events]
  /\ clearing \in SUBSET Key
  /\ held \in [Key -> 0 .. (KEYPRESS_LONG_THRESHOLD + 2)]
  /\ fired \in [Key -> Seq(Events)]

\* What a press that has been seen in n polls should have been reported as.
Reports(n) ==
  CASE n = 0 -> <<>>
    [] n \in 1 .. (KEYPRESS_LONG_THRESHOLD - 1) -> <<"pressShort">>
    [] OTHER -> <<"pressShort", "pressLong">>

\* However long a key is held, its press is reported once as a short one and,
\* from the threshold on, once as a long one, and never anew (task_key.c:96-114).
\* The memory of the RPC functions shows the latest event of the key or none,
\* but never an older one, although taskKey interrupts its clearing
\* (rpc_func_freertos.c:137-149).
PressIsReportedOnce ==
  \A k \in Key :
    /\ fired[k] = Reports(held[k])
    /\ keystates[k] \in
         {"none", IF held[k] = 0 THEN "release" ELSE fired[k][Len(fired[k])]}

=============================================================================
