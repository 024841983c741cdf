----------------------------- MODULE FcmDevices -----------------------------
(***************************************************************************)
(* The file of device tokens and its writers: registrations of the web     *)
(* server (api_storage.py) and the notifications of fcm.py, which send to  *)
(* every token in threads of their own and, in one more thread, write back *)
(* the tokens that were not refused.                                       *)
(*                                                                         *)
(* Two threads notify: the main loop and, for a trigger tested by hand, the *)
(* web server, which is also the one that registers.  Both use one FCM     *)
(* object and its list of sending threads.                                 *)
(***************************************************************************)
EXTENDS Naturals, Sequences, FiniteSets, SequencesExt

CONSTANTS Token,
          MaxNotify   \* bound: notifications

ASSUME DeviceAssumption == IsFiniteSet(Token) /\ MaxNotify \in Nat

VARIABLES
    file,     \* [state |-> "json", "empty" or "broken", tokens |-> the list]
    shared,   \* __fcm_threads: the sending threads, [token |-> , valid |-> ]
    stage,    \* where each notification is; 0 is the registration
    list,     \* the tokens it loaded, then those it will save
    next,     \* how many of them have a sending thread
    \* History variables.
    due,      \* tokens registered and not refused since
    stale,    \* who holds a list that is no longer that of the file
    clash     \* a stale list was saved, or two notifications shared a list

vars == <<file, shared, stage, list, next, due, stale, clash>>

Registration == 0
Notification == 1..MaxNotify
Writer == {Registration} \cup Notification
Thread == [token : Token, valid : BOOLEAN]

\* "reset": the list of threads is new; "build": threads are being started;
\* "save": the list is to be saved; "write": the file is truncated.
Stages == {"idle", "reset", "build", "save", "write", "done"}

Init ==
    /\ file = [state |-> "json", tokens |-> <<>>]
    /\ shared = <<>>
    /\ stage = [w \in Writer |-> "idle"]
    /\ list = [w \in Writer |-> <<>>]
    /\ next = [n \in Notification |-> 0]
    /\ due = {} /\ stale = {} /\ clash = FALSE

\* The writers that run in the main loop and in the web server.
Building == {n \in Notification : stage[n] \in {"reset", "build"}}
Busy == Cardinality(Building) + (IF stage[Registration] = "idle" THEN 0 ELSE 1)

\* Those that have loaded a list and may still save one made from it.
Holding == {w \in Writer : stage[w] \in {"build", "save"}}

\* Fault: a token is added without looking for it.
RegisterBlindly(t) ==
    /\ stage[Registration] = "idle" /\ Cardinality(Building) < 2
    /\ file.state = "json"
    /\ stage' = [stage EXCEPT ![Registration] = "save"]
    /\ list' = [list EXCEPT ![Registration] = Append(file.tokens, t)]
    /\ UNCHANGED <<file, shared, next, due, stale, clash>>

\* register_device_token up to the save; a known token, or a file that is no
\* JSON, ends it without effect.
Register(t) ==
    /\ stage[Registration] = "idle" /\ Cardinality(Building) < 2
    /\ file.state = "json" /\ ~Contains(file.tokens, t)
    /\ stage' = [stage EXCEPT ![Registration] = "save"]
    /\ list' = [list EXCEPT ![Registration] = Append(file.tokens, t)]
    /\ UNCHANGED <<file, shared, next, due, stale, clash>>

\* A notification starts: __fcm_threads is a new list.
Reset(n) ==
    /\ stage[n] = "idle" /\ \A m \in 1..(n - 1) : stage[m] # "idle"
    /\ Busy < 2
    /\ stage' = [stage EXCEPT ![n] = "reset"]
    /\ shared' = <<>>
    /\ clash' = (clash \/ Building # {})
    /\ UNCHANGED <<file, list, next, due, stale>>

\* load_device_tokens; a file that is no JSON raises.
Load(n) ==
    /\ stage[n] = "reset"
    /\ IF file.state = "json" /\ file.tokens # <<>>
       THEN /\ stage' = [stage EXCEPT ![n] = "build"]
            /\ list' = [list EXCEPT ![n] = file.tokens]
       ELSE /\ stage' = [stage EXCEPT ![n] = "done"]
            /\ UNCHANGED list
    /\ UNCHANGED <<file, shared, next, due, stale, clash>>

\* A thread for the next token is appended and started; FCM will accept the
\* message or not.
Send(n) ==
    /\ stage[n] = "build" /\ next[n] < Len(list[n])
    /\ \E valid \in BOOLEAN :
          LET t == list[n][next[n] + 1] IN
          /\ shared' = Append(shared, [token |-> t, valid |-> valid])
          /\ due' = IF valid THEN due ELSE due \ {t}
    /\ next' = [next EXCEPT ![n] = @ + 1]
    /\ UNCHANGED <<file, stage, list, stale, clash>>

\* The members of a set of numbers, in their order.
InOrder(S) ==
    CHOOSE s \in [1..Cardinality(S) -> S] :
        \A i, j \in 1..Cardinality(S) : i < j => s[i] < s[j]

\* Fault: the devices at the places of the refused threads.
KeptRefused(devices, threads) ==
    LET bad == InOrder({i \in DOMAIN threads : ~threads[i].valid})
    IN  [k \in DOMAIN bad |-> devices[bad[k]]]

\* The devices at the places of the valid threads.
Kept(devices, threads) ==
    LET valid == InOrder({i \in DOMAIN threads : threads[i].valid})
    IN  [k \in DOMAIN valid |-> devices[valid[k]]]

\* More valid threads than devices: devices[idx] raises.
Overrun(devices, threads) ==
    \E i \in DOMAIN threads : i > Len(devices) /\ threads[i].valid

\* __notify_async copies the list of threads; __post_send_notify joins them,
\* which is to say that it waits, and saves if a device is to go.
Spawn(n) ==
    /\ stage[n] = "build" /\ next[n] = Len(list[n])
    /\ IF ~Overrun(list[n], shared) /\ Len(Kept(list[n], shared)) # Len(list[n])
       THEN /\ stage' = [stage EXCEPT ![n] = "save"]
            /\ list' = [list EXCEPT ![n] = Kept(list[n], shared)]
       ELSE /\ stage' = [stage EXCEPT ![n] = "done"]
            /\ list' = [list EXCEPT ![n] = <<>>]
    /\ next' = [next EXCEPT ![n] = 0]
    /\ UNCHANGED <<file, shared, due, stale, clash>>

\* save_device_tokens opens the file for writing.
Truncate(w) ==
    /\ stage[w] = "save"
    /\ stage' = [stage EXCEPT ![w] = "write"]
    /\ file' = [state |-> "empty", tokens |-> <<>>]
    /\ clash' = (clash \/ w \in stale)
    /\ stale' = (stale \cup Holding) \ {w}
    /\ UNCHANGED <<shared, list, next, due>>

\* What the file holds when w has written over what another writer wrote
\* since the truncation: the end of a longer list stays.
Written(w) ==
    IF file.state = "empty" \/ Len(file.tokens) <= Len(list[w])
    THEN [state |-> "json", tokens |-> list[w]]
    ELSE [state |-> "broken", tokens |-> file.tokens]

\* The list is written and the file is closed.
Write(w) ==
    /\ stage[w] = "write"
    /\ file' = Written(w)
    /\ stage' = [stage EXCEPT ![w] = IF w = Registration THEN "idle" ELSE "done"]
    /\ list' = [list EXCEPT ![w] = <<>>]
    /\ due' = IF w = Registration THEN due \cup {Last(list[w])} ELSE due
    /\ UNCHANGED <<shared, next, stale, clash>>

Next ==
    \/ \E t \in Token : Register(t)
    \/ \E n \in Notification : Reset(n) \/ Load(n) \/ Send(n) \/ Spawn(n)
    \/ \E w \in Writer : Truncate(w) \/ Write(w)

Spec == Init /\ [][Next]_vars
-----------------------------------------------------------------------------
(* Properties.                                                             *)

\* Type invariant.
TypeOK ==
    /\ file \in [state : {"json", "empty", "broken"}, tokens : Seq(Token)]
    /\ shared \in Seq(Thread)
    /\ stage \in [Writer -> Stages]
    /\ list \in [Writer -> Seq(Token)]
    /\ \A n \in Notification : next[n] \in 0..Cardinality(Token)
    /\ due \subseteq Token /\ stale \subseteq Writer /\ clash \in BOOLEAN

\* No token is in the file twice, whoever overwrote whom: a device is never
\* sent a message twice.
NoDuplicateTokens ==
    file.state = "json" => IsInjective(file.tokens)

\* As long as no list was saved that was loaded before the last save, and no
\* two notifications shared the list of threads, the file at rest holds the
\* registered tokens without those FCM refused.
FileIsExact ==
    ~clash /\ (\A w \in Writer : stage[w] \in {"idle", "done"}) =>
        file.state = "json" /\ ToSet(file.tokens) = due

\* A registered token that FCM never refused stays in the file ("prune dead
\* device tokens", fcm.py).
RegisteredStay ==
    (\A w \in Writer : stage[w] # "write") =>
        file.state = "json" /\ due \subseteq ToSet(file.tokens)
=============================================================================
