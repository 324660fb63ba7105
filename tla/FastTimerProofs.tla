--------------------------- MODULE FastTimerProofs ---------------------------
(***************************************************************************)
(* Proofs about FastTimer: its types and which timers its list holds, for  *)
(* any program.  And, in a program that is Disciplined: the list is sorted *)
(* across the wrap of the hardware timer, the compare register is set in   *)
(* time, and the whole implements the timer service.                       *)
(***************************************************************************)
EXTENDS FastTimerInvariant, TimerListProofs

-----------------------------------------------------------------------------
(* The list as a set of timers *)

Listed == {x \in Timers : flags[x].running /\ ~BeingStarted(x)}

Lists == Distinct(list) /\ Elements(list) = Listed

LEMMA ListsMatch == TypeOK => (ListMatchesFlags <=> Lists)
<1> SUFFICES ASSUME TypeOK PROVE ListMatchesFlags <=> Lists
  OBVIOUS
<1>1. Elements(list) \subseteq Timers
  BY ElementTypes DEF TypeOK
<1>2. \A x : Linked(x) <=> x \in Elements(list)
  BY DEF Linked, Elements
<1>3. QED
  BY <1>1, <1>2 DEF ListMatchesFlags, Lists, Listed, Distinct

(* The same of the next state *)
LEMMA ListsMatchNext == TypeOK' => (ListMatchesFlags' <=> Lists')
  BY ListsMatch, PTL

LEMMA addItemProperties ==
  ASSUME NEW s \in Seq(Timers), NEW x \in Timers, NEW fire
  PROVE  /\ addItem(s, x, fire) \in Seq(Timers)
         /\ Elements(addItem(s, x, fire)) = Elements(s) \cup {x}
         /\ Distinct(s) /\ x \notin Elements(s) => Distinct(addItem(s, x, fire))
  BY InsertTimer DEF addItem

LEMMA removeItemProperties ==
  ASSUME NEW s \in Seq(Timers), Distinct(s), NEW x \in Timers
  PROVE  /\ removeItem(s, x) \in Seq(Timers)
         /\ Elements(removeItem(s, x)) = Elements(s) \ {x}
         /\ Distinct(removeItem(s, x))
  BY RemoveTimer DEF removeItem

LEMMA LaterType == \A t, n \in Int : Later(t, n) \in Ticks
  BY TicksOfMod DEF Later

(* The next count, and what time is set to when it is not used *)
LEMMA NextCount == TypeOK => counter \in Int /\ 0 \in Ticks /\ Later(counter, 1) \in Ticks
<1> SUFFICES ASSUME TypeOK PROVE counter \in Int /\ 0 \in Ticks /\ Later(counter, 1) \in Ticks
  OBVIOUS
<1>1. counter \in Int /\ 0 \in Ticks
  BY CounterAssumption DEF TypeOK, Ticks
<1>2. 1 \in Int
  OBVIOUS
<1>3. QED
  BY <1>1, <1>2, LaterType

(* Whom a timer belongs to keeps contexts from starting it at a time. *)
LEMMA OneStarts ==
  ASSUME Operations, TasksUndisturbed, NEW c \in Tasks, NEW d \in Contexts, c # d,
         Between(c), Working(d)
  PROVE  op[c].timer # op[d].timer
<1>1. MayUse(c, op[c].timer) /\ MayUse(d, op[d].timer) /\ c # "irq"
  BY DEF Operations, Working, Between, Contexts, Tasks
<1>2. firing # op[c].timer
  BY DEF TasksUndisturbed
<1>3. QED
  BY <1>1, <1>2 DEF MayUse

-----------------------------------------------------------------------------
(* ListInv holds initially. *)

LEMMA InitListInv == Init => ListInv
<1> SUFFICES ASSUME Init PROVE ListInv
  OBVIOUS
<1>1. 0 \in Ticks /\ 0 \in 0 .. M - 1 /\ 0 \in 0 .. MaxBusy
  BY FastTimerAssumption, CounterAssumption DEF Ticks
<1>2. TypeOK
  <2>1. flags \in [Timers -> Flags] /\ fireTime \in [Timers -> Ticks]
    BY <1>1 DEF Init, Flags
  <2>2. op \in [Contexts -> Call]
    BY <1>1 DEF Init, Call, NoCall, NoMode, Mode
  <2>3. <<>> \in Seq(Timers)
    BY EmptySeq
  <2>4. QED
    BY <1>1, <2>1, <2>2, <2>3 DEF Init, TypeOK
<1>3. Operations /\ TasksUndisturbed /\ HandlerStages /\ Exclusion
  BY DEF Init, Operations, TasksUndisturbed, HandlerStages, Exclusion, Working, Between, Masked, Contexts, Tasks
<1>4. StartedRun
  BY DEF Init, StartedRun
<1>5. Lists
  <2>1. list = <<>> /\ DOMAIN list = {}
    BY DEF Init
  <2>2. Listed = {}
    BY DEF Listed, Init
  <2>3. QED
    BY <2>1, <2>2 DEF Lists, Distinct, Elements
<1>6. QED
  BY <1>2, <1>3, <1>4, <1>5, ListsMatch DEF ListInv

-----------------------------------------------------------------------------
(* The steps of start, stop and updateTimeout *)

LEMMA BeginKeeps ==
  ASSUME ListInv, NEW c \in Contexts, NEW x \in Timers, CanCall(c, x),
         NEW time \in Ticks, NEW m \in Mode, Begin(c, x, time, m)
  PROVE  ListInv'
<1>1. TypeOK /\ Lists
  BY ListsMatch DEF ListInv
<1>2. TypeOK'
  <2>1. [timer |-> x, time |-> time, mode |-> m] \in Call
    BY DEF Call
  <2>2. op' \in [Contexts -> Call]
    BY <1>1, <2>1 DEF Begin, TypeOK
  <2>3. pc' \in [Contexts -> {"idle", "unlink", "set", "link", "update", "write", "check",
                              "clear", "walk", "callback"}]
    BY <1>1 DEF Begin, GoTo, TypeOK
  <2>4. QED
    BY <1>1, <2>2, <2>3 DEF Begin, timers, hardware, handler, TypeOK
<1>3. /\ pc' = [pc EXCEPT ![c] = "unlink"] /\ DOMAIN pc = Contexts
      /\ op' = [op EXCEPT ![c] = [timer |-> x, time |-> time, mode |-> m]] /\ DOMAIN op = Contexts
      /\ firing' = firing /\ list' = list /\ flags' = flags
      /\ pc[c] = (IF c = "irq" THEN "callback" ELSE "idle")
  BY <1>1 DEF Begin, GoTo, timers, handler, CanCall, TypeOK
<1>4. Operations'
  BY <1>3 DEF ListInv, Operations, Working, CanCall, MayUse
<1>5. TasksUndisturbed'
  BY <1>3 DEF ListInv, TasksUndisturbed, Between, Contexts, Tasks
<1>6. HandlerStages'
  BY <1>3 DEF ListInv, HandlerStages, Contexts, Tasks
<1>7. Exclusion'
  BY <1>3 DEF ListInv, Exclusion, Masked, CanCall, Runs, Contexts, Tasks
<1>8. Lists'
  <2>1. \A y \in Timers : BeingStarted(y)' <=> BeingStarted(y)
    BY <1>3 DEF BeingStarted
  <2>2. QED
    BY <1>1, <1>3, <2>1 DEF Lists, Listed, Distinct, Elements
<1>9. StartedRun'
  BY <1>3 DEF ListInv, StartedRun
<1>10. QED
  BY <1>2, <1>4, <1>5, <1>6, <1>7, <1>8, <1>9, ListsMatchNext DEF ListInv

LEMMA UnlinkKeeps ==
  ASSUME ListInv, NEW c \in Contexts, Unlink(c)
  PROVE  ListInv'
<1> DEFINE x == op[c].timer
<1>1. TypeOK /\ Lists
  BY ListsMatch DEF ListInv
<1>2. x \in Timers /\ MayUse(c, x)
  BY DEF ListInv, Operations, Working, Unlink
<1>3. /\ pc' = [pc EXCEPT ![c] = "set"] /\ pc[c] = "unlink" /\ DOMAIN pc = Contexts
      /\ op' = op /\ firing' = firing /\ flags' = flags
      /\ list' = IF flags[x].running THEN removeItem(list, x) ELSE list
      /\ Runs(c)
  BY <1>1 DEF Unlink, GoTo, handler, TypeOK
<1>4. /\ list' \in Seq(Timers) /\ Distinct(list')
      /\ Elements(list') = IF flags[x].running THEN Elements(list) \ {x} ELSE Elements(list)
  BY <1>1, <1>2, <1>3, removeItemProperties DEF TypeOK, Lists
<1>5. TypeOK'
  <2>1. headChanged' \in [Contexts -> BOOLEAN]
    BY <1>1 DEF Unlink, TypeOK, HeadRemoved, Flags
  <2>2. pc' \in [Contexts -> {"idle", "unlink", "set", "link", "update", "write", "check",
                              "clear", "walk", "callback"}]
    BY <1>1, <1>3 DEF TypeOK
  <2>3. QED
    BY <1>1, <1>4, <2>1, <2>2 DEF Unlink, hardware, handler, TypeOK
<1>6. Operations'
  BY <1>3 DEF ListInv, Operations, Working, MayUse
<1>7. TasksUndisturbed'
  <2>1. c # "irq" => firing = Nothing
    BY <1>3 DEF Runs, Waits, MoreUrgent, ListInv, HandlerStages, Masked, Contexts, Tasks
  <2>2. x # Nothing
    BY <1>2, FastTimerAssumption
  <2>3. QED
    BY <1>3, <2>1, <2>2 DEF ListInv, TasksUndisturbed, Between, Contexts, Tasks
<1>8. HandlerStages' /\ Exclusion'
  BY <1>3 DEF ListInv, HandlerStages, Exclusion, Masked, Runs, Contexts, Tasks
<1>9. Lists'
  <2>1. \A y \in Timers : BeingStarted(y)' <=> BeingStarted(y) \/ y = x
    BY <1>3 DEF BeingStarted
  <2>2. Listed' = Listed \ {x}
    BY <1>3, <2>1 DEF Listed
  <2>3. ~flags[x].running => x \notin Listed
    BY DEF Listed
  <2>4. QED
    BY <1>1, <1>4, <2>2, <2>3 DEF Lists
<1>10. StartedRun'
  BY <1>3 DEF ListInv, StartedRun
<1>11. QED
  BY <1>5, <1>6, <1>7, <1>8, <1>9, <1>10, ListsMatchNext DEF ListInv

LEMMA SetTimerKeeps ==
  ASSUME ListInv, NEW c \in Contexts, SetTimer(c)
  PROVE  ListInv'
<1> DEFINE x == op[c].timer
           f == [running |-> TRUE, repeat |-> op[c].mode.repeat, interval |-> op[c].mode.interval]
<1>1. TypeOK /\ Lists
  BY ListsMatch DEF ListInv
<1>2. x \in Timers /\ MayUse(c, x)
  BY DEF ListInv, Operations, Working, SetTimer
<1>3. /\ pc' = [pc EXCEPT ![c] = "link"] /\ pc[c] = "set" /\ DOMAIN pc = Contexts
      /\ op' = op /\ firing' = firing /\ list' = list
      /\ flags' = [flags EXCEPT ![x] = f]
      /\ fireTime' = [fireTime EXCEPT ![x] = op[c].time]
  BY <1>1 DEF SetTimer, GoTo, handler, TypeOK
<1>4. TypeOK'
  <2>1. f \in Flags /\ op[c].time \in Ticks
    BY <1>1 DEF TypeOK, Call, Mode, Flags
  <2>2. flags' \in [Timers -> Flags] /\ fireTime' \in [Timers -> Ticks]
    BY <1>1, <1>3, <2>1 DEF TypeOK
  <2>3. pc' \in [Contexts -> {"idle", "unlink", "set", "link", "update", "write", "check",
                              "clear", "walk", "callback"}]
    BY <1>1, <1>3 DEF TypeOK
  <2>4. QED
    BY <1>1, <2>2, <2>3 DEF SetTimer, hardware, handler, TypeOK
<1>5. Operations'
  BY <1>3 DEF ListInv, Operations, Working, MayUse
<1>6. TasksUndisturbed'
  BY <1>3 DEF ListInv, TasksUndisturbed, Between, Contexts, Tasks
<1>7. HandlerStages' /\ Exclusion'
  BY <1>3 DEF ListInv, HandlerStages, Exclusion, Masked, Contexts, Tasks
<1>8. Lists'
  <2>1. \A y \in Timers : BeingStarted(y)' <=> BeingStarted(y)
    BY <1>3 DEF BeingStarted
  <2>2. BeingStarted(x)
    BY <1>3 DEF BeingStarted
  <2>3. \A y \in Timers : y # x => flags'[y] = flags[y]
    BY <1>1, <1>3 DEF TypeOK
  <2>4. Listed' = Listed
    BY <2>1, <2>2, <2>3 DEF Listed
  <2>5. QED
    BY <1>1, <1>3, <2>4 DEF Lists
<1>9. StartedRun'
  <2>1. flags'[x].running
    BY <1>1, <1>2, <1>3 DEF TypeOK
  <2>2. \A y : y # x => flags'[y] = flags[y]
    BY <1>1, <1>3 DEF TypeOK
  <2>3. QED
    BY <1>3, <2>1, <2>2 DEF ListInv, StartedRun
<1>10. QED
  BY <1>4, <1>5, <1>6, <1>7, <1>8, <1>9, ListsMatchNext DEF ListInv

(* Where a context goes on after a change of the list *)
LEMMA CallerStages ==
  ASSUME HandlerStages, NEW c \in Contexts
  PROVE  /\ Caller(c) \in {"idle", "callback"}
         /\ c # "irq" => Caller(c) = "idle"
         /\ c = "irq" => (Caller(c) = "callback" <=> firing # Nothing)
  BY DEF Caller

LEMMA AfterChangeKeeps ==
  ASSUME ListInv, NEW c \in Contexts, NEW changed \in BOOLEAN, AfterChange(c, changed),
         Working(c) \/ pc[c] = (IF c = "irq" THEN "callback" ELSE "idle"),
         Runs(c), UNCHANGED handler
  PROVE  /\ pc' \in [Contexts -> {"idle", "unlink", "set", "link", "update", "write", "check",
                                  "clear", "walk", "callback"}]
         /\ op' \in [Contexts -> Call] /\ headChanged' \in [Contexts -> BOOLEAN]
         /\ Operations' /\ TasksUndisturbed' /\ HandlerStages' /\ Exclusion'
<1> DEFINE next == IF changed THEN "update" ELSE Caller(c)
<1>1. TypeOK
  BY DEF ListInv
<1>2. /\ pc' = [pc EXCEPT ![c] = next] /\ DOMAIN pc = Contexts /\ DOMAIN op = Contexts
      /\ op' = [op EXCEPT ![c] = NoCall]
      /\ firing' = firing
  BY <1>1 DEF AfterChange, GoTo, handler, TypeOK
<1>3. next \in {"idle", "callback", "update"} /\ (c # "irq" => next \in {"idle", "update"})
      /\ (c = "irq" => next \in {"callback", "update"} /\ firing # Nothing)
  BY CallerStages DEF ListInv, HandlerStages, Working
<1> HIDE DEF next
<1>4. NoCall \in Call
  BY CounterAssumption DEF NoCall, Call, NoMode, Mode, Ticks
<1>5. /\ pc' \in [Contexts -> {"idle", "unlink", "set", "link", "update", "write", "check",
                               "clear", "walk", "callback"}]
      /\ op' \in [Contexts -> Call] /\ headChanged' \in [Contexts -> BOOLEAN]
  BY <1>1, <1>2, <1>3, <1>4 DEF TypeOK, AfterChange
<1>6. Operations'
  BY <1>2, <1>3 DEF ListInv, Operations, Working, MayUse
<1>7. TasksUndisturbed'
  BY <1>2, <1>3 DEF ListInv, TasksUndisturbed, Between, Contexts, Tasks
<1>8. HandlerStages'
  BY <1>2, <1>3 DEF ListInv, HandlerStages, Contexts, Tasks
<1>9. Exclusion'
  BY <1>2, <1>3 DEF ListInv, Exclusion, Masked, Contexts, Tasks, Runs, MoreUrgent, Waits
<1>10. QED
  BY <1>5, <1>6, <1>7, <1>8, <1>9

LEMMA LinkKeeps ==
  ASSUME ListInv, NEW c \in Contexts, Link(c)
  PROVE  ListInv'
<1>1. TypeOK /\ Lists
  BY ListsMatch DEF ListInv
<1>2. PICK x \in Timers : x = op[c].timer /\ MayUse(c, x)
  BY DEF ListInv, Operations, Working, Link
<1>3. /\ pc[c] = "link" /\ Runs(c) /\ DOMAIN op = Contexts /\ DOMAIN pc = Contexts
      /\ op' = [op EXCEPT ![c] = NoCall] /\ flags' = flags
      /\ list' = addItem(list, x, fireTime)
      /\ pc' = [pc EXCEPT ![c] = pc'[c]] /\ pc'[c] \in {"update", "idle", "callback"}
  BY <1>1, <1>2 DEF Link, AfterChange, GoTo, Caller, TypeOK
<1>4. x \notin Listed /\ flags[x].running
  BY <1>2, <1>3 DEF Listed, BeingStarted, ListInv, StartedRun
<1>5. /\ list' \in Seq(Timers) /\ Distinct(list')
      /\ Elements(list') = Listed \cup {x}
  BY <1>1, <1>2, <1>3, <1>4, addItemProperties DEF TypeOK, Lists
<1>6. /\ pc' \in [Contexts -> {"idle", "unlink", "set", "link", "update", "write", "check",
                               "clear", "walk", "callback"}]
      /\ op' \in [Contexts -> Call] /\ headChanged' \in [Contexts -> BOOLEAN]
      /\ Operations' /\ TasksUndisturbed' /\ HandlerStages' /\ Exclusion'
  <2>1. PICK changed \in BOOLEAN : AfterChange(c, changed)
    <3>1. (Head(list') = x \/ headChanged[c]) \in BOOLEAN
      OBVIOUS
    <3>2. QED
      BY <1>2, <3>1 DEF Link
  <2>2. Working(c) /\ UNCHANGED handler
    BY <1>3 DEF Working, Link
  <2>3. QED
    BY <1>3, <2>1, <2>2, AfterChangeKeeps
<1>7. TypeOK'
  BY <1>1, <1>5, <1>6 DEF Link, AfterChange, hardware, handler, TypeOK
<1>8. StartedRun'
  BY <1>3 DEF ListInv, StartedRun
<1>9. Lists'
  <2>1. ASSUME NEW d \in Contexts, d # c, Between(d) PROVE op[d].timer # x
    <3>1. Between(c) /\ Working(c) /\ Working(d)
      BY <1>3, <2>1 DEF Between, Working
    <3>2. CASE d \in Tasks
      BY <1>2, <2>1, <3>1, <3>2, OneStarts DEF ListInv
    <3>3. CASE c \in Tasks
      BY <1>2, <2>1, <3>1, <3>3, OneStarts DEF ListInv
    <3>4. QED
      BY <2>1, <3>2, <3>3 DEF Contexts
  <2>2. ~BeingStarted(x)'
    BY <1>2, <1>3, <2>1, FastTimerAssumption DEF BeingStarted, Between, NoCall
  <2>3. \A y \in Timers : y # x => (BeingStarted(y)' <=> BeingStarted(y))
    BY <1>2, <1>3, FastTimerAssumption DEF BeingStarted, NoCall
  <2>4. Listed' = Listed \cup {x}
    BY <1>2, <1>3, <1>4, <2>2, <2>3 DEF Listed
  <2>5. QED
    BY <1>5, <2>4 DEF Lists
<1>10. QED
  BY <1>6, <1>7, <1>8, <1>9, ListsMatchNext DEF ListInv

LEMMA StopKeeps ==
  ASSUME ListInv, NEW c \in Contexts, NEW x \in Timers, Stop(c, x)
  PROVE  ListInv'
<1>1. TypeOK /\ Lists
  BY ListsMatch DEF ListInv
<1>2. /\ pc[c] = (IF c = "irq" THEN "callback" ELSE "idle") /\ Runs(c) /\ MayUse(c, x)
      /\ DOMAIN op = Contexts /\ DOMAIN pc = Contexts
      /\ op' = [op EXCEPT ![c] = NoCall]
      /\ list' = removeItem(list, x)
      /\ flags' = [flags EXCEPT ![x].running = FALSE]
      /\ pc' = [pc EXCEPT ![c] = pc'[c]] /\ pc'[c] \in {"update", "idle", "callback"}
  BY <1>1 DEF Stop, CanCall, AfterChange, GoTo, Caller, TypeOK
<1>3. /\ list' \in Seq(Timers) /\ Distinct(list')
      /\ Elements(list') = Listed \ {x}
  BY <1>1, <1>2, removeItemProperties DEF TypeOK, Lists
<1>4. /\ flags' \in [Timers -> Flags] /\ ~flags'[x].running
      /\ \A y \in Timers : y # x => flags'[y] = flags[y]
  <2>1. flags[x] \in Flags /\ flags \in [Timers -> Flags]
    BY <1>1 DEF TypeOK
  <2>2. [flags[x] EXCEPT !.running = FALSE] \in Flags
    BY <2>1 DEF Flags
  <2>3. flags' = [flags EXCEPT ![x] = [flags[x] EXCEPT !.running = FALSE]]
    BY <1>2
  <2>4. flags'[x] = [flags[x] EXCEPT !.running = FALSE]
    BY <2>1, <2>3
  <2>5. ~flags'[x].running
    BY <2>1, <2>4 DEF Flags
  <2>6. QED
    BY <2>1, <2>2, <2>3, <2>5
<1>5. /\ pc' \in [Contexts -> {"idle", "unlink", "set", "link", "update", "write", "check",
                               "clear", "walk", "callback"}]
      /\ op' \in [Contexts -> Call] /\ headChanged' \in [Contexts -> BOOLEAN]
      /\ Operations' /\ TasksUndisturbed' /\ HandlerStages' /\ Exclusion'
  <2>1. PICK changed \in BOOLEAN : AfterChange(c, changed)
    <3>1. HeadRemoved(list, x) \in BOOLEAN
      BY DEF HeadRemoved
    <3>2. QED
      BY <3>1 DEF Stop
  <2>2. UNCHANGED handler
    BY DEF Stop
  <2>3. QED
    BY <1>2, <2>1, <2>2, AfterChangeKeeps
<1>6. TypeOK'
  BY <1>1, <1>3, <1>4, <1>5 DEF Stop, AfterChange, hardware, handler, TypeOK
<1>7. ASSUME NEW d \in Contexts, Between(d) PROVE op[d].timer \in Timers /\ op[d].timer # x
  <2>1. MayUse(d, op[d].timer) /\ op[d].timer \in Timers /\ d # c
    BY <1>2, <1>7 DEF ListInv, Operations, Working, Between
  <2>2. d = "irq" => c = "irq"
    BY <1>2, <1>7 DEF Runs, MoreUrgent, Waits, Masked, Between, Contexts, Tasks
  <2>3. QED
    BY <1>2, <1>7, <2>1, <2>2 DEF MayUse, ListInv, TasksUndisturbed, Contexts
<1>8. StartedRun'
  BY <1>2, <1>4, <1>7 DEF ListInv, StartedRun, Between
<1>9. Lists'
  <2>1. \A y \in Timers : y # x => (BeingStarted(y)' <=> BeingStarted(y))
    BY <1>2, FastTimerAssumption DEF BeingStarted, NoCall
  <2>2. Listed' = Listed \ {x}
    BY <1>4, <2>1 DEF Listed
  <2>3. QED
    BY <1>3, <2>2 DEF Lists
<1>10. QED
  BY <1>5, <1>6, <1>8, <1>9, ListsMatchNext DEF ListInv

-----------------------------------------------------------------------------
(* updateTimeout, the handler and the counter *)

(* A step of context c that starts no timer and leaves the timers alone *)
LEMMA ControlKeeps ==
  ASSUME ListInv, NEW c \in Contexts, ~Working(c),
         pc' = [pc EXCEPT ![c] = pc'[c]], ~Working(c)',
         UNCHANGED <<list, flags, op>>,
         firing' = firing \/ (c = "irq" /\ firing' = Nothing)
  PROVE  Operations' /\ TasksUndisturbed' /\ StartedRun' /\ Lists'
<1>1. TypeOK /\ Lists /\ DOMAIN pc = Contexts
  BY ListsMatch DEF ListInv, TypeOK
<1>2. Operations'
  BY <1>1 DEF ListInv, Operations, Working, MayUse
<1>3. TasksUndisturbed'
  BY <1>1, FastTimerAssumption DEF ListInv, TasksUndisturbed, Operations, Between, Working, Contexts, Tasks
<1>4. StartedRun'
  BY <1>1 DEF ListInv, StartedRun, Working
<1>5. Lists'
  <2>1. \A y \in Timers : BeingStarted(y)' <=> BeingStarted(y)
    BY <1>1 DEF BeingStarted, Working
  <2>2. Listed' = Listed
    BY <2>1 DEF Listed
  <2>3. QED
    BY <1>1, <2>2 DEF Lists
<1>6. QED
  BY <1>2, <1>3, <1>4, <1>5

LEMMA updateTimeoutKeeps ==
  ASSUME ListInv, NEW c \in Contexts, updateTimeout(c),
         \A d \in Contexts : ~Masked(d),
         \/ pc[c] = "update" /\ (c # "irq" => pc["irq"] = "idle")
         \/ c = "irq" /\ pc[c] = "walk",
         UNCHANGED <<timers, op, headChanged, firing, counter, cc, events, busy>>,
         current' \in Ticks
  PROVE  ListInv'
<1>1. TypeOK /\ Lists /\ DOMAIN pc = Contexts
  BY ListsMatch DEF ListInv, TypeOK
<1>2. /\ pc' = [pc EXCEPT ![c] = pc'[c]] /\ pc'[c] \in {"write", Caller(c)}
      /\ timerIsRunning' \in BOOLEAN /\ nextTimeout' \in Ticks
  <2>1. Caller(c) \in {"idle", "callback"}
    BY DEF Caller
  <2>2. CASE list = <<>>
    BY <1>1, <2>1, <2>2 DEF updateTimeout, GoTo, TypeOK
  <2>3. CASE list # <<>>
    <3>1. fireTime[Head(list)] \in Ticks
      BY <1>1, <2>3, TailElements DEF TypeOK
    <3>2. Later(counter, 1) \in Ticks
      BY <1>1, NextCount
    <3>3. QED
      BY <1>1, <2>1, <2>3, <3>1, <3>2 DEF updateTimeout, GoTo
  <2>4. QED
    BY <2>2, <2>3
<1>3. /\ Caller(c) \in {"idle", "callback"}
      /\ c # "irq" => Caller(c) = "idle"
      /\ c = "irq" => (Caller(c) = "callback" <=> firing # Nothing)
  BY CallerStages DEF ListInv
<1>4. TypeOK'
  <2>1. pc' \in [Contexts -> {"idle", "unlink", "set", "link", "update", "write", "check",
                              "clear", "walk", "callback"}]
    BY <1>1, <1>2, <1>3 DEF TypeOK
  <2>2. QED
    BY <1>1, <1>2, <2>1 DEF TypeOK, timers
<1>5. Operations' /\ TasksUndisturbed' /\ StartedRun' /\ Lists'
  BY <1>2, <1>3, ControlKeeps DEF Working, timers
<1>6. HandlerStages'
  BY <1>1, <1>2, <1>3 DEF ListInv, HandlerStages, Contexts, Tasks
<1>7. Exclusion'
  BY <1>1, <1>2, <1>3 DEF ListInv, Exclusion, Masked, Contexts, Tasks
<1>8. QED
  BY <1>4, <1>5, <1>6, <1>7, ListsMatchNext DEF ListInv

LEMMA UpdateKeeps ==
  ASSUME ListInv, NEW c \in Contexts, Update(c)
  PROVE  ListInv'
<1>1. \A d \in Contexts : ~Masked(d)
  BY DEF Update, Runs, Masked
<1>2. c # "irq" => pc["irq"] = "idle"
  BY DEF Update, Runs, Masked, MoreUrgent, Waits, Contexts, Tasks
<1>3. QED
  BY <1>1, <1>2, updateTimeoutKeeps DEF Update, handler, ListInv, TypeOK

LEMMA FinishKeeps == ListInv /\ Finish => ListInv'
<1> SUFFICES ASSUME ListInv, Finish PROVE ListInv'
  OBVIOUS
<1>1. \A d \in Contexts : ~Masked(d)
  BY DEF Finish, Masked, ListInv, Exclusion, Contexts
<1>2. 0 \in Ticks /\ "irq" \in Contexts
  BY CounterAssumption DEF Ticks, Contexts
<1>3. QED
  BY <1>1, <1>2, updateTimeoutKeeps DEF Finish

LEMMA WriteCompareKeeps ==
  ASSUME ListInv, NEW c \in Contexts, WriteCompare(c)
  PROVE  ListInv'
<1>1. TypeOK /\ Lists /\ DOMAIN pc = Contexts
  BY ListsMatch DEF ListInv, TypeOK
<1>2. pc' = [pc EXCEPT ![c] = "check"] /\ pc[c] = "write" /\ firing' = firing
  BY DEF WriteCompare, GoTo, handler
<1>3. TypeOK'
  BY <1>1, <1>2 DEF WriteCompare, timers, handler, TypeOK
<1>4. Operations' /\ TasksUndisturbed' /\ StartedRun' /\ Lists'
  BY <1>1, <1>2, ControlKeeps DEF Working, WriteCompare, timers
<1>5. HandlerStages' /\ Exclusion'
  BY <1>1, <1>2 DEF ListInv, HandlerStages, Exclusion, Masked, Contexts, Tasks
<1>6. QED
  BY <1>3, <1>4, <1>5, ListsMatchNext DEF ListInv

LEMMA CheckCompareKeeps ==
  ASSUME ListInv, NEW c \in Contexts, CheckCompare(c)
  PROVE  ListInv'
<1>1. TypeOK /\ Lists /\ DOMAIN pc = Contexts
  BY ListsMatch DEF ListInv, TypeOK
<1>2. /\ pc' = [pc EXCEPT ![c] = pc'[c]] /\ pc'[c] \in {"write", Caller(c)} /\ pc[c] = "check"
      /\ firing' = firing /\ nextTimeout' \in Ticks
  <2>1. Later(counter, 1) \in Ticks /\ 0 \in Ticks
    BY <1>1, NextCount
  <2>2. QED
    BY <1>1, <2>1 DEF CheckCompare, GoTo, handler
<1>3. /\ Caller(c) \in {"idle", "callback"}
      /\ c # "irq" => Caller(c) = "idle"
      /\ c = "irq" => (Caller(c) = "callback" <=> firing # Nothing)
  BY CallerStages DEF ListInv
<1>4. TypeOK'
  <2>1. pc' \in [Contexts -> {"idle", "unlink", "set", "link", "update", "write", "check",
                              "clear", "walk", "callback"}]
    BY <1>1, <1>2, <1>3 DEF TypeOK
  <2>2. QED
    BY <1>1, <1>2, <2>1 DEF CheckCompare, timers, hardware, handler, TypeOK
<1>5. Operations' /\ TasksUndisturbed' /\ StartedRun' /\ Lists'
  BY <1>1, <1>2, <1>3, ControlKeeps DEF Working, CheckCompare, timers
<1>6. HandlerStages' /\ Exclusion'
  BY <1>1, <1>2, <1>3 DEF ListInv, HandlerStages, Exclusion, Masked, Contexts, Tasks
<1>7. QED
  BY <1>4, <1>5, <1>6, ListsMatchNext DEF ListInv

(* The steps of the handler to the next look at the list *)
LEMMA HandlerKeeps == ListInv /\ (Interrupt \/ ClearEvents \/ Return) => ListInv'
<1> SUFFICES ASSUME ListInv, Interrupt \/ ClearEvents \/ Return PROVE ListInv'
  OBVIOUS
<1>1. TypeOK /\ Lists /\ DOMAIN pc = Contexts
  BY ListsMatch DEF ListInv, TypeOK
<1>2. /\ pc' = [pc EXCEPT !["irq"] = pc'["irq"]]
      /\ pc'["irq"] \in {"clear", "walk"} /\ pc["irq"] \in {"idle", "clear", "callback"}
      /\ firing' = Nothing
  BY <1>1 DEF Interrupt, ClearEvents, Return, GoTo, handler, ListInv, HandlerStages, Contexts
<1>3. TypeOK'
  <2>1. pc' \in [Contexts -> {"idle", "unlink", "set", "link", "update", "write", "check",
                              "clear", "walk", "callback"}]
    BY <1>1, <1>2 DEF TypeOK
  <2>2. QED
    BY <1>1, <1>2, <2>1 DEF Interrupt, ClearEvents, Return, timers, hardware, handler, TypeOK
<1>4. Operations' /\ TasksUndisturbed' /\ StartedRun' /\ Lists'
  <2>1. UNCHANGED <<list, flags, op>>
    BY DEF Interrupt, ClearEvents, Return, timers
  <2>2. "irq" \in Contexts
    BY DEF Contexts
  <2>3. QED
    BY <1>1, <1>2, <2>1, <2>2, ControlKeeps DEF Working
<1>5. HandlerStages'
  BY <1>1, <1>2 DEF ListInv, HandlerStages, Contexts, Tasks
<1>6. \A d \in Contexts : ~Masked(d)
  BY <1>2 DEF Interrupt, Runs, Masked, ClearEvents, Return, ListInv, Exclusion, Contexts
<1>7. Exclusion'
  BY <1>1, <1>2, <1>6 DEF Exclusion, Masked, Contexts, Tasks
<1>8. QED
  BY <1>3, <1>4, <1>5, <1>7, ListsMatchNext DEF ListInv

LEMMA CountKeeps == ListInv /\ Count => ListInv'
<1> SUFFICES ASSUME ListInv, Count PROVE ListInv'
  OBVIOUS
<1>1. TypeOK /\ Lists
  BY ListsMatch DEF ListInv
<1>2. busy' \in 0 .. MaxBusy
  BY <1>1, FastTimerAssumption DEF Count, TypeOK
<1>3. counter' \in Ticks /\ events' \subseteq {0, 1}
  BY <1>1, NextCount DEF Count, TypeOK
<1>4. TypeOK'
  BY <1>1, <1>2, <1>3 DEF Count, timers, handler, TypeOK
<1>5. Operations' /\ TasksUndisturbed' /\ HandlerStages' /\ Exclusion' /\ StartedRun'
  BY DEF Count, timers, handler, ListInv, Operations, TasksUndisturbed, HandlerStages, Exclusion,
         StartedRun, Working, Between, Masked, MayUse
<1>6. Lists'
  BY <1>1 DEF Count, timers, Lists, Listed, BeingStarted
<1>7. QED
  BY <1>4, <1>5, <1>6, ListsMatchNext DEF ListInv

LEMMA FireKeeps == ListInv /\ Fire => ListInv'
<1> SUFFICES ASSUME ListInv, Fire PROVE ListInv'
  OBVIOUS
<1>1. TypeOK /\ Lists /\ DOMAIN pc = Contexts
  BY ListsMatch DEF ListInv, TypeOK
<1>2. PICK x : x = Head(list)
  OBVIOUS
<1>3. /\ list # <<>> /\ firing' = x /\ op' = op
      /\ pc["irq"] = "walk" /\ pc' = [pc EXCEPT !["irq"] = "callback"]
  BY <1>2 DEF Fire, Due, GoTo
<1>4. /\ x \in Timers /\ x \in Listed
      /\ Tail(list) \in Seq(Timers) /\ Distinct(Tail(list))
      /\ Elements(Tail(list)) = Listed \ {x}
  <2>1. list \in Seq(Timers) /\ Distinct(list) /\ list # <<>>
    BY <1>1, <1>3 DEF TypeOK, Lists
  <2>2. Elements(list) = Listed
    BY <1>1 DEF Lists
  <2>3. QED
    BY <1>2, <2>1, <2>2, TailProperties
<1>5. flags[x] \in Flags /\ fireTime[x] \in Ticks
  BY <1>1, <1>4 DEF TypeOK
<1>6. \A c \in Contexts : Between(c) => op[c].timer # x
  BY <1>4 DEF Listed, BeingStarted, Between
<1>7. /\ list' \in Seq(Timers) /\ Distinct(list')
      /\ flags' \in [Timers -> Flags] /\ fireTime' \in [Timers -> Ticks]
      /\ \A y \in Timers : y # x => flags'[y] = flags[y]
      /\ Elements(list') = IF flags'[x].running THEN Listed ELSE Listed \ {x}
  <2>1. CASE flags[x].repeat
    <3>1. /\ fireTime' = [fireTime EXCEPT ![x] = Later(fireTime[x], flags[x].interval)]
          /\ list' = addItem(Tail(list), x, fireTime') /\ flags' = flags
      BY <1>2, <2>1 DEF Fire
    <3>2. Later(fireTime[x], flags[x].interval) \in Ticks
      <4>1. fireTime[x] \in Int /\ flags[x].interval \in Int
        BY <1>5, CounterAssumption DEF Flags, Ticks
      <4>2. QED
        BY <4>1, LaterType
    <3>3. PICK fire : fire = fireTime'
      OBVIOUS
    <3>4. /\ addItem(Tail(list), x, fire) \in Seq(Timers)
          /\ Elements(addItem(Tail(list), x, fire)) = (Listed \ {x}) \cup {x}
          /\ Distinct(addItem(Tail(list), x, fire))
      BY <1>4, addItemProperties
    <3>5. fireTime' \in [Timers -> Ticks]
      BY <1>1, <3>1, <3>2 DEF TypeOK
    <3>6. flags[x].running
      BY <1>4 DEF Listed
    <3>7. (Listed \ {x}) \cup {x} = Listed
      BY <1>4
    <3>8. flags' \in [Timers -> Flags] /\ flags'[x].running /\ \A y : flags'[y] = flags[y]
      BY <1>1, <3>1, <3>6 DEF TypeOK
    <3>9. QED
      BY <3>1, <3>3, <3>4, <3>5, <3>7, <3>8
  <2>2. CASE ~flags[x].repeat
    <3>1. /\ list' = Tail(list) /\ fireTime' = fireTime
          /\ flags' = [flags EXCEPT ![x].running = FALSE]
      BY <1>2, <2>2 DEF Fire
    <3>2. [flags[x] EXCEPT !.running = FALSE] \in Flags
      BY <1>5 DEF Flags
    <3>3. flags' = [flags EXCEPT ![x] = [flags[x] EXCEPT !.running = FALSE]]
      BY <3>1
    <3>4. flags'[x] = [flags[x] EXCEPT !.running = FALSE]
      BY <1>1, <1>4, <3>3 DEF TypeOK
    <3>5. ~flags'[x].running
      BY <1>5, <3>4 DEF Flags
    <3>6. QED
      BY <1>1, <1>4, <3>1, <3>2, <3>3, <3>5 DEF TypeOK
  <2>3. QED
    BY <2>1, <2>2
<1>8. TypeOK'
  <2>1. pc' \in [Contexts -> {"idle", "unlink", "set", "link", "update", "write", "check",
                              "clear", "walk", "callback"}]
    BY <1>1, <1>3 DEF TypeOK
  <2>2. QED
    BY <1>1, <1>3, <1>4, <1>7, <2>1 DEF Fire, hardware, TypeOK
<1>9. firing = Nothing /\ \A c \in Contexts : ~Masked(c)
  BY <1>3 DEF ListInv, HandlerStages, Exclusion, Masked, Contexts
<1>10. Operations'
  BY <1>1, <1>3, <1>4, <1>9, FastTimerAssumption DEF ListInv, Operations, Working, MayUse
<1>11. TasksUndisturbed'
  BY <1>1, <1>3, <1>6 DEF TasksUndisturbed, Between, Contexts, Tasks
<1>12. HandlerStages'
  BY <1>1, <1>3, <1>4, FastTimerAssumption DEF ListInv, HandlerStages, Contexts, Tasks
<1>13. Exclusion'
  BY <1>1, <1>3, <1>9 DEF Exclusion, Masked, Contexts, Tasks
<1>14. StartedRun'
  BY <1>1, <1>3, <1>6, <1>7 DEF ListInv, StartedRun, Operations, Working, Between
<1>15. Lists'
  <2>1. \A y \in Timers : BeingStarted(y)' <=> BeingStarted(y)
    BY <1>1, <1>3 DEF BeingStarted
  <2>2. Listed' = IF flags'[x].running THEN Listed ELSE Listed \ {x}
    BY <1>4, <1>7, <2>1 DEF Listed
  <2>3. QED
    BY <1>7, <2>2 DEF Lists
<1>16. QED
  BY <1>8, <1>10, <1>11, <1>12, <1>13, <1>14, <1>15, ListsMatchNext DEF ListInv

-----------------------------------------------------------------------------
(* ListInv is an invariant. *)

LEMMA StartKeeps ==
  ASSUME ListInv, NEW c \in Contexts, NEW x \in Timers,
         Start(c, x) \/ (c = "irq" /\ StartAbsolute(x))
  PROVE  /\ CanCall(c, x)
         /\ \E time \in Ticks, m \in Modes[x] : m \in Mode /\ Begin(c, x, time, m)
<1>1. TypeOK /\ Modes[x] \subseteq Mode /\ Delays[x] \subseteq Ticks
  BY FastTimerAssumption DEF ListInv, Ticks
<1>2. \A t \in Ticks : \A d \in Delays[x] : Later(t, d) \in Ticks
  <2>1. Ticks \subseteq Int
    BY DEF Ticks
  <2>2. QED
    BY <1>1, <2>1, LaterType
<1>3. counter \in Ticks /\ fireTime[x] \in Ticks
  BY <1>1 DEF TypeOK
<1>4. QED
  BY <1>1, <1>2, <1>3 DEF Start, StartAbsolute

LEMMA ProgramKeeps == ListInv /\ Program => ListInv'
<1> SUFFICES ASSUME ListInv, Program PROVE ListInv'
  OBVIOUS
<1>1. PICK x \in Timers : StartAbsolute(x) \/ \E c \in Contexts : Start(c, x) \/ Stop(c, x)
  BY DEF Program
<1>2. CASE StartAbsolute(x)
  <2>1. "irq" \in Contexts
    BY DEF Contexts
  <2>2. QED
    BY <1>2, <2>1, StartKeeps, BeginKeeps
<1>3. ASSUME NEW c \in Contexts, Start(c, x) PROVE ListInv'
  BY <1>3, StartKeeps, BeginKeeps
<1>4. ASSUME NEW c \in Contexts, Stop(c, x) PROVE ListInv'
  BY <1>4, StopKeeps
<1>5. QED
  BY <1>1, <1>2, <1>3, <1>4

LEMMA NextListInv == ListInv /\ [Next]_vars => ListInv'
<1> SUFFICES ASSUME ListInv, [Next]_vars PROVE ListInv'
  OBVIOUS
<1>1. CASE Program
  BY <1>1, ProgramKeeps
<1>2. ASSUME NEW c \in Contexts, Step(c) PROVE ListInv'
  BY <1>2, UnlinkKeeps, SetTimerKeeps, LinkKeeps, UpdateKeeps, WriteCompareKeeps, CheckCompareKeeps
  DEF Step
<1>3. CASE Handler
  BY <1>3, HandlerKeeps, FireKeeps, FinishKeeps DEF Handler
<1>4. CASE Count
  BY <1>4, CountKeeps
<1>5. CASE UNCHANGED vars
  <2>1. TypeOK' /\ ListMatchesFlags'
    BY <1>5 DEF vars, ListInv, TypeOK, ListMatchesFlags, Linked, BeingStarted
  <2>2. Operations' /\ TasksUndisturbed' /\ HandlerStages' /\ Exclusion' /\ StartedRun'
    BY <1>5 DEF vars, ListInv, Operations, TasksUndisturbed, HandlerStages, Exclusion,
                StartedRun, Working, Between, Masked, MayUse
  <2>3. QED
    BY <2>1, <2>2 DEF ListInv
<1>6. QED
  BY <1>1, <1>2, <1>3, <1>4, <1>5 DEF Next

(***************************************************************************)
(* For any timers, users and delays: a context that is preempted between   *)
(* the critical sections of fastTimerStart finds its timer as it left it.  *)
(***************************************************************************)
THEOREM ListInvariantHolds == Spec => []ListInv
<1>1. Init => ListInv
  BY InitListInv
<1>2. ListInv /\ [Next]_vars => ListInv'
  BY NextListInv
<1>3. QED
  BY <1>1, <1>2, PTL DEF Spec

(* The variables of the driver, its list among them, keep to their types. *)
THEOREM TypeCorrect == Spec => []TypeOK
<1>1. ListInv => TypeOK
  BY DEF ListInv
<1>2. QED
  BY <1>1, ListInvariantHolds, PTL

(***************************************************************************)
(* The list holds the running timers, once, and no timer that some context *)
(* has taken off it to start it again: fastTimerStart and fastTimerStop    *)
(* neither lose a timer nor link one twice.                                *)
(***************************************************************************)
THEOREM TimersAreListed == Spec => []ListMatchesFlags
<1>1. ListInv => ListMatchesFlags
  BY DEF ListInv
<1>2. QED
  BY <1>1, ListInvariantHolds, PTL

-----------------------------------------------------------------------------
(* Times that can be compared *)

Near(d) == -MaxLate <= d /\ Ahead(d)

LEMMA Bounds ==
  ASSUME Ahead(0)
  PROVE  /\ MaxBusy \in Nat /\ MaxLate \in Nat /\ MaxLate = MaxBusy + MaxBusy + 1
         /\ MaxLate < Half /\ Half \in Nat /\ M = Half + Half
         /\ \A d \in Int : Ahead(d) <=> d + MaxLate < Half
  BY HalfOfM, FastTimerAssumption DEF Ahead, MaxLate

LEMMA NearProperties ==
  ASSUME Ahead(0)
  PROVE  /\ \A d \in Int : Near(d) => d \in -Half .. Half - 1
         /\ \A d, e \in Int : Near(d) /\ Near(e) => d - e \in -Half .. Half - 1
<1> HIDE DEF Ahead, MaxLate
<1>1. QED
  BY Bounds, HalfOfM DEF Near

(* addItem compares times of the ring; what it builds is sorted by the time left. *)
LEMMA addItemSorted ==
  ASSUME NEW s \in Seq(Timers), NEW x \in Timers,
         NEW fire \in [Timers -> Ticks], NEW t \in Ticks, Ahead(0),
         Sorted(s, LeftAt(fire, t)),
         \A y \in Elements(s) \cup {x} : Near(LeftAt(fire, t)[y])
  PROVE  Sorted(addItem(s, x, fire), LeftAt(fire, t))
<1>1. \A y \in Elements(s) \cup {x} : LeftAt(fire, t)[y] \in Int
  BY LeftAtType, ElementTypes
<1>2. \A y \in Elements(s) : LeftAt(fire, t)[y] - LeftAt(fire, t)[x] \in -Half .. Half - 1
  BY <1>1, NearProperties
<1>3. QED
  BY <1>2, InsertByTime DEF addItem

-----------------------------------------------------------------------------
(* The invariant in terms of LeftAt *)

SortedList == Sorted(list, LeftAt(fireTime, counter))

LEMMA LeftType ==
  ASSUME TypeOK
  PROVE  \A x \in Timers : Left(x) \in Int /\ LeftAt(fireTime, counter)[x] = Left(x)
<1>1. LeftAt(fireTime, counter) \in [Timers -> Int]
  BY LeftAtType DEF TypeOK
<1>2. QED
  BY <1>1 DEF LeftAt, Left

LEMMA SortedListSuffices == TypeOK => (ListSorted <=> SortedList)
<1> SUFFICES ASSUME TypeOK PROVE ListSorted <=> SortedList
  OBVIOUS
<1>1. ASSUME NEW j \in DOMAIN list
      PROVE  LeftAt(fireTime, counter)[list[j]] = Left(list[j])
  <2>1. list[j] \in Timers
    BY ElementOfSeq, LenProperties DEF TypeOK
  <2>2. QED
    BY <2>1, LeftType
<1>2. QED
  BY <1>1 DEF ListSorted, SortedList, Sorted

LEMMA SortedListNext == TypeOK' => (ListSorted' <=> SortedList')
  BY SortedListSuffices, PTL

LEMMA LateBounds == ASSUME Ahead(0), TypeOK PROVE busy \in 0 .. MaxBusy /\ Late \in busy .. MaxLate
<1>1. busy \in 0 .. MaxBusy
  BY DEF TypeOK
<1> HIDE DEF Ahead, MaxLate
<1>2. Late \in busy .. MaxLate
  BY <1>1, Bounds DEF Late
<1>3. QED
  BY <1>1, <1>2

LEMMA InSightNear ==
  ASSUME Ahead(0), TypeOK, NEW t \in Ticks, InSight(t)
  PROVE  Signed(t - counter) \in Int /\ Near(Signed(t - counter))
<1> HIDE DEF Ahead, MaxLate
<1>1. t - counter \in Int
  BY CounterAssumption DEF TypeOK, Ticks
<1>2. Signed(t - counter) \in Int
  BY <1>1, SignedType, HalfOfM
<1>3. Late \in Int /\ Late <= MaxLate /\ MaxLate \in Int
  BY LateBounds, Bounds
<1>4. QED
  BY <1>2, <1>3 DEF InSight, Near

(* The timers of the list can be compared, and its first timer fires first. *)
LEMMA ListNear ==
  ASSUME Ahead(0), ListInv, OrderInv
  PROVE  /\ SortedList /\ Lists /\ TypeOK
         /\ \A y \in Listed : Linked(y) /\ y \in Timers /\ Left(y) \in Int /\ Near(Left(y))
         /\ list # <<>> =>
              /\ Head(list) \in Listed
              /\ \A y \in Listed : Left(Head(list)) <= Left(y)
<1>1. TypeOK /\ Lists /\ SortedList /\ TimesInSight
  BY ListsMatch, SortedListSuffices DEF ListInv, OrderInv
<1>2. ASSUME NEW y \in Listed
      PROVE  Linked(y) /\ y \in Timers /\ Left(y) \in Int /\ Near(Left(y))
  <2>1. Linked(y) /\ y \in Timers
    BY <1>1, <1>2 DEF Lists, Linked, Elements, Listed
  <2>2. InSight(fireTime[y]) /\ fireTime[y] \in Ticks
    BY <1>1, <2>1 DEF TimesInSight, TypeOK
  <2>3. QED
    BY <1>1, <2>1, <2>2, InSightNear DEF Left
<1>3. ASSUME list # <<>>
      PROVE  Head(list) \in Listed /\ \A y \in Listed : Left(Head(list)) <= Left(y)
  <2>1. list \in Seq(Timers) /\ Elements(list) = Listed
    BY <1>1 DEF TypeOK, Lists
  <2>2. Head(list) \in Listed
    BY <1>3, <2>1, TailElements
  <2>3. LeftAt(fireTime, counter) \in [Timers -> Int]
    BY <1>1, LeftAtType DEF TypeOK
  <2>4. \A y \in Listed : LeftAt(fireTime, counter)[Head(list)] <= LeftAt(fireTime, counter)[y]
    BY <1>1, <1>3, <2>1, <2>3, HeadIsFirst DEF SortedList
  <2>5. QED
    BY <1>1, <1>2, <2>2, <2>4, LeftType
<1>4. QED
  BY <1>1, <1>2, <1>3

(* A time d later than one that is due *)
LEMMA LaterTime ==
  ASSUME Ahead(0), TypeOK, NEW d \in Int, d >= 0, Ahead(d),
         NEW f \in Ticks, InSight(f), Signed(f - counter) <= 0
  PROVE  /\ Later(f, d) \in Ticks /\ InSight(Later(f, d))
         /\ Signed(Later(f, d) - counter) = Signed(f - counter) + d
<1> DEFINE s == Signed(f - counter)
<1>1. Late \in Nat /\ Late <= MaxLate
  BY LateBounds, Bounds
<1>2. s \in Int /\ -Late <= s /\ s <= 0
  BY InSightNear DEF InSight
<1>3. f \in Int /\ counter \in Int
  BY CounterAssumption DEF TypeOK, Ticks
<1> HIDE DEF s, Late
<1>4. Near(s + d) /\ Ahead(s + d) /\ -Late <= s + d
  BY <1>1, <1>2, CounterAssumption, FastTimerAssumption DEF Near, Ahead, MaxLate
<1>5. s + d \in -Half .. Half - 1
  BY <1>2, <1>4, NearProperties
<1>6. Signed(Later(f, d) - counter) = s + d
  BY <1>3, <1>5, SignedAdd DEF s, Later
<1>7. QED
  BY <1>3, <1>4, <1>6, LaterType DEF InSight, s

(* A time ahead of the counter *)
LEMMA AheadOfCounter ==
  ASSUME Ahead(0), TypeOK, NEW d \in Int, d >= 0, Ahead(d)
  PROVE  /\ Later(counter, d) \in Ticks /\ InSight(Later(counter, d)) /\ Fresh(Later(counter, d))
         /\ Signed(Later(counter, d) - counter) = d
<1>1. counter \in Ticks /\ counter - counter = 0 /\ 0 \in -Half .. Half - 1
  BY CounterAssumption, HalfOfM DEF TypeOK, Ticks
<1>2. Signed(counter - counter) = 0
  BY <1>1, SignedOfSmall
<1>3. busy \in Nat /\ Late \in Nat
  BY LateBounds, FastTimerAssumption
<1> HIDE DEF Late, Ahead
<1>4. InSight(counter)
  BY <1>2, <1>3 DEF InSight
<1>5. QED
  BY <1>1, <1>2, <1>3, <1>4, LaterTime DEF Fresh

-----------------------------------------------------------------------------
(* What start and stop leave alone *)

LEMMA NobodyMasked ==
  ASSUME NEW c \in Contexts, Runs(c), ~Masked(c)
  PROVE  \A d \in Contexts : ~Masked(d)
  BY DEF Runs

LEMMA CallerSteps ==
  ASSUME OrderInv, NEW c \in Contexts, Runs(c), ~Masked(c), pc[c] \notin {"clear", "walk"},
         DOMAIN pc = Contexts, pc' = [pc EXCEPT ![c] = pc'[c]],
         pc'[c] \notin {"write", "check", "clear", "walk"},
         UNCHANGED <<hardware, handler>>
  PROVE  Late' = Late /\ HandlerTime' /\ CompareComputed'
<1>1. InHandler' <=> InHandler
  BY DEF InHandler, handler, Contexts
<1>2. Late' = Late
  BY <1>1 DEF Late, Pending, hardware
<1>3. HandlerTime'
  BY <1>1 DEF OrderInv, HandlerTime, handler, hardware
<1>4. CompareComputed'
  BY NobodyMasked DEF CompareComputed, Masked
<1>5. QED
  BY <1>2, <1>3, <1>4

(***************************************************************************)
(* The compare register stays in time when the first timer changes to one  *)
(* that was behind it.                                                     *)
(***************************************************************************)
LEMMA ArmedStays ==
  ASSUME Ahead(0), ListInv, OrderInv, list # <<>>, ~UpdateComes,
         UNCHANGED <<counter, timerIsRunning, cc>>,
         NEW y \in Listed, y = Head(list'), fireTime'[y] = fireTime[y]
  PROVE  /\ timerIsRunning'
         /\ Signed(cc - counter)' > 0
         /\ Signed(cc - counter)' <= (IF Left(Head(list))' <= 0 THEN 1 ELSE Left(Head(list))')
<1> DEFINE a == Left(Head(list))
           b == Left(y)
           s == Signed(cc - counter)
<1>1. timerIsRunning /\ s > 0 /\ s <= (IF a <= 0 THEN 1 ELSE a)
  BY DEF OrderInv, CompareArmed
<1>2. a \in Int /\ b \in Int /\ a <= b
  BY ListNear
<1>3. s \in Int
  <2>1. cc - counter \in Int
    BY CounterAssumption DEF ListInv, TypeOK, Ticks
  <2>2. QED
    BY <2>1, SignedType, HalfOfM
<1>4. Left(Head(list))' = b
  BY DEF Left
<1> HIDE DEF a, b, s
<1>5. s <= (IF b <= 0 THEN 1 ELSE b)
  BY <1>1, <1>2, <1>3
<1>6. QED
  BY <1>1, <1>4, <1>5 DEF s

-----------------------------------------------------------------------------
(* Each step of start and stop keeps the invariant. *)

LEMMA BeginOrders ==
  ASSUME Ahead(0), ListInv, ListInv', OrderInv,
         NEW c \in Contexts, NEW x \in Timers, CanCall(c, x),
         NEW time \in Ticks, NEW m \in Mode, Begin(c, x, time, m),
         InSight(time), c # "irq" => Fresh(time),
         m.repeat => m.interval # 0 /\ Ahead(m.interval)
  PROVE  OrderInv'
<1>1. /\ pc' = [pc EXCEPT ![c] = "unlink"] /\ DOMAIN pc = Contexts /\ DOMAIN op = Contexts
      /\ op' = [op EXCEPT ![c] = [timer |-> x, time |-> time, mode |-> m]]
      /\ pc[c] = (IF c = "irq" THEN "callback" ELSE "idle") /\ Runs(c)
      /\ UNCHANGED <<hardware, handler>> /\ UNCHANGED <<list, flags, fireTime, nextTimeout>>
  BY DEF Begin, GoTo, CanCall, ListInv, TypeOK, timers
<1>2. Late' = Late /\ HandlerTime' /\ CompareComputed'
  BY <1>1, CallerSteps DEF Masked
<1>3. counter' = counter /\ busy' = busy /\ cc' = cc /\ timerIsRunning' = timerIsRunning
      /\ events' = events /\ firing' = firing
  BY <1>1 DEF hardware, handler
<1>4. ListSorted'
  BY <1>1, <1>3 DEF OrderInv, ListSorted, Left
<1>5. TimesInSight'
  <2>1. \A y \in Timers : Linked(y)' \/ y = firing' => InSight(fireTime[y])'
    BY <1>1, <1>2, <1>3 DEF OrderInv, TimesInSight, InSight, Linked
  <2>2. \A d \in Contexts : Working(d)' => InSight(op[d].time)'
    BY <1>1, <1>2, <1>3 DEF OrderInv, TimesInSight, InSight, Working
  <2>3. \A d \in Tasks : Working(d)' => Fresh(op[d].time)'
    BY <1>1, <1>2, <1>3 DEF OrderInv, TimesInSight, Fresh, Working, Contexts, Tasks
  <2>4. \A d \in Contexts : pc'[d] = "link" => fireTime'[op'[d].timer] = op'[d].time
    BY <1>1 DEF OrderInv, TimesInSight
  <2>5. QED
    BY <2>1, <2>2, <2>3, <2>4 DEF TimesInSight
<1>6. RepeatingTimers'
  BY <1>1 DEF OrderInv, RepeatingTimers
<1>7. CompareArmed'
  <2>1. UpdateComes <=> UpdateComes'
    BY <1>1, <1>3 DEF UpdateComes, Contexts
  <2>2. QED
    BY <1>1, <1>3, <2>1 DEF OrderInv, CompareArmed, Left
<1>8. QED
  BY <1>2, <1>4, <1>5, <1>6, <1>7 DEF OrderInv

LEMMA StartOrders ==
  ASSUME Disciplined, ListInv, ListInv', OrderInv, NEW c \in Contexts, NEW x \in Timers,
         Start(c, x) \/ (c = "irq" /\ StartAbsolute(x))
  PROVE  OrderInv'
<1>1. TypeOK /\ Ahead(0) /\ Modes[x] \subseteq Mode /\ Delays[x] \subseteq Nat
  BY FastTimerAssumption DEF ListInv, Disciplined
<1>2. CanCall(c, x)
  BY DEF Start, StartAbsolute
<1>3. PICK d \in Delays[x], m \in Modes[x] :
        \/ Begin(c, x, Later(counter, d), m)
        \/ /\ c = "irq" /\ firing = x /\ Signed(fireTime[x] - counter) <= 0
           /\ Begin(c, x, Later(fireTime[x], d), m)
  BY DEF Start, StartAbsolute
<1>4. d \in Int /\ d >= 0 /\ Ahead(d) /\ m \in Mode /\ (m.repeat => m.interval # 0 /\ Ahead(m.interval))
  BY <1>1, FastTimerAssumption DEF Disciplined
<1>5. CASE Begin(c, x, Later(counter, d), m)
  <2>1. PICK time \in Ticks : /\ time = Later(counter, d)
                              /\ InSight(time) /\ Fresh(time)
    BY <1>1, <1>4, AheadOfCounter
  <2>2. QED
    BY <1>1, <1>2, <1>4, <1>5, <2>1, BeginOrders
<1>6. CASE /\ c = "irq" /\ firing = x /\ Signed(fireTime[x] - counter) <= 0
           /\ Begin(c, x, Later(fireTime[x], d), m)
  <2>1. fireTime[x] \in Ticks /\ InSight(fireTime[x])
    BY <1>1, <1>6 DEF TypeOK, OrderInv, TimesInSight
  <2>2. PICK time \in Ticks : time = Later(fireTime[x], d) /\ InSight(time)
    BY <1>1, <1>4, <1>6, <2>1, LaterTime
  <2>3. QED
    BY <1>1, <1>2, <1>4, <1>6, <2>2, BeginOrders
<1>7. QED
  BY <1>3, <1>5, <1>6

LEMMA UnlinkOrders ==
  ASSUME Ahead(0), ListInv, ListInv', OrderInv, NEW c \in Contexts, Unlink(c)
  PROVE  OrderInv'
<1>1. PICK x \in Timers : x = op[c].timer
  BY DEF ListInv, Operations, Working, Unlink
<1>2. /\ pc' = [pc EXCEPT ![c] = "set"] /\ pc[c] = "unlink" /\ DOMAIN pc = Contexts /\ Runs(c)
      /\ list' = IF flags[x].running THEN removeItem(list, x) ELSE list
      /\ UNCHANGED <<hardware, handler>> /\ UNCHANGED <<flags, fireTime, op, nextTimeout>>
  BY <1>1 DEF Unlink, GoTo, ListInv, TypeOK
<1>3. Late' = Late /\ HandlerTime' /\ CompareComputed'
  BY <1>2, CallerSteps DEF Masked
<1>4. counter' = counter /\ busy' = busy /\ cc' = cc /\ timerIsRunning' = timerIsRunning
      /\ events' = events /\ firing' = firing
  BY <1>2 DEF hardware, handler
<1>5. TypeOK /\ TypeOK' /\ Lists /\ Lists' /\ SortedList
  BY ListNear, ListsMatchNext DEF ListInv
<1>6. Elements(list') \subseteq Elements(list)
  <2>1. list \in Seq(Timers) /\ Distinct(list)
    BY <1>5 DEF TypeOK, Lists
  <2>2. Elements(removeItem(list, x)) = Elements(list) \ {x}
    BY <2>1, removeItemProperties
  <2>3. QED
    BY <1>2, <2>2
<1>7. ListSorted'
  <2>1. LeftAt(fireTime, counter) \in [Timers -> Int]
    BY <1>5, LeftAtType DEF TypeOK
  <2>2. list \in Seq(Timers)
    BY <1>5 DEF TypeOK
  <2>3. Sorted(list', LeftAt(fireTime, counter))
    BY <1>2, <1>5, <2>1, <2>2, RemoveTimerSorted DEF SortedList, removeItem
  <2>4. QED
    BY <1>2, <1>4, <1>5, <2>3, SortedListNext DEF SortedList
<1>8. TimesInSight'
  <2>1. \A y \in Timers : Linked(y)' => Linked(y)
    BY <1>6 DEF Linked, Elements
  <2>2. \A d \in Contexts : Working(d)' => Working(d)
    BY <1>2 DEF Working
  <2>3. \A y \in Timers : Linked(y)' \/ y = firing' => InSight(fireTime[y])'
    BY <1>2, <1>3, <1>4, <2>1 DEF OrderInv, TimesInSight, InSight
  <2>4. \A d \in Contexts : Working(d)' => InSight(op[d].time)'
    BY <1>2, <1>3, <1>4, <2>2 DEF OrderInv, TimesInSight, InSight
  <2>5. \A d \in Tasks : Working(d)' => Fresh(op[d].time)'
    BY <1>2, <1>4, <2>2 DEF OrderInv, TimesInSight, Fresh, Contexts
  <2>6. \A d \in Contexts : pc'[d] = "link" => fireTime'[op'[d].timer] = op'[d].time
    BY <1>2 DEF OrderInv, TimesInSight
  <2>7. QED
    BY <2>3, <2>4, <2>5, <2>6 DEF TimesInSight
<1>9. RepeatingTimers'
  BY <1>2 DEF OrderInv, RepeatingTimers
<1>10. CompareArmed'
  <2>1. SUFFICES ASSUME list' # <<>>, ~UpdateComes' PROVE CompareArmed'
    BY DEF CompareArmed
  <2>2. ~UpdateComes
    BY <1>2, <1>4, <2>1 DEF UpdateComes, Contexts
  <2>3. PICK y \in Listed : y = Head(list')
    <3>1. list' \in Seq(Timers)
      BY <1>5 DEF TypeOK
    <3>2. Head(list') \in Elements(list')
      BY <2>1, <3>1, TailElements
    <3>3. QED
      BY <1>5, <1>6, <3>2 DEF Lists
  <2>4. list # <<>>
    BY <1>5, <2>3 DEF Lists, Elements
  <2>5. QED
    BY <1>2, <1>4, <2>2, <2>3, <2>4, ArmedStays DEF CompareArmed
<1>11. QED
  BY <1>3, <1>7, <1>8, <1>9, <1>10 DEF OrderInv

LEMMA StopOrders ==
  ASSUME Ahead(0), ListInv, ListInv', OrderInv, NEW c \in Contexts, NEW x \in Timers, Stop(c, x)
  PROVE  OrderInv'
<1>1. TypeOK /\ TypeOK' /\ Lists /\ Lists' /\ SortedList
  BY ListNear, ListsMatchNext DEF ListInv
<1>2. /\ pc[c] = (IF c = "irq" THEN "callback" ELSE "idle") /\ Runs(c)
      /\ DOMAIN op = Contexts /\ DOMAIN pc = Contexts
      /\ op' = [op EXCEPT ![c] = NoCall]
      /\ list' = removeItem(list, x)
      /\ flags' = [flags EXCEPT ![x].running = FALSE]
      /\ pc' = [pc EXCEPT ![c] = pc'[c]] /\ pc'[c] \in {"update", "idle", "callback"}
      /\ c = "irq" => pc'[c] # "idle"
      /\ UNCHANGED <<hardware, handler>> /\ UNCHANGED <<fireTime, nextTimeout>>
  BY <1>1 DEF Stop, CanCall, AfterChange, GoTo, Caller, TypeOK, ListInv, HandlerStages
<1>3. Late' = Late /\ HandlerTime' /\ CompareComputed'
  BY <1>2, CallerSteps DEF Masked
<1>4. counter' = counter /\ busy' = busy /\ cc' = cc /\ timerIsRunning' = timerIsRunning
      /\ events' = events /\ firing' = firing
  BY <1>2 DEF hardware, handler
<1>5. Elements(list') \subseteq Elements(list)
  <2>1. list \in Seq(Timers) /\ Distinct(list)
    BY <1>1 DEF TypeOK, Lists
  <2>2. Elements(removeItem(list, x)) = Elements(list) \ {x}
    BY <2>1, removeItemProperties
  <2>3. QED
    BY <1>2, <2>2
<1>6. ListSorted'
  <2>1. LeftAt(fireTime, counter) \in [Timers -> Int]
    BY <1>1, LeftAtType DEF TypeOK
  <2>2. list \in Seq(Timers)
    BY <1>1 DEF TypeOK
  <2>3. Sorted(list', LeftAt(fireTime, counter))
    BY <1>1, <1>2, <2>1, <2>2, RemoveTimerSorted DEF SortedList, removeItem
  <2>4. QED
    BY <1>1, <1>2, <1>4, <2>3, SortedListNext DEF SortedList
<1>7. TimesInSight'
  <2>1. \A y \in Timers : Linked(y)' => Linked(y)
    BY <1>5 DEF Linked, Elements
  <2>2. \A d \in Contexts : Working(d)' => Working(d) /\ op'[d] = op[d]
    BY <1>2 DEF Working
  <2>3. \A y \in Timers : Linked(y)' \/ y = firing' => InSight(fireTime[y])'
    BY <1>2, <1>3, <1>4, <2>1 DEF OrderInv, TimesInSight, InSight
  <2>4. \A d \in Contexts : Working(d)' => InSight(op[d].time)'
    BY <1>3, <1>4, <2>2 DEF OrderInv, TimesInSight, InSight
  <2>5. \A d \in Tasks : Working(d)' => Fresh(op[d].time)'
    BY <1>4, <2>2 DEF OrderInv, TimesInSight, Fresh, Contexts
  <2>6. \A d \in Contexts : pc'[d] = "link" => fireTime'[op'[d].timer] = op'[d].time
    BY <1>2 DEF OrderInv, TimesInSight
  <2>7. QED
    BY <2>3, <2>4, <2>5, <2>6 DEF TimesInSight
<1>8. RepeatingTimers'
  <2>1. \A y \in Timers : flags'[y].repeat = flags[y].repeat /\ flags'[y].interval = flags[y].interval
    <3>1. flags \in [Timers -> Flags]
      BY <1>1 DEF TypeOK
    <3>2. flags'[x] = [flags[x] EXCEPT !.running = FALSE]
      BY <1>2, <3>1
    <3>3. \A y \in Timers : y # x => flags'[y] = flags[y]
      BY <1>2, <3>1
    <3>4. QED
      BY <3>1, <3>2, <3>3 DEF Flags
  <2>2. \A d \in Contexts : op'[d].mode.repeat => op'[d] = op[d]
    BY <1>2 DEF NoCall, NoMode
  <2>3. QED
    BY <2>1, <2>2 DEF OrderInv, RepeatingTimers
<1>9. CompareArmed'
  <2>1. SUFFICES ASSUME list' # <<>>, ~UpdateComes' PROVE CompareArmed'
    BY DEF CompareArmed
  <2>2. ~UpdateComes
    BY <1>2, <1>4, <2>1 DEF UpdateComes, Contexts
  <2>3. PICK y \in Listed : y = Head(list')
    <3>1. list' \in Seq(Timers)
      BY <1>1 DEF TypeOK
    <3>2. Head(list') \in Elements(list')
      BY <2>1, <3>1, TailElements
    <3>3. QED
      BY <1>1, <1>5, <3>2 DEF Lists
  <2>4. list # <<>>
    BY <1>1, <2>3 DEF Lists, Elements
  <2>5. QED
    BY <1>2, <1>4, <2>2, <2>3, <2>4, ArmedStays DEF CompareArmed
<1>10. QED
  BY <1>3, <1>6, <1>7, <1>8, <1>9 DEF OrderInv

LEMMA SetTimerOrders ==
  ASSUME Ahead(0), ListInv, ListInv', OrderInv, NEW c \in Contexts, SetTimer(c)
  PROVE  OrderInv'
<1>1. PICK x \in Timers : x = op[c].timer
  BY DEF ListInv, Operations, Working, SetTimer
<1>2. TypeOK /\ TypeOK' /\ Lists /\ Lists' /\ SortedList
  BY ListNear, ListsMatchNext DEF ListInv
<1>3. /\ pc' = [pc EXCEPT ![c] = "link"] /\ pc[c] = "set" /\ DOMAIN pc = Contexts /\ Runs(c)
      /\ flags' = [flags EXCEPT ![x] = [running |-> TRUE, repeat |-> op[c].mode.repeat,
                                        interval |-> op[c].mode.interval]]
      /\ fireTime' = [fireTime EXCEPT ![x] = op[c].time]
      /\ UNCHANGED <<hardware, handler>> /\ UNCHANGED <<list, op, nextTimeout>>
  BY <1>1, <1>2 DEF SetTimer, GoTo, TypeOK
<1>4. Late' = Late /\ HandlerTime' /\ CompareComputed'
  BY <1>3, CallerSteps DEF Masked
<1>5. counter' = counter /\ busy' = busy /\ cc' = cc /\ timerIsRunning' = timerIsRunning
      /\ events' = events /\ firing' = firing
  BY <1>3 DEF hardware, handler
<1>6. x \notin Listed /\ fireTime'[x] = op[c].time /\ \A y : y # x => fireTime'[y] = fireTime[y]
  BY <1>1, <1>2, <1>3 DEF Listed, BeingStarted, TypeOK
<1>7. ListSorted'
  <2>1. \A y \in Elements(list) : LeftAt(fireTime, counter)[y] = LeftAt(fireTime', counter)[y]
    <3>1. \A y \in Listed : y \in Timers /\ y # x
      BY <1>6 DEF Listed
    <3>2. QED
      BY <1>2, <1>6, <3>1 DEF LeftAt, Lists
  <2>2. Sorted(list, LeftAt(fireTime', counter))
    BY <1>2, <2>1, SortedSame DEF SortedList
  <2>3. QED
    BY <1>2, <1>3, <1>5, <2>2, SortedListNext DEF SortedList
<1>8. TimesInSight'
  <2>1. \A y \in Timers : Linked(y)' => Linked(y) /\ y # x
    BY <1>2, <1>3, <1>6 DEF Linked, Lists, Elements
  <2>2. \A d \in Contexts : Working(d)' <=> Working(d)
    BY <1>3 DEF Working
  <2>3. InSight(op[c].time)
    BY <1>3 DEF OrderInv, TimesInSight, Working
  <2>4. ASSUME NEW y \in Timers, Linked(y)' \/ y = firing' PROVE InSight(fireTime[y])'
    <3>1. InSight(fireTime[y]) \/ y = x
      BY <1>5, <2>1, <2>4 DEF OrderInv, TimesInSight
    <3>2. QED
      BY <1>4, <1>5, <1>6, <2>3, <3>1 DEF InSight
  <2>5. \A d \in Contexts : Working(d)' => InSight(op[d].time)'
    BY <1>3, <1>4, <1>5, <2>2 DEF OrderInv, TimesInSight, InSight
  <2>6. \A d \in Tasks : Working(d)' => Fresh(op[d].time)'
    BY <1>3, <1>5, <2>2 DEF OrderInv, TimesInSight, Fresh, Contexts
  <2>7. ASSUME NEW d \in Contexts, pc'[d] = "link" PROVE fireTime'[op'[d].timer] = op'[d].time
    <3>1. CASE d = c
      BY <1>1, <1>3, <1>6, <3>1
    <3>2. CASE d # c
      <4>1. pc[d] = "link" /\ Between(c) /\ Between(d) /\ Working(c) /\ Working(d)
        BY <1>3, <2>7, <3>2 DEF Between, Working
      <4>2. c \in Tasks \/ d \in Tasks
        BY <3>2 DEF Contexts
      <4>3. op[d].timer # x
        BY <1>1, <3>2, <4>1, <4>2, OneStarts DEF ListInv
      <4>4. QED
        BY <1>3, <1>6, <4>1, <4>3 DEF OrderInv, TimesInSight
    <3>3. QED
      BY <3>1, <3>2
  <2>8. QED
    BY <2>4, <2>5, <2>6, <2>7 DEF TimesInSight
<1>9. RepeatingTimers'
  <2>1. flags'[x].repeat = op[c].mode.repeat /\ flags'[x].interval = op[c].mode.interval
        /\ \A y \in Timers : y # x => flags'[y] = flags[y]
    BY <1>2, <1>3 DEF TypeOK
  <2>2. QED
    BY <1>3, <2>1 DEF OrderInv, RepeatingTimers
<1>10. CompareArmed'
  <2>1. SUFFICES ASSUME list' # <<>>, ~UpdateComes' PROVE CompareArmed'
    BY DEF CompareArmed
  <2>2. ~UpdateComes
    BY <1>3, <1>5, <2>1 DEF UpdateComes, Contexts
  <2>3. PICK y \in Listed : y = Head(list') /\ y # x
    BY <1>3, <1>6, <2>1, ListNear
  <2>4. QED
    BY <1>3, <1>5, <1>6, <2>1, <2>2, <2>3, ArmedStays DEF CompareArmed
<1>11. QED
  BY <1>4, <1>7, <1>8, <1>9, <1>10 DEF OrderInv

LEMMA LinkOrders ==
  ASSUME Ahead(0), ListInv, ListInv', OrderInv, NEW c \in Contexts, Link(c)
  PROVE  OrderInv'
<1>1. PICK x \in Timers : x = op[c].timer
  BY DEF ListInv, Operations, Working, Link
<1>2. TypeOK /\ TypeOK' /\ Lists /\ Lists' /\ SortedList
  BY ListNear, ListsMatchNext DEF ListInv
<1>3. /\ pc[c] = "link" /\ Runs(c) /\ DOMAIN op = Contexts /\ DOMAIN pc = Contexts
      /\ op' = [op EXCEPT ![c] = NoCall]
      /\ list' = addItem(list, x, fireTime)
      /\ pc' = [pc EXCEPT ![c] = pc'[c]] /\ pc'[c] \in {"update", "idle", "callback"}
      /\ c = "irq" => pc'[c] # "idle"
      /\ pc'[c] # "update" => Head(list') # x
      /\ UNCHANGED <<hardware, handler>> /\ UNCHANGED <<flags, fireTime, nextTimeout>>
  BY <1>1, <1>2 DEF Link, AfterChange, GoTo, Caller, TypeOK, ListInv, HandlerStages
<1>4. Late' = Late /\ HandlerTime' /\ CompareComputed'
  BY <1>3, CallerSteps DEF Masked
<1>5. counter' = counter /\ busy' = busy /\ cc' = cc /\ timerIsRunning' = timerIsRunning
      /\ events' = events /\ firing' = firing
  BY <1>3 DEF hardware, handler
<1>6. Elements(list') = Listed \cup {x}
  <2>1. list \in Seq(Timers) /\ Elements(list) = Listed
    BY <1>2 DEF TypeOK, Lists
  <2>2. QED
    BY <1>3, <2>1, addItemProperties
<1>7. InSight(fireTime[x])
  BY <1>1, <1>3 DEF OrderInv, TimesInSight, Working
<1>8. ListSorted'
  <2>1. /\ list \in Seq(Timers) /\ Elements(list) = Listed
        /\ fireTime \in [Timers -> Ticks] /\ counter \in Ticks
    BY <1>2 DEF TypeOK, Lists
  <2>2. Near(LeftAt(fireTime, counter)[x])
    BY <1>2, <1>7, <2>1, InSightNear DEF LeftAt
  <2>3. \A y \in Listed : Near(LeftAt(fireTime, counter)[y])
    BY <1>2, ListNear, LeftType
  <2>4. Sorted(addItem(list, x, fireTime), LeftAt(fireTime, counter))
    BY <1>2, <2>1, <2>2, <2>3, addItemSorted DEF SortedList
  <2>5. QED
    BY <1>2, <1>3, <1>5, <2>4, SortedListNext DEF SortedList
<1>9. TimesInSight'
  <2>1. \A y \in Timers : Linked(y)' => Linked(y) \/ y = x
    BY <1>2, <1>6 DEF Linked, Elements, Lists
  <2>2. \A d \in Contexts : Working(d)' => Working(d) /\ op'[d] = op[d]
    BY <1>3 DEF Working
  <2>3. \A y \in Timers : Linked(y)' \/ y = firing' => InSight(fireTime[y])'
    BY <1>3, <1>4, <1>5, <1>7, <2>1 DEF OrderInv, TimesInSight, InSight
  <2>4. \A d \in Contexts : Working(d)' => InSight(op[d].time)'
    BY <1>4, <1>5, <2>2 DEF OrderInv, TimesInSight, InSight
  <2>5. \A d \in Tasks : Working(d)' => Fresh(op[d].time)'
    BY <1>5, <2>2 DEF OrderInv, TimesInSight, Fresh, Contexts
  <2>6. \A d \in Contexts : pc'[d] = "link" => fireTime'[op'[d].timer] = op'[d].time
    BY <1>3 DEF OrderInv, TimesInSight
  <2>7. QED
    BY <2>3, <2>4, <2>5, <2>6 DEF TimesInSight
<1>10. RepeatingTimers'
  <2>1. \A d \in Contexts : op'[d].mode.repeat => op'[d] = op[d]
    BY <1>3 DEF NoCall, NoMode
  <2>2. QED
    BY <1>3, <2>1 DEF OrderInv, RepeatingTimers
<1>11. CompareArmed'
  <2>1. SUFFICES ASSUME list' # <<>>, ~UpdateComes' PROVE CompareArmed'
    BY DEF CompareArmed
  <2>2. ~UpdateComes /\ pc'[c] # "update"
    BY <1>3, <1>5, <2>1 DEF UpdateComes, Contexts
  <2>3. PICK y \in Listed : y = Head(list')
    <3>1. list' \in Seq(Timers)
      BY <1>2 DEF TypeOK
    <3>2. Head(list') \in Elements(list')
      BY <2>1, <3>1, TailElements
    <3>3. QED
      BY <1>3, <1>6, <2>2, <3>2
  <2>4. list # <<>>
    BY <1>2, <2>3 DEF Lists, Elements
  <2>5. QED
    BY <1>3, <1>5, <2>2, <2>3, <2>4, ArmedStays DEF CompareArmed
<1>12. QED
  BY <1>4, <1>8, <1>9, <1>10, <1>11 DEF OrderInv

-----------------------------------------------------------------------------
(* updateTimeout *)

(* The next count is one ahead. *)
LEMMA NextCountAhead ==
  ASSUME Ahead(0), TypeOK
  PROVE  /\ Later(counter, 1) \in Ticks
         /\ Signed(Later(counter, 1) - counter) = 1
<1>1. counter \in Ticks /\ counter \in Int /\ counter - counter = 0
      /\ 0 \in -Half .. Half - 1 /\ 1 \in -Half .. Half - 1
  <2>1. counter \in Ticks /\ counter \in Int /\ counter - counter = 0
    BY CounterAssumption DEF TypeOK, Ticks
  <2>2. Half \in Int /\ Half > 1
    <3> HIDE DEF Ahead, MaxLate
    <3>1. QED
      BY Bounds
  <2>3. QED
    BY <2>1, <2>2
<1>2. Signed(counter - counter) = 0
  BY <1>1, SignedOfSmall
<1>3. Signed(((counter + 1) % M) - counter) = 1
  BY <1>1, <1>2, SignedAdd
<1>4. QED
  BY <1>1, <1>3, NextCount DEF Later

(* What updateTimeout computes is ahead, and in time for the first timer. *)
LEMMA ComputesInTime ==
  ASSUME Ahead(0), ListInv, OrderInv, NEW c \in Contexts, updateTimeout(c), list # <<>>
  PROVE  /\ timerIsRunning' /\ pc' = [pc EXCEPT ![c] = "write"]
         /\ Signed(nextTimeout' - counter) \in Int /\ Signed(nextTimeout' - counter) > 0
         /\ Signed(nextTimeout' - counter) <=
              (IF Left(Head(list)) <= 0 THEN 1 ELSE Left(Head(list)))
<1>1. /\ timerIsRunning' /\ pc' = [pc EXCEPT ![c] = "write"]
      /\ nextTimeout' = IF Left(Head(list)) <= 0 THEN Later(counter, 1) ELSE fireTime[Head(list)]
  BY DEF updateTimeout, GoTo, Left
<1>2. Left(Head(list)) \in Int /\ TypeOK
  BY ListNear
<1>3. CASE Left(Head(list)) <= 0
  BY <1>1, <1>2, <1>3, NextCountAhead
<1>4. CASE ~(Left(Head(list)) <= 0)
  <2>1. Signed(nextTimeout' - counter) = Left(Head(list))
    BY <1>1, <1>4 DEF Left
  <2>2. QED
    BY <1>1, <1>2, <1>4, <2>1
<1>5. QED
  BY <1>3, <1>4

LEMMA updateTimeoutOrders ==
  ASSUME Ahead(0), ListInv, ListInv', OrderInv, NEW c \in Contexts, updateTimeout(c),
         \A d \in Contexts : ~Masked(d), ~Working(c),
         UNCHANGED <<timers, op, firing, counter, cc, events, busy>>,
         TimesInSight', HandlerTime'
  PROVE  OrderInv'
<1>1. UNCHANGED <<list, flags, fireTime>>
  BY DEF timers
<1>2. /\ DOMAIN pc = Contexts /\ pc' = [pc EXCEPT ![c] = pc'[c]]
      /\ pc'[c] = IF list = <<>> THEN Caller(c) ELSE "write"
  BY DEF updateTimeout, GoTo, ListInv, TypeOK
<1>3. Caller(c) \in {"idle", "callback"}
  BY DEF Caller
<1>4. ListSorted' /\ RepeatingTimers'
  BY <1>1 DEF OrderInv, ListSorted, RepeatingTimers, Left
<1>5. CompareArmed'
  BY <1>1, <1>2 DEF CompareArmed, UpdateComes
<1>6. CompareComputed'
  <2>1. CASE list = <<>>
    BY <1>2, <1>3, <2>1 DEF CompareComputed, Masked
  <2>2. CASE list # <<>>
    <3>1. /\ timerIsRunning' /\ pc' = [pc EXCEPT ![c] = "write"]
          /\ Signed(nextTimeout' - counter) \in Int /\ Signed(nextTimeout' - counter) > 0
          /\ Signed(nextTimeout' - counter) <=
               (IF Left(Head(list)) <= 0 THEN 1 ELSE Left(Head(list)))
      BY <2>2, ComputesInTime
    <3>2. \A d \in Contexts : Masked(d)' => d = c /\ pc'[d] = "write"
      BY <1>2, <2>2 DEF Masked
    <3>3. InTime(nextTimeout)'
      BY <1>1, <3>1 DEF InTime, Left
    <3>4. -busy' <= Signed(nextTimeout' - counter')
      BY <3>1, LateBounds, FastTimerAssumption DEF ListInv, TypeOK
    <3>5. QED
      BY <1>1, <2>2, <3>1, <3>2, <3>3, <3>4 DEF CompareComputed
  <2>3. QED
    BY <2>1, <2>2
<1>7. QED
  BY <1>4, <1>5, <1>6 DEF OrderInv

LEMMA UpdateOrders ==
  ASSUME Ahead(0), ListInv, ListInv', OrderInv, NEW c \in Contexts, Update(c)
  PROVE  OrderInv'
<1>1. /\ Runs(c) /\ pc[c] = "update" /\ updateTimeout(c) /\ DOMAIN pc = Contexts
      /\ UNCHANGED <<list, flags, fireTime, op, firing, current, counter, cc, events, busy>>
      /\ UNCHANGED timers
  BY DEF Update, timers, handler, ListInv, TypeOK
<1>2. pc' = [pc EXCEPT ![c] = pc'[c]] /\ pc'[c] \in {"idle", "callback", "write"}
  BY <1>1 DEF updateTimeout, GoTo, Caller
<1>3. \A d \in Contexts : ~Masked(d)
  BY <1>1, NobodyMasked DEF Masked
<1>4. InHandler' <=> InHandler
  BY <1>1, <1>2 DEF InHandler, Contexts
<1>5. Late' = Late
  BY <1>1, <1>4 DEF Late, Pending
<1>6. HandlerTime'
  BY <1>1, <1>4 DEF OrderInv, HandlerTime
<1>7. \A d \in Contexts : /\ Working(d)' <=> Working(d)
                          /\ pc'[d] = "link" <=> pc[d] = "link"
  BY <1>1, <1>2 DEF Working
<1>8. TimesInSight'
  BY <1>1, <1>5, <1>7 DEF OrderInv, TimesInSight, InSight, Fresh, Linked, Contexts
<1>9. QED
  BY <1>1, <1>3, <1>6, <1>8, updateTimeoutOrders DEF Working

(***************************************************************************)
(* The handler ends when no timer is due any more at the time it began:    *)
(* all timers are late by less than the time since.                        *)
(***************************************************************************)
LEMMA NoneDue ==
  ASSUME Ahead(0), ListInv, OrderInv, InHandler, ~Due, NEW y \in Listed
  PROVE  -busy <= Left(y)
<1> DEFINE h == Head(list)
           a == Left(h)
           b == Signed(current - counter)
           r == Left(y)
<1>1. y \in Timers /\ Linked(y) /\ r \in Int /\ TypeOK
  BY ListNear
<1>2. list # <<>>
  BY <1>1 DEF Linked
<1>3. h \in Timers /\ a \in Int /\ Near(a) /\ a <= r
  BY <1>1, <1>2, ListNear
<1>4. b \in -busy .. 0 /\ busy \in Nat /\ busy <= MaxBusy /\ MaxBusy \in Nat
  BY LateBounds, FastTimerAssumption DEF OrderInv, HandlerTime, ListInv
<1>5. fireTime[h] \in Int /\ current \in Int /\ counter \in Int
  BY <1>1, <1>3, CounterAssumption DEF TypeOK, Ticks
<1>6. ~(Signed(fireTime[h] - current) <= 0)
  BY <1>2 DEF Due
<1>7. a - b \in -Half .. Half - 1
  <2> HIDE DEF a, b, Ahead, MaxLate
  <2>1. QED
    BY <1>3, <1>4, Bounds DEF Near
<1>8. Signed(fireTime[h] - current) = a - b
  BY <1>5, <1>7, SignedDifference, ZenonT(60) DEF Left
<1> HIDE DEF a, b, h, r
<1>9. -busy <= r
  BY <1>1, <1>3, <1>4, <1>6, <1>8
<1>10. QED
  BY <1>9 DEF r

LEMMA FinishOrders ==
  ASSUME Ahead(0), ListInv, ListInv', OrderInv, Finish
  PROVE  OrderInv'
<1>1. /\ pc["irq"] = "walk" /\ ~Due /\ updateTimeout("irq") /\ DOMAIN pc = Contexts
      /\ UNCHANGED <<list, flags, fireTime, op, firing, counter, cc, events, busy>>
      /\ UNCHANGED timers /\ "irq" \in Contexts
  BY DEF Finish, timers, ListInv, TypeOK, Contexts
<1>2. firing = Nothing /\ InHandler /\ \A d \in Contexts : ~Masked(d)
  BY <1>1 DEF ListInv, HandlerStages, Exclusion, InHandler, Masked, Contexts
<1>3. pc' = [pc EXCEPT !["irq"] = pc'["irq"]] /\ pc'["irq"] \in {"idle", "write"}
  BY <1>1, <1>2 DEF updateTimeout, GoTo, Caller
<1>4. HandlerTime'
  BY <1>1, <1>2, <1>3 DEF HandlerTime, InHandler
<1>5. busy \in Nat /\ Late' \in Int /\ busy <= Late'
  BY <1>1, FastTimerAssumption DEF Late, ListInv, TypeOK
<1> HIDE DEF Late
<1>6. \A d \in Contexts : /\ Working(d)' => Working(d) /\ d \in Tasks
                          /\ pc'[d] = "link" <=> pc[d] = "link"
  BY <1>1, <1>3 DEF Working, Contexts
<1>7. TimesInSight'
  <2>1. ASSUME NEW y \in Timers, Linked(y)' \/ y = firing' PROVE InSight(fireTime[y])'
    <3>1. Linked(y)
      BY <1>1, <1>2, <2>1, FastTimerAssumption DEF Linked
    <3>2. y \in Listed
      <4>1. y \in Elements(list)
        BY <3>1 DEF Linked, Elements
      <4>2. QED
        BY <4>1, ListNear DEF Lists
    <3>3. -busy <= Left(y) /\ Left(y) \in Int
      BY <1>1, <1>2, <3>2, NoneDue, ListNear
    <3>4. Ahead(Left(y)) /\ Left(y) = Signed(fireTime[y] - counter)
      BY <3>1 DEF OrderInv, TimesInSight, InSight, Left
    <3>5. -Late' <= Left(y)
      BY <1>5, <3>3
    <3>6. QED
      BY <1>1, <3>4, <3>5 DEF InSight
  <2>2. ASSUME NEW d \in Contexts, Working(d)' PROVE InSight(op[d].time)' /\ Fresh(op[d].time)'
    <3>1. Fresh(op[d].time)
      BY <1>6, <2>2 DEF OrderInv, TimesInSight
    <3>2. Signed(op[d].time - counter) \in Int
      <4>1. op[d].time - counter \in Int
        BY CounterAssumption, SMTT(30) DEF ListInv, TypeOK, Call, Ticks
      <4>2. QED
        BY <4>1, SignedType, HalfOfM
    <3>3. -busy <= Signed(op[d].time - counter) /\ Ahead(Signed(op[d].time - counter))
      BY <3>1 DEF Fresh
    <3>4. -Late' <= Signed(op[d].time - counter)
      BY <1>5, <3>2, <3>3
    <3>5. QED
      BY <1>1, <3>3, <3>4 DEF InSight, Fresh
  <2>3. \A d \in Contexts : pc'[d] = "link" => fireTime'[op'[d].timer] = op'[d].time
    BY <1>1, <1>6 DEF OrderInv, TimesInSight
  <2>4. QED
    BY <2>1, <2>2, <2>3 DEF TimesInSight, Contexts
<1>8. QED
  BY <1>1, <1>2, <1>4, <1>7, updateTimeoutOrders DEF Working

LEMMA WriteCompareOrders ==
  ASSUME Ahead(0), ListInv, ListInv', OrderInv, NEW c \in Contexts, WriteCompare(c)
  PROVE  OrderInv'
<1>1. /\ pc[c] = "write" /\ pc' = [pc EXCEPT ![c] = "check"] /\ DOMAIN pc = Contexts
      /\ cc' = nextTimeout
      /\ UNCHANGED <<list, flags, fireTime, op, firing, current, counter, timerIsRunning,
                     events, busy, nextTimeout>>
  BY DEF WriteCompare, GoTo, timers, handler, ListInv, TypeOK
<1>2. InHandler' <=> InHandler
  BY <1>1 DEF InHandler, Contexts
<1>3. Late' = Late /\ HandlerTime'
  BY <1>1, <1>2 DEF Late, Pending, OrderInv, HandlerTime
<1>4. \A d \in Contexts : /\ Working(d)' <=> Working(d)
                          /\ pc'[d] = "link" <=> pc[d] = "link"
                          /\ Masked(d)' <=> Masked(d)
  BY <1>1 DEF Working, Masked
<1>5. TimesInSight'
  BY <1>1, <1>3, <1>4 DEF OrderInv, TimesInSight, InSight, Fresh, Linked, Contexts
<1>6. ListSorted' /\ RepeatingTimers'
  BY <1>1 DEF OrderInv, ListSorted, RepeatingTimers, Left
<1>7. CompareComputed'
  BY <1>1, <1>4 DEF OrderInv, CompareComputed, InTime, Left
<1>8. CompareArmed'
  BY <1>1 DEF CompareArmed, UpdateComes
<1>9. QED
  BY <1>3, <1>5, <1>6, <1>7, <1>8 DEF OrderInv

LEMMA CheckCompareOrders ==
  ASSUME Ahead(0), ListInv, ListInv', OrderInv, NEW c \in Contexts, CheckCompare(c)
  PROVE  OrderInv'
<1>1. /\ pc[c] = "check" /\ Masked(c) /\ DOMAIN pc = Contexts
      /\ UNCHANGED <<list, flags, fireTime, op, firing, current, counter, timerIsRunning,
                     events, busy, cc>>
      /\ \/ nextTimeout' = Later(counter, 1) /\ pc' = [pc EXCEPT ![c] = "write"]
         \/ Signed(nextTimeout - counter) > 0 /\ pc' = [pc EXCEPT ![c] = Caller(c)]
  BY DEF CheckCompare, GoTo, timers, hardware, handler, ListInv, TypeOK, Masked
<1>2. pc' = [pc EXCEPT ![c] = pc'[c]] /\ pc'[c] \in {"idle", "callback", "write"}
  BY <1>1 DEF Caller
<1>3. InHandler' <=> InHandler
  BY <1>1, <1>2 DEF InHandler, Contexts
<1>4. Late' = Late /\ HandlerTime'
  BY <1>1, <1>3 DEF Late, Pending, OrderInv, HandlerTime
<1>5. \A d \in Contexts : /\ Working(d)' <=> Working(d)
                          /\ pc'[d] = "link" <=> pc[d] = "link"
                          /\ Masked(d)' => d = c
  BY <1>1, <1>2 DEF Working, Masked, ListInv, Exclusion
<1>6. TimesInSight'
  BY <1>1, <1>4, <1>5 DEF OrderInv, TimesInSight, InSight, Fresh, Linked, Contexts
<1>7. ListSorted' /\ RepeatingTimers'
  BY <1>1 DEF OrderInv, ListSorted, RepeatingTimers, Left
<1>8. /\ list # <<>> /\ timerIsRunning /\ cc = nextTimeout
      /\ Signed(nextTimeout - counter) <= (IF Left(Head(list)) <= 0 THEN 1 ELSE Left(Head(list)))
  BY <1>1 DEF OrderInv, CompareComputed, InTime
<1>9. CompareComputed'
  <2>1. CASE nextTimeout' = Later(counter, 1) /\ pc' = [pc EXCEPT ![c] = "write"]
    <3>1. Signed(nextTimeout' - counter) = 1
      BY <2>1, NextCountAhead DEF ListInv
    <3>2. busy \in Nat /\ Left(Head(list)) \in Int
      BY <1>8, ListNear, FastTimerAssumption DEF TypeOK
    <3>3. -busy' <= Signed(nextTimeout' - counter')
      BY <1>1, <3>1, <3>2
    <3>4. InTime(nextTimeout)'
      BY <1>1, <3>1, <3>2 DEF InTime, Left
    <3>5. QED
      BY <1>1, <1>5, <1>8, <2>1, <3>3, <3>4 DEF CompareComputed
  <2>2. CASE pc' = [pc EXCEPT ![c] = Caller(c)]
    BY <1>1, <1>5, <2>2 DEF CompareComputed, Masked, Caller
  <2>3. QED
    BY <1>1, <2>1, <2>2
<1>10. CompareArmed'
  <2>1. CASE pc' = [pc EXCEPT ![c] = "write"]
    BY <1>1, <2>1 DEF CompareArmed, UpdateComes
  <2>2. CASE Signed(nextTimeout - counter) > 0
    BY <1>1, <1>8, <2>2 DEF CompareArmed, Left
  <2>3. QED
    BY <1>1, <2>1, <2>2
<1>11. QED
  BY <1>4, <1>6, <1>7, <1>9, <1>10 DEF OrderInv

-----------------------------------------------------------------------------
(* The handler *)

LEMMA InterruptOrders ==
  ASSUME Ahead(0), ListInv, ListInv', OrderInv, Interrupt
  PROVE  OrderInv'
<1>1. /\ pc["irq"] = "idle" /\ pc' = [pc EXCEPT !["irq"] = "clear"] /\ DOMAIN pc = Contexts
      /\ Runs("irq") /\ events # {} /\ current' = counter
      /\ UNCHANGED <<list, flags, fireTime, op, firing, counter, busy, events>>
      /\ "irq" \in Contexts
  BY DEF Interrupt, GoTo, timers, hardware, ListInv, TypeOK, Contexts
<1>2. Late' = Late
  BY <1>1 DEF Late, Pending
<1>3. HandlerTime'
  <2>1. counter - counter = 0 /\ 0 \in -Half .. Half - 1 /\ busy \in Nat
    BY HalfOfM, CounterAssumption, FastTimerAssumption DEF ListInv, TypeOK, Ticks
  <2>2. Signed(counter - counter) = 0
    BY <2>1, SignedOfSmall
  <2>3. QED
    BY <1>1, <2>1, <2>2 DEF HandlerTime
<1>4. \A d \in Contexts : /\ Working(d)' <=> Working(d)
                          /\ pc'[d] = "link" <=> pc[d] = "link"
                          /\ ~Masked(d)'
  <2>1. \A d \in Contexts : ~Masked(d)
    BY <1>1, NobodyMasked DEF Masked
  <2>2. QED
    BY <1>1, <2>1 DEF Working, Masked
<1>5. TimesInSight'
  BY <1>1, <1>2, <1>4 DEF OrderInv, TimesInSight, InSight, Fresh, Linked, Contexts
<1>6. ListSorted' /\ RepeatingTimers'
  BY <1>1 DEF OrderInv, ListSorted, RepeatingTimers, Left
<1>7. CompareComputed' /\ CompareArmed'
  BY <1>1, <1>4 DEF CompareComputed, CompareArmed, UpdateComes
<1>8. QED
  BY <1>3, <1>5, <1>6, <1>7 DEF OrderInv

LEMMA WalkOrders ==
  ASSUME Ahead(0), ListInv, ListInv', OrderInv, ClearEvents \/ Return
  PROVE  OrderInv'
<1>1. /\ pc["irq"] \in {"clear", "callback"} /\ pc' = [pc EXCEPT !["irq"] = "walk"]
      /\ DOMAIN pc = Contexts /\ firing' \in {firing, Nothing}
      /\ UNCHANGED <<list, flags, fireTime, op, counter, busy, current>>
      /\ "irq" \in Contexts
  BY DEF ClearEvents, Return, GoTo, timers, hardware, handler, ListInv, TypeOK, Contexts
<1>2. InHandler /\ InHandler'
  BY <1>1 DEF InHandler, ListInv, HandlerStages
<1>3. Late' = Late /\ HandlerTime'
  BY <1>1, <1>2 DEF Late, Pending, OrderInv, HandlerTime
<1>4. \A d \in Contexts : /\ Working(d)' <=> Working(d)
                          /\ pc'[d] = "link" <=> pc[d] = "link"
                          /\ ~Masked(d)'
  <2>1. \A d \in Contexts : ~Masked(d)
    BY <1>1 DEF Masked, ListInv, Exclusion, Contexts
  <2>2. QED
    BY <1>1, <2>1 DEF Working, Masked
<1>5. \A y \in Timers : y = firing' => y = firing
  BY <1>1, FastTimerAssumption
<1>6. TimesInSight'
  BY <1>1, <1>3, <1>4, <1>5 DEF OrderInv, TimesInSight, InSight, Fresh, Linked, Contexts
<1>7. ListSorted' /\ RepeatingTimers'
  BY <1>1 DEF OrderInv, ListSorted, RepeatingTimers, Left
<1>8. CompareComputed' /\ CompareArmed'
  BY <1>1, <1>4 DEF CompareComputed, CompareArmed, UpdateComes
<1>9. QED
  BY <1>3, <1>6, <1>7, <1>8 DEF OrderInv

(* The timer that fires is the first, due, and repeats after what was due. *)
LEMMA FiresFirst ==
  ASSUME Ahead(0), ListInv, OrderInv, Fire, NEW x, x = Head(list)
  PROVE  /\ x \in Listed /\ x \in Timers /\ flags[x].running
         /\ Left(x) \in Int /\ Left(x) <= 0 /\ InSight(fireTime[x])
         /\ \A y \in Listed : Left(x) <= Left(y)
         /\ Tail(list) \in Seq(Timers) /\ Elements(Tail(list)) = Listed \ {x}
         /\ flags[x].repeat =>
              /\ fireTime'[x] \in Ticks /\ InSight(fireTime'[x])
              /\ Left(x)' = Left(x) + flags[x].interval /\ flags[x].interval # 0
<1>1. TypeOK /\ Lists
  BY ListNear
<1>2. list # <<>> /\ Signed(fireTime[x] - current) <= 0 /\ InHandler /\ counter' = counter
  BY DEF Fire, Due, InHandler, hardware
<1>3. /\ x \in Listed /\ x \in Timers /\ flags[x].running
      /\ Left(x) \in Int /\ Near(Left(x))
      /\ \A y \in Listed : Left(x) <= Left(y)
  BY <1>2, ListNear DEF Listed
<1>4. Tail(list) \in Seq(Timers) /\ Elements(Tail(list)) = Listed \ {x}
  <2>1. list \in Seq(Timers) /\ Distinct(list) /\ Elements(list) = Listed
    BY <1>1 DEF TypeOK, Lists
  <2>2. QED
    BY <1>2, <2>1, TailProperties
<1>5. InSight(fireTime[x]) /\ fireTime[x] \in Ticks
  <2>1. Linked(x)
    BY <1>3, ListNear
  <2>2. QED
    BY <1>1, <1>3, <2>1 DEF OrderInv, TimesInSight, TypeOK
<1>6. Left(x) <= 0
  <2> DEFINE a == Left(x)
             b == Signed(current - counter)
  <2>1. b \in -busy .. 0 /\ busy \in Nat /\ busy <= MaxBusy /\ MaxBusy \in Nat
    BY <1>1, <1>2, LateBounds, FastTimerAssumption DEF OrderInv, HandlerTime
  <2>2. fireTime[x] \in Int /\ current \in Int /\ counter \in Int
    BY <1>1, <1>5, CounterAssumption DEF TypeOK, Ticks
  <2>3. a - b \in -Half .. Half - 1
    <3> HIDE DEF a, b, Ahead, MaxLate
    <3>1. a \in Int /\ Near(a)
      BY <1>3 DEF a
    <3>2. QED
      BY <2>1, <3>1, Bounds DEF Near
  <2>4. Signed(fireTime[x] - current) = a - b
    BY <2>2, <2>3, SignedDifference DEF Left
  <2> HIDE DEF a, b
  <2>5. a <= 0
    <3>1. a \in Int
      BY <1>3 DEF a
    <3>2. QED
      BY <1>2, <2>1, <2>4, <3>1
  <2>6. QED
    BY <2>5 DEF a
<1>7. ASSUME flags[x].repeat
      PROVE  /\ fireTime'[x] \in Ticks /\ InSight(fireTime'[x])
             /\ Left(x)' = Left(x) + flags[x].interval /\ flags[x].interval # 0
  <2>1. /\ flags[x].interval \in Int /\ flags[x].interval >= 0
        /\ flags[x].interval # 0 /\ Ahead(flags[x].interval)
    BY <1>1, <1>3, <1>7, CounterAssumption DEF TypeOK, Flags, OrderInv, RepeatingTimers
  <2>2. fireTime'[x] = Later(fireTime[x], flags[x].interval)
    BY <1>1, <1>3, <1>7 DEF Fire, TypeOK
  <2>3. QED
    BY <1>1, <1>2, <1>5, <1>6, <2>1, <2>2, LaterTime DEF Left
<1>8. QED
  BY <1>3, <1>4, <1>5, <1>6, <1>7

LEMMA FireOrders ==
  ASSUME Ahead(0), ListInv, ListInv', OrderInv, Fire
  PROVE  OrderInv'
<1>1. PICK x : x = Head(list)
  OBVIOUS
<1>2. /\ x \in Listed /\ x \in Timers /\ flags[x].running
      /\ Tail(list) \in Seq(Timers) /\ Elements(Tail(list)) = Listed \ {x}
      /\ InSight(fireTime[x])
      /\ flags[x].repeat => fireTime'[x] \in Ticks /\ InSight(fireTime'[x])
  BY <1>1, FiresFirst
<1>3. /\ pc["irq"] = "walk" /\ pc' = [pc EXCEPT !["irq"] = "callback"] /\ firing' = x
      /\ UNCHANGED <<op, current, counter, busy, events>>
      /\ DOMAIN pc = Contexts /\ "irq" \in Contexts
      /\ \/ /\ flags[x].repeat
            /\ fireTime' = [fireTime EXCEPT ![x] = Later(@, flags[x].interval)]
            /\ list' = addItem(Tail(list), x, fireTime')
            /\ UNCHANGED flags
         \/ /\ ~flags[x].repeat
            /\ list' = Tail(list)
            /\ flags' = [flags EXCEPT ![x].running = FALSE]
            /\ UNCHANGED fireTime
  BY <1>1 DEF Fire, GoTo, hardware, ListInv, TypeOK, Contexts
<1>4. TypeOK /\ TypeOK' /\ Lists /\ Lists' /\ SortedList
  BY ListNear, ListsMatchNext DEF ListInv
<1>5. InHandler /\ InHandler'
  BY <1>2, <1>3, FastTimerAssumption DEF InHandler
<1>6. Late' = Late /\ HandlerTime'
  BY <1>3, <1>5 DEF Late, Pending, OrderInv, HandlerTime
<1>7. \A y \in Timers : y # x => fireTime'[y] = fireTime[y]
  BY <1>3, <1>4 DEF TypeOK
<1>8. \A y \in Timers : flags'[y].repeat = flags[y].repeat /\ flags'[y].interval = flags[y].interval
  <2>1. flags \in [Timers -> Flags]
    BY <1>4 DEF TypeOK
  <2>2. CASE flags' = flags
    BY <2>2
  <2>3. CASE flags' = [flags EXCEPT ![x].running = FALSE]
    <3>1. flags'[x] = [flags[x] EXCEPT !.running = FALSE]
      BY <1>2, <2>1, <2>3
    <3>2. \A y \in Timers : y # x => flags'[y] = flags[y]
      BY <2>1, <2>3
    <3>3. QED
      BY <2>1, <3>1, <3>2 DEF Flags
  <2>4. QED
    BY <1>3, <2>2, <2>3
<1>9. InSight(fireTime'[x])
  BY <1>2, <1>3
<1>10. Elements(list') \subseteq Listed
  <2>1. \A fire : Elements(addItem(Tail(list), x, fire)) = Elements(Tail(list)) \cup {x}
    BY <1>2, addItemProperties
  <2>2. QED
    BY <1>2, <1>3, <2>1, ZenonT(40)
<1>11. ListSorted'
  <2>1. Sorted(Tail(list), LeftAt(fireTime, counter))
    <3>1. /\ list \in Seq(Timers) /\ list # <<>>
          /\ LeftAt(fireTime, counter) \in [Timers -> Int]
      BY <1>4, LeftAtType DEF TypeOK, Fire, Due
    <3>2. QED
      BY <1>4, <3>1, HeadIsFirst DEF SortedList
  <2>2. CASE flags[x].repeat
    <3>1. PICK fire \in [Timers -> Ticks] : fire = fireTime'
      BY <1>4 DEF TypeOK
    <3>2. counter \in Ticks
      BY <1>4 DEF TypeOK
    <3>3. \A y \in Elements(Tail(list)) : LeftAt(fireTime, counter)[y] = LeftAt(fire, counter)[y]
      <4>1. \A y \in Elements(Tail(list)) : y \in Timers /\ y # x
        BY <1>2 DEF Listed
      <4>2. QED
        BY <1>7, <3>1, <4>1 DEF LeftAt
    <3>4. Sorted(Tail(list), LeftAt(fire, counter))
      BY <2>1, <3>3, SortedSame
    <3>5. Near(LeftAt(fire, counter)[x])
      <4>1. Near(Signed(fireTime'[x] - counter))
        <5>1. PICK f \in Ticks : f = fireTime'[x] /\ InSight(f)
          BY <1>2, <2>2
        <5>2. QED
          BY <1>4, <5>1, InSightNear
      <4>2. QED
        BY <1>2, <3>1, <4>1 DEF LeftAt
    <3>6. \A y \in Elements(Tail(list)) : Near(LeftAt(fire, counter)[y])
      BY <1>2, <1>4, <3>3, ListNear, LeftType
    <3>7. Sorted(addItem(Tail(list), x, fire), LeftAt(fire, counter))
      BY <1>2, <3>2, <3>4, <3>5, <3>6, addItemSorted
    <3>8. Sorted(list', LeftAt(fireTime', counter'))
      BY <1>3, <2>2, <3>1, <3>7
    <3>9. QED
      BY <1>4, <3>8, SortedListNext DEF SortedList
  <2>3. CASE ~flags[x].repeat
    <3>1. Sorted(list', LeftAt(fireTime', counter'))
      BY <1>3, <2>1, <2>3
    <3>2. QED
      BY <1>4, <3>1, SortedListNext DEF SortedList
  <2>4. QED
    BY <2>2, <2>3
<1>12. \A d \in Contexts : /\ Working(d)' => Working(d)
                           /\ pc'[d] = "link" =>
                                pc[d] = "link" /\ op[d].timer \in Timers \ {x}
                           /\ ~Masked(d)'
  <2>1. \A d \in Contexts : ~Masked(d)
    BY <1>3 DEF Masked, ListInv, Exclusion, Contexts
  <2>2. \A d \in Contexts : pc[d] = "link" => op[d].timer \in Timers \ {x}
    BY <1>2 DEF Listed, BeingStarted, ListInv, Operations, Working
  <2>3. QED
    BY <1>3, <2>1, <2>2 DEF Working, Masked
<1>13. TimesInSight'
  <2>1. ASSUME NEW y \in Timers, Linked(y)' \/ y = firing' PROVE InSight(fireTime[y])'
    <3>1. CASE y = x
      BY <1>3, <1>6, <1>9, <3>1 DEF InSight
    <3>2. CASE y # x
      <4>1. Linked(y)
        <5>1. y \in Elements(list')
          BY <1>3, <2>1, <3>2 DEF Linked, Elements
        <5>2. QED
          BY <1>10, <5>1, ListNear
      <4>2. InSight(fireTime[y])
        BY <4>1 DEF OrderInv, TimesInSight
      <4>3. QED
        BY <1>3, <1>6, <1>7, <3>2, <4>2 DEF InSight
    <3>3. QED
      BY <3>1, <3>2
  <2>2. \A d \in Contexts : Working(d)' => InSight(op[d].time)'
    BY <1>3, <1>6, <1>12 DEF OrderInv, TimesInSight, InSight
  <2>3. \A d \in Tasks : Working(d)' => Fresh(op[d].time)'
    BY <1>3, <1>12 DEF OrderInv, TimesInSight, Fresh, Contexts
  <2>4. \A d \in Contexts : pc'[d] = "link" => fireTime'[op'[d].timer] = op'[d].time
    BY <1>3, <1>7, <1>12 DEF OrderInv, TimesInSight
  <2>5. QED
    BY <2>1, <2>2, <2>3, <2>4 DEF TimesInSight
<1>14. RepeatingTimers'
  BY <1>3, <1>8 DEF OrderInv, RepeatingTimers
<1>15. CompareComputed' /\ CompareArmed'
  BY <1>3, <1>12 DEF CompareComputed, CompareArmed, UpdateComes
<1>16. QED
  BY <1>6, <1>11, <1>13, <1>14, <1>15 DEF OrderInv

-----------------------------------------------------------------------------
(* The counter *)

LEMMA CountSubtracts ==
  ASSUME Ahead(0), TypeOK, Count, NEW f \in Ticks, -MaxLate < Signed(f - counter)
  PROVE  Signed(f - counter) \in Int /\ Signed(f - counter') = Signed(f - counter) - 1
<1> DEFINE s == Signed(f - counter)
<1>1. f \in Int /\ counter \in Int /\ counter' = (counter + 1) % M
  BY CounterAssumption DEF TypeOK, Ticks, Count, Later
<1>2. s \in -Half .. Half - 1
  <2>1. f - counter \in Int
    BY <1>1
  <2>2. QED
    BY <2>1, SignedType
<1> HIDE DEF s, Ahead, MaxLate
<1>3. s - 1 \in -Half .. Half - 1 /\ s \in Int
  <2>1. -MaxLate < s
    BY DEF s
  <2>2. QED
    BY <1>2, <2>1, Bounds
<1>4. Signed(f - counter') = s - 1
  BY <1>1, <1>3, SignedSubtract DEF s
<1>5. QED
  BY <1>3, <1>4 DEF s

(* What the CPU does while it is busy cannot be late by more than that. *)
LEMMA CountBusy ==
  ASSUME Ahead(0), TypeOK, Count, ~Idle, NEW f \in Ticks, InSight(f)
  PROVE  /\ Signed(f - counter) \in Int /\ -MaxLate < Signed(f - counter)
         /\ Signed(f - counter') = Signed(f - counter) - 1
         /\ InSight(f)' /\ (Fresh(f) => Fresh(f)')
<1> DEFINE s == Signed(f - counter)
<1>1. /\ busy \in Nat /\ busy < MaxBusy /\ busy' = busy + 1 /\ MaxBusy \in Nat
      /\ MaxLate = MaxBusy + MaxBusy + 1 /\ MaxLate \in Nat
      /\ UNCHANGED <<pc, firing>> /\ events \subseteq events'
  BY FastTimerAssumption DEF Count, TypeOK, handler, MaxLate
<1>2. Pending => Pending'
  BY <1>1 DEF Pending, InHandler
<1>3. Late \in Int /\ Late' \in Int /\ Late < MaxLate /\ Late + 1 <= Late'
  BY <1>1, <1>2 DEF Late
<1>4. s \in Int /\ -Late <= s /\ Ahead(s)
  BY InSightNear DEF InSight
<1> HIDE DEF s, Late, MaxLate
<1>5. -MaxLate < s
  BY <1>1, <1>3, <1>4
<1>6. Signed(f - counter') = s - 1
  BY <1>5, CountSubtracts DEF s
<1>7. -Late' <= s - 1 /\ Ahead(s - 1) /\ (-busy <= s => -busy' <= s - 1)
  <2>1. Ahead(s - 1)
    BY <1>1, <1>4, CounterAssumption DEF Ahead
  <2>2. \A m, n \in Int : m + 1 <= n /\ -m <= s => -n <= s - 1
    BY <1>4
  <2>3. -busy <= s => -busy' <= s - 1
    BY <1>1, <1>4
  <2>4. QED
    BY <1>3, <1>4, <2>1, <2>2, <2>3
<1>8. InSight(f)'
  BY <1>6, <1>7 DEF InSight
<1>9. Fresh(f) => Fresh(f)'
  BY <1>6, <1>7 DEF Fresh, s
<1>10. QED
  BY <1>4, <1>5, <1>6, <1>8, <1>9 DEF s

(* An idle CPU has updated the compare register and waits for the interrupt. *)
LEMMA IdleState ==
  ASSUME ListInv, Idle
  PROVE  /\ \A c \in Contexts : pc[c] = "idle"
         /\ firing = Nothing /\ events = {} /\ ~InHandler /\ ~Pending /\ ~UpdateComes
<1>1. \A c \in Contexts : pc[c] = "idle"
  BY DEF Idle, Waits
<1>2. firing = Nothing /\ events = {} /\ pc["irq"] = "idle"
  BY DEF Idle, Waits, ListInv, HandlerStages, Contexts
<1>3. QED
  BY <1>1, <1>2 DEF InHandler, Pending, UpdateComes

(***************************************************************************)
(* When a timer becomes late for the first time, the counter reaches the   *)
(* compare register: the interrupt is pending.                             *)
(***************************************************************************)
LEMMA CountIdle ==
  ASSUME Ahead(0), ListInv, ListInv', OrderInv, Count, Idle, NEW y \in Listed
  PROVE  /\ Left(y) \in Int /\ -MaxLate < Left(y)
         /\ Left(y)' = Left(y) - 1
         /\ InSight(fireTime[y])'
<1> DEFINE h == Head(list)
           a == Left(h)
           r == Left(y)
           s == Signed(cc - counter)
<1>1. /\ \A c \in Contexts : pc[c] = "idle"
      /\ ~Pending /\ ~UpdateComes /\ events = {}
  BY IdleState
<1>2. TypeOK /\ Linked(y) /\ y \in Timers /\ r \in Int /\ list # <<>>
  BY ListNear DEF Linked
<1>3. h \in Timers /\ a \in Int /\ a <= r
  BY <1>2, ListNear
<1>4. busy \in Nat /\ busy <= MaxBusy /\ MaxBusy \in Nat /\ MaxLate = MaxBusy + MaxBusy + 1
  BY <1>2, FastTimerAssumption DEF TypeOK, MaxLate
<1>5. InSight(fireTime[y])
  BY <1>2 DEF OrderInv, TimesInSight
<1>6. -busy <= r /\ Ahead(r)
  BY <1>1, <1>5 DEF InSight, Late, Left
<1>7. -MaxLate < r
  <2> HIDE DEF r, MaxLate
  <2>1. QED
    BY <1>2, <1>4, <1>6
<1>8. Signed(fireTime[y] - counter') = r - 1
  <2>1. fireTime[y] \in Ticks
    BY <1>2 DEF TypeOK
  <2>2. QED
    BY <1>2, <1>7, <2>1, CountSubtracts DEF Left
<1>9. fireTime' = fireTime /\ busy' = 0
  BY DEF Count, timers
<1>10. CASE a <= 0
  <2>1. s > 0 /\ s <= 1
    BY <1>1, <1>2, <1>10 DEF OrderInv, CompareArmed
  <2>2. s \in Int /\ cc \in Ticks /\ counter \in Int
    <3>1. cc \in Ticks /\ counter \in Int /\ cc - counter \in Int
      BY <1>2, CounterAssumption DEF TypeOK, Ticks
    <3>2. QED
      BY <3>1, SignedType, HalfOfM
  <2>3. s = 1
    <3> HIDE DEF s
    <3>1. QED
      BY <2>1, <2>2
  <2>4. cc = Later(counter, 1)
    BY <1>2, <2>2, <2>3, NextCountAhead, SameTime
  <2>5. Later(cc, 0) = cc
    <3>1. cc \in 0 .. M - 1 /\ M * 0 + cc = cc /\ cc + 0 = cc
      BY <2>2, CounterAssumption DEF Ticks
    <3>2. QED
      BY <3>1, ModUnique DEF Later
  <2>6. 0 \in events'
    BY <2>4, <2>5 DEF Count
  <2>7. Late' = MaxBusy + 1 + 0
    BY <1>9, <2>6 DEF Late, Pending
  <2> HIDE DEF r
  <2>8. -Late' <= r - 1 /\ Ahead(r - 1)
    <3>1. Ahead(r - 1)
      BY <1>2, <1>4, <1>6, CounterAssumption DEF Ahead
    <3>2. QED
      BY <1>2, <1>4, <1>6, <2>7, <3>1
  <2>9. InSight(fireTime[y])'
    BY <1>8, <1>9, <2>8 DEF InSight
  <2>10. QED
    BY <1>2, <1>7, <1>8, <1>9, <2>9 DEF r, Left
<1>11. CASE ~(a <= 0)
  <2>1. Late' \in Nat
    BY <1>4, <1>9 DEF Late
  <2> HIDE DEF r, a, Late
  <2>2. -Late' <= r - 1 /\ Ahead(r - 1)
    <3>1. Ahead(r - 1)
      BY <1>2, <1>4, <1>6, CounterAssumption DEF Ahead
    <3>2. r >= 1 /\ r \in Int
      BY <1>2, <1>3, <1>11
    <3>3. \A n \in Nat : -n <= r - 1
      BY <3>2
    <3>4. QED
      BY <2>1, <3>1, <3>3
  <2>3. InSight(fireTime[y])'
    BY <1>8, <1>9, <2>2 DEF InSight
  <2>4. QED
    BY <1>2, <1>7, <1>8, <1>9, <2>3 DEF r, Left
<1>12. QED
  BY <1>10, <1>11

LEMMA CountOrders ==
  ASSUME Ahead(0), ListInv, ListInv', OrderInv, Count
  PROVE  /\ OrderInv'
         /\ \A y \in Listed : Left(y)' = Left(y) - 1 /\ -MaxLate < Left(y)
<1>1. /\ UNCHANGED <<list, flags, fireTime, timerIsRunning, cc, pc, op, nextTimeout, firing, current>>
      /\ timerIsRunning /\ events \subseteq events' /\ counter' = Later(counter, 1)
      /\ ~Idle => busy' = busy + 1 /\ busy < MaxBusy
  BY DEF Count, timers, handler
<1>2. TypeOK /\ TypeOK' /\ Lists /\ Lists' /\ SortedList
  BY ListNear, ListsMatchNext DEF ListInv
<1>3. busy \in Nat /\ MaxBusy \in Nat /\ MaxLate = MaxBusy + MaxBusy + 1
  BY <1>2, FastTimerAssumption DEF TypeOK, MaxLate
(* Not idle: every time of the program *)
<1>4. ASSUME ~Idle, NEW f, f \in Ticks, InSight(f)
      PROVE  /\ Signed(f - counter) \in Int /\ -MaxLate < Signed(f - counter)
             /\ Signed(f - counter') = Signed(f - counter) - 1
             /\ InSight(f)' /\ (Fresh(f) => Fresh(f)')
  BY <1>2, <1>4, CountBusy
<1>5. ASSUME NEW y \in Timers, Linked(y) \/ y = firing
      PROVE  /\ Left(y) \in Int /\ -MaxLate < Left(y)
             /\ Left(y)' = Left(y) - 1
             /\ InSight(fireTime[y])'
  <2>1. CASE Idle
    <3>1. y # firing
      BY <2>1, IdleState, FastTimerAssumption
    <3>2. y \in Listed
      <4>1. y \in Elements(list)
        BY <1>5, <3>1 DEF Linked, Elements
      <4>2. QED
        BY <1>2, <4>1 DEF Lists
    <3>3. QED
      BY <2>1, <3>2, CountIdle
  <2>2. CASE ~Idle
    <3>1. PICK f \in Ticks : f = fireTime[y] /\ InSight(f)
      BY <1>2, <1>5 DEF OrderInv, TimesInSight, TypeOK
    <3>2. fireTime'[y] = f /\ fireTime[y] = f
      BY <1>1, <3>1
    <3>3. /\ Signed(f - counter) \in Int /\ -MaxLate < Signed(f - counter)
          /\ Signed(f - counter') = Signed(f - counter) - 1 /\ InSight(f)'
      BY <1>4, <2>2, <3>1
    <3>4. QED
      BY <3>2, <3>3 DEF Left, InSight
  <2>3. QED
    BY <2>1, <2>2
<1>6. \A y \in Listed : /\ y \in Timers /\ Left(y) \in Int /\ -MaxLate < Left(y)
                        /\ Left(y)' = Left(y) - 1
  BY <1>5, ListNear
<1>7. ListSorted'
  <2>1. ASSUME NEW y \in Elements(list)
        PROVE  /\ LeftAt(fireTime, counter)[y] \in Int
               /\ LeftAt(fireTime', counter')[y] = LeftAt(fireTime, counter)[y] - 1
    <3>1. y \in Listed
      BY <1>2 DEF Lists
    <3>2. y \in Timers
      BY <3>1 DEF Listed
    <3>3. LeftAt(fireTime', counter')[y] = Left(y)'
      BY <3>2 DEF LeftAt, Left
    <3>4. QED
      BY <1>2, <1>6, <3>1, <3>2, <3>3, LeftType
  <2>2. Sorted(list, LeftAt(fireTime', counter'))
    BY <1>2, <2>1, SortedShift DEF SortedList
  <2>3. SortedList'
    BY <1>1, <2>2 DEF SortedList
  <2>4. QED
    BY <1>2, <2>3, SortedListNext
<1>8. TimesInSight'
  <2>1. \A y \in Timers : Linked(y)' \/ y = firing' => InSight(fireTime[y])'
    BY <1>1, <1>5 DEF Linked
  <2>2. ASSUME NEW d \in Contexts, Working(d)'
        PROVE  InSight(op[d].time)' /\ (d \in Tasks => Fresh(op[d].time)')
    <3>1. ~Idle
      BY <1>1, <2>2 DEF Idle, Waits, Working
    <3>2. PICK f \in Ticks : f = op[d].time /\ InSight(f) /\ (d \in Tasks => Fresh(f))
      BY <1>1, <1>2, <2>2 DEF OrderInv, TimesInSight, Working, TypeOK, Call
    <3>3. op'[d].time = f
      BY <1>1, <3>2
    <3>4. InSight(f)' /\ (Fresh(f) => Fresh(f)')
      BY <1>4, <3>1, <3>2
    <3>5. QED
      BY <3>2, <3>3, <3>4 DEF InSight, Fresh
  <2>3. \A d \in Contexts : pc'[d] = "link" => fireTime'[op'[d].timer] = op'[d].time
    BY <1>1 DEF OrderInv, TimesInSight
  <2>4. QED
    BY <2>1, <2>2, <2>3 DEF TimesInSight, Contexts
<1>9. HandlerTime'
  <2>1. SUFFICES ASSUME InHandler PROVE Signed(current - counter') \in -busy' .. 0
    BY <1>1 DEF HandlerTime, InHandler
  <2>2. ~Idle
    BY <2>1, IdleState
  <2>3. Signed(current - counter) \in -busy .. 0 /\ current \in Ticks
    BY <1>2, <2>1 DEF OrderInv, HandlerTime, TypeOK
  <2>4. -MaxLate < Signed(current - counter)
    BY <1>1, <1>3, <2>2, <2>3
  <2>5. Signed(current - counter') = Signed(current - counter) - 1
    BY <1>2, <2>3, <2>4, CountSubtracts
  <2>6. QED
    BY <1>1, <1>3, <2>2, <2>3, <2>5
<1>10. RepeatingTimers'
  BY <1>1 DEF OrderInv, RepeatingTimers
<1>11. ASSUME list # <<>>
       PROVE  Left(Head(list)) \in Int /\ Left(Head(list))' = Left(Head(list)) - 1
  <2>1. PICK y \in Listed : y = Head(list)
    BY <1>11, ListNear
  <2>2. Left(Head(list))' = Left(y)' /\ Left(Head(list)) = Left(y)
    BY <1>1, <2>1 DEF Left
  <2>3. QED
    BY <1>6, <2>2
<1>12. CompareComputed'
  <2>1. SUFFICES ASSUME NEW c \in Contexts, Masked(c)
                 PROVE  /\ list # <<>> /\ timerIsRunning
                        /\ -busy' <= Signed(nextTimeout - counter') /\ InTime(nextTimeout)'
                        /\ pc[c] = "check" => cc = nextTimeout
    BY <1>1 DEF CompareComputed, Masked
  <2> DEFINE a == Left(Head(list))
             s == Signed(nextTimeout - counter)
  <2>2. /\ list # <<>> /\ timerIsRunning
        /\ -busy <= s /\ s <= (IF a <= 0 THEN 1 ELSE a)
        /\ pc[c] = "check" => cc = nextTimeout
    BY <2>1 DEF OrderInv, CompareComputed, InTime
  <2>3. busy' = busy + 1 /\ busy < MaxBusy
    BY <1>1, <2>1 DEF Idle, Waits, Masked
  <2>4. nextTimeout \in Ticks /\ s \in Int
    <3>1. nextTimeout \in Ticks /\ nextTimeout - counter \in Int
      BY <1>2, CounterAssumption DEF TypeOK, Ticks
    <3>2. QED
      BY <3>1, SignedType, HalfOfM
  <2>5. -MaxLate < s
    <3> HIDE DEF s, MaxLate
    <3>1. QED
      BY <1>3, <2>2, <2>3, <2>4
  <2>6. Signed(nextTimeout - counter') = s - 1
    BY <1>2, <2>4, <2>5, CountSubtracts
  <2>7. Left(Head(list))' = a - 1 /\ a \in Int
    BY <1>11, <2>2
  <2> HIDE DEF a, s
  <2>8. -busy' <= s - 1 /\ s - 1 <= (IF a - 1 <= 0 THEN 1 ELSE a - 1)
    BY <1>3, <2>2, <2>3, <2>4, <2>7
  <2>9. InTime(nextTimeout)'
    BY <1>1, <2>6, <2>7, <2>8 DEF InTime
  <2>10. QED
    BY <2>2, <2>6, <2>8, <2>9
<1>13. CompareArmed'
  <2>1. SUFFICES ASSUME list # <<>>, ~UpdateComes'
                 PROVE  /\ timerIsRunning' /\ Signed(cc' - counter') > 0
                        /\ Signed(cc' - counter') <=
                             (IF Left(Head(list))' <= 0 THEN 1 ELSE Left(Head(list))')
    BY <1>1 DEF CompareArmed
  <2> DEFINE a == Left(Head(list))
             s == Signed(cc - counter)
  <2>2. ~UpdateComes /\ events' = {}
    BY <1>1, <2>1 DEF UpdateComes
  <2>3. s > 0 /\ s <= (IF a <= 0 THEN 1 ELSE a)
    BY <2>1, <2>2 DEF OrderInv, CompareArmed
  <2>4. cc \in Ticks /\ s \in Int /\ counter \in Int
    <3>1. cc \in Ticks /\ cc - counter \in Int /\ counter \in Int
      BY <1>2, CounterAssumption DEF TypeOK, Ticks
    <3>2. QED
      BY <3>1, SignedType, HalfOfM
  <2>5. s # 1
    <3>1. SUFFICES ASSUME s = 1 PROVE FALSE
      OBVIOUS
    <3>2. cc = Later(counter, 1)
      BY <1>2, <2>4, <3>1, NextCountAhead, SameTime
    <3>3. Later(cc, 0) = cc
      <4>1. cc \in 0 .. M - 1 /\ M * 0 + cc = cc /\ cc + 0 = cc
        BY <2>4, CounterAssumption DEF Ticks
      <4>2. QED
        BY <4>1, ModUnique DEF Later
    <3>4. QED
      BY <2>2, <3>2, <3>3 DEF Count
  <2>6. -MaxLate < s
    <3> HIDE DEF s, MaxLate
    <3>1. QED
      BY <1>3, <2>3, <2>4
  <2>7. Signed(cc - counter') = s - 1
    BY <1>2, <2>4, <2>6, CountSubtracts
  <2>8. Left(Head(list))' = a - 1 /\ a \in Int
    BY <1>11, <2>1
  <2> HIDE DEF a, s
  <2>9. s - 1 > 0 /\ s - 1 <= (IF a - 1 <= 0 THEN 1 ELSE a - 1)
    BY <2>3, <2>4, <2>5, <2>8
  <2>10. QED
    BY <1>1, <2>7, <2>8, <2>9
<1>14. QED
  BY <1>6, <1>7, <1>8, <1>9, <1>10, <1>12, <1>13 DEF OrderInv

-----------------------------------------------------------------------------
(* The invariant holds. *)

LEMMA InitOrders == Init => OrderInv
<1> SUFFICES ASSUME Init PROVE OrderInv
  OBVIOUS
<1>1. /\ list = <<>> /\ firing = Nothing /\ events = {}
      /\ \A c \in Contexts : pc[c] = "idle" /\ ~op[c].mode.repeat
      /\ \A x \in Timers : ~flags[x].repeat
  BY DEF Init, NoCall, NoMode
<1>2. ListSorted /\ CompareArmed
  BY <1>1 DEF ListSorted, CompareArmed
<1>3. TimesInSight
  BY <1>1, FastTimerAssumption DEF TimesInSight, Linked, Working, Contexts
<1>4. HandlerTime /\ CompareComputed
  BY <1>1 DEF HandlerTime, InHandler, CompareComputed, Masked, Contexts
<1>5. RepeatingTimers
  BY <1>1 DEF RepeatingTimers
<1>6. QED
  BY <1>2, <1>3, <1>4, <1>5 DEF OrderInv

LEMMA NextOrders == Disciplined /\ ListInv /\ OrderInv /\ [Next]_vars => OrderInv'
<1> SUFFICES ASSUME Disciplined, ListInv, OrderInv, [Next]_vars PROVE OrderInv'
  OBVIOUS
<1>1. ListInv' /\ Ahead(0)
  BY NextListInv DEF Disciplined
<1>2. CASE UNCHANGED vars
  BY <1>2 DEF vars, OrderInv, ListSorted, Left, TimesInSight, InSight, Fresh, Late, Pending, InHandler,
              Working, Linked, HandlerTime, RepeatingTimers, CompareComputed, Masked, InTime,
              CompareArmed, UpdateComes
<1>3. CASE Program
  <2>1. PICK x \in Timers : StartAbsolute(x) \/ \E c \in Contexts : Start(c, x) \/ Stop(c, x)
    BY <1>3 DEF Program
  <2>2. CASE StartAbsolute(x)
    <3>1. "irq" \in Contexts
      BY DEF Contexts
    <3>2. QED
      BY <1>1, <2>2, <3>1, StartOrders
  <2>3. QED
    BY <1>1, <2>1, <2>2, StartOrders, StopOrders
<1>4. ASSUME NEW c \in Contexts, Step(c) PROVE OrderInv'
  BY <1>1, <1>4, UnlinkOrders, SetTimerOrders, LinkOrders, UpdateOrders, WriteCompareOrders,
     CheckCompareOrders DEF Step
<1>5. CASE Handler
  BY <1>1, <1>5, InterruptOrders, WalkOrders, FireOrders, FinishOrders DEF Handler
<1>6. CASE Count
  BY <1>1, <1>6, CountOrders
<1>7. QED
  BY <1>2, <1>3, <1>4, <1>5, <1>6 DEF Next

THEOREM OrderHolds == Disciplined /\ Spec => [](Disciplined /\ ListInv /\ OrderInv)
<1>1. Disciplined /\ Init => Disciplined /\ ListInv /\ OrderInv
  BY InitListInv, InitOrders
<1>2. Disciplined /\ ListInv /\ OrderInv /\ [Next]_vars => (Disciplined /\ ListInv /\ OrderInv)'
  <2>1. Disciplined => Disciplined'
    BY DEF Disciplined
  <2>2. QED
    BY <2>1, NextListInv, NextOrders
<1>3. QED
  BY <1>1, <1>2, PTL DEF Spec

(***************************************************************************)
(* In a disciplined program no fast timer is behind one that fires later,  *)
(* also when the hardware timer wraps between the fire times of the list,  *)
(* and whichever context comes in while another one starts a timer.        *)
(***************************************************************************)
THEOREM ListIsSorted == Disciplined /\ Spec => []ListSorted
<1>1. OrderInv => ListSorted
  BY DEF OrderInv
<1>2. QED
  BY <1>1, OrderHolds, PTL

(***************************************************************************)
(* In a disciplined program the compare register is ahead of the counter   *)
(* and in time for the first timer, unless updateTimeout is still to come: *)
(* no interrupt is missed, although the counter moves on while             *)
(* updateTimeout computes and writes the compare value.                    *)
(***************************************************************************)
THEOREM CompareIsArmed == Disciplined /\ Spec => []CompareArmed
<1>1. OrderInv => CompareArmed
  BY DEF OrderInv
<1>2. QED
  BY <1>1, OrderHolds, PTL

-----------------------------------------------------------------------------
(* The implementation of TimerService *)

(* What the service sees *)
left   == [x \in Timers |-> IF Linked(x) THEN Left(x) ELSE Nothing]
period == [x \in Timers |-> IF flags[x].repeat THEN flags[x].interval ELSE 0]
level  == [x \in Timers |-> "irq"]
fired  == [l \in {"irq"} |-> firing]

LEMMA InitService == Init => Service!Init
<1> SUFFICES ASSUME Init PROVE Service!Init
  OBVIOUS
<1>1. \A x \in Timers : ~Linked(x) /\ ~flags[x].repeat
  BY DEF Init, Linked
<1>2. left = [x \in Timers |-> Nothing] /\ period \in [Timers -> Nat]
  BY <1>1 DEF left, period
<1>3. level \in [Timers -> {"irq"}] /\ fired = [l \in {"irq"} |-> Nothing]
  BY DEF level, fired, Init
<1>4. QED
  BY <1>2, <1>3 DEF Service!Init, left, period, level, fired

SeenType ==
  \A x \in Timers :
    /\ Linked(x) => left[x] \in Int /\ left[x] # Nothing
    /\ period[x] \in Nat

LEMMA SeenTypeHolds == TypeOK => SeenType
<1> SUFFICES ASSUME TypeOK, NEW x \in Timers
             PROVE  (Linked(x) => left[x] \in Int /\ left[x] # Nothing) /\ period[x] \in Nat
  BY DEF SeenType
<1>1. Left(x) \in Int
  BY LeftType
<1>2. flags[x] \in Flags /\ flags[x].interval \in Nat
  BY CounterAssumption DEF TypeOK, Flags
<1>3. QED
  BY <1>1, <1>2, FastTimerAssumption DEF left, period, Flags

LEMMA SeenTypeNext == TypeOK' => SeenType'
  BY SeenTypeHolds, PTL

LEMMA LinkedListed == TypeOK /\ Lists => \A x : Linked(x) <=> x \in Listed
  BY DEF Linked, Lists, Elements

LEMMA LinkedNext == TypeOK' /\ Lists' => \A x : Linked(x)' <=> x \in Listed'
<1>1. TypeOK' /\ Lists' => (\A x : Linked(x) <=> x \in Listed)'
  BY LinkedListed, PTL
<1>2. QED
  BY <1>1

(* A step that the service does not see *)
LEMMA ServiceStutters ==
  ASSUME UNCHANGED <<list, flags, fireTime, counter, firing>>
  PROVE  UNCHANGED Service!vars
BY DEF Service!vars, Left, Linked

(* A step that concerns no timer but x *)
LEMMA OnlyOneSeen ==
  ASSUME NEW x \in Timers, counter' = counter,
         \A y \in Timers \ {x} : /\ flags'[y] = flags[y] /\ fireTime'[y] = fireTime[y]
                                 /\ Linked(y)' <=> Linked(y)
  PROVE  /\ left' = [left EXCEPT ![x] = left'[x]]
         /\ period' = [period EXCEPT ![x] = period'[x]]
<1>1. \A y \in Timers \ {x} : left'[y] = left[y] /\ period'[y] = period[y]
  BY DEF left, period, Left
<1>2. /\ left = [y \in Timers |-> left[y]] /\ left' = [y \in Timers |-> left'[y]]
      /\ period = [y \in Timers |-> period[y]] /\ period' = [y \in Timers |-> period'[y]]
  BY DEF left, period
<1>3. QED
  BY <1>1, <1>2

LEMMA ServiceArm ==
  ASSUME TypeOK', NEW x \in Timers, counter' = counter, firing' = firing,
         \A y \in Timers \ {x} : /\ flags'[y] = flags[y] /\ fireTime'[y] = fireTime[y]
                                 /\ Linked(y)' <=> Linked(y),
         Linked(x)'
  PROVE  Service!Arm(x)
<1>1. left'[x] \in Int /\ period'[x] \in Nat
  BY SeenTypeNext DEF SeenType
<1>2. level' = level /\ fired' = fired /\ level[x] = "irq" /\ level = [level EXCEPT ![x] = level[x]]
  BY DEF level, fired
<1>3. QED
  BY <1>1, <1>2, OnlyOneSeen DEF Service!Arm, left, period, level, fired

LEMMA ServiceDisarm ==
  ASSUME TypeOK', NEW x \in Timers, counter' = counter, firing' = firing,
         \A y \in Timers \ {x} : /\ flags'[y] = flags[y] /\ fireTime'[y] = fireTime[y]
                                 /\ Linked(y)' <=> Linked(y),
         ~Linked(x)'
  PROVE  Service!Disarm(x)
<1>1. left'[x] = Nothing /\ period'[x] \in Nat
  BY SeenTypeNext DEF SeenType, left
<1>2. left' = [left EXCEPT ![x] = Nothing] /\ level' = level /\ fired' = fired
  BY <1>1, OnlyOneSeen DEF level, fired
<1>3. QED
  BY <1>1, <1>2, OnlyOneSeen DEF Service!Disarm, left, period, level, fired

(* Of start and stop, the service sees when the timer leaves the list and when it enters it. *)
LEMMA ServiceUnlink ==
  ASSUME ListInv, ListInv', NEW c \in Contexts, Unlink(c)
  PROVE  \E x \in Timers : Service!Disarm(x)
<1>1. PICK x \in Timers : x = op[c].timer
  BY DEF ListInv, Operations, Working, Unlink
<1>2. TypeOK /\ TypeOK' /\ Lists /\ Lists'
  BY ListsMatch, ListsMatchNext DEF ListInv
<1>3. /\ UNCHANGED <<flags, fireTime, counter, firing, op>>
      /\ pc[c] = "unlink" /\ pc' = [pc EXCEPT ![c] = "set"] /\ DOMAIN pc = Contexts
  BY <1>2 DEF Unlink, GoTo, hardware, handler, TypeOK
<1>4. \A y \in Timers : BeingStarted(y)' <=> BeingStarted(y) \/ y = x
  BY <1>1, <1>3 DEF BeingStarted
<1>5. ~Linked(x)' /\ \A y \in Timers \ {x} : Linked(y)' <=> Linked(y)
  BY <1>2, <1>3, <1>4, LinkedListed, LinkedNext DEF Listed
<1>6. QED
  BY <1>2, <1>3, <1>5, ServiceDisarm

LEMMA ServiceSetTimer ==
  ASSUME ListInv, ListInv', NEW c \in Contexts, SetTimer(c)
  PROVE  \E x \in Timers : Service!Disarm(x)
<1>1. PICK x \in Timers : x = op[c].timer
  BY DEF ListInv, Operations, Working, SetTimer
<1>2. TypeOK /\ TypeOK' /\ Lists /\ Lists'
  BY ListsMatch, ListsMatchNext DEF ListInv
<1>3. /\ UNCHANGED <<list, counter, firing>> /\ pc[c] = "set"
      /\ \A y \in Timers \ {x} : flags'[y] = flags[y] /\ fireTime'[y] = fireTime[y]
  BY <1>1, <1>2 DEF SetTimer, hardware, handler, TypeOK
<1>4. x \notin Listed
  BY <1>1, <1>3 DEF Listed, BeingStarted
<1>5. ~Linked(x)' /\ \A y \in Timers \ {x} : Linked(y)' <=> Linked(y)
  <2>1. \A y : Linked(y)' <=> Linked(y)
    BY <1>3 DEF Linked
  <2>2. QED
    BY <1>2, <1>4, <2>1, LinkedListed
<1>6. QED
  BY <1>2, <1>3, <1>5, ServiceDisarm

LEMMA ServiceLink ==
  ASSUME ListInv, ListInv', NEW c \in Contexts, Link(c)
  PROVE  \E x \in Timers : Service!Arm(x)
<1>1. PICK x \in Timers : x = op[c].timer
  BY DEF ListInv, Operations, Working, Link
<1>2. TypeOK /\ TypeOK' /\ Lists /\ Lists'
  BY ListsMatch, ListsMatchNext DEF ListInv
<1>3. /\ UNCHANGED <<flags, fireTime, counter, firing>>
      /\ list' = addItem(list, x, fireTime)
  BY <1>1 DEF Link, hardware, handler
<1>4. Elements(list') = Listed \cup {x}
  <2>1. list \in Seq(Timers) /\ Elements(list) = Listed
    BY <1>2 DEF TypeOK, Lists
  <2>2. QED
    BY <1>3, <2>1, addItemProperties
<1>5. Linked(x)' /\ \A y \in Timers \ {x} : Linked(y)' <=> Linked(y)
  <2>1. \A y : Linked(y)' <=> y \in Elements(list')
    BY DEF Linked, Elements
  <2>2. QED
    BY <1>2, <1>4, <2>1, LinkedListed
<1>6. QED
  BY <1>2, <1>3, <1>5, ServiceArm

LEMMA ServiceStop ==
  ASSUME ListInv, ListInv', NEW c \in Contexts, NEW x \in Timers, Stop(c, x)
  PROVE  Service!Disarm(x)
<1>1. TypeOK /\ TypeOK' /\ Lists /\ Lists'
  BY ListsMatch, ListsMatchNext DEF ListInv
<1>2. /\ UNCHANGED <<fireTime, counter, firing>>
      /\ list' = removeItem(list, x)
      /\ flags' = [flags EXCEPT ![x].running = FALSE]
  BY DEF Stop, hardware, handler
<1>3. \A y \in Timers \ {x} : flags'[y] = flags[y]
  BY <1>1, <1>2 DEF TypeOK
<1>4. Elements(list') = Listed \ {x}
  <2>1. list \in Seq(Timers) /\ Distinct(list) /\ Elements(list) = Listed
    BY <1>1 DEF TypeOK, Lists
  <2>2. QED
    BY <1>2, <2>1, removeItemProperties
<1>5. ~Linked(x)' /\ \A y \in Timers \ {x} : Linked(y)' <=> Linked(y)
  <2>1. \A y : Linked(y)' <=> y \in Elements(list')
    BY DEF Linked, Elements
  <2>2. QED
    BY <1>1, <1>4, <2>1, LinkedListed
<1>6. QED
  BY <1>1, <1>2, <1>3, <1>5, ServiceDisarm

(* What fires is what the service lets fire: the first timer, and due. *)
LEMMA ServiceFire ==
  ASSUME Ahead(0), ListInv, ListInv', OrderInv, Fire
  PROVE  \E x \in Timers : Service!Fire(x)
<1>1. PICK x : x = Head(list)
  OBVIOUS
<1>2. /\ x \in Listed /\ x \in Timers /\ flags[x].running
      /\ Left(x) \in Int /\ Left(x) <= 0
      /\ \A y \in Listed : Left(x) <= Left(y)
      /\ Tail(list) \in Seq(Timers) /\ Elements(Tail(list)) = Listed \ {x}
      /\ flags[x].repeat => Left(x)' = Left(x) + flags[x].interval /\ flags[x].interval # 0
  BY <1>1, FiresFirst
<1>3. TypeOK /\ TypeOK' /\ Lists /\ SeenType
  BY ListsMatch, SeenTypeHolds DEF ListInv
<1>4. /\ pc["irq"] = "walk" /\ firing' = x /\ counter' = counter
      /\ \/ /\ flags[x].repeat
            /\ fireTime' = [fireTime EXCEPT ![x] = Later(@, flags[x].interval)]
            /\ list' = addItem(Tail(list), x, fireTime')
            /\ UNCHANGED flags
         \/ /\ ~flags[x].repeat
            /\ list' = Tail(list)
            /\ flags' = [flags EXCEPT ![x].running = FALSE]
            /\ UNCHANGED fireTime
  BY <1>1 DEF Fire, hardware
<1>5. firing = Nothing
  BY <1>4 DEF ListInv, HandlerStages
<1>6. flags[x] \in Flags /\ flags \in [Timers -> Flags] /\ fireTime \in [Timers -> Ticks]
  BY <1>2, <1>3 DEF TypeOK
<1>7. /\ \A y \in Timers \ {x} : flags'[y] = flags[y] /\ fireTime'[y] = fireTime[y]
      /\ flags'[x].repeat = flags[x].repeat /\ flags'[x].interval = flags[x].interval
  <2>1. CASE flags[x].repeat
    BY <1>2, <1>4, <1>6, <2>1
  <2>2. CASE ~flags[x].repeat
    <3>1. flags'[x] = [flags[x] EXCEPT !.running = FALSE] /\ fireTime' = fireTime
            /\ \A y \in Timers \ {x} : flags'[y] = flags[y]
      BY <1>2, <1>4, <1>6, <2>2
    <3>2. QED
      BY <1>6, <3>1 DEF Flags
  <2>3. QED
    BY <2>1, <2>2
<1>8. Elements(list') = IF flags[x].repeat THEN Listed ELSE Listed \ {x}
  <2>1. \A fire : Elements(addItem(Tail(list), x, fire)) = Elements(Tail(list)) \cup {x}
    BY <1>2, addItemProperties
  <2>2. QED
    BY <1>2, <1>4, <2>1
<1>9. /\ \A y \in Timers \ {x} : Linked(y)' <=> Linked(y)
      /\ Linked(x)' <=> flags[x].repeat
  <2>1. \A y : Linked(y)' <=> y \in Elements(list')
    BY DEF Linked, Elements
  <2>2. QED
    BY <1>2, <1>3, <1>8, <2>1, LinkedListed
<1>10. left[x] # Nothing /\ left[x] <= 0 /\ left[x] = Left(x)
  BY <1>2, <1>3, LinkedListed DEF SeenType, left
<1>11. \A y \in Timers : left[y] # Nothing => left[x] <= left[y]
  BY <1>2, <1>3, <1>10, LinkedListed DEF left
<1>12. left'[x] = IF period[x] = 0 THEN Nothing ELSE left[x] + period[x]
  BY <1>2, <1>9, <1>10 DEF left, period
<1>13. period' = period /\ level' = level
  BY <1>2, <1>7 DEF period, level
<1>14. left' = [left EXCEPT ![x] = IF period[x] = 0 THEN Nothing ELSE @ + period[x]]
  <2>1. left' = [left EXCEPT ![x] = left'[x]]
    BY <1>2, <1>4, <1>7, <1>9, OnlyOneSeen
  <2>2. QED
    BY <1>2, <1>12, <2>1 DEF left
<1>15. fired["irq"] = Nothing /\ fired' = [fired EXCEPT !["irq"] = x] /\ level[x] = "irq"
  BY <1>2, <1>4, <1>5 DEF fired, level
<1>16. /\ left[x] # Nothing /\ left[x] <= 0
       /\ \A y \in Timers : left[y] # Nothing /\ level[y] = level[x] => left[x] <= left[y]
       /\ fired[level[x]] = Nothing
       /\ fired' = [fired EXCEPT ![level[x]] = x]
       /\ left' = [left EXCEPT ![x] = IF period[x] = 0 THEN Nothing ELSE @ + period[x]]
       /\ period' = period /\ level' = level
  BY <1>10, <1>11, <1>13, <1>14, <1>15
<1>17. Service!Fire(x)
  BY <1>16 DEF Service!Fire, Service!Due, Service!Armed, left, period, level, fired
<1>18. QED
  BY <1>2, <1>17

LEMMA ServiceCount ==
  ASSUME Ahead(0), ListInv, ListInv', OrderInv, Count
  PROVE  Service!Tick
<1>1. UNCHANGED <<list, flags, fireTime, firing>> /\ \A x : Linked(x)' <=> Linked(x)
  BY DEF Count, timers, handler, Linked
<1>2. \A x \in Listed : Left(x)' = Left(x) - 1 /\ -MaxLate < Left(x)
  BY CountOrders
<1>3. TypeOK /\ Lists /\ SeenType
  BY ListsMatch, SeenTypeHolds DEF ListInv
<1>4. \A x \in Timers : Linked(x) <=> left[x] # Nothing
  BY <1>3 DEF SeenType, left
<1>5. \A x \in Timers : left[x] # Nothing => left[x] > -MaxLate
  <2>1. SUFFICES ASSUME NEW x \in Timers, left[x] # Nothing PROVE left[x] > -MaxLate
    OBVIOUS
  <2>2. Linked(x) /\ x \in Listed /\ left[x] = Left(x) /\ Left(x) \in Int
    BY <1>3, <1>4, <2>1, LinkedListed, LeftType DEF left
  <2>3. -MaxLate < Left(x) /\ MaxLate \in Int
    BY <1>2, <2>2, FastTimerAssumption DEF MaxLate
  <2>4. QED
    BY <2>2, <2>3
<1>6. left' = [x \in Timers |-> IF left[x] # Nothing THEN left[x] - 1 ELSE Nothing]
  BY <1>1, <1>2, <1>3, <1>4, LinkedListed DEF left
<1>7. period' = period /\ level' = level /\ fired' = fired
  BY <1>1 DEF period, level, fired
<1>8. QED
  BY <1>5, <1>6, <1>7 DEF Service!Tick, Service!Armed, left, period, level, fired

LEMMA ServiceSteps ==
  Disciplined /\ ListInv /\ OrderInv /\ [Next]_vars => [Service!Next]_(Service!vars)
<1> SUFFICES ASSUME Disciplined, ListInv, OrderInv, [Next]_vars
             PROVE  [Service!Next]_(Service!vars)
  OBVIOUS
<1>1. ListInv' /\ Ahead(0)
  BY NextListInv DEF Disciplined
<1>2. CASE UNCHANGED vars
  BY <1>2, ServiceStutters DEF vars
<1>3. ASSUME NEW c \in Contexts, NEW x \in Timers, Start(c, x) \/ StartAbsolute(x)
      PROVE  [Service!Next]_(Service!vars)
  BY <1>3, ServiceStutters DEF Start, StartAbsolute, Begin, timers, hardware, handler
<1>4. ASSUME NEW c \in Contexts, NEW x \in Timers, Stop(c, x)
      PROVE  [Service!Next]_(Service!vars)
  BY <1>1, <1>4, ServiceStop DEF Service!Next
<1>5. CASE Program
  <2>1. "irq" \in Contexts
    BY DEF Contexts
  <2>2. QED
    BY <1>3, <1>4, <1>5, <2>1 DEF Program
<1>6. ASSUME NEW c \in Contexts, Step(c) PROVE [Service!Next]_(Service!vars)
  <2>1. CASE Unlink(c)
    BY <1>1, <2>1, ServiceUnlink DEF Service!Next
  <2>2. CASE SetTimer(c)
    BY <1>1, <2>2, ServiceSetTimer DEF Service!Next
  <2>3. CASE Link(c)
    BY <1>1, <2>3, ServiceLink DEF Service!Next
  <2>4. CASE Update(c) \/ WriteCompare(c) \/ CheckCompare(c)
    BY <2>4, ServiceStutters DEF Update, WriteCompare, CheckCompare, timers, hardware, handler
  <2>5. QED
    BY <1>6, <2>1, <2>2, <2>3, <2>4 DEF Step
<1>7. CASE Handler
  <2>1. CASE Fire
    BY <1>1, <2>1, ServiceFire DEF Service!Next
  <2>2. CASE Return
    <3>1. /\ UNCHANGED <<list, flags, fireTime, counter>> /\ firing' = Nothing
          /\ \A x : Linked(x)' <=> Linked(x)
      BY <2>2 DEF Return, timers, hardware, Linked
    <3>2. left' = left /\ period' = period /\ level' = level
      BY <3>1 DEF left, period, level, Left
    <3>3. fired' = [fired EXCEPT !["irq"] = Nothing]
      BY <3>1 DEF fired
    <3>4. Service!Return("irq")
      BY <3>2, <3>3 DEF Service!Return, left, period, level, fired
    <3>5. QED
      BY <3>4 DEF Service!Next
  <2>3. CASE Interrupt \/ ClearEvents \/ Finish
    BY <2>3, ServiceStutters DEF Interrupt, ClearEvents, Finish, timers, hardware, handler
  <2>4. QED
    BY <1>7, <2>1, <2>2, <2>3 DEF Handler
<1>8. CASE Count
  BY <1>1, <1>8, ServiceCount DEF Service!Next
<1>9. QED
  BY <1>2, <1>5, <1>6, <1>7, <1>8 DEF Next

(***************************************************************************)
(* A disciplined program sees the timer service: a timer fires not before  *)
(* it is due and not before one that was due earlier, none is late by more *)
(* than MaxLate counts, and a repeating timer is due again its period      *)
(* after it was due.  This covers the preemption of fastTimerStart between *)
(* its critical sections, the race of updateTimeout with the counter, and  *)
(* the wrap of the counter.                                                *)
(***************************************************************************)
THEOREM ImplementsTimerService == Disciplined /\ Spec => IsTimerService
<1>1. Init => Service!Init
  BY InitService
<1>2. Disciplined /\ ListInv /\ OrderInv /\ [Next]_vars => [Service!Next]_(Service!vars)
  BY ServiceSteps
<1>3. QED
  BY <1>1, <1>2, OrderHolds, PTL DEF Spec, IsTimerService, Service!Spec
==============================================================================
