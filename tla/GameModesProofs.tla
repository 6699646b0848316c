--------------------------- MODULE GameModesProofs ---------------------------
(***************************************************************************)
(* Proofs about GameModes and the FilterScripts it is composed with, for   *)
(* any scripts, modes, configuration, number of slots and nested calls.    *)
(*                                                                         *)
(* What is in the slots depends on the calls under way: a script has its   *)
(* slot from before its OnFilterScriptInit and its name from after, so     *)
(* each such call on the stack still owes a name to a slot that nothing    *)
(* else may touch meanwhile (Begun).  Which file is played next depends on *)
(* who spoke last, an operator or the game mode itself (PlayedNext).       *)
(***************************************************************************)
EXTENDS GameModes, ProofLemmas, SequenceTheorems, TLAPS

(* The calls of OnFilterScriptInit on a stack, and what they owe.          *)
Begun(calls) == {calls[i].slot : i \in {j \in DOMAIN calls : calls[j].op = "init"}}

BegunOf(calls, programs, names) ==
    /\ \A i \in DOMAIN calls : calls[i].op = "init" =>
         /\ calls[i].next \in Scripts
         /\ programs[calls[i].slot] = calls[i].next
         /\ names[calls[i].slot] = Nobody
    /\ \A i, j \in DOMAIN calls :
         calls[i].op = "init" /\ calls[j].op = "init" /\ calls[i].slot = calls[j].slot => i = j

NamesOf(programs, names) == \A s \in Slots : names[s] \in {Nobody, programs[s]}

(* Nothing was unloaded: the slots are filled from the first on, and every *)
(* script whose OnFilterScriptInit is over is known by its name.           *)
TidyOf(calls, programs, names) ==
    /\ \A s, t \in Slots : s < t /\ programs[t] # Nobody => programs[s] # Nobody
    /\ \A s \in Slots \ Begun(calls) : programs[s] \in Scripts => names[s] = programs[s]
    /\ \A s, t \in Slots : programs[s] = programs[t] /\ programs[s] \in Scripts => s = t

SlotsKept ==
    /\ BegunOf(stack, prog, name)
    /\ NamesOf(prog, name)
    /\ ~untidy => TidyOf(stack, prog, name)

(* Calls that are made while no other is under way. *)
Outermost == {"startMode", "main", "stopMode"}
OnlyLast(s, ops) == \A i \in DOMAIN s : s[i].op \in ops => i = Len(s)
OpsIn(s) == {s[i].op : i \in DOMAIN s}

Bottom == OnlyLast(stack, Outermost)

Starts(s) == "startMode" \in OpsIn(s) \/ "main" \in OpsIn(s)

Stops(s) == "stopMode" \in OpsIn(s)

ModeRuns == Starts(stack) => amx = "loaded"

(* The line is read before anything else happens. *)
LineFirst == pending # <<>> => gameState = "starting" /\ ~Starts(stack) /\ ~Stops(stack)

PlayedNext ==
    /\ ~ordered => repeat /\ file = ModeLine[index + 1]
    /\ ~refused => file \in Readable

(* The names of the configured line that strtok has handed out. *)
HandedOut == Len(Configured) - Len(pending)

Line ==
    /\ 0 <= HandedOut
    /\ \A i \in DOMAIN pending : pending[i] = Configured[HandedOut + i]
    /\ \A i \in 1 .. HandedOut : Configured[i] \in Scripts => \E s \in Slots : prog[s] = Configured[i]
    /\ pending # <<>> =>
         /\ \A s \in Slots : prog[s] # Nobody => s < HandedOut
         /\ IF Idle THEN count <= HandedOut ELSE count < HandedOut
         /\ OnlyLast(stack, {"init"})

Inv ==
    /\ TypeOK
    /\ Bottom
    /\ ModeRuns
    /\ LineFirst
    /\ Alive => SlotsKept /\ PlayedNext
    /\ Len(Configured) <= MaxSlots => (Alive /\ ~untidy /\ ~diverted => Line)

-----------------------------------------------------------------------------
(***************************************************************************)
(* The stack.                                                              *)
(***************************************************************************)
LEMMA FramesTyped ==
    /\ \A op \in OfFilterScripts, s \in Slots, f \in Files \cup {Nobody} :
         /\ Frame(op, s, f) \in Frames
         /\ Frame(op, s, f).op = op /\ Frame(op, s, f).slot = s /\ Frame(op, s, f).next = f
    /\ \A op \in OfGameMode \cup {"startMode", "stopMode"} :
         Frame(op, GameMode, Nobody) \in Frames /\ Frame(op, GameMode, Nobody).op = op
    /\ \A f \in Frames :
         f.op \in OfFilterScripts => f.slot \in Slots /\ f.next \in Files \cup {Nobody}
BY DEF Frames, Frame, OfFilterScripts, OfGameMode

LEMMA Nothing ==
    /\ <<>> \in Seq(Frames) /\ Len(<<>>) = 0 /\ DOMAIN <<>> = {}
    /\ Begun(<<>>) = {} /\ OpsIn(<<>>) = {}
    /\ \A ops : OnlyLast(<<>>, ops)
    /\ \A P, N : BegunOf(<<>>, P, N)
<1>1. <<>> \in Seq(Frames) /\ Len(<<>>) = 0 /\ DOMAIN <<>> = {}
  OBVIOUS
<1>2. QED
  BY <1>1 DEF Begun, OpsIn, OnlyLast, BegunOf

\* A call is made.
LEMMA CallMade ==
    ASSUME NEW s \in Seq(Frames), NEW f \in Frames
    PROVE  /\ <<f>> \o s \in Seq(Frames) /\ <<f>> \o s # <<>>
           /\ OpsIn(<<f>> \o s) = {f.op} \cup OpsIn(s)
           /\ \A ops : OnlyLast(s, ops) /\ (f.op \notin ops \/ s = <<>>) => OnlyLast(<<f>> \o s, ops)
           /\ Begun(<<f>> \o s) = Begun(s) \cup IF f.op = "init" THEN {f.slot} ELSE {}
           /\ \A P, N : /\ BegunOf(s, P, N)
                        /\ f.op = "init" => /\ f.next \in Scripts /\ P[f.slot] = f.next
                                            /\ N[f.slot] = Nobody /\ f.slot \notin Begun(s)
                        => BegunOf(<<f>> \o s, P, N)
<1> DEFINE t == <<f>> \o s
<1>1. /\ t \in Seq(Frames) /\ t # <<>> /\ Len(t) = Len(s) + 1 /\ Len(s) \in Nat
      /\ DOMAIN t = 1 .. Len(s) + 1 /\ t[1] = f
      /\ \A i \in 1 .. Len(s) : t[i + 1] = s[i]
      /\ \A i \in DOMAIN t : i # 1 => i - 1 \in DOMAIN s /\ t[i] = s[i - 1]
      /\ DOMAIN s = 1 .. Len(s)
  BY Pushed
<1> HIDE DEF t
<1>2. \A i \in DOMAIN s : i + 1 \in DOMAIN t /\ t[i + 1] = s[i]
  BY <1>1
<1>3. 1 \in DOMAIN t
  BY <1>1
<1>4. OpsIn(t) = {f.op} \cup OpsIn(s)
  <2>1. ASSUME NEW i \in DOMAIN t PROVE t[i].op \in {f.op} \cup OpsIn(s)
    BY <1>1 DEF OpsIn
  <2>2. ASSUME NEW i \in DOMAIN s PROVE s[i].op \in OpsIn(t)
    BY <1>2 DEF OpsIn
  <2>3. f.op \in OpsIn(t)
    BY <1>1, <1>3 DEF OpsIn
  <2>4. OpsIn(t) \subseteq {f.op} \cup OpsIn(s) /\ OpsIn(s) \subseteq OpsIn(t)
    BY <2>1, <2>2, Zenon DEF OpsIn
  <2>5. QED
    BY <2>3, <2>4
<1>5. ASSUME NEW ops, OnlyLast(s, ops), f.op \notin ops \/ s = <<>> PROVE OnlyLast(t, ops)
  <2>1. s = <<>> => Len(s) = 0
    OBVIOUS
  <2>2. ASSUME NEW i \in DOMAIN t, t[i].op \in ops PROVE i = Len(t)
    BY <1>1, <1>5, <2>1, <2>2 DEF OnlyLast
  <2>3. QED
    BY <2>2 DEF OnlyLast
<1>6. Begun(t) = Begun(s) \cup IF f.op = "init" THEN {f.slot} ELSE {}
  BY <1>1, <1>2, <1>3 DEF Begun
<1>7. ASSUME NEW P, NEW N, BegunOf(s, P, N),
             f.op = "init" => /\ f.next \in Scripts /\ P[f.slot] = f.next
                              /\ N[f.slot] = Nobody /\ f.slot \notin Begun(s)
      PROVE  BegunOf(t, P, N)
  <2>1. ASSUME NEW i \in DOMAIN t, t[i].op = "init"
        PROVE  t[i].next \in Scripts /\ P[t[i].slot] = t[i].next /\ N[t[i].slot] = Nobody
    BY <1>1, <1>7, <2>1 DEF BegunOf
  <2>2. ASSUME NEW i \in DOMAIN t, NEW j \in DOMAIN t, t[i].op = "init", t[j].op = "init",
               t[i].slot = t[j].slot
        PROVE  i = j
    <3>1. CASE i # 1 /\ j # 1
      BY <1>1, <1>7, <2>2, <3>1 DEF BegunOf
    <3>2. CASE i = 1 \/ j = 1
      BY <1>1, <1>7, <2>2, <3>2 DEF Begun
    <3>3. QED
      BY <3>1, <3>2
  <2>3. QED
    BY <2>1, <2>2 DEF BegunOf
<1>8. QED
  BY <1>1, <1>4, <1>5, <1>6, <1>7 DEF t

LEMMA OpsOfOne == \A f \in Frames : OpsIn(<<f>>) = {f.op}
BY Single DEF OpsIn

\* A call is over.
LEMMA CallOver ==
    ASSUME NEW s \in Seq(Frames), s # <<>>
    PROVE  /\ Tail(s) \in Seq(Frames) /\ Head(s) \in Frames
           /\ OpsIn(s) = {Head(s).op} \cup OpsIn(Tail(s))
           /\ \A ops : OnlyLast(s, ops) =>
                /\ OnlyLast(Tail(s), ops)
                /\ Head(s).op \in ops => Tail(s) = <<>>
           /\ Head(s).op # "init" => Begun(Tail(s)) = Begun(s)
           /\ \A P, N : BegunOf(s, P, N) =>
                /\ BegunOf(Tail(s), P, N)
                /\ Head(s).op = "init" =>
                     /\ Head(s).next \in Scripts /\ P[Head(s).slot] = Head(s).next
                     /\ N[Head(s).slot] = Nobody
                     /\ Begun(Tail(s)) = Begun(s) \ {Head(s).slot}
<1> DEFINE t == Tail(s)
<1>1. /\ t \in Seq(Frames) /\ Len(t) = Len(s) - 1 /\ Len(s) \in Nat /\ Len(s) >= 1
      /\ Head(s) \in Frames /\ Head(s) = s[1] /\ 1 \in DOMAIN s /\ DOMAIN s = 1 .. Len(s)
      /\ DOMAIN t = 1 .. Len(s) - 1
      /\ \A i \in DOMAIN t : i + 1 \in DOMAIN s /\ t[i] = s[i + 1]
      /\ \A i \in DOMAIN s : i # 1 => i - 1 \in DOMAIN t /\ s[i] = t[i - 1]
  BY Popped
<1> HIDE DEF t
<1>2. OpsIn(s) = {Head(s).op} \cup OpsIn(t)
  <2>1. ASSUME NEW i \in DOMAIN s PROVE s[i].op \in {Head(s).op} \cup OpsIn(t)
    BY <1>1 DEF OpsIn
  <2>2. ASSUME NEW i \in DOMAIN t PROVE t[i].op \in OpsIn(s)
    BY <1>1 DEF OpsIn
  <2>3. Head(s).op \in OpsIn(s)
    BY <1>1 DEF OpsIn
  <2>4. OpsIn(s) \subseteq {Head(s).op} \cup OpsIn(t) /\ OpsIn(t) \subseteq OpsIn(s)
    BY <2>1, <2>2, Zenon DEF OpsIn
  <2>5. QED
    BY <2>3, <2>4
<1>3. ASSUME NEW ops, OnlyLast(s, ops)
      PROVE  OnlyLast(t, ops) /\ (Head(s).op \in ops => t = <<>>)
  <2>1. ASSUME NEW i \in DOMAIN t, t[i].op \in ops PROVE i = Len(t)
    BY <1>1, <1>3, <2>1 DEF OnlyLast
  <2>2. Head(s).op \in ops => Len(t) = 0
    BY <1>1, <1>3 DEF OnlyLast
  <2>3. QED
    BY <1>1, <2>1, <2>2, EmptySeq DEF OnlyLast
<1>4. Head(s).op # "init" => Begun(t) = Begun(s)
  BY <1>1 DEF Begun
<1>5. ASSUME NEW P, NEW N, BegunOf(s, P, N)
      PROVE  /\ BegunOf(t, P, N)
             /\ Head(s).op = "init" =>
                  /\ Head(s).next \in Scripts /\ P[Head(s).slot] = Head(s).next
                  /\ N[Head(s).slot] = Nobody
                  /\ Begun(t) = Begun(s) \ {Head(s).slot}
  <2>1. \A i \in DOMAIN t : t[i].op = "init" =>
            t[i].next \in Scripts /\ P[t[i].slot] = t[i].next /\ N[t[i].slot] = Nobody
    BY <1>1, <1>5 DEF BegunOf
  <2>2. ASSUME NEW i \in DOMAIN t, NEW j \in DOMAIN t, t[i].op = "init", t[j].op = "init",
               t[i].slot = t[j].slot
        PROVE  i = j
    <3>1. i + 1 \in DOMAIN s /\ j + 1 \in DOMAIN s /\ t[i] = s[i + 1] /\ t[j] = s[j + 1]
      BY <1>1
    <3>2. i + 1 = j + 1
      BY <1>5, <2>2, <3>1 DEF BegunOf
    <3>3. QED
      BY <1>1, <3>2
  <2>3. BegunOf(t, P, N)
    BY <2>1, <2>2 DEF BegunOf
  <2>4. ASSUME Head(s).op = "init" PROVE Begun(t) = Begun(s) \ {Head(s).slot}
    <3>1. \A i \in DOMAIN s : i # 1 /\ s[i].op = "init" => s[i].slot # s[1].slot
      BY <1>1, <1>5, <2>4 DEF BegunOf
    <3>2. \A i \in DOMAIN t : i + 1 # 1
      BY <1>1
    <3>3. QED
      BY <1>1, <2>4, <3>1, <3>2 DEF Begun
  <2>5. QED
    BY <1>1, <1>5, <2>3, <2>4 DEF BegunOf
<1>6. QED
  BY <1>1, <1>2, <1>3, <1>4, <1>5 DEF t

(***************************************************************************)
(* Stack t owes nothing that s does not owe, and the other way round.      *)
(***************************************************************************)
Owes(t, s) ==
    /\ t \in Seq(Frames)
    /\ OnlyLast(s, Outermost) => OnlyLast(t, Outermost)
    /\ OnlyLast(s, {"init"}) => OnlyLast(t, {"init"})
    /\ Begun(t) = Begun(s)
    /\ \A P, N : BegunOf(s, P, N) => BegunOf(t, P, N)

Opens(t, s) == (Starts(s) => Starts(t)) /\ (Stops(s) => Stops(t))

Like(t, s) == Owes(t, s) /\ Opens(s, t)

LEMMA LikeItself == \A s \in Seq(Frames) : Like(s, s)
BY DEF Like, Owes, Opens

LEMMA LikeBefore ==
    ASSUME NEW s, NEW t, NEW u
    PROVE  /\ Owes(t, s) /\ Owes(u, t) => Owes(u, s)
           /\ Like(t, s) /\ Like(u, t) => Like(u, s)
BY DEF Like, Owes, Opens

LEMMA OwesCalling ==
    ASSUME NEW s \in Seq(Frames), NEW f \in Frames, f.op # "init", f.op \notin Outermost \/ s = <<>>
    PROVE  Owes(<<f>> \o s, s)
BY CallMade DEF Owes

LEMMA LikeCalling ==
    ASSUME NEW s \in Seq(Frames), NEW f \in Frames,
           f.op # "init", f.op \notin Outermost
    PROVE  Like(<<f>> \o s, s)
<1>1. Opens(s, <<f>> \o s)
  BY CallMade DEF Opens, Starts, Stops, Outermost
<1>2. QED
  BY <1>1, OwesCalling DEF Like

LEMMA LikeReturned ==
    ASSUME NEW s \in Seq(Frames), s # <<>>, Head(s).op # "init"
    PROVE  Like(Tail(s), s) /\ Tail(s) \in Seq(Frames)
BY CallOver DEF Like, Owes, Opens, Starts, Stops

LEMMA OpsApart ==
    /\ Outermost \cap OfFilterScripts = {}
    /\ {"startMode", "main"} \cap OfFilterScripts = {}
    /\ "init" \in OfFilterScripts /\ "exit" \in OfFilterScripts
    /\ "last" \in OfFilterScripts /\ "event" \in OfFilterScripts
    /\ {"modeInit", "main", "modeExit", "mode"} = OfGameMode
    /\ "init" \notin Outermost
BY DEF Outermost, OfFilterScripts, OfGameMode

LEMMA CallLike ==
    ASSUME NEW op \in {"exit", "last", "event"}, NEW s \in Slots, NEW f \in Files \cup {Nobody},
           NEW calls \in Seq(Frames), Call(op, s, f, calls)
    PROVE  Like(stack', calls) /\ fate' \in {fate, "null"}
<1>1. /\ Frame(op, s, f) \in Frames /\ Frame(op, s, f).op = op
      /\ op \notin {"init", "startMode", "main"} /\ op \notin Outermost
  BY FramesTyped, OpsApart DEF Outermost
<1>2. QED
  BY <1>1, LikeItself, LikeCalling DEF Call

LEMMA DeliverLike ==
    ASSUME NEW from, NEW calls \in Seq(Frames), Deliver(from, calls)
    PROVE  Like(stack', calls) /\ fate' \in {fate, "null"}
<1>1. \A s \in LoadedFrom(from) : s \in Slots
  BY DEF LoadedFrom
<1>2. QED
  BY <1>1, LikeItself, CallLike DEF Deliver

LEMMA UnloadLike ==
    ASSUME NEW from, UnloadFrom(from)
    PROVE  Like(stack', <<>>) /\ fate' \in {fate, "null", "stopped"} /\ count' \in {count, 0}
<1>1. \A s \in LoadedFrom(from) : s \in Slots
  BY DEF LoadedFrom
<1>2. QED
  BY <1>1, LikeItself, CallLike, Nothing DEF UnloadFrom

(***************************************************************************)
(* The steps that leave the slots alone.                                   *)
(***************************************************************************)
LeftAlone ==
    /\ UNCHANGED <<prog, name, untidy>>
    /\ Owes(stack', stack)
    /\ Alive
    /\ fate' \in {fate, "null", "stopped", "exited"}
    /\ count' \in {count, 0}
    /\ diverted' \in BOOLEAN
    /\ diverted => diverted'
    /\ \/ pending' = <<>> /\ (pending # <<>> => diverted')
       \/ UNCHANGED pending /\ (pending # <<>> => ~Idle)

LEMMA TopTyped ==
    ASSUME stack \in Seq(Frames), Bottom, ~Idle
    PROVE  /\ Top \in Frames /\ Below \in Seq(Frames)
           /\ Top.op \in OfFilterScripts => Top.slot \in Slots /\ Top.next \in Files \cup {Nobody}
           /\ Top.op \in Outermost => Below = <<>>
           /\ Top.op # "init" => Like(Below, stack)
BY CallOver, LikeReturned, FramesTyped DEF Top, Below, Idle, Bottom

Before == TypeOK /\ Bottom /\ LineFirst

LEMMA StackBefore ==
    ASSUME Before
    PROVE  stack \in Seq(Frames) /\ Bottom /\ diverted \in BOOLEAN
BY DEF Before, TypeOK, FsTypeOK

\* A call from the program, whatever comes of it.
LEMMA CommandLeaves ==
    ASSUME Before,
           \/ Command
           \/ /\ ScriptsMayCall /\ ~Idle
              /\ pending' = <<>> /\ diverted' = (diverted \/ pending # <<>>)
    PROVE  Alive /\ pending' = <<>> /\ (diverted => diverted') /\ (pending # <<>> => diverted')
           /\ diverted' \in BOOLEAN
BY StackBefore, Zenon DEF Command, ScriptsMayCall

LEMMA EventsLeave ==
    ASSUME Before, StartEvent \/ EventReturns
    PROVE  LeftAlone /\ Like(stack', stack)
<1>1. stack \in Seq(Frames) /\ Bottom /\ diverted \in BOOLEAN
  BY StackBefore
<1>2. CASE StartEvent
  <2>1. Like(stack', stack) /\ fate' \in {fate, "null"}
    BY <1>1, <1>2, DeliverLike DEF StartEvent
  <2>2. QED
    BY <1>1, <1>2, <2>1 DEF StartEvent, ScriptsMayCall, LeftAlone, Like, history
<1>3. CASE EventReturns
  <2>1. Below \in Seq(Frames) /\ Like(Below, stack) /\ ~Idle /\ Alive
    BY <1>1, <1>3, TopTyped DEF EventReturns, Returns
  <2>2. Like(stack', Below) /\ fate' \in {fate, "null"}
    BY <1>3, <2>1, LikeItself, DeliverLike DEF EventReturns
  <2>3. Like(stack', stack)
    BY <2>1, <2>2, LikeBefore
  <2>4. QED
    BY <1>1, <1>3, <2>1, <2>2, <2>3 DEF EventReturns, LeftAlone, Like, history
<1>4. QED
  BY <1>2, <1>3

LEMMA UnloadLeaves ==
    ASSUME Before, NEW f \in Files, Command, UNCHANGED <<prog, name, count, untidy>>,
           NEW g \in Files \cup {Nobody}, \E s \in InUse(f) : Call("exit", s, g, stack)
    PROVE  LeftAlone /\ Like(stack', stack)
<1>1. PICK s \in Slots : Call("exit", s, g, stack)
  BY DEF InUse, Named, LowestOf
<1>2. Like(stack', stack) /\ fate' \in {fate, "null"}
  BY <1>1, StackBefore, CallLike
<1>3. QED
  BY <1>2, CommandLeaves DEF LeftAlone, Like

LEMMA OrdersLeave ==
    ASSUME Before, Ordering
    PROVE  LeftAlone /\ UNCHANGED stack /\ UNCHANGED <<amx, gameState, count>>
<1>1. Like(stack, stack)
  BY StackBefore, LikeItself
<1>2. CASE GameModeExit
  <2>1. /\ UNCHANGED <<prog, name, count, stack, untidy, amx, gameState>> /\ fate' \in {fate, "exited"}
        /\ ScriptsMayCall /\ ~Idle /\ pending' = <<>> /\ diverted' = (diverted \/ pending # <<>>)
    BY <1>2 DEF GameModeExit
  <2>2. QED
    BY <1>1, <2>1, CommandLeaves DEF LeftAlone, Like
<1>3. CASE Gmx
  <2>1. Command /\ UNCHANGED <<prog, name, count, stack, untidy, fate, amx, gameState>>
    BY <1>3 DEF Gmx
  <2>2. QED
    BY <1>1, <2>1, CommandLeaves DEF LeftAlone, Like
<1>4. CASE \E f \in ModeFiles : ChangeMode(f)
  <2>1. Command /\ UNCHANGED <<prog, name, count, stack, untidy, fate, amx, gameState>>
    BY <1>4 DEF ChangeMode
  <2>2. QED
    BY <1>1, <2>1, CommandLeaves DEF LeftAlone, Like
<1>5. QED
  BY <1>2, <1>3, <1>4 DEF Ordering

LEMMA ModeCallsLeave ==
    ASSUME Before,
           CallMode \/ ModeReturns \/ ModeInitReturns \/ ModeExitReturns \/ MainReturns \/ RunMain
    PROVE  LeftAlone /\ Like(stack', stack) /\ UNCHANGED <<amx, count>>
<1>1. stack \in Seq(Frames) /\ Bottom /\ diverted \in BOOLEAN
  BY StackBefore
<1>2. /\ UNCHANGED <<prog, name, count, pending, untidy, diverted, amx>> /\ Alive
      /\ Idle => pending = <<>>
  BY DEF CallMode, ModeReturns, ModeInitReturns, ModeExitReturns, MainReturns, RunMain, Returns,
         ScriptsMayCall, history, modeVars
<1>3. Like(stack', stack) /\ fate' \in {fate, "null"}
  <2>1. CASE CallMode
    <3>1. /\ Frame("mode", GameMode, Nobody) \in Frames /\ Frame("mode", GameMode, Nobody).op = "mode"
          /\ "mode" \notin Outermost
      BY FramesTyped DEF OfGameMode, Outermost
    <3>2. QED
      BY <1>1, <2>1, <3>1, LikeCalling DEF CallMode
  <2>2. CASE ModeReturns \/ MainReturns
    BY <1>1, <2>2, TopTyped DEF ModeReturns, MainReturns, Returns
  <2>3. CASE ModeInitReturns \/ ModeExitReturns
    <3>1. Below \in Seq(Frames) /\ Like(Below, stack) /\ Deliver(0, Below)
      BY <1>1, <2>3, TopTyped DEF ModeInitReturns, ModeExitReturns, Returns
    <3>2. QED
      BY <3>1, DeliverLike, LikeBefore
  <2>4. CASE RunMain
    <3>1. ~Idle /\ Top.op = "startMode" /\ stack' = <<Frame("main", GameMode, Nobody)>> \o Below
          /\ UNCHANGED fate
      BY <2>4 DEF RunMain, Returns
    <3>2. Below = <<>> /\ Below \in Seq(Frames) /\ Like(Below, stack)
      BY <1>1, <3>1, TopTyped DEF Outermost
    <3>3. /\ Frame("main", GameMode, Nobody) \in Frames /\ Frame("main", GameMode, Nobody).op = "main"
      BY FramesTyped DEF OfGameMode
    <3>4. Owes(stack', Below)
      BY <3>1, <3>2, <3>3, OwesCalling
    <3>5. Starts(stack)
      BY <1>1, <3>1, CallOver DEF Starts, Idle, Top
    <3>6. ~Stops(stack')
      <4>1. stack' = <<Frame("main", GameMode, Nobody)>>
        BY <3>1, <3>2, <3>3, ConcatEmptySeq, Single
      <4>2. QED
        BY <3>3, <4>1, OpsOfOne DEF Stops
    <3>7. QED
      BY <3>1, <3>2, <3>4, <3>5, <3>6, LikeBefore DEF Like, Opens
  <2>5. QED
    BY <2>1, <2>2, <2>3, <2>4
<1>4. QED
  BY <1>1, <1>2, <1>3 DEF LeftAlone, Like

\* The calls that start and stop a game mode, and the last call of a filter script.
LEMMA FirstCalls ==
    ASSUME NEW f \in Frames, f.op # "init"
    PROVE  /\ <<f>> \in Seq(Frames) /\ Owes(<<f>>, <<>>) /\ <<f>> # <<>>
           /\ f.op \notin {"startMode", "main"} => ~Starts(<<f>>)
           /\ \A g \in Frames : g.op # "init" /\ g.op \notin Outermost =>
                <<g, f>> \in Seq(Frames) /\ Owes(<<g, f>>, <<>>) /\ Like(<<g, f>>, <<f>>)
<1>1. <<f>> = <<f>> \o <<>> /\ <<>> \in Seq(Frames) /\ <<f>> \in Seq(Frames)
  BY ConcatEmptySeq
<1>2. Owes(<<f>>, <<>>)
  BY <1>1, OwesCalling
<1>3. f.op \notin {"startMode", "main"} => ~Starts(<<f>>)
  BY OpsOfOne DEF Starts
<1>4. ASSUME NEW g \in Frames, g.op # "init", g.op \notin Outermost
      PROVE  <<g, f>> \in Seq(Frames) /\ Owes(<<g, f>>, <<>>) /\ Like(<<g, f>>, <<f>>)
  <2>1. <<g, f>> = <<g>> \o <<f>> /\ <<g, f>> \in Seq(Frames)
    OBVIOUS
  <2>2. Like(<<g, f>>, <<f>>)
    BY <1>1, <1>4, <2>1, LikeCalling
  <2>3. QED
    BY <1>2, <2>1, <2>2, LikeBefore DEF Like
<1>5. QED
  BY <1>1, <1>2, <1>3, <1>4

LEMMA ModeFrames ==
    /\ Starting \in Frames /\ Starting.op = "startMode"
    /\ Stopping \in Frames /\ Stopping.op = "stopMode"
    /\ Frame("modeInit", GameMode, Nobody) \in Frames /\ Frame("modeInit", GameMode, Nobody).op = "modeInit"
    /\ Frame("modeExit", GameMode, Nobody) \in Frames /\ Frame("modeExit", GameMode, Nobody).op = "modeExit"
BY FramesTyped DEF Starting, Stopping, OfGameMode

LEMMA UnloadModeOwes ==
    ASSUME Idle, UnloadMode
    PROVE  Owes(stack', stack) /\ ~Starts(stack') /\ fate' \in {fate, "null"}
<1>1. stack = <<>> /\ <<>> \in Seq(Frames) /\ ~Starts(<<>>)
  BY Nothing DEF Idle, Starts
<1>2. /\ Like(<<Frame("modeExit", GameMode, Nobody), Stopping>>, <<Stopping>>)
      /\ Owes(<<Stopping>>, <<>>) /\ <<Stopping>> \in Seq(Frames) /\ ~Starts(<<Stopping>>)
  BY FirstCalls, ModeFrames DEF Outermost
<1>3. CASE UNCHANGED stack /\ fate' = "null"
  BY <1>1, <1>3, LikeItself DEF Like
<1>4. CASE Like(stack', <<Stopping>>) /\ fate' \in {fate, "null"}
  BY <1>1, <1>2, <1>4, LikeBefore DEF Like, Opens
<1>5. QED
  BY <1>2, <1>3, <1>4, DeliverLike DEF UnloadMode

LEMMA EndsLeave ==
    ASSUME Before, MainCheck \/ ShutdownDone \/ Quit \/ ModeDeleted
    PROVE  LeftAlone /\ ~Starts(stack')
<1>1. stack \in Seq(Frames) /\ Bottom /\ diverted \in BOOLEAN
  BY StackBefore
<1>2. /\ UNCHANGED <<prog, name, pending, untidy, diverted>> /\ Alive
      /\ Idle => pending = <<>>
  BY DEF MainCheck, ShutdownDone, Quit, ModeDeleted, Returns, history, AtMainLoop, Before, LineFirst
<1>3. CASE MainCheck
  <2>1. Owes(stack', stack) /\ ~Starts(stack') /\ fate' \in {fate, "null"} /\ UNCHANGED count
    BY <1>1, <1>3, UnloadModeOwes, LikeItself, Nothing DEF MainCheck, AtMainLoop, Idle, Like, Starts
  <2>2. QED
    BY <1>1, <1>2, <2>1 DEF LeftAlone
<1>4. CASE ShutdownDone
  <2>1. stack' = Below /\ ~Idle /\ Top.op = "stopMode" /\ UNCHANGED <<fate, count>>
    BY <1>4 DEF ShutdownDone, Returns
  <2>2. Below = <<>> /\ Like(Below, stack)
    BY <1>1, <2>1, TopTyped DEF Outermost
  <2>3. QED
    BY <1>1, <1>2, <2>1, <2>2, Nothing DEF LeftAlone, Like, Starts
<1>5. CASE Quit
  <2>1. /\ Owes(stack', stack) /\ ~Starts(stack')
        /\ fate' \in {fate, "null", "stopped"} /\ count' \in {count, 0}
    BY <1>5, UnloadModeOwes, UnloadLike, Nothing DEF Quit, AtMainLoop, Idle, Like, Opens, Starts
  <2>2. QED
    BY <1>1, <1>2, <2>1 DEF LeftAlone
<1>6. CASE ModeDeleted
  <2>1. ~Idle /\ Top.op = "stopMode" /\ UnloadFrom(0)
    BY <1>6 DEF ModeDeleted, Returns
  <2>2. Below = <<>> /\ Like(Below, stack)
    BY <1>1, <2>1, TopTyped DEF Outermost
  <2>3. /\ Like(stack', <<>>) /\ fate' \in {fate, "null", "stopped"} /\ count' \in {count, 0}
    BY <2>1, UnloadLike
  <2>4. ~Starts(stack')
    BY <2>3, Nothing DEF Like, Opens, Starts
  <2>5. QED
    BY <1>1, <1>2, <2>2, <2>3, <2>4, LikeBefore DEF LeftAlone, Like
<1>7. QED
  BY <1>3, <1>4, <1>5, <1>6

LEMMA LoadModeLeaves ==
    ASSUME Before, LoadMode
    PROVE  LeftAlone /\ (Starts(stack') => amx' = "loaded") /\ UNCHANGED count
<1>1. /\ UNCHANGED <<prog, name, count, pending, fate, untidy, diverted>> /\ Alive
      /\ pending = <<>> /\ stack = <<>>
  BY DEF LoadMode, history, Idle
<1>2. Owes(stack', stack) /\ (Starts(stack') => amx' = "loaded")
  <2>1. CASE file \in Modes
    BY <1>1, <2>1, FirstCalls, ModeFrames DEF LoadMode, Outermost
  <2>2. CASE file \notin Modes
    BY <1>1, <2>2, Nothing, LikeItself DEF LoadMode, Like, Starts
  <2>3. QED
    BY <2>1, <2>2
<1>3. QED
  BY <1>1, <1>2, StackBefore DEF LeftAlone

-----------------------------------------------------------------------------
(***************************************************************************)
(* LoadFilterScript.                                                       *)
(***************************************************************************)
Programs == [Slots -> Scripts \cup {Nobody, Blank}]
Names == [Slots -> Scripts \cup {Nobody}]

Loaded(f, s, programs, calls) ==
    \/ /\ f \in Scripts /\ prog' = [programs EXCEPT ![s] = f]
       /\ stack' = <<Frame("init", s, f)>> \o calls
    \/ f \notin Scripts /\ prog' = [programs EXCEPT ![s] = Blank] /\ stack' = calls

LEMMA LoadCases ==
    ASSUME NEW f, NEW programs, NEW names, NEW calls, LoadInto(f, programs, names, calls)
    PROVE  \/ SlotFor(f, programs, names) = {} /\ prog' = programs /\ stack' = calls
           \/ \E s \in Slots :
                /\ programs[s] = Nobody
                /\ \A t \in Slots : t < s => programs[t] # Nobody /\ names[t] # f
                /\ Loaded(f, s, programs, calls)
<1>1. ASSUME NEW s \in SlotFor(f, programs, names)
      PROVE  /\ s \in Slots /\ programs[s] = Nobody
             /\ \A t \in Slots : t < s => programs[t] # Nobody /\ names[t] # f
  <2>1. s \in Slots /\ programs[s] = Nobody /\ \A t \in SearchStops(f, programs, names) : s <= t
    BY DEF SlotFor, LowestOf
  <2>2. \A t \in Slots : t < s => t \notin SearchStops(f, programs, names)
    BY <2>1 DEF Slots
  <2>3. QED
    BY <2>1, <2>2 DEF SearchStops
<1>2. CASE SlotFor(f, programs, names) = {}
  BY <1>2 DEF LoadInto
<1>3. CASE SlotFor(f, programs, names) # {}
  <2>1. PICK s \in SlotFor(f, programs, names) : Loaded(f, s, programs, calls)
    BY <1>3 DEF LoadInto, Loaded
  <2>2. QED
    BY <1>1, <2>1
<1>4. QED
  BY <1>2, <1>3

LEMMA LoadKeeps ==
    ASSUME NEW f \in Files, NEW programs \in Programs, NEW names \in Names, NEW calls \in Seq(Frames),
           LoadInto(f, programs, names, calls)
    PROVE  /\ prog' \in Programs /\ stack' \in Seq(Frames)
           /\ OnlyLast(calls, Outermost) => OnlyLast(stack', Outermost)
           /\ Opens(calls, stack')
           /\ \A s \in Slots : programs[s] # Nobody => prog'[s] = programs[s]
           /\ NamesOf(programs, names) /\ BegunOf(calls, programs, names) =>
                /\ NamesOf(prog', names) /\ BegunOf(stack', prog', names)
                /\ TidyOf(calls, programs, names) /\ Begun(calls) = {} =>
                     TidyOf(stack', prog', names)
<1>1. CASE prog' = programs /\ stack' = calls
  BY <1>1 DEF Opens
<1>2. CASE \E s \in Slots : /\ programs[s] = Nobody
                            /\ \A t \in Slots : t < s => programs[t] # Nobody /\ names[t] # f
                            /\ Loaded(f, s, programs, calls)
  <2>1. PICK s \in Slots : /\ programs[s] = Nobody
                           /\ \A t \in Slots : t < s => programs[t] # Nobody /\ names[t] # f
                           /\ Loaded(f, s, programs, calls)
    BY <1>2
  <2> PICK g : g = Frame("init", s, f)
    OBVIOUS
  <2>2. g \in Frames /\ g.op = "init" /\ g.slot = s /\ g.next = f /\ g.op \notin Outermost
        /\ g.op \notin {"startMode", "main"}
    BY FramesTyped, OpsApart
  <2>3. /\ <<g>> \o calls \in Seq(Frames)
        /\ OpsIn(<<g>> \o calls) = {g.op} \cup OpsIn(calls)
        /\ OnlyLast(calls, Outermost) => OnlyLast(<<g>> \o calls, Outermost)
        /\ Begun(<<g>> \o calls) = Begun(calls) \cup {s}
        /\ \A P, N : /\ BegunOf(calls, P, N)
                     /\ f \in Scripts /\ P[s] = f /\ N[s] = Nobody /\ s \notin Begun(calls)
                     => BegunOf(<<g>> \o calls, P, N)
    BY <2>2, CallMade
  <2>4. \A t \in Slots : t # s => prog'[t] = programs[t]
    BY <2>1 DEF Loaded, Programs
  <2>5. prog'[s] # Nobody /\ Nobody \notin Scripts /\ Blank \notin Scripts
    BY <2>1, FilesAssumption DEF Loaded, Programs, Files
  <2>6. f \in Scripts => prog'[s] = f /\ stack' = <<g>> \o calls
    BY <2>1 DEF Loaded, Programs
  <2>7. f \notin Scripts => prog'[s] = Blank /\ stack' = calls
    BY <2>1 DEF Loaded, Programs
  <2>8. prog' \in Programs
    BY <2>1 DEF Loaded, Programs
  <2>9. \A t \in Slots : programs[t] # Nobody => prog'[t] = programs[t]
    BY <2>1, <2>4
  <2>10. ASSUME NamesOf(programs, names), BegunOf(calls, programs, names)
         PROVE  /\ NamesOf(prog', names) /\ BegunOf(stack', prog', names)
                /\ TidyOf(calls, programs, names) /\ Begun(calls) = {} =>
                     TidyOf(stack', prog', names)
    <3>1. names[s] = Nobody
      BY <2>1, <2>10 DEF NamesOf
    <3>2. NamesOf(prog', names)
      BY <2>4, <2>10, <3>1 DEF NamesOf
    <3>3. s \notin Begun(calls)
      BY <2>1, <2>5, <2>10 DEF Begun, BegunOf
    <3>4. BegunOf(calls, prog', names)
      <4>1. \A i \in DOMAIN calls : calls[i].op = "init" => calls[i].slot \in Slots
        BY FramesTyped, OpsApart
      <4>2. \A i \in DOMAIN calls : calls[i].op = "init" => calls[i].slot # s
        BY <3>3 DEF Begun
      <4>3. QED
        BY <2>4, <2>10, <4>1, <4>2 DEF BegunOf
    <3>5. BegunOf(stack', prog', names)
      <4>1. CASE f \in Scripts
        BY <2>3, <2>6, <3>1, <3>3, <3>4, <4>1
      <4>2. CASE f \notin Scripts
        BY <2>7, <3>4, <4>2
      <4>3. QED
        BY <4>1, <4>2
    <3>6. ASSUME TidyOf(calls, programs, names), Begun(calls) = {}
          PROVE  TidyOf(stack', prog', names)
      <4>1. \A t \in Slots : programs[t] # Nobody <=> t < s
        BY <2>1, <3>6 DEF TidyOf, Slots
      <4>2. \A t \in Slots : prog'[t] # Nobody <=> t <= s
        BY <2>4, <2>5, <4>1 DEF Slots
      <4>3. \A t, u \in Slots : t < u /\ prog'[u] # Nobody => prog'[t] # Nobody
        BY <4>2 DEF Slots
      <4>4. \A t \in Slots : t # s /\ prog'[t] \in Scripts => names[t] = prog'[t]
        BY <2>4, <3>6 DEF TidyOf
      <4>5. Begun(stack') = IF f \in Scripts THEN {s} ELSE {}
        BY <2>3, <2>6, <2>7, <3>6
      <4>6. \A t \in Slots \ Begun(stack') : prog'[t] \in Scripts => names[t] = prog'[t]
        BY <2>5, <2>7, <4>4, <4>5
      <4>7. \A t \in Slots : t # s /\ prog'[t] \in Scripts => prog'[t] # prog'[s]
        <5>1. ASSUME NEW t \in Slots, t # s, prog'[t] \in Scripts, prog'[t] = prog'[s] PROVE FALSE
          <6>1. f \in Scripts /\ prog'[s] = f
            BY <2>5, <2>6, <2>7, <5>1
          <6>2. names[t] = f
            BY <4>4, <5>1, <6>1
          <6>3. t < s
            BY <2>5, <4>2, <5>1 DEF Slots
          <6>4. QED
            BY <2>1, <6>2, <6>3
        <5>2. QED
          BY <5>1
      <4>8. \A t, u \in Slots : prog'[t] = prog'[u] /\ prog'[t] \in Scripts => t = u
        BY <2>4, <3>6, <4>7 DEF TidyOf
      <4>9. QED
        BY <4>3, <4>6, <4>8 DEF TidyOf
    <3>7. QED
      BY <3>2, <3>5, <3>6
  <2>11. stack' \in Seq(Frames) /\ (OnlyLast(calls, Outermost) => OnlyLast(stack', Outermost))
    BY <2>3, <2>6, <2>7
  <2>12. Opens(calls, stack')
    BY <2>2, <2>3, <2>6, <2>7 DEF Opens, Starts, Stops, Outermost
  <2>13. QED
    BY <2>8, <2>9, <2>10, <2>11, <2>12
<1>3. QED
  BY <1>1, <1>2, LoadCases

-----------------------------------------------------------------------------
(***************************************************************************)
(* The steps that fill and empty slots.                                    *)
(***************************************************************************)
FsKept ==
    /\ FsTypeOK'
    /\ Bottom'
    /\ Opens(stack, stack')
    /\ Alive /\ (Alive' => SlotsKept')

FsBefore == Before /\ (Alive => SlotsKept)

LEMMA FsBeforeFacts ==
    ASSUME FsBefore
    PROVE  /\ prog \in Programs /\ name \in Names /\ stack \in Seq(Frames) /\ count \in Nat
           /\ pending \in Seq(Files) /\ Bottom /\ FsTypeOK
           /\ Alive => BegunOf(stack, prog, name) /\ NamesOf(prog, name)
BY DEF FsBefore, Before, TypeOK, FsTypeOK, Programs, Names, SlotsKept

LEMMA FlagsTyped ==
    ASSUME FsTypeOK
    PROVE  /\ untidy \in BOOLEAN /\ diverted \in BOOLEAN
           /\ \A x : (untidy \/ x # {}) \in BOOLEAN /\ (diverted \/ x # <<>>) \in BOOLEAN
BY Zenon DEF FsTypeOK

LEMMA LoadNextKeeps ==
    ASSUME FsBefore, LoadNext
    PROVE  FsKept
<1>1. Alive /\ stack = <<>> /\ pending # <<>> /\ UNCHANGED <<name, count, fate, untidy, diverted>>
  BY DEF LoadNext, Idle, history
<1>2. Head(pending) \in Files /\ Tail(pending) \in Seq(Files) /\ pending' = Tail(pending)
  BY <1>1, FsBeforeFacts, HeadTailProperties DEF LoadNext
<1> PICK f \in Files : f = Head(pending)
  BY <1>2
<1>3. LoadInto(f, prog, name, <<>>)
  BY DEF LoadNext
<1>4. /\ prog' \in Programs /\ stack' \in Seq(Frames) /\ OnlyLast(stack', Outermost)
      /\ Opens(<<>>, stack')
      /\ NamesOf(prog', name) /\ BegunOf(stack', prog', name)
      /\ TidyOf(<<>>, prog, name) => TidyOf(stack', prog', name)
  BY <1>1, <1>3, FsBeforeFacts, LoadKeeps, Nothing
<1>5. FsTypeOK'
  BY <1>1, <1>2, <1>4, FsBeforeFacts DEF FsTypeOK, Programs
<1>6. SlotsKept'
  BY <1>1, <1>4 DEF FsBefore, SlotsKept
<1>7. QED
  BY <1>1, <1>4, <1>5, <1>6 DEF FsKept, Bottom

\* con_loadfs, and con_reloadfs of a script that is not loaded.
LEMMA LoadFsKeeps ==
    ASSUME FsBefore, NEW f \in Files, Command, LoadInto(f, prog, name, stack),
           untidy' = (untidy \/ Initialising # {}), UNCHANGED <<name, count, fate>>
    PROVE  FsKept
<1>1. Alive /\ pending' = <<>> /\ diverted' \in BOOLEAN /\ untidy' \in BOOLEAN
  BY CommandLeaves, FlagsTyped, FsBeforeFacts DEF FsBefore
<1>2. /\ prog' \in Programs /\ stack' \in Seq(Frames) /\ OnlyLast(stack', Outermost)
      /\ Opens(stack, stack')
      /\ NamesOf(prog', name) /\ BegunOf(stack', prog', name)
      /\ TidyOf(stack, prog, name) /\ Begun(stack) = {} => TidyOf(stack', prog', name)
  BY <1>1, FsBeforeFacts, LoadKeeps DEF Bottom
<1>3. FsTypeOK'
  BY <1>1, <1>2, FsBeforeFacts, EmptySeq DEF FsTypeOK, Programs
<1>4. ~untidy' => ~untidy /\ Begun(stack) = {}
  BY DEF Initialising, Begun
<1>5. SlotsKept'
  BY <1>1, <1>2, <1>4 DEF FsBefore, SlotsKept
<1>6. QED
  BY <1>1, <1>2, <1>3, <1>5 DEF FsKept, Bottom

LEMMA InitReturnsKeeps ==
    ASSUME FsBefore, InitReturns
    PROVE  FsKept
<1>1. /\ Alive /\ ~Idle /\ Top.op = "init" /\ UNCHANGED <<prog, pending, fate, untidy, diverted>>
      /\ name' = [name EXCEPT ![Top.slot] = Top.next] /\ count' = count + 1 /\ stack' = Below
  BY DEF InitReturns, Returns, history
<1>2. Below \in Seq(Frames) /\ Top.slot \in Slots
  BY <1>1, FsBeforeFacts, TopTyped, OpsApart
<1>3. /\ BegunOf(Below, prog, name) /\ OnlyLast(Below, Outermost) /\ OpsIn(Below) \subseteq OpsIn(stack)
      /\ Top.next \in Scripts /\ prog[Top.slot] = Top.next
      /\ Begun(Below) = Begun(stack) \ {Top.slot}
  BY <1>1, FsBeforeFacts, CallOver DEF Idle, Top, Below, Bottom
<1> PICK s \in Slots : s = Top.slot
  BY <1>2
<1>4. name'[s] = prog[s] /\ prog[s] \in Scripts /\ \A t \in Slots : t # s => name'[t] = name[t]
  BY <1>1, <1>3, FsBeforeFacts DEF Names
<1>5. FsTypeOK'
  <2>1. name' \in Names /\ count' \in Nat
    BY <1>1, <1>3, FsBeforeFacts DEF Names
  <2>2. QED
    BY <1>1, <1>2, <2>1, FsBeforeFacts DEF FsTypeOK, Names
<1>6. BegunOf(Below, prog, name')
  <2>1. \A i \in DOMAIN Below : Below[i].op = "init" => Below[i].slot \in Slots
    BY <1>2, FramesTyped, OpsApart
  <2>2. \A i \in DOMAIN Below : Below[i].op = "init" => Below[i].slot # s
    BY <1>3 DEF Begun
  <2>3. QED
    BY <1>3, <1>4, <2>1, <2>2 DEF BegunOf
<1>7. NamesOf(prog, name')
  BY <1>1, <1>4, FsBeforeFacts DEF NamesOf
<1>8. TidyOf(stack, prog, name) => TidyOf(Below, prog, name')
  BY <1>3, <1>4 DEF TidyOf
<1>9. SlotsKept'
  BY <1>1, <1>6, <1>7, <1>8 DEF FsBefore, SlotsKept
<1>10. QED
  BY <1>1, <1>3, <1>5, <1>9 DEF FsKept, Bottom, Opens, Starts, Stops

LEMMA ExitReturnsKeeps ==
    ASSUME FsBefore, ExitReturns
    PROVE  FsKept
<1> DEFINE programs == [prog EXCEPT ![Top.slot] = Nobody]
           names == [name EXCEPT ![Top.slot] = Nobody]
<1>1. /\ Alive /\ ~Idle /\ Top.op = "exit" /\ UNCHANGED <<count, pending, diverted>>
      /\ name' = names /\ untidy' = TRUE
      /\ fate' = IF Top.slot \in Executing(Below) THEN "freed" ELSE fate
      /\ \/ prog' = programs /\ stack' = Below
         \/ Top.next # Nobody /\ LoadInto(Top.next, programs, names, Below)
  BY DEF ExitReturns, Returns, NamesWithout, FateAfterFreeing
<1>2. /\ Below \in Seq(Frames) /\ Top.slot \in Slots /\ Top.next \in Files \cup {Nobody}
      /\ Like(Below, stack)
  BY <1>1, FsBeforeFacts, TopTyped, OpsApart
<1> PICK s \in Slots : s = Top.slot
  BY <1>2
<1>3. /\ programs \in Programs /\ programs[s] = Nobody /\ names \in Names /\ names[s] = Nobody
      /\ \A t \in Slots : t # s => programs[t] = prog[t] /\ names[t] = name[t]
  BY FsBeforeFacts DEF Programs, Names
<1> HIDE DEF programs, names
<1>4. OnlyLast(Below, Outermost) /\ Opens(stack, Below) /\ BegunOf(Below, prog, name)
  BY <1>1, <1>2, FsBeforeFacts DEF Like, Owes, Bottom
<1>5. NamesOf(programs, names)
  BY <1>1, <1>3, FsBeforeFacts DEF NamesOf
<1>6. Alive' => BegunOf(Below, programs, names)
  <2>1. Alive' => \A i \in DOMAIN Below : Below[i].slot # s
    BY <1>1 DEF Executing, Alive
  <2>2. \A i \in DOMAIN Below : Below[i].op = "init" => Below[i].slot \in Slots
    BY <1>2, FramesTyped, OpsApart
  <2>3. QED
    BY <1>3, <1>4, <2>1, <2>2 DEF BegunOf
<1>7. /\ prog' \in Programs /\ stack' \in Seq(Frames) /\ OnlyLast(stack', Outermost)
      /\ Opens(stack, stack')
      /\ Alive' => NamesOf(prog', names) /\ BegunOf(stack', prog', names)
  <2>1. CASE prog' = programs /\ stack' = Below
    BY <1>2, <1>3, <1>4, <1>5, <1>6, <2>1
  <2>2. CASE Top.next # Nobody /\ LoadInto(Top.next, programs, names, Below)
    BY <1>2, <1>3, <1>4, <1>5, <1>6, <2>2, LoadKeeps DEF Opens
  <2>3. QED
    BY <1>1, <2>1, <2>2
<1>8. FsTypeOK'
  <2>1. fate' \in {"alive", "stopped", "exited", "null", "freed"}
    BY <1>1, FsBeforeFacts DEF FsTypeOK
  <2>2. QED
    BY <1>1, <1>3, <1>7, <2>1, FsBeforeFacts DEF FsTypeOK, Programs, Names
<1>9. Alive' => SlotsKept'
  BY <1>1, <1>7 DEF SlotsKept
<1>10. QED
  BY <1>1, <1>7, <1>8, <1>9 DEF FsKept, Bottom

LEMMA LastReturnsKeeps ==
    ASSUME FsBefore, LastReturns
    PROVE  FsKept
<1>1. /\ Alive /\ ~Idle /\ Top.op = "last" /\ UNCHANGED <<pending, diverted>> /\ untidy' = TRUE
      /\ prog' = [prog EXCEPT ![Top.slot] = Nobody] /\ name' = [name EXCEPT ![Top.slot] = Nobody]
      /\ UnloadFrom(Top.slot + 1)
  BY DEF LastReturns, Returns, NamesWithout
<1>2. Top.slot \in Slots
  BY <1>1, FsBeforeFacts, TopTyped, OpsApart
<1>3. /\ prog' \in Programs /\ name' \in Names
      /\ \A s \in Slots : name'[s] = Nobody \/ (name'[s] = name[s] /\ prog'[s] = prog[s])
  BY <1>1, <1>2, FsBeforeFacts DEF Programs, Names
<1>4. /\ stack' \in Seq(Frames) /\ OnlyLast(stack', Outermost) /\ Opens(stack, stack')
      /\ fate' \in {fate, "null", "stopped"} /\ count' \in {count, 0}
      /\ BegunOf(stack', prog', name')
  BY <1>1, UnloadLike, Nothing DEF Like, Owes, Opens, Starts, Stops
<1>5. NamesOf(prog', name')
  BY <1>1, <1>3, FsBeforeFacts DEF NamesOf
<1>6. FsTypeOK'
  <2>1. count' \in Nat /\ fate' \in {"alive", "stopped", "exited", "null", "freed"}
    BY <1>4, FsBeforeFacts DEF FsTypeOK
  <2>2. QED
    BY <1>1, <1>3, <1>4, <2>1, FsBeforeFacts DEF FsTypeOK, Programs, Names
<1>7. QED
  BY <1>1, <1>4, <1>5, <1>6 DEF FsKept, Bottom, SlotsKept

LEMMA LeftAloneKeeps ==
    ASSUME FsBefore, LeftAlone
    PROVE  FsTypeOK' /\ Bottom' /\ Alive /\ (Alive' => SlotsKept')
<1>1. /\ stack' \in Seq(Frames) /\ OnlyLast(stack', Outermost) /\ Begun(stack') = Begun(stack)
      /\ \A P, N : BegunOf(stack, P, N) => BegunOf(stack', P, N)
      /\ UNCHANGED <<prog, name, untidy>> /\ Alive
  BY FsBeforeFacts DEF LeftAlone, Owes, Bottom
<1>2. FsTypeOK'
  <2>1. count' \in Nat /\ fate' \in {"alive", "stopped", "exited", "null", "freed"}
    <3>1. count' \in {count, 0} /\ fate' \in {fate, "null", "stopped", "exited"}
      BY DEF LeftAlone
    <3>2. QED
      BY <3>1, FsBeforeFacts DEF FsTypeOK
  <2>2. diverted' \in BOOLEAN /\ pending' \in Seq(Files)
    <3>1. diverted' \in BOOLEAN /\ (pending' = <<>> \/ pending' = pending)
      BY DEF LeftAlone
    <3>2. QED
      BY <3>1, FsBeforeFacts, EmptySeq
  <2>3. QED
    BY <1>1, <2>1, <2>2, FsBeforeFacts DEF FsTypeOK
<1>3. SlotsKept'
  BY <1>1 DEF FsBefore, SlotsKept, TidyOf
<1>4. QED
  BY <1>1, <1>2, <1>3 DEF Bottom

-----------------------------------------------------------------------------
(***************************************************************************)
(* The configured line: while names of it are left, the slots from the     *)
(* number handed out on are empty, and so is one that is looked for.       *)
(***************************************************************************)
LEMMA LineTyped ==
    ASSUME FsBefore
    PROVE  /\ Len(Configured) \in Nat /\ Len(pending) \in Nat /\ HandedOut \in Int
           /\ DOMAIN pending = 1 .. Len(pending)
           /\ pending = <<>> <=> Len(pending) = 0
           /\ \A s \in Slots : s \in Nat
           /\ Nobody \notin Scripts
           /\ \A i \in 1 .. Len(Configured) : Configured[i] \in Files
<1>1. pending \in Seq(Files) /\ Configured \in Seq(Files)
  BY FsBeforeFacts, ConfiguredAssumption
<1>2. /\ Len(Configured) \in Nat /\ Len(pending) \in Nat /\ DOMAIN pending = 1 .. Len(pending)
      /\ \A i \in 1 .. Len(Configured) : Configured[i] \in Files
  BY <1>1
<1>3. pending = <<>> <=> Len(pending) = 0
  BY <1>1, EmptySeq
<1>4. QED
  BY <1>2, <1>3, FilesAssumption DEF HandedOut, Slots, Files

LEMMA LineLeftAlone ==
    ASSUME FsBefore, Line, LeftAlone, ~diverted'
    PROVE  Line'
<1>1. UNCHANGED <<prog, pending>> /\ (pending # <<>> => ~Idle)
  BY DEF LeftAlone
<1>2. HandedOut' = HandedOut
  BY <1>1 DEF HandedOut
<1>3. ASSUME pending # <<>>
      PROVE  count' < HandedOut /\ OnlyLast(stack', {"init"})
  <2>1. count < HandedOut /\ OnlyLast(stack, {"init"}) /\ count \in Nat /\ count' \in {count, 0}
    BY <1>1, <1>3, FsBeforeFacts DEF Line, LeftAlone
  <2>2. count' < HandedOut
    BY <2>1, LineTyped
  <2>3. QED
    BY <2>1, <2>2 DEF LeftAlone, Owes
<1>4. pending # <<>> => (IF Idle THEN count <= HandedOut ELSE count < HandedOut)'
  <2>1. ASSUME pending # <<>> PROVE count' <= HandedOut /\ count' < HandedOut
    BY <1>3, <2>1, LineTyped, FsBeforeFacts DEF LeftAlone
  <2>2. QED
    BY <1>2, <2>1
<1>5. QED
  BY <1>1, <1>2, <1>3, <1>4 DEF Line

LEMMA LineInitReturns ==
    ASSUME FsBefore, Line, InitReturns
    PROVE  Line'
<1>1. /\ ~Idle /\ Top.op = "init" /\ UNCHANGED <<prog, pending>> /\ count' = count + 1 /\ stack' = Below
  BY DEF InitReturns, Returns
<1>2. HandedOut' = HandedOut
  BY <1>1 DEF HandedOut
<1>3. ASSUME pending # <<>>
      PROVE  Idle' /\ count' <= HandedOut /\ OnlyLast(stack', {"init"})
  <2>1. count < HandedOut /\ OnlyLast(stack, {"init"}) /\ count \in Nat
    BY <1>1, <1>3, FsBeforeFacts DEF Line
  <2>2. Below = <<>>
    BY <1>1, <2>1, FsBeforeFacts, CallOver DEF Idle, Top, Below
  <2>3. QED
    BY <1>1, <2>1, <2>2, LineTyped, Nothing DEF Idle
<1>4. QED
  BY <1>1, <1>2, <1>3 DEF Line

LEMMA LineLoadFs ==
    ASSUME FsBefore, Alive, Line, NEW f \in Files, Command, LoadInto(f, prog, name, stack), ~diverted'
    PROVE  Line'
<1>1. pending = <<>> /\ pending' = <<>>
  BY DEF Command
<1>2. HandedOut' = HandedOut
  BY <1>1 DEF HandedOut
<1>3. \A s \in Slots : prog[s] # Nobody => prog'[s] = prog[s]
  BY FsBeforeFacts, LoadKeeps
<1>4. QED
  BY <1>1, <1>2, <1>3, LineTyped DEF Line

LEMMA LineLoadNext ==
    ASSUME FsBefore, Alive, Line, LoadNext, Len(Configured) <= MaxSlots
    PROVE  Line'
<1>1. stack = <<>> /\ pending # <<>> /\ UNCHANGED <<name, count>> /\ pending' = Tail(pending)
  BY DEF LoadNext, Idle
<1>2. /\ Tail(pending) \in Seq(Files) /\ Len(Tail(pending)) = Len(pending) - 1
      /\ Len(pending) >= 1 /\ Head(pending) = pending[1] /\ 1 \in DOMAIN pending
      /\ DOMAIN Tail(pending) = 1 .. Len(pending) - 1
      /\ \A i \in DOMAIN Tail(pending) : i + 1 \in DOMAIN pending /\ Tail(pending)[i] = pending[i + 1]
  BY <1>1, FsBeforeFacts, Popped
<1> PICK k \in Nat : k = HandedOut
  BY LineTyped DEF Line
<1>3. /\ HandedOut' = k + 1 /\ k < Len(Configured) /\ k < MaxSlots /\ k \in Slots
      /\ k + 1 \in 1 .. Len(Configured) /\ \A t \in Slots : t \in Nat
  BY <1>1, <1>2, LineTyped, BoundsAssumption DEF HandedOut, Slots
<1> PICK f : f = Head(pending)
  OBVIOUS
<1>4. f = Configured[k + 1] /\ f \in Files /\ LoadInto(f, prog, name, <<>>)
  BY <1>2, <1>3, LineTyped DEF Line, LoadNext
<1>5. \A t \in Slots : prog[t] # Nobody => prog'[t] = prog[t]
  BY <1>4, FsBeforeFacts, LoadKeeps, Nothing
<1>6. /\ \A t \in Slots : prog[t] # Nobody => t < k
      /\ count <= k
  BY <1>1 DEF Line, Idle
<1>7. /\ \A t \in Slots : prog'[t] # Nobody => t < k + 1
      /\ f \in Scripts => \E t \in Slots : prog'[t] = f
      /\ OnlyLast(stack', {"init"})
  <2>1. CASE SlotFor(f, prog, name) = {} /\ prog' = prog /\ stack' = <<>>
    <3>1. k \in SearchStops(f, prog, name) /\ SearchStops(f, prog, name) \subseteq Slots
      BY <1>3, <1>6 DEF SearchStops
    <3>2. PICK s \in SearchStops(f, prog, name) : \A t \in SearchStops(f, prog, name) : s <= t
      BY <1>3, <3>1, LeastNatural
    <3>3. count < MaxSlots
      BY <1>3, <1>6, FsBeforeFacts, BoundsAssumption
    <3>4. prog[s] # Nobody
      BY <2>1, <3>1, <3>2, <3>3 DEF SlotFor, LowestOf
    <3>5. name[s] = f
      BY <3>4 DEF SearchStops
    <3>6. f \in Scripts => prog[s] = f
      BY <3>1, <3>5, FsBeforeFacts, LineTyped DEF NamesOf
    <3>7. QED
      BY <1>3, <1>6, <2>1, <3>1, <3>6, Nothing
  <2>2. CASE \E s \in Slots : /\ prog[s] = Nobody
                              /\ \A t \in Slots : t < s => prog[t] # Nobody /\ name[t] # f
                              /\ Loaded(f, s, prog, <<>>)
    <3>1. PICK s \in Slots : /\ prog[s] = Nobody
                             /\ \A t \in Slots : t < s => prog[t] # Nobody /\ name[t] # f
                             /\ Loaded(f, s, prog, <<>>)
      BY <2>2
    <3>2. s < k + 1
      BY <1>3, <1>6, <3>1
    <3>3. \A t \in Slots : t # s => prog'[t] = prog[t]
      BY <3>1, FsBeforeFacts DEF Loaded, Programs
    <3>4. f \in Scripts => prog'[s] = f
      BY <3>1, FsBeforeFacts DEF Loaded, Programs
    <3>5. OnlyLast(stack', {"init"})
      <4>1. Frame("init", s, f) \in Frames
        BY <1>4, FramesTyped, OpsApart
      <4>2. QED
        <5>1. <<>> \in Seq(Frames) /\ OnlyLast(<<>>, {"init"})
          BY Nothing
        <5>2. OnlyLast(<<Frame("init", s, f)>> \o <<>>, {"init"})
          BY <4>1, <5>1, CallMade
        <5>3. QED
          BY <3>1, <5>1, <5>2, Zenon DEF Loaded
    <3>6. \A t \in Slots : prog'[t] # Nobody => t < k + 1
      <4>1. ASSUME NEW t \in Slots, prog'[t] # Nobody, t # s PROVE t < k + 1
        BY <1>3, <1>6, <3>3, <4>1
      <4>2. QED
        BY <3>2, <4>1
    <3>7. QED
      BY <3>4, <3>5, <3>6
  <2>3. QED
    BY <1>4, <2>1, <2>2, LoadCases
<1>8. \A i \in DOMAIN pending' : pending'[i] = Configured[k + 1 + i]
  <2>1. ASSUME NEW i \in DOMAIN Tail(pending) PROVE Tail(pending)[i] = Configured[k + 1 + i]
    <3>1. i + 1 \in DOMAIN pending /\ Tail(pending)[i] = pending[i + 1] /\ i \in Int
      BY <1>2, LineTyped
    <3>2. pending[i + 1] = Configured[k + (i + 1)]
      BY <3>1 DEF Line
    <3>3. k + (i + 1) = k + 1 + i
      BY <3>1
    <3>4. QED
      BY <3>1, <3>2, <3>3
  <2>2. QED
    BY <1>1, <2>1
<1>9. ASSUME NEW i \in 1 .. k + 1, Configured[i] \in Scripts
      PROVE  \E t \in Slots : prog'[t] = Configured[i]
  <2>1. CASE i = k + 1
    BY <1>4, <1>7, <1>9, <2>1
  <2>2. CASE i # k + 1
    <3>1. i \in 1 .. k
      BY <2>2
    <3>2. PICK t \in Slots : prog[t] = Configured[i]
      BY <1>9, <3>1 DEF Line
    <3>3. QED
      BY <1>5, <1>9, <3>2, LineTyped
  <2>3. QED
    BY <2>1, <2>2
<1>10. count' <= k + 1 /\ count' < k + 1
  BY <1>1, <1>6, FsBeforeFacts
<1>11. QED
  BY <1>3, <1>7, <1>8, <1>9, <1>10 DEF Line

-----------------------------------------------------------------------------
(***************************************************************************)
(* The game mode's own variables.                                          *)
(***************************************************************************)
ModeTypeOK ==
    /\ amx \in {"none", "raw", "zero", "loaded"}
    /\ file \in ModeFiles
    /\ index \in 0 .. Len(ModeLine) - 1
    /\ repeat \in BOOLEAN
    /\ gameState \in {"starting", "running", "restarting", "quitting"}
    /\ finished \in BOOLEAN
    /\ ordered \in BOOLEAN
    /\ refused \in BOOLEAN

LEMMA TypeParts == TypeOK <=> FsTypeOK /\ ModeTypeOK
BY Zenon DEF TypeOK, ModeTypeOK

LEMMA LineOfModes ==
    /\ \A i \in 0 .. Len(ModeLine) - 1 : ModeLine[i + 1] \in ModeFiles
    /\ \A i \in 0 .. Len(ModeLine) - 1 : NextIndex(i) \in 0 .. Len(ModeLine) - 1
    /\ 0 \in 0 .. Len(ModeLine) - 1
<1>1. ModeLine \in Seq(ModeFiles) /\ Len(ModeLine) \in Nat /\ Len(ModeLine) >= 1
  BY ModeLineAssumption, EmptySeq
<1>2. QED
  BY <1>1 DEF NextIndex

LEMMA CommandAlive ==
    ASSUME NEW f, LoadFs(f) \/ UnloadFs(f) \/ ReloadFs(f)
    PROVE  Alive
BY DEF LoadFs, UnloadFs, ReloadFs, Command, ScriptsMayCall

(* Who spoke last: what an order and the game mode's own exit leave behind. *)
OrdersKept == ModeTypeOK' /\ (Alive' => PlayedNext')

LEMMA GameModeExitKeeps ==
    ASSUME ModeTypeOK, GameModeExit
    PROVE  OrdersKept
<1>1. /\ index' \in 0 .. Len(ModeLine) - 1 /\ file' = ModeLine[index' + 1] /\ file' \in ModeFiles
      /\ UNCHANGED <<amx, gameState>>
  BY LineOfModes DEF GameModeExit, ModeTypeOK
<1>2. /\ ordered' = FALSE /\ refused' = FALSE
      /\ \/ file' \in Readable /\ repeat' = TRUE /\ finished' = TRUE
         \/ fate' = "exited" /\ UNCHANGED <<repeat, finished>>
  BY DEF GameModeExit
<1>3. repeat' \in BOOLEAN /\ finished' \in BOOLEAN /\ ordered' \in BOOLEAN /\ refused' \in BOOLEAN
  BY <1>2, Zenon DEF ModeTypeOK
<1>4. Alive' => repeat' /\ file' \in Readable
  BY <1>2 DEF Alive
<1>5. QED
  BY <1>1, <1>3, <1>4 DEF OrdersKept, ModeTypeOK, PlayedNext

LEMMA OrderKeeps ==
    ASSUME ModeTypeOK, NEW f \in ModeFiles, SetScriptFile(f), UNCHANGED <<amx, gameState>>,
           index' \in 0 .. Len(ModeLine) - 1
    PROVE  OrdersKept
<1>1. /\ file' = f /\ ordered' = TRUE /\ (~refused' => f \in Readable)
      /\ repeat' \in BOOLEAN /\ finished' \in BOOLEAN /\ refused' \in BOOLEAN
  <2>1. repeat' \in BOOLEAN /\ finished' \in BOOLEAN /\ refused' \in BOOLEAN
    BY Zenon DEF SetScriptFile, ModeTypeOK
  <2>2. QED
    BY <2>1, Zenon DEF SetScriptFile
<1>2. ordered' \in BOOLEAN
  BY <1>1, Zenon
<1>3. PlayedNext'
  BY <1>1 DEF PlayedNext
<1>4. QED
  BY <1>1, <1>2, <1>3 DEF OrdersKept, ModeTypeOK

LEMMA ModeKept ==
    ASSUME TypeOK, [Next]_vars, Alive => PlayedNext
    PROVE  OrdersKept
<1>1. ModeTypeOK
  BY TypeParts
<1>2. CASE Ordering
  <2>1. CASE GameModeExit
    BY <1>1, <2>1, GameModeExitKeeps
  <2>2. CASE Gmx
    <3>1. index' = NextIndex(index) /\ SetScriptFile(ModeLine[index' + 1]) /\ UNCHANGED <<amx, gameState>>
      BY <2>2 DEF Gmx
    <3>2. index' \in 0 .. Len(ModeLine) - 1
      BY <1>1, <3>1, LineOfModes DEF ModeTypeOK
    <3>3. ModeLine[index' + 1] \in ModeFiles
      BY <3>2, LineOfModes
    <3>4. QED
      BY <1>1, <3>1, <3>2, <3>3, OrderKeeps
  <2>3. ASSUME NEW f \in ModeFiles, ChangeMode(f) PROVE OrdersKept
    BY <1>1, <2>3, OrderKeeps DEF ChangeMode, ModeTypeOK
  <2>4. QED
    BY <1>2, <2>1, <2>2, <2>3 DEF Ordering
<1>3. ASSUME UNCHANGED <<file, index, repeat, ordered, refused>>, Alive' => Alive,
             amx' \in {"none", "raw", "zero", "loaded"}, finished' \in BOOLEAN,
             gameState' \in {"starting", "running", "restarting", "quitting"}
      PROVE  OrdersKept
  BY <1>1, <1>3 DEF OrdersKept, ModeTypeOK, PlayedNext
<1>4. finished \in BOOLEAN /\ FALSE \in BOOLEAN
  BY <1>1 DEF ModeTypeOK
<1>5. CASE UNCHANGED modeVars /\ (Alive' => Alive)
  BY <1>1, <1>3, <1>4, <1>5 DEF modeVars, ModeTypeOK
<1>6. CASE FilterScriptStep
  <2>1. Alive
    BY <1>6, CommandAlive DEF FilterScriptStep, LoadNext, FsReturns, InitReturns, ExitReturns, EventReturns,
          LastReturns, Returns, Called, FsCommand, StartEvent, ScriptsMayCall
  <2>2. QED
    BY <1>5, <1>6, <2>1 DEF FilterScriptStep
<1>7. CASE CallMode \/ ModeReturns \/ ModeInitReturns \/ ModeExitReturns \/ RunMain
  BY <1>5, <1>7 DEF CallMode, ModeReturns, ModeInitReturns, ModeExitReturns, RunMain, ScriptsMayCall, Returns
<1>8. CASE MainReturns \/ LoadMode \/ ShutdownDone \/ Quit \/ ModeDeleted
  BY <1>1, <1>3, <1>4, <1>8 DEF MainReturns, LoadMode, ShutdownDone, Quit, ModeDeleted, Returns, orders, ModeTypeOK
<1>9. CASE MainCheck
  BY <1>1, <1>3, <1>4, <1>9 DEF MainCheck, ModeTypeOK
<1>10. CASE UNCHANGED vars
  BY <1>5, <1>10 DEF vars, fsVars, Alive
<1>11. QED
  BY <1>2, <1>6, <1>7, <1>8, <1>9, <1>10 DEF Next, ModeStep, Returning, MainLoop

-----------------------------------------------------------------------------
(***************************************************************************)
(* Every step, from what holds before it.                                  *)
(***************************************************************************)
LineKept ==
    Len(Configured) <= MaxSlots /\ ~untidy' /\ ~diverted' /\ Line => Line'

HistoryKept == (~untidy' => ~untidy) /\ (~diverted' => ~diverted)

LEMMA LeftAloneLine ==
    ASSUME FsBefore, LeftAlone
    PROVE  LineKept /\ HistoryKept /\ (pending' # <<>> => pending # <<>> /\ UNCHANGED pending)
<1>1. LineKept
  BY LineLeftAlone DEF LineKept
<1>2. QED
  BY <1>1 DEF LeftAlone, HistoryKept

FilterScriptKept ==
    /\ FsTypeOK' /\ Bottom' /\ (Alive' => SlotsKept')
    /\ Alive /\ Opens(stack, stack') /\ (pending' # <<>> => pending # <<>>)
    /\ LineKept /\ HistoryKept

LEMMA LikeKept ==
    ASSUME FsBefore, LeftAlone, Like(stack', stack)
    PROVE  FilterScriptKept
BY LeftAloneKeeps, LeftAloneLine DEF FilterScriptKept, Like

LEMMA SlotKept ==
    ASSUME FsBefore, FsKept, pending' # <<>> => pending # <<>>, LineKept, HistoryKept
    PROVE  FilterScriptKept
BY DEF FsKept, FilterScriptKept

LEMMA LoadCommandKept ==
    ASSUME FsBefore, NEW f \in Files, Command, LoadInto(f, prog, name, stack),
           untidy' = (untidy \/ Initialising # {}), UNCHANGED <<name, count, fate>>
    PROVE  FilterScriptKept
<1>1. FsKept /\ Alive
  BY LoadFsKeeps DEF FsKept
<1>2. LineKept
  BY <1>1, LineLoadFs DEF LineKept
<1>3. HistoryKept /\ pending' = <<>>
  BY DEF Command, HistoryKept
<1>4. QED
  BY <1>1, <1>2, <1>3, SlotKept

LEMMA FilterScriptsKept ==
    ASSUME FsBefore, FilterScriptStep
    PROVE  FilterScriptKept
<1>1. CASE LoadNext
  <2>1. FsKept /\ Alive
    BY <1>1, LoadNextKeeps DEF FsKept
  <2>2. UNCHANGED <<untidy, diverted>> /\ pending # <<>>
    BY <1>1 DEF LoadNext, history
  <2>3. LineKept
    BY <1>1, <2>1, LineLoadNext DEF LineKept
  <2>4. QED
    BY <2>1, <2>2, <2>3, SlotKept DEF HistoryKept
<1>2. CASE InitReturns
  <2>1. FsKept
    BY <1>2, InitReturnsKeeps
  <2>2. UNCHANGED <<untidy, diverted, pending>>
    BY <1>2 DEF InitReturns, history
  <2>3. LineKept
    BY <1>2, LineInitReturns DEF LineKept
  <2>4. QED
    BY <2>1, <2>2, <2>3, SlotKept DEF HistoryKept
<1>3. CASE ExitReturns \/ LastReturns
  <2>1. FsKept
    BY <1>3, ExitReturnsKeeps, LastReturnsKeeps
  <2>2. untidy' = TRUE /\ UNCHANGED <<diverted, pending>>
    BY <1>3 DEF ExitReturns, LastReturns
  <2>3. QED
    BY <2>1, <2>2, SlotKept DEF HistoryKept, LineKept
<1>4. CASE StartEvent \/ EventReturns
  BY <1>4, EventsLeave, LikeKept DEF FsBefore
<1>5. ASSUME NEW f \in Files, LoadFs(f) PROVE FilterScriptKept
  BY <1>5, LoadCommandKept DEF LoadFs
<1>6. ASSUME NEW f \in Files, UnloadFs(f) PROVE FilterScriptKept
  BY <1>6, UnloadLeaves, LikeKept DEF UnloadFs, FsBefore
<1>7. ASSUME NEW f \in Files, ReloadFs(f) PROVE FilterScriptKept
  <2>1. CASE \E s \in InUse(f) : Call("exit", s, f, stack) /\ UNCHANGED <<prog, name, count, untidy>>
    BY <1>7, <2>1, UnloadLeaves, LikeKept DEF ReloadFs, FsBefore
  <2>2. CASE LoadInto(f, prog, name, stack) /\ untidy' = (untidy \/ Initialising # {}) /\ UNCHANGED fate
    BY <1>7, <2>2, LoadCommandKept DEF ReloadFs
  <2>3. QED
    BY <1>7, <2>1, <2>2 DEF ReloadFs
<1>8. QED
  BY <1>1, <1>2, <1>3, <1>4, <1>5, <1>6, <1>7 DEF FilterScriptStep, FsReturns, Called, FsCommand

LEMMA ModeStepsKept ==
    ASSUME FsBefore, ModeRuns, ModeStep \/ Returning \/ MainLoop
    PROVE  LeftAlone /\ ModeRuns' /\ LineFirst'
<1>1. Before /\ stack \in Seq(Frames) /\ (pending # <<>> => gameState = "starting")
      /\ (pending # <<>> => ~Starts(stack) /\ ~Stops(stack))
  BY FsBeforeFacts DEF FsBefore, Before, LineFirst
<1>2. ~Idle => Top.op \in OpsIn(stack)
  BY <1>1, CallOver DEF Idle, Top
<1>3. CASE Ordering
  <2>1. LeftAlone /\ UNCHANGED <<stack, amx, gameState>>
    BY <1>1, <1>3, OrdersLeave
  <2>2. QED
    BY <1>1, <2>1, LeftAloneLine DEF ModeRuns, LineFirst
<1>4. CASE CallMode \/ ModeReturns \/ ModeInitReturns \/ ModeExitReturns \/ MainReturns \/ RunMain
  <2>1. LeftAlone /\ Like(stack', stack) /\ UNCHANGED amx
    BY <1>1, <1>4, ModeCallsLeave
  <2>2. pending # <<>> => UNCHANGED gameState
    BY <1>1, <1>2, <1>4 DEF CallMode, ModeReturns, ModeInitReturns, ModeExitReturns, RunMain, MainReturns,
          modeVars, Returns, Starts
  <2>3. QED
    BY <1>1, <2>1, <2>2, LeftAloneLine DEF ModeRuns, LineFirst, Like, Opens
<1>5. CASE MainCheck \/ ShutdownDone \/ Quit \/ ModeDeleted
  <2>1. LeftAlone /\ ~Starts(stack')
    BY <1>1, <1>5, EndsLeave
  <2>2. pending = <<>>
    BY <1>1, <1>2, <1>5 DEF MainCheck, Quit, AtMainLoop, ShutdownDone, ModeDeleted, Returns, Stops
  <2>3. QED
    BY <2>1, <2>2, LeftAloneLine DEF ModeRuns, LineFirst
<1>6. CASE LoadMode
  <2>1. LeftAlone /\ (Starts(stack') => amx' = "loaded")
    BY <1>1, <1>6, LoadModeLeaves
  <2>2. pending = <<>>
    BY <1>6 DEF LoadMode
  <2>3. QED
    BY <2>1, <2>2, LeftAloneLine DEF ModeRuns, LineFirst
<1>7. QED
  BY <1>3, <1>4, <1>5, <1>6 DEF ModeStep, Returning, MainLoop

LEMMA InvInit == Init => Inv
<1> SUFFICES ASSUME Init PROVE Inv
  OBVIOUS
<1> USE DEF Init, FsInit
<1>1. stack = <<>> /\ Alive /\ Idle /\ pending = Configured /\ gameState = "starting"
      /\ file = ModeLine[1] /\ index = 0 /\ repeat = TRUE
      /\ \A s \in Slots : prog[s] = Nobody /\ name[s] = Nobody
  BY DEF Alive, Idle
<1>2. FsTypeOK
  <2>1. /\ prog \in [Slots -> Scripts \cup {Nobody, Blank}]
        /\ name \in [Slots -> Scripts \cup {Nobody}]
        /\ count \in Nat /\ pending \in Seq(Files) /\ stack \in Seq(Frames)
        /\ fate \in {"alive", "stopped", "exited", "null", "freed"}
    BY ConfiguredAssumption
  <2>2. untidy \in BOOLEAN /\ diverted \in BOOLEAN
    OBVIOUS
  <2>3. QED
    BY <2>1, <2>2 DEF FsTypeOK
<1>3. ModeTypeOK
  <2>1. ModeLine[1] \in ModeFiles
    BY ModeLineAssumption DEF ModeFiles
  <2>2. QED
    BY <2>1, LineOfModes DEF ModeTypeOK
<1>4. Bottom /\ ModeRuns /\ LineFirst
  BY <1>1, Nothing DEF Bottom, ModeRuns, LineFirst, Starts, Stops
<1>5. SlotsKept
  <2>1. Nobody \notin Scripts
    BY FilesAssumption DEF Files
  <2>2. QED
    BY <1>1, <2>1, Nothing DEF SlotsKept, NamesOf, TidyOf
<1>6. PlayedNext
  BY <1>1, ModeLineAssumption DEF PlayedNext
<1>7. Line
  <2>1. HandedOut = 0 /\ Len(Configured) \in Nat
    BY <1>1, ConfiguredAssumption DEF HandedOut
  <2>2. \A i \in DOMAIN pending : pending[i] = Configured[0 + i]
    BY <1>1, ConfiguredAssumption
  <2>3. count <= 0
    OBVIOUS
  <2>4. QED
    BY <1>1, <2>1, <2>2, <2>3, Nothing DEF Line
<1>8. QED
  BY <1>2, <1>3, <1>4, <1>5, <1>6, <1>7, TypeParts DEF Inv

LEMMA InvNext == Inv /\ [Next]_vars => Inv'
<1> SUFFICES ASSUME Inv, [Next]_vars PROVE Inv'
  OBVIOUS
<1>1. FsBefore /\ TypeOK /\ ModeRuns /\ (Alive => PlayedNext)
  BY DEF Inv, FsBefore, Before
<1>2. OrdersKept
  BY <1>1, ModeKept
<1>3. CASE FilterScriptStep
  <2>1. FilterScriptKept /\ UNCHANGED modeVars
    BY <1>1, <1>3, FilterScriptsKept DEF FilterScriptStep
  <2>2. ModeRuns' /\ LineFirst'
    BY <2>1 DEF FilterScriptKept, Opens, ModeRuns, LineFirst, modeVars, Inv
  <2>3. Len(Configured) <= MaxSlots => (Alive' /\ ~untidy' /\ ~diverted' => Line')
    BY <2>1 DEF FilterScriptKept, LineKept, HistoryKept, Inv
  <2>4. TypeOK' /\ Bottom' /\ (Alive' => SlotsKept' /\ PlayedNext')
    BY <1>2, <2>1, TypeParts DEF FilterScriptKept, OrdersKept, TypeOK, FsTypeOK, ModeTypeOK
  <2>5. QED
    BY <2>2, <2>3, <2>4 DEF Inv
<1>4. CASE ModeStep \/ Returning \/ MainLoop
  <2>1. LeftAlone /\ ModeRuns' /\ LineFirst'
    BY <1>1, <1>4, ModeStepsKept
  <2>2. FsTypeOK' /\ Bottom' /\ Alive /\ (Alive' => SlotsKept') /\ LineKept /\ HistoryKept
    BY <1>1, <2>1, LeftAloneKeeps, LeftAloneLine
  <2>3. Len(Configured) <= MaxSlots => (Alive' /\ ~untidy' /\ ~diverted' => Line')
    BY <2>2 DEF LineKept, HistoryKept, Inv
  <2>4. TypeOK' /\ (Alive' => PlayedNext')
    BY <1>2, <2>2 DEF OrdersKept, TypeOK, ModeTypeOK
  <2>5. QED
    BY <2>1, <2>2, <2>3, <2>4 DEF Inv
<1>5. CASE UNCHANGED vars
  BY <1>5 DEF Inv, vars, fsVars, history, modeVars, TypeOK, FsTypeOK, Bottom, ModeRuns, LineFirst, Alive,
              SlotsKept, PlayedNext, Line, HandedOut, Idle
<1>6. QED
  BY <1>3, <1>4, <1>5 DEF Next

THEOREM Invariance == Spec => []Inv
BY InvInit, InvNext, PTL DEF Spec

(***************************************************************************)
(* Every variable keeps its type; the list of modes is never read past its *)
(* end, and a script is only ever called in a slot that exists.            *)
(***************************************************************************)
THEOREM TypeCorrect == Spec => []TypeOK
<1>1. Inv => TypeOK
  BY DEF Inv
<1>2. QED
  BY <1>1, Invariance, PTL

(***************************************************************************)
(* A slot has the name of the program in it or none, through every load,   *)
(* unload and reload that scripts nest inside each other's callbacks.      *)
(***************************************************************************)
THEOREM NamesAreOfPrograms == Spec => []NamesMatch
<1>1. Inv => NamesMatch
  BY DEF Inv, SlotsKept, NamesOf, NamesMatch
<1>2. QED
  BY <1>1, Invariance, PTL

(***************************************************************************)
(* No script is loaded twice, if none is unloaded and none loads another   *)
(* from its OnFilterScriptInit.                                            *)
(***************************************************************************)
THEOREM LoadedOnce == Spec => []OneCopy
<1>1. Inv => OneCopy
  BY DEF Inv, SlotsKept, TidyOf, OneCopy
<1>2. QED
  BY <1>1, Invariance, PTL

(***************************************************************************)
(* Every script of the configured line is loaded, if the line is no longer *)
(* than the slots are many, no script is unloaded and no console command   *)
(* comes in between.                                                       *)
(***************************************************************************)
THEOREM WholeLineLoaded == Spec => [](Len(Configured) <= MaxSlots => ConfiguredLoaded)
<1>1. ASSUME Inv, Len(Configured) <= MaxSlots PROVE ConfiguredLoaded
  <2>1. ASSUME Alive, Idle, pending = <<>>, ~untidy, ~diverted,
               NEW f \in Elements(Configured) \cap Scripts
        PROVE  \E s \in Slots : prog[s] = f
    <3>1. Line
      BY <1>1, <2>1 DEF Inv
    <3>2. Configured \in Seq(Files) /\ Len(Configured) \in Nat /\ DOMAIN Configured = 1 .. Len(Configured)
      BY ConfiguredAssumption
    <3>3. HandedOut = Len(Configured)
      BY <2>1, <3>2 DEF HandedOut
    <3>4. PICK i \in DOMAIN Configured : f = Configured[i]
      BY <2>1 DEF Elements
    <3>5. QED
      BY <2>1, <3>1, <3>2, <3>3, <3>4 DEF Line
  <2>2. QED
    BY <2>1 DEF ConfiguredLoaded
<1>2. Inv => (Len(Configured) <= MaxSlots => ConfiguredLoaded)
  BY <1>1
<1>3. QED
  BY <1>2, Invariance, PTL

(***************************************************************************)
(* Why RotatesAsConfigured is refuted, for every list of modes:            *)
(* GameModeExit changes the file to be played only if an operator gave an  *)
(* order since the GameModeExit before, whatever repeats are configured.   *)
(***************************************************************************)
THEOREM ModeFollowsItself == Spec => [][file' # file => ordered \/ ordered']_vars
<1>1. ASSUME Inv, [Next]_vars, file' # file PROVE ordered \/ ordered'
  <2>1. Ordering
    BY <1>1 DEF Next, FilterScriptStep, modeVars, ModeStep, CallMode, Returning, ModeReturns, ModeInitReturns,
          MainReturns, ModeExitReturns, MainLoop, LoadMode, RunMain, MainCheck, ShutdownDone, Quit,
          ModeDeleted, orders, vars
  <2>2. CASE GameModeExit
    <3>1. Alive /\ file' = ModeLine[index' + 1] /\ index' = IF repeat THEN index ELSE NextIndex(index)
      BY <2>2 DEF GameModeExit, ScriptsMayCall
    <3>2. ~ordered => repeat /\ file = ModeLine[index + 1]
      BY <1>1, <3>1 DEF Inv, PlayedNext
    <3>3. QED
      BY <1>1, <3>1, <3>2
  <2>3. CASE Gmx \/ \E f \in ModeFiles : ChangeMode(f)
    BY <2>3 DEF Gmx, ChangeMode, SetScriptFile
  <2>4. QED
    BY <2>1, <2>2, <2>3 DEF Ordering
<1>2. Inv /\ [Next]_vars => [file' # file => ordered \/ ordered']_vars
  BY <1>1
<1>3. QED
  BY <1>2, Invariance, PTL DEF Spec

(***************************************************************************)
(* The server starts to run without a game mode only after an order that   *)
(* was refused, or with a file that is broken.                             *)
(***************************************************************************)
THEOREM RunsWithMode == Spec => RunsMode
<1>1. ASSUME Inv, [Next]_vars, Started PROVE amx' = "loaded" \/ refused \/ file \in BadModes
  <2>1. LoadMode \/ MainReturns
    BY <1>1 DEF Started, Next, FilterScriptStep, modeVars, ModeStep, CallMode, Ordering, GameModeExit, Gmx,
          ChangeMode, Returning, ModeReturns, ModeInitReturns, ModeExitReturns, MainLoop, RunMain, MainCheck,
          ShutdownDone, Quit, ModeDeleted, orders, vars
  <2>2. CASE LoadMode
    <3>1. ~refused => file \in Readable
      BY <1>1, <2>2 DEF Inv, PlayedNext, LoadMode
    <3>2. QED
      BY <2>2, <3>1 DEF LoadMode, Readable
  <2>3. CASE MainReturns
    <3>1. ~Idle /\ Top.op = "main" /\ UNCHANGED amx
      BY <2>3 DEF MainReturns, Returns
    <3>2. stack \in Seq(Frames)
      BY <1>1 DEF Inv, TypeOK, FsTypeOK
    <3>3. Starts(stack)
      BY <3>1, <3>2, CallOver DEF Starts, Idle, Top
    <3>4. QED
      BY <1>1, <3>1, <3>3 DEF Inv, ModeRuns
  <2>4. QED
    BY <2>1, <2>2, <2>3
<1>2. Inv /\ [Next]_vars => [Started => amx' = "loaded" \/ refused \/ file \in BadModes]_vars
  BY <1>1
<1>3. QED
  BY <1>2, Invariance, PTL DEF Spec, RunsMode
==============================================================================
