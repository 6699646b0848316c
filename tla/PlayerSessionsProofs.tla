------------------------- MODULE PlayerSessionsProofs -------------------------
(***************************************************************************)
(* Proofs about PlayerSessions, for any number of player slots,            *)
(* connections, nicknames, nested kicks and restarts.                      *)
(*                                                                         *)
(* Two arguments carry them.  The slots lag behind the connections, but    *)
(* the queue keeps the order of what happened on an index: before anything *)
(* of a later connection comes the news that the one in the slot is gone   *)
(* (EndFirst).  And while scripts do not kick from inside callbacks, one   *)
(* call at most is under way, and how far it has come says of whom each    *)
(* script has heard (GmHeard, FsHeard).                                    *)
(***************************************************************************)
EXTENDS PlayerSessions, ProofLemmas, SequenceTheorems, TLAPS

USE DEF slots, calls

(* Connections and indexes. *)
Network ==
    /\ \A p \in Players : remote[p] # NoConn => link[remote[p]] \in {"up", "kicked", "closing"}
    /\ \A p, q \in Players : remote[p] = remote[q] /\ remote[p] # NoConn => p = q

(* A message is of the connection that has its index, or had it and is down. *)
OnItsWay(m) ==
    /\ link[m.conn] # "new"
    /\ remote[m.index] = m.conn \/ link[m.conn] = "down"
    /\ m.kind = "gone" => link[m.conn] = "down"

News ==
    /\ \A i \in DOMAIN queue : OnItsWay(queue[i])
    /\ \A i, j \in DOMAIN queue :
         i < j /\ queue[i].index = queue[j].index /\ queue[i].conn # queue[j].conn
           => link[queue[i].conn] = "down"

Deleting(p) == \E i \in DOMAIN stack : stack[i].op = "delete" /\ stack[i].player = p

(* What another connection sent on a slot's index comes after the news     *)
(* that the slot's own connection is gone.                                 *)
EndFirst ==
    \A p \in Occupied, i \in DOMAIN queue :
        queue[i].index = p /\ queue[i].conn # slot[p] =>
            Deleting(p) \/ \E k \in DOMAIN queue : k < i /\ queue[k] = Gone(p, slot[p])

Sessions == Network /\ News /\ EndFirst /\ SlotBacked /\ AdminIsPlayer /\ NicknamesUnique

(* The main loop itself waits for what is not part of another call. *)
AtBottom(s) ==
    \A i \in DOMAIN s : s[i].op \in {"deactivate", "exit", "init", "rejoin"} => i = Len(s)

Bottom == AtBottom(stack)

(* The phases of a restart, and the call under way in them. *)
Phases ==
    /\ Len(stack) <= 1
    /\ ~loaded => gameState = "restarting"
    /\ Idle => (loaded <=> gameState = "running")
    /\ ~Idle =>
         /\ Top.op = "init" => gameState = "restarting" /\ loaded
         /\ Top.op # "init" => (loaded <=> gameState = "running")
         /\ Top.op \notin {"new", "delete"} => loaded
         /\ Top.op \notin {"exit", "init"} => Top.player \in Occupied

(* Whom each script has been told of when a call has come so far. *)
GmHeardIn(f, p) ==
    \/ f.op = "new" /\ (f.at = "gm" \/ p # f.player)
    \/ f.op = "delete" /\ (f.at = "fs" \/ p # f.player)
    \/ f.op = "deactivate" /\ p > f.player
    \/ f.op = "rejoin" /\ (p < f.player \/ (f.at = "gm" /\ p = f.player))

FsHeardIn(f, p) ==
    \/ f.op = "new"
    \/ f.op = "delete" /\ p # f.player
    \/ f.op = "deactivate" /\ (p > f.player \/ (p = f.player /\ f.at = "gm"))
    \/ f.op = "rejoin" /\ p <= f.player

GmHeard == {p \in Occupied : loaded /\ (Idle \/ GmHeardIn(Top, p))}
FsHeard == {p \in Occupied : loaded /\ (Idle \/ FsHeardIn(Top, p))}

GmTold == \A p \in Players \ rejoined : told["gm"][p] = IF p \in GmHeard THEN 1 ELSE 0
FsTold ==
    ~hushed /\ (loaded \/ Idle \/ Top.op # "delete") =>
        \A p \in Players : told["fs"][p] >= IF p \in FsHeard THEN 1 ELSE 0

Inv ==
    /\ TypeOK
    /\ Bottom
    /\ Sessions
    /\ ~meddled => Phases /\ GmTold /\ (~crashed => FsTold)

-----------------------------------------------------------------------------
(***************************************************************************)
(* What is kept and sent, one group of variables after the other.          *)
(***************************************************************************)
Ops == {"new", "delete", "deactivate", "exit", "init", "rejoin"}

LEMMA FramesTyped ==
    /\ \A op \in Ops, p \in Players, s \in Scripts :
         /\ Frame(op, p, s) \in Frames
         /\ Frame(op, p, s).op = op /\ Frame(op, p, s).player = p /\ Frame(op, p, s).at = s
    /\ \A f \in Frames : f.op \in Ops /\ f.player \in Players /\ f.at \in Scripts
    /\ 0 \in Players /\ Players \subseteq Nat
    /\ "fs" \in Scripts /\ "gm" \in Scripts
BY NumPlayersAssumption DEF Frames, Frame, Ops, Players, Scripts

LEMMA MessagesTyped ==
    /\ \A k \in {"join", "login", "gone"}, p \in Players, c \in Conns, n \in Nicks \cup {NoNick} :
         /\ Message(k, p, c, n) \in Messages
         /\ Message(k, p, c, n).kind = k /\ Message(k, p, c, n).index = p /\ Message(k, p, c, n).conn = c
    /\ \A m \in Messages : /\ m.kind \in {"join", "login", "gone"} /\ m.index \in Players
                           /\ m.conn \in Conns /\ m.nick \in Nicks \cup {NoNick}
    /\ \A p \in Players, c \in Conns :
         /\ Gone(p, c) \in Messages
         /\ Gone(p, c).kind = "gone" /\ Gone(p, c).index = p /\ Gone(p, c).conn = c
BY DEF Messages, Message, Gone

NetworkTypeOK ==
    /\ link \in [Conns -> {"new", "up", "kicked", "closing", "down"}]
    /\ remote \in [Players -> Conns \cup {NoConn}]
    /\ sent \in [Conns -> 0 .. MaxSent]
    /\ queue \in Seq(Messages)

SlotsTypeOK ==
    /\ slot \in [Players -> Conns \cup {NoConn}]
    /\ name \in [Players -> Nicks \cup {NoNick}]
    /\ rejoined \subseteq Players
    /\ admin \in [Players -> Conns \cup {NoConn}]

GameTypeOK ==
    /\ gameState \in {"running", "restarting"}
    /\ waited \in 0 .. RestartWait
    /\ restarts \in 0 .. MaxRestarts
    /\ phase \in {"receive", "check"}

FlagsTypeOK ==
    /\ loaded \in BOOLEAN
    /\ finished \in BOOLEAN
    /\ crashed \in BOOLEAN
    /\ meddled \in BOOLEAN
    /\ hushed \in BOOLEAN

StackTypeOK == stack \in Seq(Frames) /\ Len(stack) <= MaxDepth

ToldTypeOK == told \in [Scripts -> [Players -> Int]]

LEMMA TypeParts ==
    TypeOK <=> NetworkTypeOK /\ SlotsTypeOK /\ GameTypeOK /\ FlagsTypeOK /\ StackTypeOK /\ ToldTypeOK
BY Zenon DEF TypeOK, NetworkTypeOK, SlotsTypeOK, GameTypeOK, FlagsTypeOK, StackTypeOK, ToldTypeOK

\* The head of the queue while it is not empty.
LEMMA Received ==
    ASSUME NetworkTypeOK, Receiving
    PROVE  /\ Head(queue) \in Messages /\ Head(queue) = queue[1] /\ 1 \in DOMAIN queue
           /\ Head(queue).index \in Players /\ Head(queue).conn \in Conns
           /\ Head(queue).nick \in Nicks \cup {NoNick}
           /\ Tail(queue) \in Seq(Messages)
           /\ DOMAIN queue = 1 .. Len(queue) /\ Len(queue) \in Nat
           /\ DOMAIN Tail(queue) = 1 .. Len(queue) - 1
           /\ \A i \in DOMAIN Tail(queue) : i + 1 \in DOMAIN queue /\ Tail(queue)[i] = queue[i + 1]
           /\ \A i \in DOMAIN queue : i # 1 => i - 1 \in DOMAIN Tail(queue) /\ queue[i] = Tail(queue)[i - 1]
<1>1. queue \in Seq(Messages) /\ queue # <<>>
  BY DEF NetworkTypeOK, Receiving
<1>2. QED
  BY <1>1, Popped, MessagesTyped

(* A kick changes nothing but which connections are up. *)
OnlyKicks ==
    /\ link' \in [Conns -> {"new", "up", "kicked", "closing", "down"}]
    /\ \A c \in Conns : link'[c] = link[c] \/ (link[c] = "up" /\ link'[c] = "kicked")

LEMMA KickIsKick == ASSUME NetworkTypeOK, NEW p, KickIndex(p) PROVE OnlyKicks
BY DEF NetworkTypeOK, KickIndex, OnlyKicks

LEMMA NetworkTyped == ASSUME NetworkTypeOK, [Next]_vars PROVE NetworkTypeOK'
<1>1. ASSUME UNCHANGED network PROVE NetworkTypeOK'
  BY <1>1 DEF network, NetworkTypeOK
<1>2. ASSUME UNCHANGED <<remote, sent>>, queue' = queue \/ (Receiving /\ queue' = Tail(queue)),
             link' = link \/ OnlyKicks
      PROVE  NetworkTypeOK'
  BY <1>2, Received DEF NetworkTypeOK, OnlyKicks
<1>3. ASSUME NEW c \in Conns, NEW p \in Players, Connect(c, p) PROVE NetworkTypeOK'
  BY <1>3 DEF Connect, NetworkTypeOK
<1>4. ASSUME NEW c \in Conns, NEW p \in Players, NEW k \in {"join", "login"},
             NEW n \in Nicks \cup {NoNick}, Arrive(c, p, k, n)
      PROVE  NetworkTypeOK'
  <2>1. Message(k, p, c, n) \in Messages
    BY MessagesTyped
  <2>2. queue' \in Seq(Messages)
    BY <1>4, <2>1, AppendProperties DEF Arrive, NetworkTypeOK
  <2>3. sent' \in [Conns -> 0 .. MaxSent]
    BY <1>4, BoundsAssumption DEF Arrive, NetworkTypeOK
  <2>4. QED
    BY <1>4, <2>2, <2>3 DEF Arrive, NetworkTypeOK
<1>5. ASSUME NEW c \in Conns, Goodbye(c) \/ NoticeKick(c) PROVE NetworkTypeOK'
  BY <1>5 DEF Goodbye, NoticeKick, NetworkTypeOK
<1>6. ASSUME NEW c \in Conns, NEW p \in Players, Close(c, p) PROVE NetworkTypeOK'
  <2>1. Gone(p, c) \in Messages
    BY MessagesTyped
  <2>2. queue' \in Seq(Messages)
    BY <1>6, <2>1, AppendProperties DEF Close, NetworkTypeOK
  <2>3. QED
    BY <1>6, <2>2 DEF Close, NetworkTypeOK
<1>7. ASSUME NEW p \in Players, KickPlayer(p) PROVE NetworkTypeOK'
  BY <1>2, <1>7, KickIsKick DEF KickPlayer
<1>8. ASSUME HandleJoin PROVE NetworkTypeOK'
  <2>1. link' = link \/ OnlyKicks
    BY <1>8, KickIsKick DEF HandleJoin
  <2>2. Receiving /\ queue' = Tail(queue) /\ UNCHANGED <<remote, sent>>
    BY <1>8 DEF HandleJoin
  <2>3. QED
    BY <1>2, <2>1, <2>2
<1>9. ASSUME HandleGone \/ HandleLogin PROVE NetworkTypeOK'
  BY <1>2, <1>9 DEF HandleGone, HandleLogin
<1>10. ASSUME World \/ Check \/ CallbackReturns \/ RequestRestart PROVE NetworkTypeOK'
  BY <1>1, <1>10 DEF World, Check, CallbackReturns, NewReturns, DeleteReturns, InitReturns, RejoinReturns,
        DeactivateReturns, ExitReturns, RequestRestart
<1>11. ASSUME UNCHANGED vars PROVE NetworkTypeOK'
  BY <1>1, <1>11 DEF vars
<1>12. QED
  BY <1>3, <1>4, <1>5, <1>6, <1>7, <1>8, <1>9, <1>10, <1>11 DEF Next, NetworkThread, MainLoop

LEMMA NetworkThreadKeeps == NetworkThread => UNCHANGED serverThread
BY DEF NetworkThread, Connect, Arrive, Goodbye, NoticeKick, Close

LEMMA SlotsTyped == ASSUME NetworkTypeOK, SlotsTypeOK, StackTypeOK, [Next]_vars PROVE SlotsTypeOK'
<1>1. ASSUME UNCHANGED <<slots, rejoined>> PROVE SlotsTypeOK'
  BY <1>1 DEF SlotsTypeOK
<1>2. ASSUME HandleJoin PROVE SlotsTypeOK'
  <2>1. Head(queue).conn \in Conns /\ Head(queue).nick \in Nicks \cup {NoNick}
    BY <1>2, Received DEF HandleJoin
  <2>2. ASSUME NEW p \in Players, BeginNew(p, Head(queue).conn, Head(queue).nick) PROVE SlotsTypeOK'
    BY <2>1, <2>2 DEF BeginNew, SlotsTypeOK
  <2>3. QED
    BY <1>1, <1>2, <2>2 DEF HandleJoin
<1>3. ASSUME HandleLogin, UNCHANGED rejoined PROVE SlotsTypeOK'
  BY <1>3, Received DEF HandleLogin, SlotsTypeOK
<1>4. ASSUME DeleteReturns, UNCHANGED rejoined PROVE SlotsTypeOK'
  BY <1>1, <1>4 DEF DeleteReturns, FinishDelete, SlotsTypeOK
<1>5. ASSUME HandleGone \/ World \/ Check, UNCHANGED rejoined PROVE SlotsTypeOK'
  BY <1>1, <1>5 DEF HandleGone, BeginDelete, World, Check
<1>6. ASSUME RequestRestart \/ \E p \in Players : KickPlayer(p) PROVE SlotsTypeOK'
  BY <1>1, <1>6 DEF RequestRestart, KickPlayer, BeginDelete
<1>7. ASSUME NewReturns \/ InitReturns \/ RejoinReturns \/ DeactivateReturns \/ ExitReturns,
             UNCHANGED rejoined
      PROVE  SlotsTypeOK'
  BY <1>1, <1>7 DEF NewReturns, InitReturns, RejoinReturns, DeactivateReturns, ExitReturns
<1>8. ASSUME NetworkThread \/ UNCHANGED vars PROVE SlotsTypeOK'
  BY <1>1, <1>8, NetworkThreadKeeps DEF serverThread, vars
<1>9. QED
  BY <1>2, <1>3, <1>4, <1>5, <1>6, <1>7, <1>8 DEF Next, MainLoop, CallbackReturns

LEMMA GameTyped == ASSUME GameTypeOK, [Next]_vars PROVE GameTypeOK'
<1>1. ASSUME UNCHANGED <<gameState, waited, restarts, phase>> PROVE GameTypeOK'
  BY <1>1 DEF GameTypeOK
<1>2. ASSUME ShutdownDone PROVE GameTypeOK'
  BY <1>2, BoundsAssumption DEF ShutdownDone, GameTypeOK
<1>3. ASSUME NEW p, DeactivateFrom(p) PROVE GameTypeOK'
  BY <1>1, <1>2, <1>3 DEF DeactivateFrom, game
<1>4. ASSUME HandleJoin \/ HandleLogin PROVE GameTypeOK'
  BY <1>1, <1>4 DEF HandleJoin, HandleLogin, game
<1>5. ASSUME HandleGone \/ \E p \in Players : KickPlayer(p) PROVE GameTypeOK'
  BY <1>1, <1>5 DEF HandleGone, BeginDelete, KickPlayer, game
<1>6. ASSUME World PROVE GameTypeOK'
  BY <1>6, BoundsAssumption DEF World, GameTypeOK
<1>7. ASSUME Check PROVE GameTypeOK'
  BY <1>3, <1>7 DEF Check, GameTypeOK
<1>8. ASSUME NewReturns \/ DeleteReturns \/ RejoinReturns PROVE GameTypeOK'
  BY <1>1, <1>8 DEF NewReturns, DeleteReturns, RejoinReturns, game
<1>9. ASSUME InitReturns PROVE GameTypeOK'
  BY <1>9 DEF InitReturns, GameTypeOK
<1>10. ASSUME DeactivateReturns \/ ExitReturns PROVE GameTypeOK'
  BY <1>1, <1>2, <1>3, <1>10 DEF DeactivateReturns, ExitReturns, game
<1>11. ASSUME RequestRestart PROVE GameTypeOK'
  BY <1>11, BoundsAssumption DEF RequestRestart, GameTypeOK
<1>12. ASSUME NetworkThread \/ UNCHANGED vars PROVE GameTypeOK'
  BY <1>1, <1>12, NetworkThreadKeeps DEF serverThread, vars, game
<1>13. QED
  BY <1>4, <1>5, <1>6, <1>7, <1>8, <1>9, <1>10, <1>11, <1>12 DEF Next, MainLoop, CallbackReturns

\* A call that has ended early has.
LEMMA HushedForGood == ASSUME [Next]_vars PROVE hushed' = hushed \/ hushed' = TRUE
<1>1. ASSUME NEW p, NEW n, TellFilterScripts(p, n) \/ TellGameMode(p, n) PROVE hushed' = hushed \/ hushed' = TRUE
  BY <1>1 DEF TellFilterScripts, TellGameMode
<1>2. ASSUME HandleJoin PROVE hushed' = hushed \/ hushed' = TRUE
  BY <1>1, <1>2 DEF HandleJoin, BeginNew
<1>3. ASSUME HandleGone \/ \E p \in Players : KickPlayer(p) PROVE hushed' = hushed \/ hushed' = TRUE
  BY <1>1, <1>3 DEF HandleGone, KickPlayer, BeginDelete
<1>4. ASSUME HandleLogin \/ World \/ RequestRestart \/ ExitReturns PROVE UNCHANGED hushed
  BY <1>4 DEF HandleLogin, World, RequestRestart, ExitReturns
<1>5. ASSUME UNCHANGED serverThread \/ UNCHANGED vars PROVE UNCHANGED hushed
  BY <1>5 DEF serverThread, vars
<1>6. ASSUME NewReturns \/ DeleteReturns PROVE hushed' = hushed \/ hushed' = TRUE
  BY <1>1, <1>6 DEF NewReturns, DeleteReturns
<1>7. ASSUME InitReturns \/ RejoinReturns PROVE hushed' = hushed \/ hushed' = TRUE
  BY <1>1, <1>7 DEF InitReturns, RejoinReturns, RejoinFrom
<1>8. ASSUME Check \/ DeactivateReturns PROVE hushed' = hushed \/ hushed' = TRUE
  BY <1>1, <1>8 DEF Check, DeactivateReturns, DeactivateFrom
<1>9. QED
  BY <1>2, <1>3, <1>4, <1>5, <1>6, <1>7, <1>8, NetworkThreadKeeps DEF Next, MainLoop, CallbackReturns

LEMMA FlagsTyped == ASSUME FlagsTypeOK, [Next]_vars PROVE FlagsTypeOK'
<1> USE DEF FlagsTypeOK, game
<1>1. ASSUME NEW p, DeactivateFrom(p) PROVE {loaded, finished, crashed}' \subseteq BOOLEAN
  BY <1>1, Zenon DEF DeactivateFrom, ShutdownDone
<1>2. ASSUME HandleJoin PROVE {loaded, finished, crashed}' \subseteq BOOLEAN
  BY <1>2, Zenon DEF HandleJoin
<1>3. ASSUME HandleLogin PROVE {loaded, finished, crashed}' \subseteq BOOLEAN
  BY <1>3, Zenon DEF HandleLogin
<1>4. ASSUME HandleGone PROVE {loaded, finished, crashed}' \subseteq BOOLEAN
  BY <1>4, Zenon DEF HandleGone, BeginDelete
<1>5. ASSUME World PROVE {loaded, finished, crashed}' \subseteq BOOLEAN
  BY <1>5, Zenon DEF World
<1>6. ASSUME Check PROVE {loaded, finished, crashed}' \subseteq BOOLEAN
  BY <1>1, <1>6, Zenon DEF Check
<1>7. ASSUME NewReturns PROVE {loaded, finished, crashed}' \subseteq BOOLEAN
  BY <1>7, Zenon DEF NewReturns
<1>8. ASSUME DeleteReturns PROVE {loaded, finished, crashed}' \subseteq BOOLEAN
  BY <1>8, Zenon DEF DeleteReturns, FinishDelete
<1>9. ASSUME InitReturns \/ RejoinReturns PROVE {loaded, finished, crashed}' \subseteq BOOLEAN
  BY <1>9, Zenon DEF InitReturns, RejoinReturns
<1>10. ASSUME DeactivateReturns \/ ExitReturns PROVE {loaded, finished, crashed}' \subseteq BOOLEAN
  BY <1>1, <1>10, Zenon DEF DeactivateReturns, ExitReturns, ShutdownDone
<1>11. ASSUME NEW p \in Players, KickPlayer(p) PROVE {loaded, finished, crashed, meddled}' \subseteq BOOLEAN
  BY <1>11, Zenon DEF KickPlayer, BeginDelete
<1>12. ASSUME RequestRestart PROVE {loaded, finished, crashed, meddled}' \subseteq BOOLEAN
  BY <1>12, Zenon DEF RequestRestart
<1>13. ASSUME UNCHANGED serverThread \/ UNCHANGED vars
       PROVE  {loaded, finished, crashed, meddled}' \subseteq BOOLEAN
  BY <1>13, Zenon DEF serverThread, vars
<1>14. ASSUME MainLoop \/ CallbackReturns PROVE {loaded, finished, crashed, meddled}' \subseteq BOOLEAN
  <2>1. {loaded, finished, crashed}' \subseteq BOOLEAN /\ UNCHANGED meddled
    BY <1>2, <1>3, <1>4, <1>5, <1>6, <1>7, <1>8, <1>9, <1>10, <1>14 DEF MainLoop, CallbackReturns
  <2>2. QED
    BY <2>1, Zenon
<1>15. {loaded, finished, crashed, meddled}' \subseteq BOOLEAN
  BY <1>11, <1>12, <1>13, <1>14, NetworkThreadKeeps, Zenon DEF Next
<1>16. hushed' \in BOOLEAN
  BY HushedForGood, Zenon
<1>17. QED
  BY <1>15, <1>16, Zenon

-----------------------------------------------------------------------------
(***************************************************************************)
(* The stack: calls made for a player nest, the main loop's do not.        *)
(***************************************************************************)
LEMMA PushedAtBottom ==
    ASSUME NEW s \in Seq(Frames), AtBottom(s), NEW f \in Frames, f.op \in {"new", "delete"} \/ s = <<>>
    PROVE  /\ <<f>> \o s \in Seq(Frames) /\ Len(<<f>> \o s) = Len(s) + 1 /\ Len(s) \in Nat
           /\ AtBottom(<<f>> \o s)
<1> DEFINE t == <<f>> \o s
<1>1. /\ t \in Seq(Frames) /\ Len(t) = Len(s) + 1 /\ t[1] = f
      /\ DOMAIN t = 1 .. Len(s) + 1 /\ Len(s) \in Nat
      /\ \A i \in DOMAIN t : i # 1 => i - 1 \in DOMAIN s /\ t[i] = s[i - 1]
  BY Pushed
<1>2. s = <<>> => Len(s) = 0
  OBVIOUS
<1> HIDE DEF t
<1>3. ASSUME NEW i \in DOMAIN t, t[i].op \in {"deactivate", "exit", "init", "rejoin"} PROVE i = Len(t)
  BY <1>1, <1>2, <1>3 DEF AtBottom
<1>4. QED
  BY <1>1, <1>3 DEF t, AtBottom

LEMMA PoppedAtBottom ==
    ASSUME NEW s \in Seq(Frames), s # <<>>, AtBottom(s)
    PROVE  /\ Tail(s) \in Seq(Frames) /\ AtBottom(Tail(s)) /\ Len(Tail(s)) = Len(s) - 1 /\ Len(s) \in Nat
           /\ Head(s) \in Frames
           /\ Head(s).op \notin {"new", "delete"} => Tail(s) = <<>> /\ Len(s) = 1
<1>1. /\ Tail(s) \in Seq(Frames) /\ Len(Tail(s)) = Len(s) - 1 /\ Len(s) \in Nat /\ Len(s) >= 1
      /\ Head(s) \in Frames /\ Head(s) = s[1] /\ 1 \in DOMAIN s
      /\ DOMAIN Tail(s) = 1 .. Len(s) - 1
      /\ \A i \in DOMAIN Tail(s) : i + 1 \in DOMAIN s /\ Tail(s)[i] = s[i + 1]
  BY Popped
<1>2. AtBottom(Tail(s))
  BY <1>1 DEF AtBottom
<1>3. ASSUME Head(s).op \notin {"new", "delete"} PROVE Tail(s) = <<>> /\ Len(s) = 1
  <2>1. Head(s).op \in {"deactivate", "exit", "init", "rejoin"}
    BY <1>1, <1>3, FramesTyped DEF Ops
  <2>2. Len(s) = 1
    BY <1>1, <2>1 DEF AtBottom
  <2>3. QED
    BY <1>1, <2>2, EmptySeq
<1>4. QED
  BY <1>1, <1>2, <1>3

(* The call under way. *)
LEMMA TopTyped ==
    ASSUME StackTypeOK, Bottom, ~Idle
    PROVE  /\ Top \in Frames /\ Top.op \in Ops /\ Top.player \in Players /\ Top.at \in Scripts
           /\ Below \in Seq(Frames) /\ AtBottom(Below) /\ Len(Below) = Len(stack) - 1
           /\ Len(stack) \in Nat /\ Len(stack) <= MaxDepth
           /\ Top.op \notin {"new", "delete"} => Below = <<>> /\ Len(stack) = 1
           /\ Top = stack[1] /\ 1 \in DOMAIN stack
BY PoppedAtBottom, Popped, FramesTyped DEF StackTypeOK, Bottom, Idle, Top, Below

StackOK == StackTypeOK /\ Bottom

LEMMA StackSet ==
    ASSUME NEW s \in Seq(Frames), AtBottom(s), NEW f \in Frames, f.op \in {"new", "delete"} \/ s = <<>>,
           Len(s) < MaxDepth, stack' = <<f>> \o s
    PROVE  StackOK'
BY PushedAtBottom, BoundsAssumption DEF StackOK, StackTypeOK, Bottom

LEMMA StackKept ==
    ASSUME StackOK, [Next]_vars
    PROVE  StackOK'
<1> USE DEF StackOK
<1>1. ASSUME UNCHANGED stack PROVE StackOK'
  BY <1>1 DEF StackTypeOK, Bottom
<1>2. stack \in Seq(Frames) /\ AtBottom(stack) /\ (Idle => Len(stack) = 0)
  BY DEF StackTypeOK, Bottom, Idle
<1>3. MaxDepth \in Nat /\ 0 < MaxDepth
  BY BoundsAssumption
<1>4. <<>> \in Seq(Frames) /\ AtBottom(<<>>) /\ Len(<<>>) = 0
  BY DEF AtBottom
<1>5. ASSUME NEW f \in Frames, stack' = <<f>> PROVE StackOK'
  <2>1. <<f>> \o <<>> = <<f>>
    BY <1>5, ConcatEmptySeq, Single
  <2>2. QED
    BY <1>3, <1>4, <1>5, <2>1, StackSet
<1>6. ASSUME ~Idle, stack' = Below PROVE StackOK'
  BY <1>3, <1>6, TopTyped DEF StackTypeOK, Bottom
<1>7. ASSUME ~Idle, NEW f \in Frames, f.op \in {"new", "delete"} \/ Top.op \notin {"new", "delete"},
             stack' = <<f>> \o Below
      PROVE  StackOK'
  <2>1. /\ Below \in Seq(Frames) /\ AtBottom(Below) /\ Len(Below) < MaxDepth
        /\ Top.op \notin {"new", "delete"} => Below = <<>>
    BY <1>3, <1>7, TopTyped
  <2>2. QED
    BY <1>7, <2>1, StackSet
<1>8. ASSUME NEW p \in Players, BeginDelete(p), Len(stack) < MaxDepth PROVE StackOK'
  <2>1. Frame("delete", p, "fs") \in Frames /\ Frame("delete", p, "fs").op = "delete"
    BY FramesTyped DEF Ops
  <2>2. stack' = <<Frame("delete", p, "fs")>> \o stack
    BY <1>8 DEF BeginDelete
  <2>3. QED
    BY <1>2, <1>8, <2>1, <2>2, StackSet
<1>9. ASSUME HandleJoin PROVE StackOK'
  <2>1. Idle /\ (UNCHANGED stack \/ \E p \in Players : stack' = <<Frame("new", p, "fs")>> \o stack)
    BY <1>9 DEF HandleJoin, BeginNew, Receiving
  <2>2. ASSUME NEW p \in Players, stack' = <<Frame("new", p, "fs")>> \o stack PROVE StackOK'
    <3>1. Frame("new", p, "fs") \in Frames /\ Frame("new", p, "fs").op = "new"
      BY FramesTyped DEF Ops
    <3>2. QED
      BY <1>2, <1>3, <2>1, <2>2, <3>1, StackSet
  <2>3. QED
    BY <1>1, <2>1, <2>2
<1>10. ASSUME HandleGone PROVE StackOK'
  <2>1. Idle /\ (UNCHANGED stack \/ \E p \in Players : BeginDelete(p))
    BY <1>10 DEF HandleGone, Receiving, BeginDelete, Occupied
  <2>2. QED
    BY <1>1, <1>2, <1>3, <1>8, <2>1
<1>11. ASSUME NEW p \in Players, KickPlayer(p) PROVE StackOK'
  BY <1>8, <1>11 DEF KickPlayer
<1>12. ASSUME HandleLogin \/ RequestRestart \/ UNCHANGED serverThread \/ UNCHANGED vars PROVE StackOK'
  BY <1>1, <1>12 DEF HandleLogin, RequestRestart, serverThread, vars
<1>13. ASSUME World PROVE StackOK'
  <2>1. UNCHANGED stack \/ stack' = <<Frame("init", 0, "gm")>>
    BY <1>13 DEF World
  <2>2. QED
    BY <1>1, <1>5, <2>1, FramesTyped DEF Ops
<1>14. ASSUME NEW p, DeactivateFrom(p) PROVE StackOK'
  <2>1. UNCHANGED stack \/ \E q \in Players, op \in {"deactivate", "exit"} : stack' = <<Frame(op, q, "gm")>>
    BY <1>14, FramesTyped DEF DeactivateFrom, ShutdownDone
  <2>2. QED
    BY <1>1, <1>5, <2>1, FramesTyped DEF Ops
<1>15. ASSUME NEW p, RejoinFrom(p), ~Idle, Top.op \notin {"new", "delete"} PROVE StackOK'
  <2>1. stack' = Below \/ \E q \in Players : stack' = <<Frame("rejoin", q, "fs")>> \o Below
    BY <1>15 DEF RejoinFrom
  <2>2. QED
    BY <1>6, <1>7, <1>15, <2>1, FramesTyped DEF Ops
<1>16. ASSUME Check PROVE StackOK'
  BY <1>1, <1>14, <1>16 DEF Check
<1>17. ASSUME NewReturns \/ DeleteReturns PROVE StackOK'
  <2>1. ~Idle /\ Top.player \in Players
    BY <1>17, TopTyped DEF NewReturns, DeleteReturns, Returns
  <2>2. stack' = Below \/ \E op \in {"new", "delete"} : stack' = <<Frame(op, Top.player, "gm")>> \o Below
    BY <1>17 DEF NewReturns, DeleteReturns
  <2>3. /\ Frame("new", Top.player, "gm") \in Frames /\ Frame("delete", Top.player, "gm") \in Frames
    BY <2>1, FramesTyped DEF Ops
  <2>4. /\ Frame("new", Top.player, "gm").op = "new"
        /\ Frame("delete", Top.player, "gm").op = "delete"
    BY DEF Frame
  <2>5. QED
    BY <1>6, <1>7, <2>1, <2>2, <2>3, <2>4
<1>18. ASSUME InitReturns \/ ExitReturns PROVE StackOK'
  BY <1>6, <1>15, <1>18 DEF InitReturns, ExitReturns, Returns
<1>19. ASSUME RejoinReturns PROVE StackOK'
  <2>1. ~Idle /\ Top.player \in Players /\ Top.op = "rejoin"
    BY <1>19, TopTyped DEF RejoinReturns, Returns
  <2>2. stack' = <<Frame("rejoin", Top.player, "gm")>> \o Below \/ RejoinFrom(Top.player + 1)
    BY <1>19 DEF RejoinReturns
  <2>3. Frame("rejoin", Top.player, "gm") \in Frames
    BY <2>1, FramesTyped DEF Ops
  <2>4. QED
    BY <1>7, <1>15, <2>1, <2>2, <2>3
<1>20. ASSUME DeactivateReturns PROVE StackOK'
  <2>1. ~Idle /\ Top.player \in Players
    BY <1>20, TopTyped DEF DeactivateReturns, Returns
  <2>2. stack' = <<Frame("deactivate", Top.player, "fs")>> \/ DeactivateFrom(Top.player + 1)
    BY <1>20 DEF DeactivateReturns
  <2>3. Frame("deactivate", Top.player, "fs") \in Frames
    BY <2>1, FramesTyped DEF Ops
  <2>4. QED
    BY <1>5, <1>14, <2>2, <2>3
<1>21. QED
  BY <1>9, <1>10, <1>11, <1>12, <1>13, <1>16, <1>17, <1>18, <1>19, <1>20, NetworkThreadKeeps
     DEF Next, MainLoop, CallbackReturns

(* A call of a script changes what that script was told of one player. *)
LEMMA Told ==
    ASSUME ToldTypeOK, NEW s \in Scripts, NEW p \in Players, NEW n \in Int, Tell(s, p, n)
    PROVE  /\ ToldTypeOK'
           /\ told'[s][p] = told[s][p] + n
           /\ \A q \in Players : q # p => told'[s][q] = told[s][q]
           /\ \A t \in Scripts : t # s => told'[t] = told[t]
BY DEF ToldTypeOK, Tell

\* The loop over the filter scripts, if it comes to this one.
LEMMA ToldFilterScripts ==
    ASSUME ToldTypeOK, NEW p \in Players, NEW n \in Int, TellFilterScripts(p, n)
    PROVE  /\ ToldTypeOK'
           /\ told'["gm"] = told["gm"]
           /\ ~hushed' => /\ ~hushed /\ told'["fs"][p] = told["fs"][p] + n
                          /\ \A q \in Players : q # p => told'["fs"][q] = told["fs"][q]
<1>1. "fs" \in Scripts /\ "gm" \in Scripts
  BY DEF Scripts
<1>2. CASE Tell("fs", p, n) /\ UNCHANGED hushed
  BY <1>1, <1>2, Told
<1>3. CASE hushed' = TRUE /\ UNCHANGED told
  BY <1>3 DEF ToldTypeOK
<1>4. QED
  BY <1>2, <1>3 DEF TellFilterScripts

LEMMA ToldTyped == ASSUME StackOK, ToldTypeOK, [Next]_vars PROVE ToldTypeOK'
<1>1. ASSUME UNCHANGED told PROVE ToldTypeOK'
  BY <1>1 DEF ToldTypeOK
<1>2. ASSUME NEW p \in Players, NEW n \in {1, -1}, TellGameMode(p, n) \/ TellFilterScripts(p, n)
      PROVE  ToldTypeOK'
  <2>1. n \in Int /\ "gm" \in Scripts
    BY DEF Scripts
  <2>2. QED
    BY <1>2, <2>1, Told, ToldFilterScripts DEF TellGameMode
<1>3. 1 \in {1, -1} /\ -1 \in {1, -1}
  OBVIOUS
<1>4. ~Idle => Top.player \in Players
  BY TopTyped DEF StackOK
<1>5. ASSUME HandleJoin PROVE ToldTypeOK'
  BY <1>1, <1>2, <1>3, <1>5 DEF HandleJoin, BeginNew
<1>6. ASSUME HandleGone \/ \E p \in Players : KickPlayer(p) PROVE ToldTypeOK'
  BY <1>1, <1>2, <1>3, <1>6 DEF HandleGone, KickPlayer, BeginDelete, Occupied
<1>7. ASSUME HandleLogin \/ World \/ RequestRestart \/ ExitReturns PROVE ToldTypeOK'
  BY <1>1, <1>7 DEF HandleLogin, World, RequestRestart, ExitReturns
<1>8. ASSUME UNCHANGED serverThread \/ UNCHANGED vars PROVE ToldTypeOK'
  BY <1>1, <1>8 DEF serverThread, vars
<1>9. ASSUME NewReturns \/ DeleteReturns PROVE ToldTypeOK'
  BY <1>1, <1>2, <1>3, <1>4, <1>9 DEF NewReturns, DeleteReturns, Returns
<1>10. ASSUME InitReturns \/ RejoinReturns PROVE ToldTypeOK'
  BY <1>1, <1>2, <1>3, <1>4, <1>10 DEF InitReturns, RejoinReturns, RejoinFrom, Returns
<1>11. ASSUME Check \/ DeactivateReturns PROVE ToldTypeOK'
  BY <1>1, <1>2, <1>3, <1>4, <1>11 DEF Check, DeactivateReturns, DeactivateFrom, Returns
<1>12. QED
  BY <1>5, <1>6, <1>7, <1>8, <1>9, <1>10, <1>11, NetworkThreadKeeps DEF Next, MainLoop, CallbackReturns

LEMMA TypesKept == ASSUME TypeOK, Bottom, [Next]_vars PROVE TypeOK' /\ Bottom'
<1>1. NetworkTypeOK' /\ SlotsTypeOK' /\ GameTypeOK' /\ FlagsTypeOK' /\ ToldTypeOK'
  BY TypeParts, NetworkTyped, SlotsTyped, GameTyped, FlagsTyped, ToldTyped DEF StackOK
<1>2. StackOK'
  BY TypeParts, StackKept DEF StackOK
<1>3. (TypeOK <=> NetworkTypeOK /\ SlotsTypeOK /\ GameTypeOK /\ FlagsTypeOK /\ StackTypeOK /\ ToldTypeOK)'
  BY TypeParts, PTL
<1>4. QED
  BY <1>1, <1>2, <1>3 DEF StackOK

-----------------------------------------------------------------------------
(***************************************************************************)
(* Connections, messages and slots.                                        *)
(***************************************************************************)
Typed == NetworkTypeOK /\ SlotsTypeOK

LEMMA OccupiedSlots == ASSUME SlotsTypeOK PROVE \A p \in Occupied : p \in Players /\ slot[p] \in Conns
BY DEF SlotsTypeOK, Occupied

\* Everything else being as it was.
LEMMA ConnectKeeps ==
    ASSUME Typed, Sessions, NEW c \in Conns, NEW p \in Players, Connect(c, p)
    PROVE  Sessions'
<1> USE DEF Sessions
<1>1. /\ link[c] = "new" /\ remote[p] = NoConn
      /\ remote' = [remote EXCEPT ![p] = c] /\ link' = [link EXCEPT ![c] = "up"]
      /\ UNCHANGED <<queue, slots, stack>>
  BY DEF Connect, IsLowest, serverThread
<1>2. /\ remote'[p] = c /\ \A q \in Players : q # p => remote'[q] = remote[q]
      /\ link'[c] = "up" /\ \A d \in Conns : d # c => link'[d] = link[d]
  BY <1>1 DEF Typed, NetworkTypeOK
<1>3. \A q \in Players : remote[q] # c
  BY <1>1, NoConnAssumption DEF Network
<1>4. Network'
  BY <1>1, <1>2, <1>3 DEF Network, Typed, NetworkTypeOK
<1>5. \A i \in DOMAIN queue : queue[i] \in Messages /\ queue[i].conn \in Conns /\ queue[i].index \in Players
  BY MessagesTyped, ElementOfSeq DEF Typed, NetworkTypeOK
<1>6. \A i \in DOMAIN queue : queue[i].conn # c
  BY <1>1 DEF News, OnItsWay
<1>7. News'
  <2>1. ASSUME NEW i \in DOMAIN queue PROVE OnItsWay(queue[i])'
    BY <1>1, <1>2, <1>5, <1>6, NoConnAssumption DEF News, OnItsWay
  <2>2. QED
    BY <1>1, <1>2, <1>5, <1>6, <2>1 DEF News
<1>8. EndFirst' /\ AdminIsPlayer' /\ NicknamesUnique'
  BY <1>1 DEF EndFirst, AdminIsPlayer, NicknamesUnique, Occupied, Deleting
<1>9. SlotBacked'
  BY <1>1, <1>2, OccupiedSlots, NoConnAssumption DEF SlotBacked, Occupied, Typed
<1>10. QED
  BY <1>4, <1>7, <1>8, <1>9

LEMMA QueuedTyped ==
    ASSUME NetworkTypeOK
    PROVE  /\ DOMAIN queue = 1 .. Len(queue) /\ Len(queue) \in Nat
           /\ \A i \in DOMAIN queue : /\ queue[i] \in Messages /\ queue[i].kind \in {"join", "login", "gone"}
                                      /\ queue[i].conn \in Conns /\ queue[i].index \in Players
<1>1. DOMAIN queue = 1 .. Len(queue) /\ Len(queue) \in Nat
  BY DEF NetworkTypeOK
<1>2. \A i \in DOMAIN queue : queue[i] \in Messages
  BY <1>1, ElementOfSeq DEF NetworkTypeOK
<1>3. QED
  BY <1>1, <1>2, MessagesTyped

\* A message of the connection that has the index is put at the end.
LEMMA Queued ==
    ASSUME NetworkTypeOK, NEW m \in Messages, queue' = Append(queue, m)
    PROVE  /\ DOMAIN queue' = 1 .. Len(queue) + 1 /\ Len(queue) \in Nat
           /\ DOMAIN queue = 1 .. Len(queue)
           /\ queue'[Len(queue) + 1] = m
           /\ \A i \in DOMAIN queue : i \in DOMAIN queue' /\ queue'[i] = queue[i]
           /\ \A i \in DOMAIN queue' : (i \in DOMAIN queue /\ queue'[i] = queue[i]) \/ (i = Len(queue) + 1 /\ queue'[i] = m)
<1>1. /\ Len(queue') = Len(queue) + 1 /\ queue' \in Seq(Messages) /\ Len(queue) \in Nat
      /\ queue'[Len(queue) + 1] = m
      /\ \A i \in 1 .. Len(queue) : queue'[i] = queue[i]
  BY AppendProperties DEF NetworkTypeOK
<1>2. DOMAIN queue' = 1 .. Len(queue) + 1 /\ DOMAIN queue = 1 .. Len(queue)
  BY <1>1 DEF NetworkTypeOK
<1>3. QED
  BY <1>1, <1>2

\* What is behind the news of the end of a slot's connection, when more comes.
LEMMA EndFirstQueued ==
    ASSUME Typed, Sessions, NEW m \in Messages, queue' = Append(queue, m), remote[m.index] = m.conn,
           UNCHANGED <<slot, stack>>
    PROVE  EndFirst'
<1>1. /\ DOMAIN queue' = 1 .. Len(queue) + 1 /\ Len(queue) \in Nat
      /\ DOMAIN queue = 1 .. Len(queue)
      /\ \A i \in DOMAIN queue : i \in DOMAIN queue' /\ queue'[i] = queue[i]
      /\ \A i \in DOMAIN queue' : (i \in DOMAIN queue /\ queue'[i] = queue[i]) \/ (i = Len(queue) + 1 /\ queue'[i] = m)
  BY Queued DEF Typed
<1> SUFFICES ASSUME NEW p \in Occupied, NEW i \in DOMAIN queue', ~Deleting(p),
                    queue'[i].index = p, queue'[i].conn # slot[p]
             PROVE  \E k \in DOMAIN queue' : k < i /\ queue'[k] = Gone(p, slot[p])
  BY DEF EndFirst, Occupied, Deleting
<1>2. CASE i \in DOMAIN queue /\ queue'[i] = queue[i]
  BY <1>1, <1>2 DEF Sessions, EndFirst
<1>3. CASE i = Len(queue) + 1 /\ queue'[i] = m
  <2>1. remote[p] # slot[p]
    BY <1>3
  <2>2. PICK k \in DOMAIN queue : queue[k] = Gone(p, slot[p])
    BY <2>1 DEF Sessions, SlotBacked, Deleting
  <2>3. k < i
    BY <1>1, <1>3
  <2>4. QED
    BY <1>1, <2>2, <2>3
<1>4. QED
  BY <1>1, <1>2, <1>3

LEMMA ArriveKeeps ==
    ASSUME Typed, Sessions, NEW c \in Conns, NEW p \in Players, NEW k \in {"join", "login"},
           NEW nick \in Nicks \cup {NoNick}, Arrive(c, p, k, nick)
    PROVE  Sessions'
<1> USE DEF Sessions
<1> DEFINE m == Message(k, p, c, nick)
           n == Len(queue) + 1
<1>1. m \in Messages /\ m.kind = k /\ m.index = p /\ m.conn = c
  BY MessagesTyped
<1>2. /\ remote[p] = c /\ queue' = Append(queue, m)
      /\ UNCHANGED <<link, remote, slots, stack>>
  BY DEF Arrive, serverThread
<1> HIDE DEF m
<1>3. /\ DOMAIN queue' = 1 .. n /\ Len(queue) \in Nat /\ DOMAIN queue = 1 .. Len(queue)
      /\ queue'[n] = m
      /\ \A i \in DOMAIN queue : i \in DOMAIN queue' /\ queue'[i] = queue[i]
      /\ \A i \in DOMAIN queue' : (i \in DOMAIN queue /\ queue'[i] = queue[i]) \/ (i = n /\ queue'[i] = m)
  BY <1>1, <1>2, Queued DEF Typed
<1>4. link[c] \in {"up", "kicked", "closing"}
  BY <1>2, NoConnAssumption DEF Network
<1>5. Network'
  BY <1>2, <1>4 DEF Network
<1>6. \A i \in DOMAIN queue : queue[i].conn \in Conns /\ queue[i].index \in Players
  BY QueuedTyped DEF Typed
<1>7. News'
  <2> DEFINE Fine(x) == /\ link'[x.conn] # "new"
                        /\ remote'[x.index] = x.conn \/ link'[x.conn] = "down"
                        /\ x.kind = "gone" => link'[x.conn] = "down"
  <2>1. \A i \in DOMAIN queue : Fine(queue[i])
    BY <1>2, <1>6 DEF News, OnItsWay
  <2>2. Fine(m)
    BY <1>1, <1>2, <1>4
  <2>3. \A i \in DOMAIN queue' : Fine(queue'[i])
    <3> HIDE DEF Fine
    <3>1. QED
      BY <1>3, <2>1, <2>2
  <2>4. ASSUME NEW i \in DOMAIN queue, m.index = queue[i].index, m.conn # queue[i].conn
        PROVE  link[queue[i].conn] = "down"
    BY <1>1, <1>2, <2>4 DEF News, OnItsWay
  <2>5. ASSUME NEW i \in DOMAIN queue', NEW j \in DOMAIN queue', i < j,
               queue'[i].index = queue'[j].index, queue'[i].conn # queue'[j].conn
        PROVE  link[queue'[i].conn] = "down"
    <3>1. i \in DOMAIN queue /\ queue'[i] = queue[i]
      BY <1>3, <2>5
    <3>2. CASE j \in DOMAIN queue /\ queue'[j] = queue[j]
      BY <2>5, <3>1, <3>2 DEF News
    <3>3. CASE queue'[j] = m
      BY <1>1, <2>4, <2>5, <3>1, <3>3
    <3>4. QED
      BY <1>3, <3>2, <3>3
  <2>6. QED
    BY <1>2, <2>3, <2>5 DEF News, OnItsWay
<1>8. EndFirst'
  BY <1>1, <1>2, EndFirstQueued
<1>9. SlotBacked'
  BY <1>2, <1>3 DEF SlotBacked, Occupied
<1>10. AdminIsPlayer' /\ NicknamesUnique'
  BY <1>2 DEF AdminIsPlayer, NicknamesUnique, Occupied
<1>11. QED
  BY <1>5, <1>7, <1>8, <1>9, <1>10

LEMMA CloseKeeps ==
    ASSUME Typed, Sessions, NEW c \in Conns, NEW p \in Players, Close(c, p)
    PROVE  Sessions'
<1> USE DEF Sessions
<1> DEFINE m == Gone(p, c)
           n == Len(queue) + 1
<1>1. m \in Messages /\ m.kind = "gone" /\ m.index = p /\ m.conn = c
  BY MessagesTyped
<1>2. /\ remote[p] = c
      /\ remote' = [remote EXCEPT ![p] = NoConn] /\ link' = [link EXCEPT ![c] = "down"]
      /\ queue' = Append(queue, m)
      /\ UNCHANGED <<slots, stack>>
  BY DEF Close, serverThread
<1> HIDE DEF m
<1>3. /\ DOMAIN queue' = 1 .. n /\ Len(queue) \in Nat /\ DOMAIN queue = 1 .. Len(queue)
      /\ queue'[n] = m
      /\ \A i \in DOMAIN queue : i \in DOMAIN queue' /\ queue'[i] = queue[i]
      /\ \A i \in DOMAIN queue' : (i \in DOMAIN queue /\ queue'[i] = queue[i]) \/ (i = n /\ queue'[i] = m)
  BY <1>1, <1>2, Queued DEF Typed
<1>4. /\ remote'[p] = NoConn /\ \A q \in Players : q # p => remote'[q] = remote[q]
      /\ link'[c] = "down" /\ \A d \in Conns : d # c => link'[d] = link[d]
  BY <1>2 DEF Typed, NetworkTypeOK
<1>5. \A q \in Players : q # p => remote[q] # c
  BY <1>2, NoConnAssumption DEF Network
<1>6. Network'
  BY <1>2, <1>4, <1>5 DEF Network, Typed, NetworkTypeOK
<1>7. \A i \in DOMAIN queue : queue[i].conn \in Conns /\ queue[i].index \in Players
  BY QueuedTyped DEF Typed
<1>8. News'
  <2> DEFINE Fine(x) == /\ link'[x.conn] # "new"
                        /\ remote'[x.index] = x.conn \/ link'[x.conn] = "down"
                        /\ x.kind = "gone" => link'[x.conn] = "down"
  <2>1. \A i \in DOMAIN queue : Fine(queue[i])
    BY <1>2, <1>4, <1>7 DEF News, OnItsWay
  <2>2. Fine(m)
    BY <1>1, <1>4
  <2>3. \A i \in DOMAIN queue' : Fine(queue'[i])
    <3> HIDE DEF Fine
    <3>1. QED
      BY <1>3, <2>1, <2>2
  <2>4. ASSUME NEW i \in DOMAIN queue, m.index = queue[i].index, m.conn # queue[i].conn
        PROVE  link[queue[i].conn] = "down"
    BY <1>1, <1>2, <2>4 DEF News, OnItsWay
  <2>5. ASSUME NEW i \in DOMAIN queue', NEW j \in DOMAIN queue', i < j,
               queue'[i].index = queue'[j].index, queue'[i].conn # queue'[j].conn
        PROVE  link'[queue'[i].conn] = "down"
    <3>1. i \in DOMAIN queue /\ queue'[i] = queue[i]
      BY <1>3, <2>5
    <3>2. link[queue[i].conn] = "down" => link'[queue[i].conn] = "down"
      BY <1>4, <1>7, <3>1
    <3>3. CASE j \in DOMAIN queue /\ queue'[j] = queue[j]
      BY <2>5, <3>1, <3>2, <3>3 DEF News
    <3>4. CASE queue'[j] = m
      BY <1>1, <2>4, <2>5, <3>1, <3>2, <3>4
    <3>5. QED
      BY <1>3, <3>3, <3>4
  <2>6. QED
    BY <2>3, <2>5 DEF News, OnItsWay
<1>9. EndFirst'
  BY <1>1, <1>2, EndFirstQueued
<1>10. SlotBacked'
  <2>1. ASSUME NEW q \in Occupied
        PROVE  \/ remote'[q] = slot[q]
               \/ \E i \in DOMAIN queue' : queue'[i] = Gone(q, slot[q])
               \/ Deleting(q)
    <3>1. q \in Players
      BY DEF Occupied
    <3>2. CASE q = p /\ remote[q] = slot[q]
      BY <1>2, <1>3, <3>2 DEF m
    <3>3. CASE q # p /\ remote[q] = slot[q]
      BY <1>4, <3>1, <3>3
    <3>4. CASE Deleting(q) \/ \E i \in DOMAIN queue : queue[i] = Gone(q, slot[q])
      BY <1>3, <3>4
    <3>5. QED
      BY <3>2, <3>3, <3>4 DEF SlotBacked, Deleting
  <2>2. QED
    BY <1>2, <2>1 DEF SlotBacked, Occupied, Deleting
<1>11. AdminIsPlayer' /\ NicknamesUnique'
  BY <1>2 DEF AdminIsPlayer, NicknamesUnique, Occupied
<1>12. QED
  BY <1>6, <1>8, <1>9, <1>10, <1>11

(***************************************************************************)
(* A step of the server's thread that gives nobody a slot: it may take a   *)
(* message from the queue, kick, and empty slots.  The news of the end of  *)
(* a slot's connection may go only when the slot is being deleted.         *)
(***************************************************************************)
KickedAtMost == link' = link \/ OnlyKicks

Taken == Receiving /\ queue' = Tail(queue)

\* Messages keep their order; queue'[i] is queue[i + d].
LEMMA QueueLeft ==
    ASSUME NetworkTypeOK, queue' = queue \/ Taken
    PROVE  \E d \in {0, 1} :
             /\ d = 0 <=> ~Taken
             /\ \A i \in DOMAIN queue' : i \in Nat /\ i + d \in DOMAIN queue /\ queue'[i] = queue[i + d]
             /\ \A i \in DOMAIN queue : i > d => i - d \in DOMAIN queue' /\ queue'[i - d] = queue[i]
             /\ DOMAIN queue \subseteq Nat \ {0}
             /\ d = 1 => queue[1] = Head(queue)
<1> DOMAIN queue = 1 .. Len(queue) /\ Len(queue) \in Nat
  BY DEF NetworkTypeOK
<1>1. CASE ~Taken
  BY <1>1
<1>2. CASE Taken
  <2>1. /\ DOMAIN Tail(queue) = 1 .. Len(queue) - 1 /\ queue[1] = Head(queue)
        /\ \A i \in DOMAIN Tail(queue) : i + 1 \in DOMAIN queue /\ Tail(queue)[i] = queue[i + 1]
        /\ \A i \in DOMAIN queue : i # 1 => i - 1 \in DOMAIN Tail(queue) /\ queue[i] = Tail(queue)[i - 1]
    BY <1>2, Received DEF Taken
  <2>2. queue' = Tail(queue)
    BY <1>2 DEF Taken
  <2>3. \A i \in DOMAIN queue' : i + 1 \in DOMAIN queue /\ queue'[i] = queue[i + 1]
    BY <2>1, <2>2
  <2>4. \A i \in DOMAIN queue : i # 1 => i - 1 \in DOMAIN queue' /\ queue'[i - 1] = queue[i]
    BY <2>1, <2>2
  <2>5. DOMAIN queue' \subseteq Nat
    <3>1. DOMAIN queue' = 1 .. Len(queue) - 1
      BY <2>1, <2>2, Zenon
    <3>2. QED
      BY <3>1
  <2>6. \A i \in DOMAIN queue' : i \in Nat /\ i + 1 \in DOMAIN queue /\ queue'[i] = queue[i + 1]
    BY <2>3, <2>5
  <2>7. \A i \in DOMAIN queue : i > 1 => i - 1 \in DOMAIN queue' /\ queue'[i - 1] = queue[i]
    BY <2>4
  <2>8. DOMAIN queue \subseteq Nat \ {0}
    OBVIOUS
  <2>9. QED
    BY <1>2, <2>1, <2>6, <2>7, <2>8
<1>3. QED
  BY <1>1, <1>2

LEMMA NetworkLeft ==
    ASSUME Typed, Network, News, UNCHANGED remote, KickedAtMost, queue' = queue \/ Taken
    PROVE  Network' /\ News'
<1>1. \A c \in Conns : /\ link'[c] = link[c] \/ (link[c] = "up" /\ link'[c] = "kicked")
                       /\ link'[c] = "new" <=> link[c] = "new"
                       /\ link'[c] = "down" <=> link[c] = "down"
  BY DEF KickedAtMost, OnlyKicks
<1>2. Network'
  BY <1>1 DEF Network, Typed, NetworkTypeOK
<1>3. PICK d \in {0, 1} :
        /\ \A i \in DOMAIN queue' : i \in Nat /\ i + d \in DOMAIN queue /\ queue'[i] = queue[i + d]
  BY QueueLeft DEF Typed
<1>4. \A i \in DOMAIN queue : queue[i].conn \in Conns
  BY QueuedTyped DEF Typed
<1>5. ASSUME NEW i \in DOMAIN queue' PROVE OnItsWay(queue[i])'
  <2>1. OnItsWay(queue[i + d]) /\ queue'[i] = queue[i + d] /\ queue[i + d].conn \in Conns
    BY <1>3, <1>4 DEF News
  <2>2. QED
    BY <2>1, <1>1 DEF OnItsWay
<1>6. ASSUME NEW i \in DOMAIN queue', NEW j \in DOMAIN queue', i < j,
             queue'[i].index = queue'[j].index, queue'[i].conn # queue'[j].conn
      PROVE  link'[queue'[i].conn] = "down"
  <2>1. /\ i + d \in DOMAIN queue /\ j + d \in DOMAIN queue /\ i + d < j + d
        /\ queue'[i] = queue[i + d] /\ queue'[j] = queue[j + d] /\ queue[i + d].conn \in Conns
    BY <1>3, <1>4, <1>6
  <2>2. QED
    BY <1>1, <1>6, <2>1 DEF News
<1>7. QED
  BY <1>2, <1>5, <1>6 DEF News

LEMMA GoneFields == \A p, c : Gone(p, c).kind = "gone" /\ Gone(p, c).index = p /\ Gone(p, c).conn = c
BY DEF Gone, Message

LEMMA ServerKeeps ==
    ASSUME Typed, Sessions, UNCHANGED remote, KickedAtMost, queue' = queue \/ Taken,
           NEW h, Taken => h = Head(queue) /\ (h.kind = "gone" /\ h.index \in Occupied' => Deleting(h.index)'),
           \A p \in Players : slot'[p] = NoConn \/ (slot'[p] = slot[p] /\ name'[p] = name[p]),
           AdminIsPlayer',
           \A p \in Occupied' : Deleting(p) => Deleting(p)'
    PROVE  Sessions'
<1>1. Network' /\ News'
  BY NetworkLeft DEF Sessions
<1>2. PICK d \in {0, 1} :
        /\ d = 0 <=> ~Taken
        /\ \A i \in DOMAIN queue' : i \in Nat /\ i + d \in DOMAIN queue /\ queue'[i] = queue[i + d]
        /\ \A i \in DOMAIN queue : i > d => i - d \in DOMAIN queue' /\ queue'[i - d] = queue[i]
        /\ DOMAIN queue \subseteq Nat \ {0}
        /\ d = 1 => queue[1] = Head(queue)
  BY QueueLeft DEF Typed
<1>3. \A p \in Occupied' : p \in Occupied /\ slot'[p] = slot[p] /\ name'[p] = name[p] /\ p \in Players
  BY DEF Occupied
\* A slot of which the news was just taken is being deleted.
<1>4. ASSUME NEW p \in Occupied', NEW k \in DOMAIN queue, queue[k] = Gone(p, slot[p]), ~Deleting(p)'
      PROVE  k > d
  <2>1. CASE d = 0
    BY <1>2, <2>1
  <2>2. CASE d = 1 /\ k = 1
    <3>1. Taken /\ h = Head(queue) /\ queue[1] = Head(queue)
      BY <1>2, <2>2
    <3>2. h.kind = "gone" /\ h.index = p
      BY <1>4, <2>2, <3>1, GoneFields
    <3>3. QED
      BY <1>4, <3>1, <3>2
  <2>3. k \in Nat \ {0}
    BY <1>2
  <2>4. QED
    BY <2>1, <2>2, <2>3
<1>5. EndFirst'
  <2> SUFFICES ASSUME NEW p \in Occupied', NEW i \in DOMAIN queue', ~Deleting(p)',
                      queue'[i].index = p, queue'[i].conn # slot'[p]
               PROVE  \E k \in DOMAIN queue' : k < i /\ queue'[k] = Gone(p, slot'[p])
    BY DEF EndFirst
  <2>1. i + d \in DOMAIN queue /\ queue[i + d] = queue'[i] /\ ~Deleting(p) /\ p \in Occupied
    BY <1>2, <1>3
  <2>2. PICK k \in DOMAIN queue : k < i + d /\ queue[k] = Gone(p, slot[p])
    BY <1>3, <2>1 DEF Sessions, EndFirst
  <2>3. k > d
    BY <1>4, <2>2
  <2>4. k - d \in DOMAIN queue' /\ queue'[k - d] = Gone(p, slot'[p]) /\ k - d < i
    BY <1>2, <1>3, <2>2, <2>3
  <2>5. QED
    BY <2>4
<1>6. SlotBacked'
  <2> SUFFICES ASSUME NEW p \in Occupied', ~Deleting(p)', remote'[p] # slot'[p]
               PROVE  \E k \in DOMAIN queue' : queue'[k] = Gone(p, slot'[p])
    BY DEF SlotBacked, Deleting
  <2>1. PICK k \in DOMAIN queue : queue[k] = Gone(p, slot[p])
    BY <1>3 DEF Sessions, SlotBacked, Deleting
  <2>2. k > d
    BY <1>4, <2>1
  <2>3. QED
    BY <1>2, <1>3, <2>1, <2>2
<1>7. NicknamesUnique'
  BY <1>3 DEF Sessions, NicknamesUnique
<1>8. QED
  BY <1>1, <1>5, <1>6, <1>7 DEF Sessions

(* Which slots are being deleted. *)
LEMMA DeletingPushed ==
    ASSUME StackOK, NEW f \in Frames, stack' = <<f>> \o stack
    PROVE  \A p \in Players : Deleting(p) \/ (f.op = "delete" /\ f.player = p) => Deleting(p)'
<1>1. /\ stack'[1] = f /\ DOMAIN stack' = 1 .. Len(stack) + 1 /\ DOMAIN stack = 1 .. Len(stack)
      /\ Len(stack) \in Nat
      /\ \A i \in 1 .. Len(stack) : stack'[i + 1] = stack[i]
  BY Pushed DEF StackOK, StackTypeOK
<1>2. 1 \in DOMAIN stack' /\ \A i \in DOMAIN stack : i + 1 \in DOMAIN stack' /\ stack'[i + 1] = stack[i]
  BY <1>1
<1>3. QED
  BY <1>1, <1>2 DEF Deleting

LEMMA DeletingPopped ==
    ASSUME StackOK, ~Idle, stack' = Below
    PROVE  \A p \in Players : Deleting(p) /\ ~(Top.op = "delete" /\ Top.player = p) => Deleting(p)'
<1>1. /\ Top = stack[1] /\ DOMAIN stack = 1 .. Len(stack)
      /\ \A i \in DOMAIN stack : i # 1 => i - 1 \in DOMAIN stack' /\ stack[i] = stack'[i - 1]
  BY Popped DEF StackOK, StackTypeOK, Idle, Top, Below
<1>2. QED
  BY <1>1 DEF Deleting

LEMMA DeletingReplaced ==
    ASSUME StackOK, ~Idle, NEW f \in Frames, stack' = <<f>> \o Below
    PROVE  \A p \in Players :
             \/ Deleting(p) /\ ~(Top.op = "delete" /\ Top.player = p)
             \/ f.op = "delete" /\ f.player = p
             => Deleting(p)'
<1>1. /\ Top = stack[1] /\ DOMAIN stack = 1 .. Len(stack) /\ Below \in Seq(Frames)
      /\ Len(Below) = Len(stack) - 1 /\ Len(stack) \in Nat
      /\ \A i \in DOMAIN stack : i # 1 => i - 1 \in DOMAIN Below /\ stack[i] = Below[i - 1]
  BY Popped DEF StackOK, StackTypeOK, Idle, Top, Below
<1>2. /\ stack'[1] = f /\ DOMAIN stack' = 1 .. Len(Below) + 1 /\ Len(Below) \in Nat
      /\ \A i \in DOMAIN stack' : i # 1 => stack'[i] = Below[i - 1]
  <2>1. Below \in Seq(Frames)
    BY <1>1
  <2> HIDE DEF Below
  <2>2. QED
    BY <2>1, Pushed
<1>3. 1 \in DOMAIN stack' /\ \A i \in DOMAIN stack : i # 1 => i \in DOMAIN stack' /\ stack'[i] = stack[i]
  <2>1. DOMAIN stack' = DOMAIN stack
    <3>1. Len(Below) + 1 = Len(stack)
      BY <1>1
    <3>2. QED
      BY <1>1, <1>2, <3>1, Zenon
  <2>2. 1 \in DOMAIN stack'
    BY <1>2
  <2>3. QED
    BY <1>1, <1>2, <2>1, <2>2
<1>4. QED
  BY <1>1, <1>2, <1>3 DEF Deleting

LEMMA NotDeleting ==
    ASSUME StackOK, Idle \/ Top.op \notin {"new", "delete"}
    PROVE  \A p \in Players : ~Deleting(p)
<1>1. CASE Idle
  BY <1>1 DEF Idle, Deleting
<1>2. CASE ~Idle
  <2>1. Len(stack) = 1 /\ Top = stack[1] /\ Top.op # "delete"
    BY <1>2, TopTyped DEF StackOK
  <2>2. DOMAIN stack = {1}
    BY <2>1 DEF StackOK, StackTypeOK
  <2>3. QED
    BY <2>1, <2>2 DEF Deleting
<1>3. QED
  BY <1>1, <1>2

LEMMA Calm ==
    ASSUME Typed, Sessions, UNCHANGED <<network, slots>>,
           \A p \in Players : Deleting(p) => Deleting(p)'
    PROVE  Sessions'
<1>1. queue' = queue /\ UNCHANGED remote /\ KickedAtMost
  BY DEF network, KickedAtMost
<1>2. ~Taken
  <2>1. Receiving => Tail(queue) # queue
    <3>1. ASSUME Receiving PROVE Len(Tail(queue)) = Len(queue) - 1 /\ Len(queue) \in Nat
      BY <3>1, Popped DEF Typed, NetworkTypeOK, Receiving
    <3>2. QED
      BY <3>1
  <2>2. QED
    BY <1>1, <2>1 DEF Taken
<1>3. AdminIsPlayer'
  BY DEF Sessions, AdminIsPlayer
<1>4. Occupied' \subseteq Players
  BY DEF Occupied
<1>5. QED
  BY <1>1, <1>2, <1>3, <1>4, ServerKeeps

(***************************************************************************)
(* The messages.                                                           *)
(***************************************************************************)
\* A login is of the connection that has the slot.
LEMMA HandleLoginKeeps == ASSUME Typed, StackOK, Sessions, HandleLogin PROVE Sessions'
<1> PICK m : m = Head(queue)
  OBVIOUS
<1>1. /\ m.kind = "login" /\ Taken /\ Idle
      /\ UNCHANGED <<link, remote, slot, name, stack>>
      /\ admin' = IF m.index \in Occupied THEN [admin EXCEPT ![m.index] = m.conn] ELSE admin
  BY DEF HandleLogin, Taken, Receiving
<1>2. m = queue[1] /\ 1 \in DOMAIN queue /\ m.index \in Players /\ DOMAIN queue \subseteq Nat \ {0}
  BY <1>1, Received DEF Typed, Taken
<1>3. m.index \in Occupied => m.conn = slot[m.index]
  <2>1. SUFFICES ASSUME m.index \in Occupied, m.conn # slot[m.index] PROVE FALSE
    OBVIOUS
  <2>2. PICK k \in DOMAIN queue : k < 1
    BY <1>1, <1>2, <2>1, NotDeleting DEF Sessions, EndFirst
  <2>3. QED
    BY <1>2, <2>2
<1>4. AdminIsPlayer'
  BY <1>1, <1>2, <1>3 DEF Sessions, AdminIsPlayer, Typed, SlotsTypeOK
<1>5. QED
  <2>1. KickedAtMost /\ \A p : Deleting(p) => Deleting(p)'
    BY <1>1 DEF KickedAtMost, Deleting
  <2>2. \A p \in Players : slot'[p] = slot[p] /\ name'[p] = name[p]
    BY <1>1
  <2>3. m.kind # "gone"
    BY <1>1
  <2>4. QED
    BY <1>1, <1>4, <2>1, <2>2, <2>3, ServerKeeps

LEMMA HandleGoneKeeps == ASSUME Typed, StackOK, Sessions, HandleGone PROVE Sessions'
<1> PICK h : h = Head(queue)
  OBVIOUS
<1>1. /\ Taken /\ UNCHANGED <<link, remote, slots>>
      /\ \/ BeginDelete(h.index)
         \/ h.index \notin Occupied /\ UNCHANGED stack
  BY DEF HandleGone, Taken, BeginDelete
<1>2. h.index \in Players
  BY <1>1, Received DEF Typed, Taken
<1>3. (\A p \in Players : Deleting(p) => Deleting(p)') /\ (h.index \in Occupied' => Deleting(h.index)')
  <2>1. CASE UNCHANGED stack /\ h.index \notin Occupied
    BY <1>1, <2>1 DEF Deleting, Occupied
  <2>2. CASE BeginDelete(h.index)
    <3>1. Frame("delete", h.index, "fs") \in Frames
      BY <1>2, FramesTyped DEF Ops
    <3>2. Frame("delete", h.index, "fs").op = "delete" /\ Frame("delete", h.index, "fs").player = h.index
      BY DEF Frame
    <3>3. stack' = <<Frame("delete", h.index, "fs")>> \o stack
      BY <2>2 DEF BeginDelete
    <3>4. QED
      BY <1>2, <3>1, <3>2, <3>3, DeletingPushed
  <2>3. QED
    BY <1>1, <2>1, <2>2
<1>4. KickedAtMost /\ AdminIsPlayer' /\ Occupied' \subseteq Players
  BY <1>1 DEF KickedAtMost, Sessions, AdminIsPlayer, Occupied
<1>5. \A p \in Players : slot'[p] = slot[p] /\ name'[p] = name[p]
  BY <1>1
<1>6. QED
  BY <1>1, <1>3, <1>4, <1>5, ServerKeeps

(***************************************************************************)
(* The one step that gives somebody a slot.  The head of the queue is the  *)
(* join of a connection that has the index, and nothing is before it; so   *)
(* the slot is nobody else's.                                              *)
(***************************************************************************)
JoinsAt(c, p) ==
    /\ Receiving
    /\ Head(queue).kind = "join" /\ Head(queue).conn = c
    /\ queue' = Tail(queue)
    /\ Joinable(c, p)
    /\ BeginNew(p, c, Head(queue).nick)
    /\ ~NickInUse(Head(queue).nick)
    /\ UNCHANGED <<link, remote>>

LEMMA JoinsOwnSlot ==
    ASSUME Typed, StackOK, Sessions, NEW c \in Conns, NEW p \in Players, JoinsAt(c, p)
    PROVE  slot[p] \in {NoConn, c}
<1> USE DEF Sessions
<1>1. 1 \in DOMAIN queue /\ queue[1].kind = "join" /\ queue[1].conn = c /\ queue[1].index \in Players
      /\ DOMAIN queue \subseteq Nat \ {0}
  BY Received DEF Typed, JoinsAt
<1>2. remote[p] = c /\ link[c] # "down"
  BY DEF JoinsAt, Joinable
<1>3. queue[1].index = p
  <2>1. remote[queue[1].index] = c
    BY <1>1, <1>2 DEF News, OnItsWay
  <2>2. QED
    BY <1>1, <1>2, <2>1, NoConnAssumption DEF Network
<1>4. SUFFICES ASSUME slot[p] # NoConn, slot[p] # c PROVE FALSE
  OBVIOUS
<1>5. p \in Occupied /\ ~Deleting(p)
  BY <1>4, NotDeleting DEF JoinsAt, Receiving, Occupied
<1>6. PICK k \in DOMAIN queue : k < 1
  BY <1>1, <1>3, <1>4, <1>5 DEF EndFirst
<1>7. QED
  BY <1>1, <1>6

LEMMA JoinKeeps ==
    ASSUME Typed, StackOK, Sessions, NEW c \in Conns, NEW p \in Players, JoinsAt(c, p)
    PROVE  Sessions'
<1> USE DEF Sessions
<1> PICK nick : nick = Head(queue).nick
  OBVIOUS
<1>1. Taken /\ UNCHANGED <<link, remote>> /\ Idle /\ ~NickInUse(nick)
      /\ slot' = [slot EXCEPT ![p] = c] /\ admin' = [admin EXCEPT ![p] = NoConn]
      /\ name' = [name EXCEPT ![p] = nick]
  BY DEF JoinsAt, Taken, BeginNew, Receiving
<1>2. slot[p] \in {NoConn, c}
  BY JoinsOwnSlot
<1>3. /\ slot'[p] = c /\ \A q \in Players : q # p => slot'[q] = slot[q]
      /\ name'[p] = nick /\ \A q \in Players : q # p => name'[q] = name[q]
  BY <1>1 DEF Typed, SlotsTypeOK
<1>4. remote[p] = c /\ link[c] \notin {"new", "down"}
  BY DEF JoinsAt, Joinable
<1>5. Occupied' = Occupied \cup {p}
  BY <1>2, <1>3, NoConnAssumption DEF Occupied
<1>6. Network' /\ News'
  BY <1>1, NetworkLeft DEF KickedAtMost
<1>7. /\ DOMAIN queue' \subseteq Nat \ {0} /\ 1 \in DOMAIN queue
      /\ \A i \in DOMAIN queue' : i + 1 \in DOMAIN queue /\ queue'[i] = queue[i + 1] /\ 1 < i + 1
      /\ \A i \in DOMAIN queue : i # 1 => i - 1 \in DOMAIN queue' /\ queue[i] = queue'[i - 1]
      /\ queue[1].kind = "join" /\ queue[1].conn = c /\ queue[1].index \in Players
      /\ DOMAIN queue \subseteq Nat \ {0}
  <2>1. queue' = Tail(queue) /\ Head(queue).kind = "join" /\ Head(queue).conn = c /\ Receiving
    BY DEF JoinsAt
  <2>2. DOMAIN queue' = 1 .. Len(queue) - 1 /\ Len(queue) \in Nat /\ DOMAIN queue = 1 .. Len(queue)
        /\ Head(queue) = queue[1] /\ 1 \in DOMAIN queue /\ Head(queue).index \in Players
    BY <2>1, Received DEF Typed
  <2>3. /\ \A i \in DOMAIN queue' : i + 1 \in DOMAIN queue /\ queue'[i] = queue[i + 1]
        /\ \A i \in DOMAIN queue : i # 1 => i - 1 \in DOMAIN queue' /\ queue[i] = queue'[i - 1]
    BY <2>1, Received DEF Typed
  <2>4. DOMAIN queue' \subseteq Nat \ {0} /\ \A i \in DOMAIN queue' : 1 < i + 1
    BY <2>2
  <2>5. QED
    BY <2>1, <2>2, <2>3, <2>4
<1>8. queue[1].index = p
  <2>1. remote[queue[1].index] = c
    BY <1>4, <1>7 DEF News, OnItsWay
  <2>2. QED
    BY <1>4, <1>7, <2>1, NoConnAssumption DEF Network
<1>9. EndFirst'
  <2> SUFFICES ASSUME NEW q \in Occupied', NEW i \in DOMAIN queue',
                      queue'[i].index = q, queue'[i].conn # slot'[q]
               PROVE  \E k \in DOMAIN queue' : k < i /\ queue'[k] = Gone(q, slot'[q])
    BY DEF EndFirst
  <2>1. i + 1 \in DOMAIN queue /\ queue'[i] = queue[i + 1] /\ 1 < i + 1 /\ i \in Nat
    BY <1>7
  <2>2. q # p
    <3>1. SUFFICES ASSUME q = p PROVE FALSE
      OBVIOUS
    <3>2. queue[1].index = queue[i + 1].index /\ queue[1].conn # queue[i + 1].conn
      BY <1>3, <1>7, <1>8, <2>1, <3>1
    <3>3. link[c] = "down"
      BY <1>7, <2>1, <3>2 DEF News
    <3>4. QED
      BY <1>4, <3>3
  <2>3. q \in Occupied /\ slot'[q] = slot[q] /\ q \in Players
    BY <1>3, <1>5, <2>2 DEF Occupied
  <2>4. ~Deleting(q)
    BY <1>1, <2>3, NotDeleting
  <2>5. PICK k \in DOMAIN queue : k < i + 1 /\ queue[k] = Gone(q, slot[q])
    BY <2>1, <2>3, <2>4 DEF EndFirst
  <2>6. k # 1 /\ k \in Nat
    BY <1>7, <2>5, GoneFields
  <2>7. k - 1 \in DOMAIN queue' /\ queue'[k - 1] = Gone(q, slot'[q]) /\ k - 1 < i
    BY <1>7, <2>1, <2>3, <2>5, <2>6
  <2>8. QED
    BY <2>7
<1>10. SlotBacked'
  <2>1. ASSUME NEW q \in Occupied', q # p, remote[q] # slot[q]
        PROVE  \E k \in DOMAIN queue' : queue'[k] = Gone(q, slot[q])
    <3>1. q \in Occupied /\ q \in Players /\ ~Deleting(q)
      BY <1>1, <1>5, <2>1, NotDeleting DEF Occupied
    <3>2. PICK k \in DOMAIN queue : queue[k] = Gone(q, slot[q])
      BY <2>1, <3>1 DEF SlotBacked, Deleting
    <3>3. k # 1
      BY <1>7, <3>2, GoneFields
    <3>4. QED
      BY <1>7, <3>2, <3>3
  <2>2. QED
    BY <1>1, <1>3, <1>4, <2>1 DEF SlotBacked, Occupied
<1>11. AdminIsPlayer'
  BY <1>1, <1>2, <1>3 DEF AdminIsPlayer, Typed, SlotsTypeOK
<1>12. NicknamesUnique'
  <2>1. \A q \in Occupied : name[q] # nick
    BY <1>1 DEF NickInUse
  <2>2. \A q \in Occupied' : q # p => q \in Occupied /\ name'[q] = name[q]
    BY <1>3, <1>5 DEF Occupied
  <2>3. QED
    BY <1>3, <1>5, <2>1, <2>2 DEF NicknamesUnique
<1>13. QED
  BY <1>6, <1>9, <1>10, <1>11, <1>12

LEMMA HandleJoinKeeps ==
    ASSUME Typed, StackOK, Sessions, HandleJoin
    PROVE  /\ Sessions'
           /\ \A p \in Players : slot'[p] # slot[p] => slot[p] = NoConn
<1> PICK h : h = Head(queue)
  OBVIOUS
<1>1. Taken /\ UNCHANGED remote /\ h.kind = "join" /\ h.conn \in Conns /\ Receiving
  BY Received DEF HandleJoin, Taken, Typed
<1>2. CASE \E p \in Players : JoinsAt(h.conn, p)
  <2>1. PICK p \in Players : JoinsAt(h.conn, p)
    BY <1>2
  <2>2. slot'[p] = h.conn /\ slot[p] \in {NoConn, h.conn} /\ \A q \in Players : q # p => slot'[q] = slot[q]
    BY <1>1, <2>1, JoinsOwnSlot DEF JoinsAt, BeginNew, Typed, SlotsTypeOK
  <2>3. QED
    BY <1>1, <2>1, <2>2, JoinKeeps
<1>3. CASE KickedAtMost /\ UNCHANGED <<slots, stack>>
  <2>1. AdminIsPlayer' /\ \A p : Deleting(p) => Deleting(p)'
    BY <1>3 DEF Sessions, AdminIsPlayer, Deleting
  <2>2. h.kind # "gone"
    BY <1>1
  <2>3. \A p \in Players : slot'[p] = slot[p] /\ name'[p] = name[p]
    BY <1>3
  <2>4. QED
    BY <1>1, <1>3, <2>1, <2>2, <2>3, ServerKeeps
<1>4. (\E p \in Players : JoinsAt(h.conn, p)) \/ (KickedAtMost /\ UNCHANGED <<slots, stack>>)
  <2>1. CASE \E p \in Players : Joinable(h.conn, p) /\ BeginNew(p, h.conn, h.nick) /\ ~NickInUse(h.nick) /\ UNCHANGED link
    BY <2>1, <1>1 DEF JoinsAt, Taken
  <2>2. CASE (\E p \in Players : KickIndex(p)) /\ UNCHANGED <<slots, stack>>
    BY <2>2, KickIsKick DEF KickedAtMost, Typed
  <2>3. CASE UNCHANGED <<link, slots, stack>>
    BY <2>3 DEF KickedAtMost
  <2>4. QED
    BY <2>1, <2>2, <2>3 DEF HandleJoin
<1>5. QED
  BY <1>2, <1>3, <1>4

(***************************************************************************)
(* Callbacks that return, and kicks.                                       *)
(***************************************************************************)
LEMMA KickPlayerKeeps ==
    ASSUME Typed, StackOK, Sessions, NEW p \in Players, KickPlayer(p)
    PROVE  Sessions' /\ UNCHANGED slot
<1>1. UNCHANGED <<remote, queue, slots>> /\ stack' = <<Frame("delete", p, "fs")>> \o stack
  BY DEF KickPlayer, BeginDelete
<1>2. KickedAtMost
  BY KickIsKick DEF KickPlayer, KickedAtMost, Typed
<1>3. \A q \in Players : Deleting(q) => Deleting(q)'
  BY <1>1, FramesTyped, DeletingPushed DEF Ops
<1>4. ~Taken
  <2>1. ASSUME Receiving PROVE Tail(queue) # queue
    <3>1. Len(Tail(queue)) = Len(queue) - 1 /\ Len(queue) \in Nat
      BY <2>1, Popped DEF Typed, NetworkTypeOK, Receiving
    <3>2. QED
      BY <3>1
  <2>2. QED
    BY <1>1, <2>1 DEF Taken
<1>5. AdminIsPlayer' /\ Occupied' \subseteq Players
  BY <1>1 DEF Sessions, AdminIsPlayer, Occupied
<1>6. QED
  BY <1>1, <1>2, <1>3, <1>4, <1>5, ServerKeeps

LEMMA DeleteReturnsKeeps ==
    ASSUME Typed, StackOK, Sessions, DeleteReturns
    PROVE  Sessions' /\ \A p \in Players : slot'[p] # slot[p] => slot'[p] = NoConn
<1>1. UNCHANGED network /\ ~Idle /\ Top.op = "delete" /\ Top.player \in Players
  BY TopTyped DEF DeleteReturns, Returns, StackOK
<1>2. CASE Top.at = "fs" /\ loaded
  <2>1. stack' = <<Frame("delete", Top.player, "gm")>> \o Below /\ UNCHANGED slots
    BY <1>2 DEF DeleteReturns
  <2>2. /\ Frame("delete", Top.player, "gm") \in Frames
        /\ Frame("delete", Top.player, "gm").op = "delete" /\ Frame("delete", Top.player, "gm").player = Top.player
    <3>1. Frame("delete", Top.player, "gm") \in Frames
      BY <1>1, FramesTyped DEF Ops
    <3>2. QED
      BY <3>1 DEF Frame
  <2>3. \A p \in Players : Deleting(p) => Deleting(p)'
    BY <1>1, <2>1, <2>2, DeletingReplaced
  <2>4. QED
    BY <1>1, <2>1, <2>3, Calm
<1>3. CASE ~(Top.at = "fs" /\ loaded)
  <2>1. PICK p \in Players : p = Top.player
    BY <1>1
  <2>2. /\ stack' = Below /\ slot' = [slot EXCEPT ![p] = NoConn] /\ admin' = [admin EXCEPT ![p] = NoConn]
        /\ name' = [name EXCEPT ![p] = NoNick]
    BY <1>3, <2>1 DEF DeleteReturns, FinishDelete
  <2>3. /\ slot'[p] = NoConn /\ admin'[p] = NoConn
        /\ \A q \in Players : q # p => slot'[q] = slot[q] /\ admin'[q] = admin[q] /\ name'[q] = name[q]
    BY <2>2 DEF Typed, SlotsTypeOK
  <2>4. \A q \in Occupied' : q \in Players /\ (Deleting(q) => Deleting(q)')
    BY <1>1, <2>1, <2>2, <2>3, DeletingPopped DEF Occupied
  <2>5. AdminIsPlayer'
    BY <2>3 DEF Sessions, AdminIsPlayer
  <2>6. UNCHANGED <<remote, queue>> /\ KickedAtMost /\ ~Taken
    BY <1>1 DEF network, KickedAtMost, Taken, Receiving
  <2>7. QED
    BY <2>3, <2>4, <2>5, <2>6, ServerKeeps
<1>4. QED
  BY <1>2, <1>3

LEMMA NewReturnsKeeps == ASSUME Typed, StackOK, Sessions, NewReturns PROVE Sessions'
<1>1. UNCHANGED <<network, slots>> /\ ~Idle /\ Top.op = "new" /\ Top.player \in Players
  BY TopTyped DEF NewReturns, Returns, StackOK
<1>2. stack' = Below \/ stack' = <<Frame("new", Top.player, "gm")>> \o Below
  BY DEF NewReturns
<1>3. Frame("new", Top.player, "gm") \in Frames
  BY <1>1, FramesTyped DEF Ops
<1>4. \A p \in Players : Deleting(p) => Deleting(p)'
  BY <1>1, <1>2, <1>3, DeletingPopped, DeletingReplaced
<1>5. QED
  BY <1>1, <1>4, Calm

\* Steps that leave the connections and slots alone, with nothing being deleted.
LEMMA MainKeeps ==
    ASSUME Typed, StackOK, Sessions,
           World \/ Check \/ InitReturns \/ RejoinReturns \/ DeactivateReturns \/ ExitReturns
    PROVE  Sessions' /\ UNCHANGED slot
<1>1. UNCHANGED <<network, slots>>
  BY DEF World, Check, InitReturns, RejoinReturns, DeactivateReturns, ExitReturns
<1>2. Idle \/ Top.op \notin {"new", "delete"}
  BY DEF World, Check, InitReturns, RejoinReturns, DeactivateReturns, ExitReturns, Returns
<1>3. \A p \in Players : Deleting(p) => Deleting(p)'
  BY <1>2, NotDeleting
<1>4. QED
  BY <1>1, <1>3, Calm

LEMMA SessionsKept ==
    ASSUME TypeOK, Bottom, Sessions, [Next]_vars
    PROVE  /\ Sessions'
           /\ \A p \in Players : NoConn \in {slot[p], slot'[p]} \/ slot'[p] = slot[p]
<1>1. Typed /\ StackOK
  BY TypeParts DEF Typed, StackOK
<1>2. CASE NetworkThread
  <2>1. UNCHANGED slot
    BY <1>2, NetworkThreadKeeps DEF serverThread
  <2>2. ASSUME NEW c \in Conns, Goodbye(c) \/ NoticeKick(c) PROVE Sessions'
    <3>1. /\ UNCHANGED <<remote, queue, slots, stack>>
          /\ link' = [link EXCEPT ![c] = "closing"] /\ link[c] \in {"up", "kicked"}
      BY <2>2 DEF Goodbye, NoticeKick, serverThread
    <3>2. \A d \in Conns : /\ link'[d] = link[d] \/ (d = c /\ link'[d] = "closing")
                           /\ link'[d] = "new" <=> link[d] = "new"
                           /\ link'[d] = "down" <=> link[d] = "down"
      BY <1>1, <3>1 DEF Typed, NetworkTypeOK
    <3>3. Network'
      BY <1>1, <3>1, <3>2 DEF Sessions, Network, Typed, NetworkTypeOK
    <3>4. \A i \in DOMAIN queue : queue[i].conn \in Conns
      BY <1>1, QueuedTyped DEF Typed
    <3>5. News'
      BY <3>1, <3>2, <3>4 DEF Sessions, News, OnItsWay
    <3>6. EndFirst' /\ (SlotBacked /\ AdminIsPlayer /\ NicknamesUnique)'
      BY <3>1 DEF Sessions, EndFirst, SlotBacked, AdminIsPlayer, NicknamesUnique, Occupied, Deleting
    <3>7. QED
      BY <3>3, <3>5, <3>6 DEF Sessions
  <2>3. ASSUME NEW c \in Conns, NEW p \in Players, NEW n \in Nicks, Arrive(c, p, "join", n)
        PROVE  Sessions'
    BY <1>1, <2>3, ArriveKeeps
  <2>4. ASSUME NEW c \in Conns, NEW p \in Players, Arrive(c, p, "login", NoNick) PROVE Sessions'
    BY <1>1, <2>4, ArriveKeeps
  <2>5. QED
    BY <1>1, <1>2, <2>1, <2>2, <2>3, <2>4, ConnectKeeps, CloseKeeps DEF NetworkThread
<1>3. CASE MainLoop
  <2>1. ASSUME HandleGone \/ HandleLogin PROVE UNCHANGED slot
    BY <2>1 DEF HandleGone, HandleLogin, BeginDelete
  <2>2. QED
    BY <1>1, <1>3, <2>1, HandleJoinKeeps, HandleGoneKeeps, HandleLoginKeeps, MainKeeps DEF MainLoop
<1>4. CASE CallbackReturns
  <2>1. ASSUME NewReturns PROVE UNCHANGED slot
    BY <2>1 DEF NewReturns
  <2>2. QED
    BY <1>1, <1>4, <2>1, NewReturnsKeeps, DeleteReturnsKeeps, MainKeeps DEF CallbackReturns
<1>5. CASE \E p \in Players : KickPlayer(p)
  BY <1>1, <1>5, KickPlayerKeeps
<1>6. CASE RequestRestart \/ UNCHANGED vars
  <2>1. UNCHANGED <<network, slots, stack>>
    BY <1>6 DEF RequestRestart, vars
  <2>2. \A p : Deleting(p) => Deleting(p)'
    BY <2>1 DEF Deleting
  <2>3. QED
    BY <1>1, <2>1, <2>2, Calm
<1>7. QED
  BY <1>2, <1>3, <1>4, <1>5, <1>6 DEF Next

-----------------------------------------------------------------------------
(***************************************************************************)
(* What the scripts have been told, while scripts do not kick from inside  *)
(* callbacks: one call at most is under way.                               *)
(***************************************************************************)
Story == Phases /\ GmTold /\ (~crashed => FsTold)

StoryInv == TypeOK /\ Bottom /\ Sessions /\ Story

LEMMA OneCall ==
    ASSUME NEW op \in Ops, NEW p \in Players, NEW s \in Scripts, stack' = <<Frame(op, p, s)>>
    PROVE  Len(stack)' <= 1 /\ ~Idle' /\ Top'.op = op /\ Top'.player = p /\ Top'.at = s
<1>1. Frame(op, p, s) \in Frames /\ Frame(op, p, s).op = op /\ Frame(op, p, s).player = p
      /\ Frame(op, p, s).at = s
  BY FramesTyped
<1>2. Len(stack') = 1 /\ stack' # <<>> /\ Head(stack') = Frame(op, p, s)
  BY <1>1, Single
<1>3. QED
  BY <1>1, <1>2 DEF Idle, Top

LEMMA NoCall == ASSUME stack' = <<>> PROVE Len(stack)' <= 1 /\ Idle'
BY DEF Idle

\* Nothing is below the call under way.
LEMMA OnlyCall ==
    ASSUME StoryInv
    PROVE  /\ Idle => stack = <<>> /\ \A f \in Frames : <<f>> \o stack = <<f>>
           /\ ~Idle => /\ Below = <<>> /\ \A f \in Frames : <<f>> \o Below = <<f>>
                       /\ Top.op \in Ops /\ Top.player \in Players /\ Top.at \in Scripts
<1>1. StackOK /\ stack \in Seq(Frames)
  BY TypeParts DEF StoryInv, StackOK, StackTypeOK
<1>2. \A f \in Frames : <<f>> \o <<>> = <<f>>
  BY ConcatEmptySeq, Single
<1>3. ASSUME ~Idle PROVE Below = <<>>
  <2>1. Below \in Seq(Frames) /\ Len(Below) = Len(stack) - 1 /\ Len(stack) <= 1 /\ Len(stack) \in Nat
    BY <1>1, <1>3, TopTyped DEF StoryInv, Story, Phases, StackOK
  <2>2. QED
    BY <2>1, EmptySeq
<1>4. QED
  BY <1>1, <1>2, <1>3, TopTyped DEF Idle, StackOK

LEMMA QuietStory ==
    ASSUME StoryInv, UNCHANGED <<slot, loaded, gameState, stack, calls, crashed, rejoined>>
    PROVE  Story'
BY DEF StoryInv, Story, Phases, GmTold, FsTold, GmHeard, FsHeard, Occupied, Idle, Top

\* The values of what the scripts have been told.
LEMMA ToldValues ==
    ASSUME StoryInv
    PROVE  /\ ToldTypeOK
           /\ "fs" \in Scripts /\ "gm" \in Scripts
           /\ \A s \in Scripts, p \in Players : told[s][p] \in Int
           /\ \A p \in Players : p \in Nat
<1>1. ToldTypeOK
  BY TypeParts DEF StoryInv
<1>2. QED
  BY <1>1, FramesTyped DEF ToldTypeOK

\* A player joins: the filter scripts are called.
LEMMA JoinStory ==
    ASSUME StoryInv, NEW c \in Conns, NEW p \in Players, JoinsAt(c, p), UNCHANGED <<game, crashed>>
    PROVE  Story'
<1> USE DEF StoryInv
<1>1. Idle /\ ~crashed /\ TellFilterScripts(p, 1) /\ slot' = [slot EXCEPT ![p] = c]
      /\ stack' = <<Frame("new", p, "fs")>> /\ UNCHANGED <<loaded, gameState, crashed>>
      /\ rejoined' = rejoined \cup ({p} \cap Occupied)
  BY OnlyCall, FramesTyped DEF JoinsAt, Receiving, BeginNew, game, Alive, Ops
<1>2. Len(stack)' <= 1 /\ ~Idle' /\ Top'.op = "new" /\ Top'.player = p /\ Top'.at = "fs"
  BY <1>1, OneCall DEF Ops, Scripts
<1>3. Occupied' = Occupied \cup {p} /\ (p \in Occupied => p \in rejoined')
  <2>1. slot'[p] = c /\ \A q \in Players : q # p => slot'[q] = slot[q]
    BY <1>1, TypeParts DEF SlotsTypeOK
  <2>2. QED
    BY <1>1, <2>1, NoConnAssumption DEF Occupied
<1>4. /\ told'["gm"] = told["gm"]
      /\ ~hushed' => /\ ~hushed /\ told'["fs"][p] = told["fs"][p] + 1
                     /\ \A q \in Players : q # p => told'["fs"][q] = told["fs"][q]
      /\ \A q \in Players : told["fs"][q] \in Int
  BY <1>1, ToldValues, ToldFilterScripts
<1>5. Phases'
  BY <1>1, <1>2, <1>3 DEF Story, Phases
<1>6. GmTold'
  BY <1>1, <1>2, <1>3, <1>4 DEF Story, GmTold, GmHeard, GmHeardIn
<1>7. ASSUME ~hushed' PROVE FsTold'
  <2>1. \A q \in Players : told["fs"][q] >= IF q \in Occupied /\ loaded THEN 1 ELSE 0
    BY <1>1, <1>4, <1>7 DEF Story, FsTold, FsHeard
  <2>2. \A q \in Players : told'["fs"][q] >= IF q \in Occupied' /\ loaded THEN 1 ELSE 0
    BY <1>3, <1>4, <1>7, <2>1
  <2>3. QED
    BY <1>1, <1>2, <2>2 DEF FsTold, FsHeard, FsHeardIn
<1>8. QED
  BY <1>5, <1>6, <1>7 DEF Story, FsTold

\* The filter scripts have been called: now the game mode, if there is one.
LEMMA NewReturnsStory == ASSUME StoryInv, NewReturns, UNCHANGED rejoined PROVE Story'
<1> USE DEF StoryInv
<1>1. /\ ~crashed /\ ~Idle /\ Top.op = "new" /\ Top.player \in Occupied
      /\ UNCHANGED <<slot, loaded, gameState, crashed>> /\ Occupied \subseteq Players
  BY DEF NewReturns, Returns, Alive, game, Story, Phases, Occupied
<1>2. PICK p \in Players : p = Top.player
  BY <1>1
<1>3. UNCHANGED Occupied
  BY <1>1 DEF Occupied
<1>4. CASE Top.at = "fs" /\ loaded
  <2>1. stack' = <<Frame("new", p, "gm")>> /\ TellGameMode(p, 1)
    BY <1>1, <1>2, <1>4, OnlyCall, FramesTyped DEF NewReturns, Ops
  <2>2. Len(stack)' <= 1 /\ ~Idle' /\ Top'.op = "new" /\ Top'.player = p /\ Top'.at = "gm"
    BY <2>1, OneCall DEF Ops, Scripts
  <2>3. /\ told'["gm"][p] = told["gm"][p] + 1 /\ told'["fs"] = told["fs"] /\ UNCHANGED hushed
        /\ \A q \in Players : q # p => told'["gm"][q] = told["gm"][q]
    BY <2>1, ToldValues, Told DEF TellGameMode
  <2>4. Phases'
    BY <1>1, <1>2, <1>3, <2>2 DEF Story, Phases
  <2>5. GmTold'
    BY <1>1, <1>2, <1>3, <1>4, <2>2, <2>3 DEF Story, GmTold, GmHeard, GmHeardIn
  <2>6. FsTold'
    BY <1>1, <1>3, <1>4, <2>2, <2>3 DEF Story, FsTold, FsHeard, FsHeardIn
  <2>7. QED
    BY <2>4, <2>5, <2>6 DEF Story
<1>5. CASE ~(Top.at = "fs" /\ loaded)
  <2>1. stack' = <<>> /\ UNCHANGED calls
    BY <1>1, <1>5, OnlyCall DEF NewReturns
  <2>2. Len(stack)' <= 1 /\ Idle'
    BY <2>1, NoCall
  <2>3. Phases'
    BY <1>1, <1>3, <2>2 DEF Story, Phases
  <2>4. Top.at = "gm" \/ ~loaded
    BY <1>1, <1>5, OnlyCall DEF Scripts
  <2>5. GmTold'
    BY <1>1, <1>3, <2>1, <2>2, <2>4 DEF Story, GmTold, GmHeard, GmHeardIn
  <2>6. FsTold'
    BY <1>1, <1>3, <2>1, <2>2 DEF Story, FsTold, FsHeard, FsHeardIn
  <2>7. QED
    BY <2>3, <2>5, <2>6 DEF Story
<1>6. QED
  BY <1>4, <1>5

\* A player is about to leave, from the queue or by a command.
LEMMA BeginDeleteStory ==
    ASSUME StoryInv, Idle, ~crashed, NEW p \in Players, BeginDelete(p), UNCHANGED rejoined
    PROVE  Story'
<1> USE DEF StoryInv
<1>1. /\ p \in Occupied /\ TellFilterScripts(p, -1) /\ stack' = <<Frame("delete", p, "fs")>>
      /\ UNCHANGED <<slot, loaded, gameState, crashed>>
  BY OnlyCall, FramesTyped DEF BeginDelete, game, Ops
<1>2. Len(stack)' <= 1 /\ ~Idle' /\ Top'.op = "delete" /\ Top'.player = p /\ Top'.at = "fs"
  BY <1>1, OneCall DEF Ops, Scripts
<1>3. UNCHANGED Occupied
  BY <1>1 DEF Occupied
<1>4. /\ told'["gm"] = told["gm"]
      /\ ~hushed' => /\ ~hushed /\ told'["fs"][p] = told["fs"][p] - 1
                     /\ \A q \in Players : q # p => told'["fs"][q] = told["fs"][q]
      /\ \A q \in Players : told["fs"][q] \in Int
  <2>1. -1 \in Int /\ told["fs"][p] \in Int
    BY ToldValues
  <2>2. /\ told'["gm"] = told["gm"]
        /\ ~hushed' => /\ ~hushed /\ told'["fs"][p] = told["fs"][p] + -1
                       /\ \A q \in Players : q # p => told'["fs"][q] = told["fs"][q]
    BY <1>1, <2>1, ToldValues, ToldFilterScripts
  <2>3. QED
    BY <2>1, <2>2, ToldValues
<1>5. Phases'
  BY <1>1, <1>2, <1>3 DEF Story, Phases
<1>6. GmTold'
  BY <1>1, <1>2, <1>3, <1>4 DEF Story, GmTold, GmHeard, GmHeardIn
<1>7. ASSUME ~hushed' PROVE FsTold'
  <2>1. loaded => \A q \in Players : told["fs"][q] >= IF q \in Occupied THEN 1 ELSE 0
    BY <1>4, <1>7 DEF Story, FsTold, FsHeard
  <2>2. loaded => \A q \in Players : told'["fs"][q] >= IF q \in Occupied /\ q # p THEN 1 ELSE 0
    BY <1>1, <1>4, <1>7, <2>1
  <2>3. QED
    BY <1>1, <1>2, <1>3, <2>2 DEF FsTold, FsHeard, FsHeardIn
<1>8. QED
  BY <1>5, <1>6, <1>7 DEF Story, FsTold

LEMMA DeleteReturnsStory == ASSUME StoryInv, DeleteReturns, UNCHANGED rejoined PROVE Story'
<1> USE DEF StoryInv
<1>1. /\ ~crashed /\ ~Idle /\ Top.op = "delete" /\ Top.player \in Occupied
      /\ UNCHANGED <<loaded, gameState>> /\ Occupied \subseteq Players
  BY DEF DeleteReturns, Returns, Alive, game, Story, Phases, Occupied
<1>2. PICK p \in Players : p = Top.player
  BY <1>1
<1>3. CASE Top.at = "fs" /\ loaded
  <2>1. stack' = <<Frame("delete", p, "gm")>> /\ TellGameMode(p, -1) /\ UNCHANGED <<slot, crashed>>
    BY <1>1, <1>2, <1>3, OnlyCall, FramesTyped DEF DeleteReturns, Ops
  <2>2. Len(stack)' <= 1 /\ ~Idle' /\ Top'.op = "delete" /\ Top'.player = p /\ Top'.at = "gm"
    BY <2>1, OneCall DEF Ops, Scripts
  <2>3. /\ told'["gm"][p] = told["gm"][p] - 1 /\ told'["fs"] = told["fs"] /\ UNCHANGED hushed
        /\ \A q \in Players : q # p => told'["gm"][q] = told["gm"][q]
    <3>1. -1 \in Int /\ told["gm"][p] \in Int
      BY ToldValues
    <3>2. told'["gm"][p] = told["gm"][p] + -1
      BY <2>1, <3>1, ToldValues, Told DEF TellGameMode
    <3>3. QED
      BY <2>1, <3>1, <3>2, ToldValues, Told DEF TellGameMode
  <2>4. UNCHANGED Occupied
    BY <2>1 DEF Occupied
  <2>5. Phases'
    BY <1>1, <1>2, <2>2, <2>4 DEF Story, Phases
  <2>6. GmTold'
    BY <1>1, <1>2, <1>3, <2>2, <2>3, <2>4 DEF Story, GmTold, GmHeard, GmHeardIn
  <2>7. FsTold'
    BY <1>1, <1>2, <1>3, <2>2, <2>3, <2>4 DEF Story, FsTold, FsHeard, FsHeardIn
  <2>8. QED
    BY <2>5, <2>6, <2>7 DEF Story
<1>4. CASE ~(Top.at = "fs" /\ loaded)
  <2>1. stack' = <<>> /\ UNCHANGED calls /\ slot' = [slot EXCEPT ![p] = NoConn] /\ crashed' = ~loaded
    BY <1>1, <1>2, <1>4, OnlyCall DEF DeleteReturns, FinishDelete
  <2>2. Len(stack)' <= 1 /\ Idle'
    BY <2>1, NoCall
  <2>3. Occupied' = Occupied \ {p}
    <3>1. slot'[p] = NoConn /\ \A q \in Players : q # p => slot'[q] = slot[q]
      BY <2>1, TypeParts DEF SlotsTypeOK
    <3>2. QED
      BY <3>1 DEF Occupied
  <2>4. Phases'
    BY <1>1, <2>2 DEF Story, Phases
  <2>5. Top.at = "gm" \/ ~loaded
    BY <1>1, <1>4, OnlyCall DEF Scripts
  <2>6. GmTold'
    BY <1>1, <1>2, <2>1, <2>2, <2>3, <2>5 DEF Story, GmTold, GmHeard, GmHeardIn
  <2>7. loaded => FsTold'
    BY <1>1, <1>2, <2>1, <2>2, <2>3 DEF Story, FsTold, FsHeard, FsHeardIn
  <2>8. QED
    BY <2>1, <2>4, <2>6, <2>7 DEF Story
<1>5. QED
  BY <1>3, <1>4

\* The next game mode is loaded; the scripts have yet to hear of the players.
LEMMA WorldStory == ASSUME StoryInv, World, UNCHANGED rejoined PROVE Story'
<1> USE DEF StoryInv
<1>1. CASE UNCHANGED <<loaded, stack>>
  BY <1>1, QuietStory DEF World
<1>2. CASE gameState = "restarting" /\ loaded' = TRUE /\ stack' = <<Frame("init", 0, "gm")>>
  <2>1. Len(stack)' <= 1 /\ ~Idle' /\ Top'.op = "init"
    BY <1>2, OneCall, FramesTyped DEF Ops
  <2>2. Idle /\ ~loaded /\ UNCHANGED <<slot, gameState, calls, crashed>> /\ ~crashed
    BY <1>2 DEF World, Story, Phases, Alive
  <2>3. Phases'
    BY <1>2, <2>1, <2>2 DEF Story, Phases
  <2>4. GmTold'
    BY <2>1, <2>2 DEF Story, GmTold, GmHeard, GmHeardIn
  <2>5. FsTold'
    BY <2>1, <2>2 DEF Story, FsTold, FsHeard, FsHeardIn
  <2>6. QED
    BY <2>3, <2>4, <2>5 DEF Story
<1>3. QED
  BY <1>1, <1>2 DEF World

\* The slots a loop has still to visit, and those it has visited.
LEMMA Lowest ==
    ASSUME NEW p \in Nat, NEW q \in Players, NextOccupied(q, p)
    PROVE  /\ q \in Occupied /\ q >= p /\ q \in Nat
           /\ \A r \in Occupied : r \in Nat /\ (r >= p <=> r >= q) /\ (r < p <=> r < q)
<1>1. q \in Occupied /\ q >= p /\ \A r \in Occupied : r >= p => q <= r
  BY DEF NextOccupied, IsLowest
<1>2. \A r \in Occupied : r \in Nat
  BY FramesTyped DEF Occupied
<1>3. QED
  BY <1>1, <1>2

\* DeactivateAll from player p on, who and after whom all have still to be told of.
LEMMA DeactivateStory ==
    ASSUME StoryInv, ~crashed, NEW p \in Nat, DeactivateFrom(p), UNCHANGED <<slot, rejoined>>,
           loaded => /\ gameState = "running"
                     /\ \A q \in Players : /\ q \in GmHeard <=> q \in Occupied /\ q >= p
                                           /\ q \in FsHeard <=> q \in Occupied /\ q >= p,
           ~loaded => Idle
    PROVE  Story'
<1> USE DEF StoryInv
<1>1. UNCHANGED Occupied
  BY DEF Occupied
<1>2. ASSUME NEW q \in Players, NextOccupied(q, p), loaded, stack' = <<Frame("deactivate", q, "gm")>>,
             TellGameMode(q, -1), UNCHANGED crashed, UNCHANGED game
      PROVE  Story'
  <2>1. Len(stack)' <= 1 /\ ~Idle' /\ Top'.op = "deactivate" /\ Top'.player = q /\ Top'.at = "gm"
    BY <1>2, OneCall, FramesTyped DEF Ops
  <2>2. /\ told'["gm"][q] = told["gm"][q] - 1 /\ told'["fs"] = told["fs"] /\ UNCHANGED hushed
        /\ \A r \in Players : r # q => told'["gm"][r] = told["gm"][r]
    <3>1. -1 \in Int /\ told["gm"][q] \in Int
      BY ToldValues
    <3>2. told'["gm"][q] = told["gm"][q] + -1
      BY <1>2, <3>1, ToldValues, Told DEF TellGameMode
    <3>3. QED
      BY <1>2, <3>1, <3>2, ToldValues, Told DEF TellGameMode
  <2>3. UNCHANGED <<loaded, gameState>>
    BY <1>2 DEF game
  <2>4. q \in Occupied /\ q >= p /\ \A r \in Occupied : r \in Nat /\ (r >= p <=> r >= q)
    BY <1>2, Lowest
  <2>5. Phases'
    BY <1>1, <1>2, <2>1, <2>3, <2>4 DEF Story, Phases
  <2>6. \A r \in Players : /\ r \in GmHeard' <=> r \in Occupied /\ r > q
                           /\ r \in FsHeard' <=> r \in Occupied /\ r >= q
    BY <1>1, <1>2, <2>1, <2>3, <2>4, ToldValues DEF GmHeard, GmHeardIn, FsHeard, FsHeardIn
  <2>7. \A r \in Players : /\ r \in GmHeard <=> r \in Occupied /\ r >= q
                           /\ r \in FsHeard <=> r \in Occupied /\ r >= q
    BY <1>2, <2>4
  <2>8. GmTold'
    BY <2>2, <2>4, <2>6, <2>7, ToldValues DEF Story, GmTold
  <2>9. FsTold'
    BY <1>2, <2>2, <2>6, <2>7 DEF Story, FsTold
  <2>10. QED
    BY <2>5, <2>8, <2>9 DEF Story
<1>3. ASSUME ~loaded, crashed' = TRUE, UNCHANGED <<stack, calls>>, UNCHANGED game
      PROVE  Story'
  BY <1>1, <1>3 DEF Story, Phases, GmTold, GmHeard, Idle, Top, game
<1>4. ASSUME \A q \in Occupied : q < p, loaded, stack' = <<Frame("exit", 0, "gm")>>, UNCHANGED game,
             UNCHANGED <<calls, crashed>>
      PROVE  Story'
  <2>1. Len(stack)' <= 1 /\ ~Idle' /\ Top'.op = "exit"
    BY <1>4, OneCall, FramesTyped DEF Ops
  <2>2. \A q \in Players : q \notin GmHeard /\ q \notin FsHeard
    <3>1. \A q \in Occupied : q \in Nat
      BY ToldValues DEF Occupied
    <3>2. QED
      BY <1>4, <3>1
  <2>3. \A q \in Players : q \notin GmHeard' /\ q \notin FsHeard'
    BY <2>1 DEF GmHeard, GmHeardIn, FsHeard, FsHeardIn
  <2>4. Phases'
    BY <1>1, <1>4, <2>1 DEF Story, Phases, game
  <2>5. (GmTold /\ FsTold)'
    BY <1>4, <2>2, <2>3 DEF Story, GmTold, FsTold
  <2>6. QED
    BY <2>4, <2>5 DEF Story
<1>5. ASSUME ~loaded, ShutdownDone, UNCHANGED stack, UNCHANGED <<calls, crashed>>
      PROVE  Story'
  BY <1>5 DEF Story, Phases, GmTold, FsTold, GmHeard, FsHeard, ShutdownDone, Idle
<1>6. QED
  BY <1>2, <1>3, <1>4, <1>5 DEF DeactivateFrom

LEMMA CheckStory == ASSUME StoryInv, Check, UNCHANGED rejoined PROVE Story'
<1> USE DEF StoryInv
<1>1. Idle /\ ~crashed /\ UNCHANGED slot
  BY DEF Check, Alive
<1>2. CASE DeactivateFrom(0)
  <2>1. loaded => gameState = "running" /\ GmHeard = Occupied /\ FsHeard = Occupied
    BY <1>1 DEF Story, Phases, GmHeard, FsHeard
  <2>2. \A q \in Players : q >= 0
    BY ToldValues
  <2>3. QED
    BY <1>1, <1>2, <2>1, <2>2, DeactivateStory
<1>3. CASE UNCHANGED <<gameState, loaded, stack, calls, crashed>>
  BY <1>1, <1>3, QuietStory
<1>4. QED
  BY <1>2, <1>3 DEF Check

LEMMA DeactivateReturnsStory == ASSUME StoryInv, DeactivateReturns, UNCHANGED rejoined PROVE Story'
<1> USE DEF StoryInv
<1>1. /\ ~crashed /\ ~Idle /\ Top.op = "deactivate" /\ Top.player \in Occupied /\ UNCHANGED slot
      /\ loaded /\ gameState = "running" /\ Occupied \subseteq Players
  BY DEF DeactivateReturns, Returns, Alive, Story, Phases, Occupied
<1>2. PICK p \in Players : p = Top.player
  BY <1>1
<1>3. p \in Nat /\ (Top.at = "gm" \/ Top.at = "fs")
  BY <1>1, OnlyCall, ToldValues DEF Scripts
<1>4. CASE Top.at = "gm"
  <2>1. stack' = <<Frame("deactivate", p, "fs")>> /\ TellFilterScripts(p, -1) /\ UNCHANGED <<game, crashed>>
    BY <1>2, <1>4 DEF DeactivateReturns
  <2>2. Len(stack)' <= 1 /\ ~Idle' /\ Top'.op = "deactivate" /\ Top'.player = p /\ Top'.at = "fs"
    BY <2>1, OneCall, FramesTyped DEF Ops
  <2>3. /\ told'["gm"] = told["gm"]
        /\ ~hushed' => /\ ~hushed /\ told'["fs"][p] = told["fs"][p] - 1
                       /\ \A q \in Players : q # p => told'["fs"][q] = told["fs"][q]
    <3>1. -1 \in Int /\ told["fs"][p] \in Int
      BY ToldValues
    <3>2. /\ told'["gm"] = told["gm"]
          /\ ~hushed' => /\ ~hushed /\ told'["fs"][p] = told["fs"][p] + -1
                         /\ \A q \in Players : q # p => told'["fs"][q] = told["fs"][q]
      BY <2>1, <3>1, ToldValues, ToldFilterScripts
    <3>3. QED
      BY <3>1, <3>2
  <2>4. UNCHANGED <<Occupied, loaded, gameState>>
    BY <1>1, <2>1 DEF Occupied, game
  <2>5. Phases'
    BY <1>1, <1>2, <2>2, <2>4 DEF Story, Phases
  <2>6. GmTold'
    BY <1>1, <1>2, <2>2, <2>3, <2>4 DEF Story, GmTold, GmHeard, GmHeardIn
  <2>7. \A q \in Players : /\ q \in FsHeard <=> q \in Occupied /\ q >= p
                           /\ q \in FsHeard' <=> q \in Occupied /\ q > p
    BY <1>1, <1>2, <1>4, <2>2, <2>4, ToldValues DEF FsHeard, FsHeardIn
  <2>8. FsTold'
    BY <1>1, <1>2, <1>3, <2>3, <2>7, ToldValues DEF Story, FsTold
  <2>9. QED
    BY <2>5, <2>6, <2>8 DEF Story
<1>5. CASE Top.at = "fs"
  <2>1. DeactivateFrom(p + 1)
    BY <1>2, <1>5 DEF DeactivateReturns
  <2>2. \A q \in Players : /\ q \in GmHeard <=> q \in Occupied /\ q >= p + 1
                           /\ q \in FsHeard <=> q \in Occupied /\ q >= p + 1
    BY <1>1, <1>2, <1>3, <1>5, ToldValues DEF GmHeard, GmHeardIn, FsHeard, FsHeardIn
  <2>3. p + 1 \in Nat
    BY <1>3
  <2>4. QED
    BY <1>1, <2>1, <2>2, <2>3, DeactivateStory
<1>6. QED
  BY <1>3, <1>4, <1>5

\* The old game mode is gone.
LEMMA ExitReturnsStory == ASSUME StoryInv, ExitReturns, UNCHANGED rejoined PROVE Story'
<1> USE DEF StoryInv
<1>1. ~Idle /\ Top.op = "exit" /\ loaded /\ ~crashed
  BY DEF ExitReturns, Returns, Alive, Story, Phases
<1>2. stack' = <<>> /\ gameState' = "restarting" /\ loaded' = FALSE /\ UNCHANGED <<slot, calls, crashed>>
  BY <1>1, OnlyCall DEF ExitReturns, ShutdownDone
<1>3. Len(stack)' <= 1 /\ Idle'
  BY <1>2, NoCall
<1>4. Phases'
  BY <1>2, <1>3 DEF Phases
<1>5. /\ \A p \in Players \ rejoined : told["gm"][p] = 0
      /\ ~hushed => \A p \in Players : told["fs"][p] >= 0
  BY <1>1 DEF Story, GmTold, GmHeard, GmHeardIn, FsTold, FsHeard, FsHeardIn
<1>6. (GmTold /\ FsTold)'
  BY <1>2, <1>5 DEF GmTold, GmHeard, FsTold, FsHeard
<1>7. QED
  BY <1>4, <1>6 DEF Story

\* The loop of ReInitWhenRestarting from player p on, all before whom have been announced.
LEMMA RejoinStory ==
    ASSUME StoryInv, ~Idle, loaded, NEW p \in Nat, RejoinFrom(p), UNCHANGED <<slot, loaded, crashed, rejoined>>,
           gameState' = "running",
           \A q \in Players : /\ q \in GmHeard <=> q \in Occupied /\ q < p
                              /\ q \in FsHeard <=> q \in Occupied /\ q < p
    PROVE  Story'
<1> USE DEF StoryInv
<1>1. UNCHANGED Occupied
  BY DEF Occupied
<1>2. ASSUME NEW q \in Players, NextOccupied(q, p), stack' = <<Frame("rejoin", q, "fs")>> \o Below,
             TellFilterScripts(q, 1)
      PROVE  Story'
  <2>1. stack' = <<Frame("rejoin", q, "fs")>>
    BY <1>2, OnlyCall, FramesTyped DEF Ops
  <2>2. Len(stack)' <= 1 /\ ~Idle' /\ Top'.op = "rejoin" /\ Top'.player = q /\ Top'.at = "fs"
    BY <2>1, OneCall, FramesTyped DEF Ops
  <2>3. /\ told'["gm"] = told["gm"]
        /\ ~hushed' => /\ ~hushed /\ told'["fs"][q] = told["fs"][q] + 1
                       /\ \A r \in Players : r # q => told'["fs"][r] = told["fs"][r]
    BY <1>2, ToldValues, ToldFilterScripts
  <2>4. q \in Occupied /\ q \in Nat /\ \A r \in Occupied : r \in Nat /\ (r < p <=> r < q)
    BY <1>2, Lowest
  <2>5. Phases'
    BY <1>1, <2>2, <2>4 DEF Story, Phases
  <2>6. \A r \in Players : /\ r \in GmHeard' <=> r \in Occupied /\ r < q
                           /\ r \in FsHeard' <=> r \in Occupied /\ r <= q
    BY <1>1, <2>2, <2>4, ToldValues DEF GmHeard, GmHeardIn, FsHeard, FsHeardIn
  <2>7. \A r \in Players : /\ r \in GmHeard <=> r \in Occupied /\ r < q
                           /\ r \in FsHeard <=> r \in Occupied /\ r < q
    BY <2>4
  <2>8. GmTold'
    BY <2>3, <2>6, <2>7 DEF Story, GmTold
  <2>9. ~crashed => FsTold'
    BY <2>3, <2>4, <2>6, <2>7, ToldValues DEF Story, FsTold
  <2>10. QED
    BY <2>5, <2>8, <2>9 DEF Story
<1>3. ASSUME \A q \in Occupied : q < p, stack' = Below, UNCHANGED calls
      PROVE  Story'
  <2>1. Len(stack)' <= 1 /\ Idle'
    BY <1>3, OnlyCall, NoCall
  <2>2. Phases'
    BY <2>1 DEF Phases
  <2>3. \A q \in Players : /\ q \in GmHeard <=> q \in GmHeard'
                           /\ q \in FsHeard <=> q \in FsHeard'
    BY <1>1, <1>3, <2>1 DEF GmHeard, FsHeard
  <2>4. GmTold' /\ (~crashed => FsTold')
    BY <1>3, <2>3 DEF Story, GmTold, FsTold
  <2>5. QED
    BY <2>2, <2>4 DEF Story
<1>4. QED
  BY <1>2, <1>3 DEF RejoinFrom

LEMMA InitReturnsStory == ASSUME StoryInv, InitReturns, UNCHANGED rejoined PROVE Story'
<1> USE DEF StoryInv
<1>1. /\ ~Idle /\ Top.op = "init" /\ loaded /\ RejoinFrom(0) /\ gameState' = "running"
      /\ UNCHANGED <<slot, loaded, crashed>>
  BY DEF InitReturns, Returns, Story, Phases
<1>2. \A q \in Players : q \notin GmHeard /\ q \notin FsHeard /\ ~(q < 0)
  BY <1>1, ToldValues DEF GmHeard, GmHeardIn, FsHeard, FsHeardIn
<1>3. QED
  BY <1>1, <1>2, RejoinStory

LEMMA RejoinReturnsStory == ASSUME StoryInv, RejoinReturns, UNCHANGED rejoined PROVE Story'
<1> USE DEF StoryInv
<1>1. /\ ~crashed /\ ~Idle /\ Top.op = "rejoin" /\ Top.player \in Occupied
      /\ UNCHANGED <<slot, loaded, gameState, crashed>>
      /\ loaded /\ gameState = "running" /\ Occupied \subseteq Players
  BY DEF RejoinReturns, Returns, Alive, Story, Phases, Occupied, game
<1>2. PICK p \in Players : p = Top.player
  BY <1>1
<1>3. p \in Nat /\ (Top.at = "gm" \/ Top.at = "fs")
  BY <1>1, OnlyCall, ToldValues DEF Scripts
<1>4. CASE Top.at = "fs"
  <2>1. stack' = <<Frame("rejoin", p, "gm")>> /\ TellGameMode(p, 1)
    BY <1>1, <1>2, <1>4, OnlyCall, FramesTyped DEF RejoinReturns, Ops
  <2>2. Len(stack)' <= 1 /\ ~Idle' /\ Top'.op = "rejoin" /\ Top'.player = p /\ Top'.at = "gm"
    BY <2>1, OneCall, FramesTyped DEF Ops
  <2>3. /\ told'["gm"][p] = told["gm"][p] + 1 /\ told'["fs"] = told["fs"] /\ UNCHANGED hushed
        /\ \A q \in Players : q # p => told'["gm"][q] = told["gm"][q]
    BY <2>1, ToldValues, Told DEF TellGameMode
  <2>4. UNCHANGED Occupied
    BY <1>1 DEF Occupied
  <2>5. Phases'
    BY <1>1, <1>2, <2>2, <2>4 DEF Story, Phases
  <2>6. \A q \in Players : /\ q \in GmHeard <=> q \in Occupied /\ q < p
                           /\ q \in GmHeard' <=> q \in Occupied /\ q <= p
                           /\ q \in FsHeard <=> q \in FsHeard'
    BY <1>1, <1>2, <1>3, <1>4, <2>2, <2>4, ToldValues DEF GmHeard, GmHeardIn, FsHeard, FsHeardIn
  <2>7. GmTold'
    BY <1>1, <1>2, <1>3, <2>3, <2>6, ToldValues DEF Story, GmTold
  <2>8. FsTold'
    BY <1>1, <2>3, <2>6 DEF Story, FsTold
  <2>9. QED
    BY <2>5, <2>7, <2>8 DEF Story
<1>5. CASE Top.at = "gm"
  <2>1. RejoinFrom(p + 1)
    BY <1>2, <1>5 DEF RejoinReturns
  <2>2. \A q \in Players : /\ q \in GmHeard <=> q \in Occupied /\ q < p + 1
                           /\ q \in FsHeard <=> q \in Occupied /\ q < p + 1
    BY <1>1, <1>2, <1>3, <1>5, ToldValues DEF GmHeard, GmHeardIn, FsHeard, FsHeardIn
  <2>3. p + 1 \in Nat
    BY <1>3
  <2>4. QED
    BY <1>1, <2>1, <2>2, <2>3, RejoinStory
<1>6. QED
  BY <1>3, <1>4, <1>5
LEMMA StoryKept ==
    ASSUME StoryInv, [Next]_vars, ~meddled'
    PROVE  Story'
<1> USE DEF StoryInv
<1>1. ASSUME HandleJoin PROVE Story'
  <2> PICK h : h = Head(queue)
    OBVIOUS
  <2>1. h.conn \in Conns /\ UNCHANGED <<game, crashed>>
    BY <1>1, Received, TypeParts DEF HandleJoin
  <2>2. CASE \E p \in Players : JoinsAt(h.conn, p)
    BY <2>1, <2>2, JoinStory
  <2>3. CASE UNCHANGED <<slot, stack, calls, rejoined>>
    BY <2>1, <2>3, QuietStory DEF game
  <2>4. QED
    BY <1>1, <2>2, <2>3 DEF HandleJoin, JoinsAt
<1>2. ASSUME HandleGone, UNCHANGED rejoined PROVE Story'
  <2> PICK h : h = Head(queue)
    OBVIOUS
  <2>1. Idle /\ ~crashed /\ h.index \in Players
    BY <1>2, Received, TypeParts DEF HandleGone, Receiving, Alive
  <2>2. CASE BeginDelete(h.index)
    BY <1>2, <2>1, <2>2, BeginDeleteStory
  <2>3. CASE UNCHANGED <<slot, game, stack, calls, crashed>>
    BY <1>2, <2>3, QuietStory DEF game
  <2>4. QED
    BY <1>2, <2>2, <2>3 DEF HandleGone
<1>3. ASSUME HandleLogin \/ RequestRestart, UNCHANGED rejoined PROVE Story'
  BY <1>3, QuietStory DEF HandleLogin, RequestRestart, game
<1>4. ASSUME NEW p \in Players, KickPlayer(p) PROVE Story'
  BY <1>4, BeginDeleteStory DEF KickPlayer, Alive
<1>5. ASSUME NetworkThread \/ UNCHANGED vars PROVE Story'
  <2>1. UNCHANGED serverThread
    BY <1>5, NetworkThreadKeeps DEF serverThread, vars
  <2>2. QED
    BY <2>1, QuietStory DEF serverThread, game
<1>6. ASSUME MainLoop PROVE Story'
  BY <1>1, <1>2, <1>3, <1>6, WorldStory, CheckStory DEF MainLoop
<1>7. ASSUME CallbackReturns PROVE Story'
  BY <1>7, NewReturnsStory, DeleteReturnsStory, InitReturnsStory, RejoinReturnsStory,
     DeactivateReturnsStory, ExitReturnsStory DEF CallbackReturns
<1>8. QED
  BY <1>3, <1>4, <1>5, <1>6, <1>7 DEF Next, RequestRestart

\* Once a script has kicked from inside a callback, it has.
LEMMA MeddledForGood == ASSUME TypeOK, [Next]_vars, ~meddled' PROVE ~meddled
<1>1. ASSUME NEW p \in Players, KickPlayer(p) PROVE ~meddled
  BY <1>1 DEF KickPlayer
<1>2. ASSUME NetworkThread PROVE UNCHANGED meddled
  BY <1>2, NetworkThreadKeeps DEF serverThread
<1>3. QED
  BY <1>1, <1>2 DEF Next, MainLoop, CallbackReturns, RequestRestart, vars

-----------------------------------------------------------------------------
LEMMA InvInit == Init => Inv
<1> SUFFICES ASSUME Init PROVE Inv
  OBVIOUS
<1> USE DEF Init
<1>1. stack = <<>> /\ queue = <<>> /\ <<>> \in Seq(Frames) /\ <<>> \in Seq(Messages)
      /\ Len(<<>>) = 0 /\ DOMAIN <<>> = {}
  OBVIOUS
<1>2. /\ \A c \in Conns : link[c] = "new" /\ sent[c] = 0
      /\ \A p \in Players : remote[p] = NoConn /\ slot[p] = NoConn /\ admin[p] = NoConn
      /\ \A s \in Scripts, p \in Players : told[s][p] = 0
  OBVIOUS
<1>3. TypeOK
  <2>1. NetworkTypeOK /\ SlotsTypeOK /\ StackTypeOK
    BY <1>1, BoundsAssumption DEF NetworkTypeOK, SlotsTypeOK, StackTypeOK
  <2>2. GameTypeOK /\ ToldTypeOK
    BY BoundsAssumption DEF GameTypeOK, ToldTypeOK
  <2>3. FlagsTypeOK
    BY Zenon DEF FlagsTypeOK
  <2>4. QED
    BY <2>1, <2>2, <2>3, TypeParts
<1>4. Bottom
  BY <1>1 DEF Bottom, AtBottom
<1>5. Occupied = {}
  BY <1>2 DEF Occupied
<1>6. Network
  BY <1>2 DEF Network
<1>7. Sessions
  BY <1>1, <1>2, <1>5, <1>6 DEF Sessions, News, EndFirst, SlotBacked, AdminIsPlayer, NicknamesUnique
<1>8. Phases
  BY <1>1 DEF Phases, Idle
<1>9. GmTold /\ FsTold
  BY <1>2, <1>5, FramesTyped DEF GmTold, FsTold, GmHeard, FsHeard
<1>10. QED
  BY <1>3, <1>4, <1>7, <1>8, <1>9 DEF Inv

LEMMA InvNext == Inv /\ [Next]_vars => Inv'
<1> SUFFICES ASSUME Inv, [Next]_vars PROVE Inv'
  OBVIOUS
<1>1. TypeOK /\ Bottom /\ Sessions
  BY DEF Inv
<1>2. TypeOK' /\ Bottom' /\ Sessions'
  BY <1>1, TypesKept, SessionsKept
<1>3. ~meddled' => Story'
  BY <1>1, StoryKept, MeddledForGood DEF Inv, StoryInv, Story
<1>4. QED
  BY <1>2, <1>3 DEF Inv, Story

THEOREM Invariance == Spec => []Inv
BY InvInit, InvNext, PTL DEF Spec

(***************************************************************************)
(* Every variable keeps its type; no restart waits past its time, and no   *)
(* call is ever made for a slot that does not exist.                       *)
(***************************************************************************)
THEOREM TypeCorrect == Spec => []TypeOK
<1>1. Inv => TypeOK
  BY DEF Inv
<1>2. QED
  BY <1>1, Invariance, PTL

(***************************************************************************)
(* A slot's connection has the index of that number, or the news that it   *)
(* is gone is in the queue, or the player is being deleted.                *)
(***************************************************************************)
THEOREM NoSlotForgotten == Spec => []SlotBacked
<1>1. Inv => SlotBacked
  BY DEF Inv, Sessions
<1>2. QED
  BY <1>1, Invariance, PTL

(***************************************************************************)
(* CPlayerPool::New, which does not look whether the slot it fills is free,*)
(* never takes it from another player: it fills a free slot, or the slot   *)
(* of the very connection that joins, once more.                           *)
(***************************************************************************)
THEOREM NoPlayerReplaced == Spec => SlotNotTakenOver
<1>1. Inv /\ [Next]_vars => [\A p \in Players : NoConn \in {slot[p], slot'[p]} \/ slot'[p] = slot[p]]_vars
  BY SessionsKept DEF Inv
<1>2. QED
  BY <1>1, Invariance, PTL DEF Spec, SlotNotTakenOver

(***************************************************************************)
(* An administrator's slot is of the connection that gave the password.    *)
(***************************************************************************)
THEOREM NoRightsInherited == Spec => []AdminIsPlayer
<1>1. Inv => AdminIsPlayer
  BY DEF Inv, Sessions
<1>2. QED
  BY <1>1, Invariance, PTL

(***************************************************************************)
(* No two players have one nickname.                                       *)
(***************************************************************************)
THEOREM NoNicknameTwice == Spec => []NicknamesUnique
<1>1. Inv => NicknamesUnique
  BY DEF Inv, Sessions
<1>2. QED
  BY <1>1, Invariance, PTL

(***************************************************************************)
(* The game mode hears of a player's arrival and departure in turn, if     *)
(* scripts do not kick from inside callbacks and nobody has joined again   *)
(* with that id.                                                           *)
(***************************************************************************)
THEOREM ArrivalsAndDeparturesInTurn == Spec => []GameModeToldInTurn
<1>1. Inv => GameModeToldInTurn
  BY DEF Inv, GmTold, GameModeToldInTurn
<1>2. QED
  BY <1>1, Invariance, PTL

(***************************************************************************)
(* Between two calls the running game mode has been told of exactly the    *)
(* players on the server, and it is unloaded believing that nobody is      *)
(* left, with the same exceptions.                                         *)
(***************************************************************************)
THEOREM GameModeUpToDate == Spec => []GameModeKnowsPlayers
<1>1. ASSUME Inv PROVE GameModeKnowsPlayers
  <2>1. ASSUME ~meddled, Idle, gameState = "running", NEW p \in Players \ rejoined
        PROVE  told["gm"][p] = IF p \in Occupied THEN 1 ELSE 0
    BY <1>1, <2>1 DEF Inv, Phases, GmTold, GmHeard
  <2>2. ASSUME ~meddled, (~Idle /\ Top.op = "exit") \/ ~loaded, NEW p \in Players \ rejoined
        PROVE  told["gm"][p] = 0
    BY <1>1, <2>2 DEF Inv, Phases, GmTold, GmHeard, GmHeardIn
  <2>3. QED
    BY <2>1, <2>2 DEF GameModeKnowsPlayers
<1>2. QED
  BY <1>1, Invariance, PTL

(***************************************************************************)
(* Between two calls a filter script has been told of no more departures   *)
(* than arrivals and, while the game runs, of every player, if none of the *)
(* scripts before it has ended such a call, and none has kicked from       *)
(* inside one.                                                             *)
(***************************************************************************)
THEOREM FilterScriptsUpToDate == Spec => []FilterScriptsKnowPlayers
<1>1. ASSUME Inv PROVE FilterScriptsKnowPlayers
  <2>1. ASSUME Idle, ~crashed, ~meddled, ~hushed, NEW p \in Players
        PROVE  told["fs"][p] >= 0 /\ (p \in Occupied /\ gameState = "running" => told["fs"][p] >= 1)
    <3>1. told["fs"][p] >= IF p \in FsHeard THEN 1 ELSE 0
      BY <1>1, <2>1 DEF Inv, FsTold
    <3>2. told["fs"][p] \in Int
      BY <1>1, FramesTyped, TypeParts DEF Inv, ToldTypeOK
    <3>3. p \in Occupied /\ gameState = "running" => p \in FsHeard
      BY <1>1, <2>1 DEF Inv, Phases, FsHeard
    <3>4. QED
      BY <3>1, <3>2, <3>3
  <2>2. QED
    BY <2>1 DEF FilterScriptsKnowPlayers
<1>2. QED
  BY <1>1, Invariance, PTL
=============================================================================
