--------------------------- MODULE PlayerSyncProofs ---------------------------
(***************************************************************************)
(* Proofs about PlayerSync, for any seats and any number of lives, and of  *)
(* packets and calls under way.                                            *)
(*                                                                         *)
(* That the dead are not brought back to life rests on what is on its way  *)
(* to the server.  The client never says anything of an older life after   *)
(* something of a newer one, nor anything of a life after its death; and   *)
(* what the server has not yet discarded is of no life it has buried.      *)
(***************************************************************************)
EXTENDS PlayerSync, SequenceTheorems, TLAPS

Kinds == {"spawn", "death"} \cup Doors \cup Places

(* Packets are in the order of their lives, and a death is the last of its. *)
InOrder(s) ==
    \A i, j \in DOMAIN s : i < j =>
        /\ s[i].life <= s[j].life
        /\ s[i].kind = "death" => s[i].life < s[j].life

Between(s, low, high) == \A i \in DOMAIN s : low < s[i].life /\ s[i].life <= high

(* Nobody has said that this life, or a later one, is over. *)
NotOver(s, life) == \A i \in DOMAIN s : s[i].kind = "death" => s[i].life < life

Traffic ==
    /\ lives \in 0..MaxLives
    /\ buried \in 0..lives
    /\ up \in Seq(Packet) /\ Len(up) <= MaxFlight
    /\ InOrder(up)
    /\ Between(up, buried, lives)
    /\ alive => buried < lives /\ NotOver(up, lives)

Typing ==
    /\ {alive, watching, watchUp, anims, spoilt} \subseteq BOOLEAN
    /\ place \in Places
    /\ state \in States /\ seen \in States
    /\ update \in Places \cup {"none"} /\ syncDown \in Places \cup {"none"}
    /\ announced \in 0..MaxLives
    /\ told \in [Calls -> Nat] /\ doors \in Seq(Doors)
    /\ ped \in {"none", "alive", "dead", "freed"}

Inv == Typing /\ Traffic

LEMMA InvIsTyped == Inv => TypeOK
BY Zenon DEF Inv, Typing, Traffic, TypeOK

(* What is under way to the server is a part of all that is under way. *)
LEMMA PartInFlight == Inv => Len(up) <= InFlight /\ InFlight \in Nat
<1> SUFFICES ASSUME Inv PROVE Len(up) <= InFlight /\ InFlight \in Nat
  OBVIOUS
<1>1. told \in [Calls -> Nat] /\ Len(up) \in Nat /\ Len(doors) \in Nat
  BY DEF Inv, Typing, Traffic
<1>2. told["spawn"] \in Nat /\ told["death"] \in Nat /\ told["watch"] \in Nat
  BY <1>1 DEF Calls
<1>3. (IF watchUp THEN 1 ELSE 0) \in Nat
  OBVIOUS
<1> DEFINE w == IF watchUp THEN 1 ELSE 0
<1>4. InFlight = Len(up) + w + told["spawn"] + told["death"] + told["watch"] + Len(doors)
  BY DEF InFlight
<1> HIDE DEF w
<1>5. w \in Nat
  BY <1>3 DEF w
<1>6. QED
  BY <1>1, <1>2, <1>4, <1>5

(* Calls made and calls heard. *)
LEMMA CallsTyped ==
    ASSUME told \in [Calls -> Nat], NEW call \in Calls
    PROVE  /\ Tell(call) => told' \in [Calls -> Nat]
           /\ Hear(call) => told' \in [Calls -> Nat]
<1>1. told[call] \in Nat
  OBVIOUS
<1>2. Tell(call) => told' \in [Calls -> Nat]
  BY <1>1 DEF Tell
<1>3. told[call] > 0 => told[call] - 1 \in Nat
  BY <1>1
<1>4. Hear(call) => told' \in [Calls -> Nat]
  BY <1>3 DEF Hear
<1>5. QED
  BY <1>2, <1>4

-----------------------------------------------------------------------------
(* Sequences of packets. *)

LEMMA PacketsTyped ==
    ASSUME NEW s \in Seq(Packet)
    PROVE  /\ DOMAIN s = 1 .. Len(s) /\ Len(s) \in Nat
           /\ \A i \in 1 .. Len(s) : s[i].life \in Nat /\ s[i].kind \in Kinds
<1>1. DOMAIN s = 1 .. Len(s) /\ Len(s) \in Nat
  OBVIOUS
<1>2. \A i \in 1 .. Len(s) : s[i] \in Packet
  BY <1>1
<1>3. QED
  BY <1>1, <1>2, BoundsAssumption DEF Packet, Kinds

(* A packet of a life that is not over, and not of an older one than those *)
(* before it, may be sent after them.                                      *)
LEMMA SaidInOrder ==
    ASSUME NEW s \in Seq(Packet), NEW k \in Kinds, NEW l \in 0..MaxLives, NEW low \in Nat,
           InOrder(s), Between(s, low, l), NotOver(s, l), low < l
    PROVE  LET t == s \o Say(k, l)
           IN  /\ t \in Seq(Packet) /\ Len(t) = Len(s) + 1
               /\ InOrder(t)
               /\ Between(t, low, l)
               /\ k # "death" => NotOver(t, l)
<1> DEFINE p == [kind |-> k, life |-> l]
           t == s \o Say(k, l)
<1>1. p \in Packet /\ p.life = l /\ p.kind = k /\ l \in Nat
  BY BoundsAssumption DEF Packet, Kinds
<1>2. t = Append(s, p)
  BY <1>1, AppendIsConcat DEF Say
<1>3. /\ t \in Seq(Packet)
      /\ Len(t) = Len(s) + 1
      /\ \A i \in 1 .. Len(s) : t[i] = s[i]
      /\ t[Len(s) + 1] = p
  BY <1>1, <1>2, AppendProperties
<1>4. /\ DOMAIN s = 1 .. Len(s) /\ Len(s) \in Nat
      /\ DOMAIN t = 1 .. Len(s) + 1
      /\ \A i \in 1 .. Len(s) : s[i].life \in Nat
  BY <1>3, PacketsTyped
<1> HIDE DEF p, t
<1>5. ASSUME NEW i \in DOMAIN t, NEW j \in DOMAIN t, i < j
      PROVE  t[i].life <= t[j].life /\ (t[i].kind = "death" => t[i].life < t[j].life)
  <2>1. i \in 1 .. Len(s) /\ t[i] = s[i]
    BY <1>3, <1>4, <1>5
  <2>2. CASE j = Len(s) + 1
    BY <2>1, <2>2, <1>1, <1>3, <1>4 DEF Between, NotOver
  <2>3. CASE j # Len(s) + 1
    BY <2>1, <2>3, <1>3, <1>4, <1>5 DEF InOrder
  <2>4. QED
    BY <2>2, <2>3
<1>6. ASSUME NEW i \in DOMAIN t
      PROVE  low < t[i].life /\ t[i].life <= l
  BY <1>1, <1>3, <1>4 DEF Between
<1>7. ASSUME NEW i \in DOMAIN t, k # "death", t[i].kind = "death"
      PROVE  t[i].life < l
  BY <1>1, <1>3, <1>4, <1>7 DEF NotOver
<1>8. InOrder(t) /\ Between(t, low, l) /\ (k # "death" => NotOver(t, l))
  BY <1>5, <1>6, <1>7 DEF InOrder, Between, NotOver
<1>9. QED
  BY <1>3, <1>8 DEF t

(* What is left of packets in order is in order. *)
LEMMA LeftInOrder ==
    ASSUME NEW s \in Seq(Packet), NEW t \in Seq(Packet), NEW low, NEW high,
           InOrder(s), Between(s, low, high),
           NEW f \in [DOMAIN t -> DOMAIN s],
           \A j, k \in DOMAIN t : j < k => f[j] < f[k],
           \A j \in DOMAIN t : t[j] = s[f[j]]
    PROVE  InOrder(t) /\ Between(t, low, high) /\ \A l : NotOver(s, l) => NotOver(t, l)
<1>1. InOrder(t)
  <2> SUFFICES ASSUME NEW j \in DOMAIN t, NEW k \in DOMAIN t, j < k
               PROVE  t[j].life <= t[k].life /\ (t[j].kind = "death" => t[j].life < t[k].life)
    BY DEF InOrder
  <2>1. f[j] \in DOMAIN s /\ f[k] \in DOMAIN s /\ f[j] < f[k] /\ t[j] = s[f[j]] /\ t[k] = s[f[k]]
    OBVIOUS
  <2>2. QED
    BY <2>1 DEF InOrder
<1>2. ASSUME NEW j \in DOMAIN t
      PROVE  /\ low < t[j].life /\ t[j].life <= high
             /\ \A l : NotOver(s, l) /\ t[j].kind = "death" => t[j].life < l
  <2>1. f[j] \in DOMAIN s /\ t[j] = s[f[j]]
    OBVIOUS
  <2>2. QED
    BY <2>1 DEF Between, NotOver
<1>3. QED
  BY <1>1, <1>2 DEF Between, NotOver

(* The packets after one that has arrived. *)
LEMMA LaterInOrder ==
    ASSUME NEW s \in Seq(Packet), NEW i \in DOMAIN s, NEW low, NEW high,
           InOrder(s), Between(s, low, high)
    PROVE  LET t == SubSeq(s, i + 1, Len(s))
           IN  /\ t \in Seq(Packet) /\ Len(t) <= Len(s)
               /\ InOrder(t)
               /\ Between(t, low, high)
               /\ s[i].kind = "death" => Between(t, s[i].life, high)
               /\ \A l : NotOver(s, l) => NotOver(t, l)
<1> DEFINE t == SubSeq(s, i + 1, Len(s))
           f == [j \in DOMAIN t |-> j + i]
<1>1. DOMAIN s = 1 .. Len(s) /\ Len(s) \in Nat /\ \A j \in 1 .. Len(s) : s[j] \in Packet
  OBVIOUS
<1>2. /\ t \in Seq(Packet)
      /\ Len(t) = Len(s) - i
      /\ \A j \in 1 .. Len(s) - i : t[j] = s[j + i]
  <2>1. \A j \in i + 1 .. Len(s) : s[j] \in Packet
    BY <1>1
  <2>2. /\ t \in Seq(Packet)
        /\ Len(t) = IF i + 1 <= Len(s) THEN Len(s) - (i + 1) + 1 ELSE 0
        /\ \A j \in 1 .. Len(s) - (i + 1) + 1 : t[j] = s[i + 1 + j - 1]
    BY <2>1, <1>1, SubSeqProperties
  <2>3. QED
    BY <2>2, <1>1
<1> HIDE DEF t
<1>3. DOMAIN t = 1 .. Len(s) - i
  BY <1>1, <1>2
<1>4. /\ f \in [DOMAIN t -> DOMAIN s]
      /\ \A j, k \in DOMAIN t : j < k => f[j] < f[k]
      /\ \A j \in DOMAIN t : t[j] = s[f[j]]
  BY <1>1, <1>2, <1>3
<1>5. InOrder(t) /\ Between(t, low, high) /\ \A l : NotOver(s, l) => NotOver(t, l)
  <2> HIDE DEF f
  <2>1. QED
    BY <1>2, <1>4, LeftInOrder
<1>6. ASSUME s[i].kind = "death", NEW j \in DOMAIN t PROVE s[i].life < t[j].life
  <2>1. j + i \in DOMAIN s /\ i < j + i /\ t[j] = s[j + i]
    BY <1>1, <1>2, <1>3, <1>4
  <2>2. QED
    BY <1>6, <2>1 DEF InOrder
<1>7. Len(t) <= Len(s)
  BY <1>1, <1>2
<1>8. s[i].kind = "death" => Between(t, s[i].life, high)
  BY <1>5, <1>6 DEF Between
<1>9. QED
  BY <1>2, <1>5, <1>7, <1>8 DEF t

(* The packets without one that is lost. *)
LEMMA OthersInOrder ==
    ASSUME NEW s \in Seq(Packet), NEW i \in DOMAIN s, NEW low, NEW high,
           InOrder(s), Between(s, low, high)
    PROVE  LET t == SubSeq(s, 1, i - 1) \o SubSeq(s, i + 1, Len(s))
           IN  /\ t \in Seq(Packet) /\ Len(t) <= Len(s)
               /\ InOrder(t)
               /\ Between(t, low, high)
               /\ \A l : NotOver(s, l) => NotOver(t, l)
<1> DEFINE a == SubSeq(s, 1, i - 1)
           b == SubSeq(s, i + 1, Len(s))
           t == a \o b
           f == [j \in DOMAIN t |-> IF j < i THEN j ELSE j + 1]
<1>1. DOMAIN s = 1 .. Len(s) /\ Len(s) \in Nat /\ \A j \in 1 .. Len(s) : s[j] \in Packet
  OBVIOUS
<1>2. a \in Seq(Packet) /\ Len(a) = i - 1 /\ \A j \in 1 .. i - 1 : a[j] = s[j]
  <2>1. \A j \in 1 .. i - 1 : s[j] \in Packet
    BY <1>1
  <2>2. /\ a \in Seq(Packet)
        /\ Len(a) = IF 1 <= i - 1 THEN (i - 1) - 1 + 1 ELSE 0
        /\ \A j \in 1 .. (i - 1) - 1 + 1 : a[j] = s[1 + j - 1]
    BY <2>1, <1>1, SubSeqProperties
  <2>3. QED
    BY <2>2, <1>1
<1>3. b \in Seq(Packet) /\ Len(b) = Len(s) - i /\ \A j \in 1 .. Len(s) - i : b[j] = s[j + i]
  <2>1. \A j \in i + 1 .. Len(s) : s[j] \in Packet
    BY <1>1
  <2>2. /\ b \in Seq(Packet)
        /\ Len(b) = IF i + 1 <= Len(s) THEN Len(s) - (i + 1) + 1 ELSE 0
        /\ \A j \in 1 .. Len(s) - (i + 1) + 1 : b[j] = s[i + 1 + j - 1]
    BY <2>1, <1>1, SubSeqProperties
  <2>3. QED
    BY <2>2, <1>1
<1> HIDE DEF a, b
<1>4. /\ t \in Seq(Packet)
      /\ Len(t) = Len(s) - 1
      /\ \A j \in 1 .. Len(s) - 1 : t[j] = IF j < i THEN s[j] ELSE s[j + 1]
  <2>1. /\ t \in Seq(Packet)
        /\ Len(t) = Len(a) + Len(b)
        /\ \A j \in 1 .. Len(a) + Len(b) : t[j] = IF j <= Len(a) THEN a[j] ELSE b[j - Len(a)]
    BY <1>2, <1>3, ConcatProperties
  <2>2. Len(a) + Len(b) = Len(s) - 1
    BY <1>1, <1>2, <1>3
  <2> HIDE DEF t
  <2>3. ASSUME NEW j \in 1 .. Len(s) - 1 PROVE t[j] = IF j < i THEN s[j] ELSE s[j + 1]
    <3>1. CASE j < i
      BY <3>1, <2>1, <2>2, <1>1, <1>2
    <3>2. CASE ~(j < i)
      <4>1. j - (i - 1) \in 1 .. Len(s) - i /\ j - (i - 1) + i = j + 1 /\ ~(j <= i - 1)
        BY <3>2, <1>1
      <4>2. QED
        BY <4>1, <3>2, <2>1, <2>2, <1>2, <1>3
    <3>3. QED
      BY <3>1, <3>2
  <2>4. QED
    BY <2>1, <2>2, <2>3
<1> HIDE DEF t
<1>5. DOMAIN t = 1 .. Len(s) - 1
  BY <1>1, <1>4
<1>6. /\ f \in [DOMAIN t -> DOMAIN s]
      /\ \A j, k \in DOMAIN t : j < k => f[j] < f[k]
      /\ \A j \in DOMAIN t : t[j] = s[f[j]]
  BY <1>1, <1>4, <1>5
<1>7. InOrder(t) /\ Between(t, low, high) /\ \A l : NotOver(s, l) => NotOver(t, l)
  <2> HIDE DEF f
  <2>1. QED
    BY <1>4, <1>6, LeftInOrder
<1>8. QED
  BY <1>1, <1>4, <1>7 DEF t, a, b

-----------------------------------------------------------------------------
(***************************************************************************)
(* The steps.  SentKeeps and ArrivalKeeps are about what is on its way;    *)
(* each action adds what it does to the rest.                              *)
(***************************************************************************)
LEMMA InvInit == Init => Inv
<1> SUFFICES ASSUME Init PROVE Inv
  OBVIOUS
<1>1. up = <<>> /\ DOMAIN up = {} /\ up \in Seq(Packet) /\ Len(up) = 0
  BY DEF Init
<1>2. Typing
  <2>1. told \in [Calls -> Nat] /\ doors \in Seq(Doors) /\ announced \in 0..MaxLives
    BY BoundsAssumption DEF Init
  <2>2. QED
    BY <2>1, Zenon DEF Init, Typing, Places, States
<1>3. lives \in 0..MaxLives /\ buried \in 0..lives /\ Len(up) <= MaxFlight /\ ~alive
  BY <1>1, BoundsAssumption DEF Init
<1>4. InOrder(up) /\ Between(up, buried, lives)
  BY <1>1 DEF InOrder, Between
<1>5. QED
  BY <1>1, <1>2, <1>3, <1>4 DEF Inv, Traffic

(* A packet of the life that is played: a sync, a door or its death. *)
LEMMA SentKeeps ==
    ASSUME Traffic, alive, NEW k \in Kinds, up' = up \o Say(k, lives), Len(up') <= MaxFlight,
           UNCHANGED <<lives, buried>>, alive' => k # "death"
    PROVE  Traffic'
<1>1. lives \in 0..MaxLives /\ buried \in Nat /\ buried < lives
  BY BoundsAssumption DEF Traffic
<1>2. /\ up' \in Seq(Packet)
      /\ InOrder(up')
      /\ Between(up', buried, lives)
      /\ k # "death" => NotOver(up', lives)
  BY <1>1, SaidInOrder DEF Traffic
<1>3. QED
  BY <1>2, <1>1 DEF Traffic

(* A new life. *)
LEMMA SpawnInOrder ==
    ASSUME Traffic, lives < MaxLives
    PROVE  LET t == up \o Say("spawn", lives + 1)
           IN  /\ t \in Seq(Packet) /\ Len(t) = Len(up) + 1
               /\ InOrder(t)
               /\ Between(t, buried, lives + 1)
               /\ NotOver(t, lives + 1)
<1>1. lives + 1 \in 0..MaxLives /\ buried \in Nat /\ buried < lives + 1 /\ lives \in Nat
  BY BoundsAssumption DEF Traffic
<1>2. up \in Seq(Packet) /\ InOrder(up)
  BY DEF Traffic
<1>3. \A i \in DOMAIN up : up[i].life \in Nat /\ up[i].life <= lives /\ buried < up[i].life
  BY <1>2, PacketsTyped DEF Traffic, Between
<1>4. Between(up, buried, lives + 1) /\ NotOver(up, lives + 1)
  BY <1>1, <1>3 DEF Between, NotOver
<1>5. "spawn" \in Kinds
  BY DEF Kinds
<1>6. QED
  BY <1>1, <1>2, <1>4, <1>5, SaidInOrder

LEMMA SpawnKeeps ==
    ASSUME Inv, SpawnAnd(<<>>), alive' = TRUE, watching' \in BOOLEAN
    PROVE  Inv'
<1>1. /\ lives < MaxLives /\ lives' = lives + 1 /\ place' = "foot"
      /\ UNCHANGED <<watchUp, server, down, syncDown, remote, spoilt>>
      /\ InFlight + Len(Say("spawn", lives + 1) \o <<>>) <= MaxFlight
      /\ up' = up \o (Say("spawn", lives + 1) \o <<>>)
  BY DEF SpawnAnd, Send
<1>2. Say("spawn", lives + 1) \o <<>> = Say("spawn", lives + 1) /\ Len(Say("spawn", lives + 1)) = 1
  BY DEF Say
<1>3. lives \in 0..MaxLives /\ buried \in 0..lives /\ Len(up) \in Nat
  BY DEF Inv, Traffic
<1>4. /\ up' \in Seq(Packet) /\ InOrder(up') /\ Between(up', buried', lives')
      /\ NotOver(up', lives') /\ Len(up') <= MaxFlight
  BY <1>1, <1>2, <1>3, SpawnInOrder, PartInFlight, BoundsAssumption DEF Inv, server
<1>5. lives' \in 0..MaxLives /\ buried' \in 0..lives' /\ buried' < lives'
  BY <1>1, <1>3, BoundsAssumption DEF server
<1>6. Typing'
  BY <1>1, Zenon DEF Inv, Typing, server, down, remote, Places
<1>7. QED
  BY <1>4, <1>5, <1>6 DEF Inv, Traffic

LEMMA DieKeeps == ASSUME Inv, Die PROVE Inv'
<1> USE DEF Inv
<1>1. Typing'
  BY Zenon DEF Die, SpawnAnd, Send, Typing, server, down, remote, Places
<1>2. alive /\ ~alive' /\ "death" \in Kinds
  BY DEF Die, Kinds
<1>3. lives \in 0..MaxLives /\ buried \in 0..lives /\ buried < lives /\ Len(up) \in Nat
  BY <1>2, BoundsAssumption DEF Traffic
<1>4. CASE watching
  <2> DEFINE t == up \o Say("spawn", lives + 1)
  <2>1. /\ lives < MaxLives /\ lives' = lives + 1 /\ buried' = buried
        /\ InFlight + Len(Say("spawn", lives + 1) \o Say("death", lives + 1)) <= MaxFlight
        /\ up' = up \o (Say("spawn", lives + 1) \o Say("death", lives + 1))
    BY <1>4 DEF Die, SpawnAnd, Send, server
  <2>2. lives + 1 \in 0..MaxLives /\ buried \in Nat /\ buried < lives + 1 /\ lives \in Nat
    BY <1>3, <2>1, BoundsAssumption
  <2>3. /\ Say("spawn", lives + 1) \in Seq(Packet) /\ Say("death", lives + 1) \in Seq(Packet)
        /\ Len(Say("spawn", lives + 1)) = 1 /\ Len(Say("death", lives + 1)) = 1
    BY <2>2 DEF Say, Packet
  <2>4. up' = t \o Say("death", lives + 1) /\ Len(up') <= MaxFlight
    <3>1. up \in Seq(Packet)
      BY DEF Traffic
    <3>2. up' = t \o Say("death", lives + 1)
      BY <2>1, <2>3, <3>1, ConcatAssociative
    <3>3. Len(up') = Len(up) + Len(Say("spawn", lives + 1) \o Say("death", lives + 1))
      BY <2>1, <2>3, <3>1, ConcatProperties
    <3>4. Len(Say("spawn", lives + 1) \o Say("death", lives + 1)) \in Nat
      BY <2>3, ConcatProperties
    <3> DEFINE n == Len(Say("spawn", lives + 1) \o Say("death", lives + 1))
    <3>5. n \in Nat /\ Len(up') = Len(up) + n /\ InFlight + n <= MaxFlight
      BY <2>1, <3>3, <3>4
    <3> HIDE DEF n
    <3>6. Len(up') <= MaxFlight
      BY <3>5, <1>3, PartInFlight, BoundsAssumption
    <3>7. QED
      BY <3>2, <3>6
  <2>5. /\ t \in Seq(Packet) /\ InOrder(t) /\ Between(t, buried, lives + 1)
        /\ NotOver(t, lives + 1)
    BY <2>1, SpawnInOrder
  <2> HIDE DEF t
  <2>6. up' \in Seq(Packet) /\ InOrder(up') /\ Between(up', buried, lives + 1)
    BY <1>2, <2>2, <2>4, <2>5, SaidInOrder
  <2>7. buried \in 0..lives + 1
    BY <1>3
  <2>8. QED
    BY <1>1, <1>2, <2>1, <2>2, <2>4, <2>6, <2>7 DEF Traffic
<1>5. CASE ~watching /\ place = "driver"
  <2> DEFINE t == up \o Say("driver", lives)
  <2>1. /\ UNCHANGED <<lives, buried>>
        /\ InFlight + Len(Say("driver", lives) \o Say("death", lives)) <= MaxFlight
        /\ up' = up \o (Say("driver", lives) \o Say("death", lives))
    BY <1>5 DEF Die, Send, server
  <2>2. "driver" \in Kinds
    BY <1>5 DEF Typing, Kinds
  <2>3. /\ Say("driver", lives) \in Seq(Packet) /\ Say("death", lives) \in Seq(Packet)
        /\ Len(Say("driver", lives)) = 1 /\ Len(Say("death", lives)) = 1
    BY <1>3, <2>2 DEF Say, Packet, Kinds
  <2>4. up' = t \o Say("death", lives) /\ Len(up') <= MaxFlight
    <3>1. up \in Seq(Packet)
      BY DEF Traffic
    <3>2. up' = t \o Say("death", lives)
      BY <2>1, <2>3, <3>1, ConcatAssociative
    <3>3. Len(up') = Len(up) + Len(Say("driver", lives) \o Say("death", lives))
      BY <2>1, <2>3, <3>1, ConcatProperties
    <3>4. QED
      BY <2>1, <2>3, <3>2, <3>3, <1>3, PartInFlight, BoundsAssumption
  <2>5. /\ t \in Seq(Packet) /\ InOrder(t) /\ Between(t, buried, lives) /\ NotOver(t, lives)
    BY <1>2, <1>3, <2>2, SaidInOrder DEF Traffic
  <2> HIDE DEF t
  <2>6. up' \in Seq(Packet) /\ InOrder(up') /\ Between(up', buried, lives)
    BY <1>2, <1>3, <2>4, <2>5, SaidInOrder
  <2>7. QED
    BY <1>1, <1>2, <1>3, <2>1, <2>4, <2>6 DEF Traffic
<1>6. CASE ~watching /\ place # "driver"
  <2>1. /\ UNCHANGED <<lives, buried>>
        /\ InFlight + Len(<<>> \o Say("death", lives)) <= MaxFlight
        /\ up' = up \o (<<>> \o Say("death", lives))
    BY <1>6 DEF Die, Send, server
  <2>2. Say("death", lives) \in Seq(Packet) /\ Len(Say("death", lives)) = 1
    BY <1>3 DEF Say, Packet
  <2>3. up' = up \o Say("death", lives) /\ Len(up') <= MaxFlight
    <3>1. up \in Seq(Packet)
      BY DEF Traffic
    <3>2. up' = up \o Say("death", lives)
      BY <2>1, <2>2, ConcatEmptySeq
    <3>3. Len(up') = Len(up) + 1
      BY <2>2, <3>1, <3>2, ConcatProperties
    <3>4. Len(<<>> \o Say("death", lives)) = 1
      BY <2>2, ConcatEmptySeq
    <3>5. QED
      BY <2>1, <3>2, <3>3, <3>4, <1>3, PartInFlight, BoundsAssumption
  <2>4. QED
    BY <1>1, <1>2, <2>1, <2>3, SentKeeps
<1>7. QED
  BY <1>4, <1>5, <1>6

(* A door or a sync. *)
LEMMA SayKeeps ==
    ASSUME Inv, Plays, NEW k \in Doors \cup Places, Send(Say(k, lives)), UNCHANGED client
    PROVE  Inv'
<1>1. alive /\ k \in Kinds /\ k # "death" /\ UNCHANGED <<lives, buried>>
  BY SeatsAssumption DEF Plays, Kinds, Doors, Places, Send, server, client
<1>2. up' = up \o Say(k, lives) /\ Len(up') <= MaxFlight
  <2>1. up \in Seq(Packet) /\ Say(k, lives) \in Seq(Packet)
    BY <1>1 DEF Inv, Traffic, Say, Packet, Kinds
  <2>2. up' = up \o Say(k, lives) /\ Len(up') = Len(up) + Len(Say(k, lives))
    BY <2>1, ConcatProperties DEF Send
  <2>3. InFlight + Len(Say(k, lives)) <= MaxFlight /\ Len(up) \in Nat /\ Len(Say(k, lives)) \in Nat
    BY <2>1 DEF Send
  <2>4. QED
    BY <2>2, <2>3, PartInFlight, BoundsAssumption
<1>3. Traffic'
  BY <1>1, <1>2, SentKeeps DEF Inv
<1>4. Typing'
  BY Zenon DEF Inv, Typing, Send, client, server, down, remote
<1>5. QED
  BY <1>3, <1>4 DEF Inv

(* Of a packet that arrives the server takes over the state, or that the   *)
(* life is over.                                                           *)
LEMMA ArrivalKeeps ==
    ASSUME Inv, NEW i \in DOMAIN up, Arrives(i),
           state' \in States, update' \in Places \cup {"none"}, UNCHANGED syncDown,
           told' \in [Calls -> Nat], doors' \in Seq(Doors), announced' \in 0..MaxLives,
           buried' = buried \/ (up[i].kind = "death" /\ buried' = up[i].life)
    PROVE  Inv'
<1>1. up' = SubSeq(up, i + 1, Len(up)) /\ UNCHANGED <<client, watchUp, remote, spoilt>>
  BY DEF Arrives
<1>2. Typing'
  BY <1>1, Zenon DEF Inv, Typing, client, remote
<1>3. /\ lives \in 0..MaxLives /\ buried \in 0..lives /\ lives \in Nat /\ Len(up) \in Nat
      /\ up \in Seq(Packet) /\ Len(up) <= MaxFlight /\ InOrder(up) /\ Between(up, buried, lives)
  BY DEF Inv, Traffic
<1>4. up[i].life \in Nat /\ buried < up[i].life /\ up[i].life <= lives
  BY <1>3, PacketsTyped DEF Between
<1>5. /\ up' \in Seq(Packet) /\ Len(up') <= Len(up)
      /\ InOrder(up')
      /\ Between(up', buried, lives)
      /\ up[i].kind = "death" => Between(up', up[i].life, lives)
      /\ \A l : NotOver(up, l) => NotOver(up', l)
  BY <1>1, <1>3, LaterInOrder
<1>6. Len(up') <= MaxFlight
  BY <1>3, <1>5, BoundsAssumption
<1>7. UNCHANGED <<alive, lives>>
  BY <1>1 DEF client
<1>8. buried' \in 0..lives /\ Between(up', buried', lives)
  BY <1>3, <1>4, <1>5
<1>9. alive => buried' < lives /\ NotOver(up', lives)
  BY <1>3, <1>5 DEF Inv, Traffic, NotOver
<1>10. Traffic'
  BY <1>3, <1>5, <1>6, <1>7, <1>8, <1>9 DEF Traffic
<1>11. QED
  BY <1>2, <1>10 DEF Inv

LEMMA LoseKeeps == ASSUME Inv, NEW i \in DOMAIN up, Lose(i) PROVE Inv'
<1>1. Typing'
  BY Zenon DEF Inv, Typing, Lose, client, server, down, remote
<1>2. /\ up \in Seq(Packet) /\ Len(up) <= MaxFlight /\ InOrder(up) /\ Between(up, buried, lives)
      /\ Len(up) \in Nat
  BY DEF Inv, Traffic
<1>3. /\ up' = SubSeq(up, 1, i - 1) \o SubSeq(up, i + 1, Len(up))
      /\ UNCHANGED <<alive, lives, buried>>
  BY DEF Lose, client, server
<1>4. /\ up' \in Seq(Packet) /\ Len(up') <= Len(up)
      /\ InOrder(up')
      /\ Between(up', buried, lives)
      /\ \A l : NotOver(up, l) => NotOver(up', l)
  BY <1>2, <1>3, OthersInOrder
<1>5. Len(up') <= MaxFlight
  BY <1>2, <1>4, BoundsAssumption
<1>6. Traffic'
  BY <1>3, <1>4, <1>5 DEF Inv, Traffic
<1>7. QED
  BY <1>1, <1>6 DEF Inv

LEMMA StepKeeps == Inv /\ [Next]_vars => Inv'
<1> SUFFICES ASSUME Inv, [Next]_vars PROVE Inv'
  OBVIOUS
<1>1. ASSUME UNCHANGED <<alive, lives, up, buried>>, Typing' PROVE Inv'
  BY <1>1 DEF Inv, Traffic
<1>2. CASE Playing
  <2>1. ASSUME Spawn \/ StopWatching PROVE Inv'
    <3>1. SpawnAnd(<<>>) /\ alive' = TRUE /\ watching' \in BOOLEAN
      BY <2>1, Zenon DEF Inv, Typing, Spawn, StopWatching
    <3>2. QED
      BY <3>1, SpawnKeeps
  <2>2. ASSUME StartWatching PROVE Inv'
    <3>1. Typing'
      BY <2>2, Zenon DEF Inv, Typing, StartWatching, server, down, remote
    <3>2. QED
      BY <1>1, <2>2, <3>1 DEF StartWatching, server
  <2>3. ASSUME NEW p \in Places, ChangePlace(p) PROVE Inv'
    <3>1. Typing'
      BY <2>3, Zenon DEF Inv, Typing, ChangePlace, server, down, remote
    <3>2. QED
      BY <1>1, <2>3, <3>1 DEF ChangePlace, server
  <2>4. ASSUME SendWatchSync PROVE Inv'
    <3>1. Typing'
      BY <2>4, Zenon DEF Inv, Typing, SendWatchSync, client, server, down, remote
    <3>2. QED
      BY <1>1, <2>4, <3>1 DEF SendWatchSync, client, server
  <2>5. ASSUME SendSync PROVE Inv'
    BY <2>5, SayKeeps DEF SendSync, Inv, Typing
  <2>6. ASSUME NEW door \in Doors, UseDoor(door) PROVE Inv'
    BY <2>6, SayKeeps DEF UseDoor
  <2>7. QED
    BY <1>2, <2>1, <2>2, <2>3, <2>4, <2>5, <2>6, DieKeeps DEF Playing
<1>3. CASE Serving
  <2>1. /\ state \in States /\ update \in Places \cup {"none"} /\ announced \in 0..MaxLives
        /\ told \in [Calls -> Nat] /\ doors \in Seq(Doors)
    BY DEF Inv, Typing
  <2>2. {"spawn", "death", "watch"} \subseteq Calls /\ {"spawned", "wasted", "spectating"} \subseteq States
    BY DEF Calls, States
  <2>3. ASSUME NEW i \in DOMAIN up, HandleSpawn(i) PROVE Inv'
    <3>1. told' \in [Calls -> Nat] /\ doors' \in Seq(Doors)
      BY <2>1, <2>2, <2>3, CallsTyped DEF HandleSpawn, Tell
    <3>2. announced' \in 0..MaxLives
      <4>1. up \in Seq(Packet)
        BY DEF Inv, Traffic
      <4>2. up[i] \in Packet
        BY <4>1
      <4>3. QED
        BY <4>2, <2>3 DEF HandleSpawn, Packet
    <3>3. QED
      BY <2>1, <2>2, <2>3, <3>1, <3>2, ArrivalKeeps DEF HandleSpawn
  <2>4. ASSUME NEW i \in DOMAIN up, HandleDeath(i) PROVE Inv'
    <3>1. told' \in [Calls -> Nat] /\ doors' \in Seq(Doors)
      BY <2>1, <2>2, <2>4, CallsTyped DEF HandleDeath, Tell
    <3>2. QED
      BY <2>1, <2>2, <2>4, <3>1, ArrivalKeeps DEF HandleDeath
  <2>5. ASSUME NEW i \in DOMAIN up, HandleDoor(i) PROVE Inv'
    <3>1. told' \in [Calls -> Nat] /\ doors' \in Seq(Doors)
      BY <2>1, <2>5 DEF HandleDoor, TellDoor, down
    <3>2. state' \in States
      BY <2>1, <2>5 DEF HandleDoor, States
    <3>3. QED
      BY <2>1, <2>5, <3>1, <3>2, ArrivalKeeps DEF HandleDoor
  <2>6. ASSUME NEW i \in DOMAIN up, NEW accepted \in BOOLEAN, StoreSync(i, accepted) PROVE Inv'
    BY <2>1, <2>6, ArrivalKeeps DEF StoreSync, States, down
  <2>7. ASSUME StoreWatchSync PROVE Inv'
    <3>1. told' \in [Calls -> Nat] /\ doors' \in Seq(Doors)
      <4>1. Tell("watch") \/ UNCHANGED down
        BY <2>7 DEF StoreWatchSync
      <4>2. QED
        BY <4>1, <2>1, <2>2, CallsTyped DEF Tell, down
    <3>2. Typing'
      BY <2>7, <3>1, Zenon DEF Inv, Typing, StoreWatchSync, client, remote, States
    <3>3. QED
      BY <1>1, <2>7, <3>2 DEF StoreWatchSync, client
  <2>8. ASSUME NEW sent \in BOOLEAN, Relay(sent) PROVE Inv'
    <3>1. syncDown' \in Places \cup {"none"} /\ update' \in Places \cup {"none"}
      BY <2>1, <2>8 DEF Inv, Typing, Relay
    <3>2. Typing'
      BY <2>8, <3>1, Zenon DEF Inv, Typing, Relay, client, remote, down
    <3>3. QED
      BY <1>1, <2>8, <3>2 DEF Relay, client
  <2>9. QED
    BY <1>3, <2>3, <2>4, <2>5, <2>6, <2>7, <2>8 DEF Serving
<1>4. CASE Seeing
  <2>1. UNCHANGED <<client, up, watchUp, server>>
    BY <1>4 DEF Seeing, HearSpawn, HearDeath, HearWatch, HearDoor, HearSync, AnimsEnd, RemovePed, Hear
  <2>2. told' \in [Calls -> Nat] /\ doors' \in Seq(Doors)
    <3>1. told \in [Calls -> Nat] /\ doors \in Seq(Doors) /\ {"spawn", "death", "watch"} \subseteq Calls
      BY DEF Inv, Typing, Calls
    <3>2. ASSUME NEW call \in {"spawn", "death", "watch"}, Hear(call)
          PROVE  told' \in [Calls -> Nat] /\ doors' \in Seq(Doors)
      BY <3>1, <3>2, CallsTyped DEF Hear
    <3>3. CASE HearDoor
      BY <3>1, <3>3 DEF HearDoor
    <3>4. CASE HearSync \/ AnimsEnd \/ RemovePed
      BY <3>1, <3>4 DEF HearSync, AnimsEnd, RemovePed, down
    <3>5. QED
      BY <1>4, <3>2, <3>3, <3>4 DEF Seeing, HearSpawn, HearDeath, HearWatch
  <2>3. seen' \in States
    <3>1. seen \in States /\ syncDown \in Places \cup {"none"}
      BY DEF Inv, Typing
    <3>2. CASE HearDoor
      <4>1. doors \in Seq(Doors) /\ doors # <<>>
        BY <3>2 DEF HearDoor, Inv, Typing
      <4>2. Head(doors) \in Doors
        BY <4>1
      <4>3. QED
        BY <3>1, <3>2, <4>2 DEF HearDoor, States
    <3>3. CASE HearSpawn \/ HearDeath \/ HearWatch \/ HearSync \/ AnimsEnd \/ RemovePed
      BY <3>1, <3>3 DEF HearSpawn, HearDeath, HearWatch, HearSync, AnimsEnd, RemovePed, remote, States
    <3>4. QED
      BY <1>4, <3>2, <3>3 DEF Seeing
  <2>4. syncDown' \in Places \cup {"none"} /\ ped' \in {"none", "alive", "dead", "freed"}
    BY <1>4 DEF Inv, Typing, Seeing, HearSpawn, HearDeath, HearWatch, HearDoor, HearSync, AnimsEnd,
                RemovePed, Hear, remote
  <2>5. anims' \in BOOLEAN /\ spoilt' \in BOOLEAN
    BY <1>4, Zenon DEF Inv, Typing, Seeing, HearSpawn, HearDeath, HearWatch, HearDoor, HearSync,
                       AnimsEnd, RemovePed, Hear, remote
  <2>6. Typing'
    BY <2>1, <2>2, <2>3, <2>4, <2>5, Zenon DEF Inv, Typing, client, server
  <2>7. QED
    BY <1>1, <2>1, <2>6 DEF client, server
<1>5. CASE Losing
  <2>1. ASSUME LoseWatchSync PROVE Inv'
    <3>1. Typing'
      BY <2>1, Zenon DEF Inv, Typing, LoseWatchSync, client, server, down, remote
    <3>2. QED
      BY <1>1, <2>1, <3>1 DEF LoseWatchSync, client, server
  <2>2. QED
    BY <1>5, <2>1, LoseKeeps DEF Losing
<1>6. CASE UNCHANGED vars
  <2>1. Typing'
    BY <1>6, Zenon DEF Inv, Typing, vars, client, server, down, remote
  <2>2. QED
    BY <1>1, <1>6, <2>1 DEF vars, client, server
<1>7. QED
  BY <1>2, <1>3, <1>4, <1>5, <1>6 DEF Next

THEOREM Invariance == Spec => []Inv
BY InvInit, StepKeeps, PTL DEF Spec

-----------------------------------------------------------------------------
(* The server never has buried a life that has not begun, and the rest.    *)
THEOREM TypeCorrect == Spec => []TypeOK
BY Invariance, InvIsTyped, PTL

(***************************************************************************)
(* StoreOnFootFullSyncData and its siblings put a player on his feet or in *)
(* a seat without a look at his state.  They do not bring the dead back to *)
(* life, because the packets of the life that is over are discarded when   *)
(* RakNet delivers the death.                                              *)
(***************************************************************************)
THEOREM DeadStayDead == Spec => NoResurrection
<1> DEFINE Risen == state = "wasted" /\ state' \in Places \cup Doors
           Fresh == \E i \in DOMAIN up : up[i].kind = state' /\ up[i].life > buried
<1>1. ASSUME Inv, Next, Risen PROVE Fresh
  <2>1. "wasted" \notin Places \cup Doors /\ {"spawned", "spectating"} \cap (Places \cup Doors) = {}
    BY SeatsAssumption DEF Places, Doors
  <2>2. state' # state
    BY <1>1, <2>1
  <2>3. ASSUME Playing \/ Seeing \/ Losing PROVE FALSE
    BY <2>2, <2>3 DEF Playing, Spawn, StartWatching, StopWatching, Die, SpawnAnd, SendSync,
         SendWatchSync, UseDoor, ChangePlace, Send, Seeing, HearSpawn, HearDeath, HearWatch,
         HearSync, AnimsEnd, RemovePed, HearDoor, Hear, Losing, LoseWatchSync, Lose, server
  <2>4. PICK i \in DOMAIN up : HandleDoor(i) \/ \E accepted \in BOOLEAN : StoreSync(i, accepted)
    BY <1>1, <2>1, <2>2, <2>3 DEF Next, Serving, HandleSpawn, HandleDeath, StoreWatchSync, Relay
  <2>5. up[i].kind = state'
    BY <2>2, <2>4 DEF HandleDoor, StoreSync
  <2>6. up[i].life > buried
    BY <1>1, PacketsTyped, BoundsAssumption DEF Inv, Traffic, Between
  <2>7. QED
    BY <2>5, <2>6
<1>2. ASSUME UNCHANGED vars, Risen PROVE FALSE
  BY <1>2, SeatsAssumption DEF vars, server, Places, Doors
<1>3. Inv /\ [Next]_vars => [Risen => Fresh]_vars
  BY <1>1, <1>2
<1>4. QED
  BY <1>3, Invariance, PTL DEF Spec, NoResurrection
=============================================================================
