----------------------------- MODULE StaticLinkProofs -----------------------------
(***************************************************************************)
(* For every program, however deep its functions are nested: what a link   *)
(* or a walk of StaticLink.tla leads to.                                   *)
(***************************************************************************)
EXTENDS StaticLink, WellFoundedInduction, TLAPS

(* A set of naturals that is not empty has a least element.                *)
LEMMA LeastElement ==
  ASSUME NEW S, S \subseteq Nat, S # {}
  PROVE  \E x \in S : \A y \in S : x <= y
<1>1. PICK x \in S : \A y \in S : ~(<<y, x>> \in OpToRel(<, Nat))
  BY WFMin, NatLessThanWellFounded, Zenon
<1>2. ASSUME NEW y \in S PROVE ~(y < x)
  <2>1. y < x => <<y, x>> \in OpToRel(<, Nat)
    BY Zenon DEF OpToRel
  <2> QED
    BY <2>1, <1>1
<1>3. \A y \in S : x \in Nat /\ y \in Nat
  OBVIOUS
<1> QED
  BY <1>2, <1>3

(* A set with 0 and, with each number, the next one has all of them.       *)
LEMMA InductiveSet ==
  ASSUME NEW S, 0 \in S, \A n \in Nat : n \in S => n + 1 \in S
  PROVE  Nat \subseteq S
<1> SUFFICES ASSUME Nat \ S # {} PROVE FALSE
  OBVIOUS
<1>1. PICK x \in Nat \ S : \A y \in Nat \ S : x <= y
  BY LeastElement
<1>2. x # 0 /\ x - 1 \in S
  BY <1>1
<1> QED
  BY <1>2

Vars == {NoVar} \union UNION {Locals[f] : f \in Fns}
Frame == [fn : Fns, link : Nat, val : UNION {[Locals[f] -> Values] : f \in Fns}]

FramesOK ==
  /\ frames \in Seq(Frame)
  /\ Len(frames) >= 1
  /\ frames[1].fn = Main
  /\ \A i \in 1 .. Len(frames) : frames[i].val \in [Locals[frames[i].fn] -> Values]

(* A walk for a call ends where the called function is declared, one for a *)
(* variable at a function that has it.                                     *)
WalkOK ==
  /\ walk \in [why : {"idle", "call", "use"}, to : Fns, x : Vars, fn : Fns, at : Nat, left : Nat]
  /\ walk.why = "idle" => walk.left = 0
  /\ walk.why = "call" => walk.fn # Main /\ walk.to = Parent[walk.fn]
  /\ walk.why = "use" => walk.x \in Locals[walk.to]

(* Frames, walks and values are what their names say.                      *)
TypeOK == FramesOK /\ WalkOK /\ got \in Values

Inv == TypeOK /\ LinksToParent /\ WalkArrives

-------------------------------------------------------------------------------
(* One link up from a function that is deeper than the one looked for is   *)
(* the function around it, one level less deep and still inside.           *)
LEMMA OneLevelUp ==
  ASSUME NEW f \in Fns, NEW g \in Fns, <<g, f>> \in Encloses, Depth[f] > Depth[g]
  PROVE  /\ f # Main
         /\ Parent[f] \in Fns
         /\ <<g, Parent[f]>> \in Encloses
         /\ Depth[Parent[f]] = Depth[f] - 1
<1>1. g # f
  BY NestingAssumption
<1>2. f # Main /\ <<g, Parent[f]>> \in Encloses
  BY <1>1, NestingAssumption
<1>3. Parent[f] \in Fns
  BY <1>2, NestingAssumption
<1>4. Depth[f] = Depth[Parent[f]] + 1 /\ Depth[Parent[f]] \in Nat
  BY <1>2, <1>3, NestingAssumption
<1> QED
  BY <1>2, <1>3, <1>4

(* A function is less deep than those it encloses: by induction over the   *)
(* depth, since what encloses f and is not f encloses its parent.          *)
LEMMA EnclosingIsOutward ==
  \A f, g \in Fns : <<g, f>> \in Encloses =>
    Depth[g] <= Depth[f] /\ (Depth[g] = Depth[f] => g = f)
<1> DEFINE Outward(f) == \A g \in Fns : <<g, f>> \in Encloses =>
                           Depth[g] <= Depth[f] /\ (Depth[g] = Depth[f] => g = f)
           S == {n \in Nat : \A f \in Fns : Depth[f] = n => Outward(f)}
<1>1. /\ \A f \in Fns : Depth[f] \in Nat
      /\ \A f \in Fns \ {Main} : Parent[f] \in Fns /\ Depth[f] = Depth[Parent[f]] + 1
  BY NestingAssumption
<1>2. \A f \in Fns, g \in Fns :
        <<g, f>> \in Encloses => g = f \/ (f # Main /\ <<g, Parent[f]>> \in Encloses)
  BY NestingAssumption
<1>3. 0 \in S
  <2>1. ASSUME NEW f \in Fns, Depth[f] = 0 PROVE f = Main
    <3> SUFFICES ASSUME f # Main PROVE FALSE
      OBVIOUS
    <3>1. Parent[f] \in Fns /\ Depth[f] = Depth[Parent[f]] + 1
      BY <1>1
    <3> QED
      BY <1>1, <2>1, <3>1
  <2>2. ASSUME NEW f \in Fns, Depth[f] = 0, NEW g \in Fns, <<g, f>> \in Encloses PROVE g = f
    BY <1>2, <2>1, <2>2
  <2>3. \A f \in Fns : Depth[f] = 0 => Outward(f)
    BY <1>1, <2>2
  <2> QED
    BY <2>3
<1>4. ASSUME NEW n \in Nat, n \in S PROVE n + 1 \in S
  <2>1. ASSUME NEW f \in Fns, Depth[f] = n + 1, NEW g \in Fns, <<g, f>> \in Encloses, g # f
        PROVE  Depth[g] <= n
    <3>1. f # Main /\ <<g, Parent[f]>> \in Encloses
      BY <1>2, <2>1
    <3>2. Parent[f] \in Fns /\ Depth[Parent[f]] = n
      <4>1. Parent[f] \in Fns /\ Depth[f] = Depth[Parent[f]] + 1 /\ Depth[Parent[f]] \in Nat
        BY <1>1, <3>1
      <4> QED
        BY <2>1, <4>1
    <3>3. Outward(Parent[f])
      BY <1>4, <3>2
    <3> QED
      BY <3>1, <3>2, <3>3
  <2>2. ASSUME NEW f \in Fns, Depth[f] = n + 1 PROVE Outward(f)
    <3> TAKE g \in Fns
    <3>1. CASE g = f
      BY <1>1, <3>1
    <3>2. CASE <<g, f>> \in Encloses /\ g # f
      <4>1. Depth[g] <= n /\ Depth[g] \in Nat
        BY <1>1, <2>1, <2>2, <3>2
      <4> QED
        BY <2>2, <4>1
    <3> QED
      BY <3>1, <3>2
  <2> QED
    BY <2>2
<1> HIDE DEF S
<1>5. Nat \subseteq S
  BY <1>3, <1>4, InductiveSet
<1>6. \A f \in Fns : Outward(f)
  BY <1>1, <1>5 DEF S
<1> QED
  BY <1>6

(* A walk starts the right number of fetches from its end.                 *)
LEMMA StartsRight ==
  ASSUME NEW f \in Fns, NEW g \in Fns, <<g, f>> \in Encloses
  PROVE  /\ Depth[f] - Depth[g] \in Nat
         /\ Depth[f] = Depth[g] + (Depth[f] - Depth[g])
         /\ Depth[f] - Depth[g] = 0 => f = g
<1>1. Depth[f] \in Nat /\ Depth[g] \in Nat /\ Depth[g] <= Depth[f]
  BY NestingAssumption, EnclosingIsOutward
<1>2. Depth[f] = Depth[g] => f = g
  BY EnclosingIsOutward
<1> QED
  BY <1>1, <1>2

LEMMA InitInv == Init => Inv
<1> SUFFICES ASSUME Init PROVE Inv
  OBVIOUS
<1>1. Activation(Main, 0) \in Frame
  BY NestingAssumption DEF Activation, Frame
<1>2. FramesOK
  BY <1>1, NestingAssumption DEF Init, FramesOK, Activation
<1>3. WalkOK
  BY NestingAssumption DEF Init, WalkOK, Idle, Vars
<1>4. LinksToParent
  BY DEF Init, LinksToParent, Top
<1>5. WalkArrives
  BY DEF Init, WalkArrives, Idle
<1> QED
  BY <1>2, <1>3, <1>4, <1>5, NestingAssumption DEF Inv, TypeOK, Init

-------------------------------------------------------------------------------
(* What is true of the running activation in every state.                  *)
LEMMA RunningOK ==
  ASSUME Inv
  PROVE  Top \in Nat \ {0} /\ Top \in 1 .. Top /\ frames[Top] \in Frame /\ Running \in Fns
<1>1. Top \in Nat /\ Top >= 1 /\ frames \in Seq(Frame)
  BY DEF Inv, TypeOK, FramesOK, Top
<1>2. frames[Top] \in Frame
  BY <1>1 DEF Top
<1> QED
  BY <1>1, <1>2 DEF Running, Frame

LEMMA StartCallInv == ASSUME Inv, NEW f \in Fns, StartCall(f) PROVE Inv'
<1>1. f # Main /\ <<Parent[f], Running>> \in Encloses /\ Parent[f] \in Fns
  BY NestingAssumption DEF StartCall
<1>2. Running \in Fns /\ Top \in Nat \ {0} /\ Top \in 1 .. Top
  BY RunningOK
<1>3. Depth[Running] - Depth[f] + 1 = Depth[Running] - Depth[Parent[f]]
  <2>1. Depth[f] = Depth[Parent[f]] + 1 /\ Depth[Parent[f]] \in Nat /\ Depth[Running] \in Nat
    BY <1>1, <1>2, NestingAssumption
  <2> QED
    BY <2>1
<1> DEFINE n == Depth[Running] - Depth[Parent[f]]
<1>4. n \in Nat /\ Depth[Running] = Depth[Parent[f]] + n /\ (n = 0 => Running = Parent[f])
  BY <1>1, <1>2, StartsRight
<1>5. walk' = [why |-> "call", to |-> Parent[f], x |-> NoVar, fn |-> f, at |-> Top, left |-> n]
  BY <1>3 DEF StartCall
<1> HIDE DEF n
<1>6. WalkOK'
  BY <1>1, <1>2, <1>4, <1>5 DEF WalkOK, Vars
<1>7. WalkArrives'
  BY <1>1, <1>2, <1>4, <1>5 DEF WalkArrives, StartCall, Running, Top
<1> QED
  BY <1>6, <1>7 DEF Inv, TypeOK, FramesOK, LinksToParent, Top, StartCall

LEMMA StartUseInv ==
  ASSUME Inv, NEW g \in Fns, NEW x \in Locals[g], StartUse(g, x) PROVE Inv'
<1>1. <<g, Running>> \in Encloses
  BY DEF StartUse
<1>2. Running \in Fns /\ Top \in Nat \ {0} /\ Top \in 1 .. Top
  BY RunningOK
<1> DEFINE n == Depth[Running] - Depth[g]
<1>3. n \in Nat /\ Depth[Running] = Depth[g] + n /\ (n = 0 => Running = g)
  BY <1>1, <1>2, StartsRight
<1>4. walk' = [why |-> "use", to |-> g, x |-> x, fn |-> Main, at |-> Top, left |-> n]
  BY DEF StartUse
<1> HIDE DEF n
<1>5. WalkOK'
  BY <1>2, <1>3, <1>4, NestingAssumption DEF WalkOK, Vars
<1>6. WalkArrives'
  BY <1>1, <1>2, <1>3, <1>4 DEF WalkArrives, StartUse, Running, Top
<1> QED
  BY <1>5, <1>6 DEF Inv, TypeOK, FramesOK, LinksToParent, Top, StartUse

LEMMA FollowInv == ASSUME Inv, Follow PROVE Inv'
<1> DEFINE f == frames[walk.at].fn
           up == frames[walk.at].link
<1>1. /\ walk.left \in Nat \ {0} /\ walk.why # "idle" /\ walk.to \in Fns
      /\ walk' = [walk EXCEPT !.at = up, !.left = @ - 1]
      /\ UNCHANGED <<frames, got>>
  BY DEF Inv, TypeOK, WalkOK, Follow
<1>2. walk.at \in 1 .. Top /\ <<walk.to, f>> \in Encloses /\ Depth[f] = Depth[walk.to] + walk.left
  BY <1>1 DEF Inv, WalkArrives
<1>3. f \in Fns
  <2>1. frames \in Seq(Frame) /\ walk.at \in 1 .. Len(frames)
    BY <1>2 DEF Inv, TypeOK, FramesOK, Top
  <2>2. frames[walk.at] \in Frame
    BY <2>1
  <2> QED
    BY <2>2 DEF Frame
<1>4. Depth[f] > Depth[walk.to] /\ Depth[walk.to] \in Nat
  BY <1>1, <1>2, NestingAssumption
<1>5. /\ f # Main /\ Parent[f] \in Fns /\ <<walk.to, Parent[f]>> \in Encloses
      /\ Depth[Parent[f]] = Depth[f] - 1
  BY <1>1, <1>2, <1>3, <1>4, OneLevelUp
<1>6. up \in 1 .. Top /\ frames[up].fn = Parent[f]
  <2>1. walk.at \in 2 .. Top /\ Top \in Nat
    BY <1>2, <1>5 DEF Inv, TypeOK, FramesOK, Top
  <2>2. up \in 1 .. walk.at - 1 /\ frames[up].fn = Parent[f]
    BY <2>1 DEF Inv, LinksToParent
  <2> QED
    BY <2>1, <2>2
<1>7. walk.left - 1 \in Nat /\ Depth[Parent[f]] = Depth[walk.to] + (walk.left - 1)
  BY <1>1, <1>2, <1>4, <1>5
<1>8. walk.left - 1 = 0 => Parent[f] = walk.to
  <2>1. walk.left - 1 = 0 => Depth[Parent[f]] = Depth[walk.to]
    BY <1>4, <1>7
  <2> QED
    BY <1>1, <1>5, <2>1, NestingAssumption, EnclosingIsOutward
<1>9. WalkOK'
  <2>1. up \in Nat
    BY <1>6 DEF Top
  <2> HIDE DEF up, f
  <2> QED
    BY <1>1, <1>7, <2>1 DEF Inv, TypeOK, WalkOK
<1>10. WalkArrives'
  <2>1. walk'.at = up /\ walk'.left = walk.left - 1 /\ walk'.to = walk.to /\ frames' = frames
    BY <1>1 DEF Inv, TypeOK, WalkOK
  <2> HIDE DEF up, f
  <2> QED
    BY <1>5, <1>6, <1>7, <1>8, <2>1 DEF WalkArrives, Top
<1> QED
  BY <1>1, <1>9, <1>10 DEF Inv, TypeOK, FramesOK, LinksToParent, Top

(* The frame pushed by a call links to the activation its walk arrived at. *)
LEMMA EnterInv == ASSUME Inv, Enter PROVE Inv'
<1> DEFINE new == Activation(walk.fn, walk.at)
<1>1. /\ walk.why = "call" /\ walk.left = 0
      /\ frames' = Append(frames, new) /\ walk' = Idle /\ got' = got
  BY DEF Enter, Walking
<1>2. walk.fn \in Fns /\ walk.fn # Main /\ walk.to = Parent[walk.fn] /\ walk.at \in Nat
  BY <1>1 DEF Inv, TypeOK, WalkOK
<1>3. walk.at \in 1 .. Top /\ frames[walk.at].fn = Parent[walk.fn]
  BY <1>1, <1>2 DEF Inv, WalkArrives
<1>4. /\ new \in Frame /\ new.fn = walk.fn /\ new.link = walk.at
      /\ new.val \in [Locals[new.fn] -> Values]
  BY <1>2, NestingAssumption DEF Activation, Frame
<1>5. frames \in Seq(Frame) /\ Top = Len(frames) /\ Top \in Nat /\ Top >= 1
  BY DEF Inv, TypeOK, FramesOK, Top
<1> HIDE DEF new
<1>6. /\ Len(frames') = Top + 1 /\ frames' \in Seq(Frame)
      /\ frames'[Top + 1] = new
      /\ \A i \in 1 .. Top : frames'[i] = frames[i]
  BY <1>1, <1>4, <1>5
<1>7. FramesOK'
  <2>1. \A i \in 1 .. Top + 1 : frames'[i].val \in [Locals[frames'[i].fn] -> Values]
    BY <1>4, <1>5, <1>6 DEF Inv, TypeOK, FramesOK
  <2> QED
    BY <1>5, <1>6, <2>1 DEF Inv, TypeOK, FramesOK
<1>8. LinksToParent'
  <2> SUFFICES ASSUME NEW i \in 2 .. Top + 1
               PROVE  /\ frames'[i].link \in 1 .. i - 1
                      /\ frames'[i].fn # Main
                      /\ frames'[frames'[i].link].fn = Parent[frames'[i].fn]
    BY <1>5, <1>6 DEF LinksToParent, Top
  <2>1. CASE i = Top + 1
    BY <1>2, <1>3, <1>4, <1>5, <1>6, <2>1
  <2>2. CASE i # Top + 1
    <3>1. i \in 2 .. Top /\ frames'[i] = frames[i]
      BY <1>5, <1>6, <2>2
    <3>2. /\ frames[i].link \in 1 .. i - 1 /\ frames[i].fn # Main
          /\ frames[frames[i].link].fn = Parent[frames[i].fn]
      BY <3>1 DEF Inv, LinksToParent
    <3>3. frames[i].link \in 1 .. Top
      BY <1>5, <3>1, <3>2
    <3> QED
      BY <1>6, <3>1, <3>2, <3>3
  <2> QED
    BY <2>1, <2>2
<1>9. WalkOK' /\ WalkArrives'
  BY <1>1, NestingAssumption DEF WalkOK, WalkArrives, Idle, Vars
<1> QED
  BY <1>1, <1>7, <1>8, <1>9 DEF Inv, TypeOK

LEMMA LoadInv == ASSUME Inv, Load PROVE Inv'
<1>1. walk.why = "use" /\ walk.left = 0 /\ walk.x \in Locals[walk.to]
  BY DEF Load, Walking, Inv, TypeOK, WalkOK
<1>2. walk.at \in 1 .. Len(frames) /\ frames[walk.at].fn = walk.to
  BY <1>1 DEF Inv, WalkArrives, Top
<1>3. frames[walk.at].val \in [Locals[walk.to] -> Values]
  BY <1>2 DEF Inv, TypeOK, FramesOK
<1>4. got' \in Values
  BY <1>1, <1>3 DEF Load
<1>5. WalkOK' /\ WalkArrives'
  BY NestingAssumption DEF Load, WalkOK, WalkArrives, Idle, Vars
<1> QED
  BY <1>4, <1>5 DEF Load, Inv, TypeOK, FramesOK, LinksToParent, Top

LEMMA StoreInv == ASSUME Inv, NEW v \in Values, Store(v) PROVE Inv'
<1>1. walk.why = "use" /\ walk.left = 0 /\ walk.x \in Locals[walk.to]
  BY DEF Store, Walking, Inv, TypeOK, WalkOK
<1>2. walk.at \in 1 .. Len(frames) /\ frames[walk.at].fn = walk.to
  BY <1>1 DEF Inv, WalkArrives, Top
<1> DEFINE old == frames[walk.at]
           val == [old.val EXCEPT ![walk.x] = v]
           new == [old EXCEPT !.val = val]
<1>3. frames \in Seq(Frame) /\ old \in Frame /\ old.val \in [Locals[old.fn] -> Values]
  BY <1>2 DEF Inv, TypeOK, FramesOK
<1>4. val \in [Locals[old.fn] -> Values]
  BY <1>3
<1>5. new \in Frame /\ new.fn = old.fn /\ new.link = old.link /\ new.val = val
  <2> HIDE DEF val
  <2> DEFINE vals == UNION {[Locals[f] -> Values] : f \in Fns}
  <2>1. old.fn \in Fns
    BY <1>3 DEF Frame
  <2>2. val \in vals
    BY <1>4, <2>1
  <2>3. old \in [fn : Fns, link : Nat, val : vals]
    BY <1>3 DEF Frame
  <2>4. new \in [fn : Fns, link : Nat, val : vals]
    <3> HIDE DEF vals, old
    <3> QED
      BY <2>2, <2>3
  <2>5. new.fn = old.fn /\ new.link = old.link /\ new.val = val
    <3> HIDE DEF vals, old
    <3> QED
      BY <2>3
  <2> QED
    BY <2>4, <2>5 DEF Frame
<1>6. frames' = [frames EXCEPT ![walk.at] = new]
  BY DEF Store
<1> HIDE DEF new, val
<1>7. /\ Len(frames') = Len(frames) /\ frames' \in Seq(Frame)
      /\ \A i \in 1 .. Len(frames) :
           /\ frames'[i].fn = frames[i].fn /\ frames'[i].link = frames[i].link
           /\ frames'[i].val \in [Locals[frames'[i].fn] -> Values]
  BY <1>2, <1>3, <1>4, <1>5, <1>6 DEF Inv, TypeOK, FramesOK
<1>8. FramesOK'
  BY <1>7 DEF FramesOK, Inv, TypeOK
<1>9. LinksToParent'
  <2> SUFFICES ASSUME NEW i \in 2 .. Len(frames)
               PROVE  /\ frames'[i].link \in 1 .. i - 1
                      /\ frames'[i].fn # Main
                      /\ frames'[frames'[i].link].fn = Parent[frames'[i].fn]
    BY <1>7 DEF LinksToParent, Top
  <2>1. /\ frames[i].link \in 1 .. i - 1 /\ frames[i].fn # Main
        /\ frames[frames[i].link].fn = Parent[frames[i].fn]
    BY DEF Inv, LinksToParent, Top
  <2>2. i \in 1 .. Len(frames) /\ frames[i].link \in 1 .. Len(frames)
    BY <1>3, <2>1
  <2> QED
    BY <1>7, <2>1, <2>2
<1>10. WalkOK' /\ WalkArrives' /\ got' = got
  BY NestingAssumption DEF Store, WalkOK, WalkArrives, Idle, Vars
<1> QED
  BY <1>8, <1>9, <1>10 DEF Inv, TypeOK

LEMMA ReturnInv == ASSUME Inv, Return PROVE Inv'
<1>1. walk = Idle /\ walk' = walk /\ got' = got /\ Top > 1 /\ frames' = SubSeq(frames, 1, Top - 1)
  BY DEF Return
<1>2. frames \in Seq(Frame) /\ Top = Len(frames) /\ Top \in Nat
  BY DEF Inv, TypeOK, FramesOK, Top
<1>3. /\ Len(frames') = Top - 1 /\ frames' \in Seq(Frame)
      /\ \A i \in 1 .. Top - 1 : frames'[i] = frames[i]
  BY <1>1, <1>2
<1>4. FramesOK'
  BY <1>1, <1>2, <1>3 DEF Inv, TypeOK, FramesOK
<1>5. LinksToParent'
  <2> SUFFICES ASSUME NEW i \in 2 .. Top - 1
               PROVE  /\ frames'[i].link \in 1 .. i - 1
                      /\ frames'[i].fn # Main
                      /\ frames'[frames'[i].link].fn = Parent[frames'[i].fn]
    BY <1>3 DEF LinksToParent, Top
  <2>1. /\ frames[i].link \in 1 .. i - 1 /\ frames[i].fn # Main
        /\ frames[frames[i].link].fn = Parent[frames[i].fn]
    BY <1>2 DEF Inv, LinksToParent
  <2>2. frames[i].link \in 1 .. Top - 1
    BY <1>2, <2>1
  <2> QED
    BY <1>3, <2>1, <2>2
<1>6. WalkOK' /\ WalkArrives'
  BY <1>1 DEF Inv, TypeOK, WalkOK, WalkArrives, Idle
<1> QED
  BY <1>1, <1>4, <1>5, <1>6 DEF Inv, TypeOK

LEMMA StepInv == Inv /\ [Next]_vars => Inv'
<1> SUFFICES ASSUME Inv, [Next]_vars PROVE Inv'
  OBVIOUS
<1>1. CASE \E f \in Fns : StartCall(f)
  BY <1>1, StartCallInv
<1>2. CASE \E g \in Fns : \E x \in Locals[g] : StartUse(g, x)
  BY <1>2, StartUseInv
<1>3. CASE Follow
  BY <1>3, FollowInv
<1>4. CASE Enter
  BY <1>4, EnterInv
<1>5. CASE Load
  BY <1>5, LoadInv
<1>6. CASE \E v \in Values : Store(v)
  BY <1>6, StoreInv
<1>7. CASE Return
  BY <1>7, ReturnInv
<1>8. CASE UNCHANGED vars
  BY <1>8 DEF vars, Inv, TypeOK, FramesOK, WalkOK, LinksToParent, WalkArrives, Top
<1> QED
  BY <1>1, <1>2, <1>3, <1>4, <1>5, <1>6, <1>7, <1>8 DEF Next

LEMMA SpecInv == Spec => []Inv
  BY InitInv, StepInv, PTL DEF Spec

(* Frames, walks and values keep their types.                              *)
THEOREM TypeCorrect == Spec => []TypeOK
  BY SpecInv, PTL DEF Inv

(* Every link leads to an older activation of the enclosing function: the  *)
(* link that Tr_callExp (translate.c) hands over is the right one.         *)
THEOREM LinksCorrect == Spec => []LinksToParent
  BY SpecInv, PTL DEF Inv

(* The fetches that Tr_simpleVar and Tr_callExp build end in an activation *)
(* of the function they look for, whatever calls came before.              *)
THEOREM WalksCorrect == Spec => []WalkArrives
  BY SpecInv, PTL DEF Inv
===============================================================================
