-------------------------- MODULE CommuStreamProofs --------------------------
(***************************************************************************)
(* What the decoder makes of the bytes in flight, for every stream of      *)
(* frames: each unread byte gets a label that says which byte of which     *)
(* frame the camera wrote there, and the place of the decoder is related   *)
(* to the label of the byte it reads next.                                 *)
(***************************************************************************)
EXTENDS CommuLinkProofs

(* The bytes written and neither lost nor read.                            *)
Unread == ring \o wire

(* Where the camera is in its stream: the byte of the frame it writes next *)
(* (0 and 1: the header and the tag; 2 to 5: the packet), the packets and  *)
(* the gate requests it has completed.                                     *)
Label == [ph : 0..5, num : Nat, gn : Nat]

Between(num, gn) == [ph |-> 0, num |-> num, gn |-> gn]

(* At label l of the packets h the camera writes b and gets to label m.    *)
Writes(h, l, b, m) ==
  \/ /\ l.ph = 0 /\ b = Header
     /\ m = [ph |-> 1, num |-> l.num, gn |-> l.gn]
  \/ /\ l.ph = 1 /\ b = SpeedTag /\ l.num < Len(h)
     /\ m = [ph |-> 2, num |-> l.num, gn |-> l.gn]
  \/ /\ l.ph = 1 /\ b = GateTag
     /\ m = [ph |-> 0, num |-> l.num, gn |-> l.gn + 1]
  \/ /\ l.ph \in 2..4 /\ l.num < Len(h) /\ b = h[l.num + 1][l.ph - 1]
     /\ m = [ph |-> l.ph + 1, num |-> l.num, gn |-> l.gn]
  \/ /\ l.ph = 5 /\ l.num < Len(h) /\ b = h[l.num + 1][4]
     /\ m = [ph |-> 0, num |-> l.num + 1, gn |-> l.gn]

(* The decoder's place among the bytes of a frame: RecCmd_Step and index,  *)
(* as they will be when it reads its next byte.                            *)
Parsing == dec.pc \in {"read", "take"}
Stage   == IF Parsing THEN dec.step ELSE 0
Filled  == IF Parsing THEN Len(dec.buf) ELSE 0

StageAfter(s, n, b) == IF s = 2 THEN IF n = 3 THEN 0 ELSE 2 ELSE NextStep(s, b)
FilledAfter(s, n)   == IF s = 2 /\ n < 3 THEN n + 1 ELSE 0

Place(s, n) == s \in 0..2 /\ n \in 0..3 /\ (s < 2 => n = 0)

(* The decoder has seen every byte of the frame l is in.                   *)
OnTrack(s, n, l) ==
  \/ l.ph = 0 /\ s = 0
  \/ l.ph = 1 /\ s = 1
  \/ l.ph >= 2 /\ s = 2 /\ n = l.ph - 2

(* It has missed one of them: it waits for a header, holds a header whose  *)
(* tag it has missed, or is one byte short of its packet.                  *)
OneShort(s, n, l) ==
  \/ s = 0
  \/ s = 1 /\ l.ph \in {0, 2}
  \/ s = 2 /\ l.ph \in 3..5 /\ n = l.ph - 3
  \/ s = 2 /\ l.ph = 0 /\ n = 3

(* It knew nothing when the frame began: it waits for a header, or is in a *)
(* packet and has at least the bytes of this one.                          *)
NoLessThan(s, n, l) ==
  \/ s = 0
  \/ s = 1 /\ l.ph = 1
  \/ s = 2 /\ n >= l.ph - 2
-----------------------------------------------------------------------------
(* Reading the byte the camera wrote keeps the decoder on track.           *)
LEMMA StaysOnTrack ==
  ASSUME NEW h \in Seq(Cmds), NEW l \in Label, NEW m \in Label, NEW b \in Byte,
         NEW s, NEW n, Place(s, n),
         Writes(h, l, b, m), OnTrack(s, n, l)
  PROVE  /\ OnTrack(StageAfter(s, n, b), FilledAfter(s, n), m)
         /\ Place(StageAfter(s, n, b), FilledAfter(s, n))
         /\ s = 1 /\ b = GateTag => m.gn = l.gn + 1
         /\ s = 2 /\ n = 3 => l.ph = 5
BY DEF Label, Place, Writes, OnTrack, StageAfter, FilledAfter, NextStep, Header,
       SpeedTag, GateTag

(* No packet drives the left wheel at one percent, so no byte after a      *)
(* speed tag is the gate tag.  The mission sends none (MissionLeftByte).   *)
LeftNeverOne == \A c \in Cmds : c[1] # GateTag

(* A packet is four bytes up to 100: none is a header.                     *)
LEMMA PacketBytes ==
  ASSUME NEW h \in Seq(Cmds), NEW l \in Label, l.num < Len(h)
  PROVE  /\ h[l.num + 1] \in Cmds
         /\ \A k \in 1..4 : h[l.num + 1][k] \in 0..100
         /\ LeftNeverOne => h[l.num + 1][1] # GateTag
<1>1. l.num + 1 \in 1..Len(h)
  BY DEF Label
<1>2. h[l.num + 1] \in Cmds
  BY <1>1
<1> QED
  BY <1>2, LinkAssumption DEF LeftNeverOne

(* A byte after the tag of a speed frame belongs to its packet.            *)
LEMMA WritesData ==
  ASSUME NEW h \in Seq(Cmds), NEW l \in Label, NEW m \in Label, NEW b \in Byte,
         Writes(h, l, b, m), l.ph \in 2..5
  PROVE  /\ l.num < Len(h) /\ b = h[l.num + 1][l.ph - 1] /\ b \in 0..100
         /\ LeftNeverOne /\ l.ph = 2 => b # GateTag
         /\ m.ph = IF l.ph = 5 THEN 0 ELSE l.ph + 1
<1>1. l.num < Len(h) /\ b = h[l.num + 1][l.ph - 1]
  BY DEF Writes
<1>2. b \in 0..100
  <2>1. l.ph - 1 \in 1..4
    OBVIOUS
  <2> QED
    BY <1>1, <2>1, PacketBytes
<1>3. LeftNeverOne /\ l.ph = 2 => b # GateTag
  BY <1>1, PacketBytes
<1>4. m.ph = IF l.ph = 5 THEN 0 ELSE l.ph + 1
  BY DEF Writes
<1> QED
  BY <1>1, <1>2, <1>3, <1>4

(* A decoder that has missed one byte stays one byte short or finds back,  *)
(* and sees no gate tag that was not written.                              *)
LEMMA StaysOneShort ==
  ASSUME NEW h \in Seq(Cmds), NEW l \in Label, NEW m \in Label, NEW b \in Byte,
         NEW s, NEW n, Place(s, n), LeftNeverOne,
         Writes(h, l, b, m), OneShort(s, n, l)
  PROVE  /\ \/ OneShort(StageAfter(s, n, b), FilledAfter(s, n), m)
            \/ OnTrack(StageAfter(s, n, b), FilledAfter(s, n), m)
         /\ Place(StageAfter(s, n, b), FilledAfter(s, n))
         /\ s = 1 => b # GateTag
<1>t. l.ph \in 0..5 /\ s \in 0..2 /\ n \in 0..3
  BY DEF Label, Place
<1>1. CASE l.ph = 0
  BY <1>1 DEF Label, Place, OneShort, OnTrack, StageAfter, FilledAfter,
     NextStep, Header, SpeedTag, GateTag, Writes
<1>2. CASE l.ph = 1
  BY <1>2 DEF Label, Place, OneShort, OnTrack, StageAfter, FilledAfter,
     NextStep, Header, SpeedTag, GateTag, Writes
<1>3. CASE l.ph \in 2..5
  <2>1. /\ b \in 0..100 /\ (l.ph = 2 => b # GateTag)
        /\ m.ph = IF l.ph = 5 THEN 0 ELSE l.ph + 1
    BY <1>3, WritesData
  <2>2. CASE s = 0
    BY <1>3, <2>1, <2>2 DEF Place, OneShort, StageAfter, FilledAfter, NextStep,
       Header
  <2>3. CASE s = 1
    <3>1. l.ph = 2 /\ m.ph = 3 /\ b # GateTag
      BY <1>3, <2>1, <2>3 DEF OneShort
    <3> QED
      BY <2>3, <3>1 DEF Place, OneShort, StageAfter, FilledAfter, NextStep
  <2>4. CASE s = 2
    <3>1. l.ph \in 3..5 /\ n = l.ph - 3
      BY <1>3, <2>4 DEF OneShort
    <3>2. StageAfter(s, n, b) = 2 /\ FilledAfter(s, n) = n + 1
      BY <2>4, <3>1 DEF StageAfter, FilledAfter
    <3> QED
      BY <2>1, <2>4, <3>1, <3>2 DEF Place, OneShort
  <2> QED
    BY <1>t, <2>2, <2>3, <2>4
<1> QED
  BY <1>t, <1>1, <1>2, <1>3

(* Missing one byte leaves a decoder that was on track one byte short.     *)
LEMMA FallsOneShort ==
  ASSUME NEW h \in Seq(Cmds), NEW l \in Label, NEW m \in Label, NEW b \in Byte,
         NEW s, NEW n, Place(s, n),
         Writes(h, l, b, m), OnTrack(s, n, l)
  PROVE  OneShort(s, n, m)
BY DEF Label, Place, Writes, OnTrack, OneShort

(* Within one whole speed frame the decoder finds its way from wherever it *)
(* was: it has no fewer bytes than the frame, and none but the first is a  *)
(* header.                                                                 *)
LEMMA FindsTrack ==
  ASSUME NEW h \in Seq(Cmds), NEW l \in Label, NEW m \in Label, NEW b \in Byte,
         NEW s, NEW n, Place(s, n), Writes(h, l, b, m),
         l.ph = 0 \/ NoLessThan(s, n, l)
  PROVE  /\ Place(StageAfter(s, n, b), FilledAfter(s, n))
         /\ m.ph # 0 => NoLessThan(StageAfter(s, n, b), FilledAfter(s, n), m)
         /\ l.ph = 5 => OnTrack(StageAfter(s, n, b), FilledAfter(s, n), m)
<1>t. l.ph \in 0..5 /\ s \in 0..2 /\ n \in 0..3
  BY DEF Label, Place
<1>1. CASE l.ph = 0
  BY <1>1 DEF Label, Place, NoLessThan, StageAfter, FilledAfter, NextStep,
     Header, SpeedTag, GateTag, Writes
<1>2. CASE l.ph = 1
  BY <1>2 DEF Label, Place, NoLessThan, StageAfter, FilledAfter, NextStep,
     Header, SpeedTag, GateTag, Writes
<1>3. CASE l.ph \in 2..5
  <2>1. b \in 0..100 /\ m.ph = IF l.ph = 5 THEN 0 ELSE l.ph + 1
    BY <1>3, WritesData
  <2>2. CASE s = 0
    BY <1>3, <2>1, <2>2 DEF Place, NoLessThan, OnTrack, StageAfter, FilledAfter,
       NextStep, Header
  <2>3. s # 1
    BY <1>3 DEF NoLessThan
  <2>4. CASE s = 2
    <3>1. n >= l.ph - 2
      BY <1>3, <2>4 DEF NoLessThan
    <3>2. CASE n = 3
      BY <2>1, <2>4, <3>2 DEF Place, NoLessThan, OnTrack, StageAfter, FilledAfter
    <3>3. CASE n < 3
      <4>1. StageAfter(s, n, b) = 2 /\ FilledAfter(s, n) = n + 1 /\ l.ph < 5
        BY <1>t, <2>4, <3>1, <3>3 DEF StageAfter, FilledAfter
      <4>2. n + 1 >= m.ph - 2 /\ n + 1 \in 0..3
        BY <1>t, <1>3, <2>1, <3>1, <3>3, <4>1
      <4> QED
        BY <4>1, <4>2 DEF Place, NoLessThan
    <3> QED
      BY <1>t, <3>2, <3>3
  <2> QED
    BY <1>t, <2>2, <2>3, <2>4
<1> QED
  BY <1>t, <1>1, <1>2, <1>3
-----------------------------------------------------------------------------
(* One label for every byte in flight, and one for where they end.         *)
Labels(U, h, gs, lab) ==
  /\ lab \in Seq(Label) /\ Len(lab) = Len(U) + 1
  /\ lab[Len(U) + 1] = Between(Len(h), gs)
  /\ \A i \in 1..Len(U)+1 : lab[i].num <= Len(h) /\ lab[i].gn <= gs

(* Another packet leaves what has been written as it is.                   *)
LEMMA WritesStill ==
  ASSUME NEW h \in Seq(Cmds), NEW c \in Cmds, NEW l \in Label, NEW m, NEW b,
         Writes(h, l, b, m)
  PROVE  Writes(Append(h, c), l, b, m)
<1>1. l.num \in Nat /\ Len(h) \in Nat
  BY DEF Label
<1>2. Len(Append(h, c)) = Len(h) + 1
  OBVIOUS
<1>3. l.num < Len(h) => /\ l.num < Len(Append(h, c))
                        /\ Append(h, c)[l.num + 1] = h[l.num + 1]
  <2> SUFFICES ASSUME l.num < Len(h)
               PROVE  /\ l.num < Len(Append(h, c))
                      /\ Append(h, c)[l.num + 1] = h[l.num + 1]
    OBVIOUS
  <2>1. l.num + 1 \in 1..Len(h)
    BY <1>1
  <2> QED
    BY <1>1, <1>2, <2>1
<1> HIDE DEF Label
<1> DEFINE h2 == Append(h, c)
<1> HIDE DEF h2
<1>4. l.num < Len(h) => l.num < Len(h2) /\ h2[l.num + 1] = h[l.num + 1]
  BY <1>3 DEF h2
<1>5. Writes(h2, l, b, m)
  BY <1>4 DEF Writes
<1> QED
  BY <1>5 DEF h2

(* Reading the first byte, or pushing it out, leaves the other labels.     *)
LEMMA TailLabels ==
  ASSUME NEW U \in Seq(Byte), U # << >>, NEW h, NEW gs, NEW lab,
         Labels(U, h, gs, lab)
  PROVE  /\ Labels(Tail(U), h, gs, Tail(lab))
         /\ Tail(U) \in Seq(Byte) /\ Len(Tail(U)) = Len(U) - 1 /\ Len(U) \in Nat \ {0}
         /\ \A i \in 1..Len(U)-1 : Tail(U)[i] = U[i+1]
         /\ \A i \in 1..Len(U) : Tail(lab)[i] = lab[i+1]
<1>1. Len(U) \in Nat \ {0} /\ Tail(U) \in Seq(Byte) /\ Len(Tail(U)) = Len(U) - 1
  OBVIOUS
<1>2. \A i \in 1..Len(U)-1 : Tail(U)[i] = U[i+1]
  BY <1>1
<1>3. lab \in Seq(Label) /\ Len(lab) = Len(U) + 1 /\ lab # << >>
  BY <1>1 DEF Labels
<1>4. Tail(lab) \in Seq(Label) /\ Len(Tail(lab)) = Len(U)
  BY <1>1, <1>3
<1>5. \A i \in 1..Len(U) : Tail(lab)[i] = lab[i+1]
  BY <1>1, <1>3
<1>6. Tail(lab)[Len(U)] = lab[Len(U) + 1]
  <2>1. Len(U) \in 1..Len(U)
    BY <1>1
  <2> QED
    BY <1>5, <2>1
<1>7. \A i \in 1..Len(U) : Tail(lab)[i].num <= Len(h) /\ Tail(lab)[i].gn <= gs
  <2>1. \A i \in 1..Len(U) : i + 1 \in 1..Len(U)+1
    BY <1>1
  <2> QED
    BY <1>5, <2>1 DEF Labels
<1>8. Len(Tail(U)) + 1 = Len(U)
  BY <1>1
<1> QED
  BY <1>1, <1>2, <1>4, <1>5, <1>6, <1>7, <1>8 DEF Labels

(* Frame F, labelled by more, is what the camera writes next; afterwards   *)
(* the packets are h2 and the gate requests gs2.                           *)
Framed(h, gs, F, h2, gs2, more) ==
  /\ F \in Seq(Byte) /\ F # << >>
  /\ h2 \in Seq(Cmds) /\ Len(h) <= Len(h2) /\ gs2 \in Nat /\ gs <= gs2
  /\ more \in Seq(Label) /\ Len(more) = Len(F)
  /\ \A i \in 1..Len(F) : more[i].num <= Len(h2) /\ more[i].gn <= gs2
  /\ more[Len(F)] = Between(Len(h2), gs2)
  /\ Writes(h2, Between(Len(h), gs), F[1], more[1])
  /\ \A i \in 1..Len(F)-1 : Writes(h2, more[i], F[i+1], more[i+1])
  /\ \A l \in Label, b \in Byte : \A m : Writes(h, l, b, m) => Writes(h2, l, b, m)

(* The labels of the bytes in flight U with frame F behind them.           *)
Extended(U, lab, F, more, h2, gs2) ==
  /\ Labels(U \o F, h2, gs2, lab \o more)
  /\ U \o F \in Seq(Byte) /\ Len(U \o F) = Len(U) + Len(F)
  /\ Len(U) \in Nat /\ Len(F) \in Nat \ {0}
  /\ \A i \in 1..Len(U)+1 : (lab \o more)[i] = lab[i]
  /\ \A i \in 1..Len(U) : (U \o F)[i] = U[i]
  /\ \A i \in Len(U)+1..Len(U)+Len(F) :
       Writes(h2, (lab \o more)[i], (U \o F)[i], (lab \o more)[i+1])
  /\ \A i \in 1..Len(F) : (lab \o more)[Len(U) + 1 + i] = more[i]

(* A frame that is written behind the bytes in flight is labelled like     *)
(* them.                                                                   *)
LEMMA MoreLabels ==
  ASSUME NEW U \in Seq(Byte), NEW h \in Seq(Cmds), NEW gs \in Nat,
         NEW lab, Labels(U, h, gs, lab),
         NEW F, NEW h2, NEW gs2, NEW more, Framed(h, gs, F, h2, gs2, more)
  PROVE  Extended(U, lab, F, more, h2, gs2)
<1>f. /\ F \in Seq(Byte) /\ F # << >>
      /\ h2 \in Seq(Cmds) /\ Len(h) <= Len(h2) /\ gs2 \in Nat /\ gs <= gs2
      /\ more \in Seq(Label) /\ Len(more) = Len(F)
      /\ \A i \in 1..Len(F) : more[i].num <= Len(h2) /\ more[i].gn <= gs2
      /\ more[Len(F)] = Between(Len(h2), gs2)
      /\ Writes(h2, Between(Len(h), gs), F[1], more[1])
      /\ \A i \in 1..Len(F)-1 : Writes(h2, more[i], F[i+1], more[i+1])
  BY DEF Framed
<1> DEFINE u == Len(U)  f == Len(F)  W == U \o F  lab2 == lab \o more
<1>1. u \in Nat /\ f \in Nat \ {0} /\ lab \in Seq(Label) /\ Len(lab) = u + 1
  BY <1>f DEF Labels
<1>2. W \in Seq(Byte) /\ Len(W) = u + f
  BY <1>f
<1>3. /\ \A i \in 1..u : W[i] = U[i]
      /\ \A i \in 1..f : W[u + i] = F[i]
  BY <1>1, <1>f
<1>4. lab2 \in Seq(Label) /\ Len(lab2) = u + f + 1
  <2>1. lab2 \in Seq(Label) /\ Len(lab2) = Len(lab) + Len(more)
    <3>1. lab \in Seq(Label) /\ more \in Seq(Label)
      BY <1>1, <1>f
    <3> QED
      BY <3>1, ConcatProperties
  <2>2. Len(more) = f
    BY <1>f
  <2> HIDE DEF lab2, u, f
  <2> QED
    BY <1>1, <2>1, <2>2
<1>5. /\ \A i \in 1..u+1 : lab2[i] = lab[i]
      /\ \A i \in 1..f : lab2[u + 1 + i] = more[i]
  BY <1>1, <1>f
<1>6. lab[u + 1] = Between(Len(h), gs)
  BY DEF Labels
<1> HIDE DEF u, f, W, lab2
<1>7. lab2[u + f + 1] = Between(Len(h2), gs2)
  <2>1. lab2[u + 1 + f] = more[f]
    BY <1>1, <1>5
  <2> QED
    BY <1>1, <1>f, <2>1 DEF f
<1>8. ASSUME NEW i \in u+1..u+f
      PROVE  Writes(h2, lab2[i], W[i], lab2[i+1])
  <2> DEFINE k == i - u
  <2>0. u \in Nat /\ f \in Nat
    BY <1>1
  <2>1. k \in 1..f /\ i = u + k /\ i + 1 = u + 1 + k
    BY <2>0
  <2> HIDE DEF k
  <2>2. W[i] = F[k] /\ lab2[i+1] = more[k]
    BY <1>3, <1>5, <2>1
  <2>3. CASE k = 1
    <3>1. lab2[i] = Between(Len(h), gs)
      BY <1>1, <1>5, <1>6, <2>1, <2>3
    <3> QED
      BY <1>f, <2>2, <2>3, <3>1
  <2>4. CASE k # 1
    <3>1. k - 1 \in 1..f-1 /\ k - 1 \in 1..f /\ i = u + 1 + (k - 1) /\ (k - 1) + 1 = k
      BY <1>1, <2>1, <2>4
    <3>2. lab2[i] = more[k - 1]
      BY <1>5, <3>1
    <3>3. Writes(h2, more[k - 1], F[(k - 1) + 1], more[(k - 1) + 1])
      BY <1>f, <3>1 DEF f
    <3> QED
      BY <2>2, <3>1, <3>2, <3>3
  <2> QED
    BY <2>3, <2>4
<1>9. ASSUME NEW i \in 1..u+f+1
      PROVE  lab2[i].num <= Len(h2) /\ lab2[i].gn <= gs2
  <2>1. CASE i <= u + 1
    <3>1. lab2[i] = lab[i] /\ i \in 1..u+1
      BY <1>1, <1>5, <2>1
    <3>2. lab[i].num <= Len(h) /\ lab[i].gn <= gs /\ lab[i] \in Label
      BY <1>1, <3>1 DEF Labels, u
    <3>3. Len(h) \in Nat /\ Len(h2) \in Nat
      BY <1>f
    <3> QED
      BY <1>f, <3>1, <3>2, <3>3 DEF Label
  <2>2. CASE i > u + 1
    <3>1. i - (u + 1) \in 1..f /\ i = u + 1 + (i - (u + 1))
      BY <1>1, <2>2
    <3>2. lab2[i] = more[i - (u + 1)]
      BY <1>5, <3>1
    <3> QED
      BY <1>f, <3>1, <3>2 DEF f
  <2> QED
    BY <1>1, <2>1, <2>2
<1>10. Labels(W, h2, gs2, lab2)
  <2>1. Len(W) + 1 = u + f + 1
    BY <1>1, <1>2
  <2> QED
    BY <1>4, <1>7, <1>9, <2>1 DEF Labels
<1> QED
  BY <1>1, <1>2, <1>3, <1>5, <1>8, <1>10 DEF Extended, u, f, W, lab2

(* The labels of the frame of packet c, and of a gate request.             *)
SpeedLabels(num, gs) ==
  << [ph |-> 1, num |-> num, gn |-> gs], [ph |-> 2, num |-> num, gn |-> gs],
     [ph |-> 3, num |-> num, gn |-> gs], [ph |-> 4, num |-> num, gn |-> gs],
     [ph |-> 5, num |-> num, gn |-> gs], Between(num + 1, gs) >>

GateLabels(num, gs) == << [ph |-> 1, num |-> num, gn |-> gs], Between(num, gs + 1) >>

(* The labels of a speed packet fit its bytes and lead on to the next      *)
(* frame.                                                                  *)
LEMMA SpeedFramed ==
  ASSUME NEW h \in Seq(Cmds), NEW gs \in Nat, NEW c \in Cmds
  PROVE  /\ Framed(h, gs, SpeedFrame(c), Append(h, c), gs, SpeedLabels(Len(h), gs))
         /\ Len(SpeedFrame(c)) = 6
         /\ \A i \in 1..6 :
              SpeedLabels(Len(h), gs)[i].ph = IF i = 6 THEN 0 ELSE i
<1> DEFINE more == SpeedLabels(Len(h), gs)
           F    == SpeedFrame(c)
           h2   == Append(h, c)
           n    == Len(h)
<1>1. /\ n \in Nat /\ h2 \in Seq(Cmds) /\ Len(h2) = n + 1
      /\ h2[n + 1] = c /\ n < Len(h2)
  OBVIOUS
<1>2. c \in Seq(Byte) /\ Len(c) = 4
  <2>1. c \in [1..4 -> Byte]
    BY LinkAssumption DEF Byte
  <2>2. c \in Seq(Byte)
    <3>1. [1..4 -> Byte] \in {[1..k -> Byte] : k \in Nat}
      OBVIOUS
    <3>2. Seq(Byte) = UNION {[1..k -> Byte] : k \in Nat}
      BY SeqDef
    <3> QED
      BY <2>1, <3>1, <3>2
  <2>3. Len(c) \in Nat /\ DOMAIN c = 1..Len(c)
    BY <2>2, LenProperties
  <2>4. Len(c) = 4
    BY <2>1, <2>3
  <2> QED
    BY <2>2, <2>4
<1>3. /\ F \in Seq(Byte) /\ Len(F) = 6 /\ F # << >>
      /\ F[1] = Header /\ F[2] = SpeedTag
      /\ F[3] = c[1] /\ F[4] = c[2] /\ F[5] = c[3] /\ F[6] = c[4]
  <2> DEFINE t == <<Header, SpeedTag>>
  <2>1. t \in Seq(Byte) /\ Len(t) = 2 /\ t[1] = Header /\ t[2] = SpeedTag
    BY DEF Header, SpeedTag, Byte
  <2>2. c \in Seq(Byte)
    BY <1>2
  <2>3. F = t \o c
    BY DEF SpeedFrame
  <2> HIDE DEF t, F
  <2>4. /\ F \in Seq(Byte) /\ Len(F) = Len(t) + Len(c)
        /\ \A i \in 1..Len(t)+Len(c) :
             F[i] = IF i <= Len(t) THEN t[i] ELSE c[i - Len(t)]
    BY <2>1, <2>2, <2>3, ConcatProperties
  <2>5. /\ Len(F) = 6 /\ F[1] = t[1] /\ F[2] = t[2]
        /\ F[3] = c[1] /\ F[4] = c[2] /\ F[5] = c[3] /\ F[6] = c[4]
    BY <1>2, <2>1, <2>4
  <2>6. F # << >>
    BY <2>4, <2>5, EmptySeq
  <2> QED
    BY <2>1, <2>4, <2>5, <2>6
<1>4. /\ more \in Seq(Label) /\ Len(more) = 6
      /\ \A i \in 1..5 : more[i] = [ph |-> i, num |-> n, gn |-> gs]
      /\ more[6] = Between(n + 1, gs)
  <2>1. \A i \in 1..5 : [ph |-> i, num |-> n, gn |-> gs] \in Label
    BY <1>1 DEF Label
  <2>2. Between(n + 1, gs) \in Label
    BY <1>1 DEF Label, Between
  <2> HIDE DEF n
  <2> QED
    BY <2>1, <2>2 DEF SpeedLabels, n
<1> HIDE DEF more, F, h2, n
<1>5. Writes(h2, Between(n, gs), F[1], more[1])
  BY <1>3, <1>4 DEF Writes, Between
<1>6. \A i \in 1..5 : Writes(h2, more[i], F[i+1], more[i+1])
  <2>1. Writes(h2, more[1], F[2], more[2])
    BY <1>1, <1>3, <1>4 DEF Writes
  <2>2. Writes(h2, more[2], F[3], more[3])
    BY <1>1, <1>3, <1>4 DEF Writes
  <2>3. Writes(h2, more[3], F[4], more[4])
    BY <1>1, <1>3, <1>4 DEF Writes
  <2>4. Writes(h2, more[4], F[5], more[5])
    BY <1>1, <1>3, <1>4 DEF Writes
  <2>5. Writes(h2, more[5], F[6], more[6])
    BY <1>1, <1>3, <1>4 DEF Writes, Between
  <2> QED
    BY <2>1, <2>2, <2>3, <2>4, <2>5
<1>7. \A i \in 1..6 : /\ more[i].num <= Len(h2) /\ more[i].gn <= gs
                      /\ more[i].ph = IF i = 6 THEN 0 ELSE i
  <2>1. \A i \in 1..5 : more[i].num = n /\ more[i].gn = gs /\ more[i].ph = i
    BY <1>4
  <2>2. more[6].num = n + 1 /\ more[6].gn = gs /\ more[6].ph = 0
    BY <1>4 DEF Between
  <2> QED
    BY <1>1, <2>1, <2>2
<1>8. \A l \in Label, b \in Byte : \A m : Writes(h, l, b, m) => Writes(h2, l, b, m)
  BY WritesStill DEF h2
<1>9. Framed(h, gs, F, h2, gs, more)
  <2>1. n <= Len(h2) /\ gs <= gs
    BY <1>1
  <2>2. more[6] = Between(Len(h2), gs)
    BY <1>1, <1>4
  <2> QED
    BY <1>1, <1>3, <1>4, <1>5, <1>6, <1>7, <1>8, <2>1, <2>2 DEF Framed, n
<1> QED
  BY <1>3, <1>7, <1>9 DEF more, F, h2, n

(* The labels of a gate request fit its bytes and lead on to the next      *)
(* frame.                                                                  *)
LEMMA GateFramed ==
  ASSUME NEW h \in Seq(Cmds), NEW gs \in Nat
  PROVE  /\ Framed(h, gs, GateFrame, h, gs + 1, GateLabels(Len(h), gs))
         /\ Len(GateFrame) = 2
         /\ GateLabels(Len(h), gs)[1].ph = 1 /\ GateLabels(Len(h), gs)[2].ph = 0
<1>1. Len(h) \in Nat
  OBVIOUS
<1>2. /\ GateFrame \in Seq(Byte) /\ Len(GateFrame) = 2 /\ GateFrame # << >>
      /\ GateFrame[1] = Header /\ GateFrame[2] = GateTag
  BY FrameBytes DEF GateFrame
<1> DEFINE more == GateLabels(Len(h), gs)
<1>3. /\ more \in Seq(Label) /\ Len(more) = 2
      /\ more[1] = [ph |-> 1, num |-> Len(h), gn |-> gs]
      /\ more[2] = Between(Len(h), gs + 1)
  <2>1. [ph |-> 1, num |-> Len(h), gn |-> gs] \in Label
    BY <1>1 DEF Label
  <2>2. Between(Len(h), gs + 1) \in Label
    BY <1>1 DEF Label, Between
  <2> QED
    BY <2>1, <2>2 DEF GateLabels
<1> HIDE DEF more
<1>4. Writes(h, Between(Len(h), gs), GateFrame[1], more[1])
  BY <1>2, <1>3 DEF Writes, Between
<1>5. Writes(h, more[1], GateFrame[2], more[2])
  BY <1>2, <1>3 DEF Writes, Between
<1>6. \A i \in 1..Len(GateFrame)-1 : i = 1 /\ i + 1 = 2
  BY <1>2
<1>7. /\ \A i \in 1..2 : more[i].num <= Len(h) /\ more[i].gn <= gs + 1
      /\ more[1].ph = 1 /\ more[2].ph = 0
  BY <1>1, <1>3 DEF Between
<1>8. Framed(h, gs, GateFrame, h, gs + 1, more)
  <2>1. Len(h) <= Len(h) /\ gs <= gs + 1 /\ gs + 1 \in Nat
    BY <1>1
  <2> QED
    BY <1>2, <1>3, <1>4, <1>5, <1>6, <1>7, <2>1 DEF Framed
<1> QED
  BY <1>2, <1>7, <1>8 DEF more
-----------------------------------------------------------------------------
(* The bytes in flight, step by step.                                      *)
LEMMA SameElements ==
  ASSUME NEW S, NEW s \in Seq(S), NEW t \in Seq(S), Len(s) = Len(t),
         \A i \in 1..Len(s) : s[i] = t[i]
  PROVE  s = t
<1>1. s \in [1..Len(s) -> S] /\ t \in [1..Len(s) -> S]
  BY LenProperties
<1> QED
  BY <1>1

(* A byte that moves from the wire to the buffer stays where it is in the  *)
(* stream.                                                                 *)
LEMMA MoveByte ==
  ASSUME NEW q \in Seq(Byte), NEW w \in Seq(Byte), w # << >>
  PROVE  Append(q, Head(w)) \o Tail(w) = q \o w
<1> DEFINE a == Append(q, Head(w))  t == Tail(w)  n == Len(q)  k == Len(w)
<1>1. /\ n \in Nat /\ k \in Nat \ {0}
      /\ a \in Seq(Byte) /\ Len(a) = n + 1 /\ a[n + 1] = w[1]
      /\ \A i \in 1..n : a[i] = q[i]
  OBVIOUS
<1>2. t \in Seq(Byte) /\ Len(t) = k - 1 /\ \A i \in 1..k-1 : t[i] = w[i+1]
  BY HeadTailProperties
<1> HIDE DEF a, t
<1>3. /\ a \o t \in Seq(Byte) /\ Len(a \o t) = Len(a) + Len(t)
      /\ \A i \in 1..Len(a)+Len(t) :
           (a \o t)[i] = IF i <= Len(a) THEN a[i] ELSE t[i - Len(a)]
  BY <1>1, <1>2, ConcatProperties
<1>4. /\ q \o w \in Seq(Byte) /\ Len(q \o w) = n + k
      /\ \A i \in 1..n+k : (q \o w)[i] = IF i <= n THEN q[i] ELSE w[i - n]
  BY ConcatProperties
<1> DEFINE p == a \o t
           r == q \o w
<1> HIDE DEF n, k, p, r
<1>5. /\ Len(p) = n + k
      /\ \A i \in 1..n+k : p[i] = IF i <= n + 1 THEN a[i] ELSE t[i - (n + 1)]
  <2>1. Len(a) = n + 1 /\ Len(a) + Len(t) = n + k
    BY <1>1, <1>2
  <2> QED
    BY <1>3, <2>1 DEF p
<1>6. r \in Seq(Byte) /\ \A i \in 1..n+k : r[i] = IF i <= n THEN q[i] ELSE w[i - n]
  BY <1>4 DEF r
<1>7. ASSUME NEW i \in 1..n+k PROVE p[i] = r[i]
  <2>1. CASE i <= n
    <3>1. p[i] = a[i] /\ i \in 1..n
      BY <1>1, <1>5, <2>1
    <3> QED
      BY <1>1, <1>6, <2>1, <3>1
  <2>2. CASE i = n + 1
    <3>1. p[i] = a[n + 1]
      BY <1>1, <1>5, <2>2
    <3>2. r[i] = w[1]
      BY <1>1, <1>6, <2>2
    <3> QED
      BY <1>1, <3>1, <3>2
  <2>3. CASE i > n + 1
    <3>1. i - (n + 1) \in 1..k-1 /\ (i - (n + 1)) + 1 = i - n
      BY <1>1, <2>3
    <3>2. p[i] = t[i - (n + 1)]
      BY <1>1, <1>5, <2>3
    <3>3. r[i] = w[i - n]
      BY <1>1, <1>6, <2>3
    <3> QED
      BY <1>2, <3>1, <3>2, <3>3
  <2> QED
    BY <1>1, <2>1, <2>2, <2>3
<1>8. p = r
  BY <1>3, <1>4, <1>5, <1>7, SameElements DEF p, r
<1> QED
  BY <1>8 DEF a, t, p, r

(* Dropping the first byte of the buffer drops the first of the stream.    *)
LEMMA DropByte ==
  ASSUME NEW q \in Seq(Byte), q # << >>, NEW w \in Seq(Byte)
  PROVE  /\ Tail(q) \o w = Tail(q \o w)
         /\ q \o w \in Seq(Byte) /\ q \o w # << >> /\ (q \o w)[1] = Head(q)
<1> DEFINE t == Tail(q)  n == Len(q)  k == Len(w)  u == q \o w
<1>1. n \in Nat \ {0} /\ k \in Nat /\ q[1] = Head(q)
  OBVIOUS
<1>2. t \in Seq(Byte) /\ Len(t) = n - 1 /\ \A i \in 1..n-1 : t[i] = q[i+1]
  BY HeadTailProperties
<1>3. /\ u \in Seq(Byte) /\ Len(u) = n + k
      /\ \A i \in 1..n+k : u[i] = IF i <= n THEN q[i] ELSE w[i - n]
  BY ConcatProperties
<1> HIDE DEF t, u
<1>4. /\ t \o w \in Seq(Byte) /\ Len(t \o w) = Len(t) + k
      /\ \A i \in 1..Len(t)+k : (t \o w)[i] = IF i <= Len(t) THEN t[i] ELSE w[i - Len(t)]
  BY <1>2, ConcatProperties
<1> DEFINE v == t \o w
           r == Tail(u)
<1> HIDE DEF n, k, v, r
<1>5. u # << >>
  BY <1>1, <1>3, EmptySeq
<1>6. Tail(u) \in Seq(Byte) /\ Len(Tail(u)) = Len(u) - 1
      /\ \A i \in 1..Len(Tail(u)) : Tail(u)[i] = u[i+1]
  BY <1>3, <1>5, HeadTailProperties
<1>7. Len(v) = n + k - 1 /\ Len(r) = n + k - 1
  BY <1>1, <1>2, <1>3, <1>4, <1>6 DEF v, r
<1>8. \A i \in 1..n+k-1 :
          v[i] = IF i <= n - 1 THEN t[i] ELSE w[i - (n - 1)]
  <2>1. Len(t) = n - 1 /\ Len(t) + k = n + k - 1
    BY <1>1, <1>2
  <2> QED
    BY <1>4, <2>1 DEF v
<1>9. ASSUME NEW i \in 1..n+k-1 PROVE v[i] = r[i]
  <2>1. i + 1 \in 1..n+k /\ r[i] = u[i+1]
    BY <1>1, <1>6, <1>7 DEF r
  <2>2. CASE i <= n - 1
    <3>1. v[i] = t[i] /\ i \in 1..n-1
      BY <1>1, <1>8, <2>2
    <3>2. t[i] = q[i+1] /\ u[i+1] = q[i+1]
      BY <1>1, <1>2, <1>3, <2>1, <2>2, <3>1
    <3> QED
      BY <2>1, <3>1, <3>2
  <2>3. CASE i > n - 1
    <3>1. v[i] = w[i - (n - 1)]
      BY <1>1, <1>8, <2>3
    <3>2. u[i+1] = w[(i + 1) - n]
      BY <1>1, <1>3, <2>1, <2>3
    <3>3. i - (n - 1) = (i + 1) - n
      BY <1>1
    <3> QED
      BY <2>1, <3>1, <3>2, <3>3
  <2> QED
    BY <1>1, <2>2, <2>3
<1>10. v = r
  BY <1>4, <1>6, <1>7, <1>9, SameElements DEF v, r
<1>11. u[1] = Head(q)
  BY <1>1, <1>3
<1> QED
  BY <1>3, <1>5, <1>10, <1>11 DEF t, u, v, r

(* The decoder reads the first of the unread bytes.                        *)
LEMMA ReadUnread ==
  ASSUME LinkTypes, DecoderRead
  PROVE  /\ Unread \in Seq(Byte) /\ Unread # << >>
         /\ Unread[1] = Head(ring) /\ Head(ring) \in Byte
         /\ Unread' = Tail(Unread)
<1>1. ring \in Seq(Byte) /\ ring # << >> /\ wire \in Seq(Byte)
  BY DEF LinkTypes, DecoderRead
<1>2. ring' = Tail(ring) /\ wire' = wire
  BY DEF DecoderRead
<1> QED
  BY <1>1, <1>2, DropByte DEF Unread

(* The receive interrupt moves a byte from the wire to the ring, which     *)
(* leaves the unread bytes as they are, or makes a full ring lose the      *)
(* first of them.                                                          *)
LEMMA ReceiveUnread ==
  ASSUME LinkTypes, RxIsr
  PROVE  /\ Unread \in Seq(Byte)
         /\ \/ Unread' = Unread /\ lost' = lost /\ pristine' = pristine
            \/ /\ Unread # << >> /\ Unread' = Tail(Unread)
               /\ lost' = lost + 1 /\ pristine' = 0
<1>1. ring \in Seq(Byte) /\ wire \in Seq(Byte) /\ wire # << >>
  BY DEF LinkTypes, RxIsr
<1>2. Unread \in Seq(Byte)
  BY <1>1 DEF Unread
<1>3. wire' = Tail(wire) /\ ring' = Put(ring, Head(wire), RxCap)
  BY DEF RxIsr
<1>4. CASE Len(ring) < RxCap
  <2>1. ring' = Append(ring, Head(wire))
    BY <1>3, <1>4 DEF Put
  <2>2. Unread' = Unread
    BY <1>1, <1>3, <2>1, MoveByte DEF Unread
  <2> QED
    BY <1>2, <1>4, <2>2 DEF RxIsr
<1>5. CASE ~(Len(ring) < RxCap)
  <2>1. ring # << >>
    BY <1>5, LinkAssumption
  <2>2. Tail(ring) \in Seq(Byte)
    BY <1>1, <2>1
  <2>3. ring' = Append(Tail(ring), Head(wire))
    BY <1>3, <1>5 DEF Put
  <2>4. ring' \o wire' = Tail(ring) \o wire
    BY <1>1, <1>3, <2>2, <2>3, MoveByte
  <2>5. Unread # << >> /\ Unread' = Tail(Unread)
    BY <1>1, <2>1, <2>4, DropByte DEF Unread
  <2> QED
    BY <1>2, <1>5, <2>5 DEF RxIsr
<1> QED
  BY <1>4, <1>5

(* A byte lost on the wire is the one behind those in the buffer.          *)
LEMMA LoseUnread ==
  ASSUME LinkTypes, LoseByte
  PROVE  /\ Unread \in Seq(Byte) /\ Unread' \in Seq(Byte)
         /\ Len(Unread') = Len(Unread) - 1 /\ Len(Unread) \in Nat \ {0}
         /\ \E j \in 1..Len(Unread) :
              \A i \in 1..Len(Unread)-1 :
                Unread'[i] = IF i < j THEN Unread[i] ELSE Unread[i+1]
<1>1. ring \in Seq(Byte) /\ wire \in Seq(Byte) /\ wire # << >>
  BY DEF LinkTypes, LoseByte
<1>2. ring' = ring /\ wire' = Tail(wire)
  BY DEF LoseByte
<1> DEFINE t == Tail(wire)  n == Len(ring)  k == Len(wire)
<1>3. n \in Nat /\ k \in Nat \ {0}
  BY <1>1
<1>4. t \in Seq(Byte) /\ Len(t) = k - 1 /\ \A i \in 1..k-1 : t[i] = wire[i+1]
  BY <1>1, HeadTailProperties
<1> HIDE DEF t
<1>5. /\ Unread \in Seq(Byte) /\ Len(Unread) = n + k
      /\ \A i \in 1..n+k : Unread[i] = IF i <= n THEN ring[i] ELSE wire[i - n]
  BY <1>1, ConcatProperties DEF Unread
<1>6. /\ ring \o t \in Seq(Byte) /\ Len(ring \o t) = n + Len(t)
      /\ \A i \in 1..n+Len(t) : (ring \o t)[i] = IF i <= n THEN ring[i] ELSE t[i - n]
  BY <1>1, <1>4, ConcatProperties
<1>7. Unread' = ring \o t
  BY <1>2 DEF Unread, t
<1> DEFINE v == ring \o t
<1> HIDE DEF n, k, v
<1>8. ASSUME NEW i \in 1..n+k-1
      PROVE  v[i] = IF i < n + 1 THEN Unread[i] ELSE Unread[i+1]
  <2>1. CASE i <= n
    BY <1>3, <1>4, <1>5, <1>6, <2>1 DEF v
  <2>2. CASE i > n
    <3>1. i - n \in 1..k-1 /\ (i - n) + 1 = (i + 1) - n /\ i + 1 \in 1..n+k
      BY <1>3, <2>2
    <3>2. v[i] = t[i - n]
      BY <1>3, <1>4, <1>6, <2>2 DEF v
    <3>3. Unread[i+1] = wire[(i + 1) - n]
      BY <1>3, <1>5, <2>2, <3>1
    <3> QED
      BY <1>3, <1>4, <2>2, <3>1, <3>2, <3>3
  <2> QED
    BY <1>3, <2>1, <2>2
<1>9. n + 1 \in 1..Len(Unread) /\ Len(Unread) - 1 = n + k - 1
  BY <1>3, <1>5
<1>10. v \in Seq(Byte) /\ Len(v) = Len(Unread) - 1 /\ Unread' = v
  BY <1>3, <1>4, <1>5, <1>6, <1>7 DEF v
<1>11. Len(Unread) \in Nat \ {0}
  BY <1>3, <1>5
<1> QED
  BY <1>5, <1>8, <1>9, <1>10, <1>11

(* The camera puts a whole frame behind the unread bytes.                  *)
LEMMA SendUnread ==
  ASSUME LinkTypes
  PROVE  /\ Unread \in Seq(Byte)
         /\ \A c \in Cmds : SendSp(c) => Unread' = Unread \o SpeedFrame(c)
         /\ SendGate => Unread' = Unread \o GateFrame
<1>1. ring \in Seq(Byte) /\ wire \in Seq(Byte)
  BY DEF LinkTypes
<1>2. ring \o << >> = ring
  BY <1>1, ConcatEmptySeq
<1>3. ASSUME NEW c \in Cmds, SendSp(c) PROVE Unread' = Unread \o SpeedFrame(c)
  BY <1>2, <1>3 DEF SendSp, Unread
<1>4. ASSUME SendGate PROVE Unread' = Unread \o GateFrame
  BY <1>2, <1>4 DEF SendGate, Unread
<1>5. Unread \in Seq(Byte)
  BY <1>1 DEF Unread
<1> QED
  BY <1>3, <1>4, <1>5
-----------------------------------------------------------------------------
(* Where the decoder is: Rx_buffer is empty outside a packet, and only a   *)
(* tag leads to the gate request.                                          *)
Fresh ==
  /\ dec.step < 2 => dec.buf = << >>
  /\ dec.pc \in {"signal", "flag"} => dec.step = 1

(* One byte moves the decoder as StageAfter and FilledAfter say; it leaves *)
(* parsing only with the tag of a gate request or the last byte of a       *)
(* packet.                                                                 *)
LEMMA ReadPlace ==
  ASSUME LinkTypes, DecoderTypes, Fresh, DecoderRead
  PROVE  /\ Parsing /\ Place(Stage, Filled)
         /\ Stage' = StageAfter(Stage, Filled, Head(ring))
         /\ Filled' = FilledAfter(Stage, Filled)
         /\ dec'.pc \in {"read", "signal", "copy"}
         /\ dec'.pc = "signal" <=> Stage = 1 /\ Head(ring) = GateTag
         /\ dec'.pc = "copy" <=> Stage = 2 /\ Filled = 3
         /\ Filled = Len(dec.buf) /\ dec.buf \in Seq(Byte)
         /\ dec'.buf = IF Stage = 2 THEN Append(dec.buf, Head(ring)) ELSE dec.buf
         /\ Fresh'
<1> DEFINE b == Head(ring)
<1>1. dec.pc = "read" /\ DecoderParse(b)
  BY DEF DecoderRead
<1> HIDE DEF b
<1>2. /\ dec \in [pc : {"read", "take", "copy", "release", "signal", "flag"},
                  step : 0..2, buf : Seq(Byte)]
      /\ Len(dec.buf) \in 0..3
      /\ dec.step < 2 => dec.buf = << >> /\ Len(dec.buf) = 0
  <2>1. /\ dec \in [pc : {"read", "take", "copy", "release", "signal", "flag"},
                    step : 0..2, buf : Seq(Byte)]
        /\ Len(dec.buf) < 4
    BY <1>1 DEF DecoderTypes
  <2>2. Len(dec.buf) \in Nat
    BY <2>1, LenProperties
  <2>3. dec.step < 2 => dec.buf = << >> /\ Len(dec.buf) = 0
    BY EmptySeq DEF Fresh
  <2>4. Len(dec.buf) \in 0..3
    <3>1. ASSUME NEW n \in Nat, n < 4 PROVE n \in 0..3
      BY <3>1
    <3> QED
      BY <2>1, <2>2, <3>1
  <2> QED
    BY <2>1, <2>3, <2>4
<1>3. Parsing /\ Stage = dec.step /\ Filled = Len(dec.buf)
  BY <1>1 DEF Parsing, Stage, Filled
<1>4. Place(Stage, Filled)
  BY <1>2, <1>3 DEF Place
<1>5. CASE dec.step = 2
  <2>1. dec' = [pc   |-> IF Len(dec.buf) = 3 THEN "copy" ELSE "read",
                step |-> 2,
                buf  |-> Append(dec.buf, b)]
    BY <1>1, <1>5 DEF DecoderParse, Completes
  <2>2. Len(dec'.buf) = Len(dec.buf) + 1
    BY <1>2, <2>1 DEF b
  <2>3. Stage' = StageAfter(2, Filled, b) /\ Filled' = FilledAfter(2, Filled)
    BY <1>2, <1>3, <2>1, <2>2
       DEF Stage, Filled, Parsing, StageAfter, FilledAfter
  <2> QED
    BY <1>2, <1>3, <1>4, <1>5, <2>1, <2>3 DEF Fresh, b
<1>6. CASE dec.step = 1 /\ b = GateTag
  <2>1. dec' = [dec EXCEPT !.pc = "signal"]
    BY <1>1, <1>6 DEF DecoderParse
  <2>2. /\ dec'.pc = "signal" /\ dec'.step = 1 /\ dec'.buf = dec.buf
        /\ Stage' = 0 /\ Filled' = 0
    BY <1>2, <1>6, <2>1 DEF Stage, Filled, Parsing
  <2>3. StageAfter(1, Filled, b) = 0 /\ FilledAfter(1, Filled) = 0
    BY <1>6 DEF StageAfter, FilledAfter, NextStep, SpeedTag, GateTag
  <2> QED
    BY <1>2, <1>3, <1>4, <1>6, <2>2, <2>3 DEF Fresh, b
<1>7. CASE dec.step < 2 /\ ~(dec.step = 1 /\ b = GateTag)
  <2>1. dec' = [dec EXCEPT !.step = NextStep(dec.step, b)]
    BY <1>1, <1>7 DEF DecoderParse
  <2>2. /\ dec'.pc = "read" /\ dec'.step = NextStep(dec.step, b)
        /\ dec'.buf = dec.buf
    BY <1>1, <1>2, <2>1
  <2>3. Stage' = StageAfter(Stage, Filled, b) /\ Filled' = FilledAfter(Stage, Filled)
    BY <1>2, <1>3, <1>7, <2>2
       DEF Stage, Filled, Parsing, StageAfter, FilledAfter
  <2> QED
    BY <1>2, <1>3, <1>4, <1>7, <2>2, <2>3 DEF Fresh, b
<1> QED
  BY <1>2, <1>5, <1>6, <1>7

(* No other step moves the decoder in the stream.                          *)
LEMMA SamePlace ==
  ASSUME DecoderTypes, Fresh, [Next]_vars, ~DecoderRead
  PROVE  Stage' = Stage /\ Filled' = Filled /\ Fresh'
<1> USE DEF Stage, Filled, Parsing, Fresh
<1>1. dec \in [pc : {"read", "take", "copy", "release", "signal", "flag"},
               step : 0..2, buf : Seq(Byte)]
  BY DEF DecoderTypes
<1>2. CASE DecoderEmpty
  BY <1>1, <1>2 DEF DecoderEmpty
<1>3. CASE DecoderTake
  BY <1>1, <1>3 DEF DecoderTake
<1>4. CASE DecoderCopy
  BY <1>1, <1>4 DEF DecoderCopy
<1>5. CASE DecoderRelease
  BY <1>1, <1>5 DEF DecoderRelease, Restarted
<1>6. CASE DecoderSignal
  BY <1>1, <1>6 DEF DecoderSignal
<1>7. CASE DecoderFlag
  BY <1>1, <1>7 DEF DecoderFlag
<1>8. CASE UNCHANGED dec
  BY <1>8
<1> QED
  BY <1>2, <1>3, <1>4, <1>5, <1>6, <1>7, <1>8
     DEF Next, Camera, Decoder, Motor, SendSp, SendGate, LoseByte, RxIsr,
         GateOpened, MotorSet, MotorTake, MotorLoad, MotorConvert, vars, progVars
-----------------------------------------------------------------------------
(* No gate request is forged.  Of the bytes in flight all but those at one *)
(* gap g follow each other as the camera wrote them (a gap behind the last *)
(* byte is none, one before the first has been read over).                 *)
Gapped(U, h, gs, lab, g) ==
  /\ Labels(U, h, gs, lab)
  /\ g \in 0..Len(U)+1
  /\ \A i \in 1..Len(U) : i # g => Writes(h, lab[i], U[i], lab[i+1])
  /\ g \in 1..Len(U) => \E b \in Byte, m \in Label :
                          /\ Writes(h, lab[g], U[g], m)
                          /\ Writes(h, m, b, lab[g+1])

(* The bytes but the first have the gap where it was, or none any more.    *)
LEMMA GappedTail ==
  ASSUME NEW U \in Seq(Byte), U # << >>, NEW h, NEW gs, NEW lab, NEW g,
         Gapped(U, h, gs, lab, g)
  PROVE  Gapped(Tail(U), h, gs, Tail(lab), IF g = 0 THEN 0 ELSE g - 1)
<1> DEFINE n == Len(U)
           V == Tail(U)
           lab2 == Tail(lab)
           k == IF g = 0 THEN 0 ELSE g - 1
<1>1. /\ Labels(V, h, gs, lab2)
      /\ V \in Seq(Byte) /\ Len(V) = n - 1 /\ n \in Nat \ {0}
      /\ \A i \in 1..n-1 : V[i] = U[i+1]
      /\ \A i \in 1..n : lab2[i] = lab[i+1]
  <2>1. Labels(U, h, gs, lab)
    BY DEF Gapped
  <2>2. /\ Labels(Tail(U), h, gs, Tail(lab))
        /\ Tail(U) \in Seq(Byte) /\ Len(Tail(U)) = Len(U) - 1 /\ Len(U) \in Nat \ {0}
        /\ \A i \in 1..Len(U)-1 : Tail(U)[i] = U[i+1]
        /\ \A i \in 1..Len(U) : Tail(lab)[i] = lab[i+1]
    BY <2>1, TailLabels DEF Labels
  <2> QED
    BY <2>2
<1>2. /\ g \in 0..n+1
      /\ \A i \in 1..n : i # g => Writes(h, lab[i], U[i], lab[i+1])
      /\ g \in 1..n => \E b \in Byte, m \in Label :
                         /\ Writes(h, lab[g], U[g], m)
                         /\ Writes(h, m, b, lab[g+1])
  BY DEF Gapped
<1> HIDE DEF n, V, lab2
<1>3. k \in 0..Len(V)+1
  BY <1>1, <1>2
<1>4. ASSUME NEW i \in 1..Len(V), i # k
      PROVE  Writes(h, lab2[i], V[i], lab2[i+1])
  <2>1. i + 1 \in 1..n /\ i + 1 # g /\ i \in 1..n-1 /\ i \in 1..n
    BY <1>1, <1>2, <1>4
  <2>2. Writes(h, lab[i+1], U[i+1], lab[(i+1)+1])
    BY <1>2, <2>1
  <2> QED
    BY <1>1, <2>1, <2>2
<1>5. ASSUME k \in 1..Len(V)
      PROVE  \E b \in Byte, m \in Label : /\ Writes(h, lab2[k], V[k], m)
                                          /\ Writes(h, m, b, lab2[k+1])
  <2>1. g \in 1..n /\ k + 1 = g /\ k \in 1..n-1 /\ k \in 1..n /\ k + 1 \in 1..n
    BY <1>1, <1>2, <1>5
  <2>2. PICK b \in Byte, m \in Label :
          Writes(h, lab[g], U[g], m) /\ Writes(h, m, b, lab[g+1])
    BY <1>2, <2>1
  <2>3. lab2[k] = lab[g] /\ V[k] = U[g] /\ lab2[k+1] = lab[g+1]
    BY <1>1, <2>1
  <2> QED
    BY <2>2, <2>3
<1>6. Gapped(V, h, gs, lab2, k)
  BY <1>1, <1>3, <1>4, <1>5 DEF Gapped
<1> QED
  BY <1>6 DEF V, lab2

(* Losing the j-th byte in flight leaves a gap behind those before it.     *)
GapLeft(V, h, gs, lab, j) ==
  \E lab2 : /\ Gapped(V, h, gs, lab2, j - 1)
            /\ lab2[1] = IF j = 1 THEN lab[2] ELSE lab[1]

(* The first byte that is lost leaves a gap.                               *)
LEMMA GappedLoss ==
  ASSUME NEW U \in Seq(Byte), NEW h, NEW gs, NEW lab,
         Gapped(U, h, gs, lab, Len(U) + 1),
         NEW V \in Seq(Byte), Len(V) = Len(U) - 1, NEW j \in 1..Len(U),
         \A i \in 1..Len(U)-1 : V[i] = IF i < j THEN U[i] ELSE U[i+1]
  PROVE  GapLeft(V, h, gs, lab, j)
<1> DEFINE n == Len(U)
           lab2 == [i \in 1..n |-> IF i < j THEN lab[i] ELSE lab[i+1]]
<1>1. n \in Nat \ {0} /\ Len(V) = n - 1 /\ Len(V) + 1 = n
  OBVIOUS
<1>2. /\ lab \in Seq(Label) /\ Len(lab) = n + 1
      /\ lab[n + 1] = Between(Len(h), gs)
      /\ \A i \in 1..n+1 : lab[i].num <= Len(h) /\ lab[i].gn <= gs
      /\ \A i \in 1..n : Writes(h, lab[i], U[i], lab[i+1])
  BY <1>1 DEF Gapped, Labels
<1> HIDE DEF n
<1>3. \A i \in 1..n : lab2[i] = IF i < j THEN lab[i] ELSE lab[i+1]
  OBVIOUS
<1>4. lab2 \in Seq(Label) /\ Len(lab2) = n
  <2>1. \A i \in 1..n+1 : lab[i] \in Label
    BY <1>1, <1>2
  <2>2. \A i \in 1..n : i \in 1..n+1 /\ i + 1 \in 1..n+1
    BY <1>1
  <2>3. lab2 \in [1..n -> Label]
    BY <2>1, <2>2
  <2> QED
    BY <1>1, <2>3
<1> HIDE DEF lab2
<1>j. j \in 1..n
  BY DEF n
<1>5. lab2[n] = Between(Len(h), gs)
  BY <1>1, <1>2, <1>3, <1>j
<1>6. \A i \in 1..n : lab2[i].num <= Len(h) /\ lab2[i].gn <= gs
  <2>1. \A i \in 1..n : i \in 1..n+1 /\ i + 1 \in 1..n+1
    BY <1>1
  <2> QED
    BY <1>2, <1>3, <2>1
<1>7. Labels(V, h, gs, lab2)
  BY <1>1, <1>4, <1>5, <1>6 DEF Labels
<1>8. ASSUME NEW i \in 1..n-1, i # j - 1
      PROVE  Writes(h, lab2[i], V[i], lab2[i+1])
  <2>1. i \in 1..n /\ i + 1 \in 1..n
    BY <1>1
  <2>2. CASE i < j
    <3>1. lab2[i] = lab[i] /\ lab2[i+1] = lab[i+1] /\ V[i] = U[i]
      BY <1>1, <1>3, <1>8, <1>j, <2>1, <2>2 DEF n
    <3> QED
      BY <1>2, <2>1, <3>1
  <2>3. CASE ~(i < j)
    <3>1. lab2[i] = lab[i+1] /\ lab2[i+1] = lab[(i+1)+1] /\ V[i] = U[i+1]
      BY <1>1, <1>3, <1>8, <1>j, <2>1, <2>3 DEF n
    <3> QED
      BY <1>2, <2>1, <3>1
  <2> QED
    BY <2>2, <2>3
<1>9. ASSUME j - 1 \in 1..n-1
      PROVE  \E b \in Byte, m \in Label : /\ Writes(h, lab2[j-1], V[j-1], m)
                                          /\ Writes(h, m, b, lab2[(j-1)+1])
  <2>1. j - 1 \in 1..n /\ (j - 1) + 1 = j /\ j - 1 < j /\ j \in 1..n+1
    BY <1>1, <1>j, <1>9
  <2>2. lab2[j-1] = lab[j-1] /\ lab2[j] = lab[j+1]
    BY <1>1, <1>3, <1>j, <2>1
  <2>3. V[j-1] = U[j-1]
    BY <1>9, <2>1 DEF n
  <2>4. Writes(h, lab[j-1], U[j-1], lab[j]) /\ Writes(h, lab[j], U[j], lab[j+1])
    BY <1>2, <1>j, <2>1
  <2>5. U[j] \in Byte /\ lab[j] \in Label
    BY <1>1, <1>2, <1>j, <2>1 DEF n
  <2> QED
    BY <2>1, <2>2, <2>3, <2>4, <2>5
<1>10. Gapped(V, h, gs, lab2, j - 1)
  <2>1. j - 1 \in 0..Len(V)+1
    BY <1>1, <1>j
  <2> QED
    BY <1>1, <1>7, <1>8, <1>9, <2>1 DEF Gapped
<1>11. lab2[1] = IF j = 1 THEN lab[2] ELSE lab[1]
  BY <1>1, <1>3, <1>j
<1> QED
  BY <1>10, <1>11 DEF GapLeft

(* The gap stays where it is when a frame is written.                      *)
GapKept(U, lab, g, F, more, h2, gs2) ==
  /\ g <= Len(U) => Gapped(U \o F, h2, gs2, lab \o more, g)
  /\ g = Len(U) + 1 => Gapped(U \o F, h2, gs2, lab \o more, Len(U \o F) + 1)
  /\ (lab \o more)[1] = lab[1]

(* A frame written behind them.                                            *)
LEMMA GappedFrame ==
  ASSUME NEW U \in Seq(Byte), NEW h \in Seq(Cmds), NEW gs \in Nat,
         NEW lab, NEW g, Gapped(U, h, gs, lab, g),
         NEW F, NEW h2, NEW gs2, NEW more, Framed(h, gs, F, h2, gs2, more)
  PROVE  GapKept(U, lab, g, F, more, h2, gs2)
<1> DEFINE u == Len(U)
           f == Len(F)
           W == U \o F
           lab2 == lab \o more
<1>1. /\ Labels(U, h, gs, lab) /\ lab \in Seq(Label) /\ Len(lab) = u + 1
      /\ g \in 0..u+1
      /\ \A i \in 1..u : i # g => Writes(h, lab[i], U[i], lab[i+1])
      /\ g \in 1..u => \E b \in Byte, m \in Label :
                         Writes(h, lab[g], U[g], m) /\ Writes(h, m, b, lab[g+1])
  BY DEF Gapped, Labels
<1>2. /\ Labels(W, h2, gs2, lab2)
      /\ W \in Seq(Byte) /\ Len(W) = u + f
      /\ \A i \in 1..u+1 : lab2[i] = lab[i]
      /\ \A i \in 1..u : W[i] = U[i]
      /\ \A i \in u+1..u+f : Writes(h2, lab2[i], W[i], lab2[i+1])
  <2>1. Labels(U, h, gs, lab)
    BY <1>1
  <2>2. Extended(U, lab, F, more, h2, gs2)
    BY <2>1, MoreLabels
  <2> QED
    BY <2>2 DEF Extended
<1>3. u \in Nat /\ f \in Nat \ {0}
  BY DEF Framed
<1>4. \A i \in 1..u : U[i] \in Byte /\ lab[i] \in Label
  BY <1>1, <1>3
<1>w. \A l \in Label, b \in Byte : \A m : Writes(h, l, b, m) => Writes(h2, l, b, m)
  BY DEF Framed
<1> HIDE DEF u, f, W, lab2
<1>5. ASSUME NEW i \in 1..u+f, i # g PROVE Writes(h2, lab2[i], W[i], lab2[i+1])
  <2>1. CASE i <= u
    <3>1. i \in 1..u /\ i \in 1..u+1 /\ i + 1 \in 1..u+1
      BY <1>3, <2>1
    <3>2. Writes(h, lab[i], U[i], lab[i+1]) /\ U[i] \in Byte /\ lab[i] \in Label
      BY <1>1, <1>4, <1>5, <3>1
    <3>3. Writes(h2, lab[i], U[i], lab[i+1])
      BY <1>w, <3>2
    <3>4. lab2[i] = lab[i] /\ W[i] = U[i] /\ lab2[i+1] = lab[i+1]
      BY <1>2, <3>1
    <3> QED
      BY <3>3, <3>4
  <2>2. CASE i > u
    <3>1. i \in u+1..u+f
      BY <1>3, <2>2
    <3> QED
      BY <1>2, <3>1
  <2> QED
    BY <1>3, <2>1, <2>2
<1>6. ASSUME g \in 1..u
      PROVE  \E b \in Byte, m \in Label : /\ Writes(h2, lab2[g], W[g], m)
                                          /\ Writes(h2, m, b, lab2[g+1])
  <2>1. PICK b \in Byte, m \in Label :
          Writes(h, lab[g], U[g], m) /\ Writes(h, m, b, lab[g+1])
    BY <1>1, <1>6
  <2>2. Writes(h2, lab[g], U[g], m) /\ Writes(h2, m, b, lab[g+1])
    BY <1>w, <1>4, <1>6, <2>1
  <2>3. g \in 1..u+1 /\ g + 1 \in 1..u+1
    BY <1>3, <1>6
  <2> QED
    BY <1>2, <1>6, <2>2, <2>3
<1>7. ASSUME g <= u PROVE Gapped(W, h2, gs2, lab2, g)
  <2>1. g \in 0..u+f+1 /\ (g \in 1..u+f => g \in 1..u)
    BY <1>1, <1>3, <1>7
  <2> QED
    BY <1>2, <1>5, <1>6, <2>1 DEF Gapped
<1>8. ASSUME g = u + 1 PROVE Gapped(W, h2, gs2, lab2, u + f + 1)
  <2>1. ASSUME NEW i \in 1..u+f PROVE Writes(h2, lab2[i], W[i], lab2[i+1])
    <3>1. CASE i = g
      BY <1>2, <1>3, <1>8, <3>1
    <3> QED
      BY <1>5, <3>1
  <2>2. u + f + 1 \in 0..u+f+1 /\ u + f + 1 \notin 1..u+f
    BY <1>3
  <2> QED
    BY <1>2, <2>1, <2>2 DEF Gapped
<1>9. lab2[1] = lab[1]
  BY <1>2, <1>3
<1> QED
  BY <1>2, <1>7, <1>8, <1>9 DEF GapKept, u, W, lab2

(* The requests signalled so far, that of a decoder about to do so         *)
(* included, are among those the camera has completed up to the byte the   *)
(* decoder reads next.                                                     *)
Signalled == sem.infrared + (IF dec.pc = "signal" THEN 1 ELSE 0)

Traced ==
  \E lab, g :
    /\ Gapped(Unread, sent, gates, lab, g)
    /\ lost = 0 => g = Len(Unread) + 1
    /\ lost = 1 => g <= Len(Unread)
    /\ g # 0 => OnTrack(Stage, Filled, lab[1])
    /\ OneShort(Stage, Filled, lab[1]) \/ OnTrack(Stage, Filled, lab[1])
    /\ Signalled <= lab[1].gn

GateInv ==
  /\ Fresh
  /\ stopFlag = 1 \/ dec.pc = "flag" => sem.infrared > 0
  /\ lost <= 1 => Traced

(* At first nothing is on its way and the decoder is on track.             *)
LEMMA InitGateInv == Init => GateInv
<1> SUFFICES ASSUME Init PROVE GateInv
  OBVIOUS
<1> DEFINE lab == << Between(0, 0) >>
<1>1. Unread = << >> /\ sent = << >> /\ gates = 0 /\ lost = 0 /\ Len(Unread) = 0
  <2>1. << >> \in Seq(Byte) /\ ring = << >> /\ wire = << >>
    BY EmptySeq DEF Init
  <2> QED
    BY <2>1, ConcatEmptySeq DEF Init, Unread
<1>2. /\ lab \in Seq(Label) /\ Len(lab) = 1 /\ lab[1] = Between(0, 0)
      /\ lab[1].ph = 0 /\ lab[1].num = 0 /\ lab[1].gn = 0
  BY DEF Label, Between
<1> HIDE DEF lab
<1>3. Len(sent) = 0
  BY <1>1
<1>4. Labels(Unread, sent, gates, lab)
  BY <1>1, <1>2, <1>3 DEF Labels
<1>5. Gapped(Unread, sent, gates, lab, 1)
  BY <1>1, <1>4 DEF Gapped
<1>6. Stage = 0 /\ Filled = 0 /\ Signalled = 0
  BY EmptySeq DEF Init, Stage, Filled, Parsing, Signalled
<1>7. OnTrack(Stage, Filled, lab[1])
  BY <1>2, <1>6 DEF OnTrack
<1>8. Traced
  BY <1>1, <1>2, <1>5, <1>6, <1>7 DEF Traced
<1> QED
  BY <1>8 DEF GateInv, Fresh, Init

(* The decoder is always at a place of a frame.                            *)
LEMMA AlwaysPlace ==
  ASSUME DecoderTypes, Fresh
  PROVE  Place(Stage, Filled)
<1>1. /\ dec \in [pc : {"read", "take", "copy", "release", "signal", "flag"},
                  step : 0..2, buf : Seq(Byte)]
      /\ Parsing => Len(dec.buf) < 4
      /\ dec.step < 2 => dec.buf = << >>
  BY DEF DecoderTypes, Parsing, Fresh
<1>2. Len(dec.buf) \in Nat /\ (dec.step < 2 => Len(dec.buf) = 0)
  BY <1>1, LenProperties, EmptySeq
<1>3. Filled \in 0..3
  <2>1. ASSUME NEW n \in Nat, n < 4 PROVE n \in 0..3
    BY <2>1
  <2>2. CASE Parsing
    <3>1. Filled = Len(dec.buf) /\ Len(dec.buf) < 4
      BY <1>1, <2>2 DEF Filled
    <3> QED
      BY <1>2, <2>1, <3>1
  <2>3. CASE ~Parsing
    BY <2>3 DEF Filled
  <2> QED
    BY <2>2, <2>3
<1>4. Stage \in 0..2 /\ (Stage < 2 => Filled = 0)
  BY <1>1, <1>2 DEF Stage, Filled
<1> QED
  BY <1>3, <1>4 DEF Place

(* Behind a byte the number of gate requests is the same or greater.       *)
LEMMA WritesLabel ==
  ASSUME NEW h, NEW l \in Label, NEW b, NEW m, Writes(h, l, b, m)
  PROVE  m \in Label /\ m.gn >= l.gn
<1>1. l.ph \in 0..5 /\ l.num \in Nat /\ l.gn \in Nat
  BY DEF Label
<1>2. CASE l.ph = 0
  BY <1>1, <1>2 DEF Writes, Label
<1>3. CASE l.ph = 1
  BY <1>1, <1>3 DEF Writes, Label
<1>4. CASE l.ph \in 2..5
  BY <1>1, <1>4 DEF Writes, Label
<1> QED
  BY <1>1, <1>2, <1>3, <1>4

(* Losing the first byte.                                                  *)
LEMMA TracedLoss ==
  ASSUME TypeOK, Fresh, Traced, lost = 0, lost' = 1,
         Stage' = Stage, Filled' = Filled, Signalled' = Signalled,
         sent' = sent, gates' = gates,
         Unread \in Seq(Byte), Unread' \in Seq(Byte),
         Len(Unread') = Len(Unread) - 1, NEW j \in 1..Len(Unread),
         \A i \in 1..Len(Unread)-1 :
           Unread'[i] = IF i < j THEN Unread[i] ELSE Unread[i+1]
  PROVE  Traced'
<1>1. PICK lab, g :
        /\ Gapped(Unread, sent, gates, lab, g)
        /\ lost = 0 => g = Len(Unread) + 1
        /\ lost = 1 => g <= Len(Unread)
        /\ g # 0 => OnTrack(Stage, Filled, lab[1])
        /\ OneShort(Stage, Filled, lab[1]) \/ OnTrack(Stage, Filled, lab[1])
        /\ Signalled <= lab[1].gn
  BY DEF Traced
<1>2. Len(Unread) \in Nat /\ 1 \in 1..Len(Unread) /\ 2 \in 1..Len(Unread)+1
  OBVIOUS
<1>3. g = Len(Unread) + 1 /\ g # 0 /\ g # 1
  BY <1>1, <1>2
<1>4. OnTrack(Stage, Filled, lab[1]) /\ Place(Stage, Filled)
  BY <1>1, <1>3, AlwaysPlace DEF TypeOK
<1>5. Gapped(Unread, sent, gates, lab, Len(Unread) + 1)
  BY <1>1, <1>3
<1>6. PICK lab2 : /\ Gapped(Unread', sent, gates, lab2, j - 1)
                  /\ lab2[1] = IF j = 1 THEN lab[2] ELSE lab[1]
  <2> DEFINE U == Unread
             V == Unread'
  <2>1. /\ V \in Seq(Byte) /\ Len(V) = Len(U) - 1 /\ j \in 1..Len(U)
        /\ U \in Seq(Byte) /\ Gapped(U, sent, gates, lab, Len(U) + 1)
        /\ \A i \in 1..Len(U)-1 : V[i] = IF i < j THEN U[i] ELSE U[i+1]
    BY <1>5
  <2> HIDE DEF U, V
  <2>2. GapLeft(V, sent, gates, lab, j)
    BY <2>1, GappedLoss
  <2> QED
    BY <2>2 DEF V, GapLeft
<1>7. /\ lab[1] \in Label /\ lab[2] \in Label /\ Unread[1] \in Byte
      /\ Writes(sent, lab[1], Unread[1], lab[2])
  <2>1. Writes(sent, lab[1], Unread[1], lab[2])
    BY <1>2, <1>3, <1>5 DEF Gapped
  <2>2. lab \in Seq(Label) /\ Len(lab) = Len(Unread) + 1
    BY <1>5 DEF Gapped, Labels
  <2> QED
    BY <1>2, <2>1, <2>2
<1>8. sent \in Seq(Cmds)
  BY DEF TypeOK, HistoryTypes
<1>9. OneShort(Stage, Filled, lab[2]) /\ lab[1].gn <= lab[2].gn
  BY <1>4, <1>7, <1>8, FallsOneShort, WritesLabel
<1>10. Signalled <= lab2[1].gn
  <2>1. Signalled \in Nat
    <3>1. sem.infrared \in Nat
      BY DEF TypeOK, LinkTypes
    <3> QED
      BY <3>1 DEF Signalled
  <2>2. lab[1].gn \in Nat /\ lab[2].gn \in Nat
    BY <1>7 DEF Label
  <2> QED
    BY <1>1, <1>6, <1>9, <2>1, <2>2
<1>11. /\ j - 1 # 0 => OnTrack(Stage, Filled, lab2[1])
       /\ OneShort(Stage, Filled, lab2[1]) \/ OnTrack(Stage, Filled, lab2[1])
  BY <1>4, <1>6, <1>9
<1>12. j - 1 <= Len(Unread')
  BY <1>2
<1> DEFINE k == j - 1
<1> HIDE DEF k
<1>13. /\ Gapped(Unread', sent', gates', lab2, k)
       /\ lost' = 0 => k = Len(Unread') + 1
       /\ lost' = 1 => k <= Len(Unread')
       /\ k # 0 => OnTrack(Stage', Filled', lab2[1])
       /\ OneShort(Stage', Filled', lab2[1]) \/ OnTrack(Stage', Filled', lab2[1])
       /\ Signalled' <= lab2[1].gn
  BY <1>6, <1>10, <1>11, <1>12 DEF k
<1> QED
  BY <1>13 DEF Traced

(* Reading a byte, and passing the gap.                                    *)
LEMMA TracedRead ==
  ASSUME LeftNeverOne, TypeOK, Fresh, Traced, DecoderRead
  PROVE  Traced'
<1>1. PICK lab, g :
        /\ Gapped(Unread, sent, gates, lab, g)
        /\ lost = 0 => g = Len(Unread) + 1
        /\ lost = 1 => g <= Len(Unread)
        /\ g # 0 => OnTrack(Stage, Filled, lab[1])
        /\ OneShort(Stage, Filled, lab[1]) \/ OnTrack(Stage, Filled, lab[1])
        /\ Signalled <= lab[1].gn
  BY DEF Traced
<1> DEFINE b == Head(ring)
           s2 == StageAfter(Stage, Filled, b)
           n2 == FilledAfter(Stage, Filled)
           k == IF g = 0 THEN 0 ELSE g - 1
           lab2 == Tail(lab)
           U == Unread
<1>2. /\ U \in Seq(Byte) /\ U # << >> /\ U[1] = b /\ b \in Byte
      /\ Unread' = Tail(U)
  BY ReadUnread DEF TypeOK
<1>3. /\ Place(Stage, Filled) /\ Stage' = s2 /\ Filled' = n2
      /\ dec.pc = "read" /\ dec'.pc \in {"read", "signal", "copy"}
      /\ dec'.pc = "signal" <=> Stage = 1 /\ b = GateTag
  BY ReadPlace DEF TypeOK, DecoderRead
<1>4. /\ sent' = sent /\ gates' = gates /\ lost' = lost /\ sem' = sem
  BY DEF DecoderRead, histVars
<1> HIDE DEF b, s2, n2, k, lab2, U
<1>5. Gapped(U, sent, gates, lab, g) /\ Len(U) \in Nat \ {0} /\ g \in 0..Len(U)+1
  BY <1>1, <1>2 DEF U, Gapped
<1>6. Gapped(Tail(U), sent, gates, lab2, k)
  BY <1>2, <1>5, GappedTail DEF lab2, k
<1>7. Labels(U, sent, gates, lab)
  BY <1>5 DEF Gapped
<1>8. lab2[1] = lab[2] /\ Len(Tail(U)) = Len(U) - 1
  <2>1. /\ \A i \in 1..Len(U) : lab2[i] = lab[i+1]
        /\ Len(Tail(U)) = Len(U) - 1
    BY <1>2, <1>7, TailLabels DEF lab2, Labels
  <2>2. 1 \in 1..Len(U) /\ 1 + 1 = 2
    BY <1>5
  <2> QED
    BY <2>1, <2>2
<1>9. lab[1] \in Label /\ lab[2] \in Label
  <2>1. lab \in Seq(Label) /\ Len(lab) = Len(U) + 1
    BY <1>7 DEF Labels
  <2>2. 1 \in 1..Len(U)+1 /\ 2 \in 1..Len(U)+1
    BY <1>5
  <2> QED
    BY <2>1, <2>2
<1>10. sent \in Seq(Cmds) /\ sem.infrared \in Nat
  BY DEF TypeOK, HistoryTypes, LinkTypes
<1>11. Signalled = sem.infrared
       /\ Signalled' = sem.infrared + (IF Stage = 1 /\ b = GateTag THEN 1 ELSE 0)
  <2>1. Signalled = sem.infrared
    <3>1. dec.pc # "signal"
      BY <1>3
    <3> QED
      BY <1>10, <3>1 DEF Signalled
  <2>2. Signalled' = sem.infrared + (IF dec'.pc = "signal" THEN 1 ELSE 0)
    BY <1>4 DEF Signalled
  <2> QED
    BY <1>3, <2>1, <2>2
<1>12. CASE g = 1
  <2>1. PICK c \in Byte, m \in Label :
          Writes(sent, lab[1], b, m) /\ Writes(sent, m, c, lab[2])
    <3>1. 1 \in 1..Len(U) /\ 1 + 1 = 2
      BY <1>5
    <3> QED
      BY <1>2, <1>5, <1>12, <3>1 DEF Gapped
  <2>2. OnTrack(Stage, Filled, lab[1])
    BY <1>1, <1>12
  <2>3. /\ OnTrack(s2, n2, m) /\ Place(s2, n2)
        /\ Stage = 1 /\ b = GateTag => m.gn = lab[1].gn + 1
    BY <1>2, <1>3, <1>9, <1>10, <2>1, <2>2, StaysOnTrack DEF s2, n2
  <2>4. OneShort(s2, n2, lab[2])
    BY <1>9, <1>10, <2>1, <2>3, FallsOneShort
  <2>5. m.gn >= lab[1].gn /\ lab[2].gn >= m.gn
    BY <1>9, <2>1, WritesLabel
  <2>6. Signalled' <= lab[2].gn
    <3>1. lab[1].gn \in Nat /\ lab[2].gn \in Nat /\ m.gn \in Nat
      BY <1>9 DEF Label
    <3>2. sem.infrared <= lab[1].gn
      BY <1>1, <1>11
    <3>3. CASE Stage = 1 /\ b = GateTag
      BY <1>10, <1>11, <2>3, <2>5, <3>1, <3>2, <3>3
    <3>4. CASE ~(Stage = 1 /\ b = GateTag)
      BY <1>10, <1>11, <2>5, <3>1, <3>2, <3>4
    <3> QED
      BY <3>3, <3>4
  <2>7. k = 0
    BY <1>12 DEF k
  <2>8. lost' # 0 /\ 0 <= Len(Unread')
    BY <1>1, <1>2, <1>4, <1>5, <1>8, <1>12 DEF U
  <2>9. /\ Gapped(Unread', sent', gates', lab2, k)
        /\ lost' = 0 => k = Len(Unread') + 1
        /\ lost' = 1 => k <= Len(Unread')
        /\ k # 0 => OnTrack(Stage', Filled', lab2[1])
        /\ OneShort(Stage', Filled', lab2[1]) \/ OnTrack(Stage', Filled', lab2[1])
        /\ Signalled' <= lab2[1].gn
    BY <1>2, <1>3, <1>4, <1>6, <1>8, <2>4, <2>6, <2>7, <2>8
  <2> QED
    BY <2>9 DEF Traced
<1>13. CASE g # 1
  <2>1. Writes(sent, lab[1], b, lab[2])
    <3>1. 1 \in 1..Len(U) /\ 1 + 1 = 2
      BY <1>5
    <3> QED
      BY <1>2, <1>5, <1>13, <3>1 DEF Gapped
  <2>2. ASSUME OnTrack(Stage, Filled, lab[1])
        PROVE  /\ OnTrack(s2, n2, lab[2])
               /\ Stage = 1 /\ b = GateTag => lab[2].gn = lab[1].gn + 1
    BY <1>2, <1>3, <1>9, <1>10, <2>1, <2>2, StaysOnTrack DEF s2, n2
  <2>3. ASSUME OneShort(Stage, Filled, lab[1])
        PROVE  /\ OneShort(s2, n2, lab[2]) \/ OnTrack(s2, n2, lab[2])
               /\ Stage = 1 => b # GateTag
    BY <1>2, <1>3, <1>9, <1>10, <2>1, <2>3, StaysOneShort DEF s2, n2
  <2>4. lab[2].gn >= lab[1].gn
    BY <1>9, <2>1, WritesLabel
  <2>5. Signalled' <= lab[2].gn
    <3>1. lab[1].gn \in Nat /\ lab[2].gn \in Nat
      BY <1>9 DEF Label
    <3>2. sem.infrared <= lab[1].gn
      BY <1>1, <1>11
    <3>3. CASE Stage = 1 /\ b = GateTag
      <4>1. lab[2].gn = lab[1].gn + 1
        BY <1>1, <2>2, <2>3, <3>3
      <4> QED
        BY <1>10, <1>11, <3>1, <3>2, <3>3, <4>1
    <3>4. CASE ~(Stage = 1 /\ b = GateTag)
      BY <1>10, <1>11, <2>4, <3>1, <3>2, <3>4
    <3> QED
      BY <3>3, <3>4
  <2>6. /\ lost' = 0 => k = Len(Unread') + 1
        /\ lost' = 1 => k <= Len(Unread')
        /\ k # 0 => g # 0
    BY <1>1, <1>2, <1>4, <1>5, <1>8, <1>13 DEF k, U
  <2>7. /\ Gapped(Unread', sent', gates', lab2, k)
        /\ lost' = 0 => k = Len(Unread') + 1
        /\ lost' = 1 => k <= Len(Unread')
        /\ k # 0 => OnTrack(Stage', Filled', lab2[1])
        /\ OneShort(Stage', Filled', lab2[1]) \/ OnTrack(Stage', Filled', lab2[1])
        /\ Signalled' <= lab2[1].gn
    BY <1>1, <1>2, <1>3, <1>4, <1>6, <1>8, <2>2, <2>3, <2>5, <2>6
  <2> QED
    BY <2>7 DEF Traced
<1> QED
  BY <1>12, <1>13

(* Writing a frame.                                                        *)
LEMMA TracedFrame ==
  ASSUME TypeOK, Traced, NEW F, NEW more,
         Framed(sent, gates, F, sent', gates', more), Unread' = Unread \o F,
         Unread \in Seq(Byte), Stage' = Stage, Filled' = Filled,
         Signalled' = Signalled, lost' = lost
  PROVE  Traced'
<1>1. PICK lab, g :
        /\ Gapped(Unread, sent, gates, lab, g)
        /\ lost = 0 => g = Len(Unread) + 1
        /\ lost = 1 => g <= Len(Unread)
        /\ g # 0 => OnTrack(Stage, Filled, lab[1])
        /\ OneShort(Stage, Filled, lab[1]) \/ OnTrack(Stage, Filled, lab[1])
        /\ Signalled <= lab[1].gn
  BY DEF Traced
<1> DEFINE U == Unread
           W == U \o F
           h2 == sent'
           gs2 == gates'
           lab2 == lab \o more
           k == IF g <= Len(U) THEN g ELSE Len(W) + 1
<1>2. sent \in Seq(Cmds) /\ gates \in Nat /\ U \in Seq(Byte)
  BY DEF TypeOK, HistoryTypes
<1>3. Framed(sent, gates, F, h2, gs2, more) /\ Gapped(U, sent, gates, lab, g)
  BY <1>1
<1>4. Len(U) \in Nat /\ Len(W) \in Nat /\ Len(U) <= Len(W) /\ Unread' = W
  <2>1. F \in Seq(Byte)
    BY <1>3 DEF Framed
  <2>2. Len(F) \in Nat /\ Len(W) = Len(U) + Len(F)
    BY <1>2, <2>1
  <2> QED
    BY <1>2, <2>2
<1> HIDE DEF U, h2, gs2
<1>5. /\ g <= Len(U) => Gapped(W, h2, gs2, lab2, g)
      /\ g = Len(U) + 1 => Gapped(W, h2, gs2, lab2, Len(W) + 1)
      /\ lab2[1] = lab[1]
  <2>1. GapKept(U, lab, g, F, more, h2, gs2)
    BY <1>2, <1>3, GappedFrame
  <2> QED
    BY <2>1 DEF GapKept
<1> HIDE DEF W, lab2
<1>6. g \in 0..Len(U)+1
  BY <1>3 DEF Gapped
<1>7. Gapped(W, h2, gs2, lab2, k) /\ (k # 0 => g # 0)
  BY <1>4, <1>5, <1>6
<1>8. /\ lost' = 0 => k = Len(W) + 1
      /\ lost' = 1 => k <= Len(W)
  BY <1>1, <1>4, <1>6 DEF U
<1> HIDE DEF k
<1>9. /\ Gapped(Unread', sent', gates', lab2, k)
      /\ lost' = 0 => k = Len(Unread') + 1
      /\ lost' = 1 => k <= Len(Unread')
      /\ k # 0 => OnTrack(Stage', Filled', lab2[1])
      /\ OneShort(Stage', Filled', lab2[1]) \/ OnTrack(Stage', Filled', lab2[1])
      /\ Signalled' <= lab2[1].gn
  BY <1>1, <1>4, <1>5, <1>7, <1>8 DEF h2, gs2
<1> QED
  BY <1>9 DEF Traced

(* A step that moves neither the decoder nor the bytes, and signals no     *)
(* request but the one it was at.                                          *)
LEMMA TracedStill ==
  ASSUME TypeOK, Traced, UNCHANGED <<sent, gates, lost>>, Unread' = Unread,
         Stage' = Stage, Filled' = Filled,
         Signalled' \in Nat, Signalled' <= Signalled
  PROVE  Traced'
<1>1. PICK lab, g :
        /\ Gapped(Unread, sent, gates, lab, g)
        /\ lost = 0 => g = Len(Unread) + 1
        /\ lost = 1 => g <= Len(Unread)
        /\ g # 0 => OnTrack(Stage, Filled, lab[1])
        /\ OneShort(Stage, Filled, lab[1]) \/ OnTrack(Stage, Filled, lab[1])
        /\ Signalled <= lab[1].gn
  BY DEF Traced
<1>2. lab[1].gn \in Nat
  <2>1. lab \in Seq(Label) /\ Len(lab) = Len(Unread) + 1 /\ Len(Unread) \in Nat
    <3>1. Unread \in Seq(Byte)
      BY DEF TypeOK, LinkTypes, Unread
    <3> QED
      BY <1>1, <3>1 DEF Gapped, Labels
  <2>2. 1 \in 1..Len(lab)
    BY <2>1
  <2>3. lab[1] \in Label
    BY <2>1, <2>2
  <2> QED
    BY <2>3 DEF Label
<1>3. Signalled \in Nat
  <2>1. sem.infrared \in Nat
    BY DEF TypeOK, LinkTypes
  <2> QED
    BY <2>1 DEF Signalled
<1>4. Signalled' <= lab[1].gn
  BY <1>1, <1>2, <1>3
<1>5. /\ Gapped(Unread', sent', gates', lab, g)
      /\ lost' = 0 => g = Len(Unread') + 1
      /\ lost' = 1 => g <= Len(Unread')
      /\ g # 0 => OnTrack(Stage', Filled', lab[1])
      /\ OneShort(Stage', Filled', lab[1]) \/ OnTrack(Stage', Filled', lab[1])
      /\ Signalled' <= lab[1].gn
  BY <1>1, <1>4
<1> QED
  BY <1>5 DEF Traced

(* Every step keeps the trace of the requests.                             *)
LEMMA TracedStep ==
  ASSUME LeftNeverOne, TypeOK, Fresh, Traced, [Next]_vars, lost' <= 1
  PROVE  Traced'
<1>t. /\ LinkTypes /\ DecoderTypes /\ lost \in Nat /\ sent \in Seq(Cmds) /\ gates \in Nat
      /\ sem \in [decoder : 0..SemMax, motor : 0..SemMax, infrared : 0..SemMax]
  BY DEF TypeOK, LinkTypes, HistoryTypes
<1>1. CASE DecoderRead
  BY <1>1, TracedRead
<1>2. ASSUME ~DecoderRead
      PROVE  Stage' = Stage /\ Filled' = Filled /\ Fresh'
  BY <1>t, <1>2, SamePlace
<1>3. ASSUME NEW c \in Cmds, SendSp(c) PROVE Traced'
  <2>1. /\ sent' = Append(sent, c) /\ gates' = gates /\ lost' = lost
        /\ dec' = dec /\ sem' = sem
    BY <1>3 DEF SendSp
  <2>2. Unread \in Seq(Byte) /\ Unread' = Unread \o SpeedFrame(c)
    BY <1>t, <1>3, SendUnread
  <2>3. Framed(sent, gates, SpeedFrame(c), sent', gates', SpeedLabels(Len(sent), gates))
    BY <1>t, <2>1, SpeedFramed
  <2>4. Stage' = Stage /\ Filled' = Filled /\ Signalled' = Signalled
    BY <2>1 DEF Stage, Filled, Parsing, Signalled
  <2> QED
    BY <2>1, <2>2, <2>3, <2>4, TracedFrame
<1>4. CASE SendGate
  <2>1. /\ sent' = sent /\ gates' = gates + 1 /\ lost' = lost
        /\ dec' = dec /\ sem' = sem
    BY <1>4 DEF SendGate
  <2>2. Unread \in Seq(Byte) /\ Unread' = Unread \o GateFrame
    BY <1>t, <1>4, SendUnread
  <2>3. Framed(sent, gates, GateFrame, sent', gates', GateLabels(Len(sent), gates))
    BY <1>t, <2>1, GateFramed
  <2>4. Stage' = Stage /\ Filled' = Filled /\ Signalled' = Signalled
    BY <2>1 DEF Stage, Filled, Parsing, Signalled
  <2> QED
    BY <2>1, <2>2, <2>3, <2>4, TracedFrame
<1>5. CASE LoseByte
  <2>1. /\ sent' = sent /\ gates' = gates /\ lost' = lost + 1
        /\ dec' = dec /\ sem' = sem
    BY <1>5 DEF LoseByte
  <2>2. lost = 0 /\ lost' = 1
    BY <1>t, <2>1
  <2>3. Stage' = Stage /\ Filled' = Filled /\ Signalled' = Signalled
    BY <2>1 DEF Stage, Filled, Parsing, Signalled
  <2>4. /\ Unread \in Seq(Byte) /\ Unread' \in Seq(Byte)
        /\ Len(Unread') = Len(Unread) - 1
        /\ \E j \in 1..Len(Unread) :
             \A i \in 1..Len(Unread)-1 :
               Unread'[i] = IF i < j THEN Unread[i] ELSE Unread[i+1]
    BY <1>t, <1>5, LoseUnread
  <2>5. PICK j \in 1..Len(Unread) :
          \A i \in 1..Len(Unread)-1 :
            Unread'[i] = IF i < j THEN Unread[i] ELSE Unread[i+1]
    BY <2>4
  <2> QED
    BY <2>1, <2>2, <2>3, <2>4, <2>5, TracedLoss
<1>6. CASE RxIsr
  <2>1. /\ sent' = sent /\ gates' = gates /\ dec' = dec
        /\ sem' = [sem EXCEPT !.decoder = IF Indicate THEN Released(@) ELSE @]
    BY <1>6 DEF RxIsr
  <2>2. sem'.infrared = sem.infrared
    BY <1>t, <2>1
  <2>3. Stage' = Stage /\ Filled' = Filled /\ Signalled' = Signalled
    BY <2>1, <2>2 DEF Stage, Filled, Parsing, Signalled
  <2>4. /\ Unread \in Seq(Byte)
        /\ \/ Unread' = Unread /\ lost' = lost
           \/ Unread # << >> /\ Unread' = Tail(Unread) /\ lost' = lost + 1
    BY <1>t, <1>6, ReceiveUnread
  <2>5. CASE Unread' = Unread /\ lost' = lost
    <3>1. Signalled' \in Nat /\ Signalled' <= Signalled
      <4>1. sem.infrared \in Nat
        BY <1>t
      <4> QED
        BY <2>3, <4>1 DEF Signalled
    <3> QED
      BY <2>1, <2>3, <2>5, <3>1, TracedStill
  <2>6. CASE Unread # << >> /\ Unread' = Tail(Unread) /\ lost' = lost + 1
    <3>1. lost = 0 /\ lost' = 1
      BY <1>t, <2>6
    <3>2. /\ Unread' \in Seq(Byte) /\ Len(Unread') = Len(Unread) - 1
          /\ 1 \in 1..Len(Unread)
          /\ \A i \in 1..Len(Unread)-1 : Unread'[i] = Unread[i+1]
      BY <2>4, <2>6
    <3>3. \A i \in 1..Len(Unread)-1 :
            Unread'[i] = IF i < 1 THEN Unread[i] ELSE Unread[i+1]
      BY <3>2
    <3> QED
      BY <2>1, <2>3, <2>4, <3>1, <3>2, <3>3, TracedLoss
  <2> QED
    BY <2>4, <2>5, <2>6
<1>7. ASSUME ~DecoderRead, UNCHANGED <<wire, ring, sent, gates, lost>>,
             Signalled' \in Nat, Signalled' <= Signalled
      PROVE  Traced'
  <2>1. Unread' = Unread
    BY <1>7 DEF Unread
  <2> QED
    BY <1>2, <1>7, <2>1, TracedStill
<1>8. CASE DecoderSignal
  <2>1. ~DecoderRead /\ UNCHANGED <<wire, ring, sent, gates, lost>>
    BY <1>8 DEF DecoderSignal, DecoderRead, histVars
  <2>2. /\ dec.pc = "signal" /\ dec'.pc = "flag"
        /\ sem' = [sem EXCEPT !.infrared = Released(sem.infrared)]
    BY <1>t, <1>8 DEF DecoderSignal, DecoderTypes
  <2>3. sem'.infrared = Released(sem.infrared) /\ sem.infrared \in Nat
    BY <1>t, <2>2
  <2>4. Released(sem.infrared) \in Nat /\ Released(sem.infrared) <= sem.infrared + 1
    BY <2>3 DEF Released
  <2>5. Signalled = sem.infrared + 1 /\ Signalled' = Released(sem.infrared)
    BY <2>2, <2>3, <2>4 DEF Signalled
  <2> QED
    BY <1>7, <2>1, <2>4, <2>5
<1>9. ASSUME ~DecoderRead, UNCHANGED <<wire, ring, sent, gates, lost>>,
             sem'.infrared = sem.infrared, dec'.pc = "signal" => dec.pc = "signal"
      PROVE  Traced'
  <2>1. sem.infrared \in Nat
    BY <1>t
  <2>2. Signalled' \in Nat /\ Signalled' <= Signalled
    BY <1>9, <2>1 DEF Signalled
  <2> QED
    BY <1>7, <1>9, <2>2
<1>10. ASSUME DecoderEmpty \/ DecoderTake \/ DecoderCopy \/ DecoderRelease
              \/ DecoderFlag
       PROVE  Traced'
  <2>1. ~DecoderRead
    BY <1>10 DEF DecoderRead, DecoderEmpty, DecoderTake, DecoderCopy,
       DecoderRelease, DecoderFlag
  <2>2. UNCHANGED <<wire, ring, sent, gates, lost>>
    BY <1>10 DEF DecoderEmpty, DecoderTake, DecoderCopy, DecoderRelease,
       DecoderFlag, histVars
  <2>3. sem'.infrared = sem.infrared
    BY <1>t, <1>10 DEF DecoderEmpty, DecoderTake, DecoderCopy, DecoderRelease,
       DecoderFlag
  <2>4. dec'.pc # "signal"
    BY <1>t, <1>10 DEF DecoderEmpty, DecoderTake, DecoderCopy, DecoderRelease,
       DecoderFlag, Restarted, DecoderTypes
  <2> QED
    BY <1>9, <2>1, <2>2, <2>3, <2>4
<1>11. ASSUME GateOpened \/ Motor \/ UNCHANGED vars, ~DecoderRead
       PROVE  Traced'
  <2>1. UNCHANGED <<wire, ring, sent, gates, lost, dec>>
    BY <1>11 DEF GateOpened, Motor, MotorSet, MotorTake, MotorLoad, MotorConvert,
       vars, progVars, histVars
  <2>2. sem'.infrared = sem.infrared
    BY <1>t, <1>11 DEF GateOpened, Motor, MotorSet, MotorTake, MotorLoad,
       MotorConvert, vars, progVars
  <2> QED
    BY <1>9, <1>11, <2>1, <2>2
<1> QED
  BY <1>1, <1>3, <1>4, <1>5, <1>6, <1>8, <1>10, <1>11 DEF Next, Camera, Decoder

(* Every step keeps the account of the gate requests.                      *)
LEMMA GateInvStep ==
  ASSUME LeftNeverOne, TypeOK, GateInv, [Next]_vars
  PROVE  GateInv'
<1>t. /\ LinkTypes /\ DecoderTypes /\ lost \in Nat
      /\ sem \in [decoder : 0..SemMax, motor : 0..SemMax, infrared : 0..SemMax]
  BY DEF TypeOK, LinkTypes, HistoryTypes
<1>1. Fresh'
  <2>1. CASE DecoderRead
    BY <1>t, <2>1, ReadPlace DEF GateInv
  <2> QED
    BY <1>t, <2>1, SamePlace DEF GateInv
<1>2. lost' \in Nat /\ lost <= lost'
  BY <1>t DEF Next, Camera, Decoder, Motor, SendSp, SendGate, LoseByte, RxIsr,
     DecoderRead, DecoderEmpty, DecoderTake, DecoderCopy, DecoderRelease,
     DecoderSignal, DecoderFlag, GateOpened, MotorSet, MotorTake, MotorLoad,
     MotorConvert, vars, histVars
<1>3. lost' <= 1 => Traced'
  <2>1. lost' <= 1 => lost <= 1
    BY <1>t, <1>2
  <2> QED
    BY <2>1, TracedStep DEF GateInv
<1>4. stopFlag' = 1 \/ dec'.pc = "flag" => sem'.infrared > 0
  <2>i. stopFlag = 1 \/ dec.pc = "flag" => sem.infrared > 0
    BY DEF GateInv
  <2>1. CASE DecoderSignal
    <3>1. sem' = [sem EXCEPT !.infrared = Released(sem.infrared)]
      BY <2>1 DEF DecoderSignal
    <3>2. Released(sem.infrared) > 0
      BY <1>t, ReleasedType
    <3> QED
      BY <1>t, <3>1, <3>2
  <2>2. CASE DecoderRead
    <3>1. dec'.pc \in {"read", "signal", "copy"}
      BY <1>t, <2>2, ReadPlace DEF GateInv
    <3>2. stopFlag' = stopFlag /\ sem' = sem
      BY <2>2 DEF DecoderRead
    <3> QED
      BY <2>i, <3>1, <3>2
  <2>3. CASE RxIsr
    <3>1. sem' = [sem EXCEPT !.decoder = IF Indicate THEN Released(@) ELSE @]
          /\ dec' = dec /\ stopFlag' = stopFlag
      BY <2>3 DEF RxIsr
    <3>2. sem'.infrared = sem.infrared
      BY <1>t, <3>1
    <3> QED
      BY <2>i, <3>1, <3>2
  <2>4. CASE DecoderFlag
    BY <2>i, <2>4 DEF DecoderFlag
  <2>5. CASE DecoderEmpty \/ DecoderTake \/ DecoderCopy \/ DecoderRelease
    <3>1. sem'.infrared = sem.infrared /\ stopFlag' = stopFlag
      BY <1>t, <2>5 DEF DecoderEmpty, DecoderTake, DecoderCopy, DecoderRelease
    <3>2. dec'.pc # "flag"
      BY <1>t, <2>5 DEF DecoderEmpty, DecoderTake, DecoderCopy, DecoderRelease,
         Restarted, DecoderTypes
    <3> QED
      BY <2>i, <3>1, <3>2
  <2>6. CASE Camera \/ LoseByte \/ GateOpened \/ Motor \/ UNCHANGED vars
    <3>1. dec' = dec /\ (stopFlag' = 1 => stopFlag = 1)
      BY <2>6 DEF Camera, SendSp, SendGate, LoseByte, GateOpened, Motor, MotorSet,
         MotorTake, MotorLoad, MotorConvert, vars, progVars
    <3>2. sem'.infrared = sem.infrared
      BY <1>t, <2>6 DEF Camera, SendSp, SendGate, LoseByte, GateOpened, Motor,
         MotorSet, MotorTake, MotorLoad, MotorConvert, vars, progVars
    <3> QED
      BY <2>i, <3>1, <3>2
  <2> QED
    BY <2>1, <2>2, <2>3, <2>4, <2>5, <2>6 DEF Next, Decoder
<1> QED
  BY <1>1, <1>3, <1>4 DEF GateInv

(* With at most one byte lost, on the wire or pushed out of the buffer, at *)
(* any point of any stream of frames, the decoder signals no more gate     *)
(* requests than were sent, and stop_flag is never raised without one.     *)
(* The packets must not drive the left wheel at one percent: behind a lost *)
(* speed tag that byte would be read as the gate tag.                      *)
THEOREM LinkNoForgedGate ==
  ASSUME LeftNeverOne
  PROVE  Spec => []NoForgedGate
<1>1. Init => TypeOK /\ GateInv
  BY InitTypes, InitGateInv
<1>2. (TypeOK /\ GateInv) /\ [Next]_vars => (TypeOK /\ GateInv)'
  BY TypeStep, GateInvStep
<1>3. TypeOK /\ GateInv => NoForgedGate
  <2> SUFFICES ASSUME TypeOK, GateInv, lost <= 1
               PROVE  /\ Signalled <= gates
                      /\ stopFlag = 1 \/ dec.pc = "flag" => gates > 0
    BY DEF NoForgedGate, Signalled
  <2>1. PICK lab, g : /\ Gapped(Unread, sent, gates, lab, g)
                      /\ Signalled <= lab[1].gn
    BY DEF GateInv, Traced
  <2>2. Labels(Unread, sent, gates, lab)
    BY <2>1 DEF Gapped
  <2>3. Len(Unread) \in Nat
    <3>1. Unread \in Seq(Byte)
      BY DEF TypeOK, LinkTypes, Unread
    <3> QED
      BY <3>1
  <2>4. 1 \in 1..Len(Unread)+1
    BY <2>3
  <2>5. lab[1] \in Label /\ lab[1].gn <= gates
    BY <2>2, <2>3, <2>4 DEF Labels
  <2>6. sem.infrared \in Nat /\ gates \in Nat /\ lab[1].gn \in Nat
    BY <2>5 DEF TypeOK, LinkTypes, HistoryTypes, Label
  <2>7. Signalled \in Nat /\ sem.infrared <= Signalled
    BY <2>6 DEF Signalled
  <2>8. Signalled <= gates
    BY <2>1, <2>5, <2>6, <2>7
  <2>9. stopFlag = 1 \/ dec.pc = "flag" => sem.infrared > 0
    BY DEF GateInv
  <2> QED
    BY <2>6, <2>7, <2>8, <2>9
<1> QED
  BY <1>1, <1>2, <1>3, PTL DEF Spec
-----------------------------------------------------------------------------
(* What the decoder can know at a byte of the stream: 0 nothing, 1 where   *)
(* the frame of the byte began, 2 where it is in the stream, 3 that and the*)
(* packets so far.  Gains is what it knows after the byte at label l that  *)
(* leads to label m.                                                       *)
Gains(v, l, m) ==
  CASE v >= 2 -> IF l.ph = 5 THEN 3 ELSE v
    [] v < 2 /\ l.ph = 0 -> 1
    [] v = 0 /\ l.ph # 0 -> 0
    [] v = 1 /\ l.ph # 0 -> IF l.ph = 5 THEN 2 ELSE IF m.ph = 0 THEN 0 ELSE 1

(* Labels lab and knowledge lv of the bytes in flight: where the decoder   *)
(* will know anything, the byte before is what the camera wrote.           *)
Follows(U, h, gs, lab, lv) ==
  /\ Labels(U, h, gs, lab)
  /\ lv \in Seq(0..3) /\ Len(lv) = Len(U) + 1
  /\ \A i \in 1..Len(U) : \/ lv[i+1] = 0
                          \/ /\ Writes(h, lab[i], U[i], lab[i+1])
                             /\ lv[i+1] = Gains(lv[i], lab[i], lab[i+1])

FollowsNext(U, h, gs, lab, lv) ==
  /\ Follows(Tail(U), h, gs, Tail(lab), Tail(lv))
  /\ Len(U) \in Nat \ {0} /\ Len(Tail(U)) = Len(U) - 1
  /\ \A i \in 1..Len(U) : Tail(lv)[i] = lv[i+1] /\ Tail(lab)[i] = lab[i+1]

(* Reading a byte.                                                         *)
LEMMA FollowsTail ==
  ASSUME NEW U \in Seq(Byte), U # << >>, NEW h, NEW gs, NEW lab, NEW lv,
         Follows(U, h, gs, lab, lv)
  PROVE  FollowsNext(U, h, gs, lab, lv)
<1> DEFINE n == Len(U)
           V == Tail(U)
           lab2 == Tail(lab)
           lv2 == Tail(lv)
<1>1. /\ Labels(V, h, gs, lab2)
      /\ V \in Seq(Byte) /\ Len(V) = n - 1 /\ n \in Nat \ {0}
      /\ \A i \in 1..n-1 : V[i] = U[i+1]
      /\ \A i \in 1..n : lab2[i] = lab[i+1]
  <2>1. Labels(U, h, gs, lab)
    BY DEF Follows
  <2>2. /\ Labels(Tail(U), h, gs, Tail(lab))
        /\ Tail(U) \in Seq(Byte) /\ Len(Tail(U)) = Len(U) - 1 /\ Len(U) \in Nat \ {0}
        /\ \A i \in 1..Len(U)-1 : Tail(U)[i] = U[i+1]
        /\ \A i \in 1..Len(U) : Tail(lab)[i] = lab[i+1]
    BY <2>1, TailLabels DEF Labels
  <2> QED
    BY <2>2
<1>2. lv \in Seq(0..3) /\ Len(lv) = n + 1 /\ lv # << >>
  BY <1>1 DEF Follows
<1>3. lv2 \in Seq(0..3) /\ Len(lv2) = n /\ \A i \in 1..n : lv2[i] = lv[i+1]
  BY <1>1, <1>2
<1>4. \A i \in 1..n : \/ lv[i+1] = 0
                      \/ /\ Writes(h, lab[i], U[i], lab[i+1])
                         /\ lv[i+1] = Gains(lv[i], lab[i], lab[i+1])
  BY DEF Follows
<1> HIDE DEF n, V, lab2, lv2
<1>5. ASSUME NEW i \in 1..Len(V)
      PROVE  \/ lv2[i+1] = 0
             \/ /\ Writes(h, lab2[i], V[i], lab2[i+1])
                /\ lv2[i+1] = Gains(lv2[i], lab2[i], lab2[i+1])
  <2>1. i + 1 \in 1..n /\ i \in 1..n-1 /\ i \in 1..n
    BY <1>1
  <2>2. \/ lv[(i+1)+1] = 0
        \/ /\ Writes(h, lab[i+1], U[i+1], lab[(i+1)+1])
           /\ lv[(i+1)+1] = Gains(lv[i+1], lab[i+1], lab[(i+1)+1])
    BY <1>4, <2>1
  <2>3. /\ lv2[i+1] = lv[(i+1)+1] /\ lv2[i] = lv[i+1] /\ V[i] = U[i+1]
        /\ lab2[i] = lab[i+1] /\ lab2[i+1] = lab[(i+1)+1]
    BY <1>1, <1>3, <2>1
  <2> QED
    BY <2>2, <2>3
<1>6. Len(lv2) = Len(V) + 1
  BY <1>1, <1>3
<1>7. Follows(V, h, gs, lab2, lv2)
  BY <1>1, <1>3, <1>5, <1>6 DEF Follows
<1> QED
  BY <1>1, <1>3, <1>7 DEF FollowsNext, n, V, lab2, lv2

(* The knowledge up along a frame that is labelled more, from v at l.      *)
Raised(l, v, more, up) ==
  /\ up \in Seq(0..3) /\ Len(up) = Len(more)
  /\ up[1] = Gains(v, l, more[1])
  /\ \A i \in 1..Len(more)-1 : up[i+1] = Gains(up[i], more[i], more[i+1])

FollowsMore(U, lab, lv, F, more, up, h2, gs2) ==
  /\ Follows(U \o F, h2, gs2, lab \o more, lv \o up)
  /\ (lab \o more)[1] = lab[1]
  /\ \A i \in 1..Len(U)+1 : (lv \o up)[i] = lv[i]
  /\ \A i \in 1..Len(F) : (lv \o up)[Len(U) + 1 + i] = up[i]
  /\ Len(U \o F) = Len(U) + Len(F)

(* Writing a frame behind the bytes in flight.                             *)
LEMMA FollowsFrame ==
  ASSUME NEW U \in Seq(Byte), NEW h \in Seq(Cmds), NEW gs \in Nat,
         NEW lab, NEW lv, Follows(U, h, gs, lab, lv),
         NEW F, NEW h2, NEW gs2, NEW more, Framed(h, gs, F, h2, gs2, more),
         NEW up, Raised(Between(Len(h), gs), lv[Len(U) + 1], more, up)
  PROVE  FollowsMore(U, lab, lv, F, more, up, h2, gs2)
<1> DEFINE u == Len(U)
           f == Len(F)
           W == U \o F
           lab2 == lab \o more
           lv2 == lv \o up
<1>1. /\ Labels(U, h, gs, lab) /\ lab \in Seq(Label) /\ Len(lab) = u + 1
      /\ lab[u + 1] = Between(Len(h), gs)
      /\ lv \in Seq(0..3) /\ Len(lv) = u + 1
      /\ \A i \in 1..u : \/ lv[i+1] = 0
                         \/ /\ Writes(h, lab[i], U[i], lab[i+1])
                            /\ lv[i+1] = Gains(lv[i], lab[i], lab[i+1])
  BY DEF Follows, Labels
<1>2. /\ Labels(W, h2, gs2, lab2)
      /\ W \in Seq(Byte) /\ Len(W) = u + f
      /\ \A i \in 1..u+1 : lab2[i] = lab[i]
      /\ \A i \in 1..u : W[i] = U[i]
      /\ \A i \in u+1..u+f : Writes(h2, lab2[i], W[i], lab2[i+1])
      /\ \A i \in 1..f : lab2[u + 1 + i] = more[i]
  <2>1. Labels(U, h, gs, lab)
    BY <1>1
  <2>2. Extended(U, lab, F, more, h2, gs2)
    BY <2>1, MoreLabels
  <2> QED
    BY <2>2 DEF Extended
<1>3. u \in Nat /\ f \in Nat \ {0} /\ Len(more) = f
  BY DEF Framed
<1>4. \A i \in 1..u : U[i] \in Byte /\ lab[i] \in Label
  BY <1>1, <1>3
<1>w. \A l \in Label, b \in Byte : \A m : Writes(h, l, b, m) => Writes(h2, l, b, m)
  BY DEF Framed
<1>r. /\ up \in Seq(0..3) /\ Len(up) = f
      /\ up[1] = Gains(lv[u + 1], Between(Len(h), gs), more[1])
      /\ \A i \in 1..f-1 : up[i+1] = Gains(up[i], more[i], more[i+1])
  BY <1>3 DEF Raised
<1>5. /\ lv2 \in Seq(0..3) /\ Len(lv2) = u + 1 + f
      /\ \A i \in 1..u+1 : lv2[i] = lv[i]
      /\ \A i \in 1..f : lv2[u + 1 + i] = up[i]
  <2> HIDE DEF u, f, lv2
  <2>1. /\ lv \o up \in Seq(0..3) /\ Len(lv \o up) = Len(lv) + Len(up)
        /\ \A i \in 1..Len(lv)+Len(up) :
             (lv \o up)[i] = IF i <= Len(lv) THEN lv[i] ELSE up[i - Len(lv)]
    BY <1>1, <1>r, ConcatProperties
  <2>2. /\ lv2 \in Seq(0..3) /\ Len(lv2) = u + 1 + f
        /\ \A i \in 1..u+1+f : lv2[i] = IF i <= u + 1 THEN lv[i] ELSE up[i - (u + 1)]
    BY <1>1, <1>r, <2>1 DEF lv2
  <2>3. ASSUME NEW i \in 1..f PROVE lv2[u + 1 + i] = up[i]
    <3>1. u + 1 + i \in 1..u+1+f /\ ~(u + 1 + i <= u + 1) /\ (u + 1 + i) - (u + 1) = i
      BY <1>3
    <3> QED
      BY <2>2, <3>1
  <2>4. \A i \in 1..u+1 : i \in 1..u+1+f /\ i <= u + 1
    BY <1>3
  <2> QED
    BY <2>2, <2>3, <2>4
<1> HIDE DEF u, f, W, lab2, lv2
<1>6. ASSUME NEW i \in 1..u+f
      PROVE  \/ lv2[i+1] = 0
             \/ /\ Writes(h2, lab2[i], W[i], lab2[i+1])
                /\ lv2[i+1] = Gains(lv2[i], lab2[i], lab2[i+1])
  <2>1. CASE i <= u
    <3>1. i \in 1..u /\ i \in 1..u+1 /\ i + 1 \in 1..u+1
      BY <1>3, <2>1
    <3>2. \/ lv[i+1] = 0
          \/ /\ Writes(h, lab[i], U[i], lab[i+1])
             /\ lv[i+1] = Gains(lv[i], lab[i], lab[i+1])
      BY <1>1, <3>1
    <3>3. Writes(h, lab[i], U[i], lab[i+1]) => Writes(h2, lab[i], U[i], lab[i+1])
      BY <1>w, <1>4, <3>1
    <3>4. /\ lab2[i] = lab[i] /\ W[i] = U[i] /\ lab2[i+1] = lab[i+1]
          /\ lv2[i] = lv[i] /\ lv2[i+1] = lv[i+1]
      BY <1>2, <1>5, <3>1
    <3> QED
      BY <3>2, <3>3, <3>4
  <2>2. CASE i > u
    <3>1. Writes(h2, lab2[i], W[i], lab2[i+1])
      <4>1. i \in u+1..u+f
        BY <1>3, <2>2
      <4> QED
        BY <1>2, <4>1
    <3> DEFINE k == i - u
    <3>2. k \in 1..f /\ i = u + k /\ i + 1 = u + 1 + k
      BY <1>3, <2>2
    <3> HIDE DEF k
    <3>3. lv2[i+1] = up[k] /\ lab2[i+1] = more[k]
      BY <1>2, <1>5, <3>2
    <3>4. CASE k = 1
      <4>1. i = u + 1 /\ i \in 1..u+1
        BY <1>3, <3>2, <3>4
      <4>2. lv2[i] = lv[u + 1] /\ lab2[i] = Between(Len(h), gs)
        BY <1>1, <1>2, <1>5, <4>1
      <4> QED
        BY <1>r, <3>1, <3>3, <3>4, <4>2
    <3>5. CASE k # 1
      <4>1. k - 1 \in 1..f-1 /\ k - 1 \in 1..f /\ i = u + 1 + (k - 1) /\ (k - 1) + 1 = k
        BY <1>3, <3>2, <3>5
      <4>2. lv2[i] = up[k - 1] /\ lab2[i] = more[k - 1]
        BY <1>2, <1>5, <4>1
      <4>3. up[(k - 1) + 1] = Gains(up[k - 1], more[k - 1], more[(k - 1) + 1])
        BY <1>r, <4>1
      <4> QED
        BY <3>1, <3>3, <4>1, <4>2, <4>3
    <3> QED
      BY <3>4, <3>5
  <2> QED
    BY <1>3, <2>1, <2>2
<1>7. Follows(W, h2, gs2, lab2, lv2)
  <2>1. Len(lv2) = Len(W) + 1
    BY <1>2, <1>3, <1>5
  <2> QED
    BY <1>2, <1>5, <1>6, <2>1 DEF Follows
<1>8. lab2[1] = lab[1]
  BY <1>2, <1>3
<1> QED
  BY <1>2, <1>5, <1>7, <1>8 DEF FollowsMore, u, f, W, lab2, lv2

(* After a whole packet the decoder knows where it is, after the next one  *)
(* also what was sent.                                                     *)
SpeedGains(v) == IF v >= 2 THEN <<v, v, v, v, v, 3>> ELSE <<1, 1, 1, 1, 1, 2>>
GateGains(v)  == IF v >= 2 THEN <<v, v>> ELSE <<1, 0>>

(* The knowledge a decoder gains from a whole frame.                       *)
LEMMA FrameGains ==
  ASSUME NEW h \in Seq(Cmds), NEW gs \in Nat, NEW v \in 0..3
  PROVE  /\ Raised(Between(Len(h), gs), v, SpeedLabels(Len(h), gs), SpeedGains(v))
         /\ Raised(Between(Len(h), gs), v, GateLabels(Len(h), gs), GateGains(v))
<1> DEFINE n == Len(h)
           l == Between(n, gs)
           sp == SpeedLabels(n, gs)
           gt == GateLabels(n, gs)
           su == SpeedGains(v)
           gu == GateGains(v)
<1>1. /\ Len(sp) = 6 /\ sp[1].ph = 1 /\ sp[2].ph = 2 /\ sp[3].ph = 3
      /\ sp[4].ph = 4 /\ sp[5].ph = 5 /\ sp[6].ph = 0 /\ l.ph = 0
  BY DEF SpeedLabels, Between
<1>2. Len(gt) = 2 /\ gt[1].ph = 1 /\ gt[2].ph = 0
  BY DEF GateLabels, Between
<1>3. /\ su \in Seq(0..3) /\ Len(su) = 6
      /\ \A i \in 1..5 : su[i] = IF v >= 2 THEN v ELSE 1
      /\ su[6] = IF v >= 2 THEN 3 ELSE 2
  <2>1. CASE v >= 2
    <3>1. su = <<v, v, v, v, v, 3>>
      BY <2>1 DEF SpeedGains
    <3> QED
      BY <2>1, <3>1
  <2>2. CASE ~(v >= 2)
    <3>1. su = <<1, 1, 1, 1, 1, 2>>
      BY <2>2 DEF SpeedGains
    <3> QED
      BY <2>2, <3>1
  <2> QED
    BY <2>1, <2>2
<1>4. /\ gu \in Seq(0..3) /\ Len(gu) = 2
      /\ gu[1] = (IF v >= 2 THEN v ELSE 1) /\ gu[2] = (IF v >= 2 THEN v ELSE 0)
  <2>1. CASE v >= 2
    <3>1. gu = <<v, v>>
      BY <2>1 DEF GateGains
    <3> QED
      BY <2>1, <3>1
  <2>2. CASE ~(v >= 2)
    <3>1. gu = <<1, 0>>
      BY <2>2 DEF GateGains
    <3> QED
      BY <2>2, <3>1
  <2> QED
    BY <2>1, <2>2
<1> HIDE DEF l, sp, gt, su, gu
<1>5. Raised(l, v, sp, su)
  <2>1. su[1] = Gains(v, l, sp[1])
    BY <1>1, <1>3 DEF Gains
  <2>2. ASSUME NEW i \in 1..5 PROVE su[i+1] = Gains(su[i], sp[i], sp[i+1])
    <3>1. CASE v >= 2
      BY <1>1, <1>3, <3>1 DEF Gains
    <3>2. CASE v < 2
      <4>1. \A k \in 1..5 : su[k] = 1
        BY <1>3, <3>2
      <4>2. i = 1 \/ i = 2 \/ i = 3 \/ i = 4 \/ i = 5
        OBVIOUS
      <4> QED
        BY <1>1, <1>3, <3>2, <4>1, <4>2 DEF Gains
    <3> QED
      BY <3>1, <3>2
  <2> QED
    BY <1>1, <1>3, <2>1, <2>2 DEF Raised
<1>6. Raised(l, v, gt, gu)
  <2>1. gu[1] = Gains(v, l, gt[1])
    BY <1>1, <1>2, <1>4 DEF Gains
  <2>2. gu[2] = Gains(gu[1], gt[1], gt[2])
    BY <1>2, <1>4 DEF Gains
  <2>3. \A i \in 1..Len(gt)-1 : i = 1 /\ i + 1 = 2
    BY <1>2
  <2> QED
    BY <1>2, <1>4, <2>1, <2>2, <2>3 DEF Raised
<1> QED
  BY <1>5, <1>6 DEF l, sp, gt, su, gu

(* The n-th packet sent; none is sp_data as it was initialised.            *)
Packet(h, n) == IF n = 0 THEN Zero4 ELSE h[n]

(* Rx_buffer has the bytes of the packet l is in, as far as l.             *)
Buffered(h, l) ==
  l.ph >= 2 => /\ l.num < Len(h)
               /\ \A k \in 1..4 : k <= l.ph - 2 => dec.buf[k] = h[l.num + 1][k]

(* The last packet up to l is in sp_data or about to be copied there.      *)
Current(h, l) == IF dec.pc = "copy" THEN dec.buf = Packet(h, l.num)
                                    ELSE spData = Packet(h, l.num)

Knows(h, v, l) ==
  /\ v = 1 => l.ph = 0 \/ NoLessThan(Stage, Filled, l)
  /\ v >= 2 => OnTrack(Stage, Filled, l) /\ Buffered(h, l)
  /\ v = 3 => Current(h, l)

(* Every packet up to l but the one the decoder is about to copy has been  *)
(* copied.                                                                 *)
CopiedTo(l) == copies = IF dec.pc = "copy" THEN l.num - 1 ELSE l.num

Followed ==
  \E lab, lv :
    /\ Follows(Unread, sent, gates, lab, lv)
    /\ Knows(sent, lv[1], lab[1])
    /\ pristine >= 1 => lv[Len(Unread) + 1] >= 2
    /\ pristine = 2 => lv[Len(Unread) + 1] = 3
    /\ lost = 0 => CopiedTo(lab[1]) /\ \A i \in 1..Len(Unread)+1 : lv[i] = 3

StreamInv ==
  /\ Fresh
  /\ lost = 0 => copies <= Len(sent) /\ spData = Packet(sent, copies)
  /\ Followed

(* At first the decoder knows all there is: nothing is sent.               *)
LEMMA InitStreamInv == Init => StreamInv
<1> SUFFICES ASSUME Init PROVE StreamInv
  OBVIOUS
<1> DEFINE lab == << Between(0, 0) >>
           lv  == << 3 >>
<1>1. Unread = << >> /\ sent = << >> /\ gates = 0 /\ lost = 0 /\ Len(Unread) = 0
  <2>1. << >> \in Seq(Byte) /\ ring = << >> /\ wire = << >>
    BY EmptySeq DEF Init
  <2> QED
    BY <2>1, ConcatEmptySeq DEF Init, Unread
<1>2. /\ lab \in Seq(Label) /\ Len(lab) = 1 /\ lab[1] = Between(0, 0)
      /\ lab[1].ph = 0 /\ lab[1].num = 0 /\ lab[1].gn = 0
      /\ lv \in Seq(0..3) /\ Len(lv) = 1 /\ lv[1] = 3
  BY DEF Label, Between
<1> HIDE DEF lab, lv
<1>3. Len(sent) = 0
  BY <1>1
<1>4. Labels(Unread, sent, gates, lab)
  BY <1>1, <1>2, <1>3 DEF Labels
<1>5. Follows(Unread, sent, gates, lab, lv)
  BY <1>1, <1>2, <1>4 DEF Follows
<1>6. Stage = 0 /\ Filled = 0 /\ dec.pc = "read" /\ copies = 0 /\ spData = Zero4
  BY EmptySeq DEF Init, Stage, Filled, Parsing
<1>7. Knows(sent, lv[1], lab[1])
  BY <1>2, <1>6 DEF Knows, OnTrack, Buffered, Current, Packet
<1>8. CopiedTo(lab[1]) /\ \A i \in 1..Len(Unread)+1 : lv[i] = 3
  BY <1>1, <1>2, <1>6 DEF CopiedTo
<1>9. Followed
  <2>1. lv[Len(Unread) + 1] = 3
    BY <1>1, <1>2
  <2> QED
    BY <1>5, <1>7, <1>8, <2>1 DEF Followed
<1> QED
  BY <1>3, <1>6, <1>9 DEF StreamInv, Fresh, Init, Packet

(* The labels and the knowledge are of the expected kinds.                 *)
LEMMA FollowsFirst ==
  ASSUME NEW U \in Seq(Byte), NEW h, NEW gs, NEW lab, NEW lv,
         Follows(U, h, gs, lab, lv)
  PROVE  /\ Len(U) \in Nat /\ lab[1] \in Label /\ lv[1] \in 0..3
         /\ lab[1].num <= Len(h)
         /\ lv[Len(U) + 1] \in 0..3
         /\ lab[Len(U) + 1] = Between(Len(h), gs)
<1>1. Len(U) \in Nat /\ 1 \in 1..Len(U)+1 /\ Len(U) + 1 \in 1..Len(U)+1
  OBVIOUS
<1>2. /\ lab \in Seq(Label) /\ Len(lab) = Len(U) + 1
      /\ lv \in Seq(0..3) /\ Len(lv) = Len(U) + 1
      /\ lab[Len(U) + 1] = Between(Len(h), gs)
      /\ \A i \in 1..Len(U)+1 : lab[i].num <= Len(h)
  BY DEF Follows, Labels
<1> QED
  BY <1>1, <1>2

(* What the decoder knows after a byte of the stream.                      *)
LEMMA KnowsRead ==
  ASSUME TypeOK, Fresh, DecoderRead, NEW l \in Label, NEW m \in Label,
         NEW v \in 0..3, Knows(sent, v, l), Writes(sent, l, Head(ring), m)
  PROVE  /\ Knows(sent, Gains(v, l, m), m)'
         /\ v >= 2 => (dec'.pc = "copy" <=> l.ph = 5)
<1> DEFINE b == Head(ring)
<1>1. /\ Place(Stage, Filled) /\ b \in Byte /\ sent \in Seq(Cmds)
      /\ Stage' = StageAfter(Stage, Filled, b)
      /\ Filled' = FilledAfter(Stage, Filled)
      /\ dec'.pc = "copy" <=> Stage = 2 /\ Filled = 3
      /\ Filled = Len(dec.buf) /\ dec.buf \in Seq(Byte)
      /\ dec'.buf = IF Stage = 2 THEN Append(dec.buf, b) ELSE dec.buf
      /\ dec.pc = "read" /\ sent' = sent /\ spData' = spData
  BY ReadPlace, ReadUnread
     DEF TypeOK, HistoryTypes, DecoderRead, histVars
<1> HIDE DEF b
<1>w. Writes(sent, l, b, m)
  BY DEF b
<1>l. l.ph \in 0..5 /\ l.num \in Nat
  BY DEF Label
<1>2. CASE v < 2
  <2>1. v = 0 \/ v = 1
    BY <1>2
  <2>2. CASE v = 0 /\ l.ph # 0
    BY <2>2 DEF Gains, Knows
  <2>3. CASE l.ph = 0 \/ v = 1
    <3>1. l.ph = 0 \/ NoLessThan(Stage, Filled, l)
      BY <2>3 DEF Knows
    <3>2. /\ m.ph # 0 => NoLessThan(Stage', Filled', m)
          /\ l.ph = 5 => OnTrack(Stage', Filled', m)
      BY <1>1, <1>w, <3>1, FindsTrack
    <3>3. CASE l.ph = 0
      <4>1. Gains(v, l, m) = 1 /\ m.ph = 1
        BY <1>2, <1>w, <2>1, <3>3 DEF Gains, Writes
      <4> QED
        BY <1>2, <3>2, <4>1 DEF Knows
    <3>4. CASE l.ph = 5
      <4>1. Gains(v, l, m) = 2 /\ m.ph = 0
        BY <1>2, <1>w, <2>1, <2>3, <3>4 DEF Gains, Writes
      <4> QED
        BY <1>2, <3>2, <3>4, <4>1 DEF Knows, Buffered
    <3>5. CASE l.ph \notin {0, 5} /\ m.ph = 0
      <4>1. Gains(v, l, m) = 0
        BY <1>2, <2>1, <2>3, <3>5 DEF Gains
      <4> QED
        BY <1>2, <4>1 DEF Knows
    <3>6. CASE l.ph \notin {0, 5} /\ m.ph # 0
      <4>1. Gains(v, l, m) = 1
        BY <1>2, <2>1, <2>3, <3>6 DEF Gains
      <4> QED
        BY <1>2, <3>2, <3>6, <4>1 DEF Knows
    <3> QED
      BY <3>3, <3>4, <3>5, <3>6
  <2> QED
    BY <2>1, <2>2, <2>3
<1>3. CASE v >= 2
  <2>1. OnTrack(Stage, Filled, l) /\ Buffered(sent, l)
    BY <1>3 DEF Knows
  <2>2. OnTrack(Stage', Filled', m)
    BY <1>1, <1>w, <2>1, StaysOnTrack
  <2>3. dec'.pc = "copy" <=> l.ph = 5
    <3>1. Stage = 2 /\ Filled = 3 <=> l.ph = 5
      <4>1. ASSUME NEW s, NEW n, OnTrack(s, n, l)
            PROVE  s = 2 /\ n = 3 <=> l.ph = 5
        BY <1>l, <4>1 DEF OnTrack
      <4> QED
        BY <2>1, <4>1
    <3> QED
      BY <1>1, <3>1
  <2>4. Gains(v, l, m) = IF l.ph = 5 THEN 3 ELSE v
    BY <1>3 DEF Gains
  <2>5. ASSUME l.ph \in 2..5
        PROVE  /\ l.num < Len(sent)
               /\ dec'.buf \in Seq(Byte) /\ Len(dec'.buf) = l.ph - 1
               /\ \A k \in 1..4 : k <= l.ph - 1 => dec'.buf[k] = sent[l.num + 1][k]
    <3>1. Stage = 2 /\ Filled = l.ph - 2
      BY <2>1, <2>5 DEF OnTrack
    <3>2. l.num < Len(sent) /\ b = sent[l.num + 1][l.ph - 1]
      BY <1>1, <1>w, <2>5, WritesData
    <3> DEFINE q == dec.buf  r == Append(q, b)
    <3>3. q \in Seq(Byte) /\ Len(q) = l.ph - 2 /\ dec'.buf = r
      BY <1>1, <3>1
    <3>4. \A k \in 1..4 : k <= l.ph - 2 => q[k] = sent[l.num + 1][k]
      BY <2>1, <2>5 DEF Buffered
    <3> HIDE DEF q
    <3>5. /\ r \in Seq(Byte) /\ Len(r) = Len(q) + 1 /\ r[Len(q) + 1] = b
          /\ \A k \in 1..Len(q) : r[k] = q[k]
      BY <1>1, <3>3
    <3> HIDE DEF r
    <3>6. Len(q) + 1 = l.ph - 1
      BY <2>5, <3>3
    <3>7. ASSUME NEW k \in 1..4, k <= l.ph - 1
          PROVE  r[k] = sent[l.num + 1][k]
      <4>1. CASE k = l.ph - 1
        BY <3>2, <3>5, <3>6, <4>1
      <4>2. CASE k # l.ph - 1
        <5>1. k <= l.ph - 2 /\ k \in 1..Len(q)
          BY <2>5, <3>3, <3>7, <4>2
        <5> QED
          BY <3>4, <3>5, <5>1
      <4> QED
        BY <4>1, <4>2
    <3> QED
      BY <3>2, <3>3, <3>5, <3>6, <3>7
  <2>6. Buffered(sent, m)'
    <3> SUFFICES ASSUME m.ph >= 2
                 PROVE  /\ m.num < Len(sent)
                        /\ \A k \in 1..4 : k <= m.ph - 2 =>
                                             dec'.buf[k] = sent[m.num + 1][k]
      BY <1>1 DEF Buffered
    <3>1. CASE l.ph = 1
      <4>1. m.ph = 2 /\ m.num = l.num /\ l.num < Len(sent)
        BY <1>w, <3>1 DEF Writes
      <4> QED
        BY <4>1
    <3>2. CASE l.ph \in 2..4
      <4>1. m.ph = l.ph + 1 /\ m.num = l.num
        BY <1>w, <3>2 DEF Writes
      <4>2. m.ph - 2 = l.ph - 1
        BY <3>2, <4>1
      <4> QED
        BY <2>5, <3>2, <4>1, <4>2
    <3>3. CASE l.ph = 0 \/ l.ph = 5
      BY <1>w, <3>3 DEF Writes
    <3> QED
      BY <1>l, <3>1, <3>2, <3>3
  <2>7. CASE l.ph = 5
    <3>1. m.num = l.num + 1 /\ m.num # 0
      BY <1>l, <1>w, <2>7 DEF Writes
    <3>2. sent[l.num + 1] \in [1..4 -> 0..100]
      BY <1>1, <2>5, <2>7, PacketBytes, LinkAssumption
    <3>3. dec'.buf = sent[l.num + 1]
      <4> DEFINE r == dec'.buf
                 c == sent[l.num + 1]
      <4>1. r \in Seq(Byte) /\ Len(r) = 4 /\ \A k \in 1..4 : r[k] = c[k]
        BY <2>5, <2>7
      <4> HIDE DEF r, c
      <4>2. r \in [1..4 -> Byte]
        BY <4>1, LenProperties
      <4>3. c \in [1..4 -> 0..100]
        BY <3>2 DEF c
      <4>4. r = c
        BY <4>1, <4>2, <4>3
      <4> QED
        BY <4>4 DEF r, c
    <3>4. Current(sent, m)'
      BY <1>1, <2>3, <2>7, <3>1, <3>3 DEF Current, Packet
    <3> QED
      BY <1>3, <2>2, <2>3, <2>4, <2>6, <2>7, <3>4 DEF Knows
  <2>8. CASE l.ph # 5
    <3>1. m.num = l.num
      BY <1>l, <1>w, <2>8 DEF Writes
    <3>2. v = 3 => Current(sent, m)'
      <4>1. v = 3 => Current(sent, l)
        BY DEF Knows
      <4> QED
        BY <1>1, <2>3, <2>8, <3>1, <4>1 DEF Current, Packet
    <3> QED
      BY <1>3, <2>2, <2>3, <2>4, <2>6, <2>8, <3>2 DEF Knows
  <2> QED
    BY <2>7, <2>8
<1> QED
  BY <1>2, <1>3

(* Reading a byte.                                                         *)
LEMMA FollowedRead ==
  ASSUME TypeOK, Fresh, Followed, DecoderRead
  PROVE  Followed'
<1>1. PICK lab, lv :
        /\ Follows(Unread, sent, gates, lab, lv)
        /\ Knows(sent, lv[1], lab[1])
        /\ pristine >= 1 => lv[Len(Unread) + 1] >= 2
        /\ pristine = 2 => lv[Len(Unread) + 1] = 3
        /\ lost = 0 => CopiedTo(lab[1]) /\ \A i \in 1..Len(Unread)+1 : lv[i] = 3
  BY DEF Followed
<1> DEFINE b == Head(ring)
           U == Unread
           lab2 == Tail(lab)
           lv2 == Tail(lv)
<1>2. /\ U \in Seq(Byte) /\ U # << >> /\ U[1] = b /\ Unread' = Tail(U)
  BY ReadUnread DEF TypeOK
<1>3. /\ dec.pc = "read" /\ UNCHANGED <<sent, gates, pristine, lost, copies>>
      /\ sent \in Seq(Cmds)
  BY DEF DecoderRead, histVars, TypeOK, HistoryTypes
<1> HIDE DEF b, U, lab2, lv2
<1>4. Follows(U, sent, gates, lab, lv)
  BY <1>1 DEF U
<1>5. /\ Follows(Tail(U), sent, gates, lab2, lv2)
      /\ Len(U) \in Nat \ {0} /\ Len(Tail(U)) = Len(U) - 1
      /\ \A i \in 1..Len(U) : lv2[i] = lv[i+1] /\ lab2[i] = lab[i+1]
  <2>1. FollowsNext(U, sent, gates, lab, lv)
    BY <1>2, <1>4, FollowsTail
  <2> QED
    BY <2>1 DEF FollowsNext, lab2, lv2
<1>6. /\ lab[1] \in Label /\ lab[2] \in Label /\ lv[1] \in 0..3
      /\ \/ lv[2] = 0
         \/ /\ Writes(sent, lab[1], U[1], lab[2])
            /\ lv[2] = Gains(lv[1], lab[1], lab[2])
  <2>1. 1 \in 1..Len(U) /\ 1 + 1 = 2 /\ 1 \in 1..Len(U)+1 /\ 2 \in 1..Len(U)+1
    BY <1>5
  <2>2. /\ lab \in Seq(Label) /\ Len(lab) = Len(U) + 1
        /\ lv \in Seq(0..3) /\ Len(lv) = Len(U) + 1
        /\ \A i \in 1..Len(U) : \/ lv[i+1] = 0
                                \/ /\ Writes(sent, lab[i], U[i], lab[i+1])
                                   /\ lv[i+1] = Gains(lv[i], lab[i], lab[i+1])
    BY <1>4 DEF Follows, Labels
  <2>3. \/ lv[1+1] = 0
        \/ /\ Writes(sent, lab[1], U[1], lab[1+1])
           /\ lv[1+1] = Gains(lv[1], lab[1], lab[1+1])
    BY <2>1, <2>2
  <2>4. lab[1] \in Label /\ lab[2] \in Label /\ lv[1] \in 0..3
    BY <2>1, <2>2
  <2> QED
    BY <2>1, <2>3, <2>4
<1>7. lv2[1] = lv[2] /\ lab2[1] = lab[2]
  <2>1. 1 \in 1..Len(U) /\ 1 + 1 = 2
    BY <1>5
  <2> QED
    BY <1>5, <2>1
<1>8. /\ Knows(sent, lv2[1], lab2[1])'
      /\ lost' = 0 => CopiedTo(lab2[1])'
  <2>1. CASE lv[2] = 0
    <3>1. Knows(sent, 0, lab2[1])'
      BY DEF Knows
    <3>2. lost' # 0
      <4>1. 2 \in 1..Len(U)+1
        BY <1>5
      <4> QED
        BY <1>1, <1>3, <2>1, <4>1 DEF U
    <3> QED
      BY <1>7, <2>1, <3>1, <3>2
  <2>2. CASE lv[2] # 0
    <3> DEFINE l == lab[1]
               m == lab[2]
               v == lv[1]
    <3>1. /\ l \in Label /\ m \in Label /\ v \in 0..3 /\ Knows(sent, v, l)
          /\ Writes(sent, l, Head(ring), m) /\ lv[2] = Gains(v, l, m)
      BY <1>1, <1>2, <1>6, <2>2 DEF b
    <3> HIDE DEF l, m, v
    <3>2. /\ Knows(sent, Gains(v, l, m), m)'
          /\ v >= 2 => (dec'.pc = "copy" <=> l.ph = 5)
      BY <3>1, KnowsRead
    <3>3. Knows(sent, lv2[1], lab2[1])'
      BY <1>7, <3>1, <3>2 DEF m
    <3>4. ASSUME lost' = 0 PROVE CopiedTo(lab2[1])'
      <4>1. v = 3 /\ copies = l.num
        <5>1. 1 \in 1..Len(U)+1
          BY <1>5
        <5> QED
          BY <1>1, <1>3, <3>4, <5>1 DEF U, v, l, CopiedTo
      <4>2. l.ph \in 0..5 /\ l.num \in Nat
        BY <3>1 DEF Label
      <4>3. m.num = IF l.ph = 5 THEN l.num + 1 ELSE l.num
        BY <3>1, <4>2 DEF Writes
      <4>4. copies = IF dec'.pc = "copy" THEN m.num - 1 ELSE m.num
        BY <3>2, <4>1, <4>2, <4>3
      <4> QED
        BY <1>3, <1>7, <4>4 DEF CopiedTo, m
    <3> QED
      BY <3>3, <3>4
  <2> QED
    BY <2>1, <2>2
<1>9. lv2[Len(Tail(U)) + 1] = lv[Len(U) + 1]
  <2>1. Len(U) \in 1..Len(U) /\ Len(Tail(U)) + 1 = Len(U)
    BY <1>5
  <2> QED
    BY <1>5, <2>1
<1>10. ASSUME lost = 0 PROVE \A i \in 1..Len(Tail(U))+1 : lv2[i] = 3
  <2>1. \A i \in 1..Len(Tail(U))+1 : i \in 1..Len(U) /\ i + 1 \in 1..Len(U)+1
    BY <1>5
  <2> QED
    BY <1>1, <1>5, <1>10, <2>1 DEF U
<1>11. /\ Follows(Unread, sent, gates, lab2, lv2)'
       /\ Knows(sent, lv2[1], lab2[1])'
       /\ pristine' >= 1 => lv2[Len(Unread') + 1] >= 2
       /\ pristine' = 2 => lv2[Len(Unread') + 1] = 3
       /\ lost' = 0 => CopiedTo(lab2[1])' /\ \A i \in 1..Len(Unread')+1 : lv2[i] = 3
  BY <1>1, <1>2, <1>3, <1>5, <1>8, <1>9, <1>10 DEF U
<1> QED
  BY <1>11 DEF Followed

(* What a step that reads no byte does with the decoder and sp_data.       *)
DecoderStays ==
  /\ Stage' = Stage /\ Filled' = Filled
  /\ Stage = 2 => dec'.buf = dec.buf
  /\ \/ UNCHANGED <<dec, spData, copies>>
     \/ dec.pc # "copy" /\ dec'.pc # "copy" /\ UNCHANGED <<spData, copies>>
     \/ /\ dec.pc = "copy" /\ dec'.pc # "copy"
        /\ spData' = dec.buf /\ copies' = copies + 1

(* Only reading moves the decoder along the stream.                        *)
LEMMA StaysElsewhere ==
  ASSUME TypeOK, Fresh, [Next]_vars, ~DecoderRead
  PROVE  DecoderStays
<1>1. Stage' = Stage /\ Filled' = Filled
  BY SamePlace DEF TypeOK
<1>2. CASE DecoderCopy
  <2>1. /\ dec.pc = "copy" /\ dec'.pc # "copy" /\ dec'.buf = dec.buf
        /\ spData' = dec.buf /\ copies' = copies + 1
    BY <1>2 DEF DecoderCopy, TypeOK, DecoderTypes
  <2> QED
    BY <1>1, <2>1 DEF DecoderStays
<1>3. CASE DecoderEmpty \/ DecoderTake \/ DecoderSignal \/ DecoderFlag
  <2>1. dec.pc # "copy" /\ dec'.pc # "copy" /\ dec'.buf = dec.buf
    BY <1>3 DEF DecoderEmpty, DecoderTake, DecoderSignal, DecoderFlag, TypeOK,
       DecoderTypes
  <2>2. UNCHANGED <<spData, copies>>
    BY <1>3 DEF DecoderEmpty, DecoderTake, DecoderSignal, DecoderFlag, histVars
  <2> QED
    BY <1>1, <2>1, <2>2 DEF DecoderStays
<1>4. CASE DecoderRelease
  <2>1. Stage = 0 /\ dec.pc # "copy" /\ dec'.pc # "copy" /\ UNCHANGED <<spData, copies>>
    BY <1>4 DEF DecoderRelease, Restarted, Stage, Parsing, histVars
  <2> QED
    BY <1>1, <2>1 DEF DecoderStays
<1>5. CASE UNCHANGED <<dec, spData, copies>>
  BY <1>1, <1>5 DEF DecoderStays
<1> QED
  BY <1>2, <1>3, <1>4, <1>5
     DEF Next, Camera, Decoder, Motor, SendSp, SendGate, LoseByte, RxIsr,
         GateOpened, MotorSet, MotorTake, MotorLoad, MotorConvert, vars, progVars,
         histVars

(* Such a step, and further packets, leave what the decoder knows.         *)
LEMMA KnowsStill ==
  ASSUME DecoderStays, NEW l \in Label, NEW v \in 0..3, Knows(sent, v, l),
         sent \in Seq(Cmds), sent' \in Seq(Cmds), Len(sent) <= Len(sent'),
         \A i \in 1..Len(sent) : sent'[i] = sent[i], l.num <= Len(sent)
  PROVE  /\ Knows(sent, v, l)'
         /\ CopiedTo(l) => CopiedTo(l)'
<1>1. l.num \in Nat /\ Len(sent) \in Nat /\ Len(sent') \in Nat /\ l.ph \in 0..5
  BY DEF Label
<1>2. Packet(sent', l.num) = Packet(sent, l.num)
  <2>1. l.num # 0 => l.num \in 1..Len(sent)
    BY <1>1
  <2> QED
    BY <2>1 DEF Packet
<1>3. v = 3 => Current(sent, l)'
  <2>1. v = 3 => Current(sent, l)
    BY DEF Knows
  <2> QED
    BY <1>2, <2>1 DEF Current, DecoderStays
<1>4. v >= 2 => Buffered(sent, l)'
  <2> SUFFICES ASSUME v >= 2, l.ph >= 2
               PROVE  /\ l.num < Len(sent')
                      /\ \A k \in 1..4 : k <= l.ph - 2 =>
                                           dec'.buf[k] = sent'[l.num + 1][k]
    BY DEF Buffered
  <2>1. /\ l.num < Len(sent)
        /\ \A k \in 1..4 : k <= l.ph - 2 => dec.buf[k] = sent[l.num + 1][k]
        /\ OnTrack(Stage, Filled, l)
    BY DEF Knows, Buffered
  <2>2. Stage = 2
    BY <1>1, <2>1 DEF OnTrack
  <2>3. dec'.buf = dec.buf
    BY <2>2 DEF DecoderStays
  <2>4. l.num + 1 \in 1..Len(sent)
    BY <1>1, <2>1
  <2>5. sent'[l.num + 1] = sent[l.num + 1] /\ l.num < Len(sent')
    BY <1>1, <2>1, <2>4
  <2> QED
    BY <2>1, <2>3, <2>5
<1>5. Stage' = Stage /\ Filled' = Filled
  BY DEF DecoderStays
<1>6. Knows(sent, v, l)'
  BY <1>3, <1>4, <1>5 DEF Knows
<1>7. CopiedTo(l) => CopiedTo(l)'
  BY <1>1 DEF CopiedTo, DecoderStays
<1> QED
  BY <1>6, <1>7

(* A step that moves neither the bytes nor the decoder's place.            *)
LEMMA FollowedStill ==
  ASSUME TypeOK, Followed, DecoderStays, Unread' = Unread,
         UNCHANGED <<sent, gates, lost, pristine>>
  PROVE  Followed'
<1>1. PICK lab, lv :
        /\ Follows(Unread, sent, gates, lab, lv)
        /\ Knows(sent, lv[1], lab[1])
        /\ pristine >= 1 => lv[Len(Unread) + 1] >= 2
        /\ pristine = 2 => lv[Len(Unread) + 1] = 3
        /\ lost = 0 => CopiedTo(lab[1]) /\ \A i \in 1..Len(Unread)+1 : lv[i] = 3
  BY DEF Followed
<1>2. Unread \in Seq(Byte) /\ sent \in Seq(Cmds)
  BY DEF TypeOK, LinkTypes, HistoryTypes, Unread
<1>3. lab[1] \in Label /\ lv[1] \in 0..3 /\ lab[1].num <= Len(sent)
  BY <1>1, <1>2, FollowsFirst
<1>4. Len(sent) <= Len(sent') /\ sent' \in Seq(Cmds)
  BY <1>2
<1>5. /\ Knows(sent, lv[1], lab[1])'
      /\ CopiedTo(lab[1]) => CopiedTo(lab[1])'
  BY <1>1, <1>2, <1>3, <1>4, KnowsStill
<1>6. /\ Follows(Unread, sent, gates, lab, lv)'
      /\ Knows(sent, lv[1], lab[1])'
      /\ pristine' >= 1 => lv[Len(Unread') + 1] >= 2
      /\ pristine' = 2 => lv[Len(Unread') + 1] = 3
      /\ lost' = 0 => CopiedTo(lab[1])' /\ \A i \in 1..Len(Unread')+1 : lv[i] = 3
  BY <1>1, <1>5
<1> QED
  BY <1>6 DEF Followed

(* After a loss the decoder is taken to know nothing of what is in flight. *)
LEMMA FollowedLoss ==
  ASSUME TypeOK, UNCHANGED <<sent, gates>>, Unread' \in Seq(Byte),
         lost' # 0, pristine' = 0
  PROVE  Followed'
<1> DEFINE n == Len(Unread') + 1
           l == Between(Len(sent), gates)
           lab == [i \in 1..n |-> l]
           lv == [i \in 1..n |-> 0]
<1>1. n \in Nat \ {0} /\ Len(sent) \in Nat /\ gates \in Nat
  BY DEF TypeOK, HistoryTypes
<1>2. l \in Label /\ l.num = Len(sent) /\ l.gn = gates
  BY <1>1 DEF Label, Between
<1> HIDE DEF l, n
<1>3. /\ lab \in Seq(Label) /\ Len(lab) = n /\ \A i \in 1..n : lab[i] = l
      /\ lv \in Seq(0..3) /\ Len(lv) = n /\ \A i \in 1..n : lv[i] = 0
  BY <1>1, <1>2
<1>r. PICK a, c : a = lab /\ c = lv
  OBVIOUS
<1> HIDE DEF lab, lv
<1>4. n \in 1..n /\ 1 \in 1..n
  BY <1>1
<1>5. Labels(Unread', sent', gates', a)
  BY <1>1, <1>2, <1>3, <1>4, <1>r DEF Labels, n, l
<1>6. \A i \in 1..Len(Unread') : c[i+1] = 0
  <2>1. \A i \in 1..Len(Unread') : i + 1 \in 1..n
    BY DEF n
  <2> QED
    BY <1>3, <1>r, <2>1
<1>7. Follows(Unread', sent', gates', a, c)
  BY <1>3, <1>5, <1>6, <1>r DEF Follows, n
<1>8. Knows(sent, c[1], a[1])'
  BY <1>3, <1>4, <1>r DEF Knows
<1> QED
  BY <1>7, <1>8 DEF Followed

(* The knowledge Up[v] along a frame, from v in front of it, is what one   *)
(* more packet since the last loss stands for.                             *)
Refreshed(F, Up) ==
  \A v \in 0..3 :
    /\ (pristine >= 1 => v >= 2) /\ (pristine = 2 => v = 3) =>
         /\ pristine' >= 1 => Up[v][Len(F)] >= 2
         /\ pristine' = 2 => Up[v][Len(F)] = 3
    /\ v = 3 => \A i \in 1..Len(F) : Up[v][i] = 3

(* Writing a frame.                                                        *)
LEMMA FollowedFrame ==
  ASSUME TypeOK, TypeOK', Followed, DecoderStays, lost' = lost,
         NEW F, NEW more, NEW Up, Unread' = Unread \o F,
         Framed(sent, gates, F, sent', gates', more),
         \A v \in 0..3 : Raised(Between(Len(sent), gates), v, more, Up[v]),
         Refreshed(F, Up), \A i \in 1..Len(sent) : sent'[i] = sent[i]
  PROVE  Followed'
<1>1. PICK lab, lv :
        /\ Follows(Unread, sent, gates, lab, lv)
        /\ Knows(sent, lv[1], lab[1])
        /\ pristine >= 1 => lv[Len(Unread) + 1] >= 2
        /\ pristine = 2 => lv[Len(Unread) + 1] = 3
        /\ lost = 0 => CopiedTo(lab[1]) /\ \A i \in 1..Len(Unread)+1 : lv[i] = 3
  BY DEF Followed
<1> DEFINE U == Unread
           W == U \o F
           v == lv[Len(U) + 1]
           up == Up[v]
           lab2 == lab \o more
           lv2 == lv \o up
           h2 == sent'
           gs2 == gates'
<1>2. /\ U \in Seq(Byte) /\ sent \in Seq(Cmds) /\ gates \in Nat /\ Unread' = W
      /\ F \in Seq(Byte) /\ F # << >> /\ Len(sent) <= Len(sent') /\ sent' \in Seq(Cmds)
  BY DEF TypeOK, LinkTypes, HistoryTypes, Unread, Framed
<1>3. /\ lab[1] \in Label /\ lv[1] \in 0..3 /\ lab[1].num <= Len(sent) /\ v \in 0..3
  BY <1>1, <1>2, FollowsFirst
<1>4. /\ Follows(U, sent, gates, lab, lv)
      /\ Framed(sent, gates, F, h2, gs2, more)
      /\ Raised(Between(Len(sent), gates), lv[Len(U) + 1], more, up)
  BY <1>1, <1>3
<1>5. Len(U) \in Nat /\ Len(F) \in Nat \ {0}
  BY <1>2
<1> HIDE DEF U, h2, gs2, up
<1>6. FollowsMore(U, lab, lv, F, more, up, h2, gs2)
  BY <1>2, <1>4, FollowsFrame
<1>7. /\ Follows(W, h2, gs2, lab2, lv2)
      /\ lab2[1] = lab[1]
      /\ \A i \in 1..Len(U)+1 : lv2[i] = lv[i]
      /\ \A i \in 1..Len(F) : lv2[Len(U) + 1 + i] = up[i]
      /\ Len(W) = Len(U) + Len(F)
  BY <1>6 DEF FollowsMore
<1> HIDE DEF v, W, lab2, lv2
<1>8. lv2[1] = lv[1]
  <2>1. 1 \in 1..Len(U)+1
    BY <1>5
  <2> QED
    BY <1>7, <2>1
<1>9. lv2[Len(W) + 1] = up[Len(F)]
  <2>1. Len(F) \in 1..Len(F) /\ Len(W) + 1 = Len(U) + 1 + Len(F)
    BY <1>5, <1>7
  <2> QED
    BY <1>7, <2>1
<1>10. /\ Knows(sent, lv[1], lab[1])'
       /\ CopiedTo(lab[1]) => CopiedTo(lab[1])'
  BY <1>1, <1>2, <1>3, KnowsStill
<1>11. /\ (pristine >= 1 => v >= 2) /\ (pristine = 2 => v = 3) =>
            /\ pristine' >= 1 => up[Len(F)] >= 2
            /\ pristine' = 2 => up[Len(F)] = 3
       /\ v = 3 => \A i \in 1..Len(F) : up[i] = 3
  BY <1>3 DEF Refreshed, up
<1>12. /\ pristine >= 1 => v >= 2
       /\ pristine = 2 => v = 3
  BY <1>1 DEF U, v
<1>13. ASSUME lost = 0 PROVE \A i \in 1..Len(W)+1 : lv2[i] = 3
  <2>1. v = 3
    <3>1. Len(U) + 1 \in 1..Len(U)+1
      BY <1>5
    <3> QED
      BY <1>1, <1>13, <3>1 DEF U, v
  <2>2. ASSUME NEW i \in 1..Len(W)+1 PROVE lv2[i] = 3
    <3>1. CASE i <= Len(U) + 1
      <4>1. i \in 1..Len(U)+1
        BY <1>5, <3>1
      <4> QED
        BY <1>1, <1>7, <1>13, <4>1 DEF U
    <3>2. CASE ~(i <= Len(U) + 1)
      <4>1. i - (Len(U) + 1) \in 1..Len(F) /\ Len(U) + 1 + (i - (Len(U) + 1)) = i
        BY <1>5, <1>7, <3>2
      <4> QED
        BY <1>7, <1>11, <2>1, <4>1
    <3> QED
      BY <3>1, <3>2
  <2> QED
    BY <2>2
<1>r. PICK a, c : a = lab2 /\ c = lv2
  OBVIOUS
<1>14. /\ Follows(Unread', sent', gates', a, c)
       /\ Knows(sent, c[1], a[1])'
       /\ pristine' >= 1 => c[Len(Unread') + 1] >= 2
       /\ pristine' = 2 => c[Len(Unread') + 1] = 3
       /\ lost' = 0 => CopiedTo(a[1])' /\ \A i \in 1..Len(Unread')+1 : c[i] = 3
  <2>1. a[1] = lab[1] /\ c[1] = lv[1]
    BY <1>7, <1>8, <1>r
  <2>2. Follows(Unread', sent', gates', a, c)
    BY <1>2, <1>7, <1>r DEF h2, gs2
  <2>3. Knows(sent, c[1], a[1])'
    BY <1>10, <2>1
  <2>4. /\ pristine' >= 1 => c[Len(Unread') + 1] >= 2
        /\ pristine' = 2 => c[Len(Unread') + 1] = 3
    BY <1>2, <1>9, <1>11, <1>12, <1>r
  <2>5. lost' = 0 => CopiedTo(a[1])' /\ \A i \in 1..Len(Unread')+1 : c[i] = 3
    BY <1>1, <1>2, <1>10, <1>13, <1>r, <2>1
  <2> QED
    BY <2>2, <2>3, <2>4, <2>5
<1> QED
  BY <1>14 DEF Followed

(* Every step keeps the decoder as knowing as the bytes make it.           *)
LEMMA FollowedStep ==
  ASSUME TypeOK, TypeOK', Fresh, Followed, [Next]_vars
  PROVE  Followed'
<1>t. /\ LinkTypes /\ lost \in Nat /\ sent \in Seq(Cmds) /\ gates \in Nat
      /\ pristine \in 0..2 /\ Unread' \in Seq(Byte)
  BY DEF TypeOK, LinkTypes, HistoryTypes, Unread
<1>1. CASE DecoderRead
  BY <1>1, FollowedRead
<1>2. ASSUME ~DecoderRead PROVE DecoderStays
  BY <1>2, StaysElsewhere
<1>3. ASSUME NEW c \in Cmds, SendSp(c) PROVE Followed'
  <2>1. /\ sent' = Append(sent, c) /\ gates' = gates /\ lost' = lost
        /\ pristine' = IF pristine < 2 THEN pristine + 1 ELSE 2
        /\ UNCHANGED <<dec, spData, copies>>
    BY <1>3 DEF SendSp
  <2>2. Unread \in Seq(Byte) /\ Unread' = Unread \o SpeedFrame(c)
    BY <1>t, <1>3, SendUnread
  <2> DEFINE F == SpeedFrame(c)
             more == SpeedLabels(Len(sent), gates)
             Up == [v \in 0..3 |-> SpeedGains(v)]
  <2>3. Framed(sent, gates, F, sent', gates', more) /\ Len(F) = 6
    BY <1>t, <2>1, SpeedFramed
  <2>4. \A v \in 0..3 : /\ Up[v] = SpeedGains(v)
                        /\ Raised(Between(Len(sent), gates), v, more, Up[v])
    BY <1>t, FrameGains
  <2> HIDE DEF F, more, Up
  <2>5. Refreshed(F, Up)
    <3>1. ASSUME NEW v \in 0..3
          PROVE  /\ (pristine >= 1 => v >= 2) /\ (pristine = 2 => v = 3) =>
                      /\ pristine' >= 1 => Up[v][6] >= 2
                      /\ pristine' = 2 => Up[v][6] = 3
                 /\ v = 3 => \A i \in 1..6 : Up[v][i] = 3
      <4>1. CASE v >= 2
        <5>1. Up[v] = <<v, v, v, v, v, 3>>
          BY <2>4, <4>1 DEF SpeedGains
        <5> QED
          BY <4>1, <5>1
      <4>2. CASE v < 2
        <5>1. Up[v] = <<1, 1, 1, 1, 1, 2>>
          BY <2>4, <4>2 DEF SpeedGains
        <5>2. pristine < 1 => pristine' = 1
          BY <1>t, <2>1
        <5> QED
          BY <1>t, <2>1, <4>2, <5>1, <5>2
      <4> QED
        BY <4>1, <4>2
    <3> QED
      BY <2>3, <3>1 DEF Refreshed
  <2>6. \A i \in 1..Len(sent) : sent'[i] = sent[i]
    BY <1>t, <2>1
  <2>7. DecoderStays
    BY <2>1 DEF DecoderStays, Stage, Filled, Parsing
  <2> QED
    BY <2>1, <2>2, <2>3, <2>4, <2>5, <2>6, <2>7, FollowedFrame DEF F
<1>4. CASE SendGate
  <2>1. /\ sent' = sent /\ gates' = gates + 1 /\ lost' = lost
        /\ pristine' = pristine /\ UNCHANGED <<dec, spData, copies>>
    BY <1>4 DEF SendGate
  <2>2. Unread \in Seq(Byte) /\ Unread' = Unread \o GateFrame
    BY <1>t, <1>4, SendUnread
  <2> DEFINE F == GateFrame
             more == GateLabels(Len(sent), gates)
             Up == [v \in 0..3 |-> GateGains(v)]
  <2>3. Framed(sent, gates, F, sent', gates', more) /\ Len(F) = 2
    BY <1>t, <2>1, GateFramed
  <2>4. \A v \in 0..3 : /\ Up[v] = GateGains(v)
                        /\ Raised(Between(Len(sent), gates), v, more, Up[v])
    BY <1>t, FrameGains
  <2> HIDE DEF F, more, Up
  <2>5. Refreshed(F, Up)
    <3>1. ASSUME NEW v \in 0..3
          PROVE  /\ (pristine >= 1 => v >= 2) /\ (pristine = 2 => v = 3) =>
                      /\ pristine' >= 1 => Up[v][2] >= 2
                      /\ pristine' = 2 => Up[v][2] = 3
                 /\ v = 3 => \A i \in 1..2 : Up[v][i] = 3
      <4>1. CASE v >= 2
        <5>1. Up[v] = <<v, v>>
          BY <2>4, <4>1 DEF GateGains
        <5> QED
          BY <2>1, <4>1, <5>1
      <4>2. CASE v < 2
        BY <1>t, <2>1, <4>2
      <4> QED
        BY <4>1, <4>2
    <3> QED
      BY <2>3, <3>1 DEF Refreshed
  <2>6. \A i \in 1..Len(sent) : sent'[i] = sent[i]
    BY <2>1
  <2>7. DecoderStays
    BY <2>1 DEF DecoderStays, Stage, Filled, Parsing
  <2> QED
    BY <2>1, <2>2, <2>3, <2>4, <2>5, <2>6, <2>7, FollowedFrame DEF F
<1>5. CASE LoseByte
  <2>1. UNCHANGED <<sent, gates>> /\ lost' # 0 /\ pristine' = 0
    BY <1>t, <1>5 DEF LoseByte
  <2> QED
    BY <1>t, <2>1, FollowedLoss
<1>6. CASE RxIsr
  <2>1. UNCHANGED <<sent, gates>>
    BY <1>6 DEF RxIsr
  <2>2. \/ Unread' = Unread /\ lost' = lost /\ pristine' = pristine
        \/ lost' = lost + 1 /\ pristine' = 0
    BY <1>t, <1>6, ReceiveUnread
  <2>3. CASE Unread' = Unread /\ lost' = lost /\ pristine' = pristine
    <3>1. DecoderStays
      BY <1>6 DEF RxIsr, DecoderStays, Stage, Filled, Parsing
    <3> QED
      BY <2>1, <2>3, <3>1, FollowedStill
  <2>4. CASE lost' = lost + 1 /\ pristine' = 0
    BY <1>t, <2>1, <2>4, FollowedLoss
  <2> QED
    BY <2>2, <2>3, <2>4
<1>7. ASSUME ~DecoderRead,
             \/ DecoderEmpty \/ DecoderTake \/ DecoderCopy \/ DecoderRelease
             \/ DecoderSignal \/ DecoderFlag \/ GateOpened \/ Motor
             \/ UNCHANGED vars
      PROVE  Followed'
  <2>1. UNCHANGED <<wire, ring, sent, gates, lost, pristine>>
    BY <1>7 DEF DecoderEmpty, DecoderTake, DecoderCopy, DecoderRelease,
       DecoderSignal, DecoderFlag, GateOpened, Motor, MotorSet, MotorTake,
       MotorLoad, MotorConvert, vars, progVars, histVars
  <2>2. Unread' = Unread
    BY <2>1 DEF Unread
  <2> QED
    BY <1>2, <1>7, <2>1, <2>2, FollowedStill
<1> QED
  BY <1>1, <1>3, <1>4, <1>5, <1>6, <1>7 DEF Next, Camera, Decoder

(* sp_data is the packet of the last copy, also across a copy.             *)
LEMMA CopiedStep ==
  ASSUME TypeOK, StreamInv, [Next]_vars, lost' = 0
  PROVE  copies' <= Len(sent') /\ spData' = Packet(sent', copies')
<1>t. /\ lost \in Nat /\ sent \in Seq(Cmds) /\ copies \in Nat /\ Unread \in Seq(Byte)
  BY DEF TypeOK, LinkTypes, HistoryTypes, Unread
<1>1. lost = 0
  BY <1>t DEF Next, Camera, Decoder, Motor, SendSp, SendGate, LoseByte, RxIsr,
     DecoderRead, DecoderEmpty, DecoderTake, DecoderCopy, DecoderRelease,
     DecoderSignal, DecoderFlag, GateOpened, MotorSet, MotorTake, MotorLoad,
     MotorConvert, vars, histVars
<1>2. copies <= Len(sent) /\ spData = Packet(sent, copies)
  BY <1>1 DEF StreamInv
<1>3. CASE DecoderCopy
  <2>1. PICK lab, lv :
          /\ Follows(Unread, sent, gates, lab, lv)
          /\ Knows(sent, lv[1], lab[1])
          /\ CopiedTo(lab[1]) /\ \A i \in 1..Len(Unread)+1 : lv[i] = 3
    BY <1>1 DEF StreamInv, Followed
  <2>2. lab[1] \in Label /\ lab[1].num <= Len(sent) /\ 1 \in 1..Len(Unread)+1
    BY <1>t, <2>1, FollowsFirst
  <2>3. lab[1].num \in Nat /\ lv[1] = 3
    BY <2>1, <2>2 DEF Label
  <2>4. dec.pc = "copy" /\ spData' = dec.buf /\ copies' = copies + 1 /\ sent' = sent
    BY <1>3 DEF DecoderCopy
  <2>5. copies' = lab[1].num
    BY <2>1, <2>3, <2>4 DEF CopiedTo
  <2>6. dec.buf = Packet(sent, lab[1].num)
    BY <2>1, <2>3, <2>4 DEF Knows, Current
  <2> QED
    BY <2>2, <2>4, <2>5, <2>6
<1>4. ASSUME NEW c \in Cmds, SendSp(c)
      PROVE  copies' <= Len(sent') /\ spData' = Packet(sent', copies')
  <2>1. UNCHANGED <<copies, spData>> /\ sent' = Append(sent, c)
    BY <1>4 DEF SendSp
  <2> DEFINE h2 == Append(sent, c)
  <2>2. Len(h2) = Len(sent) + 1 /\ \A i \in 1..Len(sent) : h2[i] = sent[i]
    BY <1>t
  <2>3. Len(sent) \in Nat
    BY <1>t
  <2> HIDE DEF h2
  <2>4. copies <= Len(h2)
    BY <1>t, <1>2, <2>2, <2>3
  <2>5. copies # 0 => copies \in 1..Len(sent)
    BY <1>t, <1>2, <2>3
  <2>6. Packet(h2, copies) = Packet(sent, copies)
    BY <2>2, <2>5 DEF Packet
  <2> QED
    BY <1>2, <2>1, <2>4, <2>6 DEF h2
<1>5. CASE UNCHANGED <<copies, spData, sent>>
  BY <1>2, <1>5
<1> QED
  BY <1>3, <1>4, <1>5
     DEF Next, Camera, Decoder, Motor, SendGate, LoseByte, RxIsr, DecoderRead,
         DecoderEmpty, DecoderTake, DecoderRelease, DecoderSignal, DecoderFlag,
         GateOpened, MotorSet, MotorTake, MotorLoad, MotorConvert, vars, progVars,
         histVars

(* Every step keeps the account of the stream.                             *)
LEMMA StreamInvStep ==
  ASSUME TypeOK, StreamInv, [Next]_vars
  PROVE  StreamInv'
<1>1. TypeOK'
  BY TypeStep
<1>2. Fresh'
  <2>1. CASE DecoderRead
    BY <2>1, ReadPlace DEF StreamInv, TypeOK
  <2> QED
    BY <2>1, SamePlace DEF StreamInv, TypeOK
<1>3. Followed'
  BY <1>1, FollowedStep DEF StreamInv
<1> QED
  BY <1>2, <1>3, CopiedStep DEF StreamInv

(* While no byte is lost, sp_data always is the packet that was sent at the*)
(* place of its last copy: packets are neither reordered nor mixed, torn or*)
(* made up on their way, whatever else is sent in between, for every size  *)
(* of the receive buffer.                                                  *)
THEOREM LinkInOrder == Spec => []InOrder
<1>1. Init => TypeOK /\ StreamInv
  BY InitTypes, InitStreamInv
<1>2. (TypeOK /\ StreamInv) /\ [Next]_vars => (TypeOK /\ StreamInv)'
  BY TypeStep, StreamInvStep
<1>3. StreamInv => InOrder
  BY DEF StreamInv, InOrder, Packet
<1> QED
  BY <1>1, <1>2, <1>3, PTL DEF Spec

(* However many bytes were lost and wherever they were, two packets sent   *)
(* after the last loss bring the decoder back: when everything has been    *)
(* read, sp_data is the last packet.                                       *)
THEOREM LinkResync == Spec => []Resync
<1>1. Init => TypeOK /\ StreamInv
  BY InitTypes, InitStreamInv
<1>2. (TypeOK /\ StreamInv) /\ [Next]_vars => (TypeOK /\ StreamInv)'
  BY TypeStep, StreamInvStep
<1>3. TypeOK /\ StreamInv => Resync
  <2> SUFFICES ASSUME TypeOK, StreamInv, AllConsumed, pristine >= 2, sent # << >>
               PROVE  spData = sent[Len(sent)]
    BY DEF Resync
  <2>1. pristine = 2 /\ sent \in Seq(Cmds)
    BY DEF TypeOK, HistoryTypes
  <2>2. Unread = << >> /\ Unread \in Seq(Byte) /\ Len(Unread) = 0
    <3>1. << >> \in Seq(Byte) /\ ring = << >> /\ wire = << >>
      BY EmptySeq DEF AllConsumed
    <3> QED
      BY <3>1, ConcatEmptySeq DEF Unread
  <2>3. PICK lab, lv : /\ Follows(Unread, sent, gates, lab, lv)
                       /\ Knows(sent, lv[1], lab[1])
                       /\ lv[Len(Unread) + 1] = 3
    BY <2>1 DEF StreamInv, Followed
  <2>4. lab[Len(Unread) + 1] = Between(Len(sent), gates)
    BY <2>3 DEF Follows, Labels
  <2>5. lv[1] = 3 /\ lab[1].num = Len(sent)
    BY <2>2, <2>3, <2>4 DEF Between
  <2>6. dec.pc = "take" /\ spData = Packet(sent, Len(sent))
    BY <2>3, <2>5 DEF Knows, Current, AllConsumed
  <2>7. Len(sent) # 0
    BY <2>1, EmptySeq
  <2> QED
    BY <2>6, <2>7 DEF Packet
<1> QED
  BY <1>1, <1>2, <1>3, PTL DEF Spec
-----------------------------------------------------------------------------
(* The link implements the register of the newest command.  The bytes that *)
(* motor_ctrl_th has read come from copies that follow each other, none    *)
(* older than what it applied before, and are those of the packets copied. *)
VersionInv ==
  /\ Len(versions.got) = Len(mot.got)
  /\ \A k \in 1..4 : k <= Len(mot.got) =>
       /\ versions.got[k] <= copies
       /\ versions.pwm[4] <= versions.got[1]
       /\ \A i \in 1..4 : i <= k => versions.got[i] <= versions.got[k]
       /\ lost = 0 => mot.got[k] = Packet(sent, versions.got[k])[k]
  /\ versions.pwm \in [1..4 -> Nat]
  /\ \A k \in 1..4 : versions.pwm[k] <= copies
  /\ mot.pc = "take" => mot.got = << >>
  /\ mot.pc = "set" =>
       \/ /\ Len(mot.got) = 4
          /\ mot.pulse = << PulseNs(mot.got[3], mot.got[4]),
                            PulseNs(mot.got[1], mot.got[2]) >>
       \/ /\ mot.got = << >> /\ mot.pulse = <<0, 0>> /\ versions.pwm = Zero4

(* At first the motor thread has read nothing and the wheels stand.        *)
LEMMA InitVersionInv == Init => VersionInv
<1> SUFFICES ASSUME Init PROVE VersionInv
  OBVIOUS
<1>1. /\ mot.pc = "set" /\ mot.got = << >> /\ mot.pulse = <<0, 0>>
      /\ versions.got = << >> /\ versions.pwm = Zero4 /\ copies = 0
  BY DEF Init
<1>2. Len(mot.got) = 0 /\ Len(versions.got) = 0
  BY <1>1, EmptySeq
<1>3. Zero4 \in [1..4 -> Nat] /\ \A k \in 1..4 : Zero4[k] = 0
  BY DEF Zero4
<1> QED
  BY <1>1, <1>2, <1>3 DEF VersionInv

(* Every step keeps the copies that the motor thread has read in order.    *)
LEMMA VersionStep ==
  ASSUME TypeOK, TypeOK', StreamInv, VersionInv, [Next]_vars
  PROVE  VersionInv'
<1>t. /\ lost \in Nat /\ sent \in Seq(Cmds) /\ copies \in Nat
      /\ mot \in [pc : {"set", "take", "load"}, got : Seq(Byte), pulse : Nat \X Nat]
      /\ versions \in [got : Seq(Nat), pwm : Seq(Nat)]
      /\ Len(mot.got) \in Nat /\ Len(sent) \in Nat
  BY LenProperties DEF TypeOK, HistoryTypes, MotorTypes
<1>g. \A k \in 1..4 : k <= Len(mot.got) => versions.got[k] \in Nat
  <2>1. \A k \in 1..4 : k <= Len(mot.got) => k \in 1..Len(versions.got)
    BY <1>t DEF VersionInv
  <2> QED
    BY <1>t, <2>1
<1>1. CASE UNCHANGED <<mot, versions, sent, copies>> /\ (lost' = 0 => lost = 0)
  BY <1>1 DEF VersionInv
<1>2. ASSUME NEW c \in Cmds, SendSp(c) PROVE VersionInv'
  <2>1. UNCHANGED <<mot, versions, copies, lost>> /\ sent' = Append(sent, c)
    BY <1>2 DEF SendSp
  <2>2. \A i \in 1..Len(sent) : sent'[i] = sent[i]
    BY <1>t, <2>1
  <2>3. ASSUME NEW k \in 1..4, k <= Len(mot.got), lost = 0
        PROVE  Packet(sent', versions.got[k]) = Packet(sent, versions.got[k])
    <3>1. versions.got[k] \in Nat /\ versions.got[k] <= Len(sent)
      <4>1. versions.got[k] \in Nat /\ versions.got[k] <= copies
        BY <1>g, <2>3 DEF VersionInv
      <4>2. copies <= Len(sent)
        BY <2>3 DEF StreamInv
      <4> QED
        BY <1>t, <4>1, <4>2
    <3>2. versions.got[k] # 0 => versions.got[k] \in 1..Len(sent)
      BY <1>t, <3>1
    <3> QED
      BY <2>2, <3>2 DEF Packet
  <2> QED
    BY <2>1, <2>3 DEF VersionInv
<1>3. CASE DecoderCopy
  <2>1. UNCHANGED <<mot, versions, lost, sent>> /\ copies' = copies + 1
    BY <1>3 DEF DecoderCopy
  <2>2. \A k \in 1..4 : /\ k <= Len(mot.got) => versions.got[k] <= copies + 1
                        /\ versions.pwm[k] <= copies + 1
    <3>1. ASSUME NEW n \in Nat, n <= copies PROVE n <= copies + 1
      BY <1>t, <3>1
    <3>2. \A k \in 1..4 : /\ k <= Len(mot.got) => versions.got[k] <= copies
                          /\ versions.pwm[k] \in Nat /\ versions.pwm[k] <= copies
      BY DEF VersionInv
    <3> QED
      BY <1>g, <3>1, <3>2
  <2> QED
    BY <2>1, <2>2 DEF VersionInv
<1>4. CASE MotorSet
  <2>1. /\ mot' = [pc |-> "take", got |-> << >>, pulse |-> mot.pulse]
        /\ versions' = [got |-> << >>,
                        pwm |-> IF versions.got = << >> THEN versions.pwm
                                                        ELSE versions.got]
        /\ UNCHANGED <<copies, lost, sent>> /\ mot.pc = "set"
    BY <1>4 DEF MotorSet
  <2>2. /\ mot'.pc = "take" /\ mot'.got = << >> /\ versions'.got = << >>
        /\ Len(mot'.got) = 0 /\ Len(versions'.got) = 0
    BY <2>1, EmptySeq
  <2>3. /\ versions'.pwm \in [1..4 -> Nat]
        /\ \A k \in 1..4 : versions'.pwm[k] <= copies
    <3>1. CASE versions.got = << >>
      BY <2>1, <3>1 DEF VersionInv
    <3>2. CASE versions.got # << >>
      <4>1. Len(versions.got) # 0
        BY <1>t, <3>2, EmptySeq
      <4>2. Len(mot.got) = 4 /\ Len(versions.got) = 4
        <5>1. mot.got = << >> => Len(mot.got) = 0
          BY EmptySeq
        <5> QED
          BY <2>1, <4>1, <5>1 DEF VersionInv
      <4>3. versions.got \in [1..4 -> Nat]
        BY <1>t, <4>2, LenProperties
      <4> QED
        BY <2>1, <3>2, <4>2, <4>3 DEF VersionInv
    <3> QED
      BY <3>1, <3>2
  <2> QED
    BY <2>1, <2>2, <2>3 DEF VersionInv
<1>5. CASE MotorTake
  <2>1. mot.pc = "take" /\ mot' = [mot EXCEPT !.pc = "load"]
        /\ UNCHANGED <<versions, copies, lost, sent>>
    BY <1>5 DEF MotorTake, histVars
  <2>2. mot'.pc = "load" /\ mot'.got = mot.got
    BY <1>t, <2>1
  <2> QED
    BY <2>1, <2>2 DEF VersionInv
<1>6. CASE MotorLoad
  <2> DEFINE n == Len(mot.got) + 1
             q == mot.got
             w == versions.got
             q2 == Append(q, spData[n])
             w2 == Append(w, copies)
  <2>1. /\ mot.pc = "load" /\ Len(mot.got) < 4
        /\ mot' = [mot EXCEPT !.got = q2]
        /\ versions' = [versions EXCEPT !.got = w2]
        /\ UNCHANGED <<copies, lost, sent>>
    BY <1>6 DEF MotorLoad, VersionInv
  <2>2. /\ mot'.pc = "load" /\ mot'.got = q2
        /\ versions'.got = w2 /\ versions'.pwm = versions.pwm
    BY <1>t, <2>1
  <2>3. /\ q \in Seq(Byte) /\ w \in Seq(Nat) /\ Len(q) = n - 1 /\ Len(w) = n - 1
        /\ n \in Nat
    BY <1>t DEF VersionInv
  <2>4. n \in 1..4
    <3>1. ASSUME NEW j \in Nat, j < 4 PROVE j + 1 \in 1..4
      BY <3>1
    <3> QED
      BY <1>t, <2>1, <3>1
  <2>5. spData[n] \in Byte
    BY <2>4 DEF TypeOK, MotorTypes
  <2>v. /\ \A k \in 1..4 : k <= n - 1 =>
             /\ w[k] \in Nat /\ w[k] <= copies
             /\ versions.pwm[4] <= w[1]
             /\ \A i \in 1..4 : i <= k => w[i] <= w[k]
             /\ lost = 0 => q[k] = Packet(sent, w[k])[k]
        /\ versions.pwm \in [1..4 -> Nat]
        /\ \A k \in 1..4 : versions.pwm[k] <= copies
    BY <1>t, <1>g, <2>3 DEF VersionInv
  <2>p. lost = 0 => spData = Packet(sent, copies)
    BY DEF StreamInv
  <2> HIDE DEF n, q, w
  <2>6. /\ Len(q2) = n /\ q2[n] = spData[n] /\ \A k \in 1..n-1 : q2[k] = q[k]
        /\ Len(w2) = n /\ w2[n] = copies /\ \A k \in 1..n-1 : w2[k] = w[k]
    BY <1>t, <2>3, <2>5
  <2> HIDE DEF q2, w2
  <2>7. ASSUME NEW k \in 1..4, k <= n
        PROVE  /\ w2[k] <= copies
               /\ versions.pwm[4] <= w2[1]
               /\ \A i \in 1..4 : i <= k => w2[i] <= w2[k]
               /\ lost = 0 => q2[k] = Packet(sent, w2[k])[k]
    <3>1. CASE k = n
      <4>1. w2[k] = copies /\ q2[k] = spData[k]
        BY <2>6, <3>1
      <4>2. ASSUME NEW i \in 1..4, i <= k PROVE w2[i] <= copies
        <5>1. CASE i = k
          BY <1>t, <4>1, <5>1
        <5>2. CASE i # k
          <6>1. i \in 1..n-1 /\ i <= n - 1
            BY <2>3, <3>1, <4>2, <5>2
          <6> QED
            BY <2>6, <2>v, <6>1
        <5> QED
          BY <5>1, <5>2
      <4>3. versions.pwm[4] <= w2[1]
        <5>1. CASE n = 1
          BY <2>6, <2>v, <5>1
        <5>2. CASE n # 1
          <6>1. 1 \in 1..n-1 /\ 1 <= n - 1
            BY <2>4, <5>2
          <6> QED
            BY <2>6, <2>v, <6>1
        <5> QED
          BY <5>1, <5>2
      <4> QED
        BY <1>t, <2>p, <4>1, <4>2, <4>3
    <3>2. CASE k # n
      <4>1. /\ k \in 1..n-1 /\ k <= n - 1 /\ 1 \in 1..n-1
            /\ \A i \in 1..4 : i <= k => i \in 1..n-1
        BY <2>4, <2>7, <3>2
      <4>2. /\ w2[k] = w[k] /\ q2[k] = q[k] /\ w2[1] = w[1]
            /\ \A i \in 1..4 : i <= k => w2[i] = w[i]
        BY <2>6, <4>1
      <4> QED
        BY <2>v, <4>1, <4>2
    <3> QED
      BY <3>1, <3>2
  <2> QED
    BY <2>1, <2>2, <2>6, <2>7, <2>v DEF VersionInv
<1>7. CASE MotorConvert
  <2>1. /\ mot.pc = "load" /\ Len(mot.got) = 4
        /\ mot' = [pc    |-> "set",
                   got   |-> mot.got,
                   pulse |-> << PulseNs(mot.got[3], mot.got[4]),
                                PulseNs(mot.got[1], mot.got[2]) >>]
        /\ UNCHANGED <<versions, copies, lost, sent>>
    BY <1>7 DEF MotorConvert, histVars
  <2>2. /\ mot'.pc = "set" /\ mot'.got = mot.got
        /\ mot'.pulse = << PulseNs(mot.got[3], mot.got[4]),
                           PulseNs(mot.got[1], mot.got[2]) >>
    BY <2>1
  <2> HIDE DEF PulseNs
  <2> QED
    BY <2>1, <2>2 DEF VersionInv
<1>8. CASE LoseByte \/ RxIsr
  BY <1>t, <1>1, <1>8 DEF LoseByte, RxIsr
<1> QED
  BY <1>1, <1>2, <1>3, <1>4, <1>5, <1>6, <1>7, <1>8
     DEF Next, Camera, Decoder, Motor, SendGate, DecoderRead, DecoderEmpty,
         DecoderTake, DecoderRelease, DecoderSignal, DecoderFlag, GateOpened,
         vars, progVars, histVars

(* The register's arithmetic is the link's.                                *)
LEMMA SameDuty ==
  ASSUME NEW p
  PROVE  Register!Duty(p) = Duty(p)
<1>1. ASSUME NEW v PROVE Register!FallsShort(v) = FallsShort(v)
  BY DEF Register!FallsShort, FallsShort, Register!SpeedExponent, SpeedExponent,
     Register!Remainder, Remainder, Register!ProductExponent, ProductExponent,
     Register!Scaled, Scaled
<1>2. ASSUME NEW w, NEW h PROVE Register!PulseNs(w, h) = PulseNs(w, h)
  BY <1>1 DEF Register!PulseNs, PulseNs
<1>3. ASSUME NEW n PROVE Register!Compare(n) = Compare(n)
  BY DEF Register!Compare, Compare, Register!PulseTicks, PulseTicks,
     Register!Prescale, Prescale, Register!PeriodTicks, PeriodTicks,
     Register!MAX_PERIOD, MAX_PERIOD, Register!MIN_PERIOD, MIN_PERIOD,
     Register!MIN_PULSE, MIN_PULSE
<1> QED
  BY <1>2, <1>3 DEF Register!Duty, Duty

(* Setting the two PWM channels applies what was read, newer throughout    *)
(* than what was applied before.                                           *)
LEMMA SetApplies ==
  ASSUME TypeOK, StreamInv, VersionInv, MotorSet, lost = 0
  PROVE  Register!Apply
<1>t. /\ sent \in Seq(Cmds) /\ copies \in Nat /\ Len(sent) \in Nat
      /\ mot \in [pc : {"set", "take", "load"}, got : Seq(Byte), pulse : Nat \X Nat]
      /\ versions \in [got : Seq(Nat), pwm : Seq(Nat)]
      /\ copies <= Len(sent)
  BY DEF TypeOK, HistoryTypes, MotorTypes, StreamInv
<1>1. /\ mot.pc = "set" /\ sent' = sent
      /\ pwm' = << Compare(mot.pulse[1]), Compare(mot.pulse[2]) >>
      /\ versions' = [got |-> << >>,
                      pwm |-> IF versions.got = << >> THEN versions.pwm
                                                      ELSE versions.got]
  BY DEF MotorSet
<1>2. ASSUME NEW v \in [1..4 -> 0..Len(sent)], Register!Forward(v),
             versions'.pwm = v, pwm' = Duty(Register!Mixed(v))
      PROVE  Register!Apply
  BY <1>1, <1>2, SameDuty DEF Register!Apply
<1>3. CASE mot.got = << >>
  <2>1. Len(versions.got) = 0
    BY <1>3, EmptySeq DEF VersionInv
  <2>2. versions.got = << >>
    BY <1>t, <2>1, EmptySeq
  <2>3. mot.pulse = <<0, 0>> /\ versions.pwm = Zero4
    <3>1. Len(mot.got) # 4
      BY <1>3, EmptySeq
    <3> QED
      BY <1>1, <3>1 DEF VersionInv
  <2>4. Zero4 \in [1..4 -> 0..Len(sent)] /\ \A k \in 1..4 : Zero4[k] = 0
    BY <1>t DEF Zero4
  <2>5. Register!Forward(Zero4)
    BY <2>3, <2>4 DEF Register!Forward
  <2>6. \A k \in 1..4 : Register!Mixed(Zero4)[k] = 0
    BY <2>4 DEF Register!Mixed
  <2>7. pwm' = Duty(Register!Mixed(Zero4))
    BY <1>1, <2>3, <2>6, PulseZero DEF Duty
  <2>8. versions'.pwm = Zero4
    BY <1>1, <2>2, <2>3
  <2> QED
    BY <1>2, <2>4, <2>5, <2>7, <2>8
<1>4. CASE mot.got # << >>
  <2> DEFINE v == versions.got
  <2>1. /\ Len(mot.got) = 4 /\ Len(v) = 4
        /\ mot.pulse = << PulseNs(mot.got[3], mot.got[4]),
                          PulseNs(mot.got[1], mot.got[2]) >>
    BY <1>1, <1>4 DEF VersionInv
  <2>2. v \in [1..4 -> Nat] /\ v # << >>
    BY <1>t, <2>1, LenProperties, EmptySeq
  <2>3. /\ \A k \in 1..4 : v[k] <= copies
        /\ versions.pwm[4] <= v[1]
        /\ \A k \in 1..4 : \A i \in 1..4 : i <= k => v[i] <= v[k]
        /\ \A k \in 1..4 : mot.got[k] = Packet(sent, v[k])[k]
    BY <2>1 DEF VersionInv
  <2> HIDE DEF v
  <2>4. v \in [1..4 -> 0..Len(sent)]
    <3>1. ASSUME NEW n \in Nat, n <= copies PROVE n \in 0..Len(sent)
      BY <1>t, <3>1
    <3>2. \A k \in 1..4 : v[k] \in 0..Len(sent)
      BY <2>2, <2>3, <3>1
    <3> QED
      BY <2>2, <3>2
  <2>5. Register!Forward(v)
    <3>1. \A k \in 1..3 : k \in 1..4 /\ k + 1 \in 1..4 /\ k <= k + 1
      OBVIOUS
    <3>2. \A k \in 1..3 : v[k] <= v[k+1]
      BY <2>3, <3>1
    <3> QED
      BY <2>3, <3>2 DEF Register!Forward
  <2>6. \A k \in 1..4 : Register!Mixed(v)[k] = mot.got[k]
    <3>1. \A k \in 1..4 : Packet(sent, v[k])[k] = IF v[k] = 0 THEN 0 ELSE sent[v[k]][k]
      BY DEF Packet, Zero4
    <3> QED
      BY <2>3, <3>1 DEF Register!Mixed
  <2>7. pwm' = Duty(Register!Mixed(v))
    BY <1>1, <2>1, <2>6 DEF Duty
  <2>8. versions'.pwm = v
    BY <1>1, <2>2 DEF v
  <2> QED
    BY <1>2, <2>4, <2>5, <2>7, <2>8
<1> QED
  BY <1>3, <1>4

(* As long as no byte is lost every step is one of the register, or none.  *)
LEMMA RegisterStep ==
  ASSUME TypeOK, StreamInv, VersionInv, [Next]_vars, lost' = 0
  PROVE  [Register!Next]_(Register!cvars)
<1>1. lost = 0
  <2>1. lost \in Nat
    BY DEF TypeOK, HistoryTypes
  <2> QED
    BY <2>1 DEF Next, Camera, Decoder, Motor, SendSp, SendGate, LoseByte, RxIsr,
     DecoderRead, DecoderEmpty, DecoderTake, DecoderCopy, DecoderRelease,
     DecoderSignal, DecoderFlag, GateOpened, MotorSet, MotorTake, MotorLoad,
     MotorConvert, vars, histVars
<1>2. CASE MotorSet
  BY <1>1, <1>2, SetApplies DEF Register!Next
<1>3. ASSUME NEW c \in Cmds, SendSp(c) PROVE Register!Next
  BY <1>3 DEF SendSp, Register!Next, Register!Issue
<1>4. CASE MotorLoad
  <2>1. versions'.pwm = versions.pwm /\ UNCHANGED <<sent, pwm>>
    BY <1>4 DEF MotorLoad, TypeOK, HistoryTypes
  <2> QED
    BY <2>1 DEF Register!cvars
<1>5. CASE UNCHANGED <<sent, versions, pwm>>
  BY <1>5 DEF Register!cvars
<1> QED
  BY <1>2, <1>3, <1>4, <1>5
     DEF Next, Camera, Decoder, Motor, SendGate, LoseByte, RxIsr, DecoderRead,
         DecoderEmpty, DecoderTake, DecoderCopy, DecoderRelease, DecoderSignal,
         DecoderFlag, GateOpened, MotorTake, MotorConvert, vars, progVars, histVars

(* Until the first byte is lost the whole link, with its buffer, its       *)
(* semaphores and the unprotected sp_data, is the abstract register: each  *)
(* setting of the wheels is made of bytes of packets sent, in the order    *)
(* sent and none older than any applied before.                            *)
THEOREM LinkRegister == Spec => RegisterSpec
<1>1. Init => TypeOK /\ StreamInv /\ VersionInv
  BY InitTypes, InitStreamInv, InitVersionInv
<1>2. (TypeOK /\ StreamInv /\ VersionInv) /\ [Next]_vars =>
        (TypeOK /\ StreamInv /\ VersionInv)'
  BY TypeStep, StreamInvStep, VersionStep
<1>3. (TypeOK /\ StreamInv /\ VersionInv) /\ [Next]_vars =>
        [lost' = 0 => [Register!Next]_(Register!cvars)]_vars
  BY RegisterStep
<1>4. Init => Register!Init
  BY DEF Init, Register!Init, Zero4
<1> QED
  BY <1>1, <1>2, <1>3, <1>4, PTL DEF Spec, RegisterSpec
=============================================================================
