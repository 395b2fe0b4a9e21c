---------------------------- MODULE StartupProofs ----------------------------
(***************************************************************************)
(* The reception of bytes and the start of the board, for every buffer     *)
(* size and number of bytes: the ring buffer is a queue, the decoder never *)
(* waits while there are bytes for it, and when everything could be        *)
(* created nobody uses a handle before it exists.                          *)
(***************************************************************************)
EXTENDS Startup, SequenceTheorems, TLAPS

(* What a step of the board does to the reception.                         *)
RxNext == \/ \E b \in Data : Arrive(b)
          \/ IsrStore \/ IsrIndicate \/ ReadByte \/ ReadNothing

(* A full buffer is never one that looks empty: the code moves get_index   *)
(* on when put_index has caught up with it.                                *)
RingInv == RxTypeOK /\ (isFull => getIndex # putIndex)

(* The indices stay within the buffer.                                     *)
LEMMA WrapInside ==
  ASSUME NEW i \in 0..BufSz-1
  PROVE  /\ Wrap(i + 1) \in 0..BufSz-1 /\ Wrap(i + 1) # i
         /\ Wrap(i + 1) = IF i = BufSz - 1 THEN 0 ELSE i + 1
  BY SerialAssumption DEF Wrap

(* The buffer is empty at first.                                           *)
LEMMA InitRing == RxInit => RingInv
<1> SUFFICES ASSUME RxInit PROVE RingInv
  OBVIOUS
<1>1. BufSz \in Nat /\ BufSz >= 2
  BY SerialAssumption
<1>2. buffer \in [0..BufSz-1 -> Data]
  BY DEF RxInit
<1>3. putIndex \in 0..BufSz-1 /\ getIndex \in 0..BufSz-1
  BY <1>1 DEF RxInit
<1>4. isFull = FALSE /\ isFull \in BOOLEAN
  BY Zenon DEF RxInit
<1>5. QED
  BY <1>2, <1>3, <1>4 DEF RxInit, RingInv, RxTypeOK

(* No step lets a full buffer look empty.                                  *)
LEMMA StepRing == RingInv /\ [RxNext]_rxVars => RingInv'
<1> SUFFICES ASSUME RingInv, [RxNext]_rxVars PROVE RingInv'
  OBVIOUS
<1> USE DEF RingInv, RxTypeOK
<1>1. ASSUME NEW b \in Data, Arrive(b) PROVE RingInv'
  BY <1>1 DEF Arrive
<1>2. CASE IsrStore
  <2>1. Head(dr) \in Data
    BY <1>2 DEF IsrStore
  <2>2. buffer' \in [0..BufSz-1 -> Data] /\ dr' = << >> /\ isr' = "loop"
    BY <1>2, <2>1 DEF IsrStore
  <2>3. putIndex' = Wrap(putIndex + 1) /\ putIndex' \in 0..BufSz-1
    BY <1>2, WrapInside DEF IsrStore
  <2>4. CASE putIndex' = getIndex
    <3>1. getIndex' = Wrap(getIndex + 1) /\ isFull' = TRUE
      BY <1>2, <2>4 DEF IsrStore
    <3>2. getIndex' \in 0..BufSz-1 /\ getIndex' # putIndex'
      BY <2>4, <3>1, WrapInside
    <3>3. isFull' \in BOOLEAN
      BY Zenon, <3>1
    <3>4. QED
      BY <1>2, <2>2, <2>3, <3>2, <3>3 DEF IsrStore
  <2>5. CASE putIndex' # getIndex
    BY <1>2, <2>2, <2>3, <2>5 DEF IsrStore
  <2>6. QED
    BY <2>4, <2>5
<1>3. CASE IsrIndicate
  BY <1>3 DEF IsrIndicate
<1>4. CASE ReadByte
  <2>1. getIndex' \in 0..BufSz-1
    BY <1>4, WrapInside DEF ReadByte
  <2>2. isFull' = FALSE /\ isFull' \in BOOLEAN
    BY Zenon, <1>4 DEF ReadByte
  <2>3. QED
    BY <1>4, <2>1, <2>2 DEF ReadByte
<1>5. CASE ReadNothing
  BY <1>5 DEF ReadNothing
<1>6. CASE UNCHANGED rxVars
  BY <1>6 DEF rxVars
<1>7. QED
  BY <1>1, <1>2, <1>3, <1>4, <1>5, <1>6 DEF RxNext
-----------------------------------------------------------------------------
(* The content as a sequence.                                              *)
ContentFacts ==
  /\ Content \in Seq(Data) /\ Len(Content) = Length
  /\ Length \in 0..BufSz-1 /\ (Length = 0 <=> getIndex = putIndex)
  /\ \A i \in 1..Length : Content[i] = buffer[Slot(i - 1)]

(* The content of the ring buffer is its Length bytes from get_index on.   *)
LEMMA ContentIsSeq == RingInv => ContentFacts
<1> SUFFICES ASSUME RingInv PROVE ContentFacts
  OBVIOUS
<1>1. /\ BufSz \in Nat /\ BufSz >= 2
      /\ putIndex \in 0..BufSz-1 /\ getIndex \in 0..BufSz-1
      /\ buffer \in [0..BufSz-1 -> Data]
  BY SerialAssumption DEF RingInv, RxTypeOK
<1>2. Length \in 0..BufSz-1 /\ (Length = 0 <=> getIndex = putIndex)
  BY <1>1 DEF Length
<1>3. ASSUME NEW i \in 1..Length PROVE buffer[Slot(i - 1)] \in Data
  <2>1. Slot(i - 1) \in 0..BufSz-1
    BY <1>1, <1>2 DEF Slot, Length
  <2>2. QED
    BY <1>1, <2>1
<1>4. Content \in [1..Length -> Data]
  BY <1>3 DEF Content
<1>5. Content \in Seq(Data) /\ Len(Content) = Length
  BY <1>2, <1>4
<1>6. QED
  BY <1>2, <1>5 DEF Content, ContentFacts

(* Storing a byte puts it into the queue, at the end of what is kept.      *)
LEMMA StorePuts ==
  ASSUME RingInv, ContentFacts, ContentFacts', IsrStore
  PROVE  \E b \in Data : Content' = Queue!Put(Content, b, BufSz - 1) /\ got' = got
<1> DEFINE b == Head(dr)
<1>1. /\ BufSz \in Nat /\ BufSz >= 2
      /\ putIndex \in 0..BufSz-1 /\ getIndex \in 0..BufSz-1
      /\ buffer \in [0..BufSz-1 -> Data]
  BY SerialAssumption DEF RingInv, RxTypeOK
<1>2. b \in Data
  BY DEF IsrStore, RingInv, RxTypeOK
<1>3. /\ buffer' = [buffer EXCEPT ![putIndex] = b]
      /\ putIndex' = IF putIndex = BufSz - 1 THEN 0 ELSE putIndex + 1
      /\ got' = got
  BY <1>1, WrapInside DEF IsrStore
<1>4. /\ Content \in Seq(Data) /\ Len(Content) = Length /\ Length \in 0..BufSz-1
      /\ \A i \in 1..Length : Content[i] = buffer[Slot(i - 1)]
  BY DEF ContentFacts
<1>5. /\ Content' \in Seq(Data) /\ Len(Content') = Length'
      /\ \A i \in 1..Length' : Content'[i] = buffer'[Slot(i - 1)']
  BY DEF ContentFacts
<1> HIDE DEF b
<1>6. CASE putIndex' # getIndex
  <2>1. getIndex' = getIndex
    BY <1>6 DEF IsrStore
  <2>2. Length' = Length + 1 /\ Length < BufSz - 1
    BY <1>1, <1>3, <1>6, <2>1 DEF Length
  <2>3. Append(Content, b) \in Seq(Data) /\ Len(Append(Content, b)) = Length + 1
    BY <1>2, <1>4
  <2>4. ASSUME NEW i \in 1..Length' PROVE Content'[i] = Append(Content, b)[i]
    <3>1. CASE i = Length + 1
      <4>1. Slot(i - 1)' = putIndex
        BY <1>1, <2>1, <2>2, <3>1 DEF Slot, Length
      <4>2. QED
        BY <1>1, <1>3, <1>4, <1>5, <2>2, <3>1, <4>1
    <3>2. CASE i \in 1..Length
      <4>1. Slot(i - 1)' = Slot(i - 1) /\ Slot(i - 1) # putIndex
            /\ Slot(i - 1) \in 0..BufSz-1
        BY <1>1, <2>1, <2>2, <3>2 DEF Slot, Length
      <4>2. Content'[i] = Content[i]
        BY <1>1, <1>3, <1>4, <1>5, <2>2, <3>2, <4>1
      <4>3. Append(Content, b)[i] = Content[i]
        BY <1>2, <1>4, <3>2
      <4>4. QED
        BY <4>2, <4>3
    <3>3. QED
      BY <1>4, <2>2, <3>1, <3>2
  <2>5. Content' = Append(Content, b)
    BY <1>5, <2>2, <2>3, <2>4, SeqEqual
  <2>6. QED
    BY <1>2, <1>3, <1>4, <2>2, <2>5 DEF Queue!Put
<1>7. CASE putIndex' = getIndex
  <2>1. getIndex' = IF getIndex = BufSz - 1 THEN 0 ELSE getIndex + 1
    BY <1>1, <1>7, WrapInside DEF IsrStore
  <2>2. Length' = BufSz - 1 /\ Length = BufSz - 1
    BY <1>1, <1>3, <1>7, <2>1 DEF Length
  <2>3. /\ Tail(Content) \in Seq(Data) /\ Len(Tail(Content)) = BufSz - 2
        /\ \A i \in 1..BufSz-2 : Tail(Content)[i] = Content[i+1]
    <3>1. Content # << >>
      BY <1>1, <1>4, <2>2, EmptySeq
    <3>2. QED
      BY <1>1, <1>4, <2>2, <3>1, HeadTailProperties
  <2>4. /\ Append(Tail(Content), b) \in Seq(Data)
        /\ Len(Append(Tail(Content), b)) = BufSz - 1
    BY <1>1, <1>2, <2>3
  <2>5. ASSUME NEW i \in 1..Length' PROVE Content'[i] = Append(Tail(Content), b)[i]
    <3>1. CASE i = BufSz - 1
      <4>1. Slot(i - 1)' = putIndex
        BY <1>1, <1>3, <1>7, <2>1, <3>1 DEF Slot
      <4>2. Content'[i] = b
        BY <1>1, <1>3, <1>5, <2>2, <3>1, <4>1
      <4>3. Append(Tail(Content), b)[i] = b
        BY <1>1, <1>2, <2>3, <3>1
      <4>4. QED
        BY <4>2, <4>3
    <3>2. CASE i \in 1..BufSz-2
      <4>1. Slot(i - 1)' = Slot(i) /\ Slot(i) # putIndex /\ Slot(i) \in 0..BufSz-1
        BY <1>1, <1>3, <1>7, <2>1, <3>2 DEF Slot
      <4>2. Content'[i] = buffer[Slot(i)]
        BY <1>1, <1>3, <1>5, <2>2, <3>2, <4>1
      <4>3. Content[i+1] = buffer[Slot(i)]
        <5>1. i + 1 \in 1..Length /\ (i + 1) - 1 = i
          BY <1>1, <2>2, <3>2
        <5>2. QED
          BY <1>4, <5>1
      <4>4. Append(Tail(Content), b)[i] = Content[i+1]
        BY <1>1, <1>2, <2>3, <3>2
      <4>5. QED
        BY <4>2, <4>3, <4>4
    <3>3. i = BufSz - 1 \/ i \in 1..BufSz-2
      BY <1>1, <2>2, <2>5
    <3>4. QED
      BY <3>1, <3>2, <3>3
  <2>6. Content' = Append(Tail(Content), b)
    BY <1>5, <2>2, <2>4, <2>5, SeqEqual
  <2>7. QED
    BY <1>2, <1>3, <1>4, <2>2, <2>6 DEF Queue!Put
<1>8. QED
  BY <1>6, <1>7

(* Reading a byte takes it from the front of the queue.                    *)
LEMMA ReadTakes ==
  ASSUME RingInv, ContentFacts, ContentFacts', ReadByte
  PROVE  Content # << >> /\ got' = Head(Content) /\ Content' = Tail(Content)
<1>1. /\ BufSz \in Nat /\ BufSz >= 2
      /\ putIndex \in 0..BufSz-1 /\ getIndex \in 0..BufSz-1
      /\ buffer \in [0..BufSz-1 -> Data]
  BY SerialAssumption DEF RingInv, RxTypeOK
<1>2. getIndex # putIndex
  BY DEF ReadByte, Empty, RingInv
<1>3. /\ got' = buffer[getIndex] /\ UNCHANGED <<buffer, putIndex>>
      /\ getIndex' = IF getIndex = BufSz - 1 THEN 0 ELSE getIndex + 1
  BY <1>1, WrapInside DEF ReadByte
<1>4. /\ Content \in Seq(Data) /\ Len(Content) = Length /\ Length \in 1..BufSz-1
      /\ \A i \in 1..Length : Content[i] = buffer[Slot(i - 1)]
  BY <1>1, <1>2 DEF ContentFacts
<1>5. /\ Content' \in Seq(Data) /\ Len(Content') = Length'
      /\ \A i \in 1..Length' : Content'[i] = buffer'[Slot(i - 1)']
  BY DEF ContentFacts
<1>6. Length' = Length - 1
  BY <1>1, <1>2, <1>3 DEF Length
<1>7. /\ Content # << >> /\ Head(Content) = Content[1]
      /\ Tail(Content) \in Seq(Data) /\ Len(Tail(Content)) = Length - 1
      /\ \A i \in 1..Length-1 : Tail(Content)[i] = Content[i+1]
  <2>1. Content # << >>
    BY <1>4, EmptySeq
  <2>2. QED
    BY <1>4, <2>1, HeadTailProperties
<1>8. got' = Head(Content)
  <2>1. Content[1] = buffer[Slot(1 - 1)]
    BY <1>4
  <2>2. Slot(1 - 1) = getIndex
    BY <1>1 DEF Slot
  <2>3. QED
    BY <1>3, <1>7, <2>1, <2>2
<1>9. ASSUME NEW i \in 1..Length' PROVE Content'[i] = Tail(Content)[i]
  <2>1. i \in 1..Length-1 /\ i + 1 \in 1..Length /\ (i + 1) - 1 = i
    BY <1>4, <1>6
  <2>2. Slot(i - 1)' = Slot(i)
    BY <1>1, <1>3, <1>4, <2>1 DEF Slot
  <2>3. Content[i+1] = buffer[Slot(i)]
    BY <1>4, <2>1
  <2>4. QED
    BY <1>3, <1>5, <1>7, <2>1, <2>2, <2>3
<1>10. Content' = Tail(Content)
  BY <1>5, <1>6, <1>7, <1>9, SeqEqual
<1>11. QED
  BY <1>7, <1>8, <1>10

(* An empty ring buffer is an empty queue.                                 *)
LEMMA EmptyContent == RingInv /\ Empty => Content = << >>
<1> SUFFICES ASSUME RingInv, Empty PROVE Content = << >>
  OBVIOUS
<1>1. Content \in Seq(Data) /\ Len(Content) = 0
  BY ContentIsSeq DEF Empty, ContentFacts
<1>2. QED
  BY <1>1, EmptySeq

(* The port starts as an empty queue.                                      *)
LEMMA InitQueue == RxInit => Queue!Init
<1> SUFFICES ASSUME RxInit PROVE Queue!Init
  OBVIOUS
<1>1. RingInv /\ Empty
  BY InitRing DEF RxInit, Empty
<1>2. QED
  BY <1>1, EmptyContent DEF RxInit, Queue!Init

(* Every step of the reception is a step of the queue, or none.            *)
LEMMA StepQueue ==
  ASSUME RingInv, ContentFacts, ContentFacts', [RxNext]_rxVars
  PROVE  [Queue!Next]_(Queue!qvars)
<1>1. ASSUME UNCHANGED <<buffer, putIndex, getIndex, got>>
      PROVE  UNCHANGED Queue!qvars
  BY <1>1 DEF Queue!qvars, Content, Length, Slot
<1>2. CASE IsrStore
  BY <1>2, StorePuts DEF Queue!Next, Queue!Arrive
<1>3. CASE ReadByte
  BY <1>3, ReadTakes DEF Queue!Next, Queue!Read
<1>4. CASE ReadNothing
  <2>1. Content = << >> /\ got' = None
    BY <1>4, EmptyContent DEF ReadNothing
  <2>2. Content' = Content
    BY <1>4 DEF ReadNothing, Content, Length, Slot
  <2>3. QED
    BY <2>1, <2>2 DEF Queue!Next, Queue!ReadNothing
<1>5. CASE IsrIndicate \/ \E b \in Data : Arrive(b)
  BY <1>1, <1>5 DEF IsrIndicate, Arrive
<1>6. CASE UNCHANGED rxVars
  BY <1>1, <1>6 DEF rxVars
<1>7. QED
  BY <1>2, <1>3, <1>4, <1>5, <1>6 DEF RxNext
-----------------------------------------------------------------------------
(* A step of the board is a step of the reception, or none.                *)
LEMMA BoardReceives == [Next]_vars => [RxNext]_rxVars
  BY DEF Next, vars, RxNext, CallInit, ThreadStep, Motor, Sr04Starts,
         Sr04Writes, Sr04Wakes, DecoderFinds, DecoderOpens, DecoderListens,
         DecoderReads, DecoderFindsNothing, DecoderTakes, TimeSlice, Line,
         IsrStores, IsrEnds

(* The ring buffer keeps its shape while the board starts and runs.        *)
LEMMA BoardRing == Spec => []RingInv
<1>1. Init => RingInv
  BY InitRing DEF Init
<1>2. RingInv /\ [Next]_vars => RingInv'
  BY BoardReceives, StepRing
<1>3. QED
  BY <1>1, <1>2, PTL DEF Spec

(* Reception is a queue of BufSz - 1 bytes that gives up its oldest byte   *)
(* when it is full: the ring buffer with its three variables implements it.*)
THEOREM RingIsQueue == Spec => QueueSpec
<1>1. Init => Queue!Init
  BY InitQueue DEF Init
<1>2. RingInv /\ RingInv' /\ [Next]_vars => [Queue!Next]_(Queue!qvars)
  <2>1. RingInv => ContentFacts
    BY ContentIsSeq
  <2>2. (RingInv => ContentFacts)'
    BY <2>1, PTL
  <2>3. QED
    BY <2>1, <2>2, BoardReceives, StepQueue
<1>3. QED
  BY <1>1, <1>2, BoardRing, PTL DEF Spec, QueueSpec, Queue!Spec
-----------------------------------------------------------------------------
(* Tokens are counted, threads are somewhere, and a decoder that reads has *)
(* its bytes announced.                                                    *)
BoardTypes == /\ pc \in [Threads -> {"off", "start", "open", "listen", "read", "take",
                                     "wait", "write", "sleep"}]
              /\ tokens \in Nat
              /\ pc["decoder"] \in {"read", "take", "wait"} => announced

(* Between two interrupts the decoder waits for nothing, and on its way to *)
(* waiting for bytes that are there it finds a token.                      *)
Woken ==
  isr = "idle" => /\ pc["decoder"] = "wait" => Length = 0
                  /\ pc["decoder"] = "take" => Length = 0 \/ tokens > 0

(* Nobody waits before the board has started.                              *)
LEMMA InitWoken == Init => BoardTypes /\ Woken
  BY DEF Init, BoardTypes, Woken, Threads

(* The steps of main, of the line and of the threads that do not read.     *)
LEMMA OthersWoken ==
  ASSUME BoardTypes, Woken, UNCHANGED <<isr, putIndex, getIndex, tokens, announced>>,
         pc' \in [Threads -> {"off", "start", "open", "listen", "read", "take",
                             "wait", "write", "sleep"}],
         pc'["decoder"] \in {pc["decoder"], "off", "start", "open", "listen"}
  PROVE  BoardTypes' /\ Woken'
  BY DEF BoardTypes, Woken, Length

(* Every step of the board keeps the decoder awake.                        *)
LEMMA StepWoken == RingInv /\ BoardTypes /\ Woken /\ [Next]_vars => BoardTypes' /\ Woken'
<1> SUFFICES ASSUME RingInv, BoardTypes, Woken, [Next]_vars PROVE BoardTypes' /\ Woken'
  OBVIOUS
<1> DEFINE Places == {"off", "start", "open", "listen", "read", "take", "wait", "write", "sleep"}
<1>0. /\ pc \in [Threads -> Places] /\ tokens \in Nat
      /\ "decoder" \in Threads /\ "motor" \in Threads /\ "sr04" \in Threads
  BY DEF BoardTypes, Threads
<1> USE DEF started, sched, port, rxVars
<1>1. CASE CallInit
  <2>1. \/ UNCHANGED pc
        \/ \E t : pc' = [u \in Threads |-> IF u = t THEN "start" ELSE pc[u]]
    BY <1>1 DEF CallInit, Start
  <2>2. pc' \in [Threads -> Places] /\ pc'["decoder"] \in {pc["decoder"], "start"}
    BY <1>0, <2>1
  <2>3. QED
    BY <1>1, <2>2, OthersWoken DEF CallInit
<1>2. CASE Motor \/ Sr04Starts \/ Sr04Writes \/ Sr04Wakes
  <2>1. \E t \in {"motor", "sr04"}, place \in Places : pc' = [pc EXCEPT ![t] = place]
    BY <1>2 DEF Motor, Sr04Starts, Sr04Writes, Sr04Wakes, GoesOn, Blocks, Wakes
  <2>2. pc' \in [Threads -> Places] /\ pc'["decoder"] = pc["decoder"]
    BY <1>0, <2>1
  <2>3. UNCHANGED <<isr, putIndex, getIndex, tokens, announced>>
    BY <1>2 DEF Motor, Sr04Starts, Sr04Writes, Sr04Wakes
  <2>4. QED
    BY <2>2, <2>3, OthersWoken
<1>3. CASE DecoderFinds \/ DecoderOpens
  <2>1. \E place \in {"open", "listen"} : pc' = [pc EXCEPT !["decoder"] = place]
    BY <1>3 DEF DecoderFinds, DecoderOpens, GoesOn
  <2>2. UNCHANGED <<isr, putIndex, getIndex, tokens, announced>>
    BY <1>3 DEF DecoderFinds, DecoderOpens
  <2>3. pc' \in [Threads -> Places] /\ pc'["decoder"] \in {"open", "listen"}
    BY <1>0, <2>1
  <2>4. QED
    BY <2>2, <2>3, OthersWoken
<1>4. CASE DecoderListens
  <2>1. pc' = [pc EXCEPT !["decoder"] = "read"] /\ announced' = TRUE /\ tokens' = tokens
    BY <1>4 DEF DecoderListens, GoesOn
  <2>2. pc' \in [Threads -> Places] /\ pc'["decoder"] = "read"
    BY <1>0, <2>1
  <2>3. QED
    BY <1>0, <2>1, <2>2 DEF BoardTypes, Woken
<1>5. CASE DecoderReads
  <2>1. /\ \/ pc' = [pc EXCEPT !["decoder"] = "read"]
           \/ pc' = [pc EXCEPT !["motor"] = "start"]
        /\ pc["decoder"] = "read" /\ UNCHANGED <<tokens, announced>>
    BY <1>5 DEF DecoderReads, GoesOn, Runs
  <2>2. pc' \in [Threads -> Places] /\ pc'["decoder"] = "read"
    BY <1>0, <2>1
  <2>3. QED
    BY <1>0, <2>1, <2>2 DEF BoardTypes, Woken
<1>6. CASE DecoderFindsNothing
  <2>1. /\ pc' = [pc EXCEPT !["decoder"] = "take"] /\ pc["decoder"] = "read"
        /\ getIndex = putIndex /\ UNCHANGED <<tokens, announced, getIndex, putIndex>>
    BY <1>6 DEF DecoderFindsNothing, ReadNothing, Empty, GoesOn, Runs
  <2>2. pc' \in [Threads -> Places] /\ pc'["decoder"] = "take"
    BY <1>0, <2>1
  <2>3. Length' = 0
    BY <2>1 DEF Length, RingInv, RxTypeOK
  <2>4. QED
    BY <1>0, <2>1, <2>2, <2>3 DEF BoardTypes, Woken
<1>7. CASE DecoderTakes
  <2>1. /\ pc["decoder"] = "take" /\ isr = "idle"
        /\ UNCHANGED <<isr, announced, getIndex, putIndex>>
        /\ \/ /\ tokens > 0 /\ tokens' = tokens - 1
              /\ pc' = [pc EXCEPT !["decoder"] = "read"]
           \/ /\ ~(tokens > 0) /\ tokens' = tokens
              /\ pc' = [pc EXCEPT !["decoder"] = "wait"]
    BY <1>7 DEF DecoderTakes, GoesOn, Blocks, Runs
  <2>2. /\ pc' \in [Threads -> Places] /\ tokens' \in Nat
        /\ pc'["decoder"] = IF tokens > 0 THEN "read" ELSE "wait"
    BY <1>0, <2>1
  <2>3. tokens > 0 \/ Length = 0
    BY <2>1 DEF Woken
  <2>4. Length' = Length
    BY <2>1 DEF Length
  <2>5. QED
    BY <1>0, <2>1, <2>2, <2>3, <2>4 DEF BoardTypes, Woken
<1>8. CASE IsrStores
  BY <1>0, <1>8 DEF IsrStores, IsrStore, BoardTypes, Woken
<1>9. CASE IsrEnds
  <2>1. UNCHANGED <<announced, getIndex, putIndex>> /\ Length' = Length
    BY <1>9 DEF IsrEnds, IsrIndicate, Length
  <2>2. CASE ~announced \/ Length = 0
    <3>1. UNCHANGED <<pc, tokens>>
      BY <1>9, <2>2 DEF IsrEnds
    <3>2. QED
      BY <1>0, <2>1, <2>2, <3>1 DEF BoardTypes, Woken
  <2>3. CASE announced /\ Length # 0 /\ pc["decoder"] = "wait"
    <3>1. pc' = [pc EXCEPT !["decoder"] = "read"] /\ tokens' = tokens
      BY <1>9, <2>3 DEF IsrEnds, Wakes
    <3>2. pc' \in [Threads -> Places] /\ pc'["decoder"] = "read"
      BY <1>0, <3>1
    <3>3. QED
      BY <1>0, <2>1, <2>3, <3>1, <3>2 DEF BoardTypes, Woken
  <2>4. CASE announced /\ Length # 0 /\ pc["decoder"] # "wait"
    <3>1. pc' = pc /\ tokens' = tokens + 1
      BY <1>9, <2>4 DEF IsrEnds
    <3>2. QED
      BY <1>0, <2>1, <2>4, <3>1 DEF BoardTypes, Woken
  <2>5. QED
    BY <2>2, <2>3, <2>4
<1>10. CASE Line \/ TimeSlice
  <2>1. UNCHANGED <<pc, isr, getIndex, putIndex, tokens, announced>>
    BY <1>10 DEF Line, Arrive, TimeSlice
  <2>2. QED
    BY <1>0, <2>1, OthersWoken
<1>11. CASE UNCHANGED vars
  <2>1. UNCHANGED <<pc, isr, getIndex, putIndex, tokens, announced>>
    BY <1>11 DEF vars
  <2>2. QED
    BY <1>0, <2>1, OthersWoken
<1>12. QED
  BY <1>1, <1>2, <1>3, <1>4, <1>5, <1>6, <1>7, <1>8, <1>9, <1>10, <1>11
  DEF Next, ThreadStep

(* No byte is stuck: whenever the decoder waits outside an interrupt, the  *)
(* ring buffer is empty, however many bytes came before it listened.       *)
THEOREM NothingStuck == Spec => []NoByteStuck
<1>1. BoardTypes /\ Woken => NoByteStuck
  BY DEF Woken, NoByteStuck
<1>2. QED
  BY <1>1, InitWoken, StepWoken, BoardRing, PTL DEF Spec
-----------------------------------------------------------------------------
(* What main has made so far, when nothing failed.                         *)
Made == /\ inits \in 0..4
        /\ ~failed => /\ inits >= 1 => "sem_motorctrl" \in made
                      /\ inits >= 2 => "sem_decoder" \in made
                      /\ inits >= 4 => "sem_infrared" \in made

(* Until the decoder has found its port it is ahead of sr04_th in the ready*)
(* queue, and main has not finished or it runs before the others.          *)
DecoderFirst ==
  \/ inits = 0 /\ fresh /\ ready = << >>
  \/ inits = 1 /\ fresh /\ ready = <<"motor">>
  \/ inits = 2 /\ fresh /\ ready = <<"motor", "decoder">>
  \/ inits = 3 /\ fresh /\ ready = <<"motor", "decoder", "sr04">>
  \/ inits = 4 /\ ready = <<"motor", "decoder", "sr04">>
  \/ inits = 4 /\ fresh /\ ready = <<"decoder", "sr04">>
  \/ inits = 4 /\ fresh /\ ready = <<"decoder", "sr04", "motor">>

NoPortYet ==
  ~failed /\ "commu_uart" \notin made =>
    /\ DecoderFirst /\ ~announced
    /\ pc["decoder"] \in {"off", "start"} /\ pc["sr04"] \in {"off", "start"}

Order == /\ Made /\ NoPortYet /\ NoNullUse
         /\ announced => inits = 4

(* Nothing has been made, and nobody is ready.                             *)
LEMMA InitOrder == Init => Order
  BY DEF Init, Order, Made, NoPortYet, DecoderFirst, NoNullUse, Threads

(* The four init functions.                                                *)
LEMMA FourInits ==
  /\ Len(Inits) = 4
  /\ Inits[1] = [sem |-> {"sem_motorctrl"}, thread |-> "motor"]
  /\ Inits[2] = [sem |-> {"sem_decoder"}, thread |-> "decoder"]
  /\ Inits[3] = [sem |-> {}, thread |-> "sr04"]
  /\ Inits[4] = [sem |-> {"sem_infrared"}, thread |-> "infrared"]
  BY DEF Inits

(* Short ready queues.                                                     *)
LEMMA AppendToOne == ASSUME NEW a, NEW b PROVE Append(<<a>>, b) = <<a, b>>
<1> DEFINE S == {a, b}
<1>1. /\ <<a>> \in Seq(S) /\ <<a, b>> \in Seq(S)
      /\ Len(<<a>>) = 1 /\ Len(<<a, b>>) = 2
  OBVIOUS
<1>2. Append(<<a>>, b) \in Seq(S) /\ Len(Append(<<a>>, b)) = 2
  BY <1>1
<1>3. ASSUME NEW i \in 1..2 PROVE Append(<<a>>, b)[i] = <<a, b>>[i]
  <2>1. CASE i = 1
    BY <1>1, <2>1
  <2>2. CASE i = 2
    BY <1>1, <2>2
  <2>3. QED
    BY <1>3, <2>1, <2>2
<1> HIDE DEF S
<1>4. QED
  BY <1>1, <1>2, <1>3, SeqEqual

(* The same with one thread more.                                          *)
LEMMA AppendToTwo ==
  ASSUME NEW a, NEW b, NEW c
  PROVE  Append(<<a, b>>, c) = <<a, b, c>>
<1> DEFINE S == {a, b, c}
<1>1. /\ <<a, b>> \in Seq(S) /\ <<a, b, c>> \in Seq(S)
      /\ Len(<<a, b>>) = 2 /\ Len(<<a, b, c>>) = 3
  OBVIOUS
<1>2. Append(<<a, b>>, c) \in Seq(S) /\ Len(Append(<<a, b>>, c)) = 3
  BY <1>1
<1>3. ASSUME NEW i \in 1..3 PROVE Append(<<a, b>>, c)[i] = <<a, b, c>>[i]
  <2>1. CASE i = 1
    BY <1>1, <2>1
  <2>2. CASE i = 2
    BY <1>1, <2>2
  <2>3. CASE i = 3
    BY <1>1, <2>3
  <2>4. QED
    BY <1>3, <2>1, <2>2, <2>3
<1> HIDE DEF S
<1>4. QED
  BY <1>1, <1>2, <1>3, SeqEqual

(* The first of three threads leaves.                                      *)
LEMMA TailOfThree ==
  ASSUME NEW a, NEW b, NEW c
  PROVE  Tail(<<a, b, c>>) = <<b, c>>
<1> DEFINE S == {a, b, c}
<1>1. /\ <<a, b, c>> \in Seq(S) /\ <<b, c>> \in Seq(S)
      /\ Len(<<a, b, c>>) = 3 /\ Len(<<b, c>>) = 2 /\ <<a, b, c>> # << >>
  OBVIOUS
<1> HIDE DEF S
<1>2. /\ Tail(<<a, b, c>>) \in Seq(S) /\ Len(Tail(<<a, b, c>>)) = 2
      /\ \A i \in 1..2 : Tail(<<a, b, c>>)[i] = <<a, b, c>>[i+1]
  BY <1>1, HeadTailProperties
<1>3. ASSUME NEW i \in 1..2 PROVE Tail(<<a, b, c>>)[i] = <<b, c>>[i]
  <2>1. CASE i = 1
    BY <1>2, <2>1
  <2>2. CASE i = 2
    BY <1>2, <2>2
  <2>3. QED
    BY <1>3, <2>1, <2>2
<1>4. QED
  BY <1>1, <1>2, <1>3, SeqEqual

(* One more init function keeps the order.                                 *)
LEMMA CallOrder == Order /\ BoardTypes /\ CallInit => Order'
<1> SUFFICES ASSUME Order, BoardTypes, CallInit PROVE Order'
  OBVIOUS
<1> DEFINE it == Inits[inits + 1]
<1>1. /\ inits \in 0..3 /\ inits' = inits + 1
      /\ UNCHANGED <<fresh, announced, crashed>>
      /\ \/ made' = made \cup it.sem /\ Start(it.thread) /\ failed' = failed
         \/ failed' = TRUE
  BY FourInits DEF Order, Made, CallInit, port
<1>2. ~announced
  BY <1>1 DEF Order
<1>3. CASE failed'
  BY <1>1, <1>2, <1>3 DEF Order, Made, NoPortYet, NoNullUse
<1>4. CASE ~failed'
  <2>1. ~failed /\ made' = made \cup it.sem /\ Start(it.thread)
    BY <1>1, <1>4
  <2>2. /\ pc' = [u \in Threads |-> IF u = it.thread THEN "start" ELSE pc[u]]
        /\ ready' = IF it.thread \in Threads THEN Append(ready, it.thread) ELSE ready
    BY <2>1 DEF Start
  <2>3. ~crashed
    BY <2>1 DEF Order, NoNullUse
  <2>4. Made'
    <3>1. CASE inits = 0
      BY <1>1, <2>1, <3>1, FourInits DEF Order, Made
    <3>2. CASE inits = 1
      BY <1>1, <2>1, <3>2, FourInits DEF Order, Made
    <3>3. CASE inits = 2
      BY <1>1, <2>1, <3>3, FourInits DEF Order, Made
    <3>4. CASE inits = 3
      BY <1>1, <2>1, <3>4, FourInits DEF Order, Made
    <3>5. QED
      BY <1>1, <3>1, <3>2, <3>3, <3>4
  <2>5. ASSUME "commu_uart" \notin made'
        PROVE  /\ DecoderFirst' /\ pc'["decoder"] \in {"off", "start"}
               /\ pc'["sr04"] \in {"off", "start"}
    <3>1. /\ DecoderFirst /\ pc["decoder"] \in {"off", "start"}
          /\ pc["sr04"] \in {"off", "start"}
      BY <2>1, <2>5 DEF Order, NoPortYet
    <3>2. pc'["decoder"] \in {"off", "start"} /\ pc'["sr04"] \in {"off", "start"}
      BY <2>2, <3>1 DEF Threads
    <3>3. DecoderFirst'
      <4>1. CASE inits = 0
        BY <1>1, <2>2, <3>1, <4>1, FourInits DEF DecoderFirst, Threads
      <4>2. CASE inits = 1
        <5>1. fresh /\ ready = <<"motor">>
          BY <3>1, <4>2 DEF DecoderFirst
        <5>2. it.thread = "decoder" /\ it.thread \in Threads
          BY <4>2, FourInits DEF Threads
        <5>3. ready' = Append(<<"motor">>, "decoder")
          BY <2>2, <5>1, <5>2
        <5>4. Append(<<"motor">>, "decoder") = <<"motor", "decoder">>
          BY AppendToOne
        <5>5. QED
          BY <1>1, <4>2, <5>1, <5>3, <5>4 DEF DecoderFirst
      <4>3. CASE inits = 2
        <5>1. fresh /\ ready = <<"motor", "decoder">>
          BY <3>1, <4>3 DEF DecoderFirst
        <5>2. it.thread = "sr04" /\ it.thread \in Threads
          BY <4>3, FourInits DEF Threads
        <5>3. ready' = Append(<<"motor", "decoder">>, "sr04")
          BY <2>2, <5>1, <5>2
        <5>4. Append(<<"motor", "decoder">>, "sr04") = <<"motor", "decoder", "sr04">>
          BY AppendToTwo
        <5>5. QED
          BY <1>1, <4>3, <5>1, <5>3, <5>4 DEF DecoderFirst
      <4>4. CASE inits = 3
        BY <1>1, <2>2, <3>1, <4>4, FourInits DEF DecoderFirst, Threads
      <4>5. QED
        BY <1>1, <4>1, <4>2, <4>3, <4>4
    <3>4. QED
      BY <3>2, <3>3
  <2>6. QED
    BY <1>1, <1>2, <2>1, <2>3, <2>4, <2>5 DEF Order, NoPortYet, NoNullUse
<1>5. QED
  BY <1>3, <1>4

(* A thread that runs finds everything main has made.                      *)
LEMMA RunsWithAll ==
  ASSUME Order, ~failed, NEW t, NEW place, Runs(t, place)
  PROVE  /\ inits = 4 /\ pc[t] = place /\ Head(ready) = t
         /\ {"sem_motorctrl", "sem_decoder", "sem_infrared"} \subseteq made
         /\ "commu_uart" \notin made => t \in {"motor", "decoder"}
<1>1. inits = 4 /\ pc[t] = place /\ Head(ready) = t
  BY FourInits DEF Runs
<1>2. "commu_uart" \notin made => Head(ready) \in {"motor", "decoder"}
  BY <1>1 DEF Order, NoPortYet, DecoderFirst
<1>3. QED
  BY <1>1, <1>2 DEF Order, Made

(* Once the port is there, or something has failed, only crashes and       *)
(* rx_indicate matter.                                                     *)
LEMMA OrderKept ==
  ASSUME Order, UNCHANGED <<inits, failed>>, made \subseteq made',
         announced' => inits = 4,
         ~failed => "commu_uart" \in made' /\ ~crashed'
  PROVE  Order'
  BY DEF Order, Made, NoPortYet, NoNullUse

(* A step that touches none of it.                                         *)
LEMMA OrderSame ==
  ASSUME Order, UNCHANGED <<inits, failed, made, ready, fresh, announced, crashed>>,
         pc'["decoder"] = pc["decoder"], pc'["sr04"] = pc["sr04"]
  PROVE  Order'
  BY DEF Order, Made, NoPortYet, DecoderFirst, NoNullUse

(* Every step of the board uses handles that exist.                        *)
LEMMA StepOrder == Order /\ BoardTypes /\ [Next]_vars => Order'
<1> SUFFICES ASSUME Order, BoardTypes, [Next]_vars PROVE Order'
  OBVIOUS
<1> USE DEF started, sched, port
<1>0. /\ "decoder" \in Threads /\ "motor" \in Threads /\ "sr04" \in Threads
      /\ pc \in [Threads -> {"off", "start", "open", "listen", "read", "take", "wait",
                             "write", "sleep"}]
  BY DEF BoardTypes, Threads
<1>1. CASE CallInit
  BY <1>1, CallOrder
<1>2. CASE Motor
  <2>1. /\ Runs("motor", "start") /\ UNCHANGED <<inits, failed, made, announced>>
        /\ crashed' = ("sem_motorctrl" \notin made)
        /\ \/ GoesOn("motor", "start") \/ Blocks("motor", "wait")
    BY <1>2 DEF Motor, Use
  <2>2. CASE failed \/ "commu_uart" \in made
    BY <2>1, <2>2, RunsWithAll, OrderKept DEF Order
  <2>3. CASE ~failed /\ "commu_uart" \notin made
    <3>1. /\ inits = 4 /\ Head(ready) = "motor" /\ ~crashed'
          /\ pc'["decoder"] = pc["decoder"] /\ pc'["sr04"] = pc["sr04"]
      BY <1>0, <2>1, <2>3, RunsWithAll DEF GoesOn, Blocks
    <3>2. ready = <<"motor", "decoder", "sr04">>
      BY <2>3, <3>1 DEF Order, NoPortYet, DecoderFirst
    <3>3. DecoderFirst'
      BY <2>1, <3>1, <3>2, TailOfThree DEF DecoderFirst, GoesOn, Blocks
    <3>4. QED
      BY <2>1, <2>3, <3>1, <3>3 DEF Order, Made, NoPortYet, NoNullUse
  <2>4. QED
    BY <2>2, <2>3
<1>3. CASE Sr04Starts
  <2>1. /\ Runs("sr04", "start") /\ UNCHANGED <<inits, failed, made, announced, crashed>>
    BY <1>3 DEF Sr04Starts
  <2>2. ~failed => "commu_uart" \in made
    BY <2>1, RunsWithAll
  <2>3. QED
    BY <2>1, <2>2, OrderKept DEF Order, NoNullUse
<1>4. CASE Sr04Writes
  <2>1. /\ Runs("sr04", "write") /\ UNCHANGED <<inits, failed, made, announced>>
        /\ crashed' = ("commu_uart" \notin made)
    BY <1>4 DEF Sr04Writes, Use
  <2>2. ~failed => "commu_uart" \in made
    BY <2>1, RunsWithAll
  <2>3. QED
    BY <2>1, <2>2, OrderKept DEF Order
<1>5. CASE Sr04Wakes
  <2>1. pc["sr04"] = "sleep" /\ UNCHANGED <<inits, failed, made, announced, crashed>>
    BY <1>5 DEF Sr04Wakes
  <2>2. ~failed => "commu_uart" \in made
    BY <2>1 DEF Order, NoPortYet
  <2>3. QED
    BY <2>1, <2>2, OrderKept DEF Order, NoNullUse
<1>6. CASE DecoderFinds
  BY <1>6, OrderKept DEF DecoderFinds, Order, NoNullUse
<1>7. CASE DecoderOpens \/ DecoderListens \/ DecoderFindsNothing
  <2>1. /\ inits = 4 /\ pc["decoder"] \in {"open", "listen", "read"}
        /\ UNCHANGED <<inits, failed, made, crashed>>
    BY <1>7, FourInits DEF DecoderOpens, DecoderListens, DecoderFindsNothing, Runs
  <2>2. ~failed => "commu_uart" \in made
    BY <2>1 DEF Order, NoPortYet
  <2>3. QED
    BY <2>1, <2>2, OrderKept DEF Order, NoNullUse
<1>8. CASE DecoderReads
  <2>1. /\ Runs("decoder", "read") /\ UNCHANGED <<inits, failed, made, announced>>
        /\ \/ crashed' = crashed
           \/ crashed' = ("sem_infrared" \notin made)
           \/ crashed' = ("sem_motorctrl" \notin made)
    BY <1>8 DEF DecoderReads, Use
  <2>2. pc["decoder"] = "read"
    BY <2>1 DEF Runs
  <2>3. ~failed => "commu_uart" \in made /\ ~crashed'
    BY <2>1, <2>2, RunsWithAll DEF Order, NoPortYet, NoNullUse
  <2>4. QED
    BY <2>1, <2>3, OrderKept DEF Order
<1>9. CASE DecoderTakes
  <2>1. /\ Runs("decoder", "take") /\ UNCHANGED <<inits, failed, made, announced>>
        /\ crashed' = ("sem_decoder" \notin made)
    BY <1>9 DEF DecoderTakes, Use
  <2>2. pc["decoder"] = "take"
    BY <2>1 DEF Runs
  <2>3. ~failed => "commu_uart" \in made /\ ~crashed'
    BY <2>1, <2>2, RunsWithAll DEF Order, NoPortYet
  <2>4. QED
    BY <2>1, <2>3, OrderKept DEF Order
<1>10. CASE IsrEnds
  <2>1. UNCHANGED <<inits, failed, made, announced>>
    BY <1>10 DEF IsrEnds
  <2>2. CASE ~announced \/ Length = 0
    <3>1. UNCHANGED <<ready, fresh, pc, crashed>>
      BY <1>10, <2>2 DEF IsrEnds
    <3>2. QED
      BY <2>1, <3>1, OrderSame
  <2>3. CASE announced /\ Length # 0
    <3>1. inits = 4 /\ crashed' = ("sem_decoder" \notin made)
      BY <1>10, <2>3 DEF IsrEnds, Use, Order
    <3>2. ~failed => "commu_uart" \in made /\ ~crashed'
      <4>1. ~failed => "commu_uart" \in made
        BY <2>3 DEF Order, NoPortYet
      <4>2. ~failed => "sem_decoder" \in made
        BY <3>1 DEF Order, Made
      <4>3. QED
        BY <3>1, <4>1, <4>2
    <3>3. QED
      BY <2>1, <3>1, <3>2, OrderKept
  <2>4. QED
    BY <2>2, <2>3
<1>11. CASE TimeSlice
  <2>1. /\ ~fresh /\ ready' = Append(Tail(ready), Head(ready)) /\ fresh' = TRUE
        /\ UNCHANGED <<inits, failed, made, announced, crashed, pc>>
    BY <1>11 DEF TimeSlice
  <2>2. CASE failed \/ "commu_uart" \in made
    BY <2>1, <2>2, OrderKept DEF Order, NoNullUse
  <2>3. CASE ~failed /\ "commu_uart" \notin made
    <3>1. inits = 4 /\ ready = <<"motor", "decoder", "sr04">>
      BY <2>1, <2>3 DEF Order, NoPortYet, DecoderFirst
    <3>2. ready' = <<"decoder", "sr04", "motor">>
      <4>1. Tail(ready) = <<"decoder", "sr04">> /\ Head(ready) = "motor"
        BY <3>1, TailOfThree
      <4>2. QED
        BY <2>1, <4>1, AppendToTwo
    <3>3. DecoderFirst'
      BY <2>1, <3>1, <3>2 DEF DecoderFirst
    <3>4. QED
      BY <2>1, <2>3, <3>3 DEF Order, Made, NoPortYet, NoNullUse
  <2>4. QED
    BY <2>2, <2>3
<1>12. CASE Line \/ IsrStores \/ UNCHANGED vars
  BY <1>12, OrderSame DEF Line, IsrStores, vars
<1>13. QED
  BY <1>1, <1>2, <1>3, <1>4, <1>5, <1>6, <1>7, <1>8, <1>9, <1>10, <1>11, <1>12
  DEF Next, ThreadStep

(* When everything could be created, no thread and no interrupt uses a     *)
(* semaphore or the port before it exists, in whatever order they come.    *)
THEOREM HandlesExist == Spec => []NoNullUse
<1>1. Order => NoNullUse
  BY DEF Order
<1>2. QED
  BY <1>1, InitOrder, StepOrder, InitWoken, StepWoken, BoardRing, PTL DEF Spec
-----------------------------------------------------------------------------
(* What TypeOK says beyond the reception (RingInv) and the places of the   *)
(* threads (BoardTypes).                                                   *)
Counted == inits \in 0..4 /\ made \subseteq Handles /\ ready \in Seq(Threads)
Flags == /\ failed \in BOOLEAN /\ fresh \in BOOLEAN /\ opened \in BOOLEAN
         /\ announced \in BOOLEAN /\ crashed \in BOOLEAN

(* A ready queue of threads stays one when its first thread leaves, goes   *)
(* to the end, or another one joins.                                       *)
LEMMA ReadyKept ==
  ASSUME ready \in Seq(Threads)
  PROVE  /\ \A t \in Threads : Append(ready, t) \in Seq(Threads)
         /\ ready # << >> => /\ Head(ready) \in Threads
                            /\ Tail(ready) \in Seq(Threads)
                            /\ Append(Tail(ready), Head(ready)) \in Seq(Threads)
  OBVIOUS

(* A step of a running thread leaves a ready queue of threads.             *)
LEMMA RunKeepsReady ==
  ASSUME Counted, NEW t, NEW from, Runs(t, from),
         NEW u, NEW to, GoesOn(u, to) \/ Blocks(u, to)
  PROVE  ready' \in Seq(Threads)
<1>1. ready # << >> /\ (ready' = ready \/ ready' = Tail(ready))
  BY DEF Runs, GoesOn, Blocks
<1>2. QED
  BY <1>1, ReadyKept DEF Counted

(* An init function adds its semaphore and its thread, or not.             *)
LEMMA CallCounted == Counted /\ CallInit => Counted'
<1> SUFFICES ASSUME Counted, CallInit PROVE Counted'
  OBVIOUS
<1> DEFINE it == Inits[inits + 1]
<1>1. inits \in 0..3 /\ inits' = inits + 1
  BY FourInits DEF CallInit, Counted
<1>2. it.sem \subseteq Handles
  <2>1. inits = 0 \/ inits = 1 \/ inits = 2 \/ inits = 3
    BY <1>1
  <2>2. QED
    BY <2>1, FourInits DEF Handles
<1>3. made' \subseteq made \cup it.sem
  BY DEF CallInit
<1>4. ready' \in Seq(Threads)
  <2>1. ready' = ready \/ (it.thread \in Threads /\ ready' = Append(ready, it.thread))
    BY DEF CallInit, Start
  <2>2. QED
    BY <2>1, ReadyKept DEF Counted
<1>5. QED
  BY <1>1, <1>2, <1>3, <1>4 DEF Counted

(* Every step of the board counts the init functions, makes handles of the *)
(* four and keeps a queue of the three threads.                            *)
LEMMA StepCounted == Counted /\ [Next]_vars => Counted'
<1> SUFFICES ASSUME Counted, [Next]_vars PROVE Counted'
  OBVIOUS
<1> USE DEF started, sched, port
<1>1. CASE CallInit
  BY <1>1, CallCounted
<1>2. ASSUME UNCHANGED <<inits, made>>, ready' \in Seq(Threads) PROVE Counted'
  BY <1>2 DEF Counted
<1>3. CASE Motor \/ Sr04Starts \/ Sr04Writes
  BY <1>2, <1>3, RunKeepsReady DEF Motor, Sr04Starts, Sr04Writes
<1>4. CASE DecoderOpens \/ DecoderListens \/ DecoderFindsNothing
  BY <1>2, <1>4, RunKeepsReady DEF DecoderOpens, DecoderListens, DecoderFindsNothing
<1>5. CASE DecoderFinds
  <2>1. ready' \in Seq(Threads)
    BY <1>5, RunKeepsReady DEF DecoderFinds
  <2>2. QED
    BY <1>5, <2>1 DEF DecoderFinds, Counted, Handles
<1>6. CASE DecoderReads
  <2>1. ready' = ready \/ ready' = Append(ready, "motor")
    BY <1>6 DEF DecoderReads, GoesOn
  <2>2. ready' \in Seq(Threads)
    BY <2>1, ReadyKept DEF Counted, Threads
  <2>3. QED
    BY <1>2, <1>6, <2>2 DEF DecoderReads
<1>7. CASE DecoderTakes
  <2>1. Runs("decoder", "take") /\ UNCHANGED <<inits, made>>
        /\ (GoesOn("decoder", "read") \/ Blocks("decoder", "wait"))
    BY <1>7 DEF DecoderTakes
  <2>2. QED
    BY <1>2, <2>1, RunKeepsReady
<1>8. CASE Sr04Wakes \/ IsrEnds
  <2>1. UNCHANGED <<inits, made>>
    BY <1>8 DEF Sr04Wakes, IsrEnds
  <2>2. ready' = ready \/ ready' = Append(ready, "sr04")
        \/ ready' = Append(ready, "decoder")
    BY <1>8 DEF Sr04Wakes, IsrEnds, Wakes
  <2>3. ready' \in Seq(Threads)
    BY <2>2, ReadyKept DEF Counted, Threads
  <2>4. QED
    BY <1>2, <2>1, <2>3
<1>9. CASE TimeSlice
  <2>1. ready # << >>
    <3>1. Len(<< >>) = 0
      OBVIOUS
    <3>2. QED
      BY <1>9, <3>1 DEF TimeSlice
  <2>2. QED
    BY <1>2, <1>9, <2>1, ReadyKept DEF TimeSlice, Counted
<1>10. CASE Line \/ IsrStores \/ UNCHANGED vars
  BY <1>10 DEF Line, IsrStores, vars, Counted
<1>11. QED
  BY <1>1, <1>3, <1>4, <1>5, <1>6, <1>7, <1>8, <1>9, <1>10 DEF Next, ThreadStep

(* Every step of the board keeps its flags true or false.                  *)
LEMMA StepFlags == Flags /\ [Next]_vars => Flags'
<1> SUFFICES ASSUME Flags, [Next]_vars PROVE Flags'
  OBVIOUS
<1>1. failed' \in {failed, TRUE}
  BY Zenon DEF Next, vars, started, ThreadStep, CallInit, Motor, Sr04Starts,
     Sr04Writes, Sr04Wakes, DecoderFinds, DecoderOpens, DecoderListens, DecoderReads,
     DecoderFindsNothing, DecoderTakes, TimeSlice, Line, IsrStores, IsrEnds
<1>2. fresh' \in {fresh, TRUE, FALSE}
  BY Zenon DEF Next, vars, sched, ThreadStep, CallInit, Motor, Sr04Starts,
     Sr04Writes, Sr04Wakes, DecoderFinds, DecoderOpens, DecoderListens, DecoderReads,
     DecoderFindsNothing, DecoderTakes, TimeSlice, Line, IsrStores, IsrEnds,
     GoesOn, Blocks, Wakes
<1>3. opened' \in {opened, TRUE}
  BY Zenon DEF Next, vars, port, ThreadStep, CallInit, Motor, Sr04Starts,
     Sr04Writes, Sr04Wakes, DecoderFinds, DecoderOpens, DecoderListens, DecoderReads,
     DecoderFindsNothing, DecoderTakes, TimeSlice, Line, IsrStores, IsrEnds
<1>4. announced' \in {announced, TRUE}
  BY Zenon DEF Next, vars, port, ThreadStep, CallInit, Motor, Sr04Starts,
     Sr04Writes, Sr04Wakes, DecoderFinds, DecoderOpens, DecoderListens, DecoderReads,
     DecoderFindsNothing, DecoderTakes, TimeSlice, Line, IsrStores, IsrEnds
<1>5. crashed' = crashed \/ \E h : Use(h)
  BY Zenon DEF Next, vars, ThreadStep, CallInit, Motor, Sr04Starts,
     Sr04Writes, Sr04Wakes, DecoderFinds, DecoderOpens, DecoderListens, DecoderReads,
     DecoderFindsNothing, DecoderTakes, TimeSlice, Line, IsrStores, IsrEnds
<1>6. crashed' \in BOOLEAN
  BY Zenon, <1>5 DEF Use, Flags
<1>7. QED
  BY Zenon, <1>1, <1>2, <1>3, <1>4, <1>6 DEF Flags

(* For every buffer size and number of bytes the board keeps its type: no  *)
(* index leaves the buffer, main calls its four init functions and no more,*)
(* only threads become ready and only the four handles are made.           *)
THEOREM StartupTypeOK == Spec => []TypeOK
<1>1. Init => Counted
  BY DEF Init, Counted
<1>2. Init => Flags
  BY Zenon DEF Init, Flags
<1>3. RingInv /\ BoardTypes /\ Counted /\ Flags => TypeOK
  BY FourInits DEF RingInv, BoardTypes, Counted, Flags, TypeOK
<1>4. QED
  BY <1>1, <1>2, <1>3, StepCounted, StepFlags, InitWoken, StepWoken, BoardRing, PTL
  DEF Spec
=============================================================================
