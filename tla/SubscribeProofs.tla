-------------------------- MODULE SubscribeProofs ---------------------------
(***************************************************************************)
(* Proofs about Subscribe, for any commands, actions and bound.            *)
(***************************************************************************)
EXTENDS Subscribe, TLAPS

Constant == command' = command

\* A step that leaves the messages, the limit and the end of the command alone
\* keeps what is said of them.
LEMMA LoopKept ==
    ASSUME SubscribeInv, Constant, UNCHANGED <<loopVars, pc, connection, timer, signal>>
    PROVE  WantedAreHandedOver' /\ InOrder' /\ Counted'
  BY DEF SubscribeInv, Constant, loopVars, WantedAreHandedOver, Wanted, InOrder, Counted,
         Bound, Recording

\* So does a step of the goroutine before its loop, and one that ends the
\* command without a message.
LEMMA StepKept ==
    ASSUME SubscribeInv, Constant, UNCHANGED loopVars,
           pc \notin {"handle", "done"}, pc' # "handle",
           connection' = "closed" =>
               pc' = "done" /\ (timer' = "stopped" \/ signal' = "taken")
    PROVE  WantedAreHandedOver' /\ InOrder' /\ Counted'
<1>1. WantedAreHandedOver' /\ InOrder'
  BY DEF SubscribeInv, Constant, loopVars, WantedAreHandedOver, Wanted, InOrder
<1>2. Counted'
  BY DEF SubscribeInv, Constant, loopVars, Counted, Bound, Recording
<1> QED
  BY <1>1, <1>2

\* The interrupt and the timer come at any time, also between receiving a message
\* and handing it over.
LEMMA OutsideKept ==
    ASSUME SubscribeInv, Constant, UNCHANGED <<loopVars, connection>>, pc # "done",
           pc' = pc \/ (pc # "handle" /\ pc' = "done")
    PROVE  WantedAreHandedOver' /\ InOrder' /\ Counted'
<1>1. WantedAreHandedOver' /\ InOrder'
  BY DEF SubscribeInv, Constant, loopVars, WantedAreHandedOver, Wanted, InOrder, Recording
<1>2. Counted'
  BY DEF SubscribeInv, Constant, loopVars, Counted, Bound, Recording
<1> QED
  BY <1>1, <1>2

LEMMA ReceiveKeeps ==
    ASSUME SubscribeInv, Receive
    PROVE  TypeOK' /\ WantedAreHandedOver' /\ InOrder' /\ Counted'
<1> USE DEF SubscribeInv
<1> DEFINE n == Len(taken)
<1>1. /\ n \in Nat /\ taken \in Seq(Actions \cup {Unnamed}) /\ offer \in Actions \cup {Unnamed}
      /\ written \in Seq(Nat) /\ command' = command /\ written' = written /\ pc = "select"
      /\ MaxRecorded \in Nat /\ received' = received /\ connection' = connection
      /\ timer' = timer /\ signal' = signal
  BY SubscribeAssumption, NoMessageAssumption DEF Receive, TypeOK
<1>2. TypeOK'
  <2>1. taken' \in Seq(Actions \cup {Unnamed}) /\ current' \in Nat
    BY <1>1 DEF Receive, TypeOK
  <2> QED
    BY <2>1 DEF Receive, TypeOK
<1>3. current = 0
  BY <1>1 DEF WantedAreHandedOver
<1>4. \A k \in DOMAIN written : written[k] \in 1..n
  BY DEF InOrder
<1>5. CASE Recording
  <2>1. taken' = Append(taken, offer) /\ Len(taken') = n + 1 /\ DOMAIN taken' = 1..(n + 1)
        /\ taken'[n + 1] = offer /\ \A i \in 1..n : taken'[i] = taken[i]
    BY <1>1, <1>5 DEF Receive
  <2>2. current' = (IF Wanted(offer) THEN n + 1 ELSE 0)
        /\ pc' = (IF Wanted(offer) THEN "handle" ELSE "select")
    BY <1>1, <1>3, <1>5 DEF Receive, Handles
  <2>3. \A i \in 1..n : Wanted(taken[i]) <=> i \in {written[k] : k \in DOMAIN written}
    BY <1>1, <1>3 DEF WantedAreHandedOver
  <2>4. n + 1 \notin {written[k] : k \in DOMAIN written}
    BY <1>1, <1>4
  <2>5. ASSUME NEW i \in DOMAIN taken'
        PROVE  Wanted(taken[i])' <=> \/ i \in {written[k] : k \in DOMAIN written}
                                     \/ i = current' /\ pc' = "handle"
    <3>1. Wanted(taken[i])' <=> Wanted(taken'[i])
      BY <1>1 DEF Wanted
    <3>2. CASE i = n + 1
      BY <1>1, <2>1, <2>2, <2>4, <3>1, <3>2
    <3>3. CASE i \in 1..n
      BY <1>1, <2>1, <2>2, <2>3, <3>1, <3>3
    <3> QED
      BY <1>1, <2>1, <3>2, <3>3
  <2>6. WantedAreHandedOver'
    BY <1>1, <2>2, <2>5 DEF WantedAreHandedOver
  <2>7. InOrder'
    BY <1>1, <1>4, <2>1, <2>2 DEF InOrder
  <2>8. Counted'
    BY <1>1, <1>5, <2>1, <2>2 DEF Counted, Bound, Recording
  <2> QED
    BY <1>2, <2>6, <2>7, <2>8
<1>6. CASE ~Recording
  <2>1. taken' = taken /\ current' = 0 /\ pc' \in {"handle", "select"}
    BY <1>1, <1>3, <1>6 DEF Receive
  <2>2. WantedAreHandedOver'
    BY <1>1, <1>3, <2>1 DEF WantedAreHandedOver, Wanted, Receive, Handles
  <2>3. InOrder'
    BY <1>1, <1>4, <1>6, <2>1 DEF InOrder, Recording
  <2>4. Counted'
    BY <1>1, <1>6, <2>1 DEF Counted, Bound, Recording
  <2> QED
    BY <1>2, <2>2, <2>3, <2>4
<1> QED
  BY <1>5, <1>6

LEMMA HandleKeeps ==
    ASSUME SubscribeInv, Handle
    PROVE  TypeOK' /\ WantedAreHandedOver' /\ InOrder' /\ Counted'
<1> USE DEF SubscribeInv
<1> DEFINE w == Len(written)
<1>1. /\ w \in Nat /\ written \in Seq(Nat) /\ current \in Nat /\ received \in Nat
      /\ command' = command /\ taken' = taken /\ current' = 0 /\ pc = "handle"
      /\ pc' \in {"done", "select"} /\ command.limit \in Int
      /\ taken \in Seq(Actions \cup {Unnamed}) /\ Len(taken) \in Nat
  BY SubscribeAssumption DEF Handle, Return, TypeOK, Command
<1>2. CASE current = 0
  <2>1. written' = written /\ ~Recording
    BY <1>1, <1>2 DEF Handle, InOrder
  <2>2. WantedAreHandedOver' /\ InOrder'
    BY <1>1, <1>2, <2>1, SMTT(30) DEF WantedAreHandedOver, InOrder, Wanted, TypeOK
  <2> QED
    <3>1. Counted'
      BY <1>1, <2>1 DEF Handle, Return, LimitReached, Counted, Bound, Recording
    <3>2. TypeOK'
      BY <1>1, <2>1 DEF Handle, Return, TypeOK
    <3> QED
      BY <2>2, <3>1, <3>2
<1>3. CASE current # 0
  <2>1. written' = Append(written, current) /\ Len(written') = w + 1 /\ DOMAIN written' = 1..(w + 1)
        /\ DOMAIN written = 1..w
        /\ written'[w + 1] = current /\ \A k \in 1..w : written'[k] = written[k]
    BY <1>1, <1>3 DEF Handle
  <2>2. current = Len(taken) /\ current \in 1..Len(taken)
        /\ \A k \in 1..w : written[k] < current /\ written[k] \in 1..Len(taken)
    <3>1. current = Len(taken) /\ \A k \in DOMAIN written : written[k] < current
      BY <1>1, <1>3 DEF InOrder
    <3>2. \A k \in DOMAIN written : written[k] \in 1..Len(taken)
      BY DEF InOrder
    <3> QED
      BY <1>1, <1>3, <2>1, <3>1, <3>2
  <2>3. {written'[k] : k \in DOMAIN written'} = {written[k] : k \in DOMAIN written} \cup {current}
    BY <1>1, <2>1
  <2>4. \A i \in DOMAIN taken' :
            Wanted(taken[i])' <=> i \in {written'[k] : k \in DOMAIN written'}
    <3>1. \A i \in DOMAIN taken :
              Wanted(taken[i]) <=> i \in {written[k] : k \in DOMAIN written} \cup {current}
      BY <1>1, <1>3 DEF WantedAreHandedOver
    <3> QED
      BY <1>1, <2>3, <3>1 DEF Wanted
  <2>5. \A k, l \in DOMAIN written' : k < l => written'[k] < written'[l]
    <3>1. \A k, l \in 1..w : k < l => written[k] < written[l]
      BY <2>1 DEF WantedAreHandedOver
    <3> QED
      BY <1>1, <2>1, <2>2, <3>1
  <2>6. WantedAreHandedOver'
    BY <1>1, <2>4, <2>5 DEF WantedAreHandedOver
  <2>7. InOrder'
    BY <1>1, <2>1, <2>2 DEF InOrder
  <2>8. Counted'
    <3>1. command.limit # 0 =>
              /\ Len(written) <= received /\ received < Bound
              /\ Recording => Len(written) = received
      BY <1>1 DEF Counted
    <3>2. connection # "closed"
      BY <1>1 DEF Counted
    <3>3. Bound' = Bound /\ command.limit' = command.limit
          /\ (command.limit # 0 => Bound \in Int /\ (command.limit >= 0 => Bound = command.limit)
                                  /\ (command.limit < 0 => Bound = 1))
      BY <1>1 DEF Bound
    <3>4. Recording' => Recording
      BY <1>1 DEF Recording
    <3>5. command.limit # 0 =>
              received' = received + 1 /\ Len(written)' = Len(written) + 1
      BY <2>1 DEF Handle
    <3>6. command.limit # 0 =>
              /\ Len(written)' <= received' /\ received' <= Bound'
              /\ Recording' => Len(written)' = received'
      BY <1>1, <3>1, <3>3, <3>4, <3>5
    <3>7. CASE LimitReached(received + 1)
      <4>1. command.limit # 0 /\ received + 1 >= command.limit /\ pc' = "done"
        BY <3>7 DEF LimitReached, Handle, Return
      <4>2. received' = Bound'
        BY <1>1, <3>1, <3>3, <3>5, <4>1
      <4> QED
        BY <1>1, <3>6, <4>1, <4>2 DEF Counted
    <3>8. CASE ~LimitReached(received + 1)
      <4>1. connection' # "closed"
        BY <3>2, <3>8 DEF Handle
      <4>2. command.limit # 0 => received' < Bound'
        BY <1>1, <3>1, <3>3, <3>5, <3>8 DEF LimitReached
      <4> QED
        BY <1>1, <3>6, <4>1, <4>2 DEF Counted
    <3> QED
      BY <3>7, <3>8
  <2>9. TypeOK'
    BY <1>1, <2>1 DEF Handle, Return, TypeOK
  <2> QED
    BY <2>6, <2>7, <2>8, <2>9
<1> QED
  BY <1>2, <1>3

LEMMA InitSubscribeInv == Init => SubscribeInv
<1> SUFFICES ASSUME Init
             PROVE  SubscribeInv
  OBVIOUS
<1>1. TypeOK
  BY DEF Init, TypeOK
<1>2. WantedAreHandedOver /\ InOrder
  BY DEF Init, WantedAreHandedOver, InOrder
<1>3. Counted /\ Notified
  BY SubscribeAssumption DEF Init, Counted, Bound, Command, Notified
<1> QED
  BY <1>1, <1>2, <1>3 DEF SubscribeInv

LEMMA NextKeepsInv == SubscribeInv /\ [Next]_vars => SubscribeInv'
<1> SUFFICES ASSUME SubscribeInv, [Next]_vars
             PROVE  SubscribeInv'
  OBVIOUS
<1> USE DEF SubscribeInv
<1>0. Notified'
  BY DEF Notified, Next, Main, Prepare, Connect, Notify, SubscribeNext, StartTimer, DurationOver,
         Stopped, Receive, Handle, Return, Offer, TimerFires, Interrupt, Done, vars
<1>1. CASE Prepare \/ Connect \/ Notify \/ SubscribeNext \/ StartTimer
  <2>1. TypeOK'
    <3>1. Channels \in {1, 4}
      BY DEF Channels
    <3> QED
      BY <1>1, <3>1 DEF Prepare, Connect, ConnectError, Notify, SubscribeNext, StartTimer, TypeOK,
             loopVars
  <2>2. connection # "closed"
    BY <1>1 DEF Prepare, Connect, Notify, SubscribeNext, StartTimer, Counted
  <2>3. WantedAreHandedOver' /\ InOrder' /\ Counted'
    BY <1>1, <2>2, StepKept DEF Prepare, Connect, Notify, SubscribeNext, StartTimer, Constant
  <2> QED
    BY <1>0, <2>1, <2>3
<1>2. CASE DurationOver \/ Stopped
  <2>1. TypeOK'
    BY <1>2 DEF DurationOver, Stopped, Return, TypeOK, loopVars
  <2>2. WantedAreHandedOver' /\ InOrder' /\ Counted'
    BY <1>2, StepKept DEF DurationOver, Stopped, Return, Constant
  <2> QED
    BY <1>0, <2>1, <2>2
<1>3. CASE Receive
  BY <1>3, <1>0, ReceiveKeeps
<1>4. CASE Handle
  BY <1>4, <1>0, HandleKeeps
<1>5. CASE Offer
  <2>1. TypeOK'
    BY <1>5 DEF Offer, TypeOK, loopVars
  <2> QED
    BY <1>0, <1>5, <2>1, LoopKept DEF Offer, Constant
<1>6. CASE TimerFires \/ Interrupt
  <2>1. TypeOK'
    BY <1>6 DEF TimerFires, Interrupt, TypeOK, loopVars
  <2>2. pc # "done" /\ (pc' = pc \/ (pc # "handle" /\ pc' = "done"))
    BY <1>6 DEF TimerFires, Interrupt, Notified
  <2> QED
    BY <1>0, <1>6, <2>1, <2>2, OutsideKept DEF TimerFires, Interrupt, Constant
<1>7. CASE UNCHANGED vars
  BY <1>0, <1>7, LoopKept DEF vars, loopVars, Constant, TypeOK
<1> QED
  BY <1>1, <1>2, <1>3, <1>4, <1>5, <1>6, <1>7 DEF Next, Main, Done

LEMMA SubscribeReachable == Spec => []SubscribeInv
  BY InitSubscribeInv, NextKeepsInv, PTL DEF Spec

\* The variables keep their types, for any commands and messages.
THEOREM SubscribeTypeCorrect == Spec => []TypeOK
<1>1. SubscribeInv => TypeOK
  BY DEF SubscribeInv
<1> QED
  BY <1>1, SubscribeReachable, PTL

\* Every message that was received and is wanted is handed over, once and in
\* order, whatever ends the command.
THEOREM MessagesHandedOver == Spec => []WantedAreHandedOver
<1>1. SubscribeInv => WantedAreHandedOver
  BY DEF SubscribeInv
<1> QED
  BY <1>1, SubscribeReachable, PTL

\* A command gives at most --count messages to OnMessage, and exactly as many if
\* nothing else stopped it.
THEOREM CountsAreKept == Spec => []CountIsKept
<1>1. SubscribeInv => CountIsKept
  <2> SUFFICES ASSUME SubscribeInv
               PROVE  CountIsKept
    OBVIOUS
  <2>1. Len(written) \in Nat /\ received \in Nat /\ command.limit \in Int
    BY SubscribeAssumption DEF SubscribeInv, TypeOK, Command
  <2>2. command.limit # 0 =>
            /\ Len(written) <= received /\ received <= Bound
            /\ Recording => Len(written) = received
    BY DEF SubscribeInv, Counted
  <2>3. command.limit # 0 => Len(written) <= Bound
    <3>1. Bound \in Int
      BY <2>1 DEF Bound
    <3> QED
      BY <2>1, <2>2, <3>1
  <2>4. connection = "closed" /\ timer # "stopped" /\ signal # "taken" =>
            command.limit # 0 /\ received = Bound
    BY DEF SubscribeInv, Counted
  <2> QED
    BY <2>2, <2>3, <2>4 DEF CountIsKept
<1> QED
  BY <1>1, SubscribeReachable, PTL
=============================================================================
