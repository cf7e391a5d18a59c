----------------------------- MODULE Subscribe ------------------------------
(***************************************************************************)
(* The subscribe commands: Subscribe and SubscribeMultiple of              *)
(* pkg/c8ysubscribe.  One goroutine waits in a select for a message, the   *)
(* end of --duration or Ctrl-C, and returns; the realtime client           *)
(* (external) sends messages on an unbuffered channel and is not told to   *)
(* stop before the deferred Disconnect.                                    *)
(***************************************************************************)
EXTENDS Integers, Sequences

CONSTANTS
    Commands,    \* the commands explored
    Actions,     \* what messages may say has happened: CREATE, UPDATE, DELETE
    Unnamed,     \* the action of a message that does not name it
    MaxRecorded  \* bound on the messages that the history records

\* multiple: realtime subscribeAll, the only caller of SubscribeMultiple, which
\* has four channels.  limit is --count (0: none), types --actionTypes.
Command == [multiple : BOOLEAN, limit : Int, types : SUBSET Actions]

ASSUME SubscribeAssumption ==
    /\ Commands \subseteq Command
    /\ Unnamed \notin Actions
    /\ MaxRecorded \in Nat

NoMessage == "no message"
ASSUME NoMessageAssumption == NoMessage \notin Actions \cup {Unnamed}

VARIABLES
    command,     \* the command and its flags, never written
    pc,
    channels,    \* the number of channels subscribed to
    connection,  \* of the realtime client
    timer,       \* time.After(opts.Timeout)
    signal,      \* signalCh: "unset" before signal.Notify, then "empty", "full" or "taken"
    offer,       \* the message that the client is sending on msgCh
    received,    \* receivedCounter, counted only for a command with a limit
    result,      \* what RunE returns
    \* history
    taken,       \* the actions of the first messages received
    current,     \* the place in taken of the message in hand, or 0
    written      \* the places in taken of the messages given to OnMessage

loopVars == <<received, taken, current, written>>
vars == <<command, pc, channels, connection, timer, signal, offer, result,
          loopVars>>

Channels == IF command.multiple THEN 4 ELSE 1

\* strings.Contains(actionTypes, ...): the empty string is part of every other.
\* SubscribeMultiple does not look at ActionTypes.
Wanted(a) == command.multiple \/ command.types = {} \/ a \in command.types \cup {Unnamed}

-----------------------------------------------------------------------------
\* The goroutine

\* The flags are read and a device's name is looked up before the client
\* connects; on an error nothing was opened.
Prepare ==
    /\ pc = "prepare"
    /\ \/ pc' = "connect" /\ UNCHANGED result
       \/ pc' = "done" /\ result' = "error"
    /\ UNCHANGED <<command, channels, connection, timer, signal, offer, loopVars>>

\* An error of Connect is dropped by SubscribeMultiple; a panic is recovered
\* and returned by both.
ConnectError == IF command.multiple THEN "ok" ELSE "error"
Connect ==
    /\ pc = "connect"
    /\ \/ pc' = "notify" /\ connection' = "open" /\ UNCHANGED result
       \/ pc' = "done" /\ connection' = "failed" /\ result' = ConnectError
       \/ pc' = "done" /\ connection' = "failed" /\ result' = "error"
    /\ UNCHANGED <<command, channels, timer, signal, offer, loopVars>>

Notify ==
    /\ pc = "notify"
    /\ signal' = "empty" /\ pc' = "subscribe"
    /\ UNCHANGED <<command, channels, connection, timer, offer, result, loopVars>>

SubscribeNext ==
    /\ pc = "subscribe" /\ channels < Channels
    /\ channels' = channels + 1
    /\ UNCHANGED <<command, pc, connection, timer, signal, offer, result, loopVars>>

StartTimer ==
    /\ pc = "subscribe" /\ channels = Channels
    /\ timer' = "running" /\ pc' = "select"
    /\ UNCHANGED <<command, channels, connection, signal, offer, result, loopVars>>

\* return nil, and the deferred Disconnect
Return == pc' = "done" /\ connection' = "closed" /\ result' = "ok"

\* Mutation: messages go before the end of the duration
ExpiredAndQuiet == timer = "fired" /\ offer = NoMessage
\* timeoutCh has a value
Expired == timer = "fired"

\* case <-timeoutCh
DurationOver ==
    /\ pc = "select" /\ Expired
    /\ timer' = "stopped" /\ Return
    /\ UNCHANGED <<command, channels, signal, offer, loopVars>>

\* case <-signalCh
Stopped ==
    /\ pc = "select" /\ signal = "full"
    /\ signal' = "taken" /\ Return
    /\ UNCHANGED <<command, channels, timer, offer, loopVars>>

Recording == Len(taken) < MaxRecorded

\* Mutation: the message is dropped if the duration is over
DropLateMessage(a) == Wanted(a) /\ timer # "fired"
\* the message that was received is for OnMessage
Handles(a) == Wanted(a)

\* case msg := <-msgCh: the client's send completes
Receive ==
    /\ pc = "select" /\ offer # NoMessage
    /\ offer' = NoMessage
    /\ taken' = IF Recording THEN Append(taken, offer) ELSE taken
    /\ IF Handles(offer)
       THEN pc' = "handle" /\ current' = IF Recording THEN Len(taken) + 1 ELSE 0
       ELSE UNCHANGED <<pc, current>>
    /\ UNCHANGED <<command, channels, connection, timer, signal, result,
                   received, written>>

\* Mutation: the limit is compared before the message is counted
LimitReachedLate(n) == command.limit # 0 /\ n - 1 >= command.limit
LimitReached(n) == command.limit # 0 /\ n >= command.limit

\* OnMessage, whose error is dropped, and the limit
Handle ==
    /\ pc = "handle"
    /\ written' = IF current = 0 THEN written ELSE Append(written, current)
    /\ current' = 0
    /\ received' = IF command.limit = 0 THEN received ELSE received + 1
    /\ IF LimitReached(received + 1)
       THEN Return
       ELSE pc' = "select" /\ UNCHANGED <<connection, result>>
    /\ UNCHANGED <<command, channels, timer, signal, offer, taken>>

-----------------------------------------------------------------------------
\* The environment

\* The client sends what it gets on the channels that are subscribed to, one
\* message at a time.
Offer ==
    /\ pc # "done" /\ channels > 0 /\ offer = NoMessage
    /\ offer' \in Actions \cup {Unnamed}
    /\ UNCHANGED <<command, pc, channels, connection, timer, signal, result, loopVars>>

TimerFires ==
    /\ pc # "done" /\ timer = "running"
    /\ timer' = "fired"
    /\ UNCHANGED <<command, pc, channels, connection, signal, offer, result, loopVars>>

\* Ctrl-C ends the process until signal.Notify; from then on one signal is kept.
Interrupt ==
    /\ pc # "done"
    /\ \/ signal # "unset" /\ signal' = "full" /\ UNCHANGED <<pc, result>>
       \/ signal = "unset" /\ pc' = "done" /\ result' = "killed" /\ UNCHANGED signal
    /\ UNCHANGED <<command, channels, connection, timer, offer, loopVars>>

Done == pc = "done" /\ UNCHANGED vars

-----------------------------------------------------------------------------

Init ==
    /\ command \in Commands
    /\ pc = "prepare" /\ channels = 0 /\ connection = "none" /\ timer = "unset"
    /\ signal = "unset" /\ offer = NoMessage
    /\ received = 0 /\ result = "none"
    /\ taken = <<>> /\ current = 0 /\ written = <<>>

Main ==
    \/ Prepare \/ Connect \/ Notify \/ SubscribeNext \/ StartTimer
    \/ DurationOver \/ Stopped \/ Receive \/ Handle

Next == Main \/ Offer \/ TimerFires \/ Interrupt \/ Done

\* Weak fairness of the goroutine is not enough: a client that always has a
\* message leaves the select enabled with more than one case.  Go chooses among
\* the ready cases at random, which is strong fairness of the end of the
\* duration.  The client and the user need not act.
Fairness ==
    /\ WF_vars(Main)
    /\ SF_vars(DurationOver)
    /\ WF_vars(TimerFires)

Spec == Init /\ [][Next]_vars /\ Fairness

-----------------------------------------------------------------------------
\* Properties

TypeOK ==
    /\ command \in Commands
    /\ pc \in {"prepare", "connect", "notify", "subscribe", "select", "handle", "done"}
    /\ channels \in 0..4
    /\ connection \in {"none", "open", "closed", "failed"}
    /\ timer \in {"unset", "running", "fired", "stopped"}
    /\ signal \in {"unset", "empty", "full", "taken"}
    /\ offer \in Actions \cup {Unnamed, NoMessage}
    /\ received \in Nat
    /\ result \in {"none", "ok", "error", "killed"}
    /\ taken \in Seq(Actions \cup {Unnamed})
    /\ current \in Nat /\ written \in Seq(Nat)

\* No message that was received gets lost in the race with the duration, Ctrl-C
\* and the limit: those that are wanted, and only those, are given to OnMessage,
\* once each, in the order of their arrival, before the command returns.
WantedAreHandedOver ==
    LET handed == {written[k] : k \in DOMAIN written}
    IN  /\ \A i \in DOMAIN taken :
              Wanted(taken[i]) <=> i \in handed \/ (i = current /\ pc = "handle")
        /\ \A k, l \in DOMAIN written : k < l => written[k] < written[l]
        /\ current # 0 => pc = "handle"

\* What a command that is stopped by its limit has given to OnMessage: a
\* negative --count is reached by the first message.
Bound == IF command.limit < 0 THEN 1 ELSE command.limit

\* No command gives more than --count messages to OnMessage, messages of other
\* types not counted, and one that connected and was stopped neither by its
\* duration nor by Ctrl-C has given exactly as many, as far as the history
\* records them.
CountIsKept ==
    /\ command.limit # 0 => Len(written) <= Bound
    /\ connection = "closed" /\ timer # "stopped" /\ signal # "taken" /\ Recording
         => command.limit # 0 /\ Len(written) = Bound

\* The command ends although messages may come without a pause.
SubscriptionEnds == <>(pc = "done")
-----------------------------------------------------------------------------
\* The inductive invariant of SubscribeProofs.

\* The messages in taken are handed over in order: the one in hand is the last,
\* and the record is full when it has no place for it.
InOrder ==
    /\ \A k \in DOMAIN written : written[k] \in 1..Len(taken)
    /\ pc = "handle" =>
          /\ current \in {0, Len(taken)}
          /\ current = 0 => ~Recording
          /\ current # 0 => \A k \in DOMAIN written : written[k] < current

\* The loop goes on only below the limit.
Counted ==
    /\ command.limit # 0 =>
          /\ Len(written) <= received /\ received <= Bound
          /\ pc # "done" => received < Bound
          /\ Recording => Len(written) = received
    /\ connection = "closed" =>
          /\ pc = "done"
          /\ timer # "stopped" /\ signal # "taken" => command.limit # 0 /\ received = Bound

\* A message is in hand only after signal.Notify, so that Ctrl-C cannot end the
\* process between receiving it and handing it over.
Notified == pc \in {"subscribe", "select", "handle"} => signal # "unset"

SubscribeInv == TypeOK /\ Notified /\ WantedAreHandedOver /\ InOrder /\ Counted
=============================================================================
