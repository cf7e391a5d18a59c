---------------------------- MODULE LoginProofs -----------------------------
(***************************************************************************)
(* Theorems about the login, for every bound on prompts and on changes of  *)
(* the authentication strategy.                                            *)
(***************************************************************************)
EXTENDS Login, SequenceTheorems, TLAPS

Channel == {<<>>} \cup {<<s>> : s \in LoginState}

\* A handler finds the channel empty, so that it holds what the handler sends.
LEMMA SendOnEmpty ==
    ASSUME state = <<>>, NEW sent \in Seq(LoginState)
    PROVE  state \o sent = sent
BY ConcatEmptySeq

LEMMA OneState ==
    ASSUME NEW s \in LoginState
    PROVE  <<s>> \in Seq(LoginState) /\ <<s>> \in Channel /\ <<s>> # <<>>
BY DEF Channel

\* verify sends one state, and none of those that need to be counted.
LEMMA AfterVerifyOne ==
    ASSUME NEW a \in Answers
    PROVE  \E s \in LoginState : AfterVerify(a) = <<s>>
BY DEF AfterVerify, LoginState

LEMMA InitLInv == Init => LInv
<1> SUFFICES ASSUME Init
             PROVE  LInv
  OBVIOUS
<1>1. TypeOK
  <2>1. authorized \in BOOLEAN /\ tfaRequired \in BOOLEAN /\ tfaCode \in BOOLEAN
        /\ accepted \in BOOLEAN
    BY Zenon DEF Init
  <2> QED
    BY <2>1, LoginAssumption DEF Init, TypeOK, LoginState, Handlers, NoError
<1>2. NeverBlocks /\ ChannelEmpty
  BY DEF Init, NeverBlocks, ChannelEmpty, LoginState, Handlers
<1>3. RefusalsBounded /\ CodeReplaced /\ RefusalToSpare /\ SecondRefusal
  BY DEF Init, RefusalsBounded, CodeReplaced, RefusalToSpare, SecondRefusal
<1>4. SuccessMeansAccepted /\ AcceptedUntilRefused
  BY DEF Init, SuccessMeansAccepted, AcceptedUntilRefused
<1> QED
  BY <1>1, <1>2, <1>3, <1>4 DEF LInv

\* The driver keeps the invariant.
LEMMA DriverStep ==
    ASSUME LInv, Start \/ Receive \/ End
    PROVE  LInv'
<1> USE DEF LInv, TypeOK, NeverBlocks, ChannelEmpty, RefusalToSpare, SecondRefusal,
            RefusalsBounded, CodeReplaced, SuccessMeansAccepted, AcceptedUntilRefused, Ending, LoginState, Handlers,
            handlerVars, historyVars
<1>1. CASE Start
  BY <1>1 DEF Start
<1>2. CASE Receive
  <2>1. PICK s \in LoginState : state = <<s>>
    BY <1>2 DEF Receive
  <2>2. pc' = s /\ state' = <<>>
    BY <1>2, <2>1 DEF Receive
  <2> QED
    BY <1>2, <2>1, <2>2 DEF Receive
<1>3. CASE End
  BY <1>3 DEF End
<1> QED
  BY <1>1, <1>2, <1>3

\* Clear keeps it: after the second refusal it is Clear that drops the code.
LEMMA ClearStep ==
    ASSUME LInv, Clear
    PROVE  LInv'
<1> USE DEF LInv, TypeOK, NeverBlocks, ChannelEmpty, RefusalToSpare, SecondRefusal,
            RefusalsBounded, CodeReplaced, SuccessMeansAccepted, AcceptedUntilRefused, Ending, LoginState, Handlers
<1>1. pc \in {"Unknown", "NoAuth"} /\ state = <<>> /\ state' = <<>> /\ pc' \in {"Verify", "Login"}
  BY DEF Clear
<1>2. (tfaCode' \in BOOLEAN /\ authorized' \in BOOLEAN /\ accepted' \in BOOLEAN)
  BY DEF Clear
<1>3. rejections' \in Nat /\ rejections' <= rejections /\ rejections' # 2
  <2>1. rejections # 2 \/ CodeSpent
    BY <1>1 DEF CodeSpent
  <2> QED
    BY <2>1 DEF Clear
<1> QED
  BY <1>1, <1>2, <1>3 DEF Clear

\* verify keeps it.
LEMMA VerifyStep ==
    ASSUME LInv, Verify
    PROVE  LInv'
<1> USE DEF LInv, TypeOK, NeverBlocks, ChannelEmpty, RefusalToSpare, SecondRefusal,
            RefusalsBounded, CodeReplaced, SuccessMeansAccepted, AcceptedUntilRefused, Ending, LoginState, Handlers
<1>1. PICK a \in Answers :
          /\ state' = state \o AfterVerify(a)
          /\ err' = VerifyError(a)
          /\ tfaRequired' = (tfaRequired \/ a \in {"setup", "code"})
          /\ accepted' = (a = "ok" \/ (a = "setup" /\ accepted))
  BY Zenon DEF Verify
<1>2. PICK s \in LoginState : AfterVerify(a) = <<s>>
  BY AfterVerifyOne
<1>3. state = <<>> /\ pc' = "receive"
  BY DEF Verify
<1>4. state' = <<s>>
  BY <1>1, <1>2, <1>3, OneState, SendOnEmpty
<1>5. err' \in {NoError, OtherError}
  BY <1>1 DEF VerifyError
<1>6. tfaRequired' \in BOOLEAN /\ accepted' \in BOOLEAN /\ (tfaRequired => tfaRequired')
  BY <1>1, Zenon
<1>7. AcceptedUntilRefused'
  <2>1. s = "Auth" /\ err' = NoError => a = "ok"
    BY <1>1, <1>2, SMT DEF AfterVerify, VerifyError, OtherError, NoError, Err, Answers
  <2>2. authorized /\ a # "ok" /\ a # "setup" => s \in {"NoAuth", "Auth"}
    BY <1>2 DEF AfterVerify, Answers, Verify
  <2>3. a = "ok" => accepted'
    BY <1>1, Zenon
  <2>4. a = "setup" => (accepted' <=> accepted)
    BY <1>1, Zenon
  <2> QED
    BY <1>3, <1>4, <2>1, <2>2, <2>3, <2>4 DEF Verify
<1> QED
  BY <1>3, <1>4, <1>5, <1>6, <1>7 DEF Verify

\* The password prompt and the TFA setup keep it, whether they fail or not.
LEMMA PromptStep ==
    ASSUME LInv, AskPassword \/ SetupTFA
    PROVE  LInv'
<1> USE DEF LInv, TypeOK, NeverBlocks, ChannelEmpty, RefusalToSpare, SecondRefusal,
            RefusalsBounded, CodeReplaced, SuccessMeansAccepted, AcceptedUntilRefused, Ending, LoginState, Handlers,
            handlerVars
<1>1. state = <<>> /\ pc \in {"PromptPassword", "TFASetup"}
  BY DEF AskPassword, SetupTFA
<1>2. CASE Fail /\ UNCHANGED <<options, changes>>
  <2>1. OtherError # NoError
    BY DEF OtherError, NoError, Err
  <2> QED
    BY <1>1, <1>2, <2>1 DEF Fail
<1>3. CASE AskPassword /\ prompts' = prompts + 1
  <2>1. state' = <<"Verify">>
    BY <1>1, <1>3, OneState, SendOnEmpty DEF AskPassword, Fail
  <2> QED
    BY <1>1, <1>3, <2>1 DEF AskPassword, Fail
<1>4. CASE SetupTFA /\ prompts' = prompts + 1
  <2>1. state' = <<"TFAConfirm">>
    BY <1>1, <1>4, OneState, SendOnEmpty DEF SetupTFA, Fail
  <2> QED
    BY <1>1, <1>4, <2>1 DEF SetupTFA, Fail
<1> QED
  BY <1>2, <1>3, <1>4 DEF AskPassword, SetupTFA

\* login keeps it when it needs no conversation.
LEMMA LoginAtOnceStep ==
    ASSUME LInv, Login, LoginAtOnce
    PROVE  LInv'
<1> USE DEF LInv, TypeOK, NeverBlocks, ChannelEmpty, RefusalToSpare, SecondRefusal,
            RefusalsBounded, CodeReplaced, SuccessMeansAccepted, AcceptedUntilRefused, Ending, LoginState, Handlers
<1>1. state = <<>> /\ pc' = "receive" /\ OtherError # NoError
  BY DEF Login, OtherError, NoError, Err
<1>2. CASE options = "none"
  <2>1. state' = <<"Abort">>
    BY <1>1, <1>2, OneState, SendOnEmpty DEF LoginAtOnce
  <2> QED
    BY <1>1, <1>2, <2>1 DEF Login, LoginAtOnce
<1>3. CASE options # "none" /\ authorized
  <2>1. state' = <<"Auth">>
    BY <1>1, <1>3, OneState, SendOnEmpty DEF LoginAtOnce
  <2>2. accepted
    BY <1>1, <1>3 DEF Login
  <2> QED
    BY <1>1, <1>3, <2>1, <2>2 DEF Login, LoginAtOnce
<1>4. CASE options = "basic" /\ ~authorized
  <2>1. state' = <<>>
    BY <1>1, <1>4, ConcatEmptySeq DEF LoginAtOnce
  <2>2. attempts - changes <= 2 /\ rejections # 2
    BY <1>1 DEF Login
  <2> QED
    BY <1>1, <1>4, <2>1, <2>2 DEF Login, LoginAtOnce
<1> QED
  BY <1>2, <1>3, <1>4 DEF LoginAtOnce

\* The prompt for a code keeps it, whether a code is accepted or not.
LEMMA EnterCodeStep ==
    ASSUME LInv, Login, EnterCode
    PROVE  LInv'
<1> USE DEF LInv, TypeOK, NeverBlocks, ChannelEmpty, RefusalToSpare, SecondRefusal,
            RefusalsBounded, CodeReplaced, SuccessMeansAccepted, AcceptedUntilRefused, Ending, LoginState, Handlers
<1>1. state = <<>> /\ pc' = "receive" /\ pc \in {"Login", "TFAConfirm"}
  BY DEF Login
<1>2. PICK s \in {"Verify", "Abort"} : state' = <<s>>
  BY <1>1, OneState, SendOnEmpty DEF EnterCode
<1>3. attempts - changes <= 2 /\ rejections # 2
  BY <1>1
<1>4. CodeAccepted \/ UNCHANGED <<tfaCode, rejections, authorized, accepted, method>>
  BY DEF EnterCode
<1>5. prompts' \in Nat /\ UNCHANGED <<options, tfaRequired, outcome, attempts, changes>> /\ err' = NoError
  BY DEF Login, EnterCode
<1>6. CASE CodeAccepted
  BY <1>1, <1>2, <1>3, <1>5, <1>6 DEF CodeAccepted
<1>7. CASE UNCHANGED <<tfaCode, rejections, authorized, accepted, method>>
  <2>1. authorized => accepted
    BY <1>1
  <2> QED
    BY <1>1, <1>2, <1>3, <1>5, <1>7, <2>1
<1> QED
  BY <1>4, <1>6, <1>7

\* A refusal that is counted after a change leaves one to spare, and so does one
\* of the first two.
LEMMA CountedRefusal ==
    ASSUME NEW n \in Nat, NEW c \in Nat, NEW d \in Nat, NEW change \in BOOLEAN,
           n - c <= 2, d = IF change THEN c + 1 ELSE c
    PROVE  /\ (n + 1) - d <= 3
           /\ (change \/ n + 1 <= 2) => (n + 1) - d <= 2
OBVIOUS

\* A login with the stored password keeps it: what is sent after a refusal
\* depends on how many there were.
LEMMA RequestTokenStep ==
    ASSUME LInv, Login, ~authorized, Totp /\ tfaRequired => tfaCode, RequestToken
    PROVE  LInv'
<1> USE DEF LInv, TypeOK, NeverBlocks, ChannelEmpty, RefusalToSpare, SecondRefusal,
            RefusalsBounded, CodeReplaced, SuccessMeansAccepted, AcceptedUntilRefused, Ending, LoginState, Handlers
<1>1. state = <<>> /\ pc' = "receive" /\ pc \in {"Login", "TFAConfirm"}
  BY DEF Login
<1>2. attempts - changes <= 2 /\ rejections # 2
  BY <1>1
<1>3. UNCHANGED <<options, tfaRequired, outcome, tfaCode, prompts>> /\ err' = NoError
  BY DEF Login, RequestToken
<1>4. CASE /\ authorized' = TRUE /\ accepted' = TRUE /\ method' = "OAUTH2_INTERNAL"
           /\ state' = state \o <<"Auth">>
           /\ UNCHANGED <<attempts, rejections, changes>>
  <2>1. state' = <<"Auth">>
    BY <1>1, <1>4, OneState, SendOnEmpty
  <2> QED
    BY <1>1, <1>2, <1>3, <1>4, <2>1
<1>5. ASSUME NEW change \in BOOLEAN,
             change => changes < MaxChanges,
             changes' = IF change THEN changes + 1 ELSE changes,
             attempts' = attempts + 1,
             state' = state \o AfterRejection(change, attempts'),
             rejections' = IF Totp /\ tfaRequired THEN rejections + 1 ELSE rejections,
             UNCHANGED <<authorized, accepted, method>>
      PROVE  LInv'
  <2>1. PICK s \in {"Abort", "Unknown"} :
           /\ AfterRejection(change, attempts') = <<s>>
           /\ ~change /\ attempts' > 2 => s = "Abort"
    BY DEF AfterRejection
  <2>2. state' = <<s>>
    BY <1>1, <1>5, <2>1, OneState, SendOnEmpty
  <2>3. changes' \in 0..MaxChanges /\ changes' >= changes /\ (change => changes' = changes + 1)
    BY <1>5, LoginAssumption
  <2>4. /\ attempts' \in Nat /\ attempts' - changes' <= 3
        /\ attempts' - changes' <= 2 \/ state' = <<"Abort">>
    <3>1. attempts \in Nat /\ changes \in Nat /\ changes' \in Nat
      BY <2>3, LoginAssumption
    <3>2. /\ attempts' - changes' <= 3
          /\ (change \/ attempts' <= 2) => attempts' - changes' <= 2
      BY <1>2, <1>5, <3>1, CountedRefusal
    <3>3. change \/ attempts' <= 2 \/ state' = <<"Abort">>
      <4>1. attempts' \in Nat
        BY <1>5, <3>1
      <4>2. ~(attempts' > 2) => attempts' <= 2
        BY <4>1
      <4>3. s = "Abort" => state' = <<"Abort">>
        BY <2>2, Zenon
      <4> QED
        BY <2>1, <4>2, <4>3, Zenon
    <3> QED
      BY <1>5, <3>1, <3>2, <3>3
  <2>5. /\ rejections' \in Nat /\ rejections' <= 2 /\ rejections' <= attempts'
        /\ rejections' > 0 => tfaRequired
    BY <1>2, <1>5
  <2>6. state' \in {<<"Abort">>, <<"Unknown">>}
    BY <2>2
  <2> QED
    BY <1>1, <1>3, <1>5, <2>3, <2>4, <2>5, <2>6
<1> QED
  BY <1>4, <1>5, Zenon DEF RequestToken, CountAttempt

LEMMA LoginStep ==
    ASSUME LInv, Login
    PROVE  LInv'
BY LoginAtOnceStep, EnterCodeStep, RequestTokenStep DEF Login

LEMMA StutterStep ==
    ASSUME LInv, UNCHANGED loginVars
    PROVE  LInv'
BY DEF LInv, TypeOK, NeverBlocks, ChannelEmpty, RefusalToSpare, SecondRefusal, RefusalsBounded,
   CodeReplaced, SuccessMeansAccepted, AcceptedUntilRefused, Ending, loginVars, handlerVars, historyVars

\* All that is proved below follows from the invariant of the reachable states.
LEMMA Reachable == Spec => []LInv
<1>1. LInv /\ [Next]_loginVars => LInv'
  BY DriverStep, VerifyStep, ClearStep, LoginStep, PromptStep, StutterStep DEF Next
<1> QED
  BY InitLInv, <1>1, PTL DEF Spec

\* The variables keep their types, and the channel never holds two states.
THEOREM LoginTypeCorrect == Spec => []TypeOK
<1>1. LInv => TypeOK
  BY DEF LInv
<1> QED
  BY <1>1, Reachable, PTL

\* The goroutine finds a state when it reads the channel and room when it
\* writes, unless BASIC is the only login option.
THEOREM LoginNeverBlocks == Spec => []NeverBlocks
<1>1. LInv => NeverBlocks
  BY DEF LInv
<1> QED
  BY <1>1, Reachable, PTL

\* A login that ends as authorized without an error was accepted by the server.
THEOREM SuccessWasAccepted == Spec => []SuccessMeansAccepted
<1>1. LInv => SuccessMeansAccepted
  BY DEF LInv
<1> QED
  BY <1>1, Reachable, PTL

\* Changes of the authentication strategy apart, at most three logins are
\* refused, and a TFA code that was refused twice is not used again.
THEOREM ThreeRefusals == Spec => []RefusalsAreHeeded
<1>1. LInv => RefusalsAreHeeded
  BY DEF LInv, RefusalsAreHeeded
<1> QED
  BY <1>1, Reachable, PTL

-----------------------------------------------------------------------------
\* Every step goes forward, or back for a refusal or a prompt that is counted

LEMMA StageType ==
    ASSUME NEW s
    PROVE  /\ Stage(s) \in 0..11
           /\ s \in Handlers => Stage(s) \in 1..9
BY DEF Stage, Handlers, LoginState

LEMMA LoginStageType == loginStage \in 0..11
<1>1. CASE pc = "receive"
  BY <1>1, StageType DEF loginStage
<1>2. CASE pc # "receive"
  BY <1>2, StageType DEF loginStage
<1> QED
  BY <1>1, <1>2

\* The stage of a state that is sent, and of a handler that runs.
LEMMA StageReceive ==
    ASSUME NEW s \in LoginState, state = <<s>>, pc = "receive"
    PROVE  loginStage = Stage(s)
<1>1. state # <<>> /\ Head(state) = s
  OBVIOUS
<1> QED
  BY <1>1 DEF loginStage

LEMMA StageSent ==
    ASSUME NEW s \in LoginState, state' = <<s>>, pc' = "receive"
    PROVE  loginStage' = Stage(s)
<1>1. state' # <<>> /\ Head(state') = s
  OBVIOUS
<1> QED
  BY <1>1 DEF loginStage

LEMMA StageRunning ==
    ASSUME pc \in Handlers
    PROVE  loginStage = Stage(pc) + 1
<1>1. pc # "receive"
  BY DEF Handlers, LoginState
<1> QED
  BY <1>1 DEF loginStage

LEMMA StageDone == ASSUME pc' = "done" PROVE loginStage' = 11
<1>1. pc' # "receive" /\ pc' \notin Handlers /\ Stage(pc') = 11
  BY DEF Handlers, LoginState, Stage
<1> QED
  BY <1>1 DEF loginStage

\* A round more outweighs every stage.
LEMMA RoundsFirst ==
    ASSUME NEW a \in Nat, NEW p \in Nat, NEW b \in Nat, NEW q \in Nat,
           NEW i \in 0..11, NEW j \in 0..11,
           \/ b + q = a + p /\ i < j
           \/ b + q = a + p + 1
    PROVE  12 * (a + p) + i < 12 * (b + q) + j
<1>1. CASE b + q = a + p /\ i < j
  BY <1>1
<1>2. CASE b + q = a + p + 1
  BY <1>2
<1> QED
  BY <1>1, <1>2

\* A step forward: to a later stage, or a refusal or a prompt more.
LEMMA StepForward ==
    ASSUME TypeOK, attempts' \in Nat, prompts' \in Nat,
           \/ attempts' + prompts' = attempts + prompts /\ loginStage < loginStage'
           \/ attempts' + prompts' = attempts + prompts + 1
    PROVE  loginProgress < loginProgress'
<1>1. attempts \in Nat /\ prompts \in Nat /\ loginStage \in 0..11
  BY LoginStageType DEF TypeOK
<1>2. loginStage' \in 0..11
  <2>1. CASE pc' = "receive"
    BY <2>1, StageType DEF loginStage
  <2>2. CASE pc' # "receive"
    BY <2>2, StageType DEF loginStage
  <2> QED
    BY <2>1, <2>2
<1> QED
  BY <1>1, <1>2, RoundsFirst DEF loginProgress

\* The driver goes forward: it takes a state, which is at its handler then.
LEMMA DriverForward ==
    ASSUME LInv, Start \/ Receive \/ End
    PROVE  loginProgress < loginProgress'
<1>1. TypeOK /\ UNCHANGED <<attempts, prompts>> /\ attempts \in Nat /\ prompts \in Nat
  BY DEF LInv, TypeOK, Start, Receive, End, handlerVars, historyVars
<1>2. CASE Start
  <2>1. PICK s \in {"Verify", "PromptPassword"} : state' = <<s>>
    BY <1>2 DEF Start
  <2>2. s \in LoginState /\ pc' = "receive"
    BY <1>2, <2>1 DEF Start, LoginState
  <2>3. loginStage' = Stage(s) /\ Stage(s) \in {3, 5}
    BY <2>1, <2>2, StageSent DEF Stage
  <2>4. loginStage = 0
    BY <1>2 DEF Start, loginStage, Stage, Handlers, LoginState
  <2>5. loginStage < loginStage'
    BY <2>3, <2>4
  <2> QED
    BY <1>1, <2>5, StepForward
<1>3. CASE Receive
  <2>1. PICK s \in LoginState : state = <<s>>
    BY <1>3 DEF Receive, LInv, TypeOK
  <2>2. pc = "receive" /\ pc' = s /\ s \in Handlers
    BY <1>3, <2>1 DEF Receive, Handlers
  <2>3. loginStage = Stage(s)
    BY <2>1, <2>2, StageReceive
  <2>4. loginStage' = Stage(s) + 1
    BY <2>1, <2>2 DEF loginStage, Stage, LoginState
  <2>5. loginStage < loginStage'
    BY <2>3, <2>4, StageType
  <2> QED
    BY <1>1, <2>5, StepForward
<1>4. CASE End
  <2>1. pc \in Handlers /\ pc' = "done"
    BY <1>4 DEF End, Handlers, LoginState
  <2>2. loginStage = 10 /\ loginStage' = 11
    BY <1>4, <2>1, StageRunning, StageDone DEF End, Stage
  <2>3. loginStage < loginStage'
    BY <2>2
  <2> QED
    BY <1>1, <2>3, StepForward
<1> QED
  BY <1>2, <1>3, <1>4

\* What verify sends is behind it.
LEMMA VerifyForward ==
    ASSUME LInv, Verify \/ Clear
    PROVE  loginProgress < loginProgress'
<1>1. TypeOK /\ UNCHANGED <<attempts, prompts>> /\ attempts \in Nat /\ prompts \in Nat
  BY DEF LInv, TypeOK, Verify, Clear
<1>2. pc \in Handlers /\ state = <<>>
  BY DEF Verify, Clear, Handlers, LoginState, LInv, NeverBlocks
<1>3. CASE Verify
  <2>1. PICK a \in Answers : state' = state \o AfterVerify(a)
    BY <1>3, Zenon DEF Verify
  <2>2. PICK s \in {"Auth", "TFASetup", "PromptPassword", "NoAuth"} : AfterVerify(a) = <<s>>
    BY DEF AfterVerify
  <2>3. s \in LoginState /\ Stage(s) > 4
    BY DEF LoginState, Stage
  <2>4. state' = <<s>> /\ pc' = "receive"
    BY <1>2, <1>3, <2>1, <2>2, <2>3, OneState, SendOnEmpty DEF Verify
  <2>5. loginStage' = Stage(s) /\ loginStage = 4
    BY <1>2, <1>3, <2>3, <2>4, StageSent, StageRunning DEF Verify, Stage
  <2> QED
    BY <1>1, <2>3, <2>5, StepForward
<1>4. CASE Clear
  <2>1. loginStage = IF pc = "Unknown" THEN 2 ELSE 6
    BY <1>2, <1>4, StageRunning DEF Clear, Stage
  <2>2. loginStage' = IF pc = "Unknown" THEN 4 ELSE 8
    BY <1>4 DEF Clear, loginStage, Stage, Handlers, LoginState
  <2> QED
    BY <1>1, <2>1, <2>2, StepForward
<1> QED
  BY <1>3, <1>4

\* A prompt that was answered is counted; one that failed ends the login.
LEMMA PromptForward ==
    ASSUME LInv, AskPassword \/ SetupTFA
    PROVE  loginProgress < loginProgress'
<1>1. TypeOK /\ attempts' = attempts /\ attempts \in Nat /\ prompts \in Nat
  BY DEF LInv, TypeOK, AskPassword, SetupTFA, Fail, handlerVars
<1>2. CASE prompts' = prompts + 1
  BY <1>1, <1>2, StepForward
<1>3. CASE Fail
  <2>1. prompts' = prompts /\ pc' = "done" /\ pc \in {"PromptPassword", "TFASetup"}
    BY <1>3 DEF Fail, AskPassword, SetupTFA
  <2>2. loginStage = 6 /\ loginStage' = 11
    BY <2>1, StageRunning, StageDone DEF Stage, Handlers, LoginState
  <2> QED
    BY <1>1, <2>1, <2>2, StepForward
<1> QED
  BY <1>2, <1>3 DEF AskPassword, SetupTFA

\* After login: its end, a code that was typed, or a refusal that is counted.
LEMMA LoginForward ==
    ASSUME LInv, Login
    PROVE  loginProgress < loginProgress'
<1>1. TypeOK /\ attempts \in Nat /\ prompts \in Nat /\ state = <<>> /\ pc' = "receive"
  BY DEF LInv, TypeOK, Login, NeverBlocks, Handlers, LoginState
<1>2. loginStage = 8
  BY StageRunning DEF Login, Stage, Handlers, LoginState
<1>3. ASSUME NEW s \in {"Auth", "Abort"}, state' = state \o <<s>>, UNCHANGED <<attempts, prompts>>
      PROVE  loginProgress < loginProgress'
  <2>1. s \in LoginState /\ state' = <<s>>
    BY <1>1, <1>3, OneState, SendOnEmpty DEF LoginState
  <2>2. loginStage' = 9
    BY <1>1, <2>1, StageSent DEF Stage
  <2> QED
    BY <1>1, <1>2, <1>3, <2>2, StepForward
<1>4. CASE LoginAtOnce
  <2>1. UNCHANGED <<attempts, prompts>>
    BY <1>4 DEF LoginAtOnce
  <2>2. CASE options = "none" \/ authorized
    BY <1>3, <1>4, <2>1, <2>2 DEF LoginAtOnce
  <2>3. CASE ~(options = "none" \/ authorized)
    <3>1. state' = <<>>
      BY <1>1, <1>4, <2>3, ConcatEmptySeq DEF LoginAtOnce
    <3>2. loginStage' = 10
      BY <1>1, <3>1 DEF loginStage
    <3> QED
      BY <1>1, <1>2, <2>1, <3>2, StepForward
  <2> QED
    BY <2>2, <2>3
<1>5. CASE EnterCode
  <2>1. attempts' = attempts
    BY <1>5 DEF EnterCode
  <2>2. \/ prompts' = prompts + 1
        \/ prompts' = prompts /\ state' = state \o <<"Abort">>
    BY <1>5 DEF EnterCode
  <2> QED
    BY <1>1, <1>3, <2>1, <2>2, StepForward
<1>6. CASE RequestToken
  <2>1. prompts' = prompts
    BY <1>6 DEF RequestToken
  <2>2. \/ attempts' = attempts + 1
        \/ attempts' = attempts /\ state' = state \o <<"Auth">>
    BY <1>6 DEF RequestToken, CountAttempt
  <2> QED
    BY <1>1, <1>3, <2>1, <2>2, StepForward
<1> QED
  BY <1>4, <1>5, <1>6 DEF Login

\* No circle of the login's states is free: every step goes forward, or back for a
\* refusal or a prompt that is counted (c8ylogin.go:354).
THEOREM NoCircleIsFree == Spec => NoFreeCircle
<1>1. LInv /\ [Next]_loginVars => [loginProgress < loginProgress']_loginVars
  BY DriverForward, VerifyForward, PromptForward, LoginForward DEF Next
<1> QED
  BY <1>1, Reachable, PTL DEF Spec, NoFreeCircle

\* The circles are bounded by the limit of refusals and the bounds of the model: with
\* NoCircleIsFree a login makes a bounded number of steps.
THEOREM CirclesAreBounded == Spec => []CirclesBounded
<1> DEFINE PromptsBounded == prompts <= MaxPrompts
<1>1. Init => PromptsBounded
  BY LoginAssumption DEF Init
<1>2. LInv /\ PromptsBounded /\ [Next]_loginVars => PromptsBounded'
  <2>1. SUFFICES ASSUME LInv, PromptsBounded, [Next]_loginVars PROVE PromptsBounded'
    OBVIOUS
  <2>2. prompts \in Nat /\ MaxPrompts \in Nat
    BY <2>1, LoginAssumption DEF LInv, TypeOK
  <2>3. prompts' = prompts \/ (prompts < MaxPrompts /\ prompts' = prompts + 1)
    BY <2>1 DEF Next, Start, Receive, End, Verify, Clear, Login, LoginAtOnce, EnterCode,
       RequestToken, AskPassword, SetupTFA, Fail, loginVars, historyVars
  <2> QED
    BY <2>1, <2>2, <2>3
<1>3. LInv /\ PromptsBounded => CirclesBounded
  <2>1. SUFFICES ASSUME LInv, PromptsBounded PROVE CirclesBounded
    OBVIOUS
  <2>2. /\ attempts \in Nat /\ prompts \in Nat /\ changes \in 0..MaxChanges
        /\ MaxChanges \in Nat /\ MaxPrompts \in Nat /\ prompts <= MaxPrompts
        /\ attempts - changes <= 3
    BY <2>1, LoginAssumption DEF LInv, TypeOK, RefusalsBounded
  <2> QED
    BY <2>2, LoginStageType DEF CirclesBounded, loginProgress
<1> HIDE DEF PromptsBounded
<1> QED
  BY <1>1, <1>2, <1>3, Reachable, PTL DEF Spec
=============================================================================
