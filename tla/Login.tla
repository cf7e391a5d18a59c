------------------------------- MODULE Login --------------------------------
(***************************************************************************)
(* pkg/c8ylogin: LoginHandler.Run, the login of "c8y sessions set".        *)
(*                                                                         *)
(* One goroutine is both the reader and the writer of a channel of         *)
(* capacity one that holds the next state: Run takes the state and calls   *)
(* its handler, and the handler sends the state to come.  A handler that   *)
(* sends none, or two, blocks the login for ever.                          *)
(***************************************************************************)
EXTENDS ErrorMapping, Sequences

CONSTANTS
    LoginOptions, \* what the server may offer (see LoginOptionSet)
    MaxPrompts,   \* bound on the prompts the user answers before giving up
    MaxChanges    \* bound on the changes of the authentication strategy

\* No options (or they cannot be read), only BASIC, OAUTH2_INTERNAL, or the
\* same with the TFA strategy TOTP.  Other types next to it do nothing.
LoginOptionSet == {"none", "basic", "oauth", "oauthTotp"}

ASSUME LoginAssumption ==
    /\ LoginOptions \subseteq LoginOptionSet
    /\ MaxPrompts \in Nat /\ MaxChanges \in Nat

LoginState ==
    {"Unknown", "Auth", "NoAuth", "TFASetup", "TFAConfirm", "Verify", "Abort", "PromptPassword"}

\* Handlers of a state; "Login" is NoAuth's after Clear.
Handlers == LoginState \cup {"Login"}

VARIABLES
    options,     \* the server's login options, never written
    pc,          \* "start", "receive", the handler that runs, or "done"
    state,       \* the channel
    err,         \* lh.Err, and finally what Run returns
    attempts, authorized, tfaRequired,
    tfaCode,     \* there is a TFA code
    method,      \* C8Yclient.AuthorizationMethod
    \* history
    outcome,     \* the state that ended the login
    accepted,    \* the server gave the present token, or accepted it last
    rejections,  \* failed logins with the present TFA code
    prompts, changes

handlerVars == <<attempts, authorized, tfaRequired, tfaCode, method>>
historyVars == <<outcome, accepted, rejections, prompts, changes>>
loginVars == <<options, pc, state, err, handlerVars, historyVars>>

Totp == options = "oauthTotp"

-----------------------------------------------------------------------------
\* The driver

\* Run: init reads the login options, or fails to, and prefers the first; then a
\* session with a token or a password is verified, another asks for the password.
Start ==
    /\ pc = "start"
    /\ method' \in IF options = "basic" THEN {"BASIC"} ELSE {"BASIC", "OAUTH2_INTERNAL"}
    /\ state' \in {<<"Verify">>, <<"PromptPassword">>}
    /\ err' \in IF options = "none" THEN {NoError, OtherError} ELSE {NoError}
    /\ pc' = "receive"
    /\ UNCHANGED <<options, attempts, authorized, tfaRequired, tfaCode, historyVars>>

\* c := <-lh.state
Receive ==
    /\ pc = "receive"
    /\ state # <<>>
    /\ pc' = Head(state)
    /\ state' = Tail(state)
    /\ UNCHANGED <<options, err, handlerVars, historyVars>>

\* LoginStateAbort, LoginStateAuth: break, return lh.Err.
End ==
    /\ pc \in {"Auth", "Abort"}
    /\ outcome' = pc
    /\ pc' = "done"
    /\ UNCHANGED <<options, state, err, handlerVars, accepted, rejections, prompts, changes>>

\* Run returns the error of a prompt or of the TFA setup.
Fail ==
    /\ pc' = "done"
    /\ err' = OtherError
    /\ outcome' = pc
    /\ UNCHANGED <<state, handlerVars, accepted, rejections, prompts>>

-----------------------------------------------------------------------------
\* verify

\* The answers to GetCurrentTenant: accepted, a failure other than 401, and the
\* messages of a 401: TFA setup or code required, logged out, bad credentials,
\* another message, none.
Answers == {"ok", "failure", "setup", "code", "loggedOut", "bad", "other", "noMessage"}

\* Mutation: an unknown message leads nowhere.
AfterVerifyKnown(a) ==
    IF a \in {"ok", "failure"} THEN <<"Auth">>
    ELSE IF a = "setup" THEN <<"TFASetup">>
    ELSE IF a = "bad" /\ method # "OAUTH2_INTERNAL" THEN <<"PromptPassword">>
    ELSE IF a = "other" THEN <<>> ELSE <<"NoAuth">>

\* What verify sends.
AfterVerify(a) ==
    IF a \in {"ok", "failure"} THEN <<"Auth">>
    ELSE IF a = "setup" THEN <<"TFASetup">>
    ELSE IF a = "bad" /\ method # "OAUTH2_INTERNAL" THEN <<"PromptPassword">>
    ELSE <<"NoAuth">>

\* Mutation: the error of the request is not returned.
VerifyErrorDropped(a) == IF a = "noMessage" THEN OtherError ELSE NoError

\* The error verify returns: a 401 with a message is not one.
VerifyError(a) == IF a \in {"failure", "noMessage"} THEN OtherError ELSE NoError

Verify ==
    /\ pc = "Verify"
    /\ \E a \in Answers :
          /\ state' = state \o AfterVerify(a)
          /\ err' = VerifyError(a)
          /\ tfaRequired' = (tfaRequired \/ a \in {"setup", "code"})
          /\ accepted' = (a = "ok" \/ (a = "setup" /\ accepted))
    /\ pc' = "receive"
    /\ UNCHANGED <<options, attempts, authorized, tfaCode, method,
                   outcome, rejections, prompts, changes>>

-----------------------------------------------------------------------------
\* Clear

\* Mutation: a rejected code is kept.
CodeSpentNever == FALSE

CodeSpent == attempts > 1 /\ tfaRequired

\* LoginStateUnknown: Clear, then verify.  LoginStateNoAuth: Clear, then login.
Clear ==
    /\ pc \in {"Unknown", "NoAuth"}
    /\ tfaCode' = (tfaCode /\ ~CodeSpent)
    /\ rejections' = IF CodeSpent THEN 0 ELSE rejections
    /\ authorized' = FALSE /\ accepted' = FALSE
    /\ method' = "BASIC"
    /\ err' = NoError
    /\ pc' = IF pc = "Unknown" THEN "Verify" ELSE "Login"
    /\ UNCHANGED <<options, state, attempts, tfaRequired, outcome, prompts, changes>>

-----------------------------------------------------------------------------
\* login

\* Mutation: one attempt more.
AfterRejectionLate(change, count) ==
    IF ~change /\ count > 3 THEN <<"Abort">> ELSE <<"Unknown">>

\* What login sends after a rejected login: a change of the authentication
\* strategy is rechecked whatever the count of attempts.
AfterRejection(change, count) ==
    IF ~change /\ count > 2 THEN <<"Abort">> ELSE <<"Unknown">>

\* Mutation: rejected logins are not counted.
CountAttemptNever == attempts

CountAttempt == attempts + 1

\* The prompt tries every code that is long enough while the user types it, and
\* the first that the server accepts authorizes the client.
CodeAccepted ==
    /\ tfaCode' = TRUE /\ rejections' = 0
    /\ authorized' = TRUE /\ accepted' = TRUE /\ method' = "OAUTH2_INTERNAL"

\* The user enters an accepted code, or cancels the prompt, perhaps after one was
\* accepted.  Then lh.Err is set, but do resets it to the nil that login returns.
EnterCode ==
    /\ \/ /\ prompts < MaxPrompts
          /\ CodeAccepted
          /\ prompts' = prompts + 1
          /\ state' = state \o <<"Verify">>
       \/ /\ CodeAccepted \/ UNCHANGED <<tfaCode, rejections, authorized, accepted, method>>
          /\ state' = state \o <<"Abort">>
          /\ UNCHANGED prompts
    /\ err' = NoError
    /\ UNCHANGED <<attempts, changes>>

\* LoginUsingOAuth2 with the password, and with the code if it is required.
RequestToken ==
    /\ \/ /\ authorized' = TRUE /\ accepted' = TRUE /\ method' = "OAUTH2_INTERNAL"
          /\ state' = state \o <<"Auth">>
          /\ UNCHANGED <<attempts, rejections, changes>>
       \/ \E change \in BOOLEAN :
             /\ change => changes < MaxChanges
             /\ changes' = IF change THEN changes + 1 ELSE changes
             /\ attempts' = CountAttempt
             /\ state' = state \o AfterRejection(change, attempts')
             /\ rejections' = IF Totp /\ tfaRequired THEN rejections + 1 ELSE rejections
             /\ UNCHANGED <<authorized, accepted, method>>
    /\ err' = NoError
    /\ UNCHANGED <<tfaCode, prompts>>

\* What login does without a conversation: there is no option, the client is
\* authorized, or BASIC is the only option and nothing is sent.
LoginAtOnce ==
    /\ options \in {"none", "basic"} \/ authorized
    /\ state' = state \o
          IF options = "none" THEN <<"Abort">> ELSE IF authorized THEN <<"Auth">> ELSE <<>>
    /\ err' = IF options = "none" THEN OtherError ELSE NoError
    /\ UNCHANGED <<attempts, authorized, tfaCode, method, accepted, rejections, prompts, changes>>

\* login; after the TFA setup without a Clear before it.
Login ==
    /\ pc \in {"Login", "TFAConfirm"}
    /\ \/ LoginAtOnce
       \/ /\ options \in {"oauth", "oauthTotp"} /\ ~authorized
          /\ Totp /\ tfaRequired /\ ~tfaCode
          /\ EnterCode
       \/ /\ options \in {"oauth", "oauthTotp"} /\ ~authorized
          /\ Totp /\ tfaRequired => tfaCode
          /\ RequestToken
    /\ pc' = "receive"
    /\ UNCHANGED <<options, tfaRequired, outcome>>

-----------------------------------------------------------------------------
\* promptForPassword and setupTFA

AskPassword ==
    /\ pc = "PromptPassword"
    /\ \/ Fail /\ UNCHANGED <<options, changes>>
       \/ /\ prompts < MaxPrompts
          /\ prompts' = prompts + 1
          /\ state' = state \o <<"Verify">>
          /\ pc' = "receive"
          /\ UNCHANGED <<options, err, handlerVars, outcome, accepted, rejections, changes>>

\* The secret is requested, a code verified and the strategy activated; each
\* may fail.
SetupTFA ==
    /\ pc = "TFASetup"
    /\ \/ Fail /\ UNCHANGED <<options, changes>>
       \/ /\ prompts < MaxPrompts
          /\ prompts' = prompts + 1
          /\ tfaCode' = TRUE /\ rejections' = 0
          /\ state' = state \o <<"TFAConfirm">>
          /\ pc' = "receive"
          /\ UNCHANGED <<options, err, attempts, authorized, tfaRequired, method,
                         outcome, accepted, changes>>

-----------------------------------------------------------------------------

Init ==
    /\ options \in LoginOptions
    /\ pc = "start" /\ state = <<>> /\ err = NoError
    /\ attempts = 0 /\ authorized = FALSE /\ tfaRequired = FALSE
    /\ tfaCode \in BOOLEAN                  \* given by --tfaCode or the session
    /\ method = "BASIC"
    /\ outcome = "none" /\ accepted = FALSE /\ rejections = 0
    /\ prompts = 0 /\ changes = 0

Next ==
    \/ Start \/ Receive \/ End
    \/ Verify \/ Clear \/ Login
    \/ AskPassword \/ SetupTFA

\* The handlers that send requests without a deadline: the login options, the
\* current tenant and the setup of TFA.  Only LoginUsingOAuth2 has a timeout.
AwaitsServer == pc \in {"start", "Verify", "TFASetup"}

\* LoginUsingOAuth2 ends by its timeout, and the user is taken to answer a prompt
\* or to cancel it.  Nothing is assumed of the other requests.
Spec == Init /\ [][Next]_loginVars /\ WF_loginVars(~AwaitsServer /\ Next)

-----------------------------------------------------------------------------
(***************************************************************************)
(* Properties                                                              *)
(***************************************************************************)

\* The type invariant; the channel has capacity one.
TypeOK ==
    /\ options \in LoginOptions
    /\ pc \in {"start", "receive", "done"} \cup Handlers
    /\ state \in {<<>>} \cup {<<s>> : s \in LoginState}
    /\ err \in {NoError, OtherError}
    /\ attempts \in Nat /\ authorized \in BOOLEAN /\ tfaRequired \in BOOLEAN
    /\ tfaCode \in BOOLEAN /\ method \in {"BASIC", "OAUTH2_INTERNAL"}
    /\ outcome \in {"none"} \cup LoginState
    /\ accepted \in BOOLEAN /\ rejections \in Nat
    /\ prompts \in Nat /\ changes \in 0..MaxChanges

\* The goroutine that reads the channel is the one that writes to it, so it
\* must find a state when it reads and room when it writes.  It does, unless
\* BASIC is the only option, for which login sends nothing (c8ylogin.go:384).
NeverBlocks ==
    /\ pc = "receive" /\ options # "basic" => state # <<>>
    /\ pc \in Handlers => state = <<>>

\* A login that ends in the state "Authorized" without an error was accepted by
\* the server, with credentials that were neither cleared nor refused since
\* (c8ylogin.go:290-446).
SuccessMeansAccepted ==
    pc = "done" /\ outcome = "Auth" /\ err = NoError => accepted

\* Nobody confirms a login with the stored password, so it must not be repeated
\* until the account is locked: changes of the strategy apart, at most three are
\* refused (c8ylogin.go:351-374).  Codes that are typed are not counted.
RefusalsBounded == attempts - changes <= 3

\* A TFA code that was refused twice is not used again (c8ylogin.go:99-105).
CodeReplaced == rejections <= 2

\* A login does not repeat what was refused until the account is locked.
RefusalsAreHeeded == RefusalsBounded /\ CodeReplaced

\* How far the login has come in its round: a round leads from the check of what
\* there is to a new login, and what the server or the user refuses leads back.
Stage(s) ==
    CASE s = "start" -> 0
      [] s = "Unknown" -> 1
      [] s = "Verify" -> 3
      [] s \in {"PromptPassword", "TFASetup", "NoAuth"} -> 5
      [] s \in {"TFAConfirm", "Login"} -> 7
      [] s \in {"Auth", "Abort"} -> 9
      [] OTHER -> 11

loginStage ==
    IF pc = "receive"
    THEN IF state = <<>> THEN 10 ELSE Stage(Head(state))
    ELSE Stage(pc) + (IF pc \in Handlers THEN 1 ELSE 0)

loginProgress == 12 * (attempts + prompts) + loginStage

\* No way leads back to an earlier state of the login but through a refusal that
\* login counts or a prompt that the user answered: no circle of the states is
\* free, whatever the server answers (c8ylogin.go:354, where it starts again).
NoFreeCircle == [][loginProgress < loginProgress']_loginVars

\* And both are bounded, the refusals by the limit and the changes of the strategy.
CirclesBounded ==
    loginProgress \in 0..(12 * (3 + MaxChanges + MaxPrompts) + 11)

\* The login ends although it goes in circles, as after a refusal all is cleared
\* and checked anew, unless a request without a deadline is never answered
\* (c8ylogin.go:200, 398, 465, 517, 541).  (A tenant with only BASIC may block it.)
Termination == []<>~AwaitsServer => <>(pc = "done" \/ options = "basic")

-----------------------------------------------------------------------------
(***************************************************************************)
(* The inductive invariant behind the theorems of LoginProofs.             *)
(***************************************************************************)

\* The channel holds a state only while the driver is about to receive it.
ChannelEmpty == pc # "receive" => state = <<>>

\* The login is over, or the next state ends it.
Ending == pc \in {"Abort", "Auth", "done"} \/ state \in {<<"Abort">>, <<"Auth">>}

\* Strengthens RefusalsBounded: while it goes on there is a refusal to spare.
RefusalToSpare == attempts - changes <= 2 \/ Ending

\* Strengthens CodeReplaced: a second refusal leads to Clear, which drops it.
SecondRefusal ==
    /\ rejections <= attempts
    /\ rejections > 0 => tfaRequired
    /\ rejections = 2 => Ending \/ pc = "Unknown" \/ state = <<"Unknown">>

\* Strengthens SuccessMeansAccepted: what authorizes the client was accepted, and
\* a later refusal leads to Clear or is returned.
AcceptedUntilRefused ==
    /\ authorized => pc # "start" /\ method = "OAUTH2_INTERNAL"
    /\ authorized => accepted \/ pc \in {"NoAuth", "Auth", "done"} \/ state \in {<<"NoAuth">>, <<"Auth">>}
    /\ (pc = "Auth" \/ state = <<"Auth">>) /\ err = NoError => accepted

LInv ==
    /\ TypeOK /\ NeverBlocks /\ SuccessMeansAccepted /\ RefusalsBounded /\ CodeReplaced
    /\ ChannelEmpty /\ AcceptedUntilRefused /\ RefusalToSpare /\ SecondRefusal
=============================================================================
