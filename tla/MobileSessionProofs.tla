------------------------ MODULE MobileSessionProofs ------------------------
(***************************************************************************)
(* Proofs about MobileSession, for any set of PINs, any number of tokens   *)
(* and attempts and any number of requests that fail.                      *)
(***************************************************************************)
EXTENDS MobileSession, SequenceTheorems, TLAPS

Jobs == {"none", "setup", "change"}
Screens == AppScreens \cup {"login", "setup-pin", "unlock"}
Awaiting == {"unlock", "home", "quiet"}
-----------------------------------------------------------------------------
(* Types.                                                                  *)

\* TypeOK in four parts.
StoreType ==
  /\ login \in Seq(Tokens) /\ Len(login) <= MaxTokens
  /\ usable \subseteq DOMAIN login
  /\ access \in {"none", "fresh", "stale"}
  /\ refresh \in Stored \cup {Nothing}
  /\ verifier \in Key \cup {NoKey}

PageType ==
  /\ screen \in AppScreens \cup {"login", "setup-pin", "unlock"}
  /\ locked \in BOOLEAN /\ inside \in BOOLEAN
  /\ sessionPin \in Pins \cup {NoPin}
  /\ fails \in 0..MaxAttempts - 1
  /\ checking \in [pin : Pins \cup {NoPin}, right : BOOLEAN]
  /\ callers \subseteq {"unlock", "home", "quiet"}

FlightType ==
  /\ rotation \in [at : {"idle", "opening", "asked", "answered", "sealing"},
                   token : Tokens \cup {NoToken}, pin : Pins \cup {NoPin}, key : Key \cup {NoKey},
                   answer : {"none", "pair", "ended", "failed"}]
  /\ keying \in [job : {"none", "setup", "change"}, at : {"idle", "hashing", "sealing"},
                 pin : Pins \cup {NoPin}, token : Tokens \cup {NoToken}, key : Key \cup {NoKey}]
  /\ sent \in BOOLEAN
  /\ signIn \in Tokens \cup {NoToken}
  /\ signOut \in Tokens \cup {NoToken}

NoteTypes ==
  /\ mishaps \subseteq {"lost", "rekeyed", "wiped", "torn"}
  /\ replayed \in BOOLEAN /\ signedOut \in BOOLEAN
  /\ faults \in 0..MaxFaults

\* What the handlers under way have in hand.
Shape ==
  /\ rotation.at = "idle" => rotation = NoRotation
  /\ rotation.at \in {"asked", "sealing"} => rotation.token \in Tokens
  /\ rotation.answer = "pair" => rotation.token \in Tokens
  /\ rotation.at = "sealing" => rotation.key \in Key
  /\ keying.at = "idle" => keying = NotKeying
  /\ keying.at # "idle" => keying.pin \in Pins /\ keying.job # "none"
  /\ keying.at = "sealing" => keying.token \in Tokens /\ keying.key \in Key

LEMMA TypeInit == Init => TypeOK /\ Shape
<1> SUFFICES ASSUME Init PROVE TypeOK /\ Shape
  OBVIOUS
<1>1. login \in Seq(Tokens) /\ Len(login) <= MaxTokens /\ usable \subseteq DOMAIN login
  BY SessionAssumption, EmptySeq DEF Init
<1>2. fails \in 0..MaxAttempts - 1 /\ faults \in 0..MaxFaults
  BY SessionAssumption DEF Init
<1>3. TypeOK
  BY <1>1, <1>2 DEF Init, TypeOK, AppScreens, NoKey, NoToken, NotChecking, NoRotation, NotKeying
<1>4. Shape
  BY DEF Init, Shape, NoRotation, NotKeying
<1>5. QED
  BY <1>3, <1>4

\* What the end of a rotation leaves behind.
LEMMA SettleType ==
  ASSUME TypeOK, NEW outcome, Settle(outcome)
  PROVE  /\ rotation' = NoRotation
         /\ verifier' \in {verifier, NoKey}
         /\ screen' \in Screens
         /\ locked' \in BOOLEAN /\ inside' \in BOOLEAN
         /\ sessionPin' \in {sessionPin, NoPin}
         /\ callers' \subseteq Awaiting
BY DEF Settle, LoadHome, ShowLoginScreen, TypeOK, Screens, AppScreens, Awaiting, pageVars

LEMMA FaultType == ASSUME TypeOK, Fault PROVE faults' \in 0..MaxFaults
BY SessionAssumption DEF Fault, TypeOK

LEMMA NoteType ==
  ASSUME TypeOK, NEW happened, NEW what \in {"lost", "rekeyed", "wiped", "torn"},
         Note(happened, what)
  PROVE  mishaps' \subseteq {"lost", "rekeyed", "wiped", "torn"} /\ mishaps \subseteq mishaps'
BY DEF Note, TypeOK

LEMMA KeyFacts ==
  /\ \A k \in Key : k # NoKey
  /\ NoToken \notin Tokens
  /\ Nothing \notin Stored
  /\ \A r \in Stored : r # Nothing
BY SessionAssumption DEF Key, NoKey, NoToken, Tokens, Nothing, Stored

LEMMA NoRotationType ==
  NoRotation \in [at : {"idle", "opening", "asked", "answered", "sealing"},
                  token : Tokens \cup {NoToken}, pin : Pins \cup {NoPin}, key : Key \cup {NoKey},
                  answer : {"none", "pair", "ended", "failed"}]
BY DEF NoRotation

\* A rotation that has begun: its token is sent, or has to be opened first.
Begun ==
  rotation' \in {[NoRotation EXCEPT !.at = "asked", !.token = refresh.token, !.pin = sessionPin],
                 [NoRotation EXCEPT !.at = "opening",
                    !.token = IF Opens THEN refresh.token ELSE NoToken, !.pin = sessionPin]}

LEMMA BegunFacts ==
  ASSUME TypeOK, refresh # Nothing, Begun
  PROVE  /\ rotation'.at \in {"asked", "opening"}
         /\ rotation'.token \in {NoToken, refresh.token}
         /\ rotation'.at = "asked" => rotation'.token = refresh.token
         /\ rotation'.pin = sessionPin /\ rotation'.answer = "none" /\ rotation'.key = NoKey
         /\ refresh.token \in Tokens
         /\ rotation' \in [at : {"idle", "opening", "asked", "answered", "sealing"},
                           token : Tokens \cup {NoToken}, pin : Pins \cup {NoPin},
                           key : Key \cup {NoKey},
                           answer : {"none", "pair", "ended", "failed"}]
<1>1. refresh.token \in Tokens
  BY DEF TypeOK, Stored
<1>2. sessionPin \in Pins \cup {NoPin}
  BY DEF TypeOK
<1>3. CASE rotation' = [NoRotation EXCEPT !.at = "asked", !.token = refresh.token,
                                         !.pin = sessionPin]
  BY <1>1, <1>2, <1>3, NoRotationType DEF NoRotation
<1>4. CASE rotation' = [NoRotation EXCEPT !.at = "opening",
                          !.token = IF Opens THEN refresh.token ELSE NoToken, !.pin = sessionPin]
  BY <1>1, <1>2, <1>4, NoRotationType DEF NoRotation
<1>5. QED
  BY <1>3, <1>4 DEF Begun

\* A salt that is nowhere in use can be drawn.
LEMMA NewVerifierType ==
  ASSUME TypeOK, NEW pin \in Pins
  PROVE  NewVerifier(pin) \in Key /\ NewVerifier(pin).pin = pin
<1>1. /\ verifier.salt \in Salts \cup {0} /\ refresh.key.salt \in Salts \cup {0}
      /\ rotation.key.salt \in Salts \cup {0} /\ keying.key.salt \in Salts \cup {0}
  BY DEF TypeOK, Key, NoKey, Stored, Nothing
<1>2. \A a, b, c, d \in Salts \cup {0} : \E s \in Salts \ {0} : s \notin {a, b, c, d}
  BY SessionAssumption
<1>3. \E s \in Salts \ {0} : s \notin SaltsInUse
  BY ONLY <1>1, <1>2, ZenonT(40) DEF SaltsInUse
<1>4. QED
  BY <1>3 DEF NewVerifier, Key

LEMMA LoadHomeType ==
  ASSUME TypeOK, NEW own, LoadHome(own)
  PROVE  /\ screen' = IF verifier' # NoKey THEN "home" ELSE "setup-pin"
         /\ inside' \in BOOLEAN
         /\ callers' \subseteq Awaiting
<1>1. /\ screen' = IF verifier' # NoKey THEN "home" ELSE "setup-pin"
      /\ inside' \in BOOLEAN
  BY DEF LoadHome, IsPinSet, TypeOK
<1>2. callers' \subseteq callers \cup {"home"}
  BY DEF LoadHome
<1>3. QED
  BY <1>1, <1>2 DEF TypeOK, Awaiting

LEMMA ForgetType ==
  ASSUME TypeOK, ForgetSession
  PROVE  /\ access' = "none" /\ refresh' = Nothing /\ verifier' = NoKey
         /\ locked' = FALSE /\ fails' = 0 /\ screen' = "login"
         /\ sessionPin' = NoPin /\ inside' = FALSE /\ signedOut' = TRUE
         /\ mishaps \subseteq mishaps'
         /\ mishaps' \subseteq {"lost", "rekeyed", "wiped", "torn"}
         /\ "wiped" \notin mishaps' => rotation = NoRotation /\ keying = NotKeying
BY NoteType DEF ForgetSession, ClearAllTokens, ClearedPin, ShowLoginScreen, Note

\* The server's tables: a login opens a family, a rotation continues one.
LEMMA AppendType ==
  ASSUME TypeOK, Len(login) < MaxTokens, NEW t \in Tokens, login' = Append(login, t)
  PROVE  /\ login' \in Seq(Tokens) /\ Len(login') = Len(login) + 1
         /\ Len(login') <= MaxTokens /\ Len(login') \in Tokens
         /\ DOMAIN login' = DOMAIN login \cup {Len(login')}
         /\ Len(login') \notin DOMAIN login
         /\ login'[Len(login')] = t
         /\ \A u \in DOMAIN login : login'[u] = login[u]
<1>1. login \in Seq(Tokens) /\ Len(login) \in Nat /\ MaxTokens \in Nat
  BY LenProperties, SessionAssumption DEF TypeOK
<1>2. /\ login' \in Seq(Tokens) /\ Len(login') = Len(login) + 1
      /\ login'[Len(login')] = t
      /\ \A u \in 1..Len(login) : login'[u] = login[u]
  BY <1>1, AppendProperties
<1>3. DOMAIN login = 1..Len(login) /\ DOMAIN login' = 1..Len(login')
  BY <1>1, <1>2, LenProperties
<1>4. QED
  BY <1>1, <1>2, <1>3 DEF Tokens

LEMMA TypeStep == TypeOK /\ Shape /\ [Next]_vars => TypeOK'
<1> SUFFICES ASSUME TypeOK, Shape, [Next]_vars PROVE TypeOK'
  OBVIOUS
<1> USE DEF serverVars, storeVars, pageVars, unlockVars, requestVars, noteVars
<1>1. CASE RotateSession
  <2>1. access' \in {"none", "fresh", "stale"} /\ refresh' \in {refresh, Nothing}
    BY <1>1 DEF RotateSession, ClearAllTokens, TypeOK
  <2>2. mishaps' \subseteq {"lost", "rekeyed", "wiped", "torn"}
    BY <1>1, NoteType DEF RotateSession, TypeOK
  <2>3. CASE \E outcome : Settle(outcome)
    BY <1>1, <2>1, <2>2, <2>3, SettleType, NoRotationType
    DEF RotateSession, TypeOK, Screens, Awaiting
  <2>4. CASE ~\E outcome : Settle(outcome)
    <3>1. /\ refresh # Nothing /\ Begun
          /\ UNCHANGED <<callers, verifier, screen, locked, sessionPin, inside>>
      BY <1>1, <2>4 DEF RotateSession, Begun
    <3>3. rotation' \in [at : {"idle", "opening", "asked", "answered", "sealing"},
                         token : Tokens \cup {NoToken}, pin : Pins \cup {NoPin},
                         key : Key \cup {NoKey}, answer : {"none", "pair", "ended", "failed"}]
      BY <3>1, BegunFacts
    <3>4. QED
      BY <1>1, <2>1, <2>2, <3>1, <3>3 DEF RotateSession, TypeOK
  <2>5. QED
    BY <2>3, <2>4
<1>23. CASE RotationOpened
  <2>1. CASE Settle("failed")
    BY <1>23, <2>1, SettleType, NoRotationType DEF RotationOpened, TypeOK, Screens, Awaiting
  <2>2. CASE rotation' = [rotation EXCEPT !.at = "asked"]
             /\ UNCHANGED <<callers, verifier, screen, locked, sessionPin, inside>>
    BY <1>23, <2>2 DEF RotationOpened, TypeOK
  <2>3. QED
    BY <1>23, <2>1, <2>2 DEF RotationOpened
<1>2. ASSUME NEW a \in {"pair", "ended", "failed"}, NEW t \in Tokens \cup {NoToken}, Answer(a, t)
      PROVE  rotation' \in [at : {"idle", "opening", "asked", "answered", "sealing"},
                            token : Tokens \cup {NoToken}, pin : Pins \cup {NoPin},
                            key : Key \cup {NoKey}, answer : {"none", "pair", "ended", "failed"}]
  BY <1>2 DEF Answer, TypeOK
<1>3. CASE ServerRefresh
  <2>1. CASE rotation.token \in usable /\ Len(login) < MaxTokens
    <3>1. login[rotation.token] \in Tokens
      BY <2>1, ElementOfSeq, LenProperties DEF TypeOK
    <3>2. login' = Append(login, login[rotation.token])
          /\ usable' = (usable \ {rotation.token}) \cup {Len(login')}
      BY <1>3, <2>1 DEF ServerRefresh
    <3>3. /\ login' \in Seq(Tokens) /\ Len(login') <= MaxTokens /\ Len(login') \in Tokens
          /\ usable' \subseteq DOMAIN login'
      BY <2>1, <3>1, <3>2, AppendType DEF TypeOK
    <3>4. /\ faults' \in 0..MaxFaults
          /\ mishaps' \subseteq {"lost", "rekeyed", "wiped", "torn"}
          /\ \E a \in {"pair", "failed"}, t \in {Len(login'), NoToken} : Answer(a, t)
      BY <1>3, <2>1, FaultType, NoteType DEF ServerRefresh, TypeOK
    <3>5. rotation' \in [at : {"idle", "opening", "asked", "answered", "sealing"},
                         token : Tokens \cup {NoToken}, pin : Pins \cup {NoPin},
                         key : Key \cup {NoKey}, answer : {"none", "pair", "ended", "failed"}]
      BY <1>2, <3>3, <3>4
    <3>6. replayed' = replayed
      BY <1>3, <2>1 DEF ServerRefresh
    <3>7. QED
      BY <1>3, <3>3, <3>4, <3>5, <3>6 DEF ServerRefresh, TypeOK
  <2>2. CASE rotation.token \notin usable
    <3>1. /\ usable' \subseteq usable /\ Answer("ended", NoToken)
          /\ UNCHANGED <<login, faults, mishaps>>
          /\ replayed' \in BOOLEAN
      BY <1>3, <2>2 DEF ServerRefresh, TypeOK, Replaced
    <3>2. QED
      BY <1>2, <1>3, <3>1 DEF ServerRefresh, TypeOK
  <2>3. QED
    BY <1>3, <2>1, <2>2 DEF ServerRefresh
<1>4. CASE RefreshFails
  <2>1. faults' \in 0..MaxFaults
    BY <1>4, FaultType DEF RefreshFails, TypeOK
  <2>2. QED
    BY <1>2, <1>4, <2>1 DEF RefreshFails, TypeOK
<1>5. CASE RotationAnswered
  <2>1. mishaps' \subseteq {"lost", "rekeyed", "wiped", "torn"}
    BY <1>5, NoteType DEF RotationAnswered, TypeOK
  <2>2. access' \in {"none", "fresh", "stale"} /\ refresh' \in Stored \cup {Nothing}
    <3>1. rotation.token = NoToken => SavedToken = Nothing
      BY DEF SavedToken, Nothing
    <3>2. SavedToken \in Stored \cup {Nothing}
      BY <3>1 DEF SavedToken, Stored, TypeOK
    <3>3. QED
      BY <1>5, <3>2 DEF RotationAnswered, ClearAllTokens, TypeOK
  <2>3. CASE \E outcome : Settle(outcome)
    BY <1>5, <2>1, <2>2, <2>3, SettleType, NoRotationType
    DEF RotationAnswered, TypeOK, Screens, Awaiting
  <2>4. CASE ~\E outcome : Settle(outcome)
    <3>1. /\ rotation.pin # NoPin /\ verifier # NoKey
          /\ rotation' = [rotation EXCEPT !.at = "sealing",
                            !.key = [pin |-> rotation.pin, salt |-> verifier.salt]]
          /\ UNCHANGED <<callers, verifier, screen, locked, sessionPin, inside>>
      BY <1>5, <2>4 DEF RotationAnswered
    <3>2. [pin |-> rotation.pin, salt |-> verifier.salt] \in Key
      BY <3>1 DEF TypeOK, Key
    <3>3. rotation' \in [at : {"idle", "opening", "asked", "answered", "sealing"},
                         token : Tokens \cup {NoToken}, pin : Pins \cup {NoPin},
                         key : Key \cup {NoKey}, answer : {"none", "pair", "ended", "failed"}]
      BY <3>1, <3>2 DEF TypeOK
    <3>4. QED
      BY <1>5, <2>1, <2>2, <3>1, <3>3 DEF RotationAnswered, TypeOK
  <2>5. QED
    BY <2>3, <2>4
<1>6. CASE RotationSealed
  <2>1. PICK outcome : Settle(outcome)
    BY <1>6 DEF RotationSealed
  <2>2. refresh' \in Stored
    BY <1>6 DEF RotationSealed, Shape, Stored, TypeOK
  <2>3. QED
    BY <1>6, <2>1, <2>2, SettleType, NoRotationType
    DEF RotationSealed, TypeOK, Screens, Awaiting
<1>7. CASE OpenHome \/ ShowChangePinScreen \/ LockAppForResume
  <2>1. CASE OpenHome
    <3>1. screen' \in {"home", "setup-pin"} /\ inside' \in BOOLEAN /\ callers' \subseteq Awaiting
      BY <2>1, LoadHomeType DEF OpenHome
    <3>2. QED
      BY <2>1, <3>1 DEF OpenHome, TypeOK, AppScreens, Awaiting
  <2>2. CASE ShowChangePinScreen
    BY <2>2 DEF ShowChangePinScreen, TypeOK, AppScreens
  <2>3. CASE LockAppForResume
    BY <2>3 DEF LockAppForResume, TypeOK, AppScreens
  <2>4. QED
    BY <1>7, <2>1, <2>2, <2>3
<1>8. CASE EnsureFreshAccess \/ FetchAuth \/ Unauthorized \/ AccessExpires
  <2>1. CASE EnsureFreshAccess \/ Unauthorized
    <3>1. callers' \subseteq {"unlock", "home", "quiet"} /\ sent' \in BOOLEAN
      BY <2>1 DEF EnsureFreshAccess, Unauthorized, TypeOK
    <3>2. CASE EnsureFreshAccess
      BY <3>1, <3>2 DEF EnsureFreshAccess, TypeOK
    <3>3. CASE Unauthorized
      BY <3>1, <3>3 DEF Unauthorized, TypeOK
    <3>4. QED
      BY <2>1, <3>2, <3>3
  <2>2. CASE AccessExpires
    BY <2>2 DEF AccessExpires, TypeOK
  <2>3. CASE FetchAuth
    BY <2>3 DEF FetchAuth, TypeOK
  <2>4. QED
    BY <1>8, <2>1, <2>2, <2>3
<1>9. ASSUME NEW pin \in Pins, EnterPin(pin) PROVE TypeOK'
  <2>1. mishaps' \subseteq {"lost", "rekeyed", "wiped", "torn"}
    BY <1>9, NoteType DEF EnterPin
  <2>2. checking' \in [pin : Pins \cup {NoPin}, right : BOOLEAN]
    BY <1>9 DEF EnterPin
  <2>3. QED
    BY <1>9, <2>1, <2>2 DEF EnterPin, TypeOK
<1>10. CASE UnlockPin
  <2>1. checking' \in [pin : Pins \cup {NoPin}, right : BOOLEAN]
    BY <1>10 DEF UnlockPin, NotChecking
  <2>0. 0 \in 0..MaxAttempts - 1
    BY SessionAssumption
  <2>2. CASE ForgetSession /\ UNCHANGED callers
    <3>1. UNCHANGED <<serverVars, rotation, keying, requestVars, replayed, faults, callers>>
      BY <1>10, <2>2 DEF UnlockPin
    <3>2. StoreType'
      BY <2>0, <2>1, <2>2, <3>1, ForgetType DEF TypeOK, StoreType
    <3>3. PageType'
      BY <2>0, <2>1, <2>2, <3>1, ForgetType DEF TypeOK, PageType
    <3>4. FlightType'
      BY <2>0, <2>1, <2>2, <3>1, ForgetType DEF TypeOK, FlightType
    <3>5. NoteTypes'
      BY <2>0, <2>1, <2>2, <3>1, ForgetType DEF TypeOK, NoteTypes
    <3>6. QED
      BY <3>2, <3>3, <3>4, <3>5
      DEF TypeOK, StoreType, PageType, FlightType, NoteTypes
  <2>3. CASE UNCHANGED <<storeVars, screen, locked, inside, signedOut, mishaps>>
    <3>1. fails' \in 0..MaxAttempts - 1
      <4>1. fails \in 0..MaxAttempts - 1 /\ MaxAttempts \in Nat
        BY SessionAssumption DEF TypeOK
      <4>2. fails' = 0 \/ (fails + 1 # MaxAttempts /\ fails' = fails + 1)
        BY <1>10 DEF UnlockPin, LastAttempt, ForgetSession
      <4>3. QED
        BY <2>0, <4>1, <4>2
    <3>2. sessionPin' \in Pins \cup {NoPin}
      BY <1>10, <2>3 DEF UnlockPin, TypeOK, ForgetSession, ShowLoginScreen
    <3>3. callers' \subseteq {"unlock", "home", "quiet"}
      BY <1>10 DEF UnlockPin, TypeOK
    <3>4. QED
      BY <1>10, <2>1, <2>3, <3>1, <3>2, <3>3 DEF UnlockPin, TypeOK
  <2>4. QED
    BY <1>10, <2>2, <2>3 DEF UnlockPin
<1>11. ASSUME NEW pin \in Pins, SetupPin(pin) \/ ChangePin(pin) PROVE TypeOK'
  <2>1. PICK job \in {"setup", "change"}, token \in Tokens \cup {NoToken} :
          StartKeying(job, pin, token)
    BY <1>11 DEF SetupPin, ChangePin, TypeOK, Stored, Nothing
  <2>2. mishaps' \subseteq {"lost", "rekeyed", "wiped", "torn"}
    BY <2>1, NoteType DEF StartKeying
  <2>3. keying' \in [job : {"none", "setup", "change"}, at : {"idle", "hashing", "sealing"},
                     pin : Pins \cup {NoPin}, token : Tokens \cup {NoToken}, key : Key \cup {NoKey}]
    BY <2>1 DEF StartKeying
  <2>4. QED
    BY <2>1, <2>2, <2>3 DEF StartKeying, TypeOK
<1>12. NotKeying \in [job : {"none", "setup", "change"}, at : {"idle", "hashing", "sealing"},
                      pin : Pins \cup {NoPin}, token : Tokens \cup {NoToken}, key : Key \cup {NoKey}]
  BY DEF NotKeying
<1>13. CASE PinHashed
  <2>1. verifier' \in Key
    BY <1>13, NewVerifierType DEF PinHashed, Shape
  <2>2. CASE Keyed
    <3>1. /\ keying' = NotKeying /\ sessionPin' \in Pins
          /\ screen' \in {"home", "setup-pin"} /\ inside' \in BOOLEAN
          /\ callers' \subseteq Awaiting
      BY <1>13, <2>2, LoadHomeType DEF Keyed, PinHashed, Shape
    <3>2. QED
      BY <1>12, <1>13, <2>1, <3>1 DEF PinHashed, TypeOK, AppScreens, Awaiting
  <2>3. CASE ~Keyed
    <3>1. /\ keying' = [keying EXCEPT !.at = "sealing", !.token = TokenToSeal, !.key = verifier']
          /\ UNCHANGED <<sessionPin, screen, inside, callers>>
      BY <1>13, <2>3 DEF PinHashed
    <3>2. TokenToSeal \in Tokens \cup {NoToken}
      BY DEF TokenToSeal, TypeOK, Stored, Nothing
    <3>3. keying' \in [job : {"none", "setup", "change"}, at : {"idle", "hashing", "sealing"},
                       pin : Pins \cup {NoPin}, token : Tokens \cup {NoToken},
                       key : Key \cup {NoKey}]
      BY <2>1, <3>1, <3>2 DEF TypeOK
    <3>4. QED
      BY <1>13, <2>1, <3>1, <3>3 DEF PinHashed, TypeOK
  <2>4. QED
    BY <2>2, <2>3
<1>14. CASE TokenSealed
  <2>1. refresh' \in Stored
    BY <1>14 DEF TokenSealed, Shape, Stored
  <2>2. /\ keying' = NotKeying /\ sessionPin' \in Pins
        /\ screen' \in {"home", "setup-pin"} /\ inside' \in BOOLEAN
        /\ callers' \subseteq Awaiting
    BY <1>14, LoadHomeType DEF Keyed, TokenSealed, Shape
  <2>3. QED
    BY <1>12, <1>14, <2>1, <2>2 DEF TokenSealed, TypeOK, AppScreens, Awaiting
<1>15. CASE SignIn
  <2>1. signIn' \in Tokens /\ signIn' = Len(login) + 1
    BY <1>15, LenProperties, SessionAssumption DEF SignIn, Tokens, TypeOK
  <2>2. /\ login' \in Seq(Tokens) /\ Len(login') <= MaxTokens
        /\ usable' \subseteq DOMAIN login'
    BY <1>15, <2>1, AppendType DEF SignIn, TypeOK
  <2>3. QED
    BY <1>15, <2>1, <2>2 DEF SignIn, TypeOK
<1>16. CASE SignedIn
  <2>1. refresh' \in Stored
    BY <1>16 DEF SignedIn, Stored, TypeOK
  <2>2. screen' \in {"home", "setup-pin"} /\ inside' \in BOOLEAN /\ callers' \subseteq Awaiting
    BY <1>16, LoadHomeType DEF SignedIn
  <2>3. /\ signIn' = NoToken /\ access' = "fresh" /\ signedOut' = FALSE
        /\ UNCHANGED <<verifier, serverVars, locked, sessionPin, fails, checking,
                       rotation, keying, sent, signOut, mishaps, replayed, faults>>
    BY <1>16 DEF SignedIn
  <2>4. StoreType'
    BY <2>1, <2>2, <2>3 DEF TypeOK, StoreType, AppScreens, Awaiting
  <2>5. PageType'
    BY <2>1, <2>2, <2>3 DEF TypeOK, PageType, AppScreens, Awaiting
  <2>6. FlightType'
    BY <2>1, <2>2, <2>3 DEF TypeOK, FlightType, AppScreens, Awaiting
  <2>7. NoteTypes'
    BY <2>1, <2>2, <2>3 DEF TypeOK, NoteTypes, AppScreens, Awaiting
  <2>8. QED
    BY <2>4, <2>5, <2>6, <2>7
    DEF TypeOK, StoreType, PageType, FlightType, NoteTypes
<1>17. 0 \in 0..MaxAttempts - 1
  BY SessionAssumption
<1>18. CASE SignOut
  <2>1. CASE ForgetSession
    <3>1. /\ UNCHANGED <<serverVars, unlockVars, keying, sent, signIn, replayed, faults>>
          /\ signOut' = signOut \/ signOut' = refresh.token
      BY <1>18 DEF SignOut
    <3>2. refresh.token \in Tokens \cup {NoToken}
      BY DEF TypeOK, Stored, Nothing
    <3>3. StoreType'
      BY <1>17, <2>1, <3>1, <3>2, ForgetType DEF TypeOK, StoreType
    <3>4. PageType'
      BY <1>17, <2>1, <3>1, <3>2, ForgetType DEF TypeOK, PageType
    <3>5. FlightType'
      BY <1>17, <2>1, <3>1, <3>2, ForgetType DEF TypeOK, FlightType
    <3>6. NoteTypes'
      BY <1>17, <2>1, <3>1, <3>2, ForgetType DEF TypeOK, NoteTypes
    <3>7. QED
      BY <3>3, <3>4, <3>5, <3>6
      DEF TypeOK, StoreType, PageType, FlightType, NoteTypes
  <2>2. CASE ~ForgetSession
    <3>1. refresh.token \in Tokens
      BY <1>18, <2>2 DEF SignOut, TypeOK, Stored
    <3>2. /\ signOut' = refresh.token /\ inside' = FALSE
          /\ UNCHANGED <<storeVars, screen, locked, sessionPin, fails, mishaps, signedOut,
                         serverVars, unlockVars, keying, sent, signIn, replayed, faults>>
      BY <1>18, <2>2 DEF SignOut
    <3>3. StoreType'
      BY <3>1, <3>2 DEF TypeOK, StoreType
    <3>4. PageType'
      BY <3>1, <3>2 DEF TypeOK, PageType
    <3>5. FlightType'
      BY <3>1, <3>2 DEF TypeOK, FlightType
    <3>6. NoteTypes'
      BY <3>1, <3>2 DEF TypeOK, NoteTypes
    <3>7. QED
      BY <3>3, <3>4, <3>5, <3>6
      DEF TypeOK, StoreType, PageType, FlightType, NoteTypes
  <2>3. QED
    BY <2>1, <2>2
<1>19. CASE SignedOut
  <2>1. faults' \in 0..MaxFaults /\ usable' \subseteq usable
    BY <1>19, FaultType DEF SignedOut, TypeOK
  <2>2. QED
    <3>1. /\ signOut' = NoToken /\ ForgetSession
          /\ UNCHANGED <<login, unlockVars, keying, sent, signIn, replayed>>
      BY <1>19 DEF SignedOut
    <3>2. StoreType'
      BY <1>17, <2>1, <3>1, ForgetType DEF TypeOK, StoreType
    <3>3. PageType'
      BY <1>17, <2>1, <3>1, ForgetType DEF TypeOK, PageType
    <3>4. FlightType'
      BY <1>17, <2>1, <3>1, ForgetType DEF TypeOK, FlightType
    <3>5. NoteTypes'
      BY <1>17, <2>1, <3>1, ForgetType DEF TypeOK, NoteTypes
    <3>6. QED
      BY <3>2, <3>3, <3>4, <3>5
      DEF TypeOK, StoreType, PageType, FlightType, NoteTypes
<1>20. CASE Reload
  <2>1. mishaps' \subseteq {"lost", "rekeyed", "wiped", "torn"}
    BY <1>20 DEF Reload, TypeOK
  <2>2. /\ screen' \in {"login", "setup-pin", "unlock"}
        /\ locked' = FALSE /\ sessionPin' = NoPin /\ fails' = 0 /\ inside' = FALSE
        /\ checking' = NotChecking /\ callers' = {} /\ rotation' = NoRotation
        /\ keying' = NotKeying /\ sent' = FALSE /\ signIn' = NoToken /\ signOut' = NoToken
        /\ UNCHANGED <<serverVars, storeVars, replayed, signedOut, faults>>
    BY <1>20 DEF Reload
  <2>3. NotChecking \in [pin : Pins \cup {NoPin}, right : BOOLEAN]
    BY DEF NotChecking
  <2>4. StoreType'
    BY <1>12, <1>17, <2>1, <2>2, <2>3, NoRotationType DEF TypeOK, StoreType
  <2>5. PageType'
    BY <1>12, <1>17, <2>1, <2>2, <2>3, NoRotationType DEF TypeOK, PageType
  <2>6. FlightType'
    <3>1. rotation' = NoRotation /\ keying' = NotKeying
      BY <2>2
    <3>2. sent' \in BOOLEAN /\ signIn' \in Tokens \cup {NoToken} /\ signOut' \in Tokens \cup {NoToken}
      BY <2>2
    <3>3. QED
      BY <1>12, <3>1, <3>2, NoRotationType DEF FlightType
  <2>7. NoteTypes'
    BY <1>12, <1>17, <2>1, <2>2, <2>3, NoRotationType DEF TypeOK, NoteTypes
  <2>8. QED
    BY <2>4, <2>5, <2>6, <2>7
    DEF TypeOK, StoreType, PageType, FlightType, NoteTypes
<1>21. CASE SessionEnds \/ UNCHANGED vars
  <2>1. /\ UNCHANGED <<login, storeVars, pageVars, unlockVars, keying, requestVars,
                        noteVars, faults>>
        /\ usable' \in {usable, {}}
    BY <1>21 DEF SessionEnds, vars
  <2>2. usable' \subseteq DOMAIN login
    BY <2>1 DEF TypeOK
  <2>3. StoreType' /\ NoteTypes'
    BY <2>1, <2>2 DEF TypeOK, StoreType, NoteTypes
  <2>4. PageType' /\ FlightType'
    BY <2>1 DEF TypeOK, PageType, FlightType
  <2>5. QED
    BY <2>3, <2>4 DEF TypeOK, StoreType, PageType, FlightType, NoteTypes
<1>22. QED
  BY <1>1, <1>3, <1>4, <1>5, <1>6, <1>7, <1>8, <1>9, <1>10, <1>11, <1>13, <1>14,
     <1>15, <1>16, <1>18, <1>19, <1>20, <1>21, <1>23
  DEF Next, Rotation, Screen, Pin, Account

\* The steps that touch neither a rotation nor a keying.
LEMMA FlightsKept ==
  ASSUME [Next]_vars
  PROVE  /\ Rotation \/ Reload \/ UNCHANGED rotation
         /\ \/ Reload \/ PinHashed \/ TokenSealed \/ UNCHANGED keying
            \/ \E pin \in Pins : SetupPin(pin) \/ ChangePin(pin)
<1> USE DEF serverVars, storeVars, pageVars, unlockVars, requestVars, noteVars
<1>1. CASE Rotation
  BY <1>1 DEF Rotation, RotateSession, RotationOpened, ServerRefresh, RefreshFails,
     RotationAnswered, RotationSealed
<1>2. CASE Screen
  BY <1>2 DEF Screen, OpenHome, ShowChangePinScreen, LockAppForResume,
     EnsureFreshAccess, FetchAuth, Unauthorized, AccessExpires
<1>3. ASSUME NEW pin \in Pins, EnterPin(pin) \/ UnlockPin PROVE UNCHANGED <<rotation, keying>>
  BY <1>3 DEF EnterPin, UnlockPin
<1>4. ASSUME NEW pin \in Pins, SetupPin(pin) \/ ChangePin(pin) PROVE UNCHANGED rotation
  BY <1>4 DEF SetupPin, ChangePin, StartKeying
<1>5. ASSUME UnlockPin PROVE UNCHANGED <<rotation, keying>>
  BY <1>5 DEF UnlockPin
<1>6. ASSUME PinHashed \/ TokenSealed PROVE UNCHANGED rotation
  BY <1>6 DEF PinHashed, TokenSealed
<1>7. ASSUME SignIn \/ SignedIn \/ SignOut \/ SignedOut \/ SessionEnds
      PROVE  UNCHANGED <<rotation, keying>>
  BY <1>7 DEF SignIn, SignedIn, SignOut, SignedOut, SessionEnds
<1>8. CASE UNCHANGED vars
  BY <1>8 DEF vars
<1>9. QED
  BY <1>1, <1>2, <1>3, <1>4, <1>5, <1>6, <1>7, <1>8 DEF Next, Pin, Account

\* What a step of the rotation does to it.
LEMMA RotationMoves ==
  ASSUME TypeOK, Shape, Rotation
  PROVE  \/ rotation' = NoRotation
         \/ RotateSession /\ Calling /\ refresh # Nothing /\ Begun
         \/ /\ RotationOpened /\ rotation.at = "opening" /\ rotation.token # NoToken
            /\ rotation' = [rotation EXCEPT !.at = "asked"]
         \/ /\ ServerRefresh \/ RefreshFails
            /\ rotation.at = "asked"
            /\ \/ ServerRefresh /\ Answer("pair", Len(login')) /\ rotation.token \in usable
               \/ \E a \in {"ended", "failed"} : Answer(a, NoToken)
         \/ /\ RotationAnswered /\ rotation.at = "answered" /\ rotation.answer = "pair"
            /\ rotation.pin # NoPin /\ verifier # NoKey
            /\ rotation' = [rotation EXCEPT !.at = "sealing",
                              !.key = [pin |-> rotation.pin, salt |-> verifier.salt]]
<1>1. CASE RotateSession
  BY <1>1 DEF RotateSession, Settle, Begun
<1>6. CASE RotationOpened
  BY <1>6 DEF RotationOpened, Settle
<1>2. CASE ServerRefresh \/ RefreshFails
  BY <1>2 DEF ServerRefresh, RefreshFails
<1>3. CASE RotationAnswered
  BY <1>3 DEF RotationAnswered, Settle
<1>4. CASE RotationSealed
  BY <1>4 DEF RotationSealed, Settle
<1>5. QED
  BY <1>1, <1>2, <1>3, <1>4, <1>6 DEF Rotation

LEMMA ShapeStep == TypeOK /\ Shape /\ [Next]_vars => Shape'
<1> SUFFICES ASSUME TypeOK, Shape, [Next]_vars PROVE Shape'
  OBVIOUS
<1> DEFINE RotationShape ==
      /\ rotation.at = "idle" => rotation = NoRotation
      /\ rotation.at \in {"asked", "sealing"} => rotation.token \in Tokens
      /\ rotation.answer = "pair" => rotation.token \in Tokens
      /\ rotation.at = "sealing" => rotation.key \in Key
    KeyingShape ==
      /\ keying.at = "idle" => keying = NotKeying
      /\ keying.at # "idle" => keying.pin \in Pins /\ keying.job # "none"
      /\ keying.at = "sealing" => keying.token \in Tokens /\ keying.key \in Key
<1>1. RotationShape'
  <2>1. CASE Rotation
    <3>1. CASE rotation' = NoRotation
      BY <3>1 DEF NoRotation
    <3>2. CASE refresh # Nothing /\ Begun
      BY <3>2, BegunFacts
    <3>7. CASE /\ rotation.at = "opening" /\ rotation.token # NoToken
               /\ rotation' = [rotation EXCEPT !.at = "asked"]
      BY <3>7 DEF TypeOK, Shape
    <3>3. CASE ServerRefresh /\ Answer("pair", Len(login')) /\ rotation.token \in usable
      <4>1. Len(login') \in Tokens
        <5>1. rotation.token \in DOMAIN login /\ Len(login) < MaxTokens
              /\ login' = Append(login, login[rotation.token])
          BY <3>3 DEF ServerRefresh, TypeOK
        <5>2. login[rotation.token] \in Tokens
          BY <5>1, ElementOfSeq, LenProperties DEF TypeOK
        <5>3. QED
          BY <5>1, <5>2, AppendType
      <4>2. QED
        BY <3>3, <4>1 DEF Answer, TypeOK
    <3>4. ASSUME NEW a \in {"ended", "failed"}, Answer(a, NoToken) PROVE RotationShape'
      BY <3>4 DEF Answer, TypeOK
    <3>5. CASE /\ RotationAnswered /\ rotation.at = "answered" /\ rotation.answer = "pair"
               /\ rotation.pin # NoPin /\ verifier # NoKey
               /\ rotation' = [rotation EXCEPT !.at = "sealing",
                                 !.key = [pin |-> rotation.pin, salt |-> verifier.salt]]
      BY <3>5 DEF Shape, TypeOK, Key
    <3>6. QED
      BY <2>1, <3>1, <3>2, <3>3, <3>4, <3>5, <3>7, RotationMoves
  <2>2. CASE Reload
    BY <2>2 DEF Reload, NoRotation
  <2>3. CASE UNCHANGED rotation
    BY <2>3 DEF Shape
  <2>4. QED
    BY <2>1, <2>2, <2>3, FlightsKept
<1>2. KeyingShape'
  <2>1. ASSUME NEW pin \in Pins, SetupPin(pin) \/ ChangePin(pin) PROVE KeyingShape'
    BY <2>1 DEF SetupPin, ChangePin, StartKeying
  <2>2. CASE PinHashed
    <3>1. NewVerifier(keying.pin) \in Key
      BY <2>2, NewVerifierType DEF PinHashed, Shape
    <3>2. CASE keying' = NotKeying
      BY <3>2 DEF NotKeying
    <3>3. CASE /\ TokenToSeal # NoToken
               /\ keying' = [keying EXCEPT !.at = "sealing", !.token = TokenToSeal,
                                           !.key = verifier']
      <4>1. TokenToSeal \in Tokens
        BY <3>3 DEF TokenToSeal, TypeOK, Stored, Nothing
      <4>2. QED
        BY <2>2, <3>1, <3>3, <4>1 DEF PinHashed, Shape, TypeOK
    <3>4. QED
      BY <2>2, <3>2, <3>3 DEF PinHashed, Keyed
  <2>3. CASE TokenSealed \/ Reload
    BY <2>3 DEF TokenSealed, Keyed, Reload, NotKeying
  <2>4. CASE UNCHANGED keying
    BY <2>4 DEF Shape
  <2>5. QED
    BY <2>1, <2>2, <2>3, <2>4, FlightsKept
<1>3. QED
  BY <1>1, <1>2 DEF Shape

\* Whatever runs into whatever, the storage and the handlers keep their types.
THEOREM TypeCorrect == Spec => [](TypeOK /\ Shape)
<1>1. TypeOK /\ Shape /\ [Next]_vars => (TypeOK /\ Shape)'
  BY TypeStep, ShapeStep
<1>2. QED
  BY <1>1, TypeInit, PTL DEF Spec
-----------------------------------------------------------------------------
(* What a logout clears.                                                   *)

\* Signed out, with nothing under way at that moment that could write later.  An
\* unlock that ends behind the logout finds no token and forgets the PIN again.
Forgotten ==
  signedOut /\ "wiped" \notin mishaps =>
    /\ refresh = Nothing /\ verifier = NoKey
    /\ rotation = NoRotation /\ keying = NotKeying
    /\ screen = "login" /\ ~inside
    /\ callers \subseteq {"unlock", "quiet"}
    /\ "unlock" \notin callers => sessionPin = NoPin

\* The mishaps of a run only grow.
LEMMA MishapsStay == ASSUME TypeOK, [Next]_vars PROVE mishaps \subseteq mishaps'
<1> USE DEF serverVars, storeVars, pageVars, unlockVars, requestVars, noteVars
<1>1. ASSUME NEW happened, NEW what, Note(happened, what) PROVE mishaps \subseteq mishaps'
  BY <1>1 DEF Note
<1>2. CASE Rotation
  BY <1>1, <1>2
  DEF Rotation, RotateSession, RotationOpened, ServerRefresh, RefreshFails,
     RotationAnswered, RotationSealed
<1>3. CASE Screen
  BY <1>3 DEF Screen, OpenHome, ShowChangePinScreen, LockAppForResume,
     EnsureFreshAccess, FetchAuth, Unauthorized, AccessExpires
<1>4. CASE Pin
  BY <1>1, <1>4 DEF Pin, EnterPin, SetupPin, ChangePin, StartKeying, UnlockPin, ForgetSession,
     PinHashed, TokenSealed
<1>5. CASE Account
  BY <1>1, <1>5 DEF Account, SignIn, SignedIn, SignOut, SignedOut, ForgetSession, Reload, SessionEnds
<1>6. CASE UNCHANGED vars
  BY <1>6 DEF vars
<1>7. QED
  BY <1>2, <1>3, <1>4, <1>5, <1>6 DEF Next

LEMMA ForgottenStep == TypeOK /\ Forgotten /\ [Next]_vars => Forgotten'
<1> SUFFICES ASSUME TypeOK, Forgotten, [Next]_vars, signedOut', "wiped" \notin mishaps'
             PROVE  Forgotten'
  BY DEF Forgotten
<1> USE DEF serverVars, storeVars, pageVars, unlockVars, requestVars, noteVars
<1>1. "wiped" \notin mishaps
  BY MishapsStay
<1>2. ASSUME ForgetSession, Idle, UNCHANGED <<rotation, keying, callers>> PROVE Forgotten'
  BY <1>2, ForgetType DEF Idle, Calling, Forgotten
<1>3. CASE UnlockPin
  <2>1. CASE ForgetSession /\ UNCHANGED callers
    BY <1>2, <1>3, <2>1 DEF UnlockPin
  <2>2. CASE /\ UNCHANGED <<storeVars, screen, locked, inside, signedOut, mishaps>>
             /\ UNCHANGED <<rotation, keying>>
             /\ \/ callers' = callers \cup {"unlock"}
                \/ UNCHANGED <<callers, sessionPin>>
    BY <1>1, <2>2 DEF Forgotten
  <2>3. QED
    BY <1>3, <2>1, <2>2 DEF UnlockPin
<1>4. CASE SignOut
  BY <1>1, <1>2, <1>4 DEF SignOut, Forgotten
<1>5. CASE SignedOut
  BY <1>2, <1>5 DEF SignedOut
<1>6. CASE SignedIn
  BY <1>6 DEF SignedIn
<1>7. ASSUME UNCHANGED signedOut
      PROVE  /\ refresh = Nothing /\ verifier = NoKey
             /\ rotation = NoRotation /\ keying = NotKeying
             /\ rotation.at = "idle" /\ keying.at = "idle"
             /\ screen = "login" /\ ~inside
             /\ callers \subseteq {"unlock", "quiet"}
             /\ "unlock" \notin callers => sessionPin = NoPin
  <2>1. rotation = NoRotation /\ keying = NotKeying
    BY <1>1, <1>7 DEF Forgotten
  <2>2. QED
    BY <1>1, <1>7, <2>1 DEF Forgotten, NoRotation, NotKeying
<1>8. CASE Rotation
  <2>1. UNCHANGED signedOut
    BY <1>8 DEF Rotation, RotateSession, RotationOpened, ServerRefresh, RefreshFails,
     RotationAnswered, RotationSealed
  <2>2. /\ refresh = Nothing /\ keying = NotKeying /\ callers \subseteq {"unlock", "quiet"}
        /\ rotation.at = "idle" /\ verifier = NoKey /\ screen = "login" /\ ~inside
        /\ "unlock" \notin callers => sessionPin = NoPin
    BY <1>7, <2>1
  <2>3. RotateSession
    BY <1>8, <2>2 DEF Rotation, RotationOpened, ServerRefresh, RefreshFails, RotationAnswered, RotationSealed
  <2>4. UNCHANGED keying
    BY <2>3 DEF RotateSession
  <2>5. Settle("gone") /\ refresh' = Nothing
    BY <2>2, <2>3 DEF RotateSession, ClearAllTokens
  <2>6. /\ rotation' = NoRotation /\ callers' = {}
        /\ verifier' = NoKey /\ screen' = "login" /\ ~inside' /\ sessionPin' = NoPin
    BY <2>2, <2>5 DEF Settle, ShowLoginScreen
  <2>7. QED
    BY <2>2, <2>4, <2>5, <2>6 DEF Forgotten
<1>9. CASE Screen
  <2>1. UNCHANGED signedOut
    BY <1>9 DEF Screen, OpenHome, ShowChangePinScreen, LockAppForResume,
     EnsureFreshAccess, FetchAuth, Unauthorized, AccessExpires
  <2>2. AccessExpires \/ Unauthorized
    BY <1>7, <1>9, <2>1
    DEF Screen, OpenHome, ShowChangePinScreen, LockAppForResume, EnsureFreshAccess, FetchAuth,
        AppScreens
  <2>3. QED
    BY <1>1, <2>2 DEF AccessExpires, Unauthorized, Forgotten
<1>10. CASE Pin
  <2>1. CASE PinHashed \/ TokenSealed
    <3>1. UNCHANGED signedOut
      BY <2>1 DEF PinHashed, TokenSealed
    <3>2. keying.at = "idle"
      BY <1>7, <3>1
    <3>3. QED
      BY <2>1, <3>2 DEF PinHashed, TokenSealed
  <2>2. ASSUME NEW pin \in Pins, EnterPin(pin) \/ SetupPin(pin) \/ ChangePin(pin) PROVE FALSE
    BY <1>7, <2>2 DEF EnterPin, SetupPin, ChangePin, StartKeying
  <2>3. QED
    BY <1>3, <1>10, <2>1, <2>2 DEF Pin
<1>11. CASE SignIn \/ SessionEnds
  BY <1>1, <1>11 DEF SignIn, SessionEnds, Forgotten
<1>12. CASE Reload
  BY <1>7, <1>12 DEF Reload, Forgotten
<1>13. CASE UNCHANGED vars
  BY <1>1, <1>13 DEF vars, Forgotten
<1>14. QED
  BY <1>4, <1>5, <1>6, <1>8, <1>9, <1>10, <1>11, <1>12, <1>13 DEF Next, Account

\* What a logout or a lockout clears stays cleared until the next login, also when an
\* unlock, the 401 of an old request or a login is under way, unless a rotation or a
\* new PIN was under way as it was cleared: these do store tokens again.
THEOREM LogoutFinal == Spec => []LogoutForgets
<1>1. Init => Forgotten
  BY DEF Init, Forgotten
<1>2. Forgotten => LogoutForgets
  BY DEF Forgotten, LogoutForgets, Idle, Calling
<1>3. QED
  BY <1>1, <1>2, ForgottenStep, TypeCorrect, PTL DEF Spec
-----------------------------------------------------------------------------
(* Who is sent to the login screen.                                        *)

\* Every token the client holds was issued.
Issued ==
  /\ refresh.token \in DOMAIN login \cup {NoToken}
  /\ rotation.token \in DOMAIN login \cup {NoToken}
  /\ keying.token \in DOMAIN login \cup {NoToken}
  /\ signIn \in DOMAIN login \cup {NoToken}

Related(t) == t = NoToken \/ (refresh # Nothing /\ login[t] = login[refresh.token])

\* No login is submitted beside a new PIN.
OneForm == keying = NotKeying \/ signIn = NoToken

\* The tokens that a rotation and a new PIN carry belong to the session that is
\* stored, and no rotation runs without one; the login screen means that none is
\* stored; and an end that the server has told is the end of the stored session.
Linked ==
  /\ screen = "login" => refresh = Nothing
  /\ signIn # NoToken => screen = "login"
  /\ rotation # NoRotation => refresh # Nothing
  /\ Related(rotation.token)
  /\ Related(keying.token)
  /\ rotation.answer = "ended" => Family(refresh.token) \cap usable = {}

LEMMA IssuedStep == TypeOK /\ Shape /\ Issued /\ [Next]_vars => Issued'
<1> SUFFICES ASSUME TypeOK, Shape, Issued, [Next]_vars PROVE Issued'
  OBVIOUS
<1> USE DEF serverVars, storeVars, pageVars, unlockVars, requestVars, noteVars
<1>1. CASE RotateSession
  <2>1. UNCHANGED <<login, keying, signIn>> /\ refresh' \in {refresh, Nothing}
    BY <1>1 DEF RotateSession, ClearAllTokens
  <2>2. rotation' = NoRotation \/ (refresh # Nothing /\ Begun)
    BY <1>1 DEF RotateSession, Settle, Begun
  <2>3. rotation'.token \in {NoToken, refresh.token}
    BY <2>2, BegunFacts DEF NoRotation
  <2>4. QED
    BY <2>1, <2>3 DEF Issued, Nothing
<1>19. CASE RotationOpened
  <2>1. UNCHANGED <<login, refresh, keying, signIn>>
    BY <1>19 DEF RotationOpened
  <2>2. rotation'.token \in {NoToken, rotation.token}
    BY <1>19, SettleType DEF RotationOpened, NoRotation, TypeOK
  <2>3. QED
    BY <2>1, <2>2 DEF Issued
<1>2. ASSUME NEW a, NEW t, Answer(a, t) PROVE rotation'.token = t
  BY <1>2 DEF Answer, TypeOK
<1>3. CASE ServerRefresh
  <2>1. UNCHANGED <<refresh, keying, signIn>>
    BY <1>3 DEF ServerRefresh
  <2>2. CASE rotation.token \in usable /\ Len(login) < MaxTokens
    <3>1. login[rotation.token] \in Tokens
      BY <2>2, ElementOfSeq, LenProperties DEF TypeOK
    <3>2. DOMAIN login' = DOMAIN login \cup {Len(login')}
      BY <1>3, <2>2, <3>1, AppendType DEF ServerRefresh
    <3>3. rotation'.token \in {Len(login'), NoToken}
      BY <1>2, <1>3, <2>2 DEF ServerRefresh
    <3>4. QED
      BY <2>1, <3>2, <3>3 DEF Issued
  <2>3. CASE rotation.token \notin usable
    BY <1>2, <1>3, <2>1, <2>3 DEF ServerRefresh, Issued
  <2>4. QED
    BY <1>3, <2>2, <2>3 DEF ServerRefresh
<1>4. CASE RefreshFails
  BY <1>2, <1>4 DEF RefreshFails, Issued
<1>5. CASE RotationAnswered
  <2>1. UNCHANGED <<login, keying, signIn>>
    BY <1>5 DEF RotationAnswered
  <2>2. refresh'.token \in {refresh.token, rotation.token, NoToken}
    BY <1>5 DEF RotationAnswered, SavedToken, ClearAllTokens, Nothing
  <2>3. rotation' \in {NoRotation, [rotation EXCEPT !.at = "sealing",
                          !.key = [pin |-> rotation.pin, salt |-> verifier.salt]]}
    BY <1>5 DEF RotationAnswered, Settle
  <2>4. rotation'.token \in {rotation.token, NoToken}
    <3>1. NoRotation.token = NoToken
      BY DEF NoRotation
    <3>2. [rotation EXCEPT !.at = "sealing",
             !.key = [pin |-> rotation.pin, salt |-> verifier.salt]].token = rotation.token
      BY DEF TypeOK
    <3>3. QED
      BY <2>3, <3>1, <3>2
  <2>5. QED
    BY <2>1, <2>2, <2>4 DEF Issued
<1>6. CASE RotationSealed
  <2>1. UNCHANGED <<login, keying, signIn>> /\ refresh'.token = rotation.token
    BY <1>6 DEF RotationSealed
  <2>2. rotation'.token = NoToken
    BY <1>6, SettleType DEF RotationSealed, NoRotation
  <2>3. QED
    BY <2>1, <2>2 DEF Issued
<1>7. CASE Screen
  BY <1>7 DEF Screen, OpenHome, ShowChangePinScreen, LockAppForResume,
     EnsureFreshAccess, FetchAuth, Unauthorized, AccessExpires, Issued
<1>8. ASSUME NEW pin \in Pins, EnterPin(pin) PROVE Issued'
  BY <1>8 DEF EnterPin, Issued
<1>9. ASSUME NEW pin \in Pins, SetupPin(pin) \/ ChangePin(pin) PROVE Issued'
  <2>1. UNCHANGED <<login, refresh, rotation, signIn>> /\ keying'.token \in {NoToken, refresh.token}
    BY <1>9 DEF SetupPin, ChangePin, StartKeying
  <2>2. QED
    BY <2>1 DEF Issued
<1>10. CASE UnlockPin
  <2>1. UNCHANGED <<login, rotation, keying, signIn>> /\ refresh' \in {refresh, Nothing}
    BY <1>10 DEF UnlockPin, ForgetSession, ClearAllTokens
  <2>2. QED
    BY <2>1 DEF Issued, Nothing
<1>11. CASE PinHashed
  <2>1. UNCHANGED <<login, refresh, rotation, signIn>>
    BY <1>11 DEF PinHashed
  <2>2. TokenToSeal \in {NoToken, keying.token, refresh.token}
    BY DEF TokenToSeal
  <2>3. keying' \in {NotKeying, [keying EXCEPT !.at = "sealing", !.token = TokenToSeal,
                                               !.key = verifier']}
    BY <1>11 DEF PinHashed, Keyed
  <2>4. keying'.token \in {NoToken, TokenToSeal}
    <3>1. NotKeying.token = NoToken
      BY DEF NotKeying
    <3>2. [keying EXCEPT !.at = "sealing", !.token = TokenToSeal,
                         !.key = verifier'].token = TokenToSeal
      BY DEF TypeOK
    <3>3. QED
      BY <2>3, <3>1, <3>2
  <2>5. QED
    BY <2>1, <2>2, <2>4 DEF Issued
<1>12. CASE TokenSealed
  <2>1. UNCHANGED <<login, rotation, signIn>> /\ refresh'.token = keying.token
        /\ keying'.token = NoToken
    BY <1>12 DEF TokenSealed, Keyed, NotKeying
  <2>2. QED
    BY <2>1 DEF Issued
<1>13. CASE SignIn
  <2>1. Len(login) + 1 \in Tokens
    BY <1>13, SessionAssumption, LenProperties DEF SignIn, TypeOK, Tokens
  <2>2. DOMAIN login' = DOMAIN login \cup {Len(login')} /\ Len(login') = Len(login) + 1
    BY <1>13, <2>1, AppendType DEF SignIn
  <2>3. QED
    BY <1>13, <2>2 DEF SignIn, Issued
<1>14. CASE SignedIn
  BY <1>14 DEF SignedIn, Issued
<1>15. CASE SignOut \/ SignedOut
  <2>1. UNCHANGED <<login, rotation, keying, signIn>> /\ refresh' \in {refresh, Nothing}
    BY <1>15 DEF SignOut, SignedOut, ForgetSession, ClearAllTokens
  <2>2. QED
    BY <2>1 DEF Issued, Nothing
<1>16. CASE Reload
  BY <1>16 DEF Reload, Issued, NoRotation, NotKeying
<1>17. CASE SessionEnds \/ UNCHANGED vars
  BY <1>17 DEF SessionEnds, vars, Issued
<1>18. QED
  BY <1>1, <1>3, <1>4, <1>5, <1>6, <1>7, <1>8, <1>9, <1>10, <1>11, <1>12, <1>13, <1>14,
     <1>15, <1>16, <1>17, <1>19 DEF Next, Rotation, Pin, Account

LEMMA OneFormStep == TypeOK /\ Shape /\ OneForm /\ [Next]_vars => OneForm'
<1> SUFFICES ASSUME TypeOK, Shape, OneForm, [Next]_vars PROVE OneForm'
  OBVIOUS
<1> USE DEF serverVars, storeVars, pageVars, unlockVars, requestVars, noteVars
<1>1. CASE Rotation
  BY <1>1 DEF Rotation, RotateSession, RotationOpened, ServerRefresh, RefreshFails,
     RotationAnswered, RotationSealed, OneForm
<1>2. CASE Screen
  BY <1>2 DEF Screen, OpenHome, ShowChangePinScreen, LockAppForResume,
     EnsureFreshAccess, FetchAuth, Unauthorized, AccessExpires, OneForm
<1>3. ASSUME NEW pin \in Pins, EnterPin(pin) \/ SetupPin(pin) \/ ChangePin(pin) PROVE OneForm'
  BY <1>3 DEF EnterPin, SetupPin, ChangePin, StartKeying, Unsubmitted, OneForm
<1>4. CASE UnlockPin
  BY <1>4 DEF UnlockPin, OneForm
<1>5. CASE PinHashed \/ TokenSealed
  <2>1. keying.at # "idle"
    BY <1>5 DEF PinHashed, TokenSealed
  <2>2. signIn = NoToken
    BY <2>1 DEF OneForm, NotKeying
  <2>3. QED
    BY <1>5, <2>2 DEF PinHashed, TokenSealed, OneForm
<1>6. CASE SignIn
  BY <1>6 DEF SignIn, Unsubmitted, OneForm
<1>7. CASE SignedIn \/ SignOut \/ SignedOut
  BY <1>7 DEF SignedIn, SignOut, SignedOut, OneForm
<1>8. CASE Reload \/ SessionEnds \/ UNCHANGED vars
  BY <1>8 DEF Reload, SessionEnds, vars, OneForm
<1>9. QED
  BY <1>1, <1>2, <1>3, <1>4, <1>5, <1>6, <1>7, <1>8 DEF Next, Pin, Account

\* Steps that leave the stored token and the rotation alone.
LEMMA QuietLinked ==
  ASSUME Linked, UNCHANGED <<login, refresh, rotation>>, usable' \subseteq usable,
         screen' = "login" => screen = "login" \/ refresh = Nothing,
         signIn' # NoToken => screen' = "login",
         keying'.token \in {NoToken, keying.token, refresh.token}
  PROVE  Linked'
<1>1. refresh = Nothing => refresh.token = NoToken
  BY DEF Nothing
<1>2. Related(keying.token)'
  BY <1>1 DEF Linked, Related
<1>3. QED
  BY <1>2 DEF Linked, Related, Family

\* Steps after which nothing is stored and nothing is under way.
LEMMA ResetLinked ==
  ASSUME refresh' = Nothing, rotation' = NoRotation, keying'.token = NoToken,
         signIn' # NoToken => screen' = "login"
  PROVE  Linked'
BY DEF Linked, Related, NoRotation

\* Where LoadHome leads to.
LEMMA HomeScreen == ASSUME NEW own, LoadHome(own) PROVE screen' \in {"home", "setup-pin"}
BY DEF LoadHome

LEMMA SettleScreen ==
  ASSUME NEW outcome, Settle(outcome)
  PROVE  /\ rotation' = NoRotation
         /\ screen' \in {screen, "home", "setup-pin", "unlock", "login"}
         /\ outcome \notin {"ended", "gone"} /\ screen' = "login" => screen = "login"
BY HomeScreen DEF Settle, ShowLoginScreen, pageVars

LEMMA LinkedRotation ==
  TypeOK /\ Shape /\ Issued /\ Linked /\ Rotation /\ "wiped" \notin mishaps' => Linked'
<1> SUFFICES ASSUME TypeOK, Shape, Issued, Linked, Rotation, "wiped" \notin mishaps'
             PROVE  Linked'
  OBVIOUS
<1> USE DEF serverVars, storeVars, pageVars, unlockVars, requestVars, noteVars
<1>1. ASSUME refresh # Nothing
      PROVE  refresh.token \in DOMAIN login /\ screen # "login" /\ signIn = NoToken
  BY <1>1, KeyFacts DEF Issued, Linked, TypeOK, Stored
<1>2. UNCHANGED <<keying, signIn>>
  BY DEF Rotation, RotateSession, RotationOpened, ServerRefresh, RefreshFails,
     RotationAnswered, RotationSealed
<1>3. CASE RotateSession
  <2>1. CASE refresh = Nothing
    <3>1. refresh' = Nothing /\ Settle("gone")
      BY <1>3, <2>1 DEF RotateSession, ClearAllTokens
    <3>2. rotation' = NoRotation /\ (screen = "login" => screen' = "login")
      BY <3>1 DEF Settle, ShowLoginScreen
    <3>3. keying'.token = NoToken /\ (signIn' # NoToken => screen' = "login")
      BY <1>2, <2>1, <3>2 DEF Linked, Related
    <3>4. QED
      BY <3>1, <3>2, <3>3, ResetLinked
  <2>2. CASE refresh # Nothing
    <3>1. /\ UNCHANGED <<login, usable, refresh>>
          /\ screen' # "login"
      BY <1>1, <1>3, <2>2, SettleScreen DEF RotateSession
    <3>2. rotation' = NoRotation \/ Begun
      BY <1>3, <2>2 DEF RotateSession, Settle, Begun
    <3>4. rotation'.token \in {NoToken, refresh.token} /\ rotation'.answer = "none"
      BY <2>2, <3>2, BegunFacts DEF NoRotation
    <3>5. QED
      BY <1>1, <1>2, <2>2, <3>1, <3>4 DEF Linked, Related
  <2>3. QED
    BY <2>1, <2>2
<1>4. ASSUME ~RotateSession
      PROVE  /\ refresh # Nothing /\ refresh.token \in DOMAIN login
             /\ screen # "login" /\ signIn = NoToken
             /\ rotation.token # NoToken =>
                  /\ rotation.token \in DOMAIN login
                  /\ login[rotation.token] = login[refresh.token]
  <2>0. rotation.at # "idle"
    BY <1>4 DEF Rotation, RotationOpened, ServerRefresh, RefreshFails, RotationAnswered,
       RotationSealed
  <2>1. rotation # NoRotation
    BY <2>0 DEF NoRotation
  <2>2. refresh # Nothing
    BY <2>1 DEF Linked
  <2>3. QED
    BY <1>1, <2>2 DEF Linked, Related, Issued
<1>5. ASSUME NEW a, NEW t, Answer(a, t) PROVE rotation'.token = t /\ rotation'.answer = a
  BY <1>5 DEF Answer, TypeOK
<1>6. CASE ServerRefresh \/ RefreshFails
  <2>0. rotation.at = "asked"
    BY <1>6 DEF ServerRefresh, RefreshFails
  <2>1. ~RotateSession
    BY <2>0 DEF RotateSession, Calling, NoRotation
  <2>2. UNCHANGED <<refresh, screen>> /\ rotation.at = "asked" /\ rotation.token # NoToken
    BY <1>6, KeyFacts DEF ServerRefresh, RefreshFails, Shape
  <2>3. CASE rotation.token \in usable /\ Len(login) < MaxTokens /\ ServerRefresh
    <3>1. login[rotation.token] \in Tokens
      BY <2>3, ElementOfSeq, LenProperties DEF TypeOK
    <3>2. /\ login'[Len(login')] = login[rotation.token]
          /\ \A u \in DOMAIN login : login'[u] = login[u]
      BY <2>3, <3>1, AppendType DEF ServerRefresh
    <3>3. rotation'.token \in {Len(login'), NoToken} /\ rotation'.answer # "ended"
      <4>1. Answer("pair", Len(login')) \/ Answer("failed", NoToken)
        BY <2>3 DEF ServerRefresh
      <4>2. QED
        BY <1>5, <4>1
    <3>4. keying.token # NoToken =>
            keying.token \in DOMAIN login /\ login[keying.token] = login[refresh.token]
      BY DEF Linked, Related, Issued
    <3>5. Related(rotation.token)'
      BY <1>4, <2>1, <2>2, <3>2, <3>3 DEF Related
    <3>6. Related(keying.token)'
      BY <1>2, <1>4, <2>1, <2>2, <3>2, <3>4 DEF Related
    <3>7. QED
      BY <1>2, <1>4, <2>1, <2>2, <3>3, <3>5, <3>6 DEF Linked
  <2>4. CASE rotation.token \notin usable /\ ServerRefresh
    <3>1. /\ UNCHANGED login /\ usable' = usable \ Family(rotation.token)
          /\ rotation'.token = NoToken
      BY <1>5, <2>4 DEF ServerRefresh
    <3>2. Family(refresh.token) = Family(rotation.token)
      BY <1>4, <2>1, <2>2 DEF Family
    <3>3. Family(refresh.token)' \cap usable' = {}
      BY <2>2, <3>1, <3>2 DEF Family
    <3>4. QED
      BY <1>2, <1>4, <2>1, <2>2, <3>1, <3>3 DEF Linked, Related
  <2>5. CASE RefreshFails
    <3>1. UNCHANGED <<login, usable>> /\ rotation'.token = NoToken /\ rotation'.answer = "failed"
      BY <1>5, <2>5 DEF RefreshFails
    <3>2. QED
      BY <1>2, <1>4, <2>1, <2>2, <3>1 DEF Linked, Related
  <2>6. QED
    BY <1>6, <2>3, <2>4, <2>5 DEF ServerRefresh
<1>7. ASSUME UNCHANGED <<login, usable>>, refresh'.token = rotation.token, refresh' # Nothing,
             rotation.token # NoToken, screen' # "login", ~RotateSession,
             rotation'.token \in {NoToken, rotation.token}, rotation'.answer # "ended"
      PROVE  Linked'
  <2>1. login[refresh'.token] = login[refresh.token]
    BY <1>4, <1>7
  <2>2. Related(rotation.token)'
    BY <1>7 DEF Related
  <2>3. Related(keying.token)'
    BY <1>2, <1>7, <2>1 DEF Linked, Related
  <2>4. QED
    BY <1>2, <1>4, <1>7, <2>2, <2>3 DEF Linked
<1>8. CASE RotationAnswered
  <2>1. ~RotateSession /\ UNCHANGED <<login, usable>>
    BY <1>8 DEF RotationAnswered, RotateSession, Calling, NoRotation
  <2>2. CASE rotation.answer = "pair"
    <3>1. rotation.token # NoToken /\ refresh' = SavedToken
      BY <1>8, <2>2, KeyFacts DEF RotationAnswered, Shape
    <3>2. refresh'.token = rotation.token /\ refresh' # Nothing
      BY <3>1 DEF SavedToken, Nothing
    <3>3. screen' # "login"
      BY <1>4, <1>8, <2>1, <2>2, SettleScreen DEF RotationAnswered
    <3>4. rotation' \in {NoRotation, [rotation EXCEPT !.at = "sealing",
                            !.key = [pin |-> rotation.pin, salt |-> verifier.salt]]}
      BY <1>8 DEF RotationAnswered, Settle
    <3>5. /\ NoRotation.token = NoToken /\ NoRotation.answer = "none"
          /\ [rotation EXCEPT !.at = "sealing",
                !.key = [pin |-> rotation.pin, salt |-> verifier.salt]].token = rotation.token
          /\ [rotation EXCEPT !.at = "sealing",
                !.key = [pin |-> rotation.pin, salt |-> verifier.salt]].answer = rotation.answer
      BY DEF NoRotation, TypeOK
    <3>6. rotation'.token \in {NoToken, rotation.token} /\ rotation'.answer # "ended"
      BY <2>2, <3>4, <3>5
    <3>7. QED
      BY <1>7, <2>1, <3>1, <3>2, <3>3, <3>6
  <2>3. CASE rotation.answer = "ended"
    <3>1. refresh' = Nothing /\ rotation' = NoRotation /\ keying = NotKeying
      BY <1>8, <2>3, SettleScreen DEF RotationAnswered, ClearAllTokens, Note
    <3>2. QED
      BY <1>2, <1>4, <2>1, <3>1, ResetLinked DEF NotKeying
  <2>4. CASE rotation.answer = "failed"
    <3>1. UNCHANGED <<refresh, screen>> /\ rotation' = NoRotation
      BY <1>8, <2>4 DEF RotationAnswered, FailedOutcome, Settle
    <3>2. QED
      BY <1>2, <1>4, <2>1, <3>1 DEF Linked, Related, NoRotation
  <2>5. QED
    BY <1>8, <2>2, <2>3, <2>4 DEF RotationAnswered
<1>9. CASE RotationSealed
  <2>1. ~RotateSession /\ UNCHANGED <<login, usable>>
    BY <1>9 DEF RotationSealed, RotateSession, Calling, NoRotation
  <2>2. rotation.token # NoToken /\ refresh' = [token |-> rotation.token, key |-> rotation.key]
    BY <1>9, KeyFacts DEF RotationSealed, Shape
  <2>3. refresh'.token = rotation.token /\ refresh' # Nothing
    BY <2>2 DEF Nothing
  <2>4. rotation' = NoRotation /\ screen' # "login"
    BY <1>4, <1>9, <2>1, SettleScreen DEF RotationSealed
  <2>5. QED
    BY <1>7, <2>1, <2>2, <2>3, <2>4 DEF NoRotation
<1>11. CASE RotationOpened
  <2>1. ~RotateSession /\ UNCHANGED <<login, usable, refresh>> /\ rotation.at = "opening"
    BY <1>11 DEF RotationOpened, RotateSession, Calling, NoRotation
  <2>2. screen' # "login"
    BY <1>4, <1>11, <2>1, SettleScreen DEF RotationOpened
  <2>3. \/ rotation' = NoRotation
        \/ rotation'.token = rotation.token /\ rotation'.answer = rotation.answer
    BY <1>11, SettleScreen DEF RotationOpened, TypeOK
  <2>4. refresh # Nothing /\ UNCHANGED <<keying, signIn>> /\ signIn = NoToken
    BY <1>2, <1>4, <2>1
  <2>5. rotation'.token = NoToken \/ login'[rotation'.token] = login'[refresh'.token]
    BY <2>1, <2>3 DEF Linked, Related, NoRotation
  <2>6. keying'.token = NoToken \/ login'[keying'.token] = login'[refresh'.token]
    BY <2>1, <2>4 DEF Linked, Related
  <2>7. rotation'.answer = "ended" => Family(refresh.token) \cap usable = {}
    BY <2>3 DEF Linked, NoRotation
  <2>8. (Family(refresh.token) \cap usable)' = Family(refresh.token) \cap usable
    BY <2>1 DEF Family
  <2>9. QED
    BY <2>1, <2>2, <2>4, <2>5, <2>6, <2>7, <2>8 DEF Linked, Related
<1>10. QED
  BY <1>3, <1>6, <1>8, <1>9, <1>11 DEF Rotation

LEMMA LinkedForget ==
  ASSUME OneForm, ForgetSession, UNCHANGED <<rotation, keying>>, "wiped" \notin mishaps'
  PROVE  Linked'
<1>1. refresh' = Nothing /\ screen' = "login" /\ rotation = NoRotation /\ keying = NotKeying
  BY DEF ForgetSession, ClearAllTokens, ShowLoginScreen, Note
<1>2. QED
  BY <1>1, ResetLinked DEF NotKeying

LEMMA LinkedStep ==
  TypeOK /\ Shape /\ Issued /\ OneForm /\ Linked /\ [Next]_vars /\ "wiped" \notin mishaps'
    => Linked'
<1> SUFFICES ASSUME TypeOK, Shape, Issued, OneForm, Linked, [Next]_vars, "wiped" \notin mishaps'
             PROVE  Linked'
  OBVIOUS
<1> USE DEF serverVars, storeVars, pageVars, unlockVars, requestVars, noteVars
<1>1. refresh # Nothing => screen # "login" /\ signIn = NoToken
  BY DEF Linked
<1>2. signIn # NoToken => screen = "login" /\ refresh = Nothing /\ rotation = NoRotation
  BY DEF Linked
<1>3. CASE Rotation
  BY <1>3, LinkedRotation
<1>4. CASE Screen
  <2>1. UNCHANGED <<login, usable, refresh, rotation, keying, signIn>>
    BY <1>4 DEF Screen, OpenHome, ShowChangePinScreen, LockAppForResume,
     EnsureFreshAccess, FetchAuth, Unauthorized, AccessExpires
  <2>2. UNCHANGED screen \/ (screen # "login" /\ screen' # "login")
    BY <1>4, HomeScreen
    DEF Screen, OpenHome, ShowChangePinScreen, LockAppForResume,
     EnsureFreshAccess, FetchAuth, Unauthorized, AccessExpires, AppScreens
  <2>3. QED
    BY <1>2, <2>1, <2>2, QuietLinked
<1>5. ASSUME NEW pin \in Pins, EnterPin(pin) \/ SetupPin(pin) \/ ChangePin(pin) PROVE Linked'
  <2>1. UNCHANGED <<login, usable, refresh, rotation, screen, signIn>>
    BY <1>5 DEF EnterPin, SetupPin, ChangePin, StartKeying
  <2>2. UNCHANGED keying \/ keying'.token \in {NoToken, refresh.token}
    BY <1>5 DEF EnterPin, SetupPin, ChangePin, StartKeying
  <2>3. QED
    BY <1>2, <2>1, <2>2, QuietLinked
<1>6. CASE UnlockPin
  <2>1. CASE ForgetSession
    BY <1>6, <2>1, LinkedForget DEF UnlockPin
  <2>2. CASE ~ForgetSession
    <3>1. UNCHANGED <<login, usable, refresh, rotation, keying, screen, signIn>>
      BY <1>6, <2>2 DEF UnlockPin
    <3>2. QED
      BY <1>2, <3>1, QuietLinked
  <2>3. QED
    BY <2>1, <2>2
<1>7. CASE PinHashed
  <2>1. UNCHANGED <<login, usable, refresh, rotation, signIn>> /\ keying.at # "idle"
    BY <1>7 DEF PinHashed
  <2>2. signIn = NoToken
    BY <2>1 DEF OneForm, NotKeying
  <2>3. TokenToSeal \in {NoToken, keying.token, refresh.token}
    BY DEF TokenToSeal
  <2>4. \/ keying' = NotKeying /\ screen' # "login"
        \/ /\ UNCHANGED screen
           /\ keying' = [keying EXCEPT !.at = "sealing", !.token = TokenToSeal, !.key = verifier']
    BY <1>7, HomeScreen DEF PinHashed, Keyed
  <2>5. /\ NotKeying.token = NoToken
        /\ [keying EXCEPT !.at = "sealing", !.token = TokenToSeal,
                          !.key = verifier'].token = TokenToSeal
    BY DEF NotKeying, TypeOK
  <2>6. keying'.token \in {NoToken, keying.token, refresh.token}
    BY <2>3, <2>4, <2>5
  <2>7. screen' = "login" => screen = "login"
    BY <2>4
  <2>8. QED
    BY <2>1, <2>2, <2>6, <2>7, QuietLinked
<1>8. CASE TokenSealed
  <2>1. /\ UNCHANGED <<login, usable, rotation, signIn>> /\ keying.at = "sealing"
        /\ refresh' = [token |-> keying.token, key |-> keying.key]
        /\ keying' = NotKeying /\ screen' # "login"
    BY <1>8, HomeScreen DEF TokenSealed, Keyed
  <2>2. keying.token # NoToken /\ signIn = NoToken
    BY <2>1, KeyFacts DEF Shape, OneForm, NotKeying
  <2>3. refresh # Nothing /\ login[keying.token] = login[refresh.token]
    BY <2>2 DEF Linked, Related
  <2>4. refresh'.token = keying.token /\ refresh' # Nothing
    BY <2>1, <2>2 DEF Nothing
  <2>5. Related(rotation.token)'
    BY <2>1, <2>3, <2>4 DEF Linked, Related
  <2>6. Family(refresh.token)' = Family(refresh.token)
    BY <2>1, <2>3, <2>4 DEF Family
  <2>7. QED
    BY <2>1, <2>2, <2>4, <2>5, <2>6 DEF Linked, Related, NotKeying
<1>9. CASE SignIn
  <2>1. /\ screen = "login" /\ keying = NotKeying /\ rotation = NoRotation
        /\ refresh' = Nothing /\ UNCHANGED <<rotation, keying, screen>>
    BY <1>9 DEF SignIn, Unsubmitted, Linked
  <2>2. QED
    BY <2>1, ResetLinked DEF NotKeying
<1>10. CASE SignedIn
  <2>1. /\ signIn # NoToken /\ signIn' = NoToken /\ UNCHANGED <<rotation, keying>>
        /\ refresh' = [token |-> signIn, key |-> NoKey] /\ screen' # "login"
    BY <1>10, HomeScreen DEF SignedIn
  <2>2. rotation' = NoRotation /\ keying' = NotKeying
    BY <1>2, <2>1 DEF OneForm
  <2>3. refresh' # Nothing
    BY <2>1 DEF Nothing
  <2>4. QED
    BY <2>1, <2>2, <2>3 DEF Linked, Related, NoRotation, NotKeying
<1>11. CASE SignOut
  <2>1. CASE ForgetSession
    BY <1>11, <2>1, LinkedForget DEF SignOut
  <2>2. CASE ~ForgetSession
    <3>1. UNCHANGED <<login, usable, refresh, rotation, keying, screen, signIn>>
      BY <1>11, <2>2 DEF SignOut
    <3>2. QED
      BY <1>2, <3>1, QuietLinked
  <2>3. QED
    BY <2>1, <2>2
<1>12. CASE SignedOut
  BY <1>12, LinkedForget DEF SignedOut
<1>13. CASE Reload
  <2>1. /\ UNCHANGED <<login, usable, refresh>> /\ rotation' = NoRotation
        /\ keying' = NotKeying /\ signIn' = NoToken
        /\ screen' = "login" => refresh = Nothing
    BY <1>13 DEF Reload
  <2>2. QED
    BY <2>1 DEF Linked, Related, NoRotation, NotKeying
<1>14. CASE SessionEnds \/ UNCHANGED vars
  <2>1. UNCHANGED <<login, refresh, rotation, keying, screen, signIn>> /\ usable' \subseteq usable
    BY <1>14 DEF SessionEnds, vars
  <2>2. QED
    BY <1>2, <2>1, QuietLinked
<1>15. QED
  BY <1>3, <1>4, <1>5, <1>6, <1>7, <1>8, <1>9, <1>10, <1>11, <1>12, <1>13, <1>14
  DEF Next, Pin, Account

\* Nobody is sent to the login screen, but by signing out, while the session is
\* alive on the server: a lost answer or connection is no reason.
THEOREM ThrownOut == Spec => ThrownOutWhenOver
<1> DEFINE Inv == TypeOK /\ Shape /\ Issued /\ OneForm /\ ("wiped" \notin mishaps => Linked)
<1>1. Init => Inv
  <2>1. Init => Issued /\ OneForm /\ Linked
    BY DEF Init, Issued, OneForm, Linked, Related, Nothing, NoRotation, NotKeying
  <2>2. QED
    BY <2>1, TypeInit
<1>2. Inv /\ [Next]_vars => Inv'
  BY TypeStep, ShapeStep, IssuedStep, OneFormStep, LinkedStep, MishapsStay
<1>3. Inv /\ [Next]_vars =>
        [screen # "login" /\ screen' = "login" /\ ~signedOut' /\ "wiped" \notin mishaps =>
           refresh = Nothing \/ Family(refresh.token) \cap usable = {}]_vars
  <2> SUFFICES ASSUME TypeOK, Linked, Next,
                      screen # "login", screen' = "login", ~signedOut', refresh # Nothing
               PROVE  Family(refresh.token) \cap usable = {}
    OBVIOUS
  <2> USE DEF serverVars, storeVars, pageVars, unlockVars, requestVars, noteVars
  <2>1. ~ForgetSession
    BY DEF ForgetSession
  <2>2. CASE Rotation
    <3>0. ~Settle("pin") /\ ~Settle("failed") /\ ~Settle("pair")
      BY SettleScreen
    <3>1. /\ ~RotateSession /\ ~RotationOpened /\ ~RotationSealed
          /\ ~ServerRefresh /\ ~RefreshFails
      <4>1. ~RotateSession
        BY <3>0 DEF RotateSession
      <4>2. ~RotationSealed /\ ~RotationOpened
        BY <3>0 DEF RotationSealed, RotationOpened
      <4>3. ~ServerRefresh /\ ~RefreshFails
        BY DEF ServerRefresh, RefreshFails
      <4>4. QED
        BY <4>1, <4>2, <4>3
    <3>2. RotationAnswered
      BY <2>2, <3>1 DEF Rotation
    <3>3. rotation.answer = "ended"
      BY <3>2, SettleScreen DEF RotationAnswered, FailedOutcome
    <3>4. QED
      BY <3>3 DEF Linked
  <2>3. CASE Screen
    BY <2>3, HomeScreen
    DEF Screen, OpenHome, ShowChangePinScreen, LockAppForResume,
     EnsureFreshAccess, FetchAuth, Unauthorized, AccessExpires
  <2>4. CASE Pin
    BY <2>1, <2>4, HomeScreen DEF Pin, EnterPin, SetupPin, ChangePin, StartKeying, UnlockPin,
       PinHashed, TokenSealed, Keyed
  <2>5. CASE Account
    BY <2>1, <2>5, HomeScreen DEF Account, SignIn, SignedIn, SignOut, SignedOut, Reload, SessionEnds
  <2>6. QED
    BY <2>2, <2>3, <2>4, <2>5 DEF Next
<1>4. QED
  BY <1>1, <1>2, <1>3, PTL DEF Spec, ThrownOutWhenOver
-----------------------------------------------------------------------------
(* Which token the client shows to the server.                             *)

Newest(t) == \A u \in DOMAIN login : login[u] = login[t] => u <= t

\* The token that the storage has, or will have when the answer is read.
InHand ==
  IF rotation.at = "answered" /\ rotation.answer = "pair" THEN rotation.token ELSE refresh.token

\* No new PIN beside a rotation; a request carries the stored token, an answer the
\* newest of its family, and what a new PIN seals is what it has read.
Current ==
  /\ ~replayed
  /\ keying = NotKeying \/ rotation = NoRotation
  /\ keying.token \in {NoToken, refresh.token}
  /\ rotation.at = "opening" =>
       rotation.answer = "none" /\ rotation.token \in {NoToken, refresh.token}
  /\ rotation.at = "asked" => rotation.answer = "none" /\ rotation.token = refresh.token
  /\ rotation.at = "sealing" => rotation.answer = "pair" /\ rotation.token = refresh.token
  /\ InHand # NoToken => Newest(InHand)
  /\ signIn # NoToken => Newest(signIn)

OneLine == mishaps \cap {"lost", "rekeyed", "wiped"} = {}

\* Steps that write no token and ask nothing of the server.
LEMMA QuietCurrent ==
  ASSUME Current, UNCHANGED <<login, refresh, rotation, replayed>>,
         keying' = NotKeying \/ rotation = NoRotation,
         keying'.token \in {NoToken, refresh.token},
         signIn' \in {NoToken, signIn}
  PROVE  Current'
BY DEF Current, InHand, Newest

\* Steps after which nothing is stored and nothing is under way.
LEMMA ResetCurrent ==
  ASSUME Current, UNCHANGED <<login, replayed>>, refresh' = Nothing, rotation' = NoRotation,
         keying'.token = NoToken, signIn' \in {NoToken, signIn}
  PROVE  Current'
<1>1. NoRotation.at = "idle" /\ Nothing.token = NoToken
  BY DEF NoRotation, Nothing
<1>2. QED
  BY <1>1 DEF Current, InHand, Newest

\* The last token of the list has no successor.
LEMMA LastIsNewest ==
  ASSUME login' \in Seq(Tokens)
  PROVE  Newest(Len(login))'
<1>1. DOMAIN login' = 1..Len(login') /\ Len(login') \in Nat
  BY LenProperties
<1>2. QED
  BY <1>1 DEF Newest

LEMMA NotReplaced ==
  ASSUME TypeOK, NEW t \in DOMAIN login, Newest(t)
  PROVE  ~Replaced(t)
<1>1. DOMAIN login = 1..Len(login) /\ Len(login) \in Nat
  BY LenProperties DEF TypeOK
<1>2. QED
  BY <1>1 DEF Newest, Replaced, Family

LEMMA CurrentRotation ==
  TypeOK /\ Shape /\ Issued /\ Linked /\ Current /\ Rotation /\ OneLine' => Current'
<1> SUFFICES ASSUME TypeOK, Shape, Issued, Linked, Current, Rotation, OneLine' PROVE Current'
  OBVIOUS
<1> USE DEF serverVars, storeVars, pageVars, unlockVars, requestVars, noteVars
<1>1. UNCHANGED <<keying, signIn>>
  BY DEF Rotation, RotateSession, RotationOpened, ServerRefresh, RefreshFails,
     RotationAnswered, RotationSealed
<1>2. ASSUME rotation.at # "idle"
      PROVE  /\ signIn = NoToken /\ keying = NotKeying /\ keying'.token = NoToken
             /\ refresh # Nothing
  BY <1>1, <1>2 DEF NoRotation, NotKeying, Current, Linked
<1>3. CASE RotateSession
  <2>1. rotation = NoRotation /\ UNCHANGED <<login, replayed>>
    BY <1>3 DEF RotateSession, Calling
  <2>2. CASE refresh = Nothing
    <3>1. refresh' = Nothing /\ rotation' = NoRotation
      BY <1>3, <2>2, SettleScreen DEF RotateSession, ClearAllTokens
    <3>2. keying'.token = NoToken
      BY <1>1, <2>2 DEF Current, Nothing
    <3>3. QED
      BY <1>1, <2>1, <3>1, <3>2, ResetCurrent
  <2>3. CASE refresh # Nothing
    <3>1. UNCHANGED refresh /\ refresh.token # NoToken
      BY <1>3, <2>3, KeyFacts DEF RotateSession, TypeOK, Stored
    <3>2. CASE rotation' = NoRotation
      BY <1>1, <2>1, <3>1, <3>2, QuietCurrent DEF Current
    <3>3. CASE rotation' # NoRotation
      <4>1. Begun /\ Note(keying # NotKeying, "rekeyed")
        BY <1>3, <2>3, <3>3, SettleScreen DEF RotateSession, Begun
      <4>2. keying = NotKeying
        BY <4>1 DEF Note, OneLine
      <4>3. /\ rotation'.at \in {"asked", "opening"} /\ rotation'.answer = "none"
            /\ rotation'.token \in {NoToken, refresh.token}
            /\ rotation'.at = "asked" => rotation'.token = refresh.token
        BY <2>3, <4>1, BegunFacts
      <4>4. Newest(refresh.token)
        BY <2>1, <3>1 DEF Current, InHand, NoRotation
      <4>5. Newest(refresh.token)' /\ InHand' = refresh.token
        BY <2>1, <3>1, <4>3, <4>4 DEF Newest, InHand
      <4>6. QED
        BY <1>1, <2>1, <3>1, <4>2, <4>3, <4>5 DEF Current, Newest
    <3>4. QED
      BY <3>2, <3>3
  <2>4. QED
    BY <2>2, <2>3
<1>4. ASSUME NEW a, NEW t, Answer(a, t)
      PROVE  rotation'.at = "answered" /\ rotation'.token = t /\ rotation'.answer = a
  BY <1>4 DEF Answer, TypeOK
<1>5. CASE ServerRefresh \/ RefreshFails
  <2>1. rotation.at = "asked" /\ UNCHANGED refresh
    BY <1>5 DEF ServerRefresh, RefreshFails
  <2>2. /\ rotation.token = refresh.token /\ rotation.token \in DOMAIN login
        /\ Newest(rotation.token)
    BY <2>1, KeyFacts DEF Current, InHand, Shape, Issued
  <2>3. CASE rotation.token \in usable /\ Len(login) < MaxTokens /\ ServerRefresh
    <3>1. login[rotation.token] \in Tokens
      BY <2>3, ElementOfSeq, LenProperties DEF TypeOK
    <3>2. login' \in Seq(Tokens) /\ UNCHANGED replayed
      BY <2>3, <3>1, AppendType DEF ServerRefresh
    <3>3. Answer("pair", Len(login'))
      BY <2>3 DEF ServerRefresh, Note, OneLine
    <3>4. Newest(Len(login))'
      BY <3>2, LastIsNewest
    <3>5. /\ rotation'.at = "answered" /\ rotation'.token = Len(login')
          /\ rotation'.answer = "pair"
      BY <1>4, <3>3
    <3>6. InHand' = Len(login')
      BY <3>5 DEF InHand
    <3>7. QED
      BY <1>1, <1>2, <2>1, <3>2, <3>4, <3>5, <3>6 DEF Current
  <2>4. ASSUME UNCHANGED <<login, replayed>>, rotation'.at = "answered", rotation'.answer # "pair"
        PROVE  Current'
    <3>1. InHand' = refresh.token /\ Newest(refresh.token)'
      BY <2>1, <2>2, <2>4 DEF InHand, Newest
    <3>2. QED
      BY <1>1, <1>2, <2>1, <2>4, <3>1 DEF Current
  <2>5. CASE rotation.token \notin usable /\ ServerRefresh
    <3>1. /\ UNCHANGED login /\ Answer("ended", NoToken)
          /\ replayed' = (replayed \/ Replaced(rotation.token))
      BY <2>5 DEF ServerRefresh
    <3>2. UNCHANGED replayed
      <4>1. ~Replaced(rotation.token)
        BY <2>2, NotReplaced
      <4>2. replayed = FALSE
        BY DEF Current, TypeOK
      <4>3. QED
        BY <3>1, <4>1, <4>2
    <3>3. QED
      BY <1>4, <2>4, <3>1, <3>2
  <2>6. CASE RefreshFails
    BY <1>4, <2>4, <2>6 DEF RefreshFails
  <2>7. QED
    BY <1>5, <2>3, <2>5, <2>6 DEF ServerRefresh
<1>6. CASE RotationAnswered
  <2>1. rotation.at = "answered" /\ UNCHANGED <<login, replayed>>
    BY <1>6 DEF RotationAnswered
  <2>2. CASE rotation.answer = "pair"
    <3>1. rotation.token # NoToken /\ refresh'.token = rotation.token
      BY <1>6, <2>2, KeyFacts DEF RotationAnswered, Shape, SavedToken
    <3>2. \/ rotation' = NoRotation
          \/ rotation' = [rotation EXCEPT !.at = "sealing",
                            !.key = [pin |-> rotation.pin, salt |-> verifier.salt]]
      BY <1>6 DEF RotationAnswered, Settle
    <3>3. \/ rotation'.at = "idle"
          \/ /\ rotation'.at = "sealing" /\ rotation'.answer = "pair"
             /\ rotation'.token = rotation.token
      <4>1. CASE rotation' = NoRotation
        BY <4>1 DEF NoRotation
      <4>2. CASE rotation' # NoRotation
        BY <2>2, <3>2, <4>2 DEF TypeOK
      <4>3. QED
        BY <4>1, <4>2
    <3>4. Newest(rotation.token)
      BY <2>1, <2>2, <3>1 DEF Current, InHand
    <3>5. InHand' = refresh'.token /\ Newest(refresh.token)'
      BY <2>1, <3>1, <3>3, <3>4 DEF InHand, Newest
    <3>6. QED
      BY <1>1, <1>2, <2>1, <3>1, <3>3, <3>5 DEF Current
  <2>3. CASE rotation.answer = "ended"
    <3>1. refresh' = Nothing /\ rotation' = NoRotation
      BY <1>6, <2>3, SettleScreen DEF RotationAnswered, ClearAllTokens
    <3>2. QED
      BY <1>1, <1>2, <2>1, <3>1, ResetCurrent
  <2>4. CASE rotation.answer = "failed"
    <3>1. UNCHANGED refresh /\ rotation' = NoRotation
      BY <1>6, <2>4, SettleScreen DEF RotationAnswered
    <3>2. InHand = refresh.token /\ InHand' = refresh.token /\ rotation'.at = "idle"
      BY <2>4, <3>1 DEF InHand, NoRotation
    <3>3. QED
      BY <1>1, <1>2, <2>1, <3>1, <3>2 DEF Current, Newest
  <2>5. QED
    BY <1>6, <2>2, <2>3, <2>4 DEF RotationAnswered
<1>7. CASE RotationSealed
  <2>1. /\ rotation.at = "sealing" /\ UNCHANGED <<login, replayed>>
        /\ refresh'.token = rotation.token /\ rotation' = NoRotation
    BY <1>7, SettleScreen DEF RotationSealed
  <2>2. refresh'.token = refresh.token /\ InHand = refresh.token
    BY <2>1 DEF Current, InHand
  <2>3. InHand' = refresh.token /\ rotation'.at = "idle"
    BY <2>1, <2>2 DEF InHand, NoRotation
  <2>4. QED
    BY <1>1, <1>2, <2>1, <2>2, <2>3 DEF Current, Newest
<1>9. CASE RotationOpened
  <2>1. /\ rotation.at = "opening" /\ UNCHANGED <<login, refresh, replayed>>
        /\ keying = NotKeying
    BY <1>2, <1>9 DEF RotationOpened
  <2>2. CASE rotation' = NoRotation
    BY <1>1, <2>1, <2>2 DEF Current, InHand, Newest, NoRotation
  <2>3. CASE rotation' # NoRotation
    <3>1. rotation.token # NoToken /\ rotation' = [rotation EXCEPT !.at = "asked"]
      BY <1>9, <2>3, SettleScreen DEF RotationOpened
    <3>2. /\ rotation'.at = "asked" /\ rotation'.answer = "none"
          /\ rotation'.token = refresh.token
      BY <2>1, <3>1 DEF Current, TypeOK
    <3>3. QED
      BY <1>1, <2>1, <3>2 DEF Current, InHand, Newest
  <2>4. QED
    BY <2>2, <2>3
<1>8. QED
  BY <1>3, <1>5, <1>6, <1>7, <1>9 DEF Rotation

LEMMA CurrentStep ==
  TypeOK /\ Shape /\ Issued /\ OneForm /\ Linked /\ Current /\ [Next]_vars /\ OneLine'
    => Current'
<1> SUFFICES ASSUME TypeOK, Shape, Issued, OneForm, Linked, Current, [Next]_vars, OneLine'
             PROVE  Current'
  OBVIOUS
<1> USE DEF serverVars, storeVars, pageVars, unlockVars, requestVars, noteVars
<1>1. NotKeying.token = NoToken /\ NoRotation.at = "idle"
  BY DEF NotKeying, NoRotation
<1>2. keying = NotKeying \/ rotation = NoRotation
  BY DEF Current
<1>3. keying.token \in {NoToken, refresh.token}
  BY DEF Current
<1>4. CASE Rotation
  BY <1>4, CurrentRotation
<1>5. CASE Screen
  <2>1. UNCHANGED <<login, refresh, rotation, keying, signIn, replayed>>
    BY <1>5 DEF Screen, OpenHome, ShowChangePinScreen, LockAppForResume,
     EnsureFreshAccess, FetchAuth, Unauthorized, AccessExpires
  <2>2. QED
    BY <1>2, <1>3, <2>1, QuietCurrent
<1>6. ASSUME NEW pin \in Pins, EnterPin(pin) PROVE Current'
  <2>1. UNCHANGED <<login, refresh, rotation, keying, signIn, replayed>>
    BY <1>6 DEF EnterPin
  <2>2. QED
    BY <1>2, <1>3, <2>1, QuietCurrent
<1>7. ASSUME NEW pin \in Pins, SetupPin(pin) \/ ChangePin(pin) PROVE Current'
  <2>1. /\ UNCHANGED <<login, refresh, rotation, signIn, replayed>>
        /\ keying'.token \in {NoToken, refresh.token}
        /\ Note(rotation # NoRotation \/ checking # NotChecking, "rekeyed")
    BY <1>7 DEF SetupPin, ChangePin, StartKeying
  <2>2. rotation = NoRotation
    BY <2>1 DEF Note, OneLine
  <2>3. QED
    BY <2>1, <2>2, QuietCurrent
<1>8. ASSUME ForgetSession, UNCHANGED <<login, rotation, keying, sent, signIn, replayed>> PROVE Current'
  <2>1. refresh' = Nothing /\ rotation = NoRotation /\ keying = NotKeying
    BY <1>8 DEF ForgetSession, ClearAllTokens, Note, OneLine
  <2>2. QED
    BY <1>1, <1>8, <2>1, ResetCurrent
<1>9. CASE UnlockPin
  <2>1. UNCHANGED <<login, rotation, keying, sent, signIn, replayed>>
    BY <1>9 DEF UnlockPin
  <2>2. CASE ForgetSession
    BY <1>8, <2>1, <2>2
  <2>3. CASE ~ForgetSession
    <3>1. UNCHANGED refresh
      BY <1>9, <2>3 DEF UnlockPin
    <3>2. QED
      BY <1>2, <1>3, <2>1, <3>1, QuietCurrent
  <2>4. QED
    BY <2>2, <2>3
<1>10. CASE PinHashed
  <2>1. /\ UNCHANGED <<login, refresh, rotation, signIn, replayed>>
        /\ keying.at # "idle"
    BY <1>10 DEF PinHashed
  <2>2. rotation = NoRotation
    BY <1>2, <2>1 DEF NotKeying
  <2>3. TokenToSeal \in {NoToken, refresh.token}
    BY <1>3 DEF TokenToSeal
  <2>4. keying' \in {NotKeying, [keying EXCEPT !.at = "sealing", !.token = TokenToSeal,
                                               !.key = verifier']}
    BY <1>10 DEF PinHashed, Keyed
  <2>5. [keying EXCEPT !.at = "sealing", !.token = TokenToSeal,
                       !.key = verifier'].token = TokenToSeal
    BY DEF TypeOK
  <2>6. keying'.token \in {NoToken, refresh.token}
    BY <1>1, <2>3, <2>4, <2>5
  <2>7. QED
    BY <2>1, <2>2, <2>6, QuietCurrent
<1>11. CASE TokenSealed
  <2>1. /\ UNCHANGED <<login, rotation, signIn, replayed>> /\ keying.at = "sealing"
        /\ refresh'.token = keying.token /\ keying' = NotKeying
    BY <1>11 DEF TokenSealed, Keyed
  <2>2. keying.token # NoToken /\ rotation = NoRotation
    BY <1>2, <2>1, KeyFacts DEF Shape, NotKeying
  <2>3. refresh'.token = refresh.token
    BY <1>3, <2>1, <2>2
  <2>4. QED
    BY <1>1, <2>1, <2>2, <2>3 DEF Current, InHand, Newest
<1>12. CASE SignIn
  <2>1. /\ screen = "login" /\ keying = NotKeying /\ signIn' = Len(login) + 1
        /\ login' = Append(login, signIn') /\ Len(login) < MaxTokens
        /\ UNCHANGED <<refresh, rotation, keying, replayed>>
    BY <1>12 DEF SignIn, Unsubmitted
  <2>2. refresh = Nothing /\ rotation = NoRotation
    BY <2>1 DEF Linked
  <2>3. signIn' \in Tokens
    BY <2>1, SessionAssumption, LenProperties DEF TypeOK, Tokens
  <2>4. login' \in Seq(Tokens) /\ Len(login') = signIn'
    BY <2>1, <2>3, AppendType
  <2>5. Newest(signIn)'
    BY <2>4, LastIsNewest DEF Newest
  <2>6. InHand' = NoToken
    BY <1>1, <2>1, <2>2 DEF InHand, Nothing
  <2>7. QED
    BY <1>1, <2>1, <2>2, <2>5, <2>6 DEF Current
<1>13. CASE SignedIn
  <2>1. /\ signIn # NoToken /\ signIn' = NoToken /\ refresh'.token = signIn
        /\ UNCHANGED <<login, rotation, keying, replayed>>
    BY <1>13 DEF SignedIn
  <2>2. rotation = NoRotation /\ keying = NotKeying
    BY <2>1 DEF OneForm, Linked
  <2>3. InHand' = refresh'.token /\ Newest(refresh.token)'
    BY <1>1, <2>1, <2>2 DEF InHand, Current, Newest
  <2>4. QED
    BY <1>1, <2>1, <2>2, <2>3 DEF Current
<1>14. CASE SignOut
  <2>1. UNCHANGED <<login, rotation, keying, sent, signIn, replayed>>
    BY <1>14 DEF SignOut
  <2>2. CASE ForgetSession
    BY <1>8, <2>1, <2>2
  <2>3. CASE ~ForgetSession
    <3>1. UNCHANGED refresh
      BY <1>14, <2>3 DEF SignOut
    <3>2. QED
      BY <1>2, <1>3, <2>1, <3>1, QuietCurrent
  <2>4. QED
    BY <2>2, <2>3
<1>15. CASE SignedOut
  BY <1>8, <1>15 DEF SignedOut
<1>16. CASE Reload
  <2>1. /\ UNCHANGED <<login, refresh, replayed>> /\ rotation' = NoRotation
        /\ keying' = NotKeying /\ signIn' = NoToken
        /\ ~(rotation.at = "answered" /\ rotation.answer = "pair")
    BY <1>16 DEF Reload, OneLine
  <2>2. InHand = refresh.token /\ InHand' = refresh.token
    BY <1>1, <2>1 DEF InHand
  <2>3. QED
    BY <1>1, <2>1, <2>2 DEF Current, Newest
<1>17. CASE SessionEnds \/ UNCHANGED vars
  <2>1. UNCHANGED <<login, refresh, rotation, keying, signIn, replayed>>
    BY <1>17 DEF SessionEnds, vars
  <2>2. QED
    BY <1>2, <1>3, <2>1, QuietCurrent
<1>18. QED
  BY <1>4, <1>5, <1>6, <1>7, <1>9, <1>10, <1>11, <1>12, <1>13, <1>14, <1>15, <1>16, <1>17
  DEF Next, Pin, Account

\* The client shows the server no token that it has replaced, whatever its unlocks,
\* reloads, new PINs and logins do at a time.
THEOREM TokensOnce == Spec => []OwnTokensOnce
<1> DEFINE Inv == /\ TypeOK /\ Shape /\ Issued /\ OneForm
                  /\ "wiped" \notin mishaps => Linked
                  /\ OneLine => Current
<1>1. Init => Inv
  <2>1. Init => Issued /\ OneForm /\ Linked /\ Current
    BY DEF Init, Issued, OneForm, Linked, Related, Current, InHand, Nothing, NoRotation, NotKeying
  <2>2. QED
    BY <2>1, TypeInit
<1>2. Inv /\ [Next]_vars => Inv'
  <2> SUFFICES ASSUME Inv, [Next]_vars PROVE Inv'
    OBVIOUS
  <2>1. TypeOK' /\ Shape' /\ Issued' /\ OneForm' /\ mishaps \subseteq mishaps'
    BY TypeStep, ShapeStep, IssuedStep, OneFormStep, MishapsStay
  <2>2. "wiped" \notin mishaps' => Linked'
    BY <2>1, LinkedStep
  <2>3. OneLine' => Current'
    BY <2>1, CurrentStep DEF OneLine
  <2>4. QED
    BY <2>1, <2>2, <2>3
<1>3. Inv => OwnTokensOnce
  BY DEF Current, OneLine, OwnTokensOnce
<1>4. QED
  BY <1>1, <1>2, <1>3, PTL DEF Spec
-----------------------------------------------------------------------------
(* Which key the stored token is sealed with.                              *)

\* Nothing runs beside a new PIN; the PINs in memory, of a check that has succeeded
\* and of a rotation are the one that is set; the stored token is open or sealed with
\* it, but for the moment between a new PIN and the token sealed with that.
Keyring ==
  /\ keying = NotKeying \/ (rotation = NoRotation /\ checking = NotChecking)
  /\ keying.at = "sealing" => keying.key = verifier /\ keying.key.pin = keying.pin
  /\ keying.at # "sealing" => refresh.key \in {NoKey, verifier}
  /\ keying.at = "hashing" /\ (keying.job = "setup" \/ keying.token = NoToken)
       => refresh.key = NoKey
  /\ rotation.at = "sealing" => rotation.key = verifier
  /\ rotation.at \in {"opening", "asked", "answered"} /\ rotation.pin # NoPin /\ verifier # NoKey
       => rotation.pin = verifier.pin
  /\ sessionPin # NoPin /\ verifier # NoKey /\ keying.at # "sealing"
       => sessionPin = verifier.pin
  /\ checking.right => checking.pin = verifier.pin \/ verifier = NoKey
  /\ screen = "setup-pin" => verifier = NoKey \/ keying.at = "sealing"

InOrder == mishaps \cap {"rekeyed", "wiped", "torn"} = {}

LEMMA QuietKeyring ==
  ASSUME Keyring, UNCHANGED <<refresh, verifier, keying, rotation>>,
         sessionPin' \in {sessionPin, NoPin}, checking' \in {checking, NotChecking},
         screen' = "setup-pin" => screen = "setup-pin" \/ verifier = NoKey
  PROVE  Keyring'
<1>1. ~NotChecking.right
  BY DEF NotChecking
<1>2. QED
  BY <1>1 DEF Keyring

\* Steps that end a rotation with no new PIN under way.
LEMMA SettledKeyring ==
  ASSUME TypeOK, Keyring, NEW outcome, Settle(outcome), UNCHANGED <<keying, checking>>,
         keying = NotKeying, refresh'.key \in {NoKey, verifier'}
  PROVE  Keyring'
<1>1. /\ rotation' = NoRotation /\ verifier' \in {verifier, NoKey}
      /\ sessionPin' \in {sessionPin, NoPin}
  BY SettleType
<1>2. screen' = "setup-pin" => UNCHANGED <<screen, verifier>> \/ verifier' = NoKey
  BY DEF Settle, LoadHome, IsPinSet, ShowLoginScreen, pageVars
<1>3. keying.at = "idle" /\ NoRotation.at = "idle"
  BY DEF NotKeying, NoRotation
<1>4. QED
  BY <1>1, <1>2, <1>3 DEF Keyring

LEMMA KeyringRotation ==
  TypeOK /\ Shape /\ Keyring /\ Rotation /\ InOrder' => Keyring'
<1> SUFFICES ASSUME TypeOK, Shape, Keyring, Rotation, InOrder' PROVE Keyring'
  OBVIOUS
<1> USE DEF serverVars, storeVars, pageVars, unlockVars, requestVars, noteVars
<1>1. UNCHANGED <<keying, checking>>
  BY DEF Rotation, RotateSession, RotationOpened, ServerRefresh, RefreshFails,
     RotationAnswered, RotationSealed
<1>2. rotation.at # "idle" => keying = NotKeying
  BY DEF NoRotation, Keyring
<1>3. NoRotation.at = "idle" /\ NotKeying.at = "idle" /\ Nothing.key = NoKey
  BY DEF NoRotation, NotKeying, Nothing
<1>4. CASE RotateSession
  <2>1. rotation = NoRotation
    BY <1>4 DEF RotateSession, Calling
  <2>2. CASE refresh = Nothing
    <3>1. refresh' = refresh /\ Settle("gone")
      BY <1>4, <2>2 DEF RotateSession, ClearAllTokens
    <3>2. CASE keying = NotKeying
      BY <1>1, <1>3, <2>2, <3>1, <3>2, SettledKeyring
    <3>3. CASE keying # NotKeying
      <4>1. "unlock" \notin callers
        BY <1>4, <2>2, <3>3, SettleScreen DEF RotateSession, Note, InOrder
      <4>2. /\ rotation' = NoRotation /\ UNCHANGED verifier
            /\ sessionPin' \in {sessionPin, NoPin} /\ screen' \in {screen, "login"}
        BY <3>1, <4>1 DEF Settle, ShowLoginScreen
      <4>3. QED
        BY <1>1, <2>1, <3>1, <4>2, QuietKeyring
    <3>4. QED
      BY <3>2, <3>3
  <2>3. CASE refresh # Nothing /\ rotation' = NoRotation
    <3>1. UNCHANGED refresh /\ (Settle("pin") \/ Settle("failed"))
      BY <1>4, <2>3 DEF RotateSession, NoRotation
    <3>2. UNCHANGED <<verifier, sessionPin>> /\ screen' \in {screen, "unlock"}
      BY <3>1 DEF Settle
    <3>3. QED
      BY <1>1, <2>1, <2>3, <3>1, <3>2, QuietKeyring
  <2>4. CASE refresh # Nothing /\ rotation' # NoRotation
    <3>1. /\ Begun
          /\ Note(keying # NotKeying, "rekeyed")
          /\ UNCHANGED <<refresh, verifier, screen, sessionPin>>
      BY <1>4, <2>4, SettleScreen DEF RotateSession, Begun
    <3>2. keying = NotKeying
      BY <3>1 DEF Note, InOrder
    <3>3. rotation'.at \in {"asked", "opening"} /\ rotation'.pin = sessionPin
      BY <2>4, <3>1, BegunFacts
    <3>4. QED
      BY <1>1, <1>3, <3>1, <3>2, <3>3 DEF Keyring
  <2>5. QED
    BY <2>2, <2>3, <2>4
<1>5. CASE ServerRefresh \/ RefreshFails
  <2>1. /\ rotation.at = "asked" /\ UNCHANGED <<refresh, verifier, screen, sessionPin>>
        /\ \E a, t : Answer(a, t)
    BY <1>5 DEF ServerRefresh, RefreshFails
  <2>2. rotation'.at = "answered" /\ rotation'.pin = rotation.pin
    BY <2>1 DEF Answer, TypeOK
  <2>3. keying = NotKeying
    BY <1>2, <2>1
  <2>4. QED
    BY <1>1, <1>3, <2>1, <2>2, <2>3 DEF Keyring
<1>6. CASE RotationAnswered
  <2>1. rotation.at = "answered" /\ keying = NotKeying
    BY <1>2, <1>6 DEF RotationAnswered
  <2>2. refresh'.key \in {NoKey, refresh.key}
    BY <1>3, <1>6 DEF RotationAnswered, SavedToken, ClearAllTokens
  <2>3. CASE rotation' = NoRotation
    <3>1. PICK outcome : Settle(outcome)
      BY <1>6, <2>3 DEF RotationAnswered, NoRotation
    <3>2. verifier' = verifier \/ (outcome \in {"ended", "gone"} /\ verifier' = NoKey)
      BY <3>1 DEF Settle
    <3>3. refresh'.key \in {NoKey, verifier'}
      <4>1. CASE verifier' = verifier
        BY <1>3, <2>1, <2>2, <4>1 DEF Keyring
      <4>2. CASE verifier' # verifier
        <5>1. refresh' = Nothing \/ refresh'.key = NoKey
          BY <1>6, <4>2 DEF RotationAnswered, ClearAllTokens, SavedToken, Settle, FailedOutcome
        <5>2. QED
          BY <1>3, <5>1
      <4>3. QED
        BY <4>1, <4>2
    <3>4. QED
      BY <1>1, <2>1, <3>1, <3>3, SettledKeyring
  <2>4. CASE rotation' # NoRotation
    <3>1. /\ rotation.pin # NoPin /\ verifier # NoKey
          /\ rotation' = [rotation EXCEPT !.at = "sealing",
                            !.key = [pin |-> rotation.pin, salt |-> verifier.salt]]
          /\ UNCHANGED <<verifier, screen, sessionPin>> /\ refresh' = SavedToken
      BY <1>6, <2>4, SettleScreen DEF RotationAnswered
    <3>2. rotation.pin = verifier.pin
      BY <2>1, <3>1 DEF Keyring
    <3>3. rotation'.at = "sealing" /\ rotation'.key = verifier
      BY <3>1, <3>2 DEF TypeOK, Key
    <3>4. refresh'.key = NoKey
      BY <3>1 DEF SavedToken
    <3>5. QED
      BY <1>1, <1>3, <2>1, <3>1, <3>3, <3>4 DEF Keyring
  <2>5. QED
    BY <2>3, <2>4
<1>7. CASE RotationSealed
  <2>1. /\ rotation.at = "sealing" /\ keying = NotKeying
        /\ refresh' = [token |-> rotation.token, key |-> rotation.key] /\ Settle("pair")
    BY <1>2, <1>7 DEF RotationSealed
  <2>2. UNCHANGED verifier
    BY <2>1 DEF Settle
  <2>3. refresh'.key = verifier'
    BY <2>1, <2>2 DEF Keyring
  <2>4. QED
    BY <1>1, <2>1, <2>3, SettledKeyring
<1>9. CASE RotationOpened
  <2>1. /\ rotation.at = "opening" /\ keying = NotKeying /\ UNCHANGED refresh
    BY <1>2, <1>9 DEF RotationOpened
  <2>2. CASE Settle("failed")
    <3>1. UNCHANGED verifier
      BY <2>2 DEF Settle
    <3>2. refresh'.key \in {NoKey, verifier'}
      BY <1>3, <2>1, <3>1 DEF Keyring
    <3>3. QED
      BY <1>1, <2>1, <2>2, <3>2, SettledKeyring
  <2>3. CASE /\ rotation' = [rotation EXCEPT !.at = "asked"]
             /\ UNCHANGED <<verifier, screen, sessionPin>>
    <3>1. rotation'.at = "asked" /\ rotation'.pin = rotation.pin
      BY <2>3 DEF TypeOK
    <3>2. QED
      BY <1>1, <1>3, <2>1, <2>3, <3>1 DEF Keyring
  <2>4. QED
    BY <1>9, <2>2, <2>3 DEF RotationOpened
<1>8. QED
  BY <1>4, <1>5, <1>6, <1>7, <1>9 DEF Rotation

\* What both ends of a new PIN do with the screen.
LEMMA KeyedFacts ==
  ASSUME Keyed, verifier' # NoKey
  PROVE  keying' = NotKeying /\ sessionPin' = keying.pin /\ screen' = "home"
BY DEF Keyed, LoadHome, IsPinSet

LEMMA KeyringStep ==
  TypeOK /\ Shape /\ OneForm /\ Keyring /\ [Next]_vars /\ InOrder' => Keyring'
<1> SUFFICES ASSUME TypeOK, Shape, OneForm, Keyring, [Next]_vars, InOrder' PROVE Keyring'
  OBVIOUS
<1> USE DEF serverVars, storeVars, pageVars, unlockVars, requestVars, noteVars
<1>1. /\ NoRotation.at = "idle" /\ NotKeying.at = "idle" /\ Nothing.key = NoKey
      /\ NotChecking.right = FALSE
  BY DEF NoRotation, NotKeying, Nothing, NotChecking
<1>2. CASE Rotation
  BY <1>2, KeyringRotation
<1>3. CASE Screen
  <2>1. UNCHANGED <<refresh, verifier, rotation, keying, checking>>
    BY <1>3 DEF Screen, OpenHome, ShowChangePinScreen, LockAppForResume,
     EnsureFreshAccess, FetchAuth, Unauthorized, AccessExpires
  <2>2. sessionPin' \in {sessionPin, NoPin}
    BY <1>3 DEF Screen, OpenHome, ShowChangePinScreen, LockAppForResume,
     EnsureFreshAccess, FetchAuth, Unauthorized, AccessExpires
  <2>3. screen' = "setup-pin" => screen = "setup-pin" \/ verifier = NoKey
    BY <1>3 DEF Screen, OpenHome, ShowChangePinScreen, LockAppForResume,
     EnsureFreshAccess, FetchAuth, Unauthorized, AccessExpires,
       LoadHome, IsPinSet
  <2>4. QED
    BY <2>1, <2>2, <2>3, QuietKeyring
<1>4. ASSUME NEW pin \in Pins, EnterPin(pin) PROVE Keyring'
  <2>1. /\ UNCHANGED <<refresh, verifier, rotation, keying, sessionPin, screen>>
        /\ checking' = [pin |-> pin, right |-> verifier.pin = pin]
        /\ Note(keying # NotKeying, "rekeyed")
    BY <1>4 DEF EnterPin
  <2>2. keying = NotKeying
    BY <2>1 DEF Note, InOrder
  <2>3. checking'.pin = pin /\ (checking'.right => verifier.pin = pin)
    BY <2>1
  <2>4. QED
    BY <2>1, <2>2, <2>3 DEF Keyring
<1>5. ASSUME NEW pin \in Pins, NEW job \in {"setup", "change"}, NEW token,
             StartKeying(job, pin, token),
             job = "setup" \/ token = NoToken => refresh.key = NoKey
      PROVE  Keyring'
  <2>1. /\ keying = NotKeying /\ UNCHANGED <<refresh, verifier, rotation, sessionPin, screen, checking>>
        /\ keying' = [job |-> job, at |-> "hashing", pin |-> pin, token |-> token, key |-> NoKey]
        /\ Note(rotation # NoRotation \/ checking # NotChecking, "rekeyed")
    BY <1>5 DEF StartKeying, Unsubmitted
  <2>2. rotation = NoRotation /\ checking = NotChecking
    BY <2>1 DEF Note, InOrder
  <2>3. keying'.at = "hashing" /\ keying'.job = job /\ keying'.token = token
    BY <2>1
  <2>4. QED
    BY <1>1, <1>5, <2>1, <2>2, <2>3 DEF Keyring
<1>6. ASSUME NEW pin \in Pins, SetupPin(pin) PROVE Keyring'
  <2>1. screen = "setup-pin" /\ StartKeying("setup", pin, NoToken)
    BY <1>6 DEF SetupPin
  <2>2. keying.at = "idle"
    BY <1>1, <2>1 DEF StartKeying, Unsubmitted
  <2>3. refresh.key = NoKey
    BY <2>1, <2>2 DEF Keyring
  <2>4. QED
    BY <1>5, <2>1, <2>3
<1>7. ASSUME NEW pin \in Pins, ChangePin(pin) PROVE Keyring'
  <2>1. StartKeying("change", pin, refresh.token)
    BY <1>7 DEF ChangePin
  <2>2. refresh.token = NoToken => refresh.key = NoKey
    BY <1>1, KeyFacts DEF TypeOK, Stored
  <2>3. QED
    BY <1>5, <2>1, <2>2
<1>8. ASSUME ForgetSession, UNCHANGED <<rotation, keying>>, checking' \in {checking, NotChecking}
      PROVE  Keyring'
  <2>1. /\ rotation = NoRotation /\ keying = NotKeying
        /\ refresh' = Nothing /\ verifier' = NoKey /\ sessionPin' = NoPin /\ screen' = "login"
    BY <1>8 DEF ForgetSession, ClearAllTokens, ClearedPin, ShowLoginScreen, Note, InOrder
  <2>2. QED
    BY <1>1, <1>8, <2>1 DEF Keyring
<1>9. CASE UnlockPin
  <2>1. UNCHANGED <<rotation, keying>> /\ checking # NotChecking /\ checking' = NotChecking
    BY <1>9 DEF UnlockPin
  <2>2. CASE ForgetSession
    BY <1>8, <2>1, <2>2
  <2>3. CASE ~ForgetSession
    <3>1. UNCHANGED <<refresh, verifier, screen>>
      BY <1>9, <2>3 DEF UnlockPin
    <3>2. UNCHANGED sessionPin \/ (checking.right /\ sessionPin' = checking.pin)
      BY <1>9, <2>3 DEF UnlockPin
    <3>3. keying.at = "idle"
      BY <1>1, <2>1 DEF Keyring
    <3>4. QED
      BY <1>1, <2>1, <3>1, <3>2, <3>3 DEF Keyring
  <2>4. QED
    BY <2>2, <2>3
<1>10. ASSUME keying.at # "idle"
       PROVE  rotation = NoRotation /\ checking = NotChecking /\ keying.pin \in Pins
  BY <1>1, <1>10 DEF Keyring, Shape
<1>11. CASE PinHashed
  <2>1. /\ UNCHANGED <<refresh, rotation, checking>> /\ keying.at = "hashing"
        /\ verifier' = NewVerifier(keying.pin)
    BY <1>11 DEF PinHashed
  <2>2. verifier' # NoKey /\ verifier'.pin = keying.pin
    BY <1>10, <2>1, NewVerifierType, KeyFacts
  <2>3. CASE TokenToSeal = NoToken
    <3>1. /\ keying' = NotKeying /\ sessionPin' = keying.pin /\ screen' = "home"
      BY <1>11, <2>2, <2>3, KeyedFacts DEF PinHashed
    <3>2. refresh.key = NoKey
      <4>1. CASE keying.job = "change"
        BY <2>1, <2>3, <4>1 DEF TokenToSeal, Keyring
      <4>2. CASE keying.job # "change"
        <5>1. keying.job = "setup"
          BY <2>1, <4>2 DEF Shape, TypeOK
        <5>2. QED
          BY <2>1, <5>1 DEF Keyring
      <4>3. QED
        BY <4>1, <4>2
    <3>3. QED
      BY <1>1, <1>10, <2>1, <2>2, <3>1, <3>2 DEF Keyring
  <2>4. CASE TokenToSeal # NoToken
    <3>1. /\ keying' = [keying EXCEPT !.at = "sealing", !.token = TokenToSeal, !.key = verifier']
          /\ UNCHANGED <<sessionPin, screen>>
      BY <1>11, <2>4 DEF PinHashed
    <3>2. keying'.at = "sealing" /\ keying'.key = verifier' /\ keying'.pin = keying.pin
      BY <3>1 DEF TypeOK
    <3>3. QED
      BY <1>1, <1>10, <2>1, <2>2, <3>1, <3>2 DEF Keyring
  <2>5. QED
    BY <2>3, <2>4
<1>12. CASE TokenSealed
  <2>1. /\ UNCHANGED <<verifier, rotation, checking>> /\ keying.at = "sealing"
        /\ refresh' = [token |-> keying.token, key |-> keying.key] /\ Keyed
    BY <1>12 DEF TokenSealed
  <2>2. keying.key = verifier /\ verifier # NoKey /\ keying.pin = verifier.pin
    BY <2>1, KeyFacts DEF Keyring, Shape
  <2>3. keying' = NotKeying /\ sessionPin' = keying.pin /\ screen' = "home"
    BY <2>1, <2>2, KeyedFacts
  <2>4. QED
    BY <1>1, <1>10, <2>1, <2>2, <2>3 DEF Keyring
<1>13. CASE SignedIn
  <2>1. /\ signIn # NoToken /\ refresh' = [token |-> signIn, key |-> NoKey]
        /\ UNCHANGED <<verifier, rotation, keying, sessionPin, checking>>
        /\ screen' = "setup-pin" => verifier' = NoKey
    BY <1>13 DEF SignedIn, LoadHome, IsPinSet
  <2>2. keying = NotKeying
    BY <2>1 DEF OneForm
  <2>3. QED
    BY <1>1, <2>1, <2>2 DEF Keyring
<1>14. CASE SignOut
  <2>1. UNCHANGED <<rotation, keying, checking>>
    BY <1>14 DEF SignOut
  <2>2. CASE ForgetSession
    BY <1>8, <2>1, <2>2
  <2>3. CASE ~ForgetSession
    <3>1. UNCHANGED <<refresh, verifier, screen, sessionPin>>
      BY <1>14, <2>3 DEF SignOut
    <3>2. QED
      BY <2>1, <3>1, QuietKeyring
  <2>4. QED
    BY <2>2, <2>3
<1>15. CASE SignedOut
  BY <1>8, <1>15 DEF SignedOut
<1>16. CASE Reload
  <2>1. /\ UNCHANGED <<refresh, verifier>> /\ rotation' = NoRotation /\ keying' = NotKeying
        /\ checking' = NotChecking /\ sessionPin' = NoPin
        /\ screen' = "setup-pin" => verifier = NoKey
        /\ ~(keying.at = "sealing" /\ IsEncrypted(refresh))
    BY <1>16 DEF Reload, InOrder
  <2>2. refresh.key \in {NoKey, verifier}
    BY <2>1 DEF Keyring, IsEncrypted
  <2>3. QED
    BY <1>1, <2>1, <2>2 DEF Keyring
<1>17. CASE SignIn \/ SessionEnds \/ UNCHANGED vars
  <2>1. UNCHANGED <<refresh, verifier, rotation, keying, sessionPin, checking, screen>>
    BY <1>17 DEF SignIn, SessionEnds, vars
  <2>2. QED
    BY <2>1, QuietKeyring
<1>18. QED
  BY <1>2, <1>3, <1>4, <1>6, <1>7, <1>9, <1>11, <1>12, <1>13, <1>14, <1>15, <1>16, <1>17
  DEF Next, Pin, Account

\* The PIN that is asked for opens what is stored, however often it was changed and
\* the token rotated, across failed requests, lost answers, logins and the lock.
THEOREM StaysReadable == Spec => []Readable
<1> DEFINE Inv == TypeOK /\ Shape /\ OneForm /\ (InOrder => Keyring)
<1>1. Init => Inv
  <2>1. Init => OneForm /\ Keyring
    BY DEF Init, OneForm, Keyring, Nothing, NoRotation, NotKeying, NotChecking
  <2>2. QED
    BY <2>1, TypeInit
<1>2. Inv /\ [Next]_vars => Inv'
  <2> SUFFICES ASSUME Inv, [Next]_vars PROVE Inv'
    OBVIOUS
  <2>1. TypeOK' /\ Shape' /\ OneForm' /\ mishaps \subseteq mishaps'
    BY TypeStep, ShapeStep, OneFormStep, MishapsStay
  <2>2. InOrder' => Keyring'
    BY <2>1, KeyringStep DEF InOrder
  <2>3. QED
    BY <2>1, <2>2
<1>3. Inv => Readable
  BY DEF Keyring, InOrder, Readable, IsEncrypted, NotKeying
<1>4. QED
  BY <1>1, <1>2, <1>3, PTL DEF Spec
=============================================================================
