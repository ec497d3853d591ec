---------------------------- MODULE MobileSession ----------------------------
(***************************************************************************)
(* The session of the mobile client in a browser (mobile/src/api.ts,       *)
(* auth.ts, pin.ts and the screens of main.ts): the refresh token in the   *)
(* storage, sealed with a key made of the PIN and its salt, the one        *)
(* rotation that may be under way, and what runs into it: unlocking,       *)
(* setting and changing the PIN, signing in and out, the resume lock, a    *)
(* reload of the page, and the end of the session on the server.           *)
(*                                                                         *)
(* An action is what stands between two awaits of the network or of a key  *)
(* derivation; reads and writes of the storage belong to the callback that *)
(* awaits them, and the three derivations of a change of the PIN before it *)
(* writes are one wait.  Biometry, which a browser has not, and a second   *)
(* tab on the same storage are left out.  "home" stands for the screens    *)
(* home, chat and new-chat.  Of the flights that have no guard against a   *)
(* second click (login, logout, setting and changing the PIN) one is under *)
(* way at a time.                                                          *)
(***************************************************************************)
EXTENDS Integers, Sequences, FiniteSets

CONSTANTS
  Pins,
  NoPin,
  Salts,       \* enough of them that a fresh one is never one in use
  MaxAttempts, \* PIN_MAX_ATTEMPTS
  MaxTokens,   \* bound: refresh tokens the server issues
  MaxFaults    \* bound: requests that fail or whose answers are lost

ASSUME SessionAssumption ==
  /\ NoPin \notin Pins
  /\ Salts \subseteq Nat
  /\ \A a, b, c, d \in Salts \cup {0} : \E s \in Salts \ {0} : s \notin {a, b, c, d}
  /\ MaxAttempts \in Nat \ {0}
  /\ MaxTokens \in Nat
  /\ MaxFaults \in Nat

VARIABLES
  login,     \* on the server: login[t] is the token its login gave for t's family
  usable,    \* on the server: the tokens it would rotate
  access,    \* stored: the access token is "none", "fresh" or "stale"
  refresh,   \* stored: the refresh token and the key it is sealed with
  verifier,  \* stored: the PIN's salt and hash
  screen,    \* the active screen
  locked,    \* appLocked, and with it screenBeforeLock
  sessionPin,
  fails,     \* pinFailCount
  inside,    \* loadHome has run: the socket and the requests of the screens
  checking,  \* handleUnlockPin is at verifyPin: the PIN, and whether it is right
  callers,   \* who awaits rotateSession
  rotation,  \* rotateInFlight
  keying,    \* handleSetupPin or handleChangePin under way
  sent,      \* a request is under way whose access token is not fresh
  signIn,    \* handleLogin under way: the token it is given
  signOut,   \* handleLogout under way: the token it revokes
  mishaps,   \* for the properties: what has happened that they allow for
  replayed,  \* for the properties: the server was shown a token it had replaced
  signedOut, \* for the properties: signed out and not in again
  faults

serverVars == <<login, usable>>
storeVars  == <<access, refresh, verifier>>
pageVars   == <<screen, locked, sessionPin, fails, inside>>
unlockVars == <<checking, callers, rotation>>
requestVars == <<sent, signIn, signOut>>
noteVars   == <<mishaps, replayed, signedOut>>
vars == <<serverVars, storeVars, pageVars, unlockVars, keying, requestVars, noteVars, faults>>

Tokens    == 1..MaxTokens
NoToken   == 0
AppScreens == {"home", "change-pin"}

\* A key is derived from a PIN and a salt; the verifier is a hash of the same two.
Key     == [pin : Pins, salt : Salts]
NoKey   == [pin |-> NoPin, salt |-> 0]
Stored  == [token : Tokens, key : Key \cup {NoKey}]
Nothing == [token |-> NoToken, key |-> NoKey]

NotChecking == [pin |-> NoPin, right |-> FALSE]
NoRotation  == [at |-> "idle", token |-> NoToken, pin |-> NoPin, key |-> NoKey, answer |-> "none"]
NotKeying   == [job |-> "none", at |-> "idle", pin |-> NoPin, token |-> NoToken, key |-> NoKey]

TypeOK ==
  /\ login \in Seq(Tokens) /\ Len(login) <= MaxTokens
  /\ usable \subseteq DOMAIN login
  /\ access \in {"none", "fresh", "stale"}
  /\ refresh \in Stored \cup {Nothing}
  /\ verifier \in Key \cup {NoKey}
  /\ screen \in AppScreens \cup {"login", "setup-pin", "unlock"}
  /\ locked \in BOOLEAN /\ inside \in BOOLEAN
  /\ sessionPin \in Pins \cup {NoPin}
  /\ fails \in 0..MaxAttempts - 1
  /\ checking \in [pin : Pins \cup {NoPin}, right : BOOLEAN]
  /\ callers \subseteq {"unlock", "home", "quiet"}
  /\ rotation \in [at : {"idle", "opening", "asked", "answered", "sealing"},
                   token : Tokens \cup {NoToken}, pin : Pins \cup {NoPin}, key : Key \cup {NoKey},
                   answer : {"none", "pair", "ended", "failed"}]
  /\ keying \in [job : {"none", "setup", "change"}, at : {"idle", "hashing", "sealing"},
                 pin : Pins \cup {NoPin}, token : Tokens \cup {NoToken}, key : Key \cup {NoKey}]
  /\ sent \in BOOLEAN
  /\ signIn \in Tokens \cup {NoToken}
  /\ signOut \in Tokens \cup {NoToken}
  /\ mishaps \subseteq {"lost", "rekeyed", "wiped", "torn"}
  /\ replayed \in BOOLEAN /\ signedOut \in BOOLEAN
  /\ faults \in 0..MaxFaults

Init ==
  /\ login = << >>
  /\ usable = {}
  /\ access = "none"
  /\ refresh = Nothing
  /\ verifier = NoKey
  /\ screen = "login"
  /\ locked = FALSE
  /\ sessionPin = NoPin
  /\ fails = 0
  /\ inside = FALSE
  /\ checking = NotChecking
  /\ callers = {}
  /\ rotation = NoRotation
  /\ keying = NotKeying
  /\ sent = FALSE
  /\ signIn = NoToken
  /\ signOut = NoToken
  /\ mishaps = {}
  /\ replayed = FALSE
  /\ signedOut = TRUE
  /\ faults = 0

Fault == faults < MaxFaults /\ faults' = faults + 1
Unsubmitted == keying = NotKeying /\ signIn = NoToken /\ signOut = NoToken
Busy  == checking # NotChecking \/ "unlock" \in callers
Note(happened, what) == mishaps' = IF happened THEN mishaps \cup {what} ELSE mishaps

\* Between a call of rotateSession and its first await nothing else runs.
Calling == callers # {} /\ rotation = NoRotation
Idle    == ~Calling
-----------------------------------------------------------------------------
(* The storage and the screens.                                            *)

IsEncrypted(r) == r.key # NoKey
IsPinSet(v)    == v # NoKey

SaltsInUse == {verifier.salt, refresh.key.salt, rotation.key.salt, keying.key.salt}

\* setupPin, with the salt it draws.
NewVerifier(pin) == [pin |-> pin, salt |-> CHOOSE s \in Salts \ {0} : s \notin SaltsInUse]

ClearAllTokens == access' = "none" /\ refresh' = Nothing

ShowLoginScreen == screen' = "login" /\ sessionPin' = NoPin /\ inside' = FALSE

KeptPin    == verifier
ClearedPin == NoKey

\* What lockout and logout have in common.
ForgetSession ==
  /\ ClearAllTokens
  /\ verifier' = ClearedPin
  /\ locked' = FALSE
  /\ fails' = 0
  /\ ShowLoginScreen
  /\ signedOut' = TRUE
  /\ Note(rotation # NoRotation \/ keying # NotKeying, "wiped")

\* loadHome goes home, or to the setup of the PIN when there is none, and asks for
\* new tokens when the access token is not fresh; own is what called it until now.
LoadHome(own) ==
  IF IsPinSet(verifier')
  THEN /\ screen' = "home"
       /\ inside' = TRUE
       /\ callers' = (callers \ own) \cup IF access' = "fresh" THEN {} ELSE {"home"}
  ELSE /\ screen' = "setup-pin"
       /\ callers' = callers \ own
       /\ UNCHANGED inside

OpenHome ==
  /\ Idle
  /\ screen \in AppScreens
  /\ UNCHANGED storeVars
  /\ LoadHome({})
  /\ UNCHANGED <<serverVars, locked, sessionPin, fails, checking, rotation, keying,
                 requestVars, noteVars, faults>>

ShowChangePinScreen ==
  /\ Idle
  /\ screen = "home"
  /\ screen' = "change-pin"
  /\ UNCHANGED <<serverVars, storeVars, locked, sessionPin, fails, inside, unlockVars,
                 keying, requestVars, noteVars, faults>>

\* onAppVisible after the grace period: the lock, and the PIN is forgotten.
LockAppForResume ==
  /\ Idle
  /\ screen \in AppScreens
  /\ ~locked
  /\ IsPinSet(verifier)
  /\ locked' = TRUE
  /\ sessionPin' = NoPin
  /\ screen' = "unlock"
  /\ UNCHANGED <<serverVars, storeVars, fails, inside, unlockVars, keying, requestVars,
                 noteVars, faults>>

\* What asks for a fresh access token before its own request (the socket), and whose
\* caller only logs what comes of it.
EnsureFreshAccess ==
  /\ Idle
  /\ inside
  /\ access # "fresh"
  /\ callers' = callers \cup {"quiet"}
  /\ UNCHANGED <<serverVars, storeVars, pageVars, checking, rotation, keying,
                 requestVars, noteVars, faults>>

\* A request of the screens goes out with the access token it finds.
FetchAuth ==
  /\ Idle
  /\ inside
  /\ access # "fresh"
  /\ sent' = TRUE
  /\ UNCHANGED <<serverVars, storeVars, pageVars, unlockVars, keying, signIn, signOut,
                 noteVars, faults>>

\* Its 401 comes, whatever the storage holds by then: a token renewed meanwhile, or
\* nothing after a logout.
Unauthorized ==
  /\ Idle
  /\ sent
  /\ sent' = FALSE
  /\ callers' = callers \cup {"quiet"}
  /\ UNCHANGED <<serverVars, storeVars, pageVars, checking, rotation, keying, signIn,
                 signOut, noteVars, faults>>

AccessExpires ==
  /\ Idle
  /\ access = "fresh"
  /\ access' = "stale"
  /\ UNCHANGED <<serverVars, refresh, verifier, pageVars, unlockVars, keying,
                 requestVars, noteVars, faults>>
-----------------------------------------------------------------------------
(* The rotation.                                                           *)

\* What the callers of rotateSession do with its outcome, once the storage is as
\* it leaves it: "ended" is an end the server tells, "gone" a storage without token.
\* Behind the lock there is a PIN: unlockAfterResume, which does not ask, goes home too.
Settle(outcome) ==
  /\ rotation' = NoRotation
  /\ \/ /\ outcome = "pair" /\ "unlock" \in callers
        /\ locked' = FALSE
        /\ UNCHANGED <<verifier, sessionPin>>
        /\ LoadHome(callers)
     \/ /\ outcome \in {"ended", "gone"} /\ callers \cap {"unlock", "home"} # {}
        /\ verifier' = IF "unlock" \in callers THEN NoKey ELSE verifier
        /\ ShowLoginScreen
        /\ callers' = {}
        /\ UNCHANGED locked
     \/ /\ outcome = "pin" /\ ~locked
        /\ screen' = "unlock"
        /\ callers' = {}
        /\ UNCHANGED <<verifier, locked, sessionPin, inside>>
     \/ /\ \/ outcome = "failed"
           \/ outcome = "pin" /\ locked
           \/ outcome = "pair" /\ "unlock" \notin callers
           \/ outcome \in {"ended", "gone"} /\ callers \cap {"unlock", "home"} = {}
        /\ callers' = {}
        /\ UNCHANGED <<verifier, pageVars>>

\* The key in memory opens the stored token: its PIN, with the salt of the verifier.
Opens == refresh.key = [pin |-> sessionPin, salt |-> verifier.salt]

\* rotateSessionInner up to the request or, of a sealed token, to the key derivation.
RotateSession ==
  /\ Calling
  /\ \/ /\ refresh = Nothing
        /\ IF callers \cap {"unlock", "home"} # {} THEN ClearAllTokens
                                                   ELSE UNCHANGED <<access, refresh>>
        /\ Settle("gone")
        /\ Note("unlock" \in callers /\ keying # NotKeying, "wiped")
     \/ /\ refresh # Nothing
        /\ UNCHANGED <<access, refresh>>
        /\ \/ /\ IsEncrypted(refresh) /\ sessionPin = NoPin
              /\ Settle("pin")
              /\ UNCHANGED mishaps
           \/ /\ \/ /\ ~IsEncrypted(refresh)
                    /\ rotation' = [NoRotation EXCEPT !.at = "asked",
                                      !.token = refresh.token, !.pin = sessionPin]
                 \/ /\ IsEncrypted(refresh) /\ sessionPin # NoPin
                    /\ rotation' = [NoRotation EXCEPT !.at = "opening",
                                      !.token = IF Opens THEN refresh.token ELSE NoToken,
                                      !.pin = sessionPin]
              /\ Note(keying # NotKeying, "rekeyed")
              /\ UNCHANGED <<callers, verifier, screen, locked, sessionPin, inside>>
  /\ UNCHANGED <<serverVars, fails, checking, keying, requestVars, replayed, signedOut, faults>>

\* The token is open and sent; or another key has sealed it.
RotationOpened ==
  /\ Idle
  /\ rotation.at = "opening"
  /\ \/ /\ rotation.token # NoToken
        /\ rotation' = [rotation EXCEPT !.at = "asked"]
        /\ UNCHANGED <<callers, verifier, screen, locked, sessionPin, inside>>
     \/ /\ rotation.token = NoToken
        /\ Settle("failed")
  /\ UNCHANGED <<serverVars, access, refresh, fails, checking, keying, requestVars,
                 noteVars, faults>>

Family(t)   == {u \in DOMAIN login : login[u] = login[t]}
Replaced(t) == \E u \in Family(t) : u > t

Answer(a, t) == rotation' = [rotation EXCEPT !.at = "answered", !.answer = a, !.token = t]

\* The server rotates the token, or shows the family the door.
ServerRefresh ==
  /\ Idle
  /\ rotation.at = "asked"
  /\ \/ /\ rotation.token \in usable
        /\ Len(login) < MaxTokens
        /\ login' = Append(login, login[rotation.token])
        /\ usable' = (usable \ {rotation.token}) \cup {Len(login')}
        /\ \/ Answer("pair", Len(login')) /\ UNCHANGED <<faults, mishaps>>
           \/ Answer("failed", NoToken) /\ Fault /\ Note(TRUE, "lost")
        /\ UNCHANGED replayed
     \/ /\ rotation.token \notin usable
        /\ usable' = usable \ Family(rotation.token)
        /\ replayed' = (replayed \/ Replaced(rotation.token))
        /\ Answer("ended", NoToken)
        /\ UNCHANGED <<login, faults, mishaps>>
  /\ UNCHANGED <<storeVars, pageVars, checking, callers, keying, requestVars, signedOut>>

\* The request does not reach the server, or this has no more tokens to give.
RefreshFails ==
  /\ Idle
  /\ rotation.at = "asked"
  /\ \/ Fault
     \/ Len(login) = MaxTokens /\ rotation.token \in usable /\ UNCHANGED faults
  /\ Answer("failed", NoToken)
  /\ UNCHANGED <<serverVars, storeVars, pageVars, checking, callers, keying, requestVars, noteVars>>

AnyErrorEnds  == "ended"
FailedOutcome == "failed"

SavedLater == refresh
SavedToken == [token |-> rotation.token, key |-> NoKey]

\* The tokens are stored open and then, with a PIN, sealed; or wiped.
RotationAnswered ==
  /\ Idle
  /\ rotation.at = "answered"
  /\ \/ /\ rotation.answer = "pair"
        /\ access' = "fresh"
        /\ refresh' = SavedToken
        /\ \/ /\ rotation.pin = NoPin
              /\ Settle("pair")
           \/ /\ rotation.pin # NoPin /\ verifier = NoKey
              /\ Settle("failed")
           \/ /\ rotation.pin # NoPin /\ verifier # NoKey
              /\ rotation' = [rotation EXCEPT !.at = "sealing",
                                !.key = [pin |-> rotation.pin, salt |-> verifier.salt]]
              /\ UNCHANGED <<callers, verifier, screen, locked, sessionPin, inside>>
        /\ UNCHANGED mishaps
     \/ /\ rotation.answer = "ended"
        /\ ClearAllTokens
        /\ Settle("ended")
        /\ Note(keying # NotKeying, "wiped")
     \/ /\ rotation.answer = "failed"
        /\ UNCHANGED <<access, refresh, mishaps>>
        /\ Settle(FailedOutcome)
  /\ UNCHANGED <<serverVars, fails, checking, keying, requestVars, replayed, signedOut, faults>>

RotationSealed ==
  /\ Idle
  /\ rotation.at = "sealing"
  /\ refresh' = [token |-> rotation.token, key |-> rotation.key]
  /\ UNCHANGED access
  /\ Settle("pair")
  /\ UNCHANGED <<serverVars, fails, checking, keying, requestVars, noteVars, faults>>
-----------------------------------------------------------------------------
(* The PIN.                                                                *)

\* The fourth digit starts handleUnlockPin, which verifyPin answers.
EnterPin(pin) ==
  /\ Idle
  /\ screen = "unlock"
  /\ ~Busy
  /\ checking' = [pin |-> pin, right |-> verifier.pin = pin]
  /\ Note(keying # NotKeying, "rekeyed")
  /\ UNCHANGED <<serverVars, storeVars, pageVars, callers, rotation, keying, requestVars,
                 replayed, signedOut, faults>>

LastAttempt == fails + 1 = MaxAttempts

UnlockPin ==
  /\ Idle
  /\ checking # NotChecking
  /\ checking' = NotChecking
  /\ \/ /\ checking.right
        /\ fails' = 0
        /\ sessionPin' = checking.pin
        /\ callers' = callers \cup {"unlock"}
        /\ UNCHANGED <<storeVars, screen, locked, inside, signedOut, mishaps>>
     \/ /\ ~checking.right
        /\ ~LastAttempt
        /\ fails' = fails + 1
        /\ UNCHANGED <<storeVars, screen, locked, sessionPin, inside, callers, signedOut, mishaps>>
     \/ /\ ~checking.right
        /\ LastAttempt
        /\ ForgetSession
        /\ UNCHANGED callers
  /\ UNCHANGED <<serverVars, rotation, keying, requestVars, replayed, faults>>

\* handleSetupPin and handleChangePin begin; the latter opens the stored token first.
StartKeying(job, pin, token) ==
  /\ Idle
  /\ Unsubmitted
  /\ keying' = [job |-> job, at |-> "hashing", pin |-> pin, token |-> token, key |-> NoKey]
  /\ Note(rotation # NoRotation \/ checking # NotChecking, "rekeyed")
  /\ UNCHANGED <<serverVars, storeVars, pageVars, unlockVars, requestVars, replayed,
                 signedOut, faults>>

SetupPin(pin) ==
  /\ screen = "setup-pin"
  /\ StartKeying("setup", pin, NoToken)

ChangePin(new) ==
  /\ screen = "change-pin"
  /\ verifier # NoKey
  /\ new # verifier.pin
  /\ refresh.key \in {verifier, NoKey}
  /\ StartKeying("change", new, refresh.token)

\* The end of both: the PIN stays in memory.
Keyed ==
  /\ keying' = NotKeying
  /\ sessionPin' = keying.pin
  /\ LoadHome({})

OnlyOpenToken == IF IsEncrypted(refresh) THEN NoToken ELSE refresh.token

\* The setup reads the token only when the new PIN is written.
TokenToSeal ==
  IF keying.job = "change" THEN keying.token
  ELSE IF IsEncrypted(refresh) THEN NoToken ELSE refresh.token

\* The new PIN's salt and hash are written.
PinHashed ==
  /\ Idle
  /\ keying.at = "hashing"
  /\ verifier' = NewVerifier(keying.pin)
  /\ UNCHANGED <<access, refresh>>
  /\ \/ /\ TokenToSeal # NoToken
        /\ keying' = [keying EXCEPT !.at = "sealing", !.token = TokenToSeal, !.key = verifier']
        /\ UNCHANGED <<sessionPin, screen, inside, callers>>
     \/ /\ TokenToSeal = NoToken
        /\ Keyed
  /\ UNCHANGED <<serverVars, locked, fails, checking, rotation, requestVars, noteVars, faults>>

\* The token is written back, sealed with the key of the PIN just set.
TokenSealed ==
  /\ Idle
  /\ keying.at = "sealing"
  /\ refresh' = [token |-> keying.token, key |-> keying.key]
  /\ UNCHANGED <<access, verifier>>
  /\ Keyed
  /\ UNCHANGED <<serverVars, locked, fails, checking, rotation, requestVars, noteVars, faults>>
-----------------------------------------------------------------------------
(* Signing in and out, and what happens to the page and to the session.    *)

\* handleLogin: the server opens a family; enterAppAfterAuth asks for a PIN first.
SignIn ==
  /\ Idle
  /\ screen = "login"
  /\ Unsubmitted
  /\ Len(login) < MaxTokens
  /\ signIn' = Len(login) + 1
  /\ login' = Append(login, signIn')
  /\ usable' = usable \cup {signIn'}
  /\ UNCHANGED <<storeVars, pageVars, unlockVars, keying, sent, signOut, noteVars, faults>>

SignedIn ==
  /\ Idle
  /\ signIn # NoToken
  /\ signIn' = NoToken
  /\ access' = "fresh"
  /\ refresh' = [token |-> signIn, key |-> NoKey]
  /\ UNCHANGED verifier
  /\ LoadHome({})
  /\ signedOut' = FALSE
  /\ UNCHANGED <<serverVars, locked, sessionPin, fails, checking, rotation, keying,
                 sent, signOut, mishaps, replayed, faults>>

\* handleLogout: only an open token is revoked on the server.
SignOut ==
  /\ Idle
  /\ screen \in {"home", "setup-pin", "unlock"}
  /\ \/ /\ refresh # Nothing /\ ~IsEncrypted(refresh)
        /\ Unsubmitted
        /\ signOut' = refresh.token
        /\ inside' = FALSE
        /\ UNCHANGED <<storeVars, screen, locked, sessionPin, fails, mishaps, signedOut>>
     \/ /\ refresh = Nothing \/ IsEncrypted(refresh)
        /\ ForgetSession
        /\ UNCHANGED signOut
  /\ UNCHANGED <<serverVars, unlockVars, keying, sent, signIn, replayed, faults>>

\* apiLogout answers, or fails: the storage is cleared in any case.
SignedOut ==
  /\ Idle
  /\ signOut # NoToken
  /\ signOut' = NoToken
  /\ \/ usable' = usable \ {signOut} /\ UNCHANGED faults
     \/ Fault /\ UNCHANGED usable
  /\ ForgetSession
  /\ UNCHANGED <<login, unlockVars, keying, sent, signIn, replayed>>

\* The page is closed or dies, and is loaded again: init asks the storage where to go.
Reload ==
  /\ Idle
  /\ screen' = IF refresh = Nothing THEN "login"
               ELSE IF verifier = NoKey THEN "setup-pin" ELSE "unlock"
  /\ locked' = FALSE
  /\ sessionPin' = NoPin
  /\ fails' = 0
  /\ inside' = FALSE
  /\ checking' = NotChecking
  /\ callers' = {}
  /\ rotation' = NoRotation
  /\ keying' = NotKeying
  /\ sent' = FALSE
  /\ signIn' = NoToken
  /\ signOut' = NoToken
  /\ mishaps' = mishaps
       \cup (IF rotation.at = "answered" /\ rotation.answer = "pair" THEN {"lost"} ELSE {})
       \cup (IF keying.at = "sealing" /\ IsEncrypted(refresh) THEN {"torn"} ELSE {})
  /\ UNCHANGED <<serverVars, storeVars, replayed, signedOut, faults>>

\* The sessions expire, or are revoked from another device.
SessionEnds ==
  /\ Idle
  /\ usable # {}
  /\ usable' = {}
  /\ UNCHANGED <<login, storeVars, pageVars, unlockVars, keying, requestVars, noteVars, faults>>
-----------------------------------------------------------------------------
Rotation ==
  \/ RotateSession \/ RotationOpened
  \/ ServerRefresh \/ RefreshFails
  \/ RotationAnswered \/ RotationSealed

Screen ==
  \/ OpenHome \/ ShowChangePinScreen \/ LockAppForResume
  \/ EnsureFreshAccess \/ FetchAuth \/ Unauthorized \/ AccessExpires

Pin ==
  \/ \E pin \in Pins : EnterPin(pin) \/ SetupPin(pin) \/ ChangePin(pin)
  \/ UnlockPin \/ PinHashed \/ TokenSealed

Account == SignIn \/ SignedIn \/ SignOut \/ SignedOut \/ Reload \/ SessionEnds

Next == Rotation \/ Screen \/ Pin \/ Account

Spec == Init /\ [][Next]_vars
-----------------------------------------------------------------------------
(* Properties.                                                             *)

\* The client does not present a token that the server has replaced, which would
\* end its own session, but for an answer that was lost, a PIN that was set or a
\* storage that was cleared while tokens were on their way.  It is a property of one
\* page: the promise of rotateSession (api.ts:121-134) ends with it.
OwnTokensOnce == replayed => mishaps \cap {"lost", "rekeyed", "wiped"} # {}

\* A sealed token can be opened with the PIN that is asked for, but for a PIN that
\* was set beside a rotation or an unlock, a clearing beside either, and a page that died
\* between the new PIN and the token sealed with it.
Readable ==
  rotation = NoRotation /\ keying = NotKeying /\ IsEncrypted(refresh) =>
    refresh.key = verifier \/ mishaps \cap {"rekeyed", "wiped", "torn"} # {}

\* What a logout or a lockout clears stays cleared until the next login, also when
\* the 401 of an old request, an unlock or a login is under way.  The named exception,
\* "wiped": beside a rotation or a new PIN tokens are stored again, for nothing tells
\* it of the logout (docs/sprint-3-checklist.md:97 has a logout wipe the storage).
LogoutForgets ==
  signedOut /\ Idle /\ "wiped" \notin mishaps =>
    refresh = Nothing /\ verifier = NoKey /\ sessionPin = NoPin

\* Whoever is sent to the login screen without having signed out has no session
\* left on the server: the loss of an answer or of a connection is no reason.  A
\* rotation that outlives a logout can end the next session all the same.
ThrownOutWhenOver ==
  [][screen # "login" /\ screen' = "login" /\ ~signedOut' /\ "wiped" \notin mishaps =>
       refresh = Nothing \/ Family(refresh.token) \cap usable = {}]_vars
=============================================================================
