--------------------------------- MODULE Session ---------------------------------
(***************************************************************************)
(* Who the browser takes its reader for: the token every request carries,  *)
(* the two refusals a 401 raises, the answers to `who am I' that each      *)
(* change of token asks for, the gate in front of the pages and the faces  *)
(* of the page at /login.  The server is one started with --token, with    *)
(* accounts or without any yet.                                            *)
(***************************************************************************)
EXTENDS Integers, Sequences, FiniteSets

CONSTANTS
    MaxSignIns,    \* sessions the server issues
    MaxEnds,       \* sessions that end on the server: expired, or revoked
    MaxSilences,   \* times `who am I' gets no answer
    MaxPending     \* its answers under way while something is submitted

ASSUME SessionAssumption ==
    /\ MaxSignIns \in Nat \ {0} /\ MaxEnds \in Nat
    /\ MaxSilences \in Nat /\ MaxPending \in Nat

People == {"alice", "bob"}
Key == [owner |-> "token", n |-> 0]        \* the value of --token
NoToken == [owner |-> "nobody", n |-> 0]
Typo == [owner |-> "nobody", n |-> 1]

VARIABLES
    accounts,    \* the server has accounts
    sessions,    \* its live sessions: tokens [owner, n]
    issued, ended, silences,                 \* the bounds' counters
    held,        \* the token in localStorage
    refused, signInNeeded, tokenMode,        \* api/token.ts
    status, mode, user, mustChange,          \* store/auth.ts
    whoAmI,      \* answers under way, in the order they were asked for
    overtaken,   \* not in the code: the one shown was asked before one heard earlier
    route,       \* "login" or "pages"
    signingIn    \* a sign-in, a sign-out, a set-up or a token on its way

sessionVars == <<accounts, sessions, issued, ended, silences, held, refused, signInNeeded,
                 tokenMode, status, mode, user, mustChange, whoAmI, overtaken, route, signingIn>>

-----------------------------------------------------------------------------
(* The server.                                                             *)

Accepts(t) == t \in sessions \/ t = Key
Owner(t) == IF Accepts(t) THEN t.owner ELSE "nobody"

\* GET /api/auth/me; behind the token itself while there are no accounts
MeFor(t) ==
    [mode |-> IF accounts THEN "users" ELSE IF t = Key THEN "token" ELSE "none",
     user |-> Owner(t),
     passed |-> FALSE]                     \* one asked later has been heard

Asking(t) == Append(whoAmI, MeFor(t))

SessionInit ==
    /\ accounts \in BOOLEAN /\ sessions = {} /\ issued = 0 /\ ended = 0 /\ silences = 0
    /\ held = NoToken /\ refused = FALSE /\ signInNeeded = FALSE /\ tokenMode = "none"
    /\ status = "loading" /\ mode = "none" /\ user = "nobody" /\ mustChange = FALSE
    /\ whoAmI = <<MeFor(NoToken)>> /\ overtaken = FALSE
    /\ route \in {"login", "pages"} /\ signingIn = "no"

\* a session expires, or an administrator revokes it
SessionEnds ==
    /\ ended < MaxEnds /\ ended' = ended + 1
    /\ \E t \in sessions : sessions' = sessions \ {t}
    /\ UNCHANGED <<accounts, issued, silences, held, refused, signInNeeded, tokenMode,
                   status, mode, user, mustChange, whoAmI, overtaken, route, signingIn>>

-----------------------------------------------------------------------------
(* The token (api/token.ts).                                               *)

\* setApiToken: both refusals are forgotten, and who the caller is is asked again
Keeps(t) == held' = t /\ refused' = FALSE /\ signInNeeded' = FALSE

\* setServerMode: a refusal met before the mode was known is a sign-in
Learns(m) ==
    /\ tokenMode' = m
    /\ IF m = "users" /\ tokenMode # m /\ refused THEN refused' = FALSE /\ signInNeeded' = TRUE
       ELSE UNCHANGED <<refused, signInNeeded>>

\* reportUnauthorized: a page asked for something and was answered 401
PageRefused ==
    /\ route = "pages" /\ ~Accepts(held) /\ status # "loading"
    /\ IF tokenMode = "users"
       THEN ~signInNeeded /\ signInNeeded' = TRUE /\ held' = NoToken /\ UNCHANGED refused
       ELSE ~refused /\ refused' = TRUE /\ UNCHANGED <<signInNeeded, held>>
    /\ UNCHANGED <<accounts, sessions, issued, ended, silences, tokenMode, status, mode, user,
                   mustChange, whoAmI, overtaken, route, signingIn>>

\* `Not now'
TokenDismissed ==
    /\ refused /\ route = "pages" /\ refused' = FALSE /\ signInNeeded' = FALSE
    /\ UNCHANGED <<accounts, sessions, issued, ended, silences, held, tokenMode, status, mode,
                   user, mustChange, whoAmI, overtaken, route, signingIn>>

-----------------------------------------------------------------------------
(* The auth store (store/auth.ts).                                         *)

\* load neither numbers nor aborts its requests: any of those under way may come next
Comes(i) ==
    /\ whoAmI' = [j \in 1..(Len(whoAmI) - 1) |->
           IF j < i THEN [whoAmI[j] EXCEPT !.passed = TRUE] ELSE whoAmI[j + 1]]
    /\ overtaken' = whoAmI[i].passed

\* load's answer; a 401 is a --token server keeping its door shut
WhoAmIAnswered ==
    /\ \E i \in DOMAIN whoAmI :
           /\ Comes(i)
           /\ Learns(whoAmI[i].mode)
           /\ status' = "ready" /\ mode' = whoAmI[i].mode /\ user' = whoAmI[i].user
           /\ mustChange' \in IF whoAmI[i].user \in People THEN BOOLEAN ELSE {FALSE}
    /\ UNCHANGED <<accounts, sessions, issued, ended, silences, held, route, signingIn>>

\* the server could not be reached in time: nothing asks again until the token changes
WhoAmIFails ==
    /\ silences < MaxSilences /\ silences' = silences + 1
    /\ \E i \in DOMAIN whoAmI : Comes(i)
    /\ Learns("none")
    /\ status' = "unreachable" /\ mode' = "none" /\ user' = "nobody" /\ mustChange' = FALSE
    /\ UNCHANGED <<accounts, sessions, issued, ended, held, route, signingIn>>

\* accept: the session is kept and taken at its word; the change of token asks who it is
Accepted(t) ==
    /\ sessions' = sessions \union {t} /\ issued' = issued + 1
    /\ held' = t /\ refused' = FALSE /\ signInNeeded' = FALSE /\ tokenMode' = "users"
    /\ status' = "ready" /\ mode' = "users" /\ user' = t.owner
    /\ mustChange' \in BOOLEAN
    /\ whoAmI' = Append(whoAmI, [mode |-> "users", user |-> t.owner, passed |-> FALSE])

\* mutant: signing out forgets the token and asks nobody
SignedOutQuietly ==
    /\ Keeps(NoToken) /\ user' = "nobody" /\ mustChange' = FALSE
    /\ UNCHANGED whoAmI
\* signOut, whatever the server said: load is asked for by the change of token and again
SignedOut ==
    /\ Keeps(NoToken) /\ user' = "nobody" /\ mustChange' = FALSE
    /\ whoAmI' = Append(Asking(NoToken), MeFor(NoToken))

-----------------------------------------------------------------------------
(* The gate and the page at /login.                                        *)

SignInRequired == mode = "users" /\ (user = "nobody" \/ mustChange)

\* what the reader is looking at
Face ==
    IF status = "loading" THEN "nothing"
    ELSE IF route = "pages" THEN
        IF SignInRequired \/ signInNeeded THEN "leaving"
        ELSE IF refused THEN "token dialog" ELSE "pages"
    ELSE IF mustChange THEN "change password"
    ELSE IF mode = "token" THEN "set up"
    ELSE IF user # "nobody" THEN "leaving"
    ELSE IF mode = "none" THEN "token" ELSE "sign in"

\* <Navigate>: from the gate to /login, from /login back to where the reader was
Redirect ==
    /\ Face = "leaving" /\ route' = IF route = "login" THEN "pages" ELSE "login"
    /\ UNCHANGED <<accounts, sessions, issued, ended, silences, held, refused, signInNeeded,
                   tokenMode, status, mode, user, mustChange, whoAmI, overtaken, signingIn>>

\* the account menu's `Create the first administrator'
ToSetUp ==
    /\ Face = "pages" /\ user = "token" /\ mode = "token" /\ route' = "login"
    /\ UNCHANGED <<accounts, sessions, issued, ended, silences, held, refused, signInNeeded,
                   tokenMode, status, mode, user, mustChange, whoAmI, overtaken, signingIn>>

\* one form at a time is on its way, whichever part of the page holds it
SignInForm == Face = "sign in" /\ signingIn' = "sign in"
SetupForm == Face = "set up" /\ signingIn' = "set up"
TokenForm == Face = "token" /\ signingIn' = "token"
TokenDialog == Face = "token dialog" /\ signingIn' = "token"
ChangeForm == Face = "change password" /\ signingIn' \in {"change", "sign out"}
AccountMenu == Face = "pages" /\ user \in People /\ signingIn' = "sign out"

Submit ==
    /\ signingIn = "no" /\ Len(whoAmI) <= MaxPending
    /\ \/ SignInForm \/ SetupForm \/ TokenForm \/ TokenDialog \/ ChangeForm \/ AccountMenu
    /\ UNCHANGED <<accounts, sessions, issued, ended, silences, held, refused, signInNeeded,
                   tokenMode, status, mode, user, mustChange, whoAmI, overtaken, route>>

SignInAnswered ==
    /\ signingIn \in {"sign in", "set up"} /\ signingIn' = "no"
    /\ issued < MaxSignIns
    /\ signingIn = "set up" => held = Key /\ ~accounts
    /\ signingIn = "sign in" => accounts
    /\ accounts' = TRUE
    /\ \E who \in People : Accepted([owner |-> who, n |-> issued + 1])
    /\ UNCHANGED <<ended, silences, overtaken, route>>

\* a wrong pair, a server with accounts already, no answer: the form says so
SubmitRefused ==
    /\ signingIn \in {"sign in", "set up", "token", "change"} /\ signingIn' = "no"
    /\ UNCHANGED <<accounts, sessions, issued, ended, silences, held, refused, signInNeeded,
                   tokenMode, status, mode, user, mustChange, whoAmI, overtaken, route>>

\* a token is kept once /api/health has taken it: with accounts it takes any
TokenTried ==
    /\ signingIn = "token" /\ signingIn' = "no"
    /\ \E t \in IF accounts THEN {Key, Typo} ELSE {Key} : Keeps(t) /\ whoAmI' = Asking(t)
    /\ UNCHANGED <<accounts, sessions, issued, ended, silences, tokenMode, status, mode, user,
                   mustChange, overtaken, route>>

PasswordChanged ==
    /\ signingIn = "change" /\ signingIn' = "no" /\ held \in sessions
    /\ whoAmI' = Asking(held)
    /\ UNCHANGED <<accounts, sessions, issued, ended, silences, held, refused, signInNeeded,
                   tokenMode, status, mode, user, mustChange, overtaken, route>>

SignOutAnswered ==
    /\ signingIn = "sign out" /\ signingIn' = "no"
    /\ sessions' = sessions \ {held}
    /\ SignedOut
    /\ UNCHANGED <<accounts, issued, ended, silences, tokenMode, status, mode, overtaken,
                   route>>

SessionNext ==
    \/ SessionEnds \/ PageRefused \/ TokenDismissed \/ WhoAmIAnswered \/ WhoAmIFails
    \/ Redirect \/ ToSetUp \/ Submit \/ SignInAnswered \/ SubmitRefused \/ TokenTried
    \/ PasswordChanged \/ SignOutAnswered

\* answers arrive, and a redirect is carried out
SessionFairness ==
    /\ WF_sessionVars(WhoAmIAnswered) /\ WF_sessionVars(Redirect)

SessionSpec == SessionInit /\ [][SessionNext]_sessionVars /\ SessionFairness

-----------------------------------------------------------------------------
\* As long as no session ends by itself: once every answer is in, the person the pages
\* are drawn for is the one whose session the browser holds, whichever tokens were
\* tried, kept and given up on the way (hooks in App.tsx, accept, and signOut's own
\* load).  Except when the answer heard last was asked before one heard earlier: load
\* does not look at the order, so whoever signs out before the answer of their own
\* sign-in is in, and hears it last, is shown signed in with no token held.
SessionAgrees ==
    (whoAmI = <<>> /\ ~overtaken /\ user \in People /\ ended = 0) => held.owner = user

\* A session that has ended asks for a sign-in: `on a server with accounts, a 401 means
\* the session has gone instead: the page sends you to the sign-in form and back to
\* where you were' (docs/web-user.md:489-491).
SignInAsked == signInNeeded ~> (Face \in {"sign in", "change password"} \/ ~signInNeeded)
=============================================================================
