------------------------------ MODULE PagesProofs ------------------------------
(***************************************************************************)
(* What the pages of the browser promise their reader, for any number of   *)
(* questions, sessions, files, runs and answers, in whatever order.        *)
(***************************************************************************)
EXTENDS AiThread, Session, FlowsPage, RunView, SequenceTheorems, TLAPS

(***************************************************************************)
(* Session: the answer asked last is the one for the token held.           *)
(***************************************************************************)
Owners == People \cup {"nobody", "token"}
Tokens == [owner : Owners, n : Nat]
Answers == [mode : {"users", "token", "none"}, user : Owners, passed : BOOLEAN]

SessionTyped ==
    /\ sessions \subseteq Tokens /\ held \in Tokens
    /\ issued \in Nat /\ ended \in Nat
    /\ whoAmI \in Seq(Answers) /\ user \in Owners /\ overtaken \in BOOLEAN

\* A token the server does not know belongs to nobody, as long as no session ends by
\* itself; so a page that gives one up changes nobody's mind.
Known == ended = 0 => Accepts(held) \/ held.owner = "nobody"

\* The answer asked last of those under way, or the one on show: unless one asked after
\* it has been heard before it, the token held is its person's.
LastAsked == whoAmI[Len(whoAmI)]
AtLast == IF whoAmI = <<>> THEN user ELSE LastAsked.user
Passed == IF whoAmI = <<>> THEN overtaken ELSE LastAsked.passed
LastWord == ended = 0 /\ ~Passed /\ AtLast \in People => held.owner = AtLast

SessionInv == SessionTyped /\ Known /\ LastWord

LEMMA TokensKnown ==
    /\ Key \in Tokens /\ NoToken \in Tokens /\ Typo \in Tokens
    /\ NoToken.owner = "nobody" /\ Typo.owner = "nobody"
    /\ Key.owner = "token" /\ Key.owner \notin People /\ "nobody" \notin People
  BY DEF Key, NoToken, Typo, Tokens, Owners, People

\* The answer for a token names its owner, or nobody.
LEMMA MeOwner ==
    ASSUME NEW t \in Tokens
    PROVE  MeFor(t) \in Answers /\ MeFor(t).user \in {t.owner, "nobody"} /\ ~MeFor(t).passed
  BY DEF MeFor, Owner, Answers, Owners, Tokens

LEMMA LastOfAppend ==
    ASSUME NEW S, NEW s \in Seq(S), NEW x \in S
    PROVE  /\ Append(s, x) \in Seq(S) /\ Append(s, x) # <<>>
           /\ Append(s, x)[Len(Append(s, x))] = x
  OBVIOUS

\* An answer comes: the one asked last stays the last, or has come past those before it.
LEMMA ComesTyped ==
    ASSUME SessionTyped, NEW i \in DOMAIN whoAmI, Comes(i)
    PROVE  /\ whoAmI' \in Seq(Answers) /\ overtaken' \in BOOLEAN
           /\ Len(whoAmI') = Len(whoAmI) - 1
  <1>1. whoAmI \in Seq(Answers) /\ Len(whoAmI) \in Nat /\ i \in 1..Len(whoAmI)
    BY DEF SessionTyped
  <1>2. \A j \in 1..Len(whoAmI) : whoAmI[j] \in Answers
    BY <1>1
  <1> DEFINE left == [j \in 1..(Len(whoAmI) - 1) |->
                 IF j < i THEN [whoAmI[j] EXCEPT !.passed = TRUE] ELSE whoAmI[j + 1]]
  <1>3. whoAmI' = left /\ overtaken' = whoAmI[i].passed
    BY DEF Comes
  <1>4. \A a \in Answers : [a EXCEPT !.passed = TRUE] \in Answers
    BY DEF Answers
  <1>5. ASSUME NEW j \in 1..(Len(whoAmI) - 1)
        PROVE  (IF j < i THEN [whoAmI[j] EXCEPT !.passed = TRUE] ELSE whoAmI[j + 1]) \in Answers
    <2>1. j \in 1..Len(whoAmI) /\ j + 1 \in 1..Len(whoAmI)
      BY <1>1
    <2> QED
      BY <1>2, <1>4, <2>1
  <1>6. left \in [1..(Len(whoAmI) - 1) -> Answers]
    BY <1>5
  <1>7. Len(whoAmI) - 1 \in Nat
    BY <1>1
  <1> HIDE DEF left
  <1>8. left \in Seq(Answers) /\ Len(left) = Len(whoAmI) - 1
    BY <1>6, <1>7
  <1> QED
    BY <1>1, <1>2, <1>3, <1>8 DEF Answers

LEMMA ComesLast ==
    ASSUME SessionTyped, NEW i \in DOMAIN whoAmI, Comes(i)
    PROVE  \/ whoAmI' = <<>> /\ LastAsked = whoAmI[i] /\ whoAmI # <<>>
           \/ whoAmI' # <<>> /\ whoAmI # <<>> /\ LastAsked' = LastAsked
           \/ whoAmI' # <<>> /\ LastAsked'.passed
  <1>1. whoAmI \in Seq(Answers) /\ Len(whoAmI) \in Nat /\ i \in 1..Len(whoAmI) /\ whoAmI # <<>>
    BY DEF SessionTyped
  <1>2. whoAmI' \in Seq(Answers) /\ Len(whoAmI') = Len(whoAmI) - 1
    BY ComesTyped
  <1>3. CASE whoAmI' = <<>>
    <2>1. Len(whoAmI') = 0
      BY <1>3
    <2>2. i = Len(whoAmI)
      BY <1>1, <1>2, <2>1
    <2> QED
      BY <1>1, <1>3, <2>2 DEF LastAsked
  <1>4. CASE whoAmI' # <<>>
    <2> DEFINE k == Len(whoAmI) - 1
    <2>1. k \in 1..k /\ k \in 1..Len(whoAmI) /\ Len(whoAmI') = k /\ k + 1 = Len(whoAmI)
      BY <1>1, <1>2, <1>4
    <2>2. whoAmI'[k] = IF k < i THEN [whoAmI[k] EXCEPT !.passed = TRUE] ELSE whoAmI[k + 1]
      BY <2>1 DEF Comes
    <2>3. whoAmI[k] \in Answers
      BY <1>1, <2>1
    <2>4. k < i => [whoAmI[k] EXCEPT !.passed = TRUE].passed
      BY <2>3 DEF Answers
    <2>5. LastAsked' = whoAmI'[k]
      BY <2>1 DEF LastAsked
    <2>6. LastAsked = whoAmI[k + 1]
      BY <2>1 DEF LastAsked
    <2> HIDE DEF k
    <2> QED
      BY <1>1, <1>4, <2>2, <2>4, <2>5, <2>6
  <1> QED
    BY <1>3, <1>4

LEMMA SessionInitial == SessionInit => SessionInv
  <1> SUFFICES ASSUME SessionInit  PROVE SessionInv
    OBVIOUS
  <1>1. MeFor(NoToken) \in Answers /\ MeFor(NoToken).user = "nobody"
    BY TokensKnown, MeOwner
  <1>0. whoAmI = <<MeFor(NoToken)>> /\ overtaken \in BOOLEAN
    BY DEF SessionInit
  <1>2. Len(whoAmI) = 1 /\ whoAmI[1] = MeFor(NoToken) /\ whoAmI # <<>>
    BY <1>0
  <1>3. SessionTyped
    BY <1>0, <1>1, TokensKnown DEF SessionTyped, SessionInit, Owners
  <1>4. AtLast = "nobody"
    BY <1>1, <1>2 DEF AtLast, LastAsked
  <1> QED
    BY <1>3, <1>4, TokensKnown DEF SessionInv, Known, LastWord, SessionInit

\* A token is kept, or who holds it is asked again: the last answer is for it.
LEMMA AskedForHeld ==
    ASSUME SessionTyped, NEW m \in Answers, held' \in Tokens,
           whoAmI' = Append(whoAmI, m), m.user \in {held'.owner, "nobody"}
    PROVE  LastWord'
  <1>1. whoAmI' # <<>> /\ whoAmI'[Len(whoAmI')] = m
    BY LastOfAppend DEF SessionTyped
  <1>2. AtLast' = m.user
    BY <1>1 DEF AtLast, LastAsked
  <1> QED
    BY <1>2, TokensKnown DEF LastWord

LEMMA SessionStep == SessionInv /\ [SessionNext]_sessionVars => SessionInv'
  <1> SUFFICES ASSUME SessionInv, [SessionNext]_sessionVars  PROVE SessionInv'
    OBVIOUS
  <1>0. SessionTyped /\ Known /\ LastWord
    BY DEF SessionInv
  <1>1. CASE SessionEnds
    <2>1. ended' = ended + 1 /\ ended' # 0 /\ ended' \in Nat
      BY <1>0, <1>1 DEF SessionEnds, SessionTyped
    <2> QED
      BY <1>0, <1>1, <2>1 DEF SessionEnds, SessionInv, SessionTyped, Known, LastWord
  <1>2. CASE PageRefused
    <2>1. held' \in {held, NoToken} /\ (ended = 0 => held.owner = "nobody")
      BY <1>0, <1>2 DEF PageRefused, Known
    <2>2. UNCHANGED <<sessions, issued, ended, whoAmI, overtaken, user>>
      BY <1>2 DEF PageRefused
    <2>3. AtLast' = AtLast /\ (Passed' <=> Passed)
      BY <2>2 DEF AtLast, Passed, LastAsked
    <2>4. ended = 0 => held'.owner = "nobody"
      BY <2>1, TokensKnown
    <2>5. SessionTyped'
      BY <1>0, <2>1, <2>2, TokensKnown DEF SessionTyped
    <2>6. LastWord'
      BY <1>0, <2>1, <2>2, <2>3, <2>4, TokensKnown DEF LastWord
    <2> QED
      BY <2>2, <2>4, <2>5, <2>6 DEF SessionInv, Known
  <1>3. CASE WhoAmIAnswered \/ WhoAmIFails
    <2>1. UNCHANGED <<sessions, issued, ended, held>>
      BY <1>3 DEF WhoAmIAnswered, WhoAmIFails
    <2>2. PICK i \in DOMAIN whoAmI : Comes(i) /\ user' \in {whoAmI[i].user, "nobody"}
      BY <1>3 DEF WhoAmIAnswered, WhoAmIFails
    <2>3. whoAmI[i] \in Answers /\ whoAmI' \in Seq(Answers) /\ overtaken' \in BOOLEAN
      BY <1>0, <2>2, ComesTyped DEF SessionTyped
    <2>4. SessionTyped'
      BY <1>0, <2>1, <2>2, <2>3 DEF SessionTyped, Answers, Owners
    <2>5. LastWord'
      <3>1. CASE whoAmI' = <<>> /\ LastAsked = whoAmI[i] /\ whoAmI # <<>>
        <4>1. AtLast = whoAmI[i].user /\ AtLast' = user'
          BY <3>1 DEF AtLast
        <4>2. Passed = whoAmI[i].passed /\ Passed' = whoAmI[i].passed
          BY <2>2, <3>1 DEF Passed, Comes
        <4> QED
          BY <1>0, <2>1, <2>2, <4>1, <4>2, TokensKnown DEF LastWord
      <3>2. CASE whoAmI' # <<>> /\ whoAmI # <<>> /\ LastAsked' = LastAsked
        <4>1. AtLast' = AtLast /\ Passed' = Passed
          BY <3>2 DEF AtLast, Passed
        <4> QED
          BY <1>0, <2>1, <4>1 DEF LastWord
      <3>3. CASE whoAmI' # <<>> /\ LastAsked'.passed
        BY <3>3 DEF LastWord, Passed
      <3> QED
        BY <1>0, <2>2, <3>1, <3>2, <3>3, ComesLast
    <2>6. Known'
      BY <1>0, <2>1 DEF Known, Accepts
    <2> QED
      BY <2>4, <2>5, <2>6 DEF SessionInv
  <1>4. CASE SignInAnswered
    <2>1. PICK who \in People : Accepted([owner |-> who, n |-> issued + 1])
      BY <1>4 DEF SignInAnswered
    <2> DEFINE t == [owner |-> who, n |-> issued + 1]
               m == [mode |-> "users", user |-> t.owner, passed |-> FALSE]
    <2>2. t \in Tokens /\ t.owner = who /\ who \in Owners
      BY <1>0 DEF SessionTyped, Tokens, Owners
    <2>3. m \in Answers /\ m.user = who
      BY <2>2 DEF Answers
    <2>4. /\ sessions' = sessions \cup {t} /\ issued' = issued + 1 /\ held' = t /\ user' = who
          /\ whoAmI' = Append(whoAmI, m)
      BY <2>1, <2>2 DEF Accepted
    <2> HIDE DEF t, m
    <2>5. UNCHANGED <<ended, overtaken>>
      BY <1>4 DEF SignInAnswered
    <2>6. SessionTyped'
      BY <1>0, <2>2, <2>3, <2>4, <2>5, LastOfAppend DEF SessionTyped
    <2>7. LastWord'
      BY <1>0, <2>2, <2>3, <2>4, AskedForHeld
    <2> QED
      BY <2>4, <2>6, <2>7 DEF SessionInv, Known, Accepts
  <1>5. CASE TokenTried
    <2>1. PICK t \in {Key, Typo} : Keeps(t) /\ whoAmI' = Asking(t)
      BY <1>5 DEF TokenTried
    <2>2. t \in Tokens /\ held' = t /\ whoAmI' = Append(whoAmI, MeFor(t))
          /\ MeFor(t) \in Answers /\ MeFor(t).user \in {t.owner, "nobody"}
      BY <2>1, TokensKnown, MeOwner DEF Keeps, Asking
    <2>3. UNCHANGED <<sessions, issued, ended, user, overtaken>>
      BY <1>5 DEF TokenTried
    <2>4. SessionTyped'
      BY <1>0, <2>2, <2>3, LastOfAppend DEF SessionTyped
    <2>5. LastWord'
      BY <1>0, <2>2, AskedForHeld
    <2>6. Known'
      BY <2>1, <2>2, TokensKnown DEF Known, Accepts
    <2> QED
      BY <2>4, <2>5, <2>6 DEF SessionInv
  <1>6. CASE PasswordChanged
    <2>1. /\ UNCHANGED <<sessions, issued, ended, user, held, overtaken>>
          /\ whoAmI' = Append(whoAmI, MeFor(held))
      BY <1>6 DEF PasswordChanged, Asking
    <2>2. held \in Tokens /\ MeFor(held) \in Answers /\ MeFor(held).user \in {held.owner, "nobody"}
      BY <1>0, MeOwner DEF SessionTyped
    <2>3. SessionTyped'
      BY <1>0, <2>1, <2>2, LastOfAppend DEF SessionTyped
    <2>4. LastWord'
      BY <1>0, <2>1, <2>2, AskedForHeld
    <2> QED
      BY <1>0, <2>1, <2>3, <2>4 DEF SessionInv, Known, Accepts
  <1>7. CASE SignOutAnswered
    <2> DEFINE m == MeFor(NoToken)
    <2>1. /\ sessions' = sessions \ {held} /\ held' = NoToken /\ user' = "nobody"
          /\ whoAmI' = Append(Append(whoAmI, m), m) /\ UNCHANGED <<issued, ended, overtaken>>
      BY <1>7 DEF SignOutAnswered, SignedOut, Keeps, Asking
    <2>2. m \in Answers /\ m.user = "nobody"
      BY TokensKnown, MeOwner
    <2> HIDE DEF m
    <2>3. Append(whoAmI, m) \in Seq(Answers)
      BY <1>0, <2>2, LastOfAppend DEF SessionTyped
    <2>4. whoAmI' \in Seq(Answers) /\ whoAmI' # <<>> /\ whoAmI'[Len(whoAmI')] = m
      BY <2>1, <2>2, <2>3, LastOfAppend
    <2>5. AtLast' = "nobody"
      BY <2>2, <2>4 DEF AtLast, LastAsked
    <2>6. SessionTyped'
      BY <1>0, <2>1, <2>4, TokensKnown DEF SessionTyped, Owners
    <2> QED
      BY <2>1, <2>5, <2>6, TokensKnown DEF SessionInv, Known, LastWord
  <1>8. CASE \/ TokenDismissed \/ Redirect \/ ToSetUp \/ Submit \/ SubmitRefused
             \/ UNCHANGED sessionVars
    <2>1. UNCHANGED <<sessions, issued, ended, held, whoAmI, overtaken, user>>
      BY <1>8 DEF TokenDismissed, Redirect, ToSetUp, Submit, SubmitRefused, sessionVars
    <2> QED
      BY <1>0, <2>1 DEF SessionInv, SessionTyped, Known, Accepts, LastWord, AtLast, Passed, LastAsked
  <1> QED
    BY <1>1, <1>2, <1>3, <1>4, <1>5, <1>6, <1>7, <1>8 DEF SessionNext

\* Whoever signs in and out, whichever tokens are tried, and in whatever order the
\* answers come: as long as no session ends by itself, once every answer is in, the
\* person the pages are drawn for is the one whose session the browser holds, or the
\* answer heard last was asked before one heard earlier (load, accept and signOut of
\* store/auth.ts).
THEOREM ReaderIsHolder == SessionSpec => []SessionAgrees
  <1>1. SessionInv => SessionAgrees
    BY DEF SessionInv, SessionAgrees, LastWord, AtLast, Passed
  <1> QED
    BY <1>1, SessionInitial, SessionStep, PTL DEF SessionSpec
-----------------------------------------------------------------------------
(***************************************************************************)
(* AiThread: the last turn is the one whose request is in flight.          *)
(***************************************************************************)
Turns == [req : Nat, got : SUBSET Nat, streaming : BOOLEAN, stopped : BOOLEAN,
          ok : BOOLEAN, flow : BOOLEAN, applied : BOOLEAN]
Requests == [req : Nat, sent : Nat, ended : BOOLEAN]

AiThreadTyped ==
    /\ turns \in Seq(Turns) /\ streams \subseteq Requests
    /\ questions \in Nat /\ controller \in Nat

\* The last answer is for the one request in flight, the one Stop can abort.
OneRequest ==
    /\ controller = 0 => streams = {}
    /\ controller # 0 => /\ turns # <<>> /\ turns[Len(turns)].req = controller
                         /\ streams # {} /\ \A s \in streams : s.req = controller
    /\ \A r, s \in streams : r = s
\* Only it arrives, and it has nothing from another question.
OnlyLastArrives ==
    \A t \in 1..Len(turns) : /\ turns[t].got \subseteq {turns[t].req}
                             /\ turns[t].streaming => t = Len(turns) /\ controller # 0

AiThreadInv == AiThreadTyped /\ OneRequest /\ OnlyLastArrives

\* An event that changes the last turn, and no other, keeps the turns apart.
LEMMA LastTurnChanges ==
    ASSUME AiThreadInv, turns # <<>>, NEW x \in Turns,
           turns' = [turns EXCEPT ![Len(turns)] = x],
           x.req = turns[Len(turns)].req, x.got \subseteq {x.req},
           x.streaming => controller' # 0
    PROVE  /\ turns' \in Seq(Turns) /\ turns' # <<>> /\ turns'[Len(turns')].req = turns[Len(turns)].req
           /\ OnlyLastArrives'
  <1>1. turns \in Seq(Turns) /\ Len(turns) \in Nat /\ Len(turns) \in 1..Len(turns) /\ Len(turns) # 0
    BY DEF AiThreadInv, AiThreadTyped
  <1>2. turns' \in Seq(Turns) /\ Len(turns') = Len(turns)
    BY <1>1
  <1>3. turns'[Len(turns)] = x /\ \A t \in 1..Len(turns) : t # Len(turns) => turns'[t] = turns[t]
    BY <1>1
  <1>4. turns' # <<>>
    BY <1>1, <1>2
  <1>5. ASSUME NEW t \in 1..Len(turns')
        PROVE  /\ turns'[t].got \subseteq {turns'[t].req}
               /\ turns'[t].streaming => t = Len(turns') /\ controller' # 0
    <2>1. CASE t = Len(turns)
      BY <1>2, <1>3, <2>1
    <2>2. CASE t # Len(turns)
      <3>1. t \in 1..Len(turns) /\ turns'[t] = turns[t]
        BY <1>2, <1>3, <2>2
      <3>2. turns[t].got \subseteq {turns[t].req} /\ ~turns[t].streaming
        <4>1. turns[t].streaming => t = Len(turns)
          BY <3>1 DEF AiThreadInv, OnlyLastArrives
        <4>2. turns[t] \in Turns
          BY <1>1, <3>1
        <4> QED
          BY <2>2, <3>1, <4>1, <4>2 DEF AiThreadInv, OnlyLastArrives, Turns
      <3> QED
        BY <3>1, <3>2
    <2> QED
      BY <2>1, <2>2
  <1> QED
    BY <1>2, <1>3, <1>4, <1>5 DEF OnlyLastArrives

LEMMA AiThreadInitial == AiThreadInit => AiThreadInv
  <1> SUFFICES ASSUME AiThreadInit  PROVE AiThreadInv
    OBVIOUS
  <1>1. turns = <<>> /\ Len(turns) = 0 /\ streams = {} /\ questions = 0 /\ controller = 0
    BY DEF AiThreadInit
  <1>2. AiThreadTyped
    BY <1>1 DEF AiThreadTyped
  <1> QED
    BY <1>1, <1>2 DEF AiThreadInv, OneRequest, OnlyLastArrives

LEMMA AskedStep ==
    ASSUME ~Hasty, AiThreadInv, Asked
    PROVE  AiThreadInv'
  <1> DEFINE r == questions + 1
             x == [req |-> r, got |-> {}, streaming |-> TRUE, stopped |-> FALSE, ok |-> TRUE,
                   flow |-> FALSE, applied |-> FALSE]
             s == [req |-> r, sent |-> 0, ended |-> FALSE]
  <1>1. controller = 0 /\ streams = {} /\ turns \in Seq(Turns) /\ r \in Nat /\ r # 0
    BY DEF Asked, AiThreadInv, AiThreadTyped, OneRequest
  <1>2. questions' = r /\ turns' = Append(turns, x) /\ controller' = r /\ streams' = {s}
    BY <1>1 DEF Asked
  <1>3. x \in Turns /\ s \in Requests /\ x.req = r /\ x.got = {} /\ s.req = r
    BY <1>1 DEF Turns, Requests
  <1> HIDE DEF x, s, r
  <1>4. turns' \in Seq(Turns) /\ turns' # <<>> /\ turns'[Len(turns')] = x /\ Len(turns') = Len(turns) + 1
    BY <1>1, <1>2, <1>3
  <1>5. ASSUME NEW t \in 1..Len(turns')
        PROVE  /\ turns'[t].got \subseteq {turns'[t].req}
               /\ turns'[t].streaming => t = Len(turns') /\ controller' # 0
    <2>1. CASE t = Len(turns')
      BY <1>1, <1>2, <1>3, <1>4, <2>1
    <2>2. CASE t # Len(turns')
      <3>1. t \in 1..Len(turns) /\ turns'[t] = turns[t]
        BY <1>1, <1>2, <1>3, <1>4, <2>2
      <3> QED
        BY <1>1, <3>1 DEF AiThreadInv, OnlyLastArrives
    <2> QED
      BY <2>1, <2>2
  <1>6. AiThreadTyped'
    BY <1>1, <1>2, <1>3, <1>4 DEF AiThreadTyped
  <1>7. OneRequest'
    BY <1>1, <1>2, <1>3, <1>4 DEF OneRequest
  <1> QED
    BY <1>5, <1>6, <1>7 DEF AiThreadInv, OnlyLastArrives

\* The turn is closed by Stop, or when its stream ends.
LEMMA RequestOver ==
    ASSUME AiThreadInv, controller' = 0, questions' = questions,
           streams' = {}, turns # <<>>, NEW x \in Turns,
           turns' = [turns EXCEPT ![Len(turns)] = x],
           x.req = turns[Len(turns)].req, x.got \subseteq {x.req}, ~x.streaming
    PROVE  AiThreadInv'
  <1>1. turns' \in Seq(Turns) /\ OnlyLastArrives'
    BY LastTurnChanges
  <1> QED
    BY <1>1 DEF AiThreadInv, AiThreadTyped, OneRequest

\* What a request says lands on the last turn.
LEMMA RequestGoesOn ==
    ASSUME AiThreadInv, UNCHANGED <<controller, questions>>, NEW s \in streams,
           NEW over \in BOOLEAN, Sent(s, over), NEW x \in Turns,
           turns' = [turns EXCEPT ![Len(turns)] = x],
           x.req = turns[Len(turns)].req, x.got = turns[Len(turns)].got \cup {s.req},
           x.streaming => turns[Len(turns)].streaming
    PROVE  AiThreadInv'
  <1>1. controller # 0 /\ turns # <<>> /\ turns[Len(turns)].req = controller /\ s.req = controller
        /\ \A r \in streams : r.req = controller
    BY DEF AiThreadInv, OneRequest
  <1>2. Len(turns) \in 1..Len(turns) /\ turns[Len(turns)].got \subseteq {controller}
    <2>1. turns \in Seq(Turns)
      BY DEF AiThreadInv, AiThreadTyped
    <2>2. Len(turns) \in 1..Len(turns)
      BY <1>1, <2>1
    <2> QED
      BY <1>1, <2>2 DEF AiThreadInv, OnlyLastArrives
  <1>3. turns' \in Seq(Turns) /\ turns' # <<>> /\ turns'[Len(turns')].req = controller /\ OnlyLastArrives'
    BY <1>1, <1>2, LastTurnChanges
  <1> DEFINE u == [s EXCEPT !.sent = @ + 1, !.ended = over]
  <1>4. s \in Requests /\ u \in Requests /\ u.req = s.req
    <2>1. s \in Requests
      BY DEF AiThreadInv, AiThreadTyped
    <2>2. s.sent + 1 \in Nat
      BY <2>1 DEF Requests
    <2> QED
      BY <2>1, <2>2 DEF Requests
  <1>5. streams' = (streams \ {s}) \cup {u}
    BY DEF Sent
  <1> HIDE DEF u
  <1>6. streams' # {} /\ streams' \subseteq Requests /\ \A r \in streams' : r = u
    BY <1>1, <1>4, <1>5 DEF AiThreadInv, AiThreadTyped, OneRequest
  <1> QED
    BY <1>1, <1>3, <1>4, <1>6 DEF AiThreadInv, AiThreadTyped, OneRequest

LEMMA AiThreadStep == ~Hasty => (AiThreadInv /\ [AiThreadNext]_aiThreadVars => AiThreadInv')
  <1> SUFFICES ASSUME ~Hasty, AiThreadInv, [AiThreadNext]_aiThreadVars  PROVE AiThreadInv'
    OBVIOUS
  <1>0. /\ turns \in Seq(Turns) /\ streams \subseteq Requests /\ controller \in Nat
        /\ (streams # {} => turns # <<>> /\ controller # 0)
    BY DEF AiThreadInv, AiThreadTyped, OneRequest
  <1> DEFINE L == Len(turns)
  <1>00. turns # <<>> => L \in 1..L /\ turns[L] \in Turns /\ turns[L].got \subseteq {turns[L].req}
    <2>1. turns # <<>> => L \in 1..L
      BY <1>0
    <2> QED
      BY <1>0, <2>1 DEF AiThreadInv, OnlyLastArrives
  <1>1. CASE Ask \/ (TakePrimed /\ Asked)
    BY <1>1, AskedStep DEF Ask
  <1>2. CASE StopAnswer
    <2>1. turns # <<>> /\ controller # 0 /\ turns[L].streaming
      <3>1. PICK t \in DOMAIN turns : turns[t].streaming
        BY <1>2 DEF StopAnswer, Streaming
      <3>2. t \in 1..Len(turns) /\ turns # <<>>
        BY <1>0, <3>1
      <3> QED
        BY <3>1, <3>2 DEF AiThreadInv, OnlyLastArrives
    <2> DEFINE x == [turns[L] EXCEPT !.streaming = FALSE, !.stopped = TRUE, !.ok = FALSE]
    <2>2. turns' = [turns EXCEPT ![L] = x]
      BY <1>2, <2>1 DEF StopAnswer, OnLast, StopTurn
    <2>3. x \in Turns /\ x.req = turns[L].req /\ x.got = turns[L].got /\ ~x.streaming
      BY <1>00, <2>1 DEF Turns
    <2>4. streams' = {} /\ controller' = 0 /\ questions' = questions
      BY <1>2, <2>1 DEF StopAnswer, AiThreadInv, OneRequest
    <2> HIDE DEF x
    <2> QED
      BY <1>00, <2>1, <2>2, <2>3, <2>4, RequestOver
  <1>3. CASE Clear
    <2>1. streams' = {}
      BY <1>3 DEF Clear, AiThreadInv, OneRequest
    <2>2. turns' = <<>> /\ Len(turns') = 0 /\ controller' = 0 /\ questions' = questions
      BY <1>3 DEF Clear
    <2> QED
      BY <2>1, <2>2 DEF AiThreadInv, AiThreadTyped, OneRequest, OnlyLastArrives
  <1>4. CASE Apply
    <2>1. PICK t \in DOMAIN turns : turns' = [turns EXCEPT ![t].applied = TRUE]
      BY <1>4 DEF Apply
    <2>2. /\ turns' \in Seq(Turns) /\ Len(turns') = Len(turns)
          /\ \A u \in 1..Len(turns) : /\ turns'[u].req = turns[u].req /\ turns'[u].got = turns[u].got
                                       /\ turns'[u].streaming = turns[u].streaming
      <3>1. t \in 1..Len(turns) /\ turns[t] \in Turns
        BY <1>0
      <3> DEFINE x == [turns[t] EXCEPT !.applied = TRUE]
      <3>2. x \in Turns /\ x.req = turns[t].req /\ x.got = turns[t].got /\ x.streaming = turns[t].streaming
        BY <3>1 DEF Turns
      <3>3. turns' = [turns EXCEPT ![t] = x]
        BY <2>1
      <3> HIDE DEF x
      <3> QED
        BY <1>0, <3>1, <3>2, <3>3
    <2>3. UNCHANGED <<controller, streams, questions>>
      BY <1>4 DEF Apply
    <2>4. turns # <<>> => turns' # <<>> /\ turns'[Len(turns')].req = turns[L].req
      BY <1>0, <1>00, <2>2
    <2> QED
      BY <2>2, <2>3, <2>4 DEF AiThreadInv, AiThreadTyped, OneRequest, OnlyLastArrives
  <1>5. CASE EventLands
    <2>1. PICK s \in streams : /\ Sent(s, FALSE)
                               /\ turns' = OnLast(LAMBDA t : [t EXCEPT !.got = @ \union {s.req}])
      BY <1>5 DEF EventLands
    <2> DEFINE x == [turns[L] EXCEPT !.got = @ \union {s.req}]
    <2>2. turns # <<>> /\ s.req \in Nat
      BY <1>0 DEF Requests
    <2>3. turns' = [turns EXCEPT ![L] = x]
      BY <2>1, <2>2 DEF OnLast
    <2>4. /\ x \in Turns /\ x.req = turns[L].req /\ x.got = turns[L].got \cup {s.req}
          /\ x.streaming = turns[L].streaming
      BY <1>00, <2>2 DEF Turns
    <2> HIDE DEF x
    <2> QED
      BY <1>5, <2>1, <2>3, <2>4, RequestGoesOn DEF EventLands
  <1>6. CASE FlowLands
    <2>1. PICK s \in streams :
             /\ Sent(s, FALSE)
             /\ turns' = OnLast(LAMBDA t : [t EXCEPT !.got = @ \union {s.req}, !.flow = TRUE,
                                                  !.applied = FALSE])
      BY <1>6 DEF FlowLands
    <2> DEFINE x == [turns[L] EXCEPT !.got = @ \union {s.req}, !.flow = TRUE, !.applied = FALSE]
    <2>2. turns # <<>> /\ s.req \in Nat
      BY <1>0 DEF Requests
    <2>3. turns' = [turns EXCEPT ![L] = x]
      BY <2>1, <2>2 DEF OnLast
    <2>4. /\ x \in Turns /\ x.req = turns[L].req /\ x.got = turns[L].got \cup {s.req}
          /\ x.streaming = turns[L].streaming
      BY <1>00, <2>2 DEF Turns
    <2> HIDE DEF x
    <2> QED
      BY <1>6, <2>1, <2>3, <2>4, RequestGoesOn DEF FlowLands
  <1>7. CASE AnswerEnds
    <2>1. PICK s \in streams, ok \in BOOLEAN :
             /\ Sent(s, TRUE)
             /\ turns' = OnLast(LAMBDA t : [t EXCEPT !.got = @ \union {s.req}, !.streaming = FALSE,
                                                  !.ok = ok])
      BY <1>7 DEF AnswerEnds
    <2> DEFINE x == [turns[L] EXCEPT !.got = @ \union {s.req}, !.streaming = FALSE, !.ok = ok]
    <2>2. turns # <<>> /\ s.req \in Nat
      BY <1>0 DEF Requests
    <2>3. turns' = [turns EXCEPT ![L] = x]
      BY <2>1, <2>2 DEF OnLast
    <2>4. /\ x \in Turns /\ x.req = turns[L].req /\ x.got = turns[L].got \cup {s.req}
          /\ ~x.streaming
      BY <1>00, <2>2 DEF Turns
    <2> HIDE DEF x
    <2> QED
      BY <1>7, <2>1, <2>3, <2>4, RequestGoesOn DEF AnswerEnds
  <1>8. CASE StreamEnds
    <2>1. PICK s \in streams, failed \in BOOLEAN :
             /\ streams' = streams \ {s} /\ controller' = 0
             /\ turns' = OnLast(LAMBDA t : [t EXCEPT !.streaming = FALSE, !.ok = @ /\ ~failed])
      BY <1>8 DEF StreamEnds
    <2> DEFINE x == [turns[L] EXCEPT !.streaming = FALSE, !.ok = @ /\ ~failed]
    <2>2. turns # <<>>
      BY <1>0
    <2>3. turns' = [turns EXCEPT ![L] = x]
      BY <2>1, <2>2 DEF OnLast
    <2>4. x \in Turns /\ x.req = turns[L].req /\ x.got = turns[L].got /\ ~x.streaming
      BY <1>00, <2>2 DEF Turns
    <2>5. streams' = {}
      BY <2>1 DEF AiThreadInv, OneRequest
    <2>6. questions' = questions
      BY <1>8 DEF StreamEnds
    <2> HIDE DEF x
    <2> QED
      BY <1>00, <2>1, <2>2, <2>3, <2>4, <2>5, <2>6, RequestOver
  <1>9. CASE Prime \/ (TakePrimed /\ ~Asked) \/ UNCHANGED aiThreadVars
    <2>1. UNCHANGED <<turns, controller, streams, questions>>
      BY <1>9 DEF Prime, TakePrimed, aiThreadVars
    <2> QED
      BY <2>1 DEF AiThreadInv, AiThreadTyped, OneRequest, OnlyLastArrives
  <1> QED
    BY <1>1, <1>2, <1>3, <1>4, <1>5, <1>6, <1>7, <1>8, <1>9 DEF AiThreadNext

\* However many questions are asked, and wherever the events of their answers fall: as long
\* as nobody asks between an answer's end and its stream's (see Hasty), what an answer
\* shows comes from its own question, and Stop reaches the one that is arriving (`begin',
\* `settle' and `stop' of store/ai.ts).
THEOREM AnswersKeptApart == ~Hasty => (AiThreadSpec => []TurnsApart)
  <1> SUFFICES ASSUME ~Hasty  PROVE AiThreadSpec => []TurnsApart
    OBVIOUS
  <1>1. AiThreadInv /\ [AiThreadNext]_aiThreadVars => AiThreadInv'
    BY AiThreadStep
  <1>2. AiThreadInv => TurnsApart
    <2> SUFFICES ASSUME AiThreadInv  PROVE TurnsApart
      OBVIOUS
    <2>1. DOMAIN turns = 1..Len(turns)
      BY DEF AiThreadInv, AiThreadTyped
    <2> QED
      BY <2>1 DEF AiThreadInv, OneRequest, OnlyLastArrives, TurnsApart
  <1> QED
    BY <1>1, <1>2, AiThreadInitial, PTL DEF AiThreadSpec
-----------------------------------------------------------------------------
(***************************************************************************)
(* FlowsPage: a flow is at one path, its layout beside it, and the list    *)
(* asked for after a deed is the one that counts.                          *)
(***************************************************************************)
FlowsTyped ==
    /\ flowAt \in [Paths -> Nat] /\ sidecars \in [Paths -> Nat]
    /\ made \in Nat /\ deleted \subseteq 1..made
    /\ flowDeed \in [what : {"none", "create", "rename", "delete"}, path : Paths, to : Paths,
                     step : {"none", "asked", "done"}]
    /\ flowDeed.step = "none" => flowDeed = NoDeed
    /\ flowDialog \in [kind : {"none", "new", "rename", "delete"}, path : Paths]
    /\ drawing \in [path : Paths, flow : Nat]

\* A flow has one path, and is at one until it is deleted.
OnePath == \A p, q \in Paths : flowAt[p] = flowAt[q] => p = q \/ flowAt[p] = 0
NoneLost == {flowAt[p] : p \in Paths} \ {0} = (1..made) \ deleted
\* No flow is drawn by another's layout.
OwnLayout == \A p \in Paths : sidecars[p] \in {0, flowAt[p]}

\* With no deed done that the page has yet to hear of, the answer under way, or else the
\* list on screen, is of the files there are, unless something happened elsewhere.
ListTruthful ==
    flowDeed.step # "done" /\ ~toldApart =>
        /\ asksFlows.step = "answered" => asksFlows.got = {p \in Paths : There(p)}
        /\ asksFlows.step = "none" /\ listedFlows.known =>
              listedFlows.has = {p \in Paths : There(p)}

WorkspaceKept == OnePath /\ NoneLost /\ OwnLayout
FlowsInv == FlowsTyped /\ WorkspaceKept /\ ListTruthful

\* What a create, a rename or a delete makes of the workspace keeps every flow.
LEMMA DeedKeeps ==
    ASSUME FlowsTyped, WorkspaceKept, NEW p \in Paths, NEW to \in Paths,
           Create(p) \/ Rename(p, to) \/ DeleteFlow(p)
    PROVE  /\ flowAt' \in [Paths -> Nat] /\ sidecars' \in [Paths -> Nat]
           /\ made' \in Nat /\ deleted' \subseteq 1..made'
           /\ WorkspaceKept'
  <1>0. /\ flowAt \in [Paths -> Nat] /\ sidecars \in [Paths -> Nat] /\ made \in Nat
        /\ deleted \subseteq 1..made /\ OnePath /\ NoneLost /\ OwnLayout
    BY DEF FlowsTyped, WorkspaceKept
  <1>00. \A n \in Nat : (\E q \in Paths : flowAt[q] = n /\ n # 0) <=> n \in 1..made /\ n \notin deleted
    <2> SUFFICES ASSUME NEW n \in Nat
                 PROVE  (\E q \in Paths : flowAt[q] = n /\ n # 0) <=> n \in (1..made) \ deleted
      OBVIOUS
    <2>1. n \in {flowAt[q] : q \in Paths} \ {0} <=> n \in (1..made) \ deleted
      BY <1>0 DEF NoneLost
    <2> QED
      BY <2>1
  <1>1. CASE Create(p)
    <2>1. /\ flowAt[p] = 0 /\ made' = made + 1 /\ flowAt' = [flowAt EXCEPT ![p] = made + 1]
          /\ sidecars' = sidecars /\ deleted' = deleted
      BY <1>1 DEF Create, There
    <2>2. flowAt' \in [Paths -> Nat] /\ made' \in Nat /\ deleted' \subseteq 1..made'
      BY <1>0, <2>1
    <2>3. \A q \in Paths : flowAt[q] \in 0..made
      BY <1>0, <1>00
    <2>4. flowAt'[p] = made + 1 /\ \A q \in Paths : q # p => flowAt'[q] = flowAt[q]
      BY <1>0, <2>1
    <2>5. OnePath'
      BY <1>0, <2>3, <2>4 DEF OnePath
    <2>6. OwnLayout'
      BY <1>0, <2>1, <2>4 DEF OwnLayout
    <2>7. NoneLost'
      <3>1. \A n \in Nat : (\E q \in Paths : flowAt'[q] = n /\ n # 0)
                              <=> n = made + 1 \/ (\E q \in Paths : flowAt[q] = n /\ n # 0)
        BY <1>0, <2>1, <2>4
      <3>2. \A n \in Nat : n \in 1..made' /\ n \notin deleted'
                              <=> n = made + 1 \/ (n \in 1..made /\ n \notin deleted)
        BY <1>0, <2>1
      <3>3. \A n \in Nat : (\E q \in Paths : flowAt'[q] = n /\ n # 0)
                              <=> n \in 1..made' /\ n \notin deleted'
        BY <1>00, <3>1, <3>2
      <3> QED
        BY <2>2, <3>3 DEF NoneLost
    <2> QED
      BY <1>0, <2>1, <2>2, <2>5, <2>6, <2>7 DEF WorkspaceKept
  <1>2. CASE Rename(p, to)
    <2>1. /\ flowAt[p] # 0 /\ flowAt[to] = 0 /\ p # to /\ made' = made /\ deleted' = deleted
          /\ flowAt' = [flowAt EXCEPT ![p] = 0, ![to] = flowAt[p]]
          /\ sidecars' = [sidecars EXCEPT ![p] = 0,
                                          ![to] = IF sidecars[p] = 0 THEN @ ELSE sidecars[p]]
      BY <1>2 DEF Rename, There
    <2>2. /\ flowAt' \in [Paths -> Nat] /\ flowAt'[p] = 0 /\ flowAt'[to] = flowAt[p]
          /\ \A q \in Paths : q # p /\ q # to => flowAt'[q] = flowAt[q]
      BY <1>0, <2>1
    <2>3. /\ sidecars' \in [Paths -> Nat] /\ sidecars'[p] = 0
          /\ sidecars'[to] \in {sidecars[to], sidecars[p]}
          /\ \A q \in Paths : q # p /\ q # to => sidecars'[q] = sidecars[q]
      BY <1>0, <2>1
    <2>4. OnePath'
      BY <1>0, <2>1, <2>2 DEF OnePath
    <2>5. OwnLayout'
      <3>1. sidecars[to] = 0 /\ sidecars[p] \in {0, flowAt[p]}
        BY <1>0, <2>1 DEF OwnLayout
      <3> QED
        BY <1>0, <2>1, <2>2, <2>3, <3>1 DEF OwnLayout
    <2>6. NoneLost'
      <3>1. {flowAt'[q] : q \in Paths} = {flowAt[q] : q \in Paths}
        BY <2>1, <2>2
      <3> QED
        BY <1>0, <2>1, <3>1 DEF NoneLost
    <2> QED
      BY <1>0, <2>1, <2>2, <2>3, <2>4, <2>5, <2>6 DEF WorkspaceKept
  <1>3. CASE DeleteFlow(p)
    <2>1. /\ flowAt[p] # 0 /\ made' = made /\ deleted' = deleted \cup {flowAt[p]}
          /\ flowAt' = [flowAt EXCEPT ![p] = 0] /\ sidecars' = [sidecars EXCEPT ![p] = 0]
      BY <1>3 DEF DeleteFlow, There
    <2>2. /\ flowAt' \in [Paths -> Nat] /\ sidecars' \in [Paths -> Nat]
          /\ flowAt'[p] = 0 /\ sidecars'[p] = 0
          /\ \A q \in Paths : q # p => flowAt'[q] = flowAt[q] /\ sidecars'[q] = sidecars[q]
      BY <1>0, <2>1
    <2>3. flowAt[p] \in 1..made
      BY <1>0, <1>00, <2>1
    <2>4. OnePath' /\ OwnLayout'
      BY <1>0, <2>2 DEF OnePath, OwnLayout
    <2>5. NoneLost'
      <3>1. \A n \in Nat : (\E q \in Paths : flowAt'[q] = n /\ n # 0)
                              <=> n # flowAt[p] /\ (\E q \in Paths : flowAt[q] = n /\ n # 0)
        BY <1>0, <2>1, <2>2 DEF OnePath
      <3>2. \A n \in Nat : (\E q \in Paths : flowAt'[q] = n /\ n # 0)
                              <=> n \in 1..made' /\ n \notin deleted'
        BY <1>00, <2>1, <3>1
      <3> QED
        BY <1>0, <2>1, <2>2, <3>2 DEF NoneLost
    <2> QED
      BY <1>0, <2>1, <2>2, <2>3, <2>4, <2>5 DEF WorkspaceKept
  <1> QED
    BY <1>1, <1>2, <1>3

LEMMA FlowsInitial == FlowsInit => FlowsInv
  <1> SUFFICES ASSUME FlowsInit  PROVE FlowsInv
    OBVIOUS
  <1>1. FlowsTyped
    BY DEF FlowsInit, FlowsTyped, Paths, NoDeed, NoDialog
  <1>2. flowAt["a"] = 1 /\ flowAt["b"] = 0 /\ Paths = {"a", "b"} /\ made = 1 /\ deleted = {}
    BY DEF FlowsInit, Paths
  <1>3. NoneLost
    <2>1. {flowAt[p] : p \in Paths} = {0, 1}
      BY <1>2
    <2>2. \A n : n \in 1..1 <=> n = 1
      OBVIOUS
    <2> QED
      BY <1>2, <2>1, <2>2 DEF NoneLost
  <1>4. OnePath /\ OwnLayout
    BY <1>2 DEF FlowsInit, OnePath, OwnLayout
  <1>5. ListTruthful
    BY DEF FlowsInit, ListTruthful, NoFlows
  <1> QED
    BY <1>1, <1>3, <1>4, <1>5 DEF FlowsInv, WorkspaceKept

\* With the workspace as it was, what is left to see is the page's own state.
LEMMA WorkspaceAsItWas ==
    ASSUME FlowsInv, UNCHANGED workspace
    PROVE  /\ WorkspaceKept'
           /\ flowAt' \in [Paths -> Nat] /\ sidecars' \in [Paths -> Nat]
           /\ made' \in Nat /\ deleted' \subseteq 1..made'
           /\ {p \in Paths : There(p)}' = {p \in Paths : There(p)}
  <1>1. flowAt' = flowAt /\ sidecars' = sidecars /\ made' = made /\ deleted' = deleted
    BY DEF workspace
  <1>2. WorkspaceKept'
    BY <1>1 DEF FlowsInv, WorkspaceKept, OnePath, NoneLost, OwnLayout
  <1> QED
    BY <1>1, <1>2 DEF FlowsInv, FlowsTyped, There

LEMMA FlowsStep == ~Lingers => (FlowsInv /\ [FlowsNext]_flowsVars => FlowsInv')
  <1> SUFFICES ASSUME ~Lingers, FlowsInv, [FlowsNext]_flowsVars  PROVE FlowsInv'
    OBVIOUS
  <1>0. FlowsTyped /\ WorkspaceKept /\ ListTruthful
    BY DEF FlowsInv
  <1>1. CASE ServerDoes
    <2>1. flowDeed.path \in Paths /\ flowDeed.to \in Paths
      BY <1>0 DEF FlowsTyped
    <2>2. \/ Create(flowDeed.path) \/ Rename(flowDeed.path, flowDeed.to)
          \/ DeleteFlow(flowDeed.path)
      BY <1>1 DEF ServerDoes, Does
    <2>3. /\ flowDeed' = [flowDeed EXCEPT !.step = "done"]
          /\ UNCHANGED <<flowDialog, drawing>>
      BY <1>1 DEF ServerDoes
    <2>4. FlowsTyped' /\ WorkspaceKept'
      BY <1>0, <2>1, <2>2, <2>3, DeedKeeps DEF FlowsTyped
    <2>5. ListTruthful'
      BY <1>0, <2>3 DEF ListTruthful, FlowsTyped
    <2> QED
      BY <2>4, <2>5 DEF FlowsInv
  <1>2. CASE \E p, q \in Paths, what \in {"create", "rename", "delete"} : DoneElsewhere(what, p, q)
    <2>1. PICK p \in Paths, q \in Paths, what \in {"create", "rename", "delete"} :
             DoneElsewhere(what, p, q)
      BY <1>2
    <2>2. Create(p) \/ Rename(p, q) \/ DeleteFlow(p)
      BY <2>1 DEF DoneElsewhere, Does
    <2>3. UNCHANGED <<flowDialog, flowDeed, drawing>> /\ toldApart'
      BY <2>1 DEF DoneElsewhere
    <2>4. FlowsTyped' /\ WorkspaceKept'
      BY <1>0, <2>2, <2>3, DeedKeeps DEF FlowsTyped
    <2> QED
      BY <2>3, <2>4 DEF FlowsInv, ListTruthful
  <1>3. CASE SaveSource
    <2>1. drawing.path \in Paths /\ Create(drawing.path)
      BY <1>0, <1>3 DEF SaveSource, FlowsTyped
    <2>2. /\ drawing' = [drawing EXCEPT !.flow = made'] /\ UNCHANGED <<flowDialog, flowDeed>>
          /\ toldApart'
      BY <1>3 DEF SaveSource
    <2>3. /\ flowAt' \in [Paths -> Nat] /\ sidecars' \in [Paths -> Nat]
          /\ made' \in Nat /\ deleted' \subseteq 1..made' /\ WorkspaceKept'
      BY <1>0, <2>1, DeedKeeps
    <2>4. FlowsTyped'
      BY <1>0, <2>2, <2>3 DEF FlowsTyped
    <2> QED
      BY <2>2, <2>3, <2>4 DEF FlowsInv, ListTruthful
  <1>4. CASE SaveLayout
    <2>1. /\ flowAt[drawing.path] = drawing.flow /\ drawing.path \in Paths /\ drawing.flow \in Nat
          /\ sidecars' = [sidecars EXCEPT ![drawing.path] = drawing.flow]
          /\ UNCHANGED <<flowAt, made, deleted, listOfFlows, flowDialog, flowDeed, drawing, toldApart>>
      BY <1>0, <1>4 DEF SaveLayout, FlowsTyped
    <2>2. /\ sidecars' \in [Paths -> Nat] /\ sidecars'[drawing.path] = flowAt[drawing.path]
          /\ \A p \in Paths : p # drawing.path => sidecars'[p] = sidecars[p]
      BY <1>0, <2>1 DEF FlowsTyped
    <2>3. WorkspaceKept'
      BY <1>0, <2>1, <2>2 DEF WorkspaceKept, OnePath, NoneLost, OwnLayout
    <2>4. FlowsTyped'
      BY <1>0, <2>1, <2>2 DEF FlowsTyped
    <2>5. ListTruthful'
      BY <1>0, <2>1 DEF ListTruthful, There, listOfFlows
    <2> QED
      BY <2>3, <2>4, <2>5 DEF FlowsInv
  <1>5. CASE \/ ServerListsFlows \/ FlowsLand \/ FlowsFail \/ ListAgain \/ ComeBack
             \/ CreateDone \/ RenameOrDeleteDone \/ DeedFails \/ CloseDialog
             \/ (\E kind \in {"new", "rename", "delete"}, p \in Paths : Dialog(kind, p))
             \/ (\E what \in {"create", "rename", "delete"}, p, to \in Paths : Deed(what, p, to))
             \/ (\E p \in Paths : EditorOpens(p)) \/ UNCHANGED flowsVars
    <2>1. UNCHANGED workspace
      BY <1>5 DEF ServerListsFlows, FlowsLand, FlowsFail, ListAgain, ComeBack, CreateDone,
           RenameOrDeleteDone, DeedFails, CloseDialog, Dialog, Deed, EditorOpens, flowsVars,
           workspace
    <2>2. /\ WorkspaceKept'
          /\ flowAt' \in [Paths -> Nat] /\ sidecars' \in [Paths -> Nat]
          /\ made' \in Nat /\ deleted' \subseteq 1..made'
          /\ {p \in Paths : There(p)}' = {p \in Paths : There(p)}
      BY <2>1, WorkspaceAsItWas
    <2> DEFINE files == {p \in Paths : There(p)}
               Typed == /\ flowDeed \in [what : {"none", "create", "rename", "delete"}, path : Paths,
                                         to : Paths, step : {"none", "asked", "done"}]
                        /\ flowDeed.step = "none" => flowDeed = NoDeed
                        /\ flowDialog \in [kind : {"none", "new", "rename", "delete"}, path : Paths]
                        /\ drawing \in [path : Paths, flow : Nat]
    <2>3. SUFFICES
             /\ Typed'
             /\ flowDeed'.step # "done" /\ ~toldApart' =>
                   /\ asksFlows'.step = "answered" => asksFlows'.got = files
                   /\ asksFlows'.step = "none" /\ listedFlows'.known => listedFlows'.has = files
      BY <2>2 DEF FlowsInv, FlowsTyped, ListTruthful
    <2>4. /\ Typed
          /\ flowDeed.step # "done" /\ ~toldApart =>
                /\ asksFlows.step = "answered" => asksFlows.got = files
                /\ asksFlows.step = "none" /\ listedFlows.known => listedFlows.has = files
      BY <1>0 DEF FlowsTyped, ListTruthful
    <2>5. flowAt \in [Paths -> Nat]
      BY <1>0 DEF FlowsTyped
    <2> HIDE DEF files
    <2>6. CASE ServerListsFlows
      BY <2>4, <2>6 DEF ServerListsFlows, files
    <2>7. CASE FlowsLand
      BY <2>4, <2>7 DEF FlowsLand, NotAskedFor
    <2>8. CASE FlowsFail
      BY <2>4, <2>8 DEF FlowsFail, NotAskedFor, NoFlows
    <2>9. CASE ListAgain \/ ComeBack
      BY <2>4, <2>9 DEF ListAgain, ComeBack, AskFlows
    <2>10. CASE CreateDone
      BY <2>4, <2>5, <2>10 DEF CreateDone, NotAskedFor, NoFlows, NoDeed, NoDialog, Paths
    <2>11. CASE RenameOrDeleteDone
      BY <2>4, <2>11 DEF RenameOrDeleteDone, AskFlows, NoDeed, NoDialog, Paths
    <2>12. CASE DeedFails
      BY <2>4, <2>12 DEF DeedFails, NoDeed, Paths, listOfFlows
    <2>13. CASE CloseDialog
      BY <2>4, <2>13 DEF CloseDialog, NoDialog, Paths, listOfFlows
    <2>14. CASE \E kind \in {"new", "rename", "delete"}, p \in Paths : Dialog(kind, p)
      BY <2>4, <2>14 DEF Dialog, listOfFlows
    <2>15. CASE \E what \in {"create", "rename", "delete"}, p, to \in Paths : Deed(what, p, to)
      BY <2>4, <2>15 DEF Deed, NoDeed, listOfFlows
    <2>16. CASE \E p \in Paths : EditorOpens(p)
      BY <2>4, <2>5, <2>16 DEF EditorOpens, listOfFlows
    <2>17. CASE UNCHANGED flowsVars
      BY <2>4, <2>17 DEF flowsVars
    <2> QED
      BY <1>5, <2>6, <2>7, <2>8, <2>9, <2>10, <2>11, <2>12, <2>13, <2>14, <2>15, <2>16, <2>17
  <1>6. ASSUME NEW p \in Paths, SubmitNew(p) \/ SubmitRename(p) \/ SubmitDelete
        PROVE  \E what \in {"create", "rename", "delete"}, q, to \in Paths : Deed(what, q, to)
    <2>1. flowDialog.path \in Paths
      BY <1>0 DEF FlowsTyped
    <2> QED
      BY <1>6, <2>1 DEF SubmitNew, SubmitRename, SubmitDelete
  <1>7. ASSUME NEW p \in Paths, NewFlow \/ RenameRow(p) \/ DeleteRow(p)
        PROVE  \E kind \in {"new", "rename", "delete"}, q \in Paths : Dialog(kind, q)
    BY <1>7 DEF NewFlow, RenameRow, DeleteRow, Paths
  <1>8. "a" \in Paths
    BY DEF Paths
  <1> QED
    BY <1>1, <1>2, <1>3, <1>4, <1>5, <1>6, <1>7, <1>8 DEF FlowsNext

\* Whatever is renamed, created and deleted on the Flows page and elsewhere, for any number
\* of flows and deeds: unless an editor goes on saving the layout of a flow that was moved
\* away (see Lingers), no flow is lost, none is drawn by another's layout, and the page
\* lists the files there are once every answer is in (FlowsPage.tsx, NewFlowDialog.tsx,
\* and the handlers of /api/flows).
THEOREM FlowsNeverLost == ~Lingers => (FlowsSpec => []FlowsKept)
  <1> SUFFICES ASSUME ~Lingers  PROVE FlowsSpec => []FlowsKept
    OBVIOUS
  <1>1. FlowsInv /\ [FlowsNext]_flowsVars => FlowsInv'
    BY FlowsStep
  <1>2. FlowsInv => FlowsKept
    BY DEF FlowsInv, WorkspaceKept, NoneLost, OwnLayout, ListTruthful, FlowsKept, NoDeed,
           NotAskedFor
  <1> QED
    BY <1>1, <1>2, FlowsInitial, PTL DEF FlowsSpec

(***************************************************************************)
(* RunView: the socket's place in the run says what the console holds.     *)
(***************************************************************************)
Happenings == {"start", "line", "final", "problem", "done"}
Runs == [flow : RunFlows, events : Seq(Happenings), cancel : BOOLEAN,
         status : {"running"} \cup Endings]
Screens == [id : Nat, path : RunFlows \cup {"none"}, status : {"idle", "running"} \cup Endings,
            lines : Seq(Nat), problems : Nat,
            connection : {"idle", "connecting", "open", "closed"}]
Sockets == [run : Nat, phase : {"none", "open", "waiting", "over"}, at : Nat,
            finished : BOOLEAN, retried : BOOLEAN]

Presses == [n : Nat, path : RunFlows, saved : BOOLEAN, mine : BOOLEAN]
Cancellings == [run : Nat, mine : BOOLEAN]

RunViewTyped ==
    /\ runs \in Seq(Runs) /\ shown \in Screens /\ watch \in Sockets
    /\ page \in RunFlows \cup {"away"}
    /\ asked \subseteq Presses /\ begun \in Nat
    /\ cancels \subseteq Cancellings /\ \A c \in cancels : c.run \in DOMAIN runs

\* A run tells of its problem once, right before its last event.
ToldLast(es) ==
    \A i \in 1..Len(es) :
        /\ es[i] = "done" => i = Len(es)
        /\ es[i] = "problem" => i + 1 <= Len(es) /\ es[i + 1] = "done"

\* The socket is that of the run on screen, and has read some of what there is.
Follows ==
    /\ shown.id = 0 <=> shown.path = "none"
    /\ shown.id <= Len(runs) /\ watch.run \in {0, shown.id}
    /\ IF watch.run = 0 THEN watch.phase = "none"
       ELSE watch.at <= Len(runs[watch.run].events)

Ascending(s) == \A i, j \in 1..Len(s) : i < j => s[i] < s[j]
\* What a console and a count of problems are after the first `at' events.
ToldSoFar(es, at, lines, problems) ==
    /\ \E from \in 0..at : ToSet(lines) = {i \in from + 1..at : es[i] = "line"}
    /\ Ascending(lines)
    /\ problems = 0 \/ (problems = 1 /\ \E i \in 1..at : es[i] = "problem")

RunViewInv ==
    /\ RunViewTyped /\ Follows
    /\ \A r \in 1..Len(runs) : ToldLast(runs[r].events)
    /\ Len(shown.lines) <= ConsoleLimit
    /\ watch.run # 0 =>
          ToldSoFar(runs[watch.run].events, watch.at, shown.lines, shown.problems)

-----------------------------------------------------------------------------
(* The console: a line at its end, the oldest off its front.               *)

LEMMA ConsoleBounds == ConsoleLimit \in Nat \ {0} /\ MaxRuns \in Nat \ {0} /\ MaxPrints \in Nat
  BY RunViewAssumption

LEMMA LineAtEnd ==
    ASSUME NEW es, NEW at \in Nat, NEW lines \in Seq(Nat), es[at + 1] = "line",
           NEW from \in 0..at, ToSet(lines) = {i \in from + 1..at : es[i] = "line"},
           Ascending(lines)
    PROVE  /\ Append(lines, at + 1) \in Seq(Nat)
           /\ ToSet(Append(lines, at + 1)) = {i \in from + 1..at + 1 : es[i] = "line"}
           /\ Ascending(Append(lines, at + 1))
  <1> DEFINE all == Append(lines, at + 1)
  <1>1. /\ all \in Seq(Nat) /\ Len(all) = Len(lines) + 1 /\ Len(lines) \in Nat
        /\ \A i \in 1..Len(lines) : all[i] = lines[i]
        /\ all[Len(lines) + 1] = at + 1
    OBVIOUS
  <1>2. \A i \in 1..Len(lines) : lines[i] \in Nat /\ lines[i] < at + 1
    <2> TAKE i \in 1..Len(lines)
    <2>1. lines[i] \in ToSet(lines)
      BY DEF ToSet
    <2>2. lines[i] \in from + 1..at
      BY <2>1
    <2> QED
      BY <2>2
  <1>3. ToSet(all) = ToSet(lines) \cup {at + 1}
    <2>1. ToSet(all) = {all[i] : i \in 1..Len(lines) + 1}
      BY <1>1 DEF ToSet
    <2>2. ToSet(lines) = {lines[i] : i \in 1..Len(lines)}
      BY DEF ToSet
    <2>3. ASSUME NEW x \in ToSet(lines) PROVE x \in ToSet(all)
      <3>1. PICK i \in 1..Len(lines) : x = lines[i]
        BY <2>2
      <3>2. i \in 1..Len(lines) + 1 /\ x = all[i]
        BY <1>1, <3>1
      <3> HIDE DEF all
      <3> QED
        BY <2>1, <3>2
    <2>4. at + 1 \in ToSet(all)
      BY <1>1, <2>1
    <2>5. \A i \in 1..Len(lines) + 1 : i \in 1..Len(lines) \/ i = Len(lines) + 1
      BY <1>1
    <2> HIDE DEF all
    <2>6. ASSUME NEW x \in ToSet(all) PROVE x \in ToSet(lines) \/ x = at + 1
      <3>1. PICK i \in 1..Len(lines) + 1 : x = all[i]
        BY <2>1
      <3> QED
        BY <1>1, <2>2, <2>5, <3>1
    <2> QED
      BY <2>3, <2>4, <2>6
  <1>4. from + 1..at + 1 = (from + 1..at) \cup {at + 1}
    OBVIOUS
  <1>5. Ascending(all)
    <2> SUFFICES ASSUME NEW i \in 1..Len(all), NEW j \in 1..Len(all), i < j
                 PROVE  all[i] < all[j]
      BY DEF Ascending
    <2>1. i \in 1..Len(lines)
      BY <1>1
    <2>2. CASE j \in 1..Len(lines)
      BY <1>1, <2>1, <2>2 DEF Ascending
    <2>3. CASE j = Len(lines) + 1
      BY <1>1, <1>2, <2>1, <2>3
    <2> QED
      BY <1>1, <2>2, <2>3
  <1> QED
    BY <1>1, <1>3, <1>4, <1>5

LEMMA OneLess == \A n \in Nat \ {0} : (IF 2 <= n THEN n - 2 + 1 ELSE 0) = n - 1
  OBVIOUS

LEMMA LineOffFront ==
    ASSUME NEW es, NEW at \in Nat, NEW lines \in Seq(Nat), lines # <<>>,
           NEW from \in 0..at, ToSet(lines) = {i \in from + 1..at : es[i] = "line"},
           Ascending(lines)
    PROVE  LET rest == SubSeq(lines, 2, Len(lines))
           IN  /\ rest \in Seq(Nat) /\ Len(rest) = Len(lines) - 1
               /\ \E later \in 0..at : ToSet(rest) = {i \in later + 1..at : es[i] = "line"}
               /\ Ascending(rest)
  <1> DEFINE rest == SubSeq(lines, 2, Len(lines))
  <1>0. Len(lines) \in Nat \ {0}
    OBVIOUS
  <1>1. /\ Len(lines) \in Nat \ {0} /\ rest \in Seq(Nat) /\ Len(rest) = Len(lines) - 1
        /\ \A i \in 1..Len(lines) - 1 : rest[i] = lines[i + 1]
    <2>1. \A i \in 2..Len(lines) : i \in 1..Len(lines)
      BY <1>0
    <2>2. /\ rest \in Seq(Nat)
          /\ Len(rest) = IF 2 <= Len(lines) THEN Len(lines) - 2 + 1 ELSE 0
          /\ \A i \in 1..Len(lines) - 2 + 1 : rest[i] = lines[2 + i - 1]
      BY <1>0, SubSeqProperties
    <2>3. \A i \in 1..Len(lines) - 1 : i \in 1..Len(lines) - 2 + 1 /\ 2 + i - 1 = i + 1
      BY <1>0
    <2>4. (IF 2 <= Len(lines) THEN Len(lines) - 2 + 1 ELSE 0) = Len(lines) - 1
      BY <1>0, OneLess
    <2> HIDE DEF rest
    <2>5. Len(rest) = Len(lines) - 1
      BY <2>2, <2>4
    <2>6. ASSUME NEW i \in 1..Len(lines) - 1 PROVE rest[i] = lines[i + 1]
      <3>1. i \in 1..Len(lines) - 2 + 1 /\ 2 + i - 1 = i + 1
        BY <2>3
      <3>2. rest[i] = lines[2 + i - 1]
        BY <2>2, <3>1
      <3> QED
        BY <3>1, <3>2
    <2> QED
      BY <1>0, <2>2, <2>5, <2>6
  <1>2. \A i \in 1..Len(lines) : lines[i] \in Nat /\ lines[i] \in from + 1..at
    BY DEF ToSet
  <1>3. ToSet(rest) = {lines[i] : i \in 2..Len(lines)}
    <2> HIDE DEF rest
    <2>1. ToSet(rest) = {rest[i] : i \in 1..Len(lines) - 1}
      <3>1. DOMAIN rest = 1..Len(lines) - 1
        BY <1>1
      <3> QED
        BY <3>1 DEF ToSet
    <2>2. \A i \in 1..Len(lines) - 1 : i + 1 \in 2..Len(lines) /\ rest[i] = lines[i + 1]
      BY <1>1
    <2>3. \A i \in 2..Len(lines) : i - 1 \in 1..Len(lines) - 1 /\ rest[i - 1] = lines[i]
      BY <1>1
    <2>4. \A x : x \in ToSet(rest) => \E i \in 2..Len(lines) : x = lines[i]
      BY <2>1, <2>2
    <2>5. \A i \in 2..Len(lines) : lines[i] \in ToSet(rest)
      BY <2>1, <2>3
    <2> QED
      BY <2>4, <2>5
  <1>4. lines[1] \in 0..at /\ lines[1] >= from
    BY <1>1, <1>2
  <1>5. \A x : x \in ToSet(rest) <=> x \in lines[1] + 1..at /\ es[x] = "line"
    <2> TAKE x
    <2>1. ASSUME x \in ToSet(rest) PROVE x \in lines[1] + 1..at /\ es[x] = "line"
      <3>1. PICK i \in 2..Len(lines) : x = lines[i]
        BY <1>3, <2>1
      <3>2. lines[1] < lines[i] /\ i \in 1..Len(lines)
        BY <1>1, <3>1 DEF Ascending
      <3>3. x \in ToSet(lines)
        BY <3>1, <3>2 DEF ToSet
      <3> QED
        BY <1>2, <1>4, <3>1, <3>2, <3>3
    <2>2. ASSUME x \in lines[1] + 1..at, es[x] = "line" PROVE x \in ToSet(rest)
      <3>1. x \in from + 1..at /\ x # lines[1]
        BY <1>4, <2>2
      <3>2. PICK i \in 1..Len(lines) : x = lines[i]
        BY <2>2, <3>1 DEF ToSet
      <3>3. i \in 2..Len(lines)
        BY <1>1, <3>1, <3>2
      <3> QED
        BY <1>3, <3>2, <3>3
    <2> QED
      BY <2>1, <2>2
  <1>6. ToSet(rest) = {i \in lines[1] + 1..at : es[i] = "line"}
    BY <1>5
  <1>7. Ascending(rest)
    <2> SUFFICES ASSUME NEW i \in 1..Len(rest), NEW j \in 1..Len(rest), i < j
                 PROVE  rest[i] < rest[j]
      BY DEF Ascending
    <2>1. /\ i + 1 \in 1..Len(lines) /\ j + 1 \in 1..Len(lines) /\ i + 1 < j + 1
          /\ rest[i] = lines[i + 1] /\ rest[j] = lines[j + 1]
      BY <1>1
    <2> HIDE DEF rest
    <2> QED
      BY <2>1 DEF Ascending
  <1> HIDE DEF rest
  <1>8. /\ rest \in Seq(Nat) /\ Len(rest) = Len(lines) - 1
        /\ \E later \in 0..at : ToSet(rest) = {i \in later + 1..at : es[i] = "line"}
        /\ Ascending(rest)
    BY <1>1, <1>4, <1>6, <1>7
  <1> QED
    BY <1>8 DEF rest

\* What the page has once one more event has come.
LEMMA EventApplied ==
    ASSUME NEW run \in Runs, ToldLast(run.events), NEW at \in Nat, at + 1 <= Len(run.events),
           NEW s \in Screens, ToldSoFar(run.events, at, s.lines, s.problems),
           Len(s.lines) <= ConsoleLimit
    PROVE  LET t == Applied(s, run, at + 1)
           IN  /\ t \in Screens /\ t.id = s.id /\ t.path = s.path
               /\ ToldSoFar(run.events, at + 1, t.lines, t.problems)
               /\ Len(t.lines) <= ConsoleLimit
  <1> DEFINE es == run.events
             t == Applied(s, run, at + 1)
  <1>0. /\ es \in Seq(Happenings) /\ at + 1 \in 1..Len(es) /\ es[at + 1] \in Happenings
        /\ run.status \in {"running"} \cup Endings
        /\ s.lines \in Seq(Nat) /\ s.problems \in Nat /\ Len(s.lines) \in Nat
    BY DEF Runs, Screens
  <1>1. PICK from \in 0..at : ToSet(s.lines) = {i \in from + 1..at : es[i] = "line"}
    BY DEF ToldSoFar
  <1>2. Ascending(s.lines)
    BY DEF ToldSoFar
  <1>3. CASE es[at + 1] = "line"
    <2> DEFINE all == Append(s.lines, at + 1)
    <2>1. /\ all \in Seq(Nat) /\ ToSet(all) = {i \in from + 1..at + 1 : es[i] = "line"}
          /\ Ascending(all) /\ Len(all) = Len(s.lines) + 1 /\ all # <<>>
      <3>1. /\ all \in Seq(Nat) /\ ToSet(all) = {i \in from + 1..at + 1 : es[i] = "line"}
            /\ Ascending(all)
        <4> DEFINE old == s.lines
        <4>1. /\ old \in Seq(Nat) /\ es[at + 1] = "line" /\ Ascending(old)
              /\ ToSet(old) = {i \in from + 1..at : es[i] = "line"}
          BY <1>0, <1>1, <1>2, <1>3
        <4> HIDE DEF es, t, old
        <4>2. /\ Append(old, at + 1) \in Seq(Nat)
              /\ ToSet(Append(old, at + 1)) = {i \in from + 1..at + 1 : es[i] = "line"}
              /\ Ascending(Append(old, at + 1))
          BY <4>1, LineAtEnd
        <4> QED
          BY <4>2 DEF old
      <3>2. Len(all) = Len(s.lines) + 1 /\ all # <<>>
        <4> DEFINE old == s.lines
        <4>1. old \in Seq(Nat)
          BY <1>0
        <4> HIDE DEF old
        <4>2. Len(Append(old, at + 1)) = Len(old) + 1 /\ Append(old, at + 1) # <<>>
          BY <4>1
        <4> QED
          BY <4>2 DEF old
      <3> HIDE DEF all, es, t
      <3> QED
        BY <3>1, <3>2
    <2>2. from \in 0..at + 1 /\ at + 1 \in Nat
      OBVIOUS
    <2>3. t = Appended(s, at + 1)
      BY <1>3 DEF Applied
    <2> DEFINE over == Len(all) - ConsoleLimit
    <2>4. over \in Int /\ over <= 1
      BY <1>0, <2>1, ConsoleBounds
    <2>5. t = IF over > 0 THEN [s EXCEPT !.lines = SubSeq(all, over + 1, Len(all))]
              ELSE [s EXCEPT !.lines = all]
      BY <2>3 DEF Appended
    <2>6. s.problems = 0 \/ (s.problems = 1 /\ \E i \in 1..at + 1 : es[i] = "problem")
      BY DEF ToldSoFar
    <2> HIDE DEF all, t, es
    <2>7. CASE over > 0
      <3>1. over = 1 /\ Len(all) - 1 <= ConsoleLimit
        BY <1>0, <2>1, <2>4, <2>7, ConsoleBounds
      <3> DEFINE rest == SubSeq(all, 2, Len(all))
      <3>2. /\ rest \in Seq(Nat) /\ Len(rest) = Len(all) - 1
            /\ \E later \in 0..at + 1 : ToSet(rest) = {i \in later + 1..at + 1 : es[i] = "line"}
            /\ Ascending(rest)
        BY <2>1, <2>2, LineOffFront
      <3>3. t = [s EXCEPT !.lines = rest]
        <4>1. over + 1 = 2
          BY <3>1
        <4> HIDE DEF over
        <4> QED
          BY <2>5, <2>7, <4>1
      <3> HIDE DEF rest, over
      <3>4. t \in Screens /\ t.id = s.id /\ t.path = s.path /\ t.lines = rest /\ t.problems = s.problems
        BY <3>2, <3>3 DEF Screens
      <3>5. Len(t.lines) <= ConsoleLimit
        BY <3>1, <3>2, <3>4
      <3> QED
        BY <2>6, <3>2, <3>4, <3>5 DEF ToldSoFar, t, es
    <2>8. CASE ~(over > 0)
      <3>1. Len(all) <= ConsoleLimit
        BY <1>0, <2>1, <2>4, <2>8, ConsoleBounds
      <3>2. t = [s EXCEPT !.lines = all]
        BY <2>5, <2>8
      <3> HIDE DEF over
      <3>3. t \in Screens /\ t.id = s.id /\ t.path = s.path /\ t.lines = all /\ t.problems = s.problems
        BY <2>1, <3>2 DEF Screens
      <3> QED
        BY <2>1, <2>2, <2>6, <3>1, <3>3 DEF ToldSoFar, t, es
    <2> QED
      BY <2>7, <2>8
  <1>4. CASE es[at + 1] # "line"
    <2>0. /\ s.status \in {"idle", "running"} \cup Endings
          /\ \A st \in {"idle", "running"} \cup Endings : [s EXCEPT !.status = st] \in Screens
          /\ [s EXCEPT !.problems = @ + 1] \in Screens
      BY DEF Screens
    <2>1. \/ \E st \in {"idle", "running"} \cup Endings : t = [s EXCEPT !.status = st]
          \/ t = s
          \/ es[at + 1] = "problem" /\ t = [s EXCEPT !.problems = @ + 1]
      BY <1>0, <1>4 DEF Applied, Happenings
    <2>2. /\ t \in Screens /\ t.lines = s.lines /\ t.id = s.id /\ t.path = s.path
          /\ t.problems = IF es[at + 1] = "problem" THEN s.problems + 1 ELSE s.problems
      <3>1. CASE es[at + 1] = "problem"
        <4>1. t = [s EXCEPT !.problems = @ + 1]
          BY <3>1 DEF Applied
        <4> HIDE DEF t, es
        <4> QED
          BY <2>0, <3>1, <4>1 DEF Screens
      <3>2. CASE es[at + 1] # "problem"
        <4> HIDE DEF t, es
        <4> QED
          BY <2>0, <2>1, <3>2 DEF Screens
      <3> QED
        BY <3>1, <3>2
    <2>3. t.problems = IF es[at + 1] = "problem" THEN s.problems + 1 ELSE s.problems
      BY <2>2
    <2>4. {i \in from + 1..at + 1 : es[i] = "line"} = {i \in from + 1..at : es[i] = "line"}
      BY <1>4
    <2>5. from \in 0..at + 1
      OBVIOUS
    <2>6. t.problems = 0 \/ (t.problems = 1 /\ \E i \in 1..at + 1 : es[i] = "problem")
      <3>1. CASE es[at + 1] = "problem"
        <4>1. \A i \in 1..at : es[i] # "problem"
          <5> SUFFICES ASSUME NEW i \in 1..at, es[i] = "problem" PROVE FALSE
            OBVIOUS
          <5>1. i \in 1..Len(es) /\ i + 1 \in 1..Len(es)
            BY <1>0
          <5>2. es[i + 1] = "done"
            BY <5>1 DEF ToldLast
          <5>3. i + 1 = Len(es)
            BY <5>1, <5>2 DEF ToldLast
          <5> QED
            BY <1>0, <3>1, <5>2, <5>3
        <4>2. s.problems = 0
          BY <4>1 DEF ToldSoFar
        <4>3. at + 1 \in 1..at + 1
          OBVIOUS
        <4> QED
          BY <2>3, <3>1, <4>2, <4>3
      <3>2. CASE es[at + 1] # "problem"
        <4>1. \A i \in 1..at : i \in 1..at + 1
          OBVIOUS
        <4> QED
          BY <2>3, <3>2, <4>1 DEF ToldSoFar
      <3> QED
        BY <3>1, <3>2
    <2> HIDE DEF t, es
    <2> QED
      BY <1>1, <1>2, <2>2, <2>4, <2>5, <2>6 DEF ToldSoFar, t, es
  <1> QED
    BY <1>3, <1>4
-----------------------------------------------------------------------------
(* Every step keeps the console in step with the socket.                   *)

\* What was told stays told when the run says more.
LEMMA MoreSaid ==
    ASSUME NEW es \in Seq(Happenings), NEW more \in Seq(Happenings), NEW at \in 0..Len(es),
           NEW lines, NEW problems, ToldSoFar(es, at, lines, problems)
    PROVE  ToldSoFar(es \o more, at, lines, problems)
  <1>1. \A i \in 1..at : (es \o more)[i] = es[i]
    OBVIOUS
  <1>2. PICK from \in 0..at : ToSet(lines) = {i \in from + 1..at : es[i] = "line"}
    BY DEF ToldSoFar
  <1>3. \A i \in from + 1..at : i \in 1..at
    OBVIOUS
  <1>4. ToSet(lines) = {i \in from + 1..at : (es \o more)[i] = "line"}
    BY <1>1, <1>2, <1>3
  <1> QED
    BY <1>1, <1>4 DEF ToldSoFar

LEMMA NothingToldYet ==
    ASSUME NEW es, NEW at \in Nat
    PROVE  ToldSoFar(es, at, <<>>, 0)
  <1>1. ToSet(<<>>) = {i \in at + 1..at : es[i] = "line"}
    BY DEF ToSet
  <1>2. at \in 0..at
    OBVIOUS
  <1> QED
    BY <1>1, <1>2 DEF ToldSoFar, Ascending

\* What a run says last.
LastWords == {<<"final", "done">>, <<"problem", "done">>, <<"done">>}
LEMMA SaidLast ==
    ASSUME NEW es \in Seq(Happenings), \A i \in 1..Len(es) : es[i] # "done", ToldLast(es),
           NEW more \in LastWords \cup {<<"start">>, <<"line">>}
    PROVE  more \in Seq(Happenings) /\ es \o more \in Seq(Happenings) /\ ToldLast(es \o more)
  <1>1. \A i \in 1..Len(es) : es[i] # "problem"
    BY DEF ToldLast
  <1>2. /\ more \in Seq(Happenings) /\ Len(more) \in 1..2
        /\ \A i \in 1..Len(more) : /\ more[i] = "done" => i = Len(more)
                                   /\ more[i] = "problem" => i + 1 <= Len(more) /\ more[i + 1] = "done"
    <2>1. /\ more \in Seq(Happenings) /\ Len(more) \in 1..2
          /\ Len(more) = 1 => more[1] # "problem"
          /\ Len(more) = 2 => more[1] # "done" /\ more[2] = "done"
      <3>1. CASE more \in {<<"final", "done">>, <<"problem", "done">>}
        <4>1. PICK x \in {"final", "problem"} : more = <<x, "done">>
          BY <3>1
        <4> QED
          BY <4>1 DEF Happenings
      <3>2. CASE more \in {<<"done">>, <<"start">>, <<"line">>}
        <4>1. PICK x \in {"done", "start", "line"} : more = <<x>>
          BY <3>2
        <4> QED
          BY <4>1 DEF Happenings
      <3> QED
        BY <3>1, <3>2 DEF LastWords
    <2>2. CASE Len(more) = 1
      <3>1. \A i \in 1..Len(more) : i = 1
        BY <2>2
      <3> QED
        BY <2>1, <2>2, <3>1
    <2>3. CASE Len(more) = 2
      <3>1. \A i \in 1..Len(more) : i = 1 \/ i = 2
        BY <2>3
      <3>2. 1 + 1 = 2 /\ 1 # 2 /\ "problem" # "done"
        OBVIOUS
      <3> QED
        BY <2>1, <2>3, <3>1, <3>2
    <2>4. Len(more) = 1 \/ Len(more) = 2
      BY <2>1
    <2> QED
      BY <2>1, <2>2, <2>3, <2>4
  <1> DEFINE all == es \o more
  <1>3. /\ all \in Seq(Happenings) /\ Len(all) = Len(es) + Len(more) /\ Len(es) \in Nat
        /\ \A i \in 1..Len(es) : all[i] = es[i]
        /\ \A i \in 1..Len(more) : all[Len(es) + i] = more[i]
    BY <1>2
  <1> HIDE DEF all
  <1>4. ASSUME NEW i \in 1..Len(all)
        PROVE  /\ all[i] = "done" => i = Len(all)
               /\ all[i] = "problem" => i + 1 <= Len(all) /\ all[i + 1] = "done"
    <2>1. CASE i <= Len(es)
      BY <1>1, <1>3, <2>1
    <2>2. CASE i > Len(es)
      <3> DEFINE k == i - Len(es)
      <3>1. k \in 1..Len(more) /\ i = Len(es) + k /\ i + 1 = Len(es) + (k + 1)
        BY <1>2, <1>3, <2>2
      <3> HIDE DEF k
      <3>2. all[i] = more[k]
        BY <1>3, <3>1
      <3>3. more[k] = "done" => i = Len(all)
        BY <1>2, <1>3, <3>1
      <3>4. more[k] = "problem" => i + 1 <= Len(all) /\ all[i + 1] = "done"
        <4> SUFFICES ASSUME more[k] = "problem" PROVE i + 1 <= Len(all) /\ all[i + 1] = "done"
          OBVIOUS
        <4>1. k + 1 <= Len(more) /\ more[k + 1] = "done"
          BY <1>2, <3>1
        <4>2. k + 1 \in 1..Len(more)
          BY <1>2, <3>1, <4>1
        <4>3. all[Len(es) + (k + 1)] = more[k + 1]
          BY <1>3, <4>2
        <4> QED
          BY <1>2, <1>3, <3>1, <4>1, <4>2, <4>3
      <3> QED
        BY <3>2, <3>3, <3>4
    <2> QED
      BY <1>2, <1>3, <2>1, <2>2
  <1> QED
    BY <1>2, <1>3, <1>4 DEF ToldLast, all

LEMMA RunSaysMore ==
    ASSUME RunViewInv, NEW r \in DOMAIN runs, RunGoesOn(r)
    PROVE  RunViewInv'
  <1>1. /\ runs \in Seq(Runs) /\ DOMAIN runs = 1..Len(runs) /\ runs[r] \in Runs
        /\ r \in 1..Len(runs) /\ watch \in Sockets /\ shown \in Screens
    BY DEF RunViewInv, RunViewTyped
  <1> DEFINE es == runs[r].events
  <1>2. es \in Seq(Happenings) /\ ToldLast(es)
    BY <1>1 DEF RunViewInv, Runs
  <1>3. \A i \in 1..Len(es) : es[i] # "done"
    BY <1>2 DEF RunGoesOn, Ended, ToSet
  <1>4. PICK more \in LastWords \cup {<<"start">>, <<"line">>}, run \in Runs :
          run.events = es \o more /\ runs' = [runs EXCEPT ![r] = run]
    <2>1. ASSUME NEW more \in LastWords \cup {<<"start">>, <<"line">>}, Emits(r, more)
          PROVE  [runs[r] EXCEPT !.events = @ \o more] \in Runs
                 /\ runs' = [runs EXCEPT ![r] = [runs[r] EXCEPT !.events = @ \o more]]
                 /\ [runs[r] EXCEPT !.events = @ \o more].events = es \o more
      <3>1. es \o more \in Seq(Happenings)
        BY <1>2, <1>3, SaidLast
      <3>2. runs' = [runs EXCEPT ![r] = [runs[r] EXCEPT !.events = @ \o more]]
        BY <1>1, <2>1 DEF Emits
      <3> QED
        BY <1>1, <3>1, <3>2 DEF Runs
    <2>2. ASSUME NEW more \in LastWords, NEW st \in Endings, EndsWith(r, more, st)
          PROVE  [runs[r] EXCEPT !.events = @ \o more, !.status = st] \in Runs
                 /\ runs' = [runs EXCEPT ![r] = [runs[r] EXCEPT !.events = @ \o more, !.status = st]]
                 /\ [runs[r] EXCEPT !.events = @ \o more, !.status = st].events = es \o more
      <3>1. es \o more \in Seq(Happenings)
        BY <1>2, <1>3, SaidLast
      <3>2. runs' = [runs EXCEPT ![r] = [runs[r] EXCEPT !.events = @ \o more, !.status = st]]
        BY <1>1, <2>2 DEF EndsWith
      <3> QED
        BY <1>1, <3>1, <3>2 DEF Runs
    <2>3. \/ Emits(r, <<"start">>) \/ Emits(r, <<"line">>)
          \/ EndsWith(r, <<"final", "done">>, "done") \/ EndsWith(r, <<"problem", "done">>, "failed")
          \/ EndsWith(r, <<"done">>, "cancelled")
      BY DEF RunGoesOn
    <2>4. \/ \E more \in {<<"start">>, <<"line">>} : Emits(r, more)
          \/ \E more \in LastWords, st \in Endings : EndsWith(r, more, st)
      BY <2>3 DEF Endings, LastWords
    <2> HIDE DEF es
    <2>5. ASSUME NEW more \in {<<"start">>, <<"line">>}, Emits(r, more)
          PROVE  \E m \in LastWords \cup {<<"start">>, <<"line">>}, run \in Runs :
                    run.events = es \o m /\ runs' = [runs EXCEPT ![r] = run]
      BY <2>1, <2>5
    <2>6. ASSUME NEW more \in LastWords, NEW st \in Endings, EndsWith(r, more, st)
          PROVE  \E m \in LastWords \cup {<<"start">>, <<"line">>}, run \in Runs :
                    run.events = es \o m /\ runs' = [runs EXCEPT ![r] = run]
      BY <2>2, <2>6
    <2> QED
      BY <2>4, <2>5, <2>6
  <1>5. more \in Seq(Happenings) /\ ToldLast(es \o more) /\ Len(es \o more) >= Len(es)
    BY <1>2, <1>3, SaidLast
  <1>6. /\ runs' \in Seq(Runs) /\ Len(runs') = Len(runs) /\ DOMAIN runs' = DOMAIN runs
        /\ runs'[r].events = es \o more
        /\ \A o \in 1..Len(runs) : o # r => runs'[o] = runs[o]
    BY <1>1, <1>4
  <1>7. UNCHANGED <<page, asked, begun, cancels, shown, watch>>
    BY DEF RunGoesOn
  <1> HIDE DEF es
  <1>8. RunViewTyped'
    BY <1>6, <1>7 DEF RunViewInv, RunViewTyped
  <1>9. watch.run # 0 => watch.run \in 1..Len(runs)
    BY <1>1 DEF RunViewInv, Follows, Sockets, Screens
  <1>10. watch.run = r => watch.at \in 0..Len(es)
    BY <1>1, <1>2, <1>9 DEF RunViewInv, Follows, Sockets, es
  <1>11. Follows'
    <2>1. watch.run # 0 => watch.at <= Len(runs'[watch.run].events)
      <3>1. CASE watch.run = r
        BY <1>2, <1>5, <1>6, <1>10, <3>1
      <3>2. CASE watch.run # r
        BY <1>6, <1>9, <3>2 DEF RunViewInv, Follows
      <3> QED
        BY <3>1, <3>2
    <2> QED
      BY <1>6, <1>7, <2>1 DEF RunViewInv, Follows
  <1>12. \A o \in 1..Len(runs') : ToldLast(runs'[o].events)
    BY <1>5, <1>6 DEF RunViewInv
  <1>13. watch.run # 0 =>
           ToldSoFar(runs'[watch.run].events, watch.at, shown.lines, shown.problems)
    <2>1. CASE watch.run = r
      <3>1. ToldSoFar(es, watch.at, shown.lines, shown.problems)
        BY <1>9, <2>1, <1>1 DEF RunViewInv, es
      <3>2. ToldSoFar(es \o more, watch.at, shown.lines, shown.problems)
        BY <1>2, <1>5, <1>10, <2>1, <3>1, MoreSaid
      <3> QED
        BY <1>6, <2>1, <3>2
    <2>2. CASE watch.run # r
      BY <1>6, <1>9, <2>2 DEF RunViewInv
    <2> QED
      BY <2>1, <2>2
  <1> QED
    BY <1>7, <1>8, <1>11, <1>12, <1>13 DEF RunViewInv

\* What the browser does leaves the runs' events alone.
LEMMA SameRuns ==
    ASSUME RunViewInv, UNCHANGED runs
    PROVE  /\ runs' \in Seq(Runs) /\ \A r \in 1..Len(runs') : ToldLast(runs'[r].events)
           /\ DOMAIN runs' = DOMAIN runs
  BY DEF RunViewInv, RunViewTyped

LEMMA EventIsShown == RunViewInv /\ EventArrives => RunViewInv'
  <1> SUFFICES ASSUME RunViewInv, EventArrives PROVE RunViewInv'
    OBVIOUS
  <1> DEFINE r == watch.run
             at == watch.at
             t == Applied(shown, runs[r], at + 1)
  <1>1. /\ runs \in Seq(Runs) /\ watch \in Sockets /\ shown \in Screens
        /\ UNCHANGED <<page, asked, begun, cancels, runs>>
        /\ watch.phase = "open" /\ at < Len(runs[r].events)
        /\ shown' = [t EXCEPT !.connection = "open"]
        /\ watch' = [watch EXCEPT !.at = at + 1,
                         !.finished = @ \/ runs[r].events[at + 1] = "done"]
    BY DEF RunViewInv, RunViewTyped, EventArrives
  <1>2. r \in 1..Len(runs) /\ at \in Nat /\ r = shown.id
    BY <1>1 DEF RunViewInv, Follows, Sockets, Screens
  <1>3. runs[r] \in Runs /\ ToldLast(runs[r].events) /\ Len(runs[r].events) \in Nat
    <2>1. runs[r] \in Runs /\ ToldLast(runs[r].events)
      BY <1>1, <1>2 DEF RunViewInv
    <2> QED
      BY <2>1 DEF Runs
  <1>4. at + 1 <= Len(runs[r].events)
    BY <1>1, <1>2, <1>3
  <1>5. /\ ToldSoFar(runs[r].events, at, shown.lines, shown.problems)
        /\ Len(shown.lines) <= ConsoleLimit
    BY <1>2 DEF RunViewInv
  <1>6. /\ t \in Screens /\ t.id = shown.id /\ t.path = shown.path
        /\ ToldSoFar(runs[r].events, at + 1, t.lines, t.problems)
        /\ Len(t.lines) <= ConsoleLimit
    BY <1>1, <1>2, <1>3, <1>4, <1>5, EventApplied
  <1> HIDE DEF t
  <1>7. /\ shown' \in Screens /\ shown'.id = shown.id /\ shown'.path = shown.path
        /\ shown'.lines = t.lines /\ shown'.problems = t.problems
    BY <1>1, <1>6 DEF Screens
  <1>8. /\ watch' \in Sockets /\ watch'.run = r /\ watch'.at = at + 1
        /\ watch'.phase = "open"
    <2>1. watch' = [watch EXCEPT !.at = at + 1, !.finished = watch'.finished]
          /\ watch'.finished \in BOOLEAN /\ at + 1 \in Nat
      BY <1>1, <1>2 DEF Sockets
    <2> DEFINE over == watch'.finished
    <2> HIDE DEF over
    <2>2. watch' = [watch EXCEPT !.at = at + 1, !.finished = over] /\ over \in BOOLEAN
      BY <2>1 DEF over
    <2> QED
      BY <1>1, <2>1, <2>2 DEF Sockets
  <1> HIDE DEF r, at
  <1>9. RunViewTyped'
    BY <1>1, <1>7, <1>8 DEF RunViewInv, RunViewTyped
  <1>10. Follows'
    BY <1>1, <1>2, <1>4, <1>7, <1>8 DEF RunViewInv, Follows, r
  <1> QED
    BY <1>1, <1>6, <1>7, <1>8, <1>9, <1>10, SameRuns DEF RunViewInv

\* The screen is cleared, rewound or kept, and its socket too, or both are of another run.
LEMMA SameScreen ==
    ASSUME RunViewInv, UNCHANGED runs,
           shown' \in Screens, shown'.id = shown.id, shown'.path = shown.path,
           watch' \in Sockets, watch'.run = watch.run, watch'.run = 0 => watch'.phase = "none",
           \/ watch'.at = watch.at /\ shown'.lines \in {shown.lines, <<>>}
              /\ shown'.problems = shown.problems
           \/ watch'.at = 0 /\ shown'.lines = <<>> /\ shown'.problems = 0
    PROVE  /\ Follows' /\ Len(shown'.lines) <= ConsoleLimit
           /\ watch'.run # 0 =>
                ToldSoFar(runs'[watch'.run].events, watch'.at, shown'.lines, shown'.problems)
  <1>1. /\ runs \in Seq(Runs) /\ watch \in Sockets /\ shown \in Screens
        /\ watch.run # 0 => watch.run \in 1..Len(runs) /\ watch.at \in Nat
    BY DEF RunViewInv, RunViewTyped, Follows, Sockets, Screens
  <1>2. watch.run # 0 => runs[watch.run].events \in Seq(Happenings)
    <2>1. watch.run # 0 => runs[watch.run] \in Runs
      BY <1>1
    <2> QED
      BY <2>1 DEF Runs
  <1>3. Follows'
    BY <1>1, <1>2 DEF RunViewInv, Follows
  <1>4. Len(<<>>) = 0 /\ 0 <= ConsoleLimit
    BY ConsoleBounds
  <1>5. Len(shown'.lines) <= ConsoleLimit
    BY <1>4 DEF RunViewInv
  <1>6. ASSUME watch.run # 0
        PROVE ToldSoFar(runs[watch.run].events, watch'.at, shown'.lines, shown'.problems)
    <2>1. CASE shown'.lines = shown.lines /\ watch'.at = watch.at /\ shown'.problems = shown.problems
      BY <1>6, <2>1 DEF RunViewInv
    <2>2. CASE shown'.lines = <<>> /\ shown'.problems = 0
      BY <1>1, <1>6, <2>2, NothingToldYet DEF Sockets
    <2>3. CASE shown'.lines = <<>> /\ watch'.at = watch.at /\ shown'.problems = shown.problems
      <3>1. ToldSoFar(runs[watch.run].events, watch.at, <<>>, 0)
        BY <1>1, <1>6, NothingToldYet
      <3> QED
        BY <1>6, <2>3, <3>1 DEF RunViewInv, ToldSoFar
    <2> QED
      BY <2>1, <2>2, <2>3
  <1> QED
    BY <1>3, <1>5, <1>6

LEMMA SocketMoves ==
    RunViewInv /\ (ClearConsole \/ SocketCloses \/ Reconnects) => RunViewInv'
  <1> SUFFICES ASSUME RunViewInv, ClearConsole \/ SocketCloses \/ Reconnects
               PROVE  RunViewInv'
    OBVIOUS
  <1>1. watch \in Sockets /\ shown \in Screens
        /\ UNCHANGED <<page, asked, begun, cancels, runs>>
    BY DEF RunViewInv, RunViewTyped, ClearConsole, SocketCloses, Reconnects
  <1>2. /\ shown' \in Screens /\ shown'.id = shown.id /\ shown'.path = shown.path
        /\ watch' \in Sockets /\ watch'.run = watch.run
        /\ watch'.run = 0 => watch'.phase = "none"
        /\ \/ watch'.at = watch.at /\ shown'.lines \in {shown.lines, <<>>}
              /\ shown'.problems = shown.problems
           \/ watch'.at = 0 /\ shown'.lines = <<>> /\ shown'.problems = 0
    <2>1. CASE ClearConsole
      <3>1. /\ shown' \in Screens /\ shown'.id = shown.id /\ shown'.path = shown.path
            /\ shown'.lines = <<>> /\ shown'.problems = shown.problems
        <4>1. <<>> \in Seq(Nat)
          OBVIOUS
        <4> QED
          BY <1>1, <2>1, <4>1 DEF ClearConsole, Screens
      <3> QED
        BY <1>1, <2>1, <3>1 DEF ClearConsole, RunViewInv, Follows
    <2>2. CASE SocketCloses
      <3>1. watch.run # 0
        BY <2>2 DEF SocketCloses, RunViewInv, Follows
      <3>2. /\ shown' \in Screens /\ shown'.id = shown.id /\ shown'.path = shown.path
            /\ shown'.lines = shown.lines /\ shown'.problems = shown.problems
        BY <1>1, <2>2 DEF SocketCloses, Screens
      <3>3. watch' \in Sockets /\ watch'.run = watch.run /\ watch'.at = watch.at
        BY <1>1, <2>2 DEF SocketCloses, Sockets
      <3> QED
        BY <3>1, <3>2, <3>3
    <2>3. CASE Reconnects
      <3>1. watch.run # 0
        BY <2>3 DEF Reconnects, RunViewInv, Follows
      <3>2. /\ shown' \in Screens /\ shown'.id = shown.id /\ shown'.path = shown.path
            /\ shown'.lines = <<>> /\ shown'.problems = 0
        <4>1. shown' = [shown EXCEPT !.lines = <<>>, !.problems = 0, !.connection = "connecting"]
          BY <1>1, <2>3 DEF Reconnects, Rewound, Screens
        <4>2. <<>> \in Seq(Nat)
          OBVIOUS
        <4> QED
          BY <1>1, <4>1, <4>2 DEF Screens
      <3>3. watch' \in Sockets /\ watch'.run = watch.run /\ watch'.at = 0
        BY <1>1, <2>3 DEF Reconnects, Sockets
      <3> QED
        BY <3>1, <3>2, <3>3
    <2> QED
      BY <2>1, <2>2, <2>3
  <1>3. RunViewTyped'
    BY <1>1, <1>2 DEF RunViewInv, RunViewTyped
  <1> QED
    BY <1>1, <1>2, <1>3, SameRuns, SameScreen DEF RunViewInv

\* The button and its requests, which change no run on screen.
LEMMA ButtonWaits ==
    RunViewInv /\ (Begin \/ SaveEnds \/ StartRefused \/ Stop) => RunViewInv'
  <1> SUFFICES ASSUME RunViewInv, Begin \/ SaveEnds \/ StartRefused \/ Stop
               PROVE  RunViewInv'
    OBVIOUS
  <1>1. UNCHANGED <<page, runs, shown, watch>>
    BY DEF Begin, SaveEnds, StartRefused, Stop
  <1>0. asked \subseteq Presses /\ begun \in Nat /\ page \in RunFlows \cup {"away"}
    BY DEF RunViewInv, RunViewTyped
  <1>2. asked' \subseteq Presses /\ begun' \in Nat
    <2>1. CASE Begin
      <3>1. PICK saved \in BOOLEAN : asked' = asked \cup
                {[n |-> begun + 1, path |-> page, saved |-> saved, mine |-> TRUE]}
        BY <2>1 DEF Begin
      <3>2. page \in RunFlows /\ begun' = begun + 1
        BY <1>0, <2>1 DEF Begin
      <3>3. [n |-> begun + 1, path |-> page, saved |-> saved, mine |-> TRUE] \in Presses
        BY <1>0, <3>2 DEF Presses
      <3>4. asked' \subseteq Presses
        BY <1>0, <3>1, <3>3
      <3>5. begun' \in Nat
        BY <1>0, <3>2
      <3> QED
        BY <3>4, <3>5
    <2>2. CASE SaveEnds
      <3>1. PICK a \in asked : \/ asked' = (asked \ {a}) \cup {[a EXCEPT !.saved = TRUE]}
                               \/ asked' = asked \ {a}
        BY <2>2 DEF SaveEnds
      <3>2. [a EXCEPT !.saved = TRUE] \in Presses
        BY <1>0 DEF Presses
      <3>3. begun' = begun
        BY <2>2 DEF SaveEnds
      <3> QED
        BY <1>0, <3>1, <3>2, <3>3
    <2>3. CASE StartRefused \/ Stop
      BY <1>0, <2>3 DEF StartRefused, Stop
    <2> QED
      BY <2>1, <2>2, <2>3
  <1>3. cancels' \subseteq Cancellings /\ \A c \in cancels' : c.run \in DOMAIN runs
    <2>1. CASE Stop
      <3>1. shown.id \in DOMAIN runs /\ shown.id \in Nat
        BY <2>1 DEF Stop, RunViewInv, RunViewTyped, Follows, Screens
      <3> QED
        <4> DEFINE stop == [run |-> shown.id, mine |-> TRUE]
        <4>1. stop \in Cancellings /\ stop.run = shown.id
          BY <3>1 DEF Cancellings
        <4>2. cancels' = cancels \cup {stop}
          BY <2>1 DEF Stop
        <4> HIDE DEF stop
        <4>3. cancels \subseteq Cancellings /\ \A c \in cancels : c.run \in DOMAIN runs
          BY DEF RunViewInv, RunViewTyped
        <4> QED
          BY <3>1, <4>1, <4>2, <4>3
    <2>2. CASE Begin \/ SaveEnds \/ StartRefused
      BY <2>2 DEF Begin, SaveEnds, StartRefused, RunViewInv, RunViewTyped
    <2> QED
      BY <2>1, <2>2
  <1>4. Follows'
    BY <1>1 DEF RunViewInv, Follows
  <1>5. RunViewTyped'
    BY <1>1, <1>2, <1>3 DEF RunViewInv, RunViewTyped
  <1> QED
    BY <1>1, <1>4, <1>5 DEF RunViewInv

LEMMA StopIsAnswered == RunViewInv /\ StopAnswered => RunViewInv'
  <1> SUFFICES ASSUME RunViewInv, StopAnswered PROVE RunViewInv'
    OBVIOUS
  <1>1. PICK c \in cancels :
          /\ cancels' = cancels \ {c}
          /\ runs' = IF Ended(c.run) THEN runs ELSE [runs EXCEPT ![c.run].cancel = TRUE]
          /\ UNCHANGED <<page, asked, begun, shown, watch>>
    BY DEF StopAnswered
  <1>2. runs \in Seq(Runs) /\ c.run \in DOMAIN runs /\ DOMAIN runs = 1..Len(runs)
        /\ \A r \in 1..Len(runs) : runs[r] \in Runs
    BY DEF RunViewInv, RunViewTyped
  <1>3. /\ runs' \in Seq(Runs) /\ Len(runs') = Len(runs) /\ DOMAIN runs' = DOMAIN runs
        /\ \A r \in 1..Len(runs) : runs'[r].events = runs[r].events
    <2>1. CASE Ended(c.run)
      BY <1>1, <1>2, <2>1
    <2>2. CASE ~Ended(c.run)
      <3> DEFINE run == [runs[c.run] EXCEPT !.cancel = TRUE]
      <3>1. run \in Runs /\ run.events = runs[c.run].events
        BY <1>2 DEF Runs
      <3>2. runs' = [runs EXCEPT ![c.run] = run]
        BY <1>1, <1>2, <2>2
      <3> HIDE DEF run
      <3> QED
        BY <1>2, <3>1, <3>2
    <2> QED
      BY <2>1, <2>2
  <1>4. RunViewTyped'
    BY <1>1, <1>3 DEF RunViewInv, RunViewTyped
  <1>5. watch.run # 0 => watch.run \in 1..Len(runs)
    BY <1>2 DEF RunViewInv, RunViewTyped, Follows, Sockets, Screens
  <1>6. Follows'
    BY <1>1, <1>3, <1>5 DEF RunViewInv, Follows
  <1> QED
    BY <1>1, <1>3, <1>4, <1>5, <1>6 DEF RunViewInv

\* Another run takes the screen, from its first event, or none does.
LEMMA NewScreen ==
    ASSUME NEW rs, Len(rs) \in Nat, \A r \in 1..Len(rs) : rs[r].events \in Seq(Happenings),
           NEW id \in 0..Len(rs), NEW sock \in {NoWatch, Watching(id)}
    PROVE  /\ sock \in Sockets /\ sock.run \in {0, id} /\ sock.at = 0
           /\ sock.run = 0 => sock.phase = "none"
           /\ sock.run # 0 => sock.at <= Len(rs[sock.run].events)
                              /\ ToldSoFar(rs[sock.run].events, sock.at, <<>>, 0)
  <1>1. /\ sock \in Sockets /\ sock.run \in {0, id} /\ sock.at = 0
        /\ sock.run = 0 => sock.phase = "none"
    <2>1. NoWatch \in Sockets /\ NoWatch.run = 0 /\ NoWatch.at = 0 /\ NoWatch.phase = "none"
      BY DEF NoWatch, Sockets
    <2>2. CASE sock = NoWatch
      BY <2>1, <2>2
    <2>3. CASE id # 0 /\ sock = [NoWatch EXCEPT !.run = id, !.phase = "open"]
      <3>1. id \in Nat
        OBVIOUS
      <3> QED
        BY <2>1, <2>3, <3>1 DEF NoWatch, Sockets
    <2> QED
      BY <2>2, <2>3 DEF Watching
  <1>2. ASSUME sock.run # 0 PROVE sock.at <= Len(rs[sock.run].events)
    <2>1. sock.run \in 1..Len(rs)
      BY <1>1, <1>2
    <2>2. Len(rs[sock.run].events) \in Nat
      BY <2>1
    <2> QED
      BY <1>1, <2>2
  <1> QED
    BY <1>1, <1>2, NothingToldYet

LEMMA EmptyScreen ==
    /\ NoRun \in Screens /\ NoRun.id = 0 /\ NoRun.path = "none"
    /\ NoRun.lines = <<>> /\ NoRun.problems = 0
    /\ \A id \in Nat, p \in RunFlows :
          /\ Started(id, p) \in Screens /\ Started(id, p).id = id /\ Started(id, p).path = p
          /\ Started(id, p).lines = <<>> /\ Started(id, p).problems = 0
    /\ "none" \notin RunFlows
    /\ Len(<<>>) = 0 /\ 0 <= ConsoleLimit
  <1>1. NoRun \in Screens /\ "none" \notin RunFlows
    BY DEF NoRun, Screens, RunFlows
  <1>2. /\ NoRun.id = 0 /\ NoRun.path = "none" /\ NoRun.lines = <<>> /\ NoRun.problems = 0
        /\ Len(<<>>) = 0 /\ 0 <= ConsoleLimit
    BY ConsoleBounds DEF NoRun
  <1>3. ASSUME NEW id \in Nat, NEW p \in RunFlows
        PROVE  /\ Started(id, p) \in Screens /\ Started(id, p).id = id /\ Started(id, p).path = p
               /\ Started(id, p).lines = <<>> /\ Started(id, p).problems = 0
    BY <1>1, <1>2 DEF Started, Screens
  <1> QED
    BY <1>1, <1>2, <1>3

LEMMA StartIsShown == RunViewInv /\ StartAnswered => RunViewInv'
  <1> SUFFICES ASSUME RunViewInv, StartAnswered PROVE RunViewInv'
    OBVIOUS
  <1>1. PICK a \in asked :
          /\ asked' = asked \ {a}
          /\ runs' = Append(runs, [flow |-> a.path, events |-> <<>>, cancel |-> FALSE,
                                   status |-> "running"])
          /\ shown' = Started(Len(runs) + 1, a.path)
          /\ watch' = IF page = "away" THEN NoWatch ELSE Watching(Len(runs) + 1)
          /\ UNCHANGED <<page, begun, cancels>>
    BY DEF StartAnswered
  <1> DEFINE run == [flow |-> a.path, events |-> <<>>, cancel |-> FALSE, status |-> "running"]
             id == Len(runs) + 1
  <1>2. run \in Runs /\ run.events = <<>> /\ a.path \in RunFlows /\ runs \in Seq(Runs)
    <2>1. a.path \in RunFlows /\ runs \in Seq(Runs)
      BY DEF RunViewInv, RunViewTyped, Presses
    <2>2. <<>> \in Seq(Happenings)
      OBVIOUS
    <2> QED
      BY <2>1, <2>2 DEF Runs
  <1>3. runs' = Append(runs, run)
    BY <1>1
  <1> HIDE DEF run
  <1>4. /\ runs' \in Seq(Runs) /\ Len(runs') = id /\ id \in Nat \ {0}
        /\ \A r \in 1..Len(runs) : runs'[r] = runs[r]
        /\ runs'[id] = run /\ \A r \in DOMAIN runs : r \in DOMAIN runs'
    BY <1>2, <1>3
  <1>5. \A r \in 1..Len(runs') : r \in 1..Len(runs) \/ r = id
    BY <1>4
  <1>6. \A r \in 1..Len(runs') : ToldLast(runs'[r].events) /\ runs'[r].events \in Seq(Happenings)
    <2>1. ToldLast(<<>>)
      BY DEF ToldLast
    <2> QED
      <3> TAKE r \in 1..Len(runs')
      <3>1. CASE r \in 1..Len(runs)
        <4>1. runs[r] \in Runs /\ runs'[r] = runs[r] /\ ToldLast(runs[r].events)
          BY <1>2, <1>4, <3>1 DEF RunViewInv
        <4> QED
          BY <4>1 DEF Runs
      <3>2. CASE r = id
        <4>1. runs'[r].events = <<>>
          BY <1>2, <1>4, <3>2
        <4>2. <<>> \in Seq(Happenings)
          OBVIOUS
        <4> QED
          BY <2>1, <4>1, <4>2
      <3> QED
        BY <1>5, <3>1, <3>2
  <1>7. /\ shown' \in Screens /\ shown'.id = id /\ shown'.path = a.path
        /\ shown'.lines = <<>> /\ shown'.problems = 0
    BY <1>1, <1>2, <1>4, EmptyScreen
  <1>8. watch' \in {NoWatch, Watching(id)} /\ id \in 0..Len(runs') /\ Len(runs') \in Nat
    BY <1>1, <1>4
  <1> HIDE DEF id
  <1>9. /\ watch' \in Sockets /\ watch'.run \in {0, id} /\ watch'.at = 0
        /\ watch'.run = 0 => watch'.phase = "none"
        /\ watch'.run # 0 => watch'.at <= Len(runs'[watch'.run].events)
                             /\ ToldSoFar(runs'[watch'.run].events, watch'.at, <<>>, 0)
    BY <1>6, <1>8, NewScreen
  <1>10. RunViewTyped'
    BY <1>1, <1>4, <1>7, <1>9 DEF RunViewInv, RunViewTyped
  <1>11. Follows'
    BY <1>2, <1>4, <1>7, <1>8, <1>9, EmptyScreen DEF Follows
  <1> QED
    BY <1>6, <1>7, <1>9, <1>10, <1>11, EmptyScreen DEF RunViewInv

\* The reader goes: to another flow, to another page, or back to the editor.
LEMMA ReaderMoves ==
    ASSUME ~MayReturn, RunViewInv,
           LeaveEditor \/ \E p \in RunFlows : Switch(p) \/ OpenEditor(p)
    PROVE  RunViewInv'
  <1>1. /\ runs \in Seq(Runs) /\ watch \in Sockets /\ shown \in Screens
        /\ UNCHANGED runs /\ page' \in RunFlows \cup {"away"}
    BY DEF RunViewInv, RunViewTyped, LeaveEditor, Switch, OpenEditor
  <1>2. Len(runs) \in Nat /\ \A r \in 1..Len(runs) : runs[r].events \in Seq(Happenings)
    <2>1. \A r \in 1..Len(runs) : runs[r] \in Runs
      BY <1>1
    <2> QED
      BY <1>1, <2>1 DEF Runs
  <1>3. /\ asked' \subseteq Presses /\ begun' \in Nat
        /\ cancels' \subseteq Cancellings /\ \A c \in cancels' : c.run \in DOMAIN runs
    <2>1. /\ asked \subseteq Presses /\ begun \in Nat
          /\ cancels \subseteq Cancellings /\ \A c \in cancels : c.run \in DOMAIN runs
      BY DEF RunViewInv, RunViewTyped
    <2>2. CASE LeaveEditor
      <3>1. /\ asked' = {[a EXCEPT !.mine = FALSE] : a \in asked}
            /\ cancels' = {[c EXCEPT !.mine = FALSE] : c \in cancels} /\ begun' = begun
        BY <2>2 DEF LeaveEditor
      <3>2. \A a \in asked : [a EXCEPT !.mine = FALSE] \in Presses
        BY <2>1 DEF Presses
      <3>3. \A c \in cancels : [c EXCEPT !.mine = FALSE] \in Cancellings
                               /\ [c EXCEPT !.mine = FALSE].run = c.run
        BY <2>1 DEF Cancellings
      <3> QED
        BY <2>1, <3>1, <3>2, <3>3
    <2>3. CASE \E p \in RunFlows : Switch(p) \/ OpenEditor(p)
      BY <2>1, <2>3 DEF Switch, OpenEditor
    <2> QED
      BY <2>2, <2>3
  <1>4. shown.id \in 0..Len(runs) /\ 0 \in 0..Len(runs)
    BY <1>1, <1>2 DEF RunViewInv, Follows, Screens
  <1>5. \/ UNCHANGED <<shown, watch>>
        \/ shown' = NoRun /\ watch' = NoWatch
        \/ watch' = NoWatch /\ shown' = [shown EXCEPT !.connection = "idle"]
        \/ /\ UNCHANGED shown /\ watch' = Watching(shown.id)
           /\ shown.id # 0 => shown.lines = <<>> /\ shown.problems = 0
    <2>1. CASE LeaveEditor
      BY <2>1 DEF LeaveEditor
    <2>2. ASSUME NEW p \in RunFlows, Switch(p)
          PROVE  UNCHANGED <<shown, watch>> \/ (shown' = NoRun /\ watch' = NoWatch)
      BY <2>2 DEF Switch
    <2>3. ASSUME NEW p \in RunFlows, OpenEditor(p)
          PROVE  \/ shown' = NoRun /\ watch' = NoWatch
                 \/ /\ UNCHANGED shown /\ watch' = Watching(shown.id)
                    /\ shown.id # 0 => shown.lines = <<>> /\ shown.problems = 0
      BY <2>3 DEF OpenEditor, RunViewInv, Follows
    <2> QED
      BY <2>1, <2>2, <2>3
  <1>6. CASE UNCHANGED <<shown, watch>>
    <2>1. RunViewTyped' /\ Follows'
      BY <1>1, <1>3, <1>6 DEF RunViewInv, RunViewTyped, Follows
    <2> QED
      BY <1>1, <1>6, <2>1 DEF RunViewInv
  <1>7. ASSUME NEW id \in 0..Len(runs), NEW sock \in {NoWatch, Watching(id)}, watch' = sock,
               shown' \in Screens, shown'.id = id, shown'.id = 0 <=> shown'.path = "none",
               Len(shown'.lines) <= ConsoleLimit,
               sock # NoWatch => id = 0 \/ (shown'.lines = <<>> /\ shown'.problems = 0)
        PROVE  RunViewInv'
    <2>1. /\ sock \in Sockets /\ sock.run \in {0, id} /\ sock.at = 0
          /\ sock.run = 0 => sock.phase = "none"
          /\ sock.run # 0 => sock.at <= Len(runs[sock.run].events)
                             /\ ToldSoFar(runs[sock.run].events, sock.at, <<>>, 0)
      BY <1>2, <1>7, NewScreen
    <2>2. sock.run # 0 => shown'.lines = <<>> /\ shown'.problems = 0
      BY <1>7, <2>1 DEF NoWatch
    <2>3. RunViewTyped'
      BY <1>1, <1>3, <1>7, <2>1 DEF RunViewTyped
    <2>4. Follows'
      BY <1>1, <1>2, <1>7, <2>1 DEF Follows
    <2> QED
      BY <1>1, <1>7, <2>1, <2>2, <2>3, <2>4 DEF RunViewInv
  <1>8. CASE shown' = NoRun /\ watch' = NoWatch
    BY <1>4, <1>7, <1>8, EmptyScreen
  <1>9. CASE watch' = NoWatch /\ shown' = [shown EXCEPT !.connection = "idle"]
    <2>1. /\ shown' \in Screens /\ shown'.id = shown.id /\ shown'.path = shown.path
          /\ shown'.lines = shown.lines
      BY <1>1, <1>9 DEF Screens
    <2> QED
      BY <1>4, <1>7, <1>9, <2>1 DEF RunViewInv, Follows
  <1>10. CASE /\ UNCHANGED shown /\ watch' = Watching(shown.id)
              /\ shown.id # 0 => shown.lines = <<>> /\ shown.problems = 0
    BY <1>1, <1>4, <1>7, <1>10 DEF RunViewInv, Follows
  <1> QED
    BY <1>5, <1>6, <1>8, <1>9, <1>10

LEMMA RunViewStep ==
    ASSUME ~MayReturn, RunViewInv, [RunViewNext]_runViewVars
    PROVE  RunViewInv'
  <1>1. CASE UNCHANGED runViewVars
    <2>1. RunViewTyped' /\ Follows'
      BY <1>1 DEF runViewVars, RunViewInv, RunViewTyped, Follows
    <2> QED
      BY <1>1, <2>1 DEF runViewVars, RunViewInv
  <1> QED
    BY <1>1, RunSaysMore, EventIsShown, SocketMoves, ButtonWaits, StopIsAnswered, StartIsShown,
       ReaderMoves DEF RunViewNext

LEMMA RunViewFirst == RunViewInit => RunViewInv
  <1> SUFFICES ASSUME RunViewInit PROVE RunViewInv
    OBVIOUS
  <1>1. runs \in Seq(Runs) /\ Len(runs) = 0 /\ DOMAIN runs = {}
    BY DEF RunViewInit
  <1>2. RunViewTyped
    BY <1>1, EmptyScreen DEF RunViewInit, RunViewTyped, NoWatch, Sockets, RunFlows
  <1>3. Follows
    BY <1>1, EmptyScreen DEF RunViewInit, Follows, NoWatch
  <1> QED
    BY <1>1, <1>2, <1>3, EmptyScreen DEF RunViewInit, RunViewInv, NoWatch

\* For any number of runs, lines and connections, and a console of any length: however often
\* the socket drops and the run is replayed, and whatever is started, stopped and cleared
\* meanwhile, the console has each line once and in order, and a problem is counted once;
\* unless the reader comes back to a run the store still holds (see MayReturn) (store/run.ts,
\* useRunEvents.ts, RunButton.tsx).
THEOREM LinesComeOnce == ~MayReturn => (RunViewSpec => []ConsoleOnce)
  <1> SUFFICES ASSUME ~MayReturn PROVE RunViewSpec => []ConsoleOnce
    OBVIOUS
  <1>1. RunViewInv /\ [RunViewNext]_runViewVars => RunViewInv'
    BY RunViewStep
  <1>2. ASSUME RunViewInv PROVE ConsoleOnce
    <2> SUFFICES ASSUME watch.run # 0
                 PROVE  /\ \E from \in 0..watch.at : ToSet(shown.lines) = LinesAfter(from)
                        /\ \A i, j \in DOMAIN shown.lines :
                              i < j => shown.lines[i] < shown.lines[j]
                        /\ shown.problems <= 1
      BY DEF ConsoleOnce
    <2>1. ToldSoFar(runs[watch.run].events, watch.at, shown.lines, shown.problems)
      BY <1>2 DEF RunViewInv
    <2>2. DOMAIN shown.lines = 1..Len(shown.lines)
      BY <1>2 DEF RunViewInv, RunViewTyped, Screens
    <2>3. \E from \in 0..watch.at : ToSet(shown.lines) = LinesAfter(from)
      BY <2>1 DEF ToldSoFar, LinesAfter
    <2>4. shown.problems <= 1
      BY <2>1 DEF ToldSoFar
    <2> QED
      BY <2>1, <2>2, <2>3, <2>4 DEF ToldSoFar, Ascending
  <1> QED
    BY <1>1, <1>2, RunViewFirst, PTL DEF RunViewSpec
=============================================================================
