----------------------- MODULE ProviderAccountProofs -----------------------
(***************************************************************************)
(* A login is lost only by a refusal and won only by an answer: proved for *)
(* every provider and any number of sessions and calls.  The grouping of   *)
(* clips into projects is proved for any clips, gap and number of          *)
(* assigners, and the cache of followed channels for any list and page     *)
(* size: Projects and Follow are the instances of MCProvidersProjects,     *)
(* whose constants are arbitrary here.                                     *)
(***************************************************************************)
EXTENDS MCProvidersProjects, ListOrderProofs

Said == {"none", "blocked", "yes", "no"}
Cookies == Sessions \cup {None}
Flow == [op : {"none", "import", "verify", "invalidate", "login", "logout"},
         at : {"idle", "ask", "told", "auth", "row", "load", "save", "post"},
         s : Cookies, said : Said]
Logins == [cookies : Cookies, in : BOOLEAN]

Types ==
  /\ accepts \subseteq Sessions
  /\ mem \in Logins /\ row \in Logins
  /\ auth \in [cookies : Cookies, in : BOOLEAN, there : BOOLEAN] /\ file \in Cookies
  /\ flows \in [Requests -> Flow]
  /\ cmd \in [at : {"idle", "queued", "read", "done"}, s : Cookies]

\* A check that was not refused and has a row to write has cookies to write in it.
SavesCookies ==
  \A i \in Requests :
    flows[i].at = "save" /\ ~Refused(flows[i].said) => flows[i].s # None

IInv == Types /\ SavesCookies

\* A login of known cookies, or of none, has the type of one, in either place.
LEMMA LoginTypes ==
  /\ \A s \in Cookies, b \in BOOLEAN :
       /\ Login(s, b) \in Logins
       /\ Auth(s, b) \in [cookies : Cookies, in : BOOLEAN, there : BOOLEAN]
  /\ NoAuth \in [cookies : Cookies, in : BOOLEAN, there : BOOLEAN]
  /\ None \in Cookies /\ Sessions \subseteq Cookies
BY DEF Login, Logins, Auth, NoAuth, Cookies

\* The initial states have the types, and nothing runs.
LEMMA InitIInv == Init => IInv
<1> SUFFICES ASSUME Init PROVE IInv
  OBVIOUS
<1>1. PICK s \in Sessions :
        /\ mem \in {Login(s, TRUE), Login(None, FALSE)} /\ row = Login(s, TRUE)
        /\ auth \in {Auth(s, TRUE), NoAuth} /\ file = None
  BY DEF Init
<1>3. mem \in Logins /\ row \in Logins
  BY <1>1, LoginTypes
<1>4. auth \in [cookies : Cookies, in : BOOLEAN, there : BOOLEAN] /\ file \in Cookies
  BY <1>1, LoginTypes
<1>5. Idle \in Flow
  BY DEF Idle, Flow, Cookies, Said
<1>6. Types
  BY <1>3, <1>4, <1>5 DEF Init, Types, Cookies
<1>2. SavesCookies
  BY DEF Init, SavesCookies, Idle
<1> QED
  BY <1>2, <1>6 DEF IInv

\* Only the request that takes the step changes.
LEMMA OneFlow ==
  ASSUME IInv, NEW i \in Requests, NEW flow \in Flow, Step(i, flow)
  PROVE  /\ flows' \in [Requests -> Flow] /\ flows'[i] = flow
         /\ \A j \in Requests \ {i} : flows'[j] = flows[j]
BY DEF IInv, Types, Step

\* A request that goes on to anything but a write of its row keeps the invariant, if the
\* rest keeps its type.
LEMMA FlowKeeps ==
  ASSUME IInv, NEW i \in Requests, NEW flow \in Flow, Step(i, flow), UNCHANGED kind,
         flow.at # "save", accepts' = accepts,
         mem' \in Logins, row' \in Logins, file' \in Cookies, cmd' = cmd,
         auth' \in [cookies : Cookies, in : BOOLEAN, there : BOOLEAN]
  PROVE  IInv'
<1>1. Types'
  BY OneFlow DEF IInv, Types
<1>2. \A said : Refused(said)' = Refused(said)
  BY DEF Refused, TwitchVerdict, YoutubeVerdict, BilibiliVerdict, StripchatVerdict,
         ChaturbateVerdict
<1>3. SavesCookies'
  BY <1>2, OneFlow DEF IInv, SavesCookies
<1> QED
  BY <1>1, <1>3 DEF IInv

\* An import: the site is asked next.
LEMMA ImportBegins ==
  ASSUME IInv, NEW i \in Requests, NEW s \in Sessions,
         ImportStored(i, s) \/ ImportChaturbate(i, s),
         cmd' \in [at : {"idle", "queued", "read", "done"}, s : Cookies]
  PROVE  IInv'
<1> DEFINE flow == [op |-> "import", at |-> "ask", s |-> s, said |-> "none"]
<1>1. flow \in Flow /\ Step(i, flow) /\ flow.at # "save"
  BY DEF Flow, Cookies, Said, ImportStored, ImportChaturbate
<1>2. UNCHANGED <<kind, accepts, auth, file>> /\ mem' \in Logins /\ row' \in Logins
  <2>1. mem \in Logins /\ row \in Logins
    BY DEF IInv, Types
  <2>2. CASE ImportStored(i, s)
    BY <2>1, <2>2 DEF ImportStored, Login, Logins, Cookies, TrustedUnasked
  <2>3. CASE ImportChaturbate(i, s)
    BY <2>1, <2>3 DEF ImportChaturbate, Logins, Cookies
  <2> QED
    BY <2>2, <2>3
<1>3. Types'
  BY <1>1, <1>2, OneFlow DEF IInv, Types
<1>4. SavesCookies'
  BY <1>1, <1>2, OneFlow DEF IInv, SavesCookies, Refused, TwitchVerdict, YoutubeVerdict,
     BilibiliVerdict, StripchatVerdict, ChaturbateVerdict
<1> QED
  BY <1>3, <1>4 DEF IInv

\* Each step of a request keeps the invariant.
LEMMA RequestKeeps ==
  ASSUME IInv, NEW i \in Requests,
         \/ Ask(i) \/ ImportTold(i) \/ ImportMarked(i) \/ ImportAuth(i) \/ ImportRow(i)
         \/ VerifyBegins(i) \/ VerifyTold(i) \/ VerifyMarked(i) \/ VerifyAuth(i) \/ Save(i)
         \/ InvalidateBegins(i) \/ InvalidateTold(i)
  PROVE  IInv'
<1>1. flows[i] \in Flow /\ Idle \in Flow
  BY DEF IInv, Types, Flow, Idle, Cookies, Said
<1>2. /\ mem \in Logins /\ row \in Logins /\ file \in Cookies
      /\ auth \in [cookies : Cookies, in : BOOLEAN, there : BOOLEAN]
  BY DEF IInv, Types
<1> DEFINE goes(at) == [flows[i] EXCEPT !.at = at]
<1>3. \A at \in {"told", "auth", "row", "load"} : goes(at) \in Flow /\ goes(at).at # "save"
  BY <1>1 DEF Flow
<1>4. CASE Ask(i)
  <2>1. PICK said \in Said : Step(i, [flows[i] EXCEPT !.said = said, !.at = "told"])
    BY <1>4 DEF Ask, Answers, Said
  <2>2. /\ [flows[i] EXCEPT !.said = said, !.at = "told"] \in Flow
        /\ [flows[i] EXCEPT !.said = said, !.at = "told"].at # "save"
    BY <1>1 DEF Flow
  <2>3. UNCHANGED <<kind, accepts, mem, auth, file, row, cmd>>
    BY <1>4 DEF Ask
  <2> QED
    BY <1>2, <2>1, <2>2, <2>3, FlowKeeps
<1>5. CASE ImportTold(i)
  <2>1. Step(i, Idle) /\ UNCHANGED <<kind, accepts, mem, auth, file, cmd>> /\ row' \in Logins
    BY <1>1, <1>2, <1>5 DEF ImportTold, Login, Logins, Flow
  <2> QED
    BY <1>1, <1>2, <2>1, FlowKeeps DEF Idle
<1>6. CASE ImportMarked(i)
  <2>1. Step(i, goes("auth")) /\ UNCHANGED <<kind, accepts, auth, file, row, cmd>> /\ mem' \in Logins
    BY <1>2, <1>6 DEF ImportMarked, Logins, Refused
  <2> QED
    BY <1>2, <1>3, <2>1, FlowKeeps
<1>7. CASE ImportAuth(i)
  <2>1. /\ Step(i, goes("row")) /\ UNCHANGED <<kind, accepts, mem, file, row, cmd>>
        /\ auth' \in [cookies : Cookies, in : BOOLEAN, there : BOOLEAN]
    BY <1>1, <1>7 DEF ImportAuth, Auth, Flow, Refused
  <2> QED
    BY <1>2, <1>3, <2>1, FlowKeeps
<1>8. CASE ImportRow(i)
  <2>1. Step(i, Idle) /\ UNCHANGED <<kind, accepts, mem, auth, file, cmd>> /\ row' \in Logins
    BY <1>1, <1>8 DEF ImportRow, Login, Logins, Flow, Refused
  <2> QED
    BY <1>1, <1>2, <2>1, FlowKeeps DEF Idle
<1>9. CASE VerifyBegins(i)
  <2> DEFINE flow == [op |-> "verify", at |-> "ask", s |-> Saved, said |-> "none"]
  <2>1. flow \in Flow /\ flow.at # "save"
    BY <1>2 DEF Flow, Saved, Logins, Said
  <2>2. Step(i, flow) /\ UNCHANGED <<kind, accepts, mem, auth, file, row, cmd>>
    BY <1>9 DEF VerifyBegins
  <2> QED
    BY <1>2, <2>1, <2>2, FlowKeeps
<1>10. CASE VerifyTold(i)
  <2>1. Step(i, Idle) \/ Step(i, goes("load"))
    BY <1>10 DEF VerifyTold
  <2>2. UNCHANGED <<kind, accepts, mem, auth, file, row, cmd>>
    BY <1>10 DEF VerifyTold
  <2> QED
    BY <1>1, <1>2, <1>3, <2>1, <2>2, FlowKeeps DEF Idle
<1>11. CASE VerifyMarked(i)
  <2>1. Step(i, goes("auth")) \/ Step(i, goes("load"))
    BY <1>11 DEF VerifyMarked
  <2>2. UNCHANGED <<kind, accepts, auth, file, row, cmd>> /\ mem' \in Logins
    BY <1>2, <1>11 DEF VerifyMarked, Logins, Refused
  <2> QED
    BY <1>2, <1>3, <2>1, <2>2, FlowKeeps
<1>12. CASE VerifyAuth(i)
  <2>1. /\ Step(i, goes("load")) /\ UNCHANGED <<kind, accepts, mem, file, row, cmd>>
        /\ auth' \in [cookies : Cookies, in : BOOLEAN, there : BOOLEAN]
    BY <1>1, <1>12 DEF VerifyAuth, Auth, Flow
  <2> QED
    BY <1>2, <1>3, <2>1, FlowKeeps
<1>13. CASE Save(i)
  <2>1. Step(i, Idle) /\ UNCHANGED <<kind, accepts, mem, auth, file, cmd>> /\ row' \in Logins
    BY <1>1, <1>13 DEF Save, Login, Logins, Flow, Refused
  <2> QED
    BY <1>1, <1>2, <2>1, FlowKeeps DEF Idle
<1>14. CASE InvalidateBegins(i)
  <2>1. PICK said \in Said : Step(i, [op |-> "invalidate", at |-> "told", s |-> None, said |-> said])
    BY <1>14 DEF InvalidateBegins, Answers, Said
  <2>2. /\ [op |-> "invalidate", at |-> "told", s |-> None, said |-> said] \in Flow
        /\ UNCHANGED <<kind, accepts, mem, auth, file, row, cmd>>
    BY <1>14 DEF InvalidateBegins, Flow, Cookies
  <2> QED
    BY <1>2, <2>1, <2>2, FlowKeeps
<1>15. CASE InvalidateTold(i)
  <2>1. CASE kind = "chaturbate"
    <3>1. /\ Step(i, [flows[i] EXCEPT !.at = "auth", !.s = mem.cookies])
          /\ UNCHANGED <<kind, accepts, auth, file, row, cmd>> /\ mem' \in Logins
      BY <1>2, <1>15, <2>1 DEF InvalidateTold, Logins
    <3>2. /\ [flows[i] EXCEPT !.at = "auth", !.s = mem.cookies] \in Flow
          /\ [flows[i] EXCEPT !.at = "auth", !.s = mem.cookies].at # "save"
      BY <1>1, <1>2 DEF Flow, Logins
    <3> QED
      BY <1>2, <3>1, <3>2, FlowKeeps
  <2>2. CASE kind # "chaturbate"
    <3>1. Step(i, goes("load")) /\ UNCHANGED <<kind, accepts, mem, auth, file, row, cmd>>
      BY <1>15, <2>2 DEF InvalidateTold
    <3> QED
      BY <1>2, <1>3, <3>1, FlowKeeps
  <2> QED
    BY <2>1, <2>2
<1> QED
  BY <1>4, <1>5, <1>6, <1>7, <1>8, <1>9, <1>10, <1>11, <1>12, <1>13, <1>14, <1>15

\* A request that loads its row writes it only if it was refused, or the row has cookies.
LEMMA LoadKeeps == ASSUME IInv, NEW i \in Requests, Load(i) PROVE IInv'
<1> DEFINE flow == [flows[i] EXCEPT !.at = "save", !.s = Loaded(i)]
<1>1. flows[i] \in Flow /\ Idle \in Flow /\ row.cookies \in Cookies
  BY DEF IInv, Types, Flow, Logins, Idle, Cookies, Said
<1>2. Loaded(i) \in Cookies
  BY <1>1 DEF Loaded, Flow
<1>3. flow \in Flow /\ flow.said = flows[i].said /\ flow.s = Loaded(i)
  BY <1>1, <1>2 DEF Flow
<1>4. UNCHANGED <<kind, accepts, mem, auth, file, row, cmd>>
  BY DEF Load
<1>5. CASE Step(i, Idle)
  BY <1>1, <1>4, <1>5, FlowKeeps DEF IInv, Types, Idle
<1>6. CASE Step(i, flow) /\ ~ (~Refused(flows[i].said) /\ (row.in \/ row.cookies = None))
  <2>1. ~Refused(flow.said) => flow.s # None
    BY <1>3, <1>6 DEF Loaded
  <2> HIDE DEF flow
  <2>2. /\ flows' \in [Requests -> Flow] /\ flows'[i] = flow
        /\ \A j \in Requests \ {i} : flows'[j] = flows[j]
    BY <1>3, <1>6, OneFlow
  <2>3. \A said : Refused(said)' = Refused(said)
    BY <1>4 DEF Refused, TwitchVerdict, YoutubeVerdict, BilibiliVerdict, StripchatVerdict,
       ChaturbateVerdict
  <2>4. SavesCookies'
    BY <2>1, <2>2, <2>3 DEF IInv, SavesCookies
  <2> QED
    BY <1>4, <2>2, <2>4 DEF IInv, Types
<1> QED
  BY <1>5, <1>6 DEF Load

\* Logins with a password, and logouts.
LEMMA LoginKeeps ==
  ASSUME IInv, NEW i \in Requests,
         \/ LoginBegins(i) \/ LoginStripchat(i) \/ LoginFails(i) \/ LoginIssued(i)
         \/ LoginChecked(i) \/ LoginSaved(i)
         \/ LogoutStored(i) \/ LogoutChaturbate(i) \/ LogoutCleared(i)
  PROVE  IInv'
<1>1. flows[i] \in Flow /\ Idle \in Flow /\ Idle.at # "save"
  BY DEF IInv, Types, Flow, Idle, Cookies, Said
<1>2. /\ mem \in Logins /\ row \in Logins /\ file \in Cookies /\ accepts \subseteq Sessions
      /\ auth \in [cookies : Cookies, in : BOOLEAN, there : BOOLEAN]
  BY DEF IInv, Types
<1>3. \A s \in Cookies, b \in BOOLEAN :
        Login(s, b) \in Logins /\ Auth(s, b) \in [cookies : Cookies, in : BOOLEAN, there : BOOLEAN]
  BY LoginTypes
<1>4. None \in Cookies /\ Sessions \subseteq Cookies /\ auth.cookies \in Cookies /\ mem.cookies \in Cookies
  BY <1>2 DEF Cookies, Logins
<1> DEFINE goes(at) == [flows[i] EXCEPT !.at = at]
<1>5. \A at \in {"ask", "auth"} : goes(at) \in Flow /\ goes(at).at # "save"
  BY <1>1 DEF Flow
<1>6. CASE LoginBegins(i)
  <2> DEFINE flow == [op |-> "login", at |-> "post", s |-> None, said |-> "none"]
  <2>1. flow \in Flow /\ flow.at # "save"
    BY DEF Flow, Cookies, Said
  <2>2. Step(i, flow) /\ UNCHANGED <<kind, accepts, mem, auth, file, row, cmd>>
    BY <1>6 DEF LoginBegins
  <2> QED
    BY <1>2, <2>1, <2>2, FlowKeeps
<1>7. CASE LoginStripchat(i)
  <2>1. Step(i, Idle) /\ UNCHANGED <<kind, accepts, mem, auth, file, cmd>>
    BY <1>7 DEF LoginStripchat
  <2>2. row' = Login(None, FALSE) \/ \E s \in accepts : row' = Login(s, TRUE)
    BY <1>7 DEF LoginStripchat
  <2>3. row' \in Logins
    <3>1. ASSUME NEW s \in accepts PROVE Login(s, TRUE) \in Logins
      BY <1>2, LoginTypes
    <3> QED
      BY <2>2, <3>1, LoginTypes
  <2> QED
    BY <1>1, <1>2, <2>1, <2>3, FlowKeeps
<1>8. CASE LoginFails(i)
  <2>1. /\ Step(i, Idle) /\ UNCHANGED <<kind, accepts, mem, file, row, cmd>>
        /\ auth' \in [cookies : Cookies, in : BOOLEAN, there : BOOLEAN]
    BY <1>3, <1>4, <1>8 DEF LoginFails
  <2> QED
    BY <1>1, <1>2, <2>1, FlowKeeps
<1>9. CASE LoginIssued(i)
  <2>1. Step(i, goes("ask")) /\ UNCHANGED <<kind, accepts, auth, file, row, cmd>> /\ mem' \in Logins
    BY <1>3, <1>4, <1>9 DEF LoginIssued
  <2> QED
    BY <1>2, <1>5, <2>1, FlowKeeps
<1>10. CASE LoginChecked(i)
  <2>1. Step(i, goes("auth")) /\ UNCHANGED <<kind, accepts, auth, file, row, cmd>>
    BY <1>10 DEF LoginChecked
  <2>2. mem' \in Logins
    BY <1>2, <1>4, <1>10 DEF LoginChecked, Logins
  <2> QED
    BY <1>2, <1>5, <2>1, <2>2, FlowKeeps
<1>11. CASE LoginSaved(i)
  <2>1. Step(i, Idle) /\ UNCHANGED <<kind, accepts, mem, row, cmd>>
    BY <1>11 DEF LoginSaved
  <2>2. file' \in Cookies /\ auth' \in [cookies : Cookies, in : BOOLEAN, there : BOOLEAN]
    BY <1>2, <1>3, <1>4, <1>11 DEF LoginSaved
  <2> QED
    BY <1>1, <1>2, <2>1, <2>2, FlowKeeps
<1>12. CASE LogoutStored(i)
  <2>1. row' \in Logins /\ UNCHANGED <<kind, accepts, mem, auth, file, flows, cmd>>
    BY <1>3, <1>4, <1>12 DEF LogoutStored
  <2>2. SavesCookies'
    BY <2>1 DEF IInv, SavesCookies, Refused, TwitchVerdict, YoutubeVerdict, BilibiliVerdict,
       StripchatVerdict, ChaturbateVerdict
  <2> QED
    BY <2>1, <2>2 DEF IInv, Types
<1>13. CASE LogoutChaturbate(i)
  <2> DEFINE flow == [op |-> "logout", at |-> "auth", s |-> None, said |-> "none"]
  <2>1. flow \in Flow /\ flow.at # "save"
    BY DEF Flow, Cookies, Said
  <2>2. Step(i, flow) /\ UNCHANGED <<kind, accepts, auth, file, row, cmd>> /\ mem' \in Logins
    BY <1>3, <1>4, <1>13 DEF LogoutChaturbate
  <2> QED
    BY <1>2, <2>1, <2>2, FlowKeeps
<1>14. CASE LogoutCleared(i)
  <2>1. /\ Step(i, Idle) /\ UNCHANGED <<kind, accepts, mem, row, cmd>> /\ file' \in Cookies
        /\ auth' \in [cookies : Cookies, in : BOOLEAN, there : BOOLEAN]
    BY <1>4, <1>14 DEF LogoutCleared, NoAuth
  <2> QED
    BY <1>1, <1>2, <2>1, FlowKeeps
<1> QED
  BY <1>6, <1>7, <1>8, <1>9, <1>10, <1>11, <1>12, <1>13, <1>14

\* What no request does: the helper's command, a restart, a session that ends.
LEMMA OthersKeep ==
  ASSUME IInv, \/ QueueImport \/ HelperReads \/ ImportExpires \/ Restart
               \/ (\E s \in Sessions : SessionEnds(s)) \/ UNCHANGED vars
  PROVE  IInv'
<1>1. \A said : kind' = kind => Refused(said)' = Refused(said)
  BY DEF Refused, TwitchVerdict, YoutubeVerdict, BilibiliVerdict, StripchatVerdict,
         ChaturbateVerdict
<1>2. CASE QueueImport \/ HelperReads \/ ImportExpires \/ UNCHANGED vars
  <2>1. /\ UNCHANGED <<kind, accepts, mem, auth, file, row, flows>>
        /\ cmd' \in [at : {"idle", "queued", "read", "done"}, s : Cookies]
    BY <1>2 DEF QueueImport, HelperReads, ImportExpires, vars, IInv, Types, Cookies
  <2> QED
    BY <1>1, <2>1 DEF IInv, Types, SavesCookies
<1>3. CASE \E s \in Sessions : SessionEnds(s)
  <2>1. UNCHANGED <<kind, mem, auth, file, row, flows, cmd>> /\ accepts' \subseteq Sessions
    BY <1>3 DEF SessionEnds, IInv, Types
  <2> QED
    BY <1>1, <2>1 DEF IInv, Types, SavesCookies
<1>4. CASE Restart
  <2>1. /\ mem \in Logins /\ row \in Logins /\ file \in Cookies
        /\ auth \in [cookies : Cookies, in : BOOLEAN, there : BOOLEAN]
    BY DEF IInv, Types
  <2>2. BootCookies \in Cookies
    BY <2>1 DEF BootCookies, Cookies
  <2>3. mem' \in Logins /\ auth' \in [cookies : Cookies, in : BOOLEAN, there : BOOLEAN]
    <3>1. \A said : BootKeeps(said) \in BOOLEAN
      BY DEF BootKeeps
    <3>2. CASE auth.in /\ BootCookies # None
      <4>1. PICK said : /\ mem' = Login(BootCookies, BootKeeps(said))
                        /\ auth' = IF BootKeeps(said) THEN auth ELSE Auth(BootCookies, FALSE)
        BY <1>4, <3>2 DEF Restart
      <4> QED
        BY <2>1, <2>2, <3>1, <4>1, LoginTypes
    <3>3. CASE ~ (auth.in /\ BootCookies # None)
      <4>1. mem' = Login(BootCookies, FALSE) /\ auth' = auth
        BY <1>4, <3>3 DEF Restart
      <4> QED
        BY <2>1, <2>2, <4>1, LoginTypes
    <3> QED
      BY <3>2, <3>3
  <2>4. Idle \in Flow /\ Idle.at # "save"
    BY DEF Idle, Flow, Cookies, Said
  <2>5. Types'
    BY <1>4, <2>1, <2>3, <2>4 DEF Restart, IInv, Types, Cookies
  <2>6. SavesCookies'
    BY <1>4, <2>4 DEF Restart, SavesCookies
  <2> QED
    BY <2>5, <2>6 DEF IInv
<1> QED
  BY <1>2, <1>3, <1>4

\* Every step keeps the invariant.
LEMMA NextIInv == IInv /\ [Next]_vars => IInv'
<1> SUFFICES ASSUME IInv, [Next]_vars PROVE IInv'
  OBVIOUS
<1>1. ASSUME NEW i \in Requests, NEW s \in Sessions, UserImports(i, s) PROVE IInv'
  BY <1>1, ImportBegins DEF UserImports, IInv, Types
<1>2. ASSUME NEW i \in Requests, HelperReports(i) PROVE IInv'
  <2>1. cmd.s \in Sessions /\ cmd' \in [at : {"idle", "queued", "read", "done"}, s : Cookies]
    BY <1>2 DEF HelperReports, IInv, Types, Cookies
  <2> QED
    BY <1>2, <2>1, ImportBegins DEF HelperReports
<1> QED
  BY <1>1, <1>2, RequestKeeps, LoadKeeps, LoginKeeps, OthersKeep DEF Next

-----------------------------------------------------------------------------
\* A step that is not a restart leaves the row alone, or is one of these.
LEMMA RowWriters ==
  ASSUME IInv, [Next]_vars, ~Restart
  PROVE  /\ kind' = kind
         /\ \/ row' = row
            \/ \E i \in Requests, s \in Sessions :
                 /\ kind # "chaturbate" /\ row' = Login(s, TrustedUnasked)
                 /\ flows[i] = Idle /\ \A j \in Requests \ {i} : flows'[j] = flows[j]
            \/ \E i \in Requests : ImportTold(i) \/ ImportRow(i) \/ Save(i)
            \/ \E i \in Requests : LoginStripchat(i) \/ LogoutStored(i)
<1>1. ASSUME NEW i \in Requests, NEW s \in Sessions, flows[i] = Idle, ImportStored(i, s)
      PROVE  /\ kind # "chaturbate" /\ kind' = kind /\ row' = Login(s, TrustedUnasked)
             /\ \A j \in Requests \ {i} : flows'[j] = flows[j]
  BY <1>1 DEF ImportStored, Stores, Step, IInv, Types
<1>2. ASSUME NEW i \in Requests, NEW s \in Sessions, ImportChaturbate(i, s)
      PROVE  kind' = kind /\ row' = row
  BY <1>2 DEF ImportChaturbate
<1>3. ASSUME NEW i \in Requests, NEW s \in Sessions, UserImports(i, s)
      PROVE  flows[i] = Idle /\ (ImportStored(i, s) \/ ImportChaturbate(i, s))
  BY <1>3 DEF UserImports, Begins
<1>4. ASSUME NEW i \in Requests, HelperReports(i)
      PROVE  /\ cmd.s \in Sessions /\ flows[i] = Idle
             /\ ImportStored(i, cmd.s) \/ ImportChaturbate(i, cmd.s)
  BY <1>4 DEF HelperReports, IInv, Types, Cookies
<1>5. CASE \E i \in Requests :
              \/ Ask(i) \/ ImportMarked(i) \/ ImportAuth(i) \/ VerifyBegins(i) \/ VerifyTold(i)
              \/ VerifyMarked(i) \/ VerifyAuth(i) \/ Load(i) \/ InvalidateBegins(i)
              \/ InvalidateTold(i) \/ LoginBegins(i)
  BY <1>5 DEF Ask, ImportMarked, ImportAuth, VerifyBegins, VerifyTold, VerifyMarked, VerifyAuth,
     Load, InvalidateBegins, InvalidateTold, LoginBegins
<1>6. CASE \E i \in Requests :
              \/ LoginFails(i) \/ LoginIssued(i) \/ LoginChecked(i) \/ LoginSaved(i)
              \/ LogoutChaturbate(i) \/ LogoutCleared(i)
  BY <1>6 DEF LoginFails, LoginIssued, LoginChecked, LoginSaved, LogoutChaturbate, LogoutCleared
<1>7. CASE QueueImport \/ HelperReads \/ ImportExpires \/ UNCHANGED vars
           \/ \E s \in Sessions : SessionEnds(s)
  BY <1>7 DEF QueueImport, HelperReads, ImportExpires, vars, SessionEnds
<1>8. CASE \E i \in Requests : \/ ImportTold(i) \/ ImportRow(i) \/ Save(i)
                               \/ LoginStripchat(i) \/ LogoutStored(i)
  <2>1. kind' = kind
    BY <1>8 DEF ImportTold, ImportRow, Save, LoginStripchat, LogoutStored
  <2> QED
    BY <1>8, <2>1
<1>9. CASE \E i \in Requests : HelperReports(i) \/ \E s \in Sessions : UserImports(i, s)
  <2>1. PICK i \in Requests, s \in Sessions :
          flows[i] = Idle /\ (ImportStored(i, s) \/ ImportChaturbate(i, s))
    BY <1>3, <1>4, <1>9
  <2> QED
    BY <1>1, <1>2, <2>1
<1> QED
  BY <1>5, <1>6, <1>7, <1>8, <1>9 DEF Next

-----------------------------------------------------------------------------
\* A restart that turns a saved login off was refused it: with a session the site accepts, the
\* login stays on, whether the site could be asked or not.
LEMMA RestartRefused ==
  ASSUME IInv, AccountAssumption, Restart, LoggedIn, ~LoggedIn', auth.in
  PROVE  BootCookies \notin accepts
<1>1. UNCHANGED <<kind, row>>
  BY DEF Restart
<1>2. kind = "chaturbate" /\ mem'.in # TRUE
  BY <1>1 DEF LoggedIn
<1>3. SUFFICES ASSUME BootCookies \in accepts PROVE FALSE
  OBVIOUS
<1>4. BootCookies # None
  BY <1>3 DEF IInv, Types, AccountAssumption
<1>5. PICK said \in Answers(BootCookies) : mem' = Login(BootCookies, BootKeeps(said))
  BY <1>4 DEF Restart
<1>6. said # "no"
  BY <1>3, <1>5 DEF Answers
<1> QED
  BY <1>2, <1>5, <1>6 DEF Login, BootKeeps

\* A check that did not hear a refusal leaves a Twitch, YouTube or Bilibili login on: what it
\* saves has cookies.
LEMMA StoreLogsOut ==
  ASSUME IInv, AccountAssumption, [Next]_vars, ~Restart,
         kind \in {"twitch", "youtube", "bilibili"}, LoggedIn, ~LoggedIn',
         NEW i \in Requests, Checks(i)
  PROVE  flows[i].said = "no"
<1>1. kind' = kind /\ row.in /\ row.cookies # None /\ ~(row'.in /\ row'.cookies # None)
  BY RowWriters DEF LoggedIn
<1>2. ASSUME NEW j \in Requests, NEW s \in Sessions, row' = Login(s, TrustedUnasked) PROVE FALSE
  BY <1>1, <1>2 DEF Login, TrustedUnasked, AccountAssumption
<1>3. ASSUME NEW j \in Requests,
             ImportTold(j) \/ ImportRow(j) \/ LoginStripchat(j) \/ LogoutStored(j)
      PROVE  FALSE
  <2>1. Idle \in Flow
    BY DEF Idle, Flow, Cookies, Said
  <2>2. CASE ImportTold(j) \/ ImportRow(j)
    <3>1. flows[j].op = "import" /\ \A k \in Requests \ {j} : flows'[k] = flows[k]
      BY <2>1, <2>2, OneFlow DEF ImportTold, ImportRow, At, Types, IInv
    <3> QED
      BY <3>1 DEF Checks
  <2>3. CASE LoginStripchat(j)
    BY <2>3 DEF LoginStripchat
  <2>4. CASE LogoutStored(j)
    BY <2>4 DEF LogoutStored, Checks
  <2> QED
    BY <1>3, <2>2, <2>3, <2>4
<1>4. ASSUME NEW j \in Requests, Save(j) PROVE flows[i].said = "no"
  <2>1. Idle \in Flow
    BY DEF Idle, Flow, Cookies, Said
  <2>2. i = j
    BY <1>4, <2>1, OneFlow DEF Save, Checks
  <2>3. row' = Login(flows[i].s, ~Refused(flows[i].said)) /\ flows[i].at = "save"
    BY <1>4, <2>2 DEF Save, At
  <2>4. Refused(flows[i].said)
    BY <1>1, <2>3 DEF IInv, SavesCookies, Login
  <2> QED
    BY <2>4 DEF Refused, TwitchVerdict, YoutubeVerdict, BilibiliVerdict, StripchatVerdict,
       ChaturbateVerdict
<1> QED
  BY <1>1, <1>2, <1>3, <1>4, RowWriters

\* A site that cannot be reached logs nobody out.
THEOREM OnlyRefusalProved == ASSUME AccountAssumption PROVE Spec => OnlyRefusalLogsOut
<1>1. IInv /\ [Next]_vars =>
        [(kind \in {"twitch", "youtube", "bilibili"} \/ Restart) => RefusedOnly]_vars
  <2>1. SUFFICES ASSUME IInv, [Next]_vars, kind \in {"twitch", "youtube", "bilibili"} \/ Restart,
                        LoggedIn, ~LoggedIn'
                 PROVE  IF Restart THEN auth.in => BootCookies \notin accepts
                        ELSE \A i \in Requests : Checks(i) => flows[i].said = "no"
    BY DEF RefusedOnly
  <2>2. CASE Restart
    BY <2>1, <2>2, RestartRefused
  <2>3. CASE ~Restart
    BY <2>1, <2>3, StoreLogsOut
  <2> QED
    BY <2>2, <2>3
<1> QED
  BY <1>1, InitIInv, NextIInv, PTL DEF Spec, OnlyRefusalLogsOut

-----------------------------------------------------------------------------
\* A Stripchat row is marked by a request that was told yes, or by a login.
LEMMA StripchatLogsIn ==
  ASSUME IInv, [Next]_vars, ~Restart, kind = "stripchat", ~LoggedIn, LoggedIn'
  PROVE  \/ \E i \in Requests : flows'[i] # flows[i] /\ flows[i].said = "yes"
         \/ \E i \in Requests : LoginStripchat(i)
<1>1. kind' = kind /\ row'.in /\ row' # row
  BY RowWriters DEF LoggedIn
<1>2. ASSUME NEW s \in Sessions, row' = Login(s, TrustedUnasked) PROVE FALSE
  BY <1>1, <1>2 DEF Login, TrustedUnasked
<1>3. \A said : ~Refused(said) => said = "yes"
  BY DEF Refused, StripchatVerdict
<1>4. ASSUME NEW i \in Requests, ImportTold(i) \/ ImportRow(i) \/ Save(i)
      PROVE  flows'[i] # flows[i] /\ flows[i].said = "yes"
  <2>1. Idle \in Flow /\ Step(i, Idle) /\ flows[i].at # "idle"
    BY <1>4 DEF Idle, Flow, Cookies, Said, ImportTold, ImportRow, Save, At
  <2>2. flows'[i] # flows[i]
    BY <2>1, OneFlow DEF Idle
  <2>3. \/ flows[i].said = "yes"
        \/ row' = Login(flows[i].s, FALSE)
        \/ row' = Login(flows[i].s, ~Refused(flows[i].said))
    BY <1>1, <1>4 DEF ImportTold, ImportRow, Save
  <2>4. CASE row' = Login(flows[i].s, FALSE)
    BY <1>1, <2>4 DEF Login
  <2>5. CASE row' = Login(flows[i].s, ~Refused(flows[i].said))
    <3>1. row'.in = ~Refused(flows[i].said)
      BY <2>5 DEF Login
    <3> QED
      BY <1>1, <1>3, <2>2, <3>1
  <2> QED
    BY <2>2, <2>3, <2>4, <2>5
<1>5. ASSUME NEW i \in Requests, LogoutStored(i) PROVE FALSE
  BY <1>1, <1>5 DEF LogoutStored, Login
<1> QED
  BY <1>1, <1>2, <1>4, <1>5, RowWriters

\* The memory of Chaturbate is marked by a request that was told yes.
LEMMA ChaturbateLogsIn ==
  ASSUME IInv, [Next]_vars, ~Restart, kind = "chaturbate", ~LoggedIn, LoggedIn'
  PROVE  \E i \in Requests : flows'[i] # flows[i] /\ flows[i].said = "yes"
<1>1. kind' = kind
  BY RowWriters
<1>2. ~mem.in /\ mem'.in
  BY <1>1 DEF LoggedIn
<1>3. mem \in Logins
  BY DEF IInv, Types
<1>4. \A said : ~Refused(said) => said = "yes"
  BY DEF Refused, ChaturbateVerdict
<1>5. ASSUME NEW i \in Requests, ImportMarked(i) \/ VerifyMarked(i) \/ LoginChecked(i)
      PROVE  flows'[i] # flows[i] /\ flows[i].said = "yes"
  <2>1. flows[i] \in Flow /\ flows[i].at = "told"
    BY <1>5 DEF IInv, Types, ImportMarked, VerifyMarked, LoginChecked, At
  <2>2. PICK at \in {"auth", "load"} : Step(i, [flows[i] EXCEPT !.at = at])
    BY <1>5 DEF ImportMarked, VerifyMarked, LoginChecked
  <2>3. flows'[i].at = at
    BY <2>1, <2>2 DEF Step, IInv, Types, Flow
  <2>4. ~Refused(flows[i].said)
    BY <1>2, <1>3, <1>5 DEF ImportMarked, VerifyMarked, LoginChecked, Logins
  <2> QED
    BY <1>4, <2>1, <2>3, <2>4
<1>6. ASSUME NEW i \in Requests, NEW s \in Sessions, ImportStored(i, s) \/ ImportChaturbate(i, s)
      PROVE  FALSE
  BY <1>2, <1>3, <1>6 DEF ImportStored, ImportChaturbate, Logins
<1>7. ASSUME NEW i \in Requests, HelperReports(i) PROVE FALSE
  <2>1. cmd.s \in Sessions
    BY <1>7 DEF HelperReports, IInv, Types, Cookies
  <2> QED
    BY <1>6, <1>7, <2>1 DEF HelperReports
<1>8. ASSUME NEW i \in Requests,
             \/ Ask(i) \/ ImportTold(i) \/ ImportAuth(i) \/ ImportRow(i) \/ VerifyBegins(i)
             \/ VerifyTold(i) \/ VerifyAuth(i) \/ Load(i) \/ Save(i) \/ InvalidateBegins(i)
             \/ LoginBegins(i) \/ LoginStripchat(i) \/ LoginFails(i) \/ LoginSaved(i)
             \/ LogoutStored(i) \/ LogoutCleared(i)
      PROVE  FALSE
  BY <1>2, <1>8 DEF Ask, ImportTold, ImportAuth, ImportRow, VerifyBegins, VerifyTold,
     VerifyAuth,
     Load, Save, InvalidateBegins, LoginBegins, LoginStripchat, LoginFails, LoginSaved,
     LogoutStored, LogoutCleared
<1>9. ASSUME NEW i \in Requests, InvalidateTold(i) \/ LoginIssued(i) \/ LogoutChaturbate(i)
      PROVE  FALSE
  BY <1>2, <1>3, <1>9 DEF InvalidateTold, LoginIssued, LogoutChaturbate, Login, Logins
<1>10. CASE QueueImport \/ HelperReads \/ ImportExpires \/ UNCHANGED vars
            \/ \E s \in Sessions : SessionEnds(s)
  BY <1>2, <1>10 DEF QueueImport, HelperReads, ImportExpires, vars, SessionEnds
<1>11. ASSUME NEW i \in Requests, NEW s \in Sessions, UserImports(i, s) PROVE FALSE
  BY <1>6, <1>11 DEF UserImports
<1> QED
  BY <1>5, <1>7, <1>8, <1>9, <1>10, <1>11 DEF Next

\* A restart marks the memory only from a login that is saved.
LEMMA RestartLogsIn == ASSUME IInv, Restart, ~LoggedIn, LoggedIn' PROVE auth.in
<1>1. kind = "chaturbate" /\ mem'.in
  BY DEF Restart, LoggedIn
<1> QED
  <2>1. SUFFICES ASSUME ~auth.in PROVE FALSE
    OBVIOUS
  <2>2. mem' = Login(BootCookies, FALSE)
    BY <2>1 DEF Restart
  <2> QED
    BY <1>1, <2>2 DEF Login

\* Nothing but the site's word makes a login of Chaturbate or Stripchat.
THEOREM OnlyAnswerProved == Spec => OnlyAnswerLogsIn
<1>1. IInv /\ [Next]_vars =>
        [(kind \in {"chaturbate", "stripchat"} /\ ~LoggedIn /\ LoggedIn') =>
           \/ \E i \in Requests : flows'[i] # flows[i] /\ flows[i].said = "yes"
           \/ \E i \in Requests : LoginStripchat(i)
           \/ (Restart /\ auth.in)]_vars
  <2>1. SUFFICES ASSUME IInv, [Next]_vars, kind \in {"chaturbate", "stripchat"},
                        ~LoggedIn, LoggedIn'
                 PROVE  \/ \E i \in Requests : flows'[i] # flows[i] /\ flows[i].said = "yes"
                        \/ \E i \in Requests : LoginStripchat(i)
                        \/ (Restart /\ auth.in)
    OBVIOUS
  <2>2. CASE Restart
    BY <2>1, <2>2, RestartLogsIn
  <2>3. CASE ~Restart
    BY <2>1, <2>3, StripchatLogsIn, ChaturbateLogsIn
  <2> QED
    BY <2>2, <2>3
<1> QED
  BY <1>1, InitIInv, NextIInv, PTL DEF Spec, OnlyAnswerLogsIn

----------------------------------------------------------------------------
(* The recording projects.  As long as no assigner began while another was *)
(* at work, one of them at most is between two of its steps, and the       *)
(* invariant says what the tables are at each of them (Stage).             *)

\* A clip that is in no project, and has ended.
Unassigned(c) == c \in Clip /\ c \notin DOMAIN projectOf /\ EndOf[c] <= time

\* Why a clip may become a member of a project: it was created for the clip, or has a member
\* the clip is near to or recorded with; and the rest of its recording is in closed projects.
NearTo(c, d) == StartOf[c] - EndOf[d] <= Gap \/ SessionOf[c] = SessionOf[d]
Belongs(c, p) ==
  /\ Projects!MembersOf(p) = {} => founder[p] = c
  /\ Projects!MembersOf(p) # {} => \E d \in Projects!MembersOf(p) : NearTo(c, d)
  /\ \A d \in DOMAIN projectOf :
       SessionOf[d] = SessionOf[c] /\ projectOf[d] # p => {projectOf[d], p} \cap closed # {}

\* What an assigner holds, when it is alone.
Listing(call) == call.at = "listing" /\ Unassigned(call.clip)
Scanning(call) ==
  /\ call.at = "scanning" /\ Unassigned(call.clip)
  /\ call = [at |-> "scanning", clip |-> call.clip, rows |-> call.rows, left |-> call.left]
  /\ call.left \subseteq call.rows
  /\ \A entry \in call.rows : entry.id \in DOMAIN projects /\ entry.end = projects[entry.id].end
  /\ \A d \in DOMAIN projectOf :
       SessionOf[d] = SessionOf[call.clip] =>
         projectOf[d] \in closed \/ \E entry \in call.left : entry.id = projectOf[d]
Upserts(call) ==
  /\ call.at = "upserting" /\ call.project \in DOMAIN projects
  /\ \/ call.clip \in DOMAIN projectOf /\ projectOf[call.clip] = call.project
     \/ Unassigned(call.clip) /\ Belongs(call.clip, call.project)
Reading(call) == call.at = "reading" /\ call.project \in DOMAIN projects
Bounding(call) ==
  /\ call.at = "bounding" /\ call.project \in DOMAIN projects
  /\ call.start = Projects!Min({StartOf[c] : c \in Projects!MembersOf(call.project)})
  /\ call.end = Projects!LatestEnd(Projects!MembersOf(call.project))
Opening(call) == call.at = "opening"

Stage(call) ==
  \/ call = Projects!Idle \/ Listing(call) \/ Scanning(call) \/ Upserts(call)
  \/ Reading(call) \/ Bounding(call) \/ Opening(call)

\* The bounds of a project are those of its members, or its assigner is about to write them;
\* it has members, or its assigner is about to write the first.
Exact(p) ==
  Projects!MembersOf(p) # {} =>
    /\ projects[p].start = Projects!Min({StartOf[c] : c \in Projects!MembersOf(p)})
    /\ projects[p].end = Projects!LatestEnd(Projects!MembersOf(p))
Refreshing(call, p) == call.at \in {"reading", "bounding"} /\ call.project = p
Founding(call, p) == call.at = "upserting" /\ call.project = p /\ call.clip \notin DOMAIN projectOf

Tables ==
  /\ time \in Nat
  /\ \E n \in Nat : DOMAIN projects = 1 .. n
  /\ \A p \in DOMAIN projects :
       projects[p] = [start |-> projects[p].start, end |-> projects[p].end,
                      status |-> projects[p].status]
  /\ DOMAIN founder = DOMAIN projects
  /\ \A c \in DOMAIN projectOf : c \in Clip /\ EndOf[c] <= time /\ projectOf[c] \in DOMAIN projects
  /\ \A p \in DOMAIN projects : projects[p].status \notin Projects!Candidate => p \in closed

Together ==
  \A c, d \in DOMAIN projectOf :
    SessionOf[c] = SessionOf[d] /\ projectOf[c] # projectOf[d] =>
      {projectOf[c], projectOf[d]} \cap closed # {}

Joined ==
  \A p \in DOMAIN projects : \A c \in Projects!MembersOf(p) \ {founder[p]} :
    \E d \in Projects!MembersOf(p) \ {c} : NearTo(c, d)

Assigning ==
  /\ assigning = [a \in Assigner |-> assigning[a]]
  /\ \A a, b \in Assigner : assigning[a] # Projects!Idle /\ assigning[b] # Projects!Idle => a = b
  /\ \A a \in Assigner : Stage(assigning[a])
  /\ \A p \in DOMAIN projects : Exact(p) \/ \E a \in Assigner : Refreshing(assigning[a], p)
  /\ \A p \in DOMAIN projects : Projects!MembersOf(p) # {} \/ \E a \in Assigner : Founding(assigning[a], p)

Kept == overlapped = FALSE /\ Tables /\ Together /\ Joined /\ Assigning
ProjectInv == overlapped = TRUE \/ Kept

\* There is nothing to be wrong about at first.
LEMMA InitProjects == Projects!Init => ProjectInv
<1> SUFFICES ASSUME Projects!Init PROVE Kept
  BY DEF ProjectInv
<1>1. DOMAIN projects = {} /\ DOMAIN projectOf = {} /\ DOMAIN founder = {}
  BY DEF Projects!Init
<1>2. DOMAIN projects = 1 .. 0
  BY <1>1
<1>3. Tables
  BY <1>1, <1>2 DEF Tables, Projects!Init
<1>4. \A a \in Assigner : assigning[a] = Projects!Idle
  BY DEF Projects!Init
<1>5. Assigning
  BY <1>1, <1>4 DEF Assigning, Stage, Projects!Init
<1> QED BY <1>1, <1>3, <1>5 DEF Kept, Together, Joined, Projects!Init

\* A set of natural numbers with a bound has a latest one.
LEMMA LatestExists ==
  ASSUME NEW n \in Nat, NEW S \in SUBSET (0 .. n), S # {}
  PROVE  Projects!Max(S) \in S /\ \A y \in S : y <= Projects!Max(S)
<1> DEFINE key == [x \in S |-> n - x]
<1>1. IsFiniteSet(S) /\ IsKey(S, key)
  BY FS_BoundedSetOfNaturals DEF IsKey
<1>2. PICK z \in S : \A y \in S : key[z] <= key[y]
  BY <1>1, SmallestKey
<1>3. \E x \in S : \A y \in S : x >= y
  BY <1>2
<1>4. Projects!Max(S) \in S /\ \A y \in S : Projects!Max(S) >= y
  BY <1>3 DEF Projects!Max
<1> QED BY <1>4

\* What the tables say is the same while only statuses, lists and the clock move.
LEMMA StatusesKeep ==
  ASSUME Kept,
         UNCHANGED <<projectOf, assigning, founder, overlapped>>, closed \subseteq closed',
         time' \in Nat, time <= time', DOMAIN projects' = DOMAIN projects,
         \A p \in DOMAIN projects :
           /\ projects'[p] = [start |-> projects[p].start, end |-> projects[p].end,
                              status |-> projects'[p].status]
           /\ projects'[p].status \in Projects!Candidate \cup {projects[p].status} \/ p \in closed'
  PROVE  Kept'
<1>1. \A p \in DOMAIN projects : projects'[p].start = projects[p].start /\ projects'[p].end = projects[p].end
  OBVIOUS
<1>2. \A p : Projects!MembersOf(p)' = Projects!MembersOf(p)
  BY DEF Projects!MembersOf
<1>3. \A c \in Clip : EndOf[c] <= time => EndOf[c] <= time'
  BY ProjectsHold DEF Projects!ClipAssumption, Kept, Tables
<1>4. Tables'
  <2>1. \E n \in Nat : DOMAIN projects' = 1 .. n
    BY DEF Kept, Tables
  <2>2. \A p \in DOMAIN projects' :
          projects'[p] = [start |-> projects'[p].start, end |-> projects'[p].end,
                          status |-> projects'[p].status]
    BY <1>1
  <2>3. \A c \in DOMAIN projectOf' :
          c \in Clip /\ EndOf[c] <= time' /\ projectOf'[c] \in DOMAIN projects'
    BY <1>3 DEF Kept, Tables
  <2>4. \A p \in DOMAIN projects' : projects'[p].status \notin Projects!Candidate => p \in closed'
    BY DEF Kept, Tables
  <2> QED BY <2>1, <2>2, <2>3, <2>4 DEF Kept, Tables
<1>5. Together' /\ Joined'
  BY <1>2 DEF Kept, Together, Joined
<1>6. ASSUME NEW call, Stage(call) PROVE Stage(call)'
  <2>1. \A c : Unassigned(c) => Unassigned(c)'
    BY <1>3 DEF Unassigned
  <2>2. \A c, p : Belongs(c, p) => Belongs(c, p)'
    BY <1>2 DEF Belongs
  <2>3. Scanning(call) => Scanning(call)'
    BY <1>1, <2>1 DEF Scanning
  <2>4. Upserts(call) => Upserts(call)'
    BY <2>1, <2>2 DEF Upserts
  <2> QED BY <1>2, <1>6, <2>1, <2>3, <2>4 DEF Stage, Listing, Reading, Bounding, Opening
<1>7. Assigning'
  <2>1. \A p \in DOMAIN projects : Exact(p)' = Exact(p)
    BY <1>1, <1>2 DEF Exact
  <2>2. \A call, p : Founding(call, p)' = Founding(call, p)
    BY DEF Founding
  <2> QED BY <1>2, <1>6, <2>1, <2>2 DEF Kept, Assigning, Refreshing
<1> QED BY <1>4, <1>5, <1>7 DEF Kept

\* An assigner that is alone does something: what holds of its call holds of all.
LEMMA AloneKeeps ==
  ASSUME Kept, NEW a \in Assigner, \A b \in Assigner \ {a} : assigning[b] = Projects!Idle,
         NEW call, assigning' = [assigning EXCEPT ![a] = call], overlapped' = FALSE,
         Tables', Together', Joined', Stage(call)',
         \A p \in DOMAIN projects' : Exact(p)' \/ Refreshing(call, p),
         \A p \in DOMAIN projects' : Projects!MembersOf(p)' # {} \/ Founding(call, p)'
  PROVE  Kept'
<1>1. /\ assigning' = [b \in Assigner |-> assigning'[b]] /\ assigning'[a] = call
      /\ \A b \in Assigner \ {a} : assigning'[b] = Projects!Idle
  BY DEF Kept, Assigning
<1>2. ASSUME NEW b \in Assigner PROVE Stage(assigning[b])'
  <2>1. CASE b = a
    BY <1>1, <2>1 DEF Stage, Listing, Scanning, Upserts, Reading, Bounding, Opening
  <2>2. CASE b # a
    BY <1>1, <2>2 DEF Stage
  <2> QED BY <2>1, <2>2
<1>3. \A b, c \in Assigner : assigning'[b] # Projects!Idle /\ assigning'[c] # Projects!Idle => b = c
  BY <1>1
<1>4. Assigning'
  <2>1. \A p \in DOMAIN projects' : Exact(p)' \/ \E b \in Assigner : Refreshing(assigning[b], p)'
    BY <1>1 DEF Refreshing
  <2>2. \A p \in DOMAIN projects' :
          Projects!MembersOf(p)' # {} \/ \E b \in Assigner : Founding(assigning[b], p)'
    BY <1>1 DEF Founding
  <2> QED BY <1>1, <1>2, <1>3, <2>1, <2>2 DEF Assigning
<1> QED BY <1>4 DEF Kept

\* The same where only the assigner's own place changes.
LEMMA MoveKeeps ==
  ASSUME Kept, NEW a \in Assigner, \A b \in Assigner \ {a} : assigning[b] = Projects!Idle,
         NEW call, assigning' = [assigning EXCEPT ![a] = call],
         UNCHANGED <<projects, projectOf, closed, founder, overlapped, time>>,
         Stage(call),
         \A p \in DOMAIN projects : Refreshing(assigning[a], p) => Exact(p) \/ Refreshing(call, p),
         \A p \in DOMAIN projects : Founding(assigning[a], p) => Projects!MembersOf(p) # {} \/ Founding(call, p)
  PROVE  Kept'
<1>1. Tables' /\ Together' /\ Joined' /\ Stage(call)'
  BY DEF Kept, Tables, Together, Joined, Projects!MembersOf, Stage, Listing, Scanning,
     Upserts, Reading,
         Bounding, Opening, Unassigned, Belongs
<1>2. \A b \in Assigner : \A p : ~ Refreshing(Projects!Idle, p) /\ ~ Founding(Projects!Idle, p)
  BY DEF Refreshing, Founding, Projects!Idle
<1>3. \A p \in DOMAIN projects : Exact(p) \/ Refreshing(assigning[a], p)
  BY <1>2 DEF Kept, Assigning
<1>4. \A p \in DOMAIN projects : Projects!MembersOf(p) # {} \/ Founding(assigning[a], p)
  BY <1>2 DEF Kept, Assigning
<1>5. \A p : Exact(p)' = Exact(p) /\ Projects!MembersOf(p)' = Projects!MembersOf(p) /\ Founding(call, p)' = Founding(call, p)
  BY DEF Exact, Projects!MembersOf, Founding
<1>6. \A p \in DOMAIN projects' : Exact(p)' \/ Refreshing(call, p)
  BY <1>3, <1>5
<1>7. \A p \in DOMAIN projects' : Projects!MembersOf(p)' # {} \/ Founding(call, p)'
  BY <1>4, <1>5
<1>8. overlapped' = FALSE
  BY DEF Kept
<1> QED BY <1>1, <1>6, <1>7, <1>8, AloneKeeps

\* Each stage is told by its name.
LEMMA StageOf ==
  ASSUME NEW call, Stage(call)
  PROVE  /\ call.at = "idle" => call = Projects!Idle
         /\ call = Projects!Idle => call.at = "idle"
         /\ call.at = "listing" => Listing(call)
         /\ call.at = "scanning" => Scanning(call)
         /\ call.at = "upserting" => Upserts(call)
         /\ call.at = "reading" => Reading(call)
         /\ call.at = "bounding" => Bounding(call)
BY DEF Stage, Projects!Idle, Listing, Scanning, Upserts, Reading, Bounding, Opening

\* Whoever is at work is alone.
LEMMA OnlyOne ==
  ASSUME Kept, NEW a \in Assigner, assigning[a] # Projects!Idle
  PROVE  /\ \A b \in Assigner \ {a} : assigning[b] = Projects!Idle
         /\ Stage(assigning[a])
BY DEF Kept, Assigning

\* An assigner begins: another is at work, or it is alone.
LEMMA GetKeeps ==
  ASSUME Kept, NEW a \in Assigner, NEW c \in Clip, Projects!GetMember(a, c)
  PROVE  ProjectInv'
<1> SUFFICES ASSUME overlapped' = FALSE PROVE Kept'
  BY DEF ProjectInv, Projects!GetMember, Kept
<1>1. \A b \in Assigner \ {a} : assigning[b] = Projects!Idle
  BY DEF Projects!GetMember
<1>2. /\ UNCHANGED <<projects, projectOf, closed, founder, overlapped, time>>
      /\ assigning[a] = Projects!Idle /\ EndOf[c] <= time
  BY DEF Projects!GetMember, Projects!tables, Kept
<1>3. \A p : ~ Refreshing(assigning[a], p) /\ ~ Founding(assigning[a], p)
  BY <1>2 DEF Refreshing, Founding, Projects!Idle
<1>4. CASE c \in DOMAIN projectOf
  <2>1. PICK call : call = Projects!Upserting(c, projectOf[c], FALSE)
    OBVIOUS
  <2>2. call.at = "upserting" /\ call.clip = c /\ call.project = projectOf[c]
    BY <2>1 DEF Projects!Upserting
  <2>3. Stage(call)
    BY <1>4, <2>2 DEF Stage, Upserts, Kept, Tables
  <2>4. assigning' = [assigning EXCEPT ![a] = call]
    BY <1>4, <2>1 DEF Projects!GetMember, Projects!Goto
  <2> QED BY <1>1, <1>2, <1>3, <2>3, <2>4, MoveKeeps
<1>5. CASE c \notin DOMAIN projectOf
  <2>1. PICK call : call = [at |-> "listing", clip |-> c]
    OBVIOUS
  <2>2. Stage(call)
    BY <1>2, <1>5, <2>1 DEF Stage, Listing, Unassigned
  <2>3. assigning' = [assigning EXCEPT ![a] = call]
    BY <1>5, <2>1 DEF Projects!GetMember, Projects!Goto
  <2> QED BY <1>1, <1>2, <1>3, <2>2, <2>3, MoveKeeps
<1> QED BY <1>4, <1>5

\* The rows it lists are those of all projects that are not closed.
LEMMA ListKeeps ==
  ASSUME Kept, NEW a \in Assigner, Projects!ListCandidates(a)
  PROVE  Kept'
<1>1. assigning[a].at = "listing" /\ assigning[a] # Projects!Idle
  BY DEF Projects!ListCandidates, Projects!Idle
<1>2. (\A b \in Assigner \ {a} : assigning[b] = Projects!Idle) /\ Listing(assigning[a])
  BY <1>1, OnlyOne, StageOf
<1>3. UNCHANGED <<projects, projectOf, closed, founder, overlapped, time>>
  BY DEF Projects!ListCandidates, Projects!tables, Projects!history
<1>4. \A p : ~ Refreshing(assigning[a], p) /\ ~ Founding(assigning[a], p)
  BY <1>1 DEF Refreshing, Founding
<1> DEFINE rows == Projects!RowsWith(Projects!Candidate)
<1>5. PICK call : call = [at |-> "scanning", clip |-> assigning[a].clip, rows |-> rows, left |-> rows]
  OBVIOUS
<1>6. /\ call.at = "scanning" /\ call.clip = assigning[a].clip /\ call.rows = rows /\ call.left = rows
      /\ call = [at |-> "scanning", clip |-> call.clip, rows |-> call.rows, left |-> call.left]
  BY <1>5
<1>7. assigning' = [assigning EXCEPT ![a] = call]
  BY <1>5 DEF Projects!ListCandidates, Projects!Goto
<1>8. \A entry \in rows : entry.id \in DOMAIN projects /\ entry.end = projects[entry.id].end
  BY DEF Projects!RowsWith
<1>9. \A q \in DOMAIN projects : q \notin closed => \E entry \in rows : entry.id = q
  <2> SUFFICES ASSUME NEW q \in DOMAIN projects, q \notin closed PROVE \E entry \in rows : entry.id = q
    OBVIOUS
  <2>1. projects[q].status \in Projects!Candidate
    BY DEF Kept, Tables
  <2>2. [id |-> q, start |-> projects[q].start, end |-> projects[q].end,
         status |-> projects[q].status] \in rows
    BY <2>1 DEF Projects!RowsWith
  <2> QED BY <2>2
<1> HIDE DEF rows
<1>10. \A d \in DOMAIN projectOf :
         projectOf[d] \in closed \/ \E entry \in call.left : entry.id = projectOf[d]
  BY <1>6, <1>9 DEF Kept, Tables
<1>11. Stage(call)
  BY <1>2, <1>6, <1>8, <1>10 DEF Stage, Scanning, Listing
<1> QED BY <1>2, <1>3, <1>4, <1>7, <1>11, MoveKeeps

\* A clip may join a project that has a part of its recording.
LEMMA SessionBelongs ==
  ASSUME Kept, NEW c, NEW p, Projects!HasSession(c, p)
  PROVE  Belongs(c, p)
<1>1. PICK d \in Projects!MembersOf(p) : SessionOf[d] = SessionOf[c]
  BY DEF Projects!HasSession
<1>2. \E e \in Projects!MembersOf(p) : NearTo(c, e)
  BY <1>1 DEF NearTo
<1>3. ASSUME NEW e \in DOMAIN projectOf, SessionOf[e] = SessionOf[c], projectOf[e] # p
      PROVE  {projectOf[e], p} \cap closed # {}
  <2>1. d \in DOMAIN projectOf /\ projectOf[d] = p
    BY <1>1 DEF Projects!MembersOf
  <2> QED BY <1>1, <1>3, <2>1 DEF Kept, Together
<1> QED BY <1>1, <1>2, <1>3 DEF Belongs

\* What holds when an assigner scans, whatever row it looks at.
LEMMA ScanFacts ==
  ASSUME Kept, NEW a \in Assigner, assigning[a].at = "scanning"
  PROVE  /\ \A b \in Assigner \ {a} : assigning[b] = Projects!Idle
         /\ Scanning(assigning[a])
         /\ \A p : ~ Refreshing(assigning[a], p) /\ ~ Founding(assigning[a], p)
         /\ \A p \in DOMAIN projects : Projects!MembersOf(p) # {} /\ Exact(p)
<1>1. assigning[a] # Projects!Idle
  BY DEF Projects!Idle
<1>2. (\A b \in Assigner \ {a} : assigning[b] = Projects!Idle) /\ Scanning(assigning[a])
  BY <1>1, OnlyOne, StageOf
<1>3. \A p : ~ Refreshing(assigning[a], p) /\ ~ Founding(assigning[a], p)
  BY DEF Refreshing, Founding
<1>4. \A b \in Assigner : \A p : ~ Refreshing(assigning[b], p) /\ ~ Founding(assigning[b], p)
  BY <1>2, <1>3 DEF Refreshing, Founding, Projects!Idle
<1>5. \A p \in DOMAIN projects : Projects!MembersOf(p) # {} /\ Exact(p)
  BY <1>4 DEF Kept, Assigning
<1> QED BY <1>2, <1>3, <1>5

\* A project it has looked at has no part of the recording.
LEMMA ScanKeeps ==
  ASSUME Kept, NEW a \in Assigner, Projects!ScanMembers(a)
  PROVE  Kept'
<1>1. assigning[a].at = "scanning"
  BY DEF Projects!ScanMembers
<1>2. /\ \A b \in Assigner \ {a} : assigning[b] = Projects!Idle
      /\ Scanning(assigning[a])
      /\ \A p : ~ Refreshing(assigning[a], p) /\ ~ Founding(assigning[a], p)
  BY <1>1, ScanFacts
<1>3. UNCHANGED <<projects, projectOf, closed, founder, overlapped, time>>
  BY DEF Projects!ScanMembers, Projects!tables, Projects!history
<1>4. PICK entry \in assigning[a].left :
        Projects!Goto(a, IF Projects!HasSession(assigning[a].clip, entry.id)
                THEN Projects!Upserting(assigning[a].clip, entry.id, TRUE)
                ELSE [assigning[a] EXCEPT !.left = @ \ {entry}])
  BY DEF Projects!ScanMembers
<1>5. entry \in assigning[a].rows /\ entry.id \in DOMAIN projects
  BY <1>2 DEF Scanning
<1>6. CASE Projects!HasSession(assigning[a].clip, entry.id)
  <2>1. PICK call : call = Projects!Upserting(assigning[a].clip, entry.id, TRUE)
    OBVIOUS
  <2>2. call.at = "upserting" /\ call.clip = assigning[a].clip /\ call.project = entry.id
    BY <2>1 DEF Projects!Upserting
  <2>3. Belongs(assigning[a].clip, entry.id)
    BY <1>6, SessionBelongs
  <2>4. Stage(call)
    BY <1>2, <1>5, <2>2, <2>3 DEF Stage, Upserts, Scanning
  <2>5. assigning' = [assigning EXCEPT ![a] = call]
    BY <1>4, <1>6, <2>1 DEF Projects!Goto
  <2> QED BY <1>2, <1>3, <2>4, <2>5, MoveKeeps
<1>7. CASE ~ Projects!HasSession(assigning[a].clip, entry.id)
  <2>1. PICK call : call = [assigning[a] EXCEPT !.left = @ \ {entry}]
    OBVIOUS
  <2>2. /\ call.at = "scanning" /\ call.clip = assigning[a].clip /\ call.rows = assigning[a].rows
        /\ call.left = assigning[a].left \ {entry}
        /\ call = [at |-> "scanning", clip |-> call.clip, rows |-> call.rows, left |-> call.left]
    <3>1. assigning[a] = [at |-> "scanning", clip |-> assigning[a].clip, rows |-> assigning[a].rows,
                      left |-> assigning[a].left]
      BY <1>2 DEF Scanning
    <3> QED BY <2>1, <3>1
  <2>3. ASSUME NEW d \in DOMAIN projectOf, SessionOf[d] = SessionOf[call.clip]
        PROVE  projectOf[d] \in closed \/ \E other \in call.left : other.id = projectOf[d]
    <3>1. projectOf[d] # entry.id
      BY <1>7, <2>2, <2>3 DEF Projects!HasSession, Projects!MembersOf
    <3> QED BY <1>2, <2>2, <2>3, <3>1 DEF Scanning
  <2>4. Stage(call)
    BY <1>2, <2>2, <2>3 DEF Stage, Scanning
  <2>5. assigning' = [assigning EXCEPT ![a] = call]
    BY <1>4, <1>7, <2>1 DEF Projects!Goto
  <2> QED BY <1>2, <1>3, <2>4, <2>5, MoveKeeps
<1> QED BY <1>6, <1>7

\* The clip that ended last is a member, and the project ends with it.
LEMMA EndIsOfMember ==
  ASSUME Kept, NEW p \in DOMAIN projects, Projects!MembersOf(p) # {}, Exact(p)
  PROVE  \E d \in Projects!MembersOf(p) : EndOf[d] = projects[p].end
<1> DEFINE S == {EndOf[c] : c \in Projects!MembersOf(p)}
<1>1. time \in Nat /\ S \in SUBSET (0 .. time) /\ S # {}
  <2>1. \A c \in Projects!MembersOf(p) : c \in Clip /\ EndOf[c] <= time
    BY DEF Projects!MembersOf, Kept, Tables
  <2>2. time \in Nat /\ \A c \in Clip : EndOf[c] \in Nat
    BY ProjectsHold DEF Projects!ClipAssumption, Kept, Tables
  <2> QED BY <2>1, <2>2
<1>2. Projects!Max(S) \in S
  <2> HIDE DEF S
  <2> QED BY <1>1, LatestExists
<1>3. projects[p].end = Projects!Max(S)
  BY DEF Exact, Projects!LatestEnd
<1> QED BY <1>2, <1>3

\* The gap to the end of a project is the gap to a member of it.
LEMMA JoinKeeps ==
  ASSUME Kept, NEW a \in Assigner, Projects!JoinByGap(a)
  PROVE  Kept'
<1>1. assigning[a].at = "scanning" /\ assigning[a].left = {}
  BY DEF Projects!JoinByGap
<1>2. /\ \A b \in Assigner \ {a} : assigning[b] = Projects!Idle
      /\ Scanning(assigning[a])
      /\ \A p : ~ Refreshing(assigning[a], p) /\ ~ Founding(assigning[a], p)
      /\ \A p \in DOMAIN projects : Projects!MembersOf(p) # {} /\ Exact(p)
  BY <1>1, ScanFacts
<1>3. UNCHANGED <<projects, projectOf, closed, founder, overlapped, time>>
  BY DEF Projects!JoinByGap, Projects!tables, Projects!history
<1>4. PICK entry \in assigning[a].rows :
        /\ Projects!WithinGap(assigning[a].clip, entry)
        /\ Projects!Goto(a, Projects!Upserting(assigning[a].clip, entry.id, TRUE))
  BY DEF Projects!JoinByGap
<1>5. entry.id \in DOMAIN projects /\ entry.end = projects[entry.id].end
  BY <1>2 DEF Scanning
<1>6. PICK call : call = Projects!Upserting(assigning[a].clip, entry.id, TRUE)
  OBVIOUS
<1>7. call.at = "upserting" /\ call.clip = assigning[a].clip /\ call.project = entry.id
  BY <1>6 DEF Projects!Upserting
<1>8. \E d \in Projects!MembersOf(entry.id) : NearTo(assigning[a].clip, d)
  BY <1>2, <1>4, <1>5, EndIsOfMember DEF Projects!WithinGap, NearTo
<1>9. \A d \in DOMAIN projectOf : SessionOf[d] = SessionOf[assigning[a].clip] => projectOf[d] \in closed
  BY <1>1, <1>2 DEF Scanning
<1>10. Stage(call)
  BY <1>2, <1>5, <1>7, <1>8, <1>9 DEF Stage, Upserts, Scanning, Belongs
<1>11. assigning' = [assigning EXCEPT ![a] = call]
  BY <1>4, <1>6 DEF Projects!Goto
<1> QED BY <1>2, <1>3, <1>10, <1>11, MoveKeeps

\* The bounds it is about to write are those of the members.
LEMMA ReadKeeps ==
  ASSUME Kept, NEW a \in Assigner, Projects!ReadMembers(a)
  PROVE  Kept'
<1>1. assigning[a].at = "reading" /\ assigning[a] # Projects!Idle
  BY DEF Projects!ReadMembers, Projects!Idle
<1>2. (\A b \in Assigner \ {a} : assigning[b] = Projects!Idle) /\ Reading(assigning[a])
  BY <1>1, OnlyOne, StageOf
<1>3. UNCHANGED <<projects, projectOf, closed, founder, overlapped, time>>
  BY DEF Projects!ReadMembers, Projects!tables, Projects!history
<1>4. \A p : ~ Founding(assigning[a], p)
  BY <1>1 DEF Founding
<1> DEFINE C == Projects!MembersOf(assigning[a].project)
<1>5. CASE C = {}
  <2>1. PICK call : call = Projects!Reopening(assigning[a])
    OBVIOUS
  <2>2. Stage(call)
    BY <2>1 DEF Stage, Projects!Reopening, Opening
  <2>3. assigning' = [assigning EXCEPT ![a] = call]
    BY <1>5, <2>1 DEF Projects!ReadMembers, Projects!Goto
  <2>4. \A p : Refreshing(assigning[a], p) => Exact(p)
    BY <1>5 DEF Refreshing, Exact
  <2> QED BY <1>2, <1>3, <1>4, <2>2, <2>3, <2>4, MoveKeeps
<1>6. CASE C # {}
  <2>1. PICK call : call = [at |-> "bounding", project |-> assigning[a].project,
                            reopen |-> assigning[a].reopen, start |-> Projects!Min({StartOf[c] : c \in C}),
                            end |-> Projects!LatestEnd(C)]
    OBVIOUS
  <2>2. /\ call.at = "bounding" /\ call.project = assigning[a].project
        /\ call.start = Projects!Min({StartOf[c] : c \in C}) /\ call.end = Projects!LatestEnd(C)
    BY <2>1
  <2>3. Stage(call)
    BY <1>2, <2>2 DEF Stage, Bounding, Reading
  <2>4. assigning' = [assigning EXCEPT ![a] = call]
    BY <1>6, <2>1 DEF Projects!ReadMembers, Projects!Goto
  <2>5. \A p : Refreshing(assigning[a], p) => Refreshing(call, p)
    BY <2>2 DEF Refreshing
  <2> QED BY <1>2, <1>3, <1>4, <2>3, <2>4, <2>5, MoveKeeps
<1> QED BY <1>5, <1>6

\* The instance counts as the library does.
LEMMA SameCount == \A S : Projects!Cardinality(S) = Cardinality(S)
BY DEF Projects!Cardinality, Cardinality

\* The project it creates has no member yet, and is created for this one.
LEMMA CreateKeeps ==
  ASSUME Kept, NEW a \in Assigner, Projects!CreateProject(a)
  PROVE  Kept'
<1>1. assigning[a].at = "scanning" /\ assigning[a].left = {}
  BY DEF Projects!CreateProject
<1>2. /\ \A b \in Assigner \ {a} : assigning[b] = Projects!Idle
      /\ Scanning(assigning[a])
      /\ \A q \in DOMAIN projects : Projects!MembersOf(q) # {} /\ Exact(q)
  BY <1>1, ScanFacts
<1>3. PICK n \in Nat : DOMAIN projects = 1 .. n
  BY DEF Kept, Tables
<1>4. Projects!Cardinality(DOMAIN projects) = n
  BY <1>3, FS_Interval, SameCount
<1> DEFINE c == assigning[a].clip
           p == n + 1
<1>5. PICK call : call = Projects!Upserting(c, p, TRUE)
  OBVIOUS
<1>6. call.at = "upserting" /\ call.clip = c /\ call.project = p
  BY <1>5 DEF Projects!Upserting
<1>7. /\ UNCHANGED <<projectOf, closed, overlapped, time>>
      /\ assigning' = [assigning EXCEPT ![a] = call]
      /\ projects' = [q \in DOMAIN projects \cup {p} |->
                        IF q = p THEN [start |-> StartOf[c], end |-> EndOf[c], status |-> "open"]
                                 ELSE projects[q]]
      /\ founder' = [q \in DOMAIN projects' |-> IF q = p THEN c ELSE founder[q]]
  BY <1>4, <1>5 DEF Projects!CreateProject, Projects!Goto
<1>8. /\ DOMAIN projects' = 1 .. (n + 1) /\ DOMAIN founder' = DOMAIN projects'
      /\ p \notin DOMAIN projects /\ p \in DOMAIN projects'
      /\ \A q \in DOMAIN projects : projects'[q] = projects[q] /\ founder'[q] = founder[q]
      /\ founder'[p] = c
      /\ projects'[p] = [start |-> StartOf[c], end |-> EndOf[c], status |-> "open"]
  BY <1>3, <1>7
<1>9. \A q : Projects!MembersOf(q)' = Projects!MembersOf(q)
  BY <1>7 DEF Projects!MembersOf
<1>10. Projects!MembersOf(p) = {}
  BY <1>8 DEF Projects!MembersOf, Kept, Tables
<1> HIDE DEF c, p
<1>11. Tables'
  <2>1. \A q \in DOMAIN projects' : q = p \/ q \in DOMAIN projects
    BY <1>7
  <2>2. projects'[p].status \in Projects!Candidate
    BY <1>8 DEF Projects!Candidate
  <2>3. \A q \in DOMAIN projects' :
          projects'[q] = [start |-> projects'[q].start, end |-> projects'[q].end,
                          status |-> projects'[q].status]
    BY <1>8, <2>1 DEF Kept, Tables
  <2>4. \A q \in DOMAIN projects' : projects'[q].status \notin Projects!Candidate => q \in closed'
    BY <1>7, <1>8, <2>1, <2>2 DEF Kept, Tables
  <2>5. \A d \in DOMAIN projectOf' :
          d \in Clip /\ EndOf[d] <= time' /\ projectOf'[d] \in DOMAIN projects'
    BY <1>7 DEF Kept, Tables
  <2>6. \E m \in Nat : DOMAIN projects' = 1 .. m
    BY <1>8
  <2>7. time' \in Nat /\ DOMAIN founder' = DOMAIN projects'
    BY <1>7, <1>8 DEF Kept, Tables
  <2> QED BY <2>3, <2>4, <2>5, <2>6, <2>7 DEF Tables
<1>12. Together'
  BY <1>7 DEF Kept, Together
<1>13. Joined'
  <2> SUFFICES ASSUME NEW q \in DOMAIN projects', NEW d \in Projects!MembersOf(q)' \ {founder'[q]}
               PROVE  \E e \in Projects!MembersOf(q)' \ {d} : NearTo(d, e)
    BY DEF Joined, NearTo
  <2>1. q # p /\ q \in DOMAIN projects
    BY <1>7, <1>9, <1>10
  <2> QED BY <1>8, <1>9, <2>1 DEF Kept, Joined
<1>14. Stage(call)'
  <2>1. Unassigned(call.clip)'
    BY <1>2, <1>6, <1>7 DEF Scanning, Unassigned, c
  <2>2. Belongs(call.clip, call.project)'
    <3>1. \A d \in DOMAIN projectOf : SessionOf[d] = SessionOf[call.clip] => projectOf[d] \in closed
      BY <1>1, <1>2, <1>6 DEF Scanning, c
    <3>2. Projects!MembersOf(call.project)' = {} /\ founder'[call.project] = call.clip
      BY <1>6, <1>8, <1>9, <1>10
    <3> QED BY <1>7, <3>1, <3>2 DEF Belongs
  <2> QED BY <1>6, <1>8, <2>1, <2>2 DEF Stage, Upserts
<1>15. \A q \in DOMAIN projects' : Exact(q)' \/ Refreshing(call, q)
  <2> SUFFICES ASSUME NEW q \in DOMAIN projects' PROVE Exact(q)'
    OBVIOUS
  <2>1. CASE q = p
    BY <1>9, <1>10, <2>1 DEF Exact
  <2>2. CASE q # p
    BY <1>2, <1>7, <1>8, <1>9, <2>2 DEF Exact
  <2> QED BY <2>1, <2>2
<1>16. \A q \in DOMAIN projects' : Projects!MembersOf(q)' # {} \/ Founding(call, q)'
  <2>1. Founding(call, p)'
    BY <1>6, <1>14, <1>2, <1>7 DEF Founding, Scanning, Unassigned, c
  <2> QED BY <1>2, <1>7, <1>9, <2>1
<1>17. overlapped' = FALSE
  BY <1>7 DEF Kept
<1> QED BY <1>2, <1>7, <1>11, <1>12, <1>13, <1>14, <1>15, <1>16, <1>17, AloneKeeps

\* Both bounds of a row are written, its status is not.
LEMMA RowUpdate ==
  ASSUME NEW entry, entry = [start |-> entry.start, end |-> entry.end, status |-> entry.status],
         NEW x, NEW y
  PROVE  [[entry EXCEPT !.start = x] EXCEPT !.end = y]
           = [start |-> x, end |-> y, status |-> entry.status]
<1>1. [entry EXCEPT !.start = x] = [start |-> x, end |-> entry.end, status |-> entry.status]
  OBVIOUS
<1>2. [[start |-> x, end |-> entry.end, status |-> entry.status] EXCEPT !.end = y]
        = [start |-> x, end |-> y, status |-> entry.status]
  OBVIOUS
<1> QED BY <1>1, <1>2

\* The bounds are written, or the status: neither touches another project.
LEMMA WriteKeeps ==
  ASSUME Kept, NEW a \in Assigner, Projects!WriteBounds(a) \/ Projects!Reopen(a)
  PROVE  Kept'
<1>1. assigning[a] # Projects!Idle
  BY DEF Projects!WriteBounds, Projects!Reopen, Projects!Idle
<1>2. (\A b \in Assigner \ {a} : assigning[b] = Projects!Idle) /\ Stage(assigning[a])
  BY <1>1, OnlyOne
<1> DEFINE p == assigning[a].project
<1>3. \A q : ~ Founding(assigning[a], q)
  BY DEF Projects!WriteBounds, Projects!Reopen, Founding
<1>4. \A b \in Assigner \ {a} : \A q : ~ Founding(assigning[b], q) /\ ~ Refreshing(assigning[b], q)
  BY <1>2 DEF Founding, Refreshing, Projects!Idle
<1>5. /\ \A q \in DOMAIN projects : Projects!MembersOf(q) # {}
      /\ \A q \in DOMAIN projects : Exact(q) \/ Refreshing(assigning[a], q)
  BY <1>3, <1>4 DEF Kept, Assigning
<1>6. PICK call : call = IF Projects!WriteBounds(a) THEN Projects!Reopening(assigning[a]) ELSE Projects!Idle
  OBVIOUS
<1>7. /\ UNCHANGED <<projectOf, closed, founder, overlapped, time>>
      /\ assigning' = [assigning EXCEPT ![a] = call] /\ DOMAIN projects' = DOMAIN projects
      /\ \A q \in DOMAIN projects :
           /\ projects'[q] = [start |-> projects'[q].start, end |-> projects'[q].end,
                              status |-> projects'[q].status]
           /\ projects'[q].status \in Projects!Candidate \cup {projects[q].status}
  <2>1. \A q \in DOMAIN projects :
          projects[q] = [start |-> projects[q].start, end |-> projects[q].end,
                         status |-> projects[q].status]
    BY DEF Kept, Tables
  <2>2. CASE Projects!WriteBounds(a)
    <3> DEFINE new == [start |-> assigning[a].start, end |-> assigning[a].end, status |-> projects[p].status]
    <3>1. /\ UNCHANGED <<projectOf, closed, founder, overlapped, time>>
          /\ assigning' = [assigning EXCEPT ![a] = call]
      BY <1>6, <2>2 DEF Projects!WriteBounds, Projects!history, Projects!Goto
    <3>2. projects' = [projects EXCEPT ![p].start = assigning[a].start, ![p].end = assigning[a].end]
      BY <2>2 DEF Projects!WriteBounds
    <3>3. p \in DOMAIN projects
      BY <1>2, <2>2, StageOf DEF Projects!WriteBounds, Bounding
    <3>4. projects' = [projects EXCEPT ![p] = new]
      <4>1. projects[p] = [start |-> projects[p].start, end |-> projects[p].end,
                           status |-> projects[p].status]
        BY <2>1, <3>3
      <4> HIDE DEF p
      <4>2. [[projects[p] EXCEPT !.start = assigning[a].start] EXCEPT !.end = assigning[a].end] = new
        BY <4>1, RowUpdate
      <4> QED BY <3>2, <3>3, <4>2
    <3> QED BY <2>1, <3>1, <3>3, <3>4
  <2>3. CASE Projects!Reopen(a) /\ ~ Projects!WriteBounds(a)
    <3>1. /\ UNCHANGED <<projectOf, closed, founder, overlapped, time>>
          /\ assigning' = [assigning EXCEPT ![a] = call]
          /\ projects' = [projects EXCEPT ![p] = [@ EXCEPT !.status = "open"]]
      BY <1>6, <2>3 DEF Projects!Reopen, Projects!history, Projects!Goto, Projects!SetStatus
    <3> QED BY <2>1, <3>1 DEF Projects!Candidate
  <2> QED BY <2>2, <2>3
<1>8. \A q \in DOMAIN projects :
        \/ projects'[q].start = projects[q].start /\ projects'[q].end = projects[q].end
        \/ /\ Projects!WriteBounds(a) /\ q = p
           /\ projects'[q].start = assigning[a].start /\ projects'[q].end = assigning[a].end
  <2> SUFFICES ASSUME NEW q \in DOMAIN projects
               PROVE  \/ projects'[q].start = projects[q].start /\ projects'[q].end = projects[q].end
                      \/ /\ Projects!WriteBounds(a) /\ q = p
                         /\ projects'[q].start = assigning[a].start /\ projects'[q].end = assigning[a].end
    OBVIOUS
  <2>1. projects[q] = [start |-> projects[q].start, end |-> projects[q].end,
                       status |-> projects[q].status]
    BY DEF Kept, Tables
  <2>2. CASE q # p
    BY <2>2 DEF Projects!WriteBounds, Projects!Reopen, Projects!SetStatus
  <2>3. CASE q = p /\ Projects!Reopen(a)
    BY <2>1, <2>3 DEF Projects!Reopen, Projects!SetStatus
  <2>4. CASE q = p /\ Projects!WriteBounds(a)
    <3> DEFINE new == [[projects[p] EXCEPT !.start = assigning[a].start] EXCEPT !.end = assigning[a].end]
    <3>1. projects'[p] = new
      BY <2>4 DEF Projects!WriteBounds
    <3>2. new.start = assigning[a].start /\ new.end = assigning[a].end
      BY <2>1, <2>4
    <3> HIDE DEF new
    <3> QED BY <2>4, <3>1, <3>2
  <2> QED BY <2>2, <2>3, <2>4
<1>9. \A q : Projects!MembersOf(q)' = Projects!MembersOf(q)
  BY <1>7 DEF Projects!MembersOf
<1> HIDE DEF p
<1>10. Tables' /\ Together' /\ Joined'
  BY <1>7, <1>9 DEF Kept, Tables, Together, Joined
<1>11. Stage(call)'
  BY <1>6 DEF Stage, Projects!Reopening, Opening
<1>12. \A q \in DOMAIN projects' : Exact(q)'
  <2> SUFFICES ASSUME NEW q \in DOMAIN projects PROVE Exact(q)'
    BY <1>7
  <2>1. CASE Projects!WriteBounds(a)
    <3>1. Bounding(assigning[a])
      BY <1>2, <2>1, StageOf DEF Projects!WriteBounds
    <3>2. q # p => ~ Refreshing(assigning[a], q)
      BY DEF Refreshing, p
    <3>3. q # p => Exact(q) /\ projects'[q].start = projects[q].start /\ projects'[q].end = projects[q].end
      BY <1>5, <1>8, <3>2
    <3>4. q = p => \/ projects'[q].start = assigning[a].start /\ projects'[q].end = assigning[a].end
      <4>1. q = p => projects[q] = [start |-> projects[q].start, end |-> projects[q].end,
                                    status |-> projects[q].status]
        BY DEF Kept, Tables
      <4> DEFINE new == [[projects[p] EXCEPT !.start = assigning[a].start] EXCEPT !.end = assigning[a].end]
      <4>2. q = p => projects'[q] = new
        BY <2>1 DEF Projects!WriteBounds, p
      <4>3. q = p => new.start = assigning[a].start /\ new.end = assigning[a].end
        BY <4>1
      <4> HIDE DEF new
      <4> QED BY <4>2, <4>3
    <3>5. CASE q = p
      BY <1>9, <3>1, <3>4, <3>5 DEF Exact, Bounding, p
    <3>6. CASE q # p
      BY <1>9, <3>3, <3>6 DEF Exact
    <3> QED BY <3>5, <3>6
  <2>2. CASE Projects!Reopen(a) /\ ~ Projects!WriteBounds(a)
    <3>1. Exact(q)
      BY <1>5, <2>2 DEF Projects!Reopen, Refreshing
    <3> QED BY <1>8, <1>9, <2>2, <3>1 DEF Exact
  <2> QED BY <2>1, <2>2
<1>13. overlapped' = FALSE
  BY <1>7 DEF Kept
<1>14. \A q \in DOMAIN projects' : Projects!MembersOf(q)' # {}
  BY <1>5, <1>7, <1>9
<1> QED BY <1>2, <1>7, <1>10, <1>11, <1>12, <1>13, <1>14, AloneKeeps

\* The clip becomes a member, for the reason that was found before.
LEMMA UpsertKeeps ==
  ASSUME Kept, NEW a \in Assigner, Projects!UpsertMember(a)
  PROVE  Kept'
<1>1. assigning[a].at = "upserting" /\ assigning[a] # Projects!Idle
  BY DEF Projects!UpsertMember, Projects!Idle
<1>2. (\A b \in Assigner \ {a} : assigning[b] = Projects!Idle) /\ Upserts(assigning[a])
  BY <1>1, OnlyOne, StageOf
<1>0. PICK c, p : c = assigning[a].clip /\ p = assigning[a].project
  OBVIOUS
<1>3. PICK call : call = [at |-> "reading", project |-> p, reopen |-> assigning[a].reopen]
  OBVIOUS
<1>4. call.at = "reading" /\ call.project = p
  BY <1>3
<1>5. /\ UNCHANGED <<projects, closed, founder, overlapped, time>>
      /\ assigning' = [assigning EXCEPT ![a] = call]
      /\ projectOf' = [d \in DOMAIN projectOf \cup {c} |-> IF d = c THEN p ELSE projectOf[d]]
  BY <1>0, <1>3 DEF Projects!UpsertMember, Projects!history, Projects!Goto
<1>6. /\ p \in DOMAIN projects
      /\ \/ c \in DOMAIN projectOf /\ projectOf[c] = p
         \/ Unassigned(c) /\ Belongs(c, p)
  BY <1>0, <1>2 DEF Upserts
<1>7. /\ \A d \in DOMAIN projectOf : d \in DOMAIN projectOf' /\ projectOf'[d] = projectOf[d]
      /\ \A d \in DOMAIN projectOf' : d \in DOMAIN projectOf \/ d = c
      /\ c \in DOMAIN projectOf' /\ projectOf'[c] = p
  BY <1>5, <1>6 DEF Unassigned
<1>8. \A q : /\ Projects!MembersOf(q) \subseteq Projects!MembersOf(q)'
             /\ q # p => Projects!MembersOf(q)' = Projects!MembersOf(q)
  BY <1>7 DEF Projects!MembersOf
<1>9. Projects!MembersOf(p)' = Projects!MembersOf(p) \cup {c}
  BY <1>7 DEF Projects!MembersOf
<1>10. \A b \in Assigner : \A q :
         /\ ~ Refreshing(assigning[b], q)
         /\ Founding(assigning[b], q) => b = a /\ q = p
  BY <1>0, <1>1, <1>2 DEF Refreshing, Founding, Projects!Idle
<1>11. /\ \A q \in DOMAIN projects : Exact(q)
       /\ \A q \in DOMAIN projects : Projects!MembersOf(q) # {} \/ q = p
  BY <1>10 DEF Kept, Assigning
<1>12. Tables'
  <2>1. \A d \in DOMAIN projectOf' :
          d \in Clip /\ EndOf[d] <= time' /\ projectOf'[d] \in DOMAIN projects'
    BY <1>5, <1>6, <1>7 DEF Kept, Tables, Unassigned
  <2> QED BY <1>5, <2>1 DEF Kept, Tables
<1>13. Together'
  <2> SUFFICES ASSUME NEW d \in DOMAIN projectOf', NEW e \in DOMAIN projectOf',
                      SessionOf[d] = SessionOf[e], projectOf'[d] # projectOf'[e]
               PROVE  {projectOf'[d], projectOf'[e]} \cap closed' # {}
    BY DEF Together
  <2>1. CASE d \in DOMAIN projectOf /\ e \in DOMAIN projectOf
    BY <1>5, <1>7, <2>1 DEF Kept, Together
  <2>2. CASE d \notin DOMAIN projectOf
    <3>1. d = c /\ e \in DOMAIN projectOf /\ Belongs(c, p)
      BY <1>6, <1>7, <2>2
    <3> QED BY <1>5, <1>7, <3>1 DEF Belongs
  <2>3. CASE e \notin DOMAIN projectOf
    <3>1. e = c /\ d \in DOMAIN projectOf /\ Belongs(c, p)
      BY <1>6, <1>7, <2>3
    <3> QED BY <1>5, <1>7, <3>1 DEF Belongs
  <2> QED BY <2>1, <2>2, <2>3
<1>14. Joined'
  <2> SUFFICES ASSUME NEW q \in DOMAIN projects, NEW d \in Projects!MembersOf(q)', d # founder[q]
               PROVE  \E e \in Projects!MembersOf(q)' \ {d} : NearTo(d, e)
    BY <1>5 DEF Joined, NearTo
  <2>1. CASE d \in Projects!MembersOf(q)
    BY <1>8, <2>1 DEF Kept, Joined
  <2>2. CASE d \notin Projects!MembersOf(q)
    <3>1. q = p /\ d = c /\ c \notin Projects!MembersOf(p)
      BY <1>8, <1>9, <2>2
    <3>2. Belongs(c, p)
      BY <1>6, <3>1 DEF Projects!MembersOf
    <3>3. PICK e \in Projects!MembersOf(p) : NearTo(c, e)
      BY <3>1, <3>2 DEF Belongs
    <3> QED BY <1>8, <3>1, <3>3
  <2> QED BY <2>1, <2>2
<1>15. Stage(call)'
  BY <1>4, <1>5, <1>6 DEF Stage, Reading
<1>16. \A q \in DOMAIN projects' : Exact(q)' \/ Refreshing(call, q)
  BY <1>4, <1>5, <1>8, <1>11 DEF Exact, Refreshing
<1>17. \A q \in DOMAIN projects' : Projects!MembersOf(q)' # {}
  BY <1>5, <1>8, <1>9, <1>11
<1>18. overlapped' = FALSE
  BY <1>5 DEF Kept
<1> QED BY <1>2, <1>5, <1>12, <1>13, <1>14, <1>15, <1>16, <1>17, <1>18, AloneKeeps

\* The steps of the assigners, of the finalizer, of the listing and of the helper.
LEMMA ProjectStep == ProjectInv /\ [Projects!Next]_Projects!vars => ProjectInv'
<1> SUFFICES ASSUME ProjectInv, [Projects!Next]_Projects!vars PROVE ProjectInv'
  OBVIOUS
<1>1. CASE overlapped = TRUE
  <2>1. overlapped' = overlapped \/ \E a \in Assigner, c \in Clip : Projects!GetMember(a, c)
    BY DEF Projects!Next, Projects!vars, Projects!history, Projects!Assign,
       Projects!ListCandidates, Projects!ScanMembers, Projects!JoinByGap,
       Projects!CreateProject,
           Projects!UpsertMember, Projects!ReadMembers, Projects!WriteBounds, Projects!Reopen, Projects!FinalizeList, Projects!FinalizeRow, Projects!ViewList,
           Projects!ViewMembers, Projects!ViewClose, Projects!Download, Projects!Concatenated, Projects!Tick
  <2> QED BY <1>1, <2>1 DEF ProjectInv, Projects!GetMember
<1>2. CASE Kept
  <2>1. ASSUME NEW a \in Assigner, Projects!Assign(a) PROVE ProjectInv'
    BY <1>2, <2>1, GetKeeps, ListKeeps, ScanKeeps, JoinKeeps, CreateKeeps, UpsertKeeps,
       ReadKeeps,
       WriteKeeps DEF Projects!Assign, ProjectInv
  <2>2. ASSUME Projects!FinalizeList \/ Projects!ViewList \/ Projects!ViewMembers \/ Projects!Tick \/ UNCHANGED Projects!vars
                 \/ \E c \in Clip : Projects!Download(c)
        PROVE  Kept'
    <3>1. /\ UNCHANGED <<projects, projectOf, assigning, founder, overlapped, closed>>
          /\ time' \in {time, time + 1}
      BY <2>2 DEF Projects!FinalizeList, Projects!ViewList, Projects!ViewMembers,
         Projects!Tick, Projects!vars, Projects!Download, Projects!tables, Projects!history
    <3>2. time \in Nat
      BY <1>2 DEF Kept, Tables
    <3>3. \A p \in DOMAIN projects :
            projects[p] = [start |-> projects[p].start, end |-> projects[p].end,
                           status |-> projects[p].status]
      BY <1>2 DEF Kept, Tables
    <3> QED BY <1>2, <3>1, <3>2, <3>3, StatusesKeep
  <2>3. ASSUME NEW p, NEW status, Projects!SetStatus(p, status),
               UNCHANGED <<projectOf, assigning, founder, overlapped, time>>, closed \subseteq closed',
               p \in DOMAIN projects => status \in Projects!Candidate \cup {projects[p].status} \/ p \in closed'
        PROVE  Kept'
    <3>1. time \in Nat /\ time <= time'
      BY <1>2, <2>3 DEF Kept, Tables
    <3>2. \A q \in DOMAIN projects :
            projects[q] = [start |-> projects[q].start, end |-> projects[q].end,
                           status |-> projects[q].status]
      BY <1>2 DEF Kept, Tables
    <3>3. projects' = [projects EXCEPT ![p] = [@ EXCEPT !.status = status]]
      BY <2>3 DEF Projects!SetStatus
    <3>4. \A q \in DOMAIN projects :
            /\ projects'[q] = [start |-> projects[q].start, end |-> projects[q].end,
                               status |-> projects'[q].status]
            /\ projects'[q].status \in Projects!Candidate \cup {projects[q].status} \/ q \in closed'
      BY <2>3, <3>2, <3>3
    <3> QED BY <1>2, <2>3, <3>1, <3>3, <3>4, StatusesKeep
  <2>4. CASE Projects!FinalizeRow
    <3>1. CASE finalizer.rows = {}
      <4>1. UNCHANGED <<projects, projectOf, assigning, founder, overlapped, closed, time>>
        BY <2>4, <3>1 DEF Projects!FinalizeRow, Projects!history
      <4>2. time \in Nat /\ \A p \in DOMAIN projects :
              projects[p] = [start |-> projects[p].start, end |-> projects[p].end,
                             status |-> projects[p].status]
        BY <1>2 DEF Kept, Tables
      <4>3. time' \in Nat /\ time <= time'
        BY <4>1, <4>2
      <4> QED BY <1>2, <4>1, <4>2, <4>3, StatusesKeep DEF ProjectInv
    <3>2. CASE finalizer.rows # {}
      <4>1. PICK entry \in finalizer.rows :
              Projects!SetStatus(entry.id, IF finalizer.time - entry.end >= Gap
                                THEN "ready"
                                ELSE IF entry.status = "open"
                                     THEN "awaiting_gap"
                                     ELSE projects[entry.id].status)
        BY <2>4, <3>2 DEF Projects!FinalizeRow
      <4>2. PICK p, status :
              /\ Projects!SetStatus(p, status)
              /\ status \in {"ready", "awaiting_gap", projects[p].status}
        BY <4>1
      <4>3. UNCHANGED <<projectOf, assigning, founder, overlapped, time>> /\ closed' = closed
        BY <2>4 DEF Projects!FinalizeRow, Projects!history
      <4> QED BY <2>3, <4>2, <4>3 DEF Projects!Candidate, ProjectInv
    <3> QED BY <3>1, <3>2
  <2>5. CASE Projects!ViewClose
    <3>1. PICK p : p = viewer.project
      OBVIOUS
    <3>2. /\ Projects!SetStatus(p, "local_complete") /\ closed' = closed \cup {p}
          /\ UNCHANGED <<projectOf, assigning, founder, overlapped, time>>
      BY <2>5, <3>1 DEF Projects!ViewClose, Projects!SetStatus
    <3> QED BY <2>3, <3>2 DEF ProjectInv
  <2>6. ASSUME NEW p \in DOMAIN projects, Projects!Concatenated(p) PROVE Kept'
    BY <2>3, <2>6 DEF Projects!Concatenated
  <2> QED BY <1>2, <2>1, <2>2, <2>4, <2>5, <2>6 DEF Projects!Next, ProjectInv
<1> QED BY <1>1, <1>2 DEF ProjectInv

\* The invariant holds whatever the coroutines do.
LEMMA ProjectsKept == Projects!Spec => []ProjectInv
BY InitProjects, ProjectStep, PTL DEF Projects!Spec

\* Whatever the finalizer and the listing write in the meantime, a project's bounds are those
\* of its clips once the assignment is over (_refresh_project_bounds).
THEOREM BoundsExact == Projects!Spec => []BoundsAreExact
<1>1. ProjectInv => BoundsAreExact
  <2> SUFFICES ASSUME Kept, \A a \in Assigner : assigning[a] = Projects!Idle,
                      NEW p \in DOMAIN projects
               PROVE  Exact(p)
    BY DEF ProjectInv, BoundsAreExact, Projects!BoundsAreExact, Exact, Projects!LatestEnd
  <2>1. \A a \in Assigner : ~ Refreshing(assigning[a], p)
    BY DEF Refreshing, Projects!Idle
  <2> QED BY <2>1 DEF Kept, Assigning
<1> QED BY <1>1, ProjectsKept, PTL

\* The parts of one recording are in one project, unless one of theirs was closed (the search
\* for the session key among the candidates of assign_fragment_to_project).
THEOREM SessionsTogether == Projects!Spec => []SessionStaysTogether
<1>1. ProjectInv => SessionStaysTogether
  BY DEF ProjectInv, Kept, Together, SessionStaysTogether, Projects!SessionStaysTogether
<1> QED BY <1>1, ProjectsKept, PTL

\* A clip joined a project by the gap to a member or by a member's recording, although the
\* choice was made from rows read before (the second loop of assign_fragment_to_project).
THEOREM JoinsWithinGap == Projects!Spec => []JoinedWithinGap
<1>1. ProjectInv => JoinedWithinGap
  BY DEF ProjectInv, Kept, Joined, NearTo, JoinedWithinGap, Projects!JoinedWithinGap
<1> QED BY <1>1, ProjectsKept, PTL

----------------------------------------------------------------------------
(* The cache of followed channels.  The invariant says what each flow has  *)
(* seen on the site, and what a quiet synchronisation has read: of a       *)
(* category, the channels up to the offset.  Both follow the code page by  *)
(* page, so that the last page ends the list only where the list ends.     *)

\* The instance counts as the library does.
LEMMA SameSize == \A S : Follow!Cardinality(S) = Cardinality(S) /\ (Follow!IsFiniteSet(S) <=> IsFiniteSet(S))
BY DEF Follow!Cardinality, Cardinality, Follow!IsFiniteSet, IsFiniteSet

FlowType ==
  [at : {"idle", "remote", "check", "local", "queued", "done", "reported"},
   channel : Channels \cup {0}, follow : BOOLEAN, clicked : BOOLEAN, was : SUBSET Channels]

SyncType ==
  [at : Follow!Fetching \cup {"idle", "store"}, mode : Follow!Modes, sel : SUBSET Channels, again : BOOLEAN,
   offset : Nat, total : Int, seen : SUBSET Channels, got : SUBSET Channels,
   kept : SUBSET Channels, was : SUBSET Channels, quiet : BOOLEAN]

\* What a flow has seen: all that is listed, and the channel it will add.
FlowSaw(flow) ==
  flow.at # "idle" =>
    /\ listed \subseteq flow.was /\ flow.channel \in Channels
    /\ flow.at \in {"local", "done", "reported"} /\ flow.follow =>
         flow.channel \in flow.was \/ flow.clicked

SyncSaw(s) == (s.at # "idle" => listed \subseteq s.was) /\ s.got \subseteq s.was

Cached ==
  /\ listed \subseteq Channels /\ online \subseteq Channels /\ cache \subseteq Channels
  /\ sync \in SyncType /\ act \in FlowType /\ click \in FlowType

\* Which provider's list is read where.
InPlace(s) ==
  /\ s.at \in {"online", "offline"} => provider \in {"chaturbate", "stripchat"}
  /\ s.at \in {"helix", "gql"} => provider = "twitch"
  /\ s.at = "html" => provider = "chaturbate"
  /\ s.at = "guide" => provider = "youtube"
  /\ s.at = "browse" => provider \in {"youtube", "bilibili"}
  /\ s.at = "live" => provider = "bilibili"

\* What a synchronisation has of the list so far, as long as nothing moved: nothing that is
\* not listed; and of a list that fits, of a category, the channels up to the offset, and in
\* the end everything that is listed and selected.
Id(S) == [c \in S |-> c]
Before(at) == IF at = "online" THEN {} ELSE Follow!Category("online")
Whole(s) ==
  /\ s.quiet /\ s.at # "idle" => s.got \subseteq listed
  /\ s.quiet /\ s.at = "begin" => s.got = {} /\ s.seen = {} /\ s.offset = 0
  /\ s.quiet /\ s.at = "store" => s.got \subseteq s.sel /\ s.kept \subseteq cache
  /\ s.quiet /\ Follow!Fits =>
    /\ s.at \in {"online", "offline"} =>
         \/ /\ provider = "chaturbate" /\ s.got = Before(s.at) \cup s.seen
            /\ s.seen \subseteq Follow!Category(s.at) /\ s.offset = Cardinality(s.seen)
         \/ /\ provider = "stripchat"
            /\ s.got = Before(s.at) \cup FirstN(Follow!Category(s.at), Id(Follow!Category(s.at)), s.offset)
    /\ s.at = "store" => s.got = listed \cap s.sel

Syncing(s) == SyncSaw(s) /\ InPlace(s) /\ Whole(s)
FollowInv ==
  /\ provider \in Kinds /\ limit \in Limits[provider]
  /\ Cached /\ FlowSaw(act) /\ FlowSaw(click) /\ Syncing(sync)

\* A flow at rest has the types.
LEMMA RestTypes == Follow!NoSync \in SyncType /\ Follow!NoChange \in FlowType
BY DEF Follow!NoSync, Follow!NoChange, SyncType, FlowType, Follow!Fetching, Follow!Modes

\* Nothing runs at first.
LEMMA InitFollow == Follow!Init => FollowInv
<1> SUFFICES ASSUME Follow!Init PROVE FollowInv
  OBVIOUS
<1>1. Syncing(Follow!NoSync)
  BY DEF Syncing, SyncSaw, InPlace, Whole, Follow!NoSync
<1>2. Cached /\ FlowSaw(Follow!NoChange)
  BY RestTypes DEF Follow!Init, Cached, FlowSaw, Follow!NoChange
<1> QED BY <1>1, <1>2 DEF Follow!Init, FollowInv

\* A change of the list on the site: every flow sees it.
LEMMA SawType ==
  ASSUME NEW flow \in FlowType, NEW now \in SUBSET Channels
  PROVE  /\ Follow!Saw(flow, now) \in FlowType
         /\ Follow!Saw(flow, now).at = flow.at /\ Follow!Saw(flow, now).follow = flow.follow
         /\ Follow!Saw(flow, now).channel = flow.channel /\ Follow!Saw(flow, now).clicked = flow.clicked
         /\ flow.at # "idle" => Follow!Saw(flow, now).was = flow.was \cup now
         /\ flow.at = "idle" => Follow!Saw(flow, now) = flow
BY DEF Follow!Saw, FlowType

\* A synchronisation that something moves under is no longer quiet.
LEMMA DisturbedType ==
  ASSUME sync \in SyncType, NEW now \in SUBSET Channels
  PROVE  /\ Follow!Disturbed(now) \in SyncType
         /\ Follow!Disturbed(now).at = sync.at /\ Follow!Disturbed(now).got = sync.got
         /\ sync.at # "idle" => Follow!Disturbed(now).was = sync.was \cup now /\ ~ Follow!Disturbed(now).quiet
         /\ sync.at = "idle" => Follow!Disturbed(now) = sync
BY DEF Follow!Disturbed, SyncType

\* The list is in: the synchronisation stores what was selected of it, or is over.
LEMMA FetchedType ==
  ASSUME sync \in SyncType, NEW items \in SUBSET Channels
  PROVE  /\ Follow!Fetched(items) \in SyncType
         /\ \/ Follow!Fetched(items) = Follow!NoSync
            \/ /\ Follow!Fetched(items).at = "store" /\ Follow!Fetched(items).got = items \cap sync.sel
               /\ Follow!Fetched(items).sel = sync.sel /\ Follow!Fetched(items).was = sync.was
               /\ Follow!Fetched(items).quiet = sync.quiet /\ Follow!Fetched(items).kept = {}
BY RestTypes DEF Follow!Fetched, SyncType, Follow!NoSync, Follow!Fetching, Follow!Modes

\* A step of the synchronisation alone.
LEMMA SyncKeeps ==
  ASSUME FollowInv, UNCHANGED <<provider, limit, listed, online, cache, act, click>>,
         NEW s \in SyncType, sync' = s, Syncing(s)
  PROVE  FollowInv'
BY DEF FollowInv, Cached, FlowSaw, Syncing, SyncSaw, InPlace, Whole, Before, Follow!Category, Follow!Fits

\* No synchronisation has read nothing.
LEMMA RestSyncing == Syncing(Follow!NoSync)
BY DEF Syncing, SyncSaw, InPlace, Whole, Follow!NoSync

\* A list that is no longer than what is read of it is read as it is.
LEMMA FirstChannels ==
  ASSUME NEW S \in SUBSET Nat, IsFiniteSet(S), NEW n \in Int
  PROVE  Follow!First(S, n) \subseteq S /\ (Cardinality(S) <= n => Follow!First(S, n) = S)
<1>1. Follow!First(S, n) \subseteq S
  BY DEF Follow!First
<1>2. ASSUME Cardinality(S) <= n, NEW c \in S PROVE c \in Follow!First(S, n)
  <2>1. PICK A : A = {d \in S : d < c}
    OBVIOUS
  <2>2. A \subseteq S /\ c \notin A /\ A \cup {c} \subseteq S
    BY <2>1
  <2>3. IsFiniteSet(A) /\ Cardinality(A) \in Nat /\ Cardinality(A \cup {c}) = Cardinality(A) + 1
    BY <2>2, FS_Subset, FS_AddElement, FS_CardinalityType
  <2>4. Cardinality(A \cup {c}) <= Cardinality(S) /\ Cardinality(S) \in Nat
    BY <2>2, FS_Subset, FS_CardinalityType
  <2>5. Cardinality(A) < n
    BY <1>2, <2>3, <2>4
  <2> QED BY <2>1, <2>5, SameSize DEF Follow!First
<1> QED BY <1>1, <1>2

\* What the providers may read of a list.
LEMMA LimitType ==
  ASSUME FollowInv
  PROVE  /\ limit.pages * PageSize \in Nat /\ limit.items \in Nat /\ PageSize \in Nat \ {0}
         /\ IsFiniteSet(listed) /\ listed \in SUBSET Nat
<1>1. /\ limit.pages \in Nat /\ limit.items \in Nat /\ PageSize \in Nat \ {0}
      /\ listed \subseteq Channels
  BY FollowHolds DEF Follow!FollowAssumption, FollowInv, Cached
<1>2. IsFiniteSet(Channels) /\ Channels \subseteq Nat
  BY FollowHolds, SameSize DEF Follow!FollowAssumption
<1>3. IsFiniteSet(listed)
  BY <1>1, <1>2, FS_Subset
<1>4. limit.pages * PageSize \in Nat
  BY <1>1
<1> QED BY <1>1, <1>2, <1>3, <1>4

\* The list is in, and is what it should be if nothing moved.
LEMMA FetchedSyncing ==
  ASSUME FollowInv, NEW items \in SUBSET Channels, sync.at # "idle",
         items \subseteq sync.was,
         sync.quiet => items \subseteq listed,
         sync.quiet /\ Follow!Fits => items = listed
  PROVE  Syncing(Follow!Fetched(items)) /\ Follow!Fetched(items) \in SyncType
<1>1. sync \in SyncType /\ SyncSaw(sync)
  BY DEF FollowInv, Cached, Syncing
<1>2. CASE Follow!Fetched(items) = Follow!NoSync
  BY <1>1, <1>2, RestSyncing, RestTypes
<1>3. CASE Follow!Fetched(items) # Follow!NoSync
  <2>1. PICK s : s = Follow!Fetched(items)
    OBVIOUS
  <2>2. /\ s \in SyncType /\ s.at = "store" /\ s.got = items \cap sync.sel
        /\ s.sel = sync.sel /\ s.was = sync.was /\ s.quiet = sync.quiet /\ s.kept = {}
    BY <1>1, <1>3, <2>1, FetchedType
  <2>3. Syncing(s)
    BY <1>1, <2>2 DEF Syncing, SyncSaw, InPlace, Whole
  <2> QED BY <2>1, <2>2, <2>3
<1> QED BY <1>2, <1>3

\* The channels are numbered in the order of the list.
LEMMA IdIsKey == \A S \in SUBSET Nat : IsKey(S, Id(S))
BY DEF IsKey, Id

\* A category is a finite part of the list.
LEMMA CategoryType ==
  ASSUME FollowInv, NEW at
  PROVE  /\ Follow!Category(at) \subseteq listed /\ Follow!Category(at) \subseteq Channels
         /\ IsFiniteSet(Follow!Category(at)) /\ IsKey(Follow!Category(at), Id(Follow!Category(at)))
         /\ IsFiniteSet(listed)
<1>1. Follow!Category(at) \subseteq listed /\ listed \subseteq Channels
  BY DEF Follow!Category, FollowInv, Cached
<1>2. IsFiniteSet(Channels) /\ Channels \subseteq Nat
  BY FollowHolds, SameSize DEF Follow!FollowAssumption
<1>3. IsFiniteSet(Follow!Category(at)) /\ IsFiniteSet(listed)
  BY <1>1, <1>2, FS_Subset
<1>4. IsKey(Follow!Category(at), Id(Follow!Category(at)))
  <2>1. Follow!Category(at) \in SUBSET Nat
    BY <1>1, <1>2
  <2> QED BY <2>1, IdIsKey
<1> QED BY <1>1, <1>2, <1>3, <1>4

\* The two categories are the list.
LEMMA BothCategories ==
  ASSUME FollowInv
  PROVE  Follow!Category("online") \cup Follow!Category("offline") = listed
BY DEF Follow!Category

\* A synchronisation that fails leaves the rows alone.
LEMMA EmptySyncs ==
  ASSUME FollowInv, \/ Follow!SyncRefused \/ Follow!Raised \/ Follow!HtmlFails
  PROVE  FollowInv'
BY RestTypes, RestSyncing, SyncKeeps DEF Follow!SyncRefused, Follow!Raised, Follow!HtmlFails

\* A synchronisation begins with nothing.
LEMMA BeginKeeps ==
  ASSUME FollowInv, NEW mode \in Follow!Modes, NEW sel \in SUBSET Channels, Follow!SyncBegin(mode, sel)
  PROVE  FollowInv'
<1>1. PICK s : s = [Follow!NoSync EXCEPT !.at = "begin", !.mode = mode, !.sel = sel, !.was = listed]
  OBVIOUS
<1>2. s = [at |-> "begin", mode |-> mode, sel |-> sel, again |-> FALSE, offset |-> 0,
           total |-> -1, seen |-> {}, got |-> {}, kept |-> {}, was |-> listed, quiet |-> TRUE]
  BY <1>1 DEF Follow!NoSync
<1>3. s \in SyncType
  BY <1>2 DEF SyncType, FollowInv, Cached, Follow!Fetching
<1>4. Syncing(s)
  BY <1>2 DEF Syncing, SyncSaw, InPlace, Whole
<1> QED BY <1>1, <1>3, <1>4, SyncKeeps DEF Follow!SyncBegin

\* What holds of the synchronisation that runs.
LEMMA SyncFacts ==
  ASSUME FollowInv
  PROVE  /\ sync \in SyncType /\ SyncSaw(sync) /\ InPlace(sync) /\ Whole(sync)
         /\ listed \in SUBSET Channels
BY DEF FollowInv, Cached, Syncing

\* Another place, with what was read there.
LEMMA PlaceKeeps ==
  ASSUME FollowInv, NEW at \in Follow!Fetching, NEW got \in SUBSET Channels, sync.at # "idle",
         UNCHANGED <<provider, limit, listed, online, cache, act, click>>,
         \/ sync' = [sync EXCEPT !.at = at, !.got = got]
         \/ sync' = [sync EXCEPT !.at = at] /\ got = sync.got,
         got \subseteq sync.was,
         at \notin {"begin", "online", "offline"},
         sync.quiet => got \subseteq listed,
         at \in {"helix", "gql"} => provider = "twitch",
         at = "html" => provider = "chaturbate",
         at = "guide" => provider = "youtube",
         at = "browse" => provider \in {"youtube", "bilibili"},
         at = "live" => provider = "bilibili"
  PROVE  FollowInv'
<1>1. sync \in SyncType /\ SyncSaw(sync)
  BY SyncFacts
<1>2. PICK s : sync' = s
  OBVIOUS
<1>3. s \in SyncType /\ s.at = at /\ s.got = got /\ s.was = sync.was /\ s.quiet = sync.quiet
  BY <1>1, <1>2 DEF SyncType
<1>4. at # "store"
  BY DEF Follow!Fetching
<1>5. Syncing(s)
  BY <1>1, <1>3, <1>4 DEF Syncing, SyncSaw, InPlace, Whole
<1> QED BY <1>2, <1>3, <1>5, SyncKeeps

\* The list is in and goes to be stored.
LEMMA FetchedKeeps ==
  ASSUME FollowInv, UNCHANGED <<provider, limit, listed, online, cache, act, click>>,
         NEW items \in SUBSET Channels, sync' = Follow!Fetched(items), sync.at # "idle",
         items \subseteq sync.was,
         sync.quiet => items \subseteq listed,
         sync.quiet /\ Follow!Fits => items = listed
  PROVE  FollowInv'
BY FetchedSyncing, SyncKeeps

\* What Twitch and Bilibili read of the list is part of it.
LEMMA CappedList == Follow!Capped \subseteq listed
BY DEF Follow!Capped, Follow!First

\* The answers that are a list of their own, not a page of a category.
LEMMA ListsKeep ==
  ASSUME FollowInv, \/ Follow!RoomlistFails \/ Follow!HelixList \/ Follow!GuideList \/ Follow!RelationList
  PROVE  FollowInv'
<1>1. sync \in SyncType /\ SyncSaw(sync) /\ listed \in SUBSET Channels
  BY SyncFacts
<1>2. CASE Follow!RoomlistFails
  <2>1. PICK none : none = {}
    OBVIOUS
  <2>2. sync' = [sync EXCEPT !.at = "html", !.got = none]
    BY <1>2, <2>1 DEF Follow!RoomlistFails, Follow!ToHtml
  <2>3. /\ none \in SUBSET Channels /\ none \subseteq sync.was /\ none \subseteq listed
        /\ "html" \in Follow!Fetching
    BY <2>1 DEF Follow!Fetching
  <2> QED BY <1>2, <2>2, <2>3, PlaceKeeps DEF Follow!RoomlistFails
<1>3. CASE Follow!HelixList
  <2>1. PICK read \in SUBSET listed : sync' = [sync EXCEPT !.at = "gql", !.got = read]
    BY <1>3, CappedList DEF Follow!HelixList
  <2> QED BY <1>1, <1>3, <2>1, PlaceKeeps DEF Follow!HelixList, Follow!Fetching, SyncSaw
<1>4. CASE Follow!GuideList
  <2>1. PICK read \in SUBSET listed :
          /\ Cardinality(read) <= limit.items
          /\ sync' = IF Cardinality(read) = limit.items
                     THEN Follow!Fetched(read)
                     ELSE [sync EXCEPT !.at = "browse", !.got = read]
    BY <1>4, SameSize DEF Follow!GuideList
  <2>2. provider = "youtube" /\ sync.at = "guide"
    BY <1>4, SyncFacts DEF Follow!GuideList, InPlace
  <2>3. CASE sync' = [sync EXCEPT !.at = "browse", !.got = read]
    BY <1>1, <1>4, <2>2, <2>3, PlaceKeeps DEF Follow!GuideList, Follow!Fetching, SyncSaw
  <2>4. CASE Cardinality(read) = limit.items /\ sync' = Follow!Fetched(read)
    <3>1. Follow!Fits => Cardinality(listed) <= limit.items
      BY <2>2, SameSize DEF Follow!Fits
    <3>2. Follow!Fits => read = listed
      BY <2>4, <3>1, LimitType, FS_Subset, FS_CardinalityType
    <3> QED BY <1>1, <1>4, <2>2, <2>4, <3>2, FetchedKeeps DEF Follow!GuideList, SyncSaw
  <2> QED BY <2>1, <2>3, <2>4
<1>5. CASE Follow!RelationList
  <2>1. PICK read \in SUBSET listed : sync' = [sync EXCEPT !.at = "live", !.got = read]
    BY <1>5, CappedList DEF Follow!RelationList
  <2> QED BY <1>1, <1>5, <2>1, PlaceKeeps DEF Follow!RelationList, Follow!Fetching, SyncSaw
<1> QED BY <1>2, <1>3, <1>4, <1>5

\* The answers after which the list is in.
LEMMA LastKeeps ==
  ASSUME FollowInv, \/ Follow!HtmlPage \/ Follow!GqlList \/ Follow!SubscriptionList \/ Follow!LiveList
  PROVE  FollowInv'
<1>1. /\ sync \in SyncType /\ SyncSaw(sync) /\ InPlace(sync) /\ Whole(sync)
      /\ listed \in SUBSET Channels
  BY SyncFacts
<1>0. sync.got \in SUBSET Channels /\ sync.got \subseteq sync.was
  BY <1>1 DEF SyncType, SyncSaw
<1>2. CASE Follow!HtmlPage
  <2>1. CASE sync' = Follow!NoSync
    BY <1>2, <2>1, RestTypes, RestSyncing, SyncKeeps DEF Follow!HtmlPage
  <2>2. CASE sync' = Follow!Fetched(listed)
    BY <1>1, <1>2, <2>2, FetchedKeeps DEF Follow!HtmlPage, SyncSaw
  <2> QED BY <1>2, <2>1, <2>2 DEF Follow!HtmlPage
<1>3. CASE Follow!GqlList
  <2>1. PICK items \in {Follow!Capped, sync.got} : sync' = Follow!Fetched(items)
    BY <1>3 DEF Follow!GqlList
  <2>2. provider = "twitch" /\ sync.at = "gql"
    BY <1>1, <1>3 DEF Follow!GqlList, InPlace
  <2>3. ~ Follow!Fits
    BY <2>2 DEF Follow!Fits
  <2>4. items \in SUBSET Channels /\ items \subseteq sync.was /\ (sync.quiet => items \subseteq listed)
    BY <1>0, <1>1, <2>2, CappedList DEF SyncSaw, Whole
  <2> QED BY <1>3, <2>1, <2>2, <2>3, <2>4, FetchedKeeps DEF Follow!GqlList
<1>4. CASE Follow!SubscriptionList
  <2>1. CASE sync' = Follow!NoSync
    BY <1>4, <2>1, RestTypes, RestSyncing, SyncKeeps DEF Follow!SubscriptionList
  <2>2. PICK read, more, room, got :
          /\ read = Follow!First(listed, limit.pages * PageSize) /\ more = read \ sync.got
          /\ room = limit.items - Cardinality(sync.got)
          /\ got = sync.got \cup Follow!First(more, room)
    OBVIOUS
  <2>3. sync.at = "browse" /\ provider = "youtube"
        /\ (sync' = Follow!NoSync \/ sync' = Follow!Fetched(got))
    BY <1>4, <2>2, SameSize DEF Follow!SubscriptionList
  <2>4. Follow!First(more, room) \subseteq listed
    BY <2>2 DEF Follow!First
  <2>5. got \in SUBSET Channels /\ got \subseteq sync.was /\ (sync.quiet => got \subseteq listed)
    BY <1>0, <1>1, <2>2, <2>3, <2>4 DEF SyncSaw, Whole
  <2>6. ASSUME sync.quiet, Follow!Fits PROVE got = listed
    <3>1. Cardinality(listed) <= limit.pages * PageSize /\ Cardinality(listed) <= limit.items
      BY <2>3, <2>6, SameSize DEF Follow!Fits
    <3>2. read = listed
      BY <2>2, <3>1, LimitType, FirstChannels
    <3>3. sync.got \subseteq listed /\ IsFiniteSet(sync.got) /\ IsFiniteSet(more) /\ more \in SUBSET Nat
      BY <1>1, <2>2, <2>3, <2>6, <3>2, LimitType, FS_Subset DEF Whole
    <3>4. Cardinality(more) = Cardinality(listed) - Cardinality(sync.got)
      <4>1. Cardinality(listed) = Cardinality(sync.got) + Cardinality(more) - Cardinality(sync.got \cap more)
        <5>1. listed = sync.got \cup more
          BY <2>2, <3>2, <3>3
        <5> QED BY <3>3, <5>1, FS_Union
      <4>2. Cardinality(sync.got \cap more) = 0
        <5>1. sync.got \cap more = {}
          BY <2>2
        <5> QED BY <5>1, FS_EmptySet
      <4> QED BY <3>3, <4>1, <4>2, LimitType, FS_CardinalityType
    <3>5. Cardinality(more) <= room /\ room \in Int
      BY <2>2, <3>1, <3>3, <3>4, LimitType, FS_CardinalityType
    <3>6. Follow!First(more, room) = more
      BY <3>3, <3>5, FirstChannels
    <3> QED BY <2>2, <3>2, <3>3, <3>6
  <2>7. CASE sync' = Follow!Fetched(got)
    BY <1>4, <2>3, <2>5, <2>6, <2>7, FetchedKeeps DEF Follow!SubscriptionList
  <2> QED BY <2>1, <2>3, <2>7
<1>5. CASE Follow!LiveList
  <2>1. provider = "bilibili" /\ sync.at = "live"
    BY <1>1, <1>5 DEF Follow!LiveList, InPlace
  <2>2. ~ Follow!Fits /\ (sync.quiet => sync.got \subseteq listed)
    BY <1>1, <2>1 DEF Follow!Fits, Whole
  <2> QED BY <1>0, <1>5, <2>1, <2>2, FetchedKeeps DEF Follow!LiveList
<1> QED BY <1>2, <1>3, <1>4, <1>5

\* The first request, and the second attempt.
LEMMA AsksKeep ==
  ASSUME FollowInv, Follow!SyncAsks \/ Follow!SyncRetries
  PROVE  FollowInv'
<1>1. sync \in SyncType /\ SyncSaw(sync) /\ InPlace(sync) /\ Whole(sync) /\ provider \in Kinds
  BY SyncFacts DEF FollowInv
<1>2. CASE Follow!SyncRetries
  <2>1. PICK s : s = [sync EXCEPT !.at = "begin", !.again = TRUE, !.got = {}, !.seen = {},
                                  !.offset = 0, !.total = -1]
    OBVIOUS
  <2>2. /\ s \in SyncType /\ s.at = "begin" /\ s.got = {} /\ s.seen = {} /\ s.offset = 0
        /\ s.was = sync.was
    <3>1. sync = [at |-> sync.at, mode |-> sync.mode, sel |-> sync.sel, again |-> sync.again,
                  offset |-> sync.offset, total |-> sync.total, seen |-> sync.seen,
                  got |-> sync.got, kept |-> sync.kept, was |-> sync.was, quiet |-> sync.quiet]
      BY <1>1 DEF SyncType
    <3>2. s = [at |-> "begin", mode |-> sync.mode, sel |-> sync.sel, again |-> TRUE,
               offset |-> 0, total |-> -1, seen |-> {}, got |-> {}, kept |-> sync.kept,
               was |-> sync.was, quiet |-> sync.quiet]
      BY <2>1, <3>1
    <3> QED BY <1>1, <3>2 DEF SyncType, Follow!Fetching
  <2>3. sync.at # "idle"
    BY <1>2 DEF Follow!SyncRetries, Follow!AuthRefused, Follow!Fetching
  <2>4. Syncing(s)
    BY <1>1, <2>2, <2>3 DEF Syncing, SyncSaw, InPlace, Whole
  <2> QED BY <1>2, <2>1, <2>2, <2>4, SyncKeeps DEF Follow!SyncRetries
<1>3. CASE Follow!SyncAsks
  <2>1. PICK s : s = [sync EXCEPT !.at = Follow!FirstRequest]
    OBVIOUS
  <2>2. provider \in {"chaturbate", "stripchat", "twitch", "youtube", "bilibili"}
    BY <1>1, FollowHolds DEF Follow!FollowAssumption
  <2>3. Follow!FirstRequest \in {"online", "helix", "guide", "browse"}
    BY <2>2 DEF Follow!FirstRequest
  <2>4. s \in SyncType
    BY <1>1, <2>1, <2>3 DEF SyncType, Follow!Fetching
  <2>5. /\ s.at = Follow!FirstRequest /\ s.got = sync.got /\ s.was = sync.was /\ s.quiet = sync.quiet
        /\ s.seen = sync.seen /\ s.offset = sync.offset
    BY <1>1, <2>1 DEF SyncType
  <2>6. SyncSaw(s)
    BY <1>1, <1>3, <2>5 DEF SyncSaw, Follow!SyncAsks
  <2>7. InPlace(s)
    BY <2>2, <2>5 DEF InPlace, Follow!FirstRequest
  <2>8. Whole(s)
    <3>0. SUFFICES ASSUME s.quiet PROVE Whole(s)
      BY DEF Whole
    <3>2. s.got = {} /\ s.seen = {} /\ s.offset = 0
      BY <1>1, <1>3, <2>5, <3>0 DEF Whole, Follow!SyncAsks
    <3>1. CASE provider \in {"twitch", "bilibili"}
      BY <2>5, <3>1, <3>2 DEF Follow!FirstRequest, Whole, Follow!Fits
    <3>3. FirstN(Follow!Category("online"), Id(Follow!Category("online")), 0) = {}
      BY CategoryType, FirstNSize
    <3>4. CASE provider = "youtube"
      BY <2>5, <3>2, <3>4 DEF Follow!FirstRequest, Whole
    <3>5. CASE provider = "chaturbate"
      BY <2>5, <3>2, <3>5, FS_EmptySet DEF Follow!FirstRequest, Whole, Before
    <3>6. CASE provider = "stripchat"
      BY <2>5, <3>2, <3>3, <3>6 DEF Follow!FirstRequest, Whole, Before
    <3> QED BY <2>2, <3>1, <3>4, <3>5, <3>6
  <2> QED BY <1>3, <2>1, <2>4, <2>6, <2>7, <2>8, SyncKeeps DEF Follow!SyncAsks, Syncing
<1> QED BY <1>2, <1>3

\* A page holds the channels whose place lies behind the offset.
LEMMA PageIsNext ==
  ASSUME NEW S \in SUBSET Nat, IsFiniteSet(S), NEW o \in Nat
  PROVE  /\ Follow!Page(S, o) \subseteq S
         /\ FirstN(S, Id(S), o + PageSize) = FirstN(S, Id(S), o) \cup Follow!Page(S, o)
         /\ FirstN(S, Id(S), o) \cap Follow!Page(S, o) = {}
<1>0. PageSize \in Nat \ {0}
  BY FollowHolds DEF Follow!FollowAssumption
<1>1. ASSUME NEW c \in S
      PROVE  /\ Cardinality({d \in S : d < c}) \in Nat
             /\ Rank(S, Id(S), c) = Cardinality({d \in S : d < c}) + 1
             /\ Rank(S, Id(S), c) \in Nat
  <2> DEFINE A == {d \in S : d < c}
             B == {d \in S : Id(S)[d] <= Id(S)[c]}
  <2>1. A \in SUBSET S /\ c \notin A /\ B = A \cup {c}
    <3>1. \A d \in S : Id(S)[d] = d /\ d \in Nat
      BY DEF Id
    <3>2. \A d \in S : d <= c <=> d < c \/ d = c
      OBVIOUS
    <3>3. B = {d \in S : d <= c}
      BY <3>1
    <3>4. ~ (c < c)
      BY <3>1
    <3> QED BY <3>2, <3>3, <3>4
  <2> HIDE DEF A, B
  <2>2. IsFiniteSet(A) /\ Cardinality(A) \in Nat /\ Cardinality(B) = Cardinality(A) + 1
    BY <2>1, FS_Subset, FS_AddElement, FS_CardinalityType
  <2>3. Rank(S, Id(S), c) = Cardinality(B)
    BY DEF B, Rank
  <2>4. Cardinality({d \in S : d < c}) = Cardinality(A)
    BY DEF A
  <2> QED BY <2>2, <2>3, <2>4
<1>2. ASSUME NEW c \in S
      PROVE  c \in Follow!Page(S, o) <=> Rank(S, Id(S), c) \in (o + 1) .. (o + PageSize)
  <2> DEFINE k == Cardinality({d \in S : d < c})
  <2>1. k \in Nat /\ Rank(S, Id(S), c) = k + 1
    BY <1>1
  <2>2. c \in Follow!Page(S, o) <=> k \in o .. (o + PageSize - 1)
    BY SameSize DEF Follow!Page
  <2> HIDE DEF k
  <2> QED BY <1>0, <2>1, <2>2
<1>3. Follow!Page(S, o) \subseteq S
  BY DEF Follow!Page
<1>4. \A c \in S : Rank(S, Id(S), c) \in Nat
  BY <1>1
<1>5. \A c \in S :
        Rank(S, Id(S), c) <= o + PageSize <=> Rank(S, Id(S), c) <= o \/ c \in Follow!Page(S, o)
  BY <1>0, <1>2, <1>4
<1>6. \A c \in Follow!Page(S, o) : ~ (Rank(S, Id(S), c) <= o)
  <2> SUFFICES ASSUME NEW c \in Follow!Page(S, o) PROVE ~ (Rank(S, Id(S), c) <= o)
    OBVIOUS
  <2>1. Rank(S, Id(S), c) \in (o + 1) .. (o + PageSize)
    BY <1>2, <1>3
  <2> QED BY <1>0, <2>1
<1> QED BY <1>3, <1>5, <1>6 DEF FirstN

\* The page is the last when it is not full or its end is that of the category.
LEMMA LastIsWhole ==
  ASSUME NEW S \in SUBSET Nat, IsFiniteSet(S), NEW o \in Nat,
         Follow!LastPage(Follow!Page(S, o), o + PageSize, Cardinality(S))
  PROVE  FirstN(S, Id(S), o) \cup Follow!Page(S, o) = S
<1>0. PageSize \in Nat \ {0} /\ Cardinality(S) \in Nat /\ IsKey(S, Id(S))
  BY FollowHolds, FS_CardinalityType, IdIsKey DEF Follow!FollowAssumption
<1> DEFINE n == o + PageSize
           A == FirstN(S, Id(S), o)
           B == FirstN(S, Id(S), n)
           P == Follow!Page(S, o)
<1>1. P \subseteq S /\ B = A \cup P /\ A \cap P = {}
  BY PageIsNext
<1>2. /\ n >= Cardinality(S) => B = S
      /\ n \in 0 .. Cardinality(S) => Cardinality(B) = n
      /\ o \in 0 .. Cardinality(S) => Cardinality(A) = o
      /\ IsFiniteSet(A)
  BY <1>0, FirstNSize
<1>3. IsFiniteSet(P)
  BY <1>1, FS_Subset
<1> HIDE DEF A, B, P
<1>4. Cardinality(B) = Cardinality(A) + Cardinality(P) /\ Cardinality(P) \in Nat
  <2>1. Cardinality(A \cup P) = Cardinality(A) + Cardinality(P) - Cardinality(A \cap P)
    BY <1>2, <1>3, FS_Union
  <2>2. Cardinality(A) \in Nat /\ Cardinality(P) \in Nat /\ Cardinality({}) = 0
    BY <1>2, <1>3, FS_EmptySet, FS_CardinalityType
  <2>3. Cardinality(A \cap P) = 0 /\ B = A \cup P
    BY <1>1, <2>2
  <2> QED BY <2>1, <2>2, <2>3
<1>5. CASE n >= Cardinality(S)
  BY <1>1, <1>2, <1>5 DEF A, B, P
<1>6. CASE ~ (n >= Cardinality(S))
  <2>1. Cardinality(A) = o /\ Cardinality(B) = n
    BY <1>0, <1>2, <1>6
  <2>2. Cardinality(P) = PageSize
    BY <1>0, <1>4, <2>1
  <2>3. Cardinality(P) < PageSize
    BY <1>6, SameSize DEF Follow!LastPage, P
  <2> QED BY <1>0, <2>2, <2>3
<1> QED BY <1>5, <1>6

\* The page that is read, and what the synchronisation becomes with it.
LEMMA PageFacts ==
  ASSUME FollowInv, sync.at \in {"online", "offline"}
  PROVE  /\ Follow!Page(Follow!Category(sync.at), sync.offset) \subseteq Follow!Category(sync.at)
         /\ Follow!Page(Follow!Category(sync.at), sync.offset) \in SUBSET Channels
         /\ sync.got \cup Follow!Page(Follow!Category(sync.at), sync.offset) \in SUBSET Channels
         /\ sync.got \cup Follow!Page(Follow!Category(sync.at), sync.offset) \subseteq sync.was
         /\ IsFiniteSet(Follow!Page(Follow!Category(sync.at), sync.offset))
         /\ Cardinality(Follow!Page(Follow!Category(sync.at), sync.offset)) \in Nat
<1>1. sync \in SyncType /\ SyncSaw(sync)
  BY SyncFacts
<1>2. /\ Follow!Category(sync.at) \subseteq listed /\ Follow!Category(sync.at) \subseteq Channels
      /\ IsFiniteSet(Follow!Category(sync.at))
  BY CategoryType
<1>3. Follow!Page(Follow!Category(sync.at), sync.offset) \in SUBSET Follow!Category(sync.at)
  BY DEF Follow!Page
<1>4. sync.got \subseteq Channels /\ sync.got \subseteq sync.was /\ listed \subseteq sync.was
  BY <1>1 DEF SyncType, SyncSaw
<1> QED BY <1>2, <1>3, <1>4, FS_Subset, FS_CardinalityType

\* The channels on air are all in: the others begin at their first page.
LEMMA NextCategoryKeeps ==
  ASSUME FollowInv, sync.at = "online", UNCHANGED <<provider, limit, listed, online, cache, act, click>>,
         NEW got \in SUBSET Channels, got \subseteq sync.was, sync' = Follow!NextCategory(got),
         sync.quiet => got \subseteq listed,
         sync.quiet /\ Follow!Fits => got = Follow!Category("online")
  PROVE  FollowInv'
<1>1. sync \in SyncType /\ SyncSaw(sync) /\ InPlace(sync)
  BY SyncFacts
<1>2. PICK s : s = Follow!NextCategory(got)
  OBVIOUS
<1>3. sync = [at |-> sync.at, mode |-> sync.mode, sel |-> sync.sel, again |-> sync.again,
              offset |-> sync.offset, total |-> sync.total, seen |-> sync.seen,
              got |-> sync.got, kept |-> sync.kept, was |-> sync.was, quiet |-> sync.quiet]
  BY <1>1 DEF SyncType
<1>4. s = [at |-> "offline", mode |-> sync.mode, sel |-> sync.sel, again |-> sync.again,
           offset |-> 0, total |-> -1, seen |-> {}, got |-> got, kept |-> sync.kept,
           was |-> sync.was, quiet |-> sync.quiet]
  BY <1>2, <1>3 DEF Follow!NextCategory
<1>5. s \in SyncType
  BY <1>1, <1>4 DEF SyncType, Follow!Fetching
<1>6. SyncSaw(s) /\ InPlace(s)
  BY <1>1, <1>4 DEF SyncSaw, InPlace
<1>7. Whole(s)
  <2>1. FirstN(Follow!Category("offline"), Id(Follow!Category("offline")), 0) = {}
    BY CategoryType, FirstNSize
  <2>2. s.seen = {} /\ s.offset = Cardinality({})
    BY <1>4, FS_EmptySet
  <2>3. provider \in {"chaturbate", "stripchat"}
    BY <1>1 DEF InPlace
  <2>4. /\ s.quiet => s.got \subseteq listed
        /\ s.quiet /\ Follow!Fits => s.got = Before(s.at)
    BY <1>4 DEF Before
  <2>5. CASE provider = "chaturbate"
    BY <1>4, <2>2, <2>4, <2>5 DEF Whole
  <2>6. CASE provider = "stripchat"
    BY <1>4, <2>1, <2>4, <2>6 DEF Whole
  <2> QED BY <2>3, <2>5, <2>6
<1> QED BY <1>2, <1>5, <1>6, <1>7, SyncKeeps DEF Syncing

\* A page of Stripchat's favourites.
LEMMA FavoritesKeep ==
  ASSUME FollowInv, Follow!FavoritesPage
  PROVE  FollowInv'
<1>1. /\ sync \in SyncType /\ SyncSaw(sync) /\ InPlace(sync) /\ Whole(sync)
      /\ listed \in SUBSET Channels
  BY SyncFacts
<1>2. provider = "stripchat" /\ sync.at \in {"online", "offline"}
  BY DEF Follow!FavoritesPage
<1>3. UNCHANGED <<provider, limit, listed, online, cache, act, click>>
  BY DEF Follow!FavoritesPage
<1>4. PICK S, o, page, got :
        /\ S = Follow!Category(sync.at) /\ o = sync.offset /\ page = Follow!Page(S, o)
        /\ got = sync.got \cup page
  OBVIOUS
<1>5. S \in SUBSET Nat /\ IsFiniteSet(S) /\ o \in Nat /\ PageSize \in Nat
  BY <1>1, <1>4, CategoryType, FollowHolds DEF Follow!FollowAssumption, SyncType
<1>6. got \in SUBSET Channels /\ got \subseteq sync.was
  BY <1>2, <1>4, PageFacts
<1>7. sync.quiet /\ Follow!Fits => sync.got = Before(sync.at) \cup FirstN(S, Id(S), o)
  BY <1>1, <1>2, <1>4 DEF Whole
<1>12. sync.quiet => got \subseteq listed
  BY <1>1, <1>2, <1>4, PageFacts, CategoryType DEF Whole
<1> DEFINE total == Cardinality(IF limit.counted THEN S ELSE page)
           last == \/ Follow!LastPage(page, o + PageSize, total)
                   \/ o + PageSize >= limit.pages * PageSize
<1>13. last /\ Follow!Fits => Follow!LastPage(page, o + PageSize, Cardinality(S))
  <2>1. Follow!Fits => limit.counted /\ Cardinality(S) <= limit.pages * PageSize
    BY <1>2, <1>4, SameSize DEF Follow!Fits
  <2>2. Cardinality(S) \in Nat
    BY <1>5, FS_CardinalityType
  <2> QED BY <1>5, <2>1, <2>2, LimitType DEF Follow!LastPage
<1>8. last /\ sync.quiet /\ Follow!Fits => got = Before(sync.at) \cup S
  BY <1>4, <1>5, <1>7, <1>13, LastIsWhole
<1>14. sync' = CASE last /\ sync.at = "online"  -> Follow!NextCategory(got)
                 [] last /\ sync.at = "offline" -> Follow!Fetched(got)
                 [] OTHER -> [sync EXCEPT !.got = got, !.offset = o + PageSize]
  BY <1>4, SameSize DEF Follow!FavoritesPage
<1> HIDE DEF last
<1>9. CASE last /\ sync.at = "online"
  <2>1. sync' = Follow!NextCategory(got)
    BY <1>9, <1>14
  <2> QED BY <1>3, <1>4, <1>6, <1>8, <1>9, <1>12, <2>1, NextCategoryKeeps DEF Before
<1>10. CASE last /\ sync.at = "offline"
  <2>1. sync' = Follow!Fetched(got)
    BY <1>10, <1>14
  <2>2. sync.quiet /\ Follow!Fits => got = listed
    BY <1>4, <1>8, <1>10, BothCategories DEF Before
  <2> QED BY <1>3, <1>6, <1>10, <1>12, <2>1, <2>2, FetchedKeeps
<1>11. CASE ~ last
  <2>1. PICK s : s = [sync EXCEPT !.got = got, !.offset = o + PageSize]
    OBVIOUS
  <2>2. sync' = s
    BY <1>2, <1>11, <1>14, <2>1
  <2>3. /\ s \in SyncType /\ s.at = sync.at /\ s.got = got /\ s.offset = o + PageSize
        /\ s.was = sync.was /\ s.quiet = sync.quiet
    <3>1. sync = [at |-> sync.at, mode |-> sync.mode, sel |-> sync.sel, again |-> sync.again,
                  offset |-> sync.offset, total |-> sync.total, seen |-> sync.seen,
                  got |-> sync.got, kept |-> sync.kept, was |-> sync.was, quiet |-> sync.quiet]
      BY <1>1 DEF SyncType
    <3>2. s = [at |-> sync.at, mode |-> sync.mode, sel |-> sync.sel, again |-> sync.again,
               offset |-> o + PageSize, total |-> sync.total, seen |-> sync.seen,
               got |-> got, kept |-> sync.kept, was |-> sync.was, quiet |-> sync.quiet]
      BY <2>1, <3>1
    <3>3. o + PageSize \in Nat
      BY <1>5
    <3> QED BY <1>1, <1>6, <3>2, <3>3 DEF SyncType
  <2>4. SyncSaw(s) /\ InPlace(s)
    BY <1>1, <1>6, <2>3 DEF SyncSaw, InPlace
  <2>5. Whole(s)
    <3>1. sync.quiet /\ Follow!Fits => got = Before(sync.at) \cup FirstN(S, Id(S), o + PageSize)
      BY <1>4, <1>5, <1>7, PageIsNext
    <3> QED BY <1>2, <1>4, <1>12, <2>3, <3>1 DEF Whole
  <2> QED BY <1>3, <2>2, <2>3, <2>4, <2>5, SyncKeeps DEF Syncing
<1> QED BY <1>2, <1>9, <1>10, <1>11

\* A page of Chaturbate's roomlist: it is refused, or adds to what came before.
LEMMA RoomlistKeeps ==
  ASSUME FollowInv, Follow!RoomlistPage
  PROVE  FollowInv'
<1>1. /\ sync \in SyncType /\ SyncSaw(sync) /\ InPlace(sync) /\ Whole(sync)
      /\ listed \in SUBSET Channels
  BY SyncFacts
<1>2. /\ provider = "chaturbate" /\ sync.at \in {"online", "offline"}
      /\ UNCHANGED <<provider, limit, listed, online, cache, act, click>>
  BY DEF Follow!RoomlistPage
<1>3. PICK S, o, page, total, next, got, seen :
        /\ S = Follow!Category(sync.at) /\ o = sync.offset /\ page = Follow!Page(S, o)
        /\ total = Cardinality(S) /\ next = o + Cardinality(page)
        /\ got = sync.got \cup page /\ seen = sync.seen \cup page
  OBVIOUS
<1> DEFINE wrong == \/ sync.total \notin {-1, total}
                    \/ total > limit.items \/ Cardinality(got) > limit.items
                    \/ next > total
                    \/ page = {} /\ sync.offset < total
                    \/ page \cap sync.seen # {}
                    \/ next < total /\ Cardinality(page) < PageSize
                    \/ next = total /\ sync.at = "offline" /\ got = {}
<1>4. sync' = CASE wrong -> Follow!ToHtml
                [] ~wrong /\ next = total /\ sync.at = "online" -> Follow!NextCategory(got)
                [] ~wrong /\ next = total /\ sync.at = "offline" -> Follow!Fetched(got)
                [] OTHER -> [sync EXCEPT !.got = got, !.offset = next, !.total = total,
                                         !.seen = seen]
  BY <1>3, SameSize DEF Follow!RoomlistPage
<1>5. ~ wrong => page \cap sync.seen = {}
  OBVIOUS
<1> HIDE DEF wrong
<1>6. /\ page \subseteq S /\ IsFiniteSet(S) /\ S \subseteq Channels
      /\ got \in SUBSET Channels /\ got \subseteq sync.was
      /\ IsFiniteSet(page) /\ Cardinality(page) \in Nat /\ Cardinality(S) \in Nat
  BY <1>2, <1>3, PageFacts, CategoryType, FS_CardinalityType
<1>7. o \in Nat /\ next \in Nat /\ total \in Nat /\ seen \in SUBSET Channels
  BY <1>1, <1>3, <1>6 DEF SyncType
<1>15. Follow!Fits
  BY <1>2 DEF Follow!Fits
<1>16. sync.quiet => got \subseteq listed
  BY <1>1, <1>2, <1>3, PageFacts, CategoryType DEF Whole
<1>8. sync.quiet =>
        /\ sync.got = Before(sync.at) \cup sync.seen /\ sync.seen \subseteq S
        /\ o = Cardinality(sync.seen)
  BY <1>1, <1>2, <1>3, <1>15 DEF Whole
<1>9. sync.quiet /\ ~ wrong =>
        /\ got = Before(sync.at) \cup seen /\ seen \subseteq S /\ next = Cardinality(seen)
  <2> SUFFICES ASSUME sync.quiet, ~ wrong
               PROVE  /\ got = Before(sync.at) \cup seen /\ seen \subseteq S
                      /\ next = Cardinality(seen)
    OBVIOUS
  <2>1. IsFiniteSet(sync.seen)
    BY <1>6, <1>8, FS_Subset
  <2>2. Cardinality(sync.seen \cup page)
          = Cardinality(sync.seen) + Cardinality(page) - Cardinality(sync.seen \cap page)
    BY <1>6, <2>1, FS_Union
  <2>3. Cardinality(sync.seen \cap page) = 0
    <3>1. sync.seen \cap page = {}
      BY <1>5
    <3> QED BY <3>1, FS_EmptySet
  <2> QED BY <1>3, <1>6, <1>7, <1>8, <2>2, <2>3
<1>10. sync.quiet /\ ~ wrong /\ next = total => got = Before(sync.at) \cup S
  BY <1>3, <1>6, <1>9, FS_Subset
<1>11. CASE wrong
  <2>1. PICK none : none = {}
    OBVIOUS
  <2>2. sync' = [sync EXCEPT !.at = "html", !.got = none]
    BY <1>4, <1>11, <2>1 DEF Follow!ToHtml
  <2>3. /\ none \in SUBSET Channels /\ none \subseteq sync.was /\ none \subseteq listed
        /\ "html" \in Follow!Fetching
    BY <2>1 DEF Follow!Fetching
  <2> QED BY <1>2, <2>2, <2>3, PlaceKeeps
<1>12. CASE ~ wrong /\ next = total /\ sync.at = "online"
  <2>1. sync' = Follow!NextCategory(got)
    BY <1>4, <1>12
  <2> QED BY <1>2, <1>3, <1>6, <1>10, <1>12, <1>16, <2>1, NextCategoryKeeps DEF Before
<1>13. CASE ~ wrong /\ next = total /\ sync.at = "offline"
  <2>1. sync' = Follow!Fetched(got)
    BY <1>4, <1>13
  <2>2. sync.quiet => got = listed
    BY <1>3, <1>10, <1>13, BothCategories DEF Before
  <2> QED BY <1>2, <1>6, <1>13, <1>16, <2>1, <2>2, FetchedKeeps
<1>14. CASE ~ wrong /\ next # total
  <2>1. PICK s : s = [sync EXCEPT !.got = got, !.offset = next, !.total = total, !.seen = seen]
    OBVIOUS
  <2>2. sync' = s
    BY <1>4, <1>14, <2>1
  <2>3. sync = [at |-> sync.at, mode |-> sync.mode, sel |-> sync.sel, again |-> sync.again,
                offset |-> sync.offset, total |-> sync.total, seen |-> sync.seen,
                got |-> sync.got, kept |-> sync.kept, was |-> sync.was, quiet |-> sync.quiet]
    BY <1>1 DEF SyncType
  <2>4. s = [at |-> sync.at, mode |-> sync.mode, sel |-> sync.sel, again |-> sync.again,
             offset |-> next, total |-> total, seen |-> seen,
             got |-> got, kept |-> sync.kept, was |-> sync.was, quiet |-> sync.quiet]
    BY <2>1, <2>3
  <2>5. s \in SyncType
    BY <1>1, <1>6, <1>7, <2>4 DEF SyncType
  <2>6. SyncSaw(s) /\ InPlace(s)
    BY <1>1, <1>6, <2>4 DEF SyncSaw, InPlace
  <2>7. Whole(s)
    BY <1>2, <1>3, <1>9, <1>14, <1>16, <2>4 DEF Whole
  <2> QED BY <1>2, <2>2, <2>5, <2>6, <2>7, SyncKeeps DEF Syncing
<1> QED BY <1>2, <1>11, <1>12, <1>13, <1>14

\* The rows are written, or the others removed.
LEMMA StoreKeeps ==
  ASSUME FollowInv, Follow!StoreItem \/ Follow!RemoveUnfollowed
  PROVE  FollowInv'
<1>1. /\ sync \in SyncType /\ SyncSaw(sync) /\ InPlace(sync) /\ Whole(sync)
      /\ listed \in SUBSET Channels
  BY SyncFacts
<1>2. CASE Follow!RemoveUnfollowed
  <2>1. cache' \subseteq Channels /\ sync' = Follow!NoSync /\ UNCHANGED <<provider, limit, listed, online, act, click>>
    BY <1>2 DEF Follow!RemoveUnfollowed, FollowInv, Cached
  <2>2. Syncing(Follow!NoSync)'
    BY DEF Syncing, SyncSaw, InPlace, Whole, Follow!NoSync
  <2> QED BY <2>1, <2>2, RestTypes DEF FollowInv, Cached, FlowSaw
<1>3. CASE Follow!StoreItem
  <2>1. PICK c \in sync.got :
          cache' = cache \cup {c} /\ sync' = [sync EXCEPT !.kept = @ \cup {c}]
    BY <1>3 DEF Follow!StoreItem
  <2>2. /\ c \in Channels /\ cache' \subseteq Channels
        /\ UNCHANGED <<provider, limit, listed, online, act, click>>
    BY <1>1, <1>3, <2>1 DEF Follow!StoreItem, FollowInv, Cached, SyncType
  <2>3. PICK s : s = [sync EXCEPT !.kept = @ \cup {c}]
    OBVIOUS
  <2>4. /\ s \in SyncType /\ s.at = sync.at /\ s.got = sync.got /\ s.was = sync.was
        /\ s.quiet = sync.quiet /\ s.sel = sync.sel /\ s.kept = sync.kept \cup {c}
    BY <1>1, <2>2, <2>3 DEF SyncType
  <2>5. SyncSaw(s)' /\ InPlace(s)'
    BY <1>1, <2>2, <2>4 DEF SyncSaw, InPlace
  <2>6. Whole(s)'
    <3>1. sync.at = "store" /\ s.at = "store" /\ Follow!Fits' = Follow!Fits
      BY <1>3, <2>2, <2>4 DEF Follow!StoreItem, Follow!Fits, Follow!Category
    <3> QED BY <1>1, <2>1, <2>2, <2>4, <3>1 DEF Whole
  <2> QED BY <2>1, <2>2, <2>3, <2>4, <2>5, <2>6 DEF FollowInv, Cached, FlowSaw, Syncing
<1> QED BY <1>2, <1>3

\* Steps of the two flows that move nothing on the site and in the rows.
LEMMA FlowsKeep ==
  ASSUME FollowInv, UNCHANGED <<provider, limit, listed, online, cache, sync>>,
         act' \in FlowType, click' \in FlowType, FlowSaw(act)', FlowSaw(click)'
  PROVE  FollowInv'
BY DEF FollowInv, Cached, Syncing, SyncSaw, InPlace, Whole, Before, Follow!Category, Follow!Fits

\* Something moves on the site or in the rows: a synchronisation that runs is not quiet.
LEMMA DisturbedKeeps ==
  ASSUME FollowInv, UNCHANGED <<provider, limit>>, NEW now \in SUBSET Channels, listed' = now,
         online' \subseteq Channels, cache' \subseteq Channels, sync' = Follow!Disturbed(now),
         act' \in FlowType, click' \in FlowType, FlowSaw(act)', FlowSaw(click)'
  PROVE  FollowInv'
<1>1. sync \in SyncType /\ SyncSaw(sync) /\ InPlace(sync) /\ provider \in Kinds
  BY SyncFacts DEF FollowInv
<1>2. PICK s : s = Follow!Disturbed(now)
  OBVIOUS
<1>3. /\ s \in SyncType /\ s.at = sync.at /\ s.got = sync.got
      /\ sync.at # "idle" => s.was = sync.was \cup now /\ ~ s.quiet
      /\ sync.at = "idle" => s = sync
  BY <1>1, <1>2, DisturbedType
<1>4. SyncSaw(s)' /\ InPlace(s)' /\ Whole(s)'
  BY <1>1, <1>3 DEF SyncSaw, InPlace, Whole
<1> QED BY <1>1, <1>2, <1>3, <1>4 DEF FollowInv, Cached, Syncing

\* A flow that saw the list before sees it after.
LEMMA SawKeeps ==
  ASSUME NEW flow \in FlowType, FlowSaw(flow), NEW now \in SUBSET Channels, listed' = now
  PROVE  Follow!Saw(flow, now) \in FlowType /\ FlowSaw(Follow!Saw(flow, now))'
<1>1. PICK f : f = Follow!Saw(flow, now)
  OBVIOUS
<1>2. /\ f \in FlowType /\ f.at = flow.at /\ f.follow = flow.follow /\ f.channel = flow.channel
      /\ f.clicked = flow.clicked
      /\ flow.at # "idle" => f.was = flow.was \cup now
  BY <1>1, SawType
<1>3. FlowSaw(f)'
  BY <1>2 DEF FlowSaw
<1> QED BY <1>1, <1>2, <1>3 DEF FlowSaw, Follow!Saw

\* A flow goes on to another place and has seen what it needs to be there.
LEMMA MovedType ==
  ASSUME NEW flow \in FlowType, FlowSaw(flow), flow.at # "idle",
         NEW at \in {"check", "local", "done", "reported"},
         at # "check" /\ flow.follow => flow.channel \in flow.was \/ flow.clicked
  PROVE  /\ [flow EXCEPT !.at = at] \in FlowType
         /\ FlowSaw([flow EXCEPT !.at = at])
BY DEF FlowType, FlowSaw

\* No flow has seen anything.
LEMMA NoneSaw == FlowSaw(Follow!NoChange) /\ FlowSaw(Follow!NoChange)'
BY DEF FlowSaw, Follow!NoChange

\* The site does what a flow asked for, and the flow sees it.
LEMMA DoneType ==
  ASSUME NEW flow \in FlowType, flow.at # "idle", FlowSaw(flow),
         NEW at \in {"check", "local", "done"}, NEW clicked \in BOOLEAN, clicked \/ flow.clicked = clicked,
         NEW now \in SUBSET Channels, listed' = now,
         now = Follow!Listed(flow.channel, flow.follow) \/ clicked
  PROVE  /\ Follow!Saw([flow EXCEPT !.at = at, !.clicked = clicked], now) \in FlowType
         /\ FlowSaw(Follow!Saw([flow EXCEPT !.at = at, !.clicked = clicked], now))'
<1>1. PICK f : f = [flow EXCEPT !.at = at, !.clicked = clicked]
  OBVIOUS
<1>2. /\ f \in FlowType /\ f.at = at /\ f.channel = flow.channel /\ f.follow = flow.follow
      /\ f.clicked = clicked /\ f.was = flow.was
  BY <1>1 DEF FlowType
<1>3. PICK g : g = Follow!Saw(f, now)
  OBVIOUS
<1>4. /\ g \in FlowType /\ g.at = at /\ g.channel = flow.channel /\ g.follow = flow.follow
      /\ g.clicked = clicked /\ g.was = flow.was \cup now
  BY <1>2, <1>3, SawType
<1>5. FlowSaw(g)'
  BY <1>4 DEF FlowSaw, Follow!Listed
<1> QED BY <1>1, <1>3, <1>4, <1>5

\* A flow of the server, or of the helper, begins.
LEMMA ChangeType ==
  ASSUME FollowInv, NEW at \in {"remote", "queued"}, NEW c \in Channels, NEW follow \in BOOLEAN
  PROVE  Follow!Change(at, c, follow) \in FlowType /\ FlowSaw(Follow!Change(at, c, follow))
BY SyncFacts DEF Follow!Change, FlowType, FlowSaw

\* What holds of the flows and of the tables.
LEMMA FlowFacts ==
  ASSUME FollowInv
  PROVE  /\ act \in FlowType /\ click \in FlowType /\ FlowSaw(act) /\ FlowSaw(click)
         /\ listed \in SUBSET Channels /\ online \subseteq Channels /\ cache \subseteq Channels
         /\ \A c \in Channels, follow \in BOOLEAN : Follow!Listed(c, follow) \in SUBSET Channels
BY DEF FollowInv, Cached, Follow!Listed

\* What a flow has seen is the same while the list is.
LEMMA SawSame ==
  ASSUME NEW flow, FlowSaw(flow), UNCHANGED listed
  PROVE  FlowSaw(flow)'
BY DEF FlowSaw

\* The steps of the follows that change neither the list nor the rows.
LEMMA QuietFlowsKeep ==
  ASSUME FollowInv,
         \/ \E c \in Channels, follow \in BOOLEAN : Follow!FollowRequest(c, follow)
         \/ Follow!ChaturbateDrops \/ Follow!CheckFollow \/ Follow!RemoteFollowFails \/ Follow!FollowReported
         \/ \E c \in Channels, follow \in BOOLEAN : Follow!QueueFollow(c, follow)
         \/ Follow!FollowResult \/ Follow!FollowExpires
  PROVE  FollowInv'
<1>1. /\ act \in FlowType /\ click \in FlowType /\ FlowSaw(act) /\ FlowSaw(click)
      /\ listed \in SUBSET Channels
  BY FlowFacts
<1>2. Follow!NoChange \in FlowType /\ FlowSaw(Follow!NoChange)
  BY RestTypes, NoneSaw
<1>3. UNCHANGED <<provider, limit, listed, online, cache, sync>>
  BY DEF Follow!FollowRequest, Follow!ChaturbateDrops, Follow!CheckFollow,
     Follow!RemoteFollowFails, Follow!FollowReported,
         Follow!QueueFollow, Follow!FollowResult, Follow!FollowExpires
<1>4. ASSUME NEW f \in FlowType, NEW g \in FlowType, FlowSaw(f), FlowSaw(g), act' = f, click' = g
      PROVE  FollowInv'
  <2>1. FlowSaw(f)' /\ FlowSaw(g)'
    BY <1>3, <1>4, SawSame
  <2>2. FlowSaw(act)' /\ FlowSaw(click)'
    BY <1>4, <2>1
  <2> QED BY <1>3, <1>4, <2>2, FlowsKeep
<1>5. ASSUME NEW c \in Channels, NEW follow \in BOOLEAN, Follow!FollowRequest(c, follow)
      PROVE  FollowInv'
  <2>1. PICK f : f = Follow!Change("remote", c, follow)
    OBVIOUS
  <2>2. f \in FlowType /\ FlowSaw(f) /\ act' = f /\ click' = click
    BY <1>5, <2>1, ChangeType DEF Follow!FollowRequest
  <2> QED BY <1>1, <1>4, <2>2
<1>6. CASE Follow!ChaturbateDrops
  <2>1. PICK f : f = [act EXCEPT !.at = "check"]
    OBVIOUS
  <2>2. f \in FlowType /\ FlowSaw(f) /\ act' = f /\ click' = click
    BY <1>1, <1>6, <2>1, MovedType DEF Follow!ChaturbateDrops
  <2> QED BY <1>1, <1>4, <2>2
<1>7. CASE Follow!CheckFollow
  <2>1. PICK says \in {accepted /\ act.channel \in listed, FALSE} :
          act' = IF says = act.follow THEN [act EXCEPT !.at = "local"] ELSE Follow!NoChange
    BY <1>7 DEF Follow!CheckFollow
  <2>2. act.at = "check" /\ click' = click
    BY <1>7 DEF Follow!CheckFollow
  <2>3. CASE says # act.follow
    BY <1>1, <1>2, <1>4, <2>1, <2>2, <2>3
  <2>4. CASE says = act.follow
    <3>1. PICK f : f = [act EXCEPT !.at = "local"]
      OBVIOUS
    <3>2. act.follow => act.channel \in act.was
      BY <1>1, <2>1, <2>2, <2>4 DEF FlowSaw
    <3>3. f \in FlowType /\ FlowSaw(f) /\ act' = f
      BY <1>1, <2>1, <2>2, <2>4, <3>1, <3>2, MovedType
    <3> QED BY <1>1, <1>4, <2>2, <3>3
  <2> QED BY <2>3, <2>4
<1>8. CASE Follow!RemoteFollowFails
  BY <1>1, <1>2, <1>4, <1>8 DEF Follow!RemoteFollowFails
<1>9. CASE Follow!FollowReported
  <2>1. PICK f : f = [click EXCEPT !.at = "local"]
    OBVIOUS
  <2>2. f \in FlowType /\ FlowSaw(f) /\ act' = f /\ click' = Follow!NoChange
    BY <1>1, <1>9, <2>1, MovedType DEF Follow!FollowReported, FlowSaw
  <2> QED BY <1>2, <1>4, <2>2
<1>10. ASSUME NEW c \in Channels, NEW follow \in BOOLEAN, Follow!QueueFollow(c, follow)
       PROVE  FollowInv'
  <2>1. PICK f : f = Follow!Change("queued", c, follow)
    OBVIOUS
  <2>2. f \in FlowType /\ FlowSaw(f) /\ click' = f /\ act' = act
    BY <1>10, <2>1, ChangeType DEF Follow!QueueFollow
  <2> QED BY <1>1, <1>4, <2>2
<1>11. CASE Follow!FollowResult
  <2>1. PICK f : f = [click EXCEPT !.at = "local"]
    OBVIOUS
  <2>2. f \in FlowType /\ FlowSaw(f) /\ click' = f /\ act' = act
    BY <1>1, <1>11, <2>1, MovedType DEF Follow!FollowResult, FlowSaw
  <2> QED BY <1>1, <1>4, <2>2
<1>12. CASE Follow!FollowExpires
  BY <1>1, <1>2, <1>4, <1>12 DEF Follow!FollowExpires
<1> QED BY <1>5, <1>6, <1>7, <1>8, <1>9, <1>10, <1>11, <1>12

\* The steps that change the list, the rows, or who is on air.
LEMMA SeenFlowsKeep ==
  ASSUME FollowInv,
         \/ Follow!Done("local") \/ Follow!Done("check") \/ Follow!LocalFollow \/ Follow!HelperFollows \/ Follow!HelperClicks
         \/ Follow!FollowResultStored
         \/ \E c \in Channels : Follow!SiteFollow(c) \/ Follow!SiteOnline(c)
  PROVE  FollowInv'
<1>1. /\ act \in FlowType /\ click \in FlowType /\ FlowSaw(act) /\ FlowSaw(click)
      /\ listed \in SUBSET Channels /\ online \subseteq Channels /\ cache \subseteq Channels
      /\ \A c \in Channels, follow \in BOOLEAN : Follow!Listed(c, follow) \in SUBSET Channels
  BY FlowFacts
<1>2. Follow!NoChange \in FlowType /\ FlowSaw(Follow!NoChange)'
  BY RestTypes, NoneSaw
<1>3. ASSUME NEW f \in FlowType, NEW g \in FlowType, FlowSaw(f)', FlowSaw(g)', act' = f, click' = g,
             NEW now \in SUBSET Channels, listed' = now, sync' = Follow!Disturbed(now),
             UNCHANGED <<provider, limit>>, online' \subseteq Channels, cache' \subseteq Channels
      PROVE  FollowInv'
  <2>1. FlowSaw(act)' /\ FlowSaw(click)'
    BY <1>3
  <2> QED BY <1>3, <2>1, DisturbedKeeps
<1>4. ASSUME NEW at \in {"local", "check"}, Follow!Done(at)
      PROVE  FollowInv'
  <2>1. act.at = "remote"
    BY <1>4 DEF Follow!Done
  <2>2. PICK now : now = Follow!Listed(act.channel, act.follow)
    OBVIOUS
  <2>3. now \in SUBSET Channels
    BY <1>1, <2>1, <2>2 DEF FlowSaw, FlowType
  <2>4. /\ UNCHANGED <<provider, limit>> /\ online' = online /\ cache' = cache
        /\ listed' = now /\ sync' = Follow!Disturbed(now) /\ click' = Follow!Saw(click, now)
        /\ act' = Follow!Saw([act EXCEPT !.at = at], now) \/ act' = Follow!NoChange
    BY <1>4, <2>2 DEF Follow!Done
  <2>5. [act EXCEPT !.at = at] = [act EXCEPT !.at = at, !.clicked = act.clicked]
    BY <1>1 DEF FlowType
  <2>6. PICK f, g : f = Follow!Saw([act EXCEPT !.at = at], now) /\ g = Follow!Saw(click, now)
    OBVIOUS
  <2>7. f \in FlowType /\ FlowSaw(f)'
    <3>1. act.clicked \in BOOLEAN
      BY <1>1 DEF FlowType
    <3> QED BY <1>1, <2>1, <2>2, <2>3, <2>4, <2>5, <2>6, <3>1, DoneType
  <2>8. g \in FlowType /\ FlowSaw(g)'
    BY <1>1, <2>3, <2>4, <2>6, SawKeeps
  <2> QED BY <1>1, <1>2, <1>3, <2>3, <2>4, <2>6, <2>7, <2>8
<1>5. ASSUME NEW flow \in {act, click}, flow.at = "local", cache' = Follow!CacheWith(flow.channel, flow.follow)
      PROVE  cache' \subseteq Channels
  BY <1>1, <1>5 DEF Follow!CacheWith, FlowSaw
<1>6. CASE Follow!LocalFollow
  <2>1. /\ act' = Follow!NoChange /\ click' = click /\ cache' \subseteq Channels /\ online' = online
        /\ UNCHANGED <<provider, limit>> /\ listed' = listed /\ sync' = Follow!Disturbed(listed)
    BY <1>5, <1>6 DEF Follow!LocalFollow
  <2>2. FlowSaw(click)'
    BY <1>1, <2>1 DEF FlowSaw
  <2>3. PICK g, now : g = click /\ now = listed
    OBVIOUS
  <2>4. g \in FlowType /\ FlowSaw(g)' /\ click' = g
    BY <1>1, <2>1, <2>3 DEF FlowSaw
  <2> QED BY <1>1, <1>2, <1>3, <2>1, <2>3, <2>4
<1>7. CASE Follow!FollowResultStored
  <2>1. /\ act' = act /\ cache' \subseteq Channels /\ online' = online /\ click.at = "local"
        /\ UNCHANGED <<provider, limit>> /\ listed' = listed /\ sync' = Follow!Disturbed(listed)
        /\ click' = [click EXCEPT !.at = "reported"]
    BY <1>5, <1>7 DEF Follow!FollowResultStored
  <2>2. PICK f, g, now : f = act /\ g = [click EXCEPT !.at = "reported"] /\ now = listed
    OBVIOUS
  <2>3. g \in FlowType /\ FlowSaw(g)
    BY <1>1, <2>1, <2>2, MovedType DEF FlowSaw
  <2>4. FlowSaw(f)' /\ FlowSaw(g)'
    BY <1>1, <2>1, <2>2, <2>3 DEF FlowSaw
  <2> QED BY <1>1, <1>3, <2>1, <2>2, <2>3, <2>4
<1>8. CASE Follow!HelperFollows
  <2>1. PICK now : now = Follow!Listed(click.channel, click.follow)
    OBVIOUS
  <2>2. click.at = "queued" /\ now \in SUBSET Channels
    BY <1>1, <1>8, <2>1 DEF Follow!HelperFollows, FlowSaw, FlowType
  <2>3. /\ UNCHANGED <<provider, limit>> /\ online' = online /\ cache' = cache
        /\ listed' = now /\ sync' = Follow!Disturbed(now) /\ act' = Follow!Saw(act, now)
        /\ click' = Follow!Saw([click EXCEPT !.at = "done"], now) \/ click' = Follow!NoChange
    BY <1>8, <2>1 DEF Follow!HelperFollows
  <2>4. [click EXCEPT !.at = "done"] = [click EXCEPT !.at = "done", !.clicked = click.clicked]
    BY <1>1 DEF FlowType
  <2>5. PICK f, g : f = Follow!Saw(act, now) /\ g = Follow!Saw([click EXCEPT !.at = "done"], now)
    OBVIOUS
  <2>6. g \in FlowType /\ FlowSaw(g)'
    <3>1. click.clicked \in BOOLEAN
      BY <1>1 DEF FlowType
    <3> QED BY <1>1, <2>1, <2>2, <2>3, <2>4, <2>5, <3>1, DoneType
  <2>7. f \in FlowType /\ FlowSaw(f)'
    BY <1>1, <2>2, <2>3, <2>5, SawKeeps
  <2> QED BY <1>1, <1>2, <1>3, <2>2, <2>3, <2>5, <2>6, <2>7
<1>9. CASE Follow!HelperClicks
  <2>1. PICK now \in {listed, Follow!Listed(click.channel, click.follow)} :
          /\ listed' = now
          /\ click' = Follow!Saw([click EXCEPT !.at = "done", !.clicked = TRUE], now)
          /\ IF now = listed THEN UNCHANGED <<sync, act>>
                             ELSE sync' = Follow!Disturbed(now) /\ act' = Follow!Saw(act, now)
    BY <1>9 DEF Follow!HelperClicks
  <2>2. /\ click.at = "queued" /\ UNCHANGED <<provider, limit>> /\ online' = online /\ cache' = cache
    BY <1>9 DEF Follow!HelperClicks
  <2>3. now \in SUBSET Channels
    BY <1>1, <2>1, <2>2 DEF FlowSaw, FlowType
  <2>4. PICK g : g = Follow!Saw([click EXCEPT !.at = "done", !.clicked = TRUE], now)
    OBVIOUS
  <2>5. g \in FlowType /\ FlowSaw(g)'
    BY <1>1, <2>1, <2>2, <2>3, <2>4, DoneType
  <2>6. CASE now = listed
    <3>1. FlowSaw(act)' /\ FlowSaw(click)'
      BY <1>1, <2>1, <2>4, <2>5, <2>6 DEF FlowSaw
    <3> QED BY <1>1, <2>1, <2>2, <2>4, <2>5, <2>6, <3>1, FlowsKeep
  <2>7. CASE now # listed
    <3>1. PICK f : f = Follow!Saw(act, now)
      OBVIOUS
    <3>2. f \in FlowType /\ FlowSaw(f)'
      BY <1>1, <2>1, <2>3, <3>1, SawKeeps
    <3> QED BY <1>1, <1>3, <2>1, <2>2, <2>3, <2>4, <2>5, <2>7, <3>1, <3>2
  <2> QED BY <2>6, <2>7
<1>10. ASSUME NEW c \in Channels, Follow!SiteFollow(c) PROVE FollowInv'
  <2>1. PICK now, f, g :
          now = Follow!Listed(c, c \notin listed) /\ f = Follow!Saw(act, now) /\ g = Follow!Saw(click, now)
    OBVIOUS
  <2>2. now \in SUBSET Channels
    BY <1>1, <2>1
  <2>3. /\ UNCHANGED <<provider, limit>> /\ online' = online /\ cache' = cache /\ act' = f /\ click' = g
        /\ listed' = now /\ sync' = Follow!Disturbed(now)
    BY <1>10, <2>1 DEF Follow!SiteFollow
  <2>4. f \in FlowType /\ FlowSaw(f)' /\ g \in FlowType /\ FlowSaw(g)'
    BY <1>1, <2>1, <2>2, <2>3, SawKeeps
  <2> QED BY <1>1, <1>3, <2>2, <2>3, <2>4
<1>11. ASSUME NEW c \in Channels, Follow!SiteOnline(c) PROVE FollowInv'
  <2>1. PICK now, f, g : now = listed /\ f = act /\ g = click
    OBVIOUS
  <2>2. /\ UNCHANGED <<provider, limit>> /\ online' \subseteq Channels /\ cache' = cache /\ act' = f /\ click' = g
        /\ listed' = now /\ sync' = Follow!Disturbed(now)
    BY <1>1, <1>11, <2>1 DEF Follow!SiteOnline
  <2>3. FlowSaw(f)' /\ FlowSaw(g)'
    BY <1>1, <2>1, <2>2 DEF FlowSaw
  <2> QED BY <1>1, <1>3, <2>1, <2>2, <2>3
<1> QED BY <1>4, <1>6, <1>7, <1>8, <1>9, <1>10, <1>11

\* Every step keeps the invariant.
LEMMA FollowStep == FollowInv /\ [Follow!Next]_Follow!vars => FollowInv'
<1> SUFFICES ASSUME FollowInv, [Follow!Next]_Follow!vars PROVE FollowInv'
  OBVIOUS
<1>1. ASSUME NEW mode \in Follow!Modes, NEW sel \in SUBSET Channels, Follow!SyncBegin(mode, sel)
      PROVE  FollowInv'
  BY <1>1, BeginKeeps
<1>2. CASE Follow!SyncAsks \/ Follow!SyncRetries
  BY <1>2, AsksKeep
<1>3. CASE \/ Follow!SyncRefused \/ Follow!StripchatFails \/ Follow!YoutubeFails \/ Follow!BilibiliFails \/ Follow!TimesOut
           \/ Follow!HtmlFails
  BY <1>3, EmptySyncs DEF Follow!StripchatFails, Follow!YoutubeFails, Follow!BilibiliFails,
     Follow!TimesOut
<1>4. CASE Follow!RoomlistFails \/ Follow!HelixList \/ Follow!GuideList \/ Follow!RelationList
  BY <1>4, ListsKeep
<1>5. CASE Follow!HtmlPage \/ Follow!GqlList \/ Follow!SubscriptionList \/ Follow!LiveList
  BY <1>5, LastKeeps
<1>6. CASE Follow!RoomlistPage \/ Follow!FavoritesPage
  BY <1>6, RoomlistKeeps, FavoritesKeep
<1>7. CASE Follow!StoreItem \/ Follow!RemoveUnfollowed
  BY <1>7, StoreKeeps
<1>8. CASE \/ \E c \in Channels, follow \in BOOLEAN : Follow!FollowRequest(c, follow)
           \/ Follow!ChaturbateDrops \/ Follow!CheckFollow \/ Follow!RemoteFollowFails \/ Follow!FollowReported
           \/ \E c \in Channels, follow \in BOOLEAN : Follow!QueueFollow(c, follow)
           \/ Follow!FollowResult \/ Follow!FollowExpires
  BY <1>8, QuietFlowsKeep
<1>9. CASE \/ Follow!TwitchFollows \/ Follow!YoutubeFollows \/ Follow!BilibiliFollows \/ Follow!StripchatFollows
           \/ Follow!ChaturbateFollows \/ Follow!LocalFollow \/ Follow!HelperFollows \/ Follow!HelperClicks
           \/ Follow!FollowResultStored \/ \E c \in Channels : Follow!SiteFollow(c)
           \/ \E c \in Channels : Follow!SiteOnline(c)
  BY <1>9, SeenFlowsKeep
     DEF Follow!TwitchFollows, Follow!YoutubeFollows, Follow!BilibiliFollows, Follow!StripchatFollows, Follow!ChaturbateFollows
<1>10. CASE Follow!SessionEnds \/ Follow!SessionImported \/ UNCHANGED Follow!vars
  <2>1. UNCHANGED <<provider, limit, listed, online, cache, sync, act, click>>
    BY <1>10 DEF Follow!SessionEnds, Follow!SessionImported, Follow!vars
  <2> QED BY <2>1, FlowFacts, FlowsKeep DEF FlowSaw
<1> QED BY <1>1, <1>2, <1>3, <1>4, <1>5, <1>6, <1>7, <1>8, <1>9, <1>10 DEF Follow!Next

\* The steps that add a row to the cache.
LEMMA RowsComeFrom ==
  ASSUME FollowInv, [Follow!Next]_Follow!vars, NEW c \in cache' \ cache
  PROVE  \/ sync.at = "store" /\ c \in sync.got
         \/ \E flow \in {act, click} : flow.at = "local" /\ flow.channel = c /\ flow.follow
<1>1. Follow!StoreItem \/ Follow!LocalFollow \/ Follow!FollowResultStored
  BY DEF Follow!Next, Follow!vars, Follow!SyncBegin, Follow!SyncAsks, Follow!SyncRetries,
     Follow!SyncRefused, Follow!StripchatFails, Follow!YoutubeFails,
         Follow!BilibiliFails, Follow!TimesOut, Follow!Raised, Follow!RoomlistFails, Follow!HtmlFails, Follow!RoomlistPage, Follow!HtmlPage,
         Follow!FavoritesPage, Follow!HelixList, Follow!GqlList, Follow!GuideList, Follow!SubscriptionList, Follow!RelationList, Follow!LiveList,
         Follow!RemoveUnfollowed, Follow!FollowRequest, Follow!TwitchFollows, Follow!YoutubeFollows, Follow!BilibiliFollows,
         Follow!StripchatFollows, Follow!ChaturbateFollows, Follow!Done, Follow!ChaturbateDrops, Follow!CheckFollow,
         Follow!RemoteFollowFails, Follow!FollowReported, Follow!QueueFollow, Follow!HelperFollows, Follow!HelperClicks,
         Follow!FollowResult, Follow!FollowExpires, Follow!SiteFollow, Follow!SiteOnline, Follow!SessionEnds, Follow!SessionImported
<1>2. CASE Follow!StoreItem
  BY <1>2 DEF Follow!StoreItem
<1>3. CASE Follow!LocalFollow
  BY <1>3 DEF Follow!LocalFollow, Follow!CacheWith
<1>4. CASE Follow!FollowResultStored
  BY <1>4 DEF Follow!FollowResultStored, Follow!CacheWith
<1> QED BY <1>1, <1>2, <1>3, <1>4

\* A row appears for a channel the account followed meanwhile, or whose button was pressed,
\* whichever of the three writers of followed_models puts it there.
THEOREM RowsAreFollowed == Follow!Spec => RowsWereFollowed
<1>1. FollowInv /\ [Follow!Next]_Follow!vars =>
        [\A c \in cache' \ cache :
           \/ sync.at = "store" /\ c \in sync.was
           \/ \E flow \in {act, click} :
                flow.at = "local" /\ flow.channel = c /\ (c \in flow.was \/ flow.clicked)]_Follow!vars
  <2> SUFFICES ASSUME FollowInv, [Follow!Next]_Follow!vars, NEW c \in cache' \ cache
               PROVE  \/ sync.at = "store" /\ c \in sync.was
                      \/ \E flow \in {act, click} :
                           /\ flow.at = "local" /\ flow.channel = c
                           /\ c \in flow.was \/ flow.clicked
    OBVIOUS
  <2>1. CASE sync.at = "store" /\ c \in sync.got
    BY <2>1, SyncFacts DEF SyncSaw
  <2>2. ASSUME NEW flow \in {act, click}, flow.at = "local", flow.channel = c, flow.follow
        PROVE  c \in flow.was \/ flow.clicked
    BY <2>2, FlowFacts DEF FlowSaw
  <2> QED BY <2>1, <2>2, RowsComeFrom
<1> QED
  BY <1>1, InitFollow, FollowStep, PTL DEF Follow!Spec, RowsWereFollowed,
     Follow!RowsWereFollowed

\* An undisturbed synchronisation stores only what the site lists and the user selected, and
\* all of it when the list fits into what the provider may read, for any page size and any
\* limits: no page is skipped or read twice at a boundary of sync_following.
THEOREM QuietSyncsAreWhole == Follow!Spec => QuietSyncIsWhole
<1>1. FollowInv =>
        [(Follow!RemoveUnfollowed /\ sync.quiet)
           => /\ cache' \subseteq listed \cap sync.sel
              /\ Follow!Fits => cache' = listed \cap sync.sel]_Follow!vars
  <2> SUFFICES ASSUME FollowInv, Follow!RemoveUnfollowed, sync.quiet
               PROVE  /\ cache' \subseteq listed \cap sync.sel
                      /\ Follow!Fits => cache' = listed \cap sync.sel
    OBVIOUS
  <2>1. /\ sync.got \subseteq listed \cap sync.sel /\ sync.kept \subseteq cache
        /\ Follow!Fits => sync.got = listed \cap sync.sel
    BY SyncFacts DEF Follow!RemoveUnfollowed, Whole
  <2> QED BY <2>1 DEF Follow!RemoveUnfollowed
<1> QED
  BY <1>1, InitFollow, FollowStep, PTL DEF Follow!Spec, QuietSyncIsWhole,
     Follow!QuietSyncIsWhole
=============================================================================
