---------------------------- MODULE ProviderAccount ----------------------------
(***************************************************************************)
(* The saved login of one site: the cookies of a session and the flag that *)
(* says they are logged in.  Four of the providers keep both in their row  *)
(* of provider_sessions; Chaturbate keeps them in the memory of            *)
(* ChaturbateAuthService, in chaturbate_auth, in a file, and a copy in     *)
(* provider_sessions as well.                                              *)
(*                                                                         *)
(* Requests that change them overlap: an import of a session by the user   *)
(* or the Mac helper, a login with a password, the check of the Settings   *)
(* page (provider_status, _provider_login_state), and the invalidation     *)
(* after a refused synchronisation.  Each asks the site in between, and    *)
(* the site may answer, refuse, or not be reached.                         *)
(***************************************************************************)
EXTENDS Naturals

CONSTANTS
  Kinds,        \* the providers of this instance
  Sessions,     \* sessions the site ever issued
  None,         \* no cookies
  MaxCalls      \* bound: requests and sessions that end

AccountAssumption == None \notin Sessions

Stores == {"twitch", "youtube", "bilibili", "stripchat"}
Requests == {1, 2}

VARIABLES
  kind,         \* the provider
  accepts,      \* the sessions the site still accepts
  mem,          \* ChaturbateAuthService: _cookies, _is_logged_in
  auth,         \* the chaturbate_auth row; there is one
  file,         \* cookies.json
  row,          \* the provider_sessions row: session_cookies, is_logged_in
  creds,        \* a user name and a password are saved in that row
  flows,        \* the requests that run
  cmd,          \* the import queued for the Mac helper
  calls

vars == <<kind, accepts, mem, auth, file, row, creds, flows, cmd, calls>>

Login(s, in) == [cookies |-> s, in |-> in]
Auth(s, in)  == [cookies |-> s, in |-> in, there |-> TRUE]
NoAuth       == [cookies |-> None, in |-> FALSE, there |-> FALSE]
Idle         == [op |-> "none", at |-> "idle", s |-> None, said |-> "none"]

(* The flag the other components go by. *)
LoggedIn == IF kind = "chaturbate" THEN mem.in ELSE row.in /\ row.cookies # None

-----------------------------------------------------------------------------
(* The site's answer, and what each provider's verify_logged_in and import  *)
(* take it for.  Two of them have no third answer.                          *)
Answers(s) == {"blocked", IF s \in accepts THEN "yes" ELSE "no"}

TwitchVerdict(said)     == kind = "twitch" /\ said = "no"
YoutubeVerdict(said)    == kind = "youtube" /\ said = "no"
BilibiliVerdict(said)   == kind = "bilibili" /\ said = "no"
StripchatVerdict(said)  == kind = "stripchat" /\ said # "yes"
ChaturbateVerdict(said) == kind = "chaturbate" /\ said # "yes"

(* mutant: an exception counts as a refusal *)
AnyFailure(said) == said # "yes"

Refused(said) ==
  \/ TwitchVerdict(said)
  \/ YoutubeVerdict(said)
  \/ BilibiliVerdict(said)
  \/ StripchatVerdict(said)
  \/ ChaturbateVerdict(said)

Step(i, flow) == flows' = [flows EXCEPT ![i] = flow]
At(i, ops, at) == flows[i].op \in ops /\ flows[i].at = at

Begins(i) ==
  /\ flows[i] = Idle /\ calls < MaxCalls
  /\ calls' = calls + 1

-----------------------------------------------------------------------------
(* Import of a session.  A stored one is saved first, as logged in unless   *)
(* the provider is Stripchat; Chaturbate's replaces the cookies in memory.  *)

(* mutant: every provider trusts the cookies before it asked *)
TrustedByAll == TRUE

TrustedUnasked == kind # "stripchat"

ImportStored(i, s) ==
  /\ kind \in Stores
  /\ row' = Login(s, TrustedUnasked)
  /\ Step(i, [op |-> "import", at |-> "ask", s |-> s, said |-> "none"])
  /\ UNCHANGED <<kind, accepts, mem, auth, file, creds>>

ImportChaturbate(i, s) ==
  /\ kind = "chaturbate"
  /\ mem' = [mem EXCEPT !.cookies = s]
  /\ Step(i, [op |-> "import", at |-> "ask", s |-> s, said |-> "none"])
  /\ UNCHANGED <<kind, accepts, auth, file, row, creds>>

UserImports(i, s) ==
  /\ Begins(i) /\ UNCHANGED cmd
  /\ ImportStored(i, s) \/ ImportChaturbate(i, s)

(* The same through the helper: a command with an entry for its result, the *)
(* cookies of a Chrome profile that has all that the site needs, or an      *)
(* error when there is none, and a report that counts while the entry is    *)
(* there.                                                                   *)
QueueImport ==
  /\ cmd.at = "idle" /\ calls < MaxCalls
  /\ cmd' = [at |-> "queued", s |-> None] /\ calls' = calls + 1
  /\ UNCHANGED <<kind, accepts, mem, auth, file, row, creds, flows>>

HelperReads ==
  /\ cmd.at = "queued"
  /\ \E s \in Sessions \cup {None} : cmd' = [at |-> "read", s |-> s]
  /\ UNCHANGED <<kind, accepts, mem, auth, file, row, creds, flows, calls>>

HelperReports(i) ==
  /\ cmd.at = "read" /\ cmd.s # None /\ flows[i] = Idle
  /\ cmd' = [at |-> "done", s |-> None]
  /\ ImportStored(i, cmd.s) \/ ImportChaturbate(i, cmd.s)
  /\ UNCHANGED calls

ImportExpires ==
  /\ cmd.at # "idle"
  /\ cmd' = [at |-> "idle", s |-> None]
  /\ UNCHANGED <<kind, accepts, mem, auth, file, row, creds, flows, calls>>

(* Whoever asks, asks with the cookies that are saved at that moment. *)
Saved == IF kind = "chaturbate" THEN mem.cookies ELSE row.cookies

Ask(i) ==
  /\ flows[i].at = "ask"
  /\ \E said \in Answers(Saved) : Step(i, [flows[i] EXCEPT !.said = said, !.at = "told"])
  /\ UNCHANGED <<kind, accepts, mem, auth, file, row, creds, calls, cmd>>

(* A store that could not ask leaves the row as it was saved first. *)
ImportTold(i) ==
  /\ At(i, {"import"}, "told") /\ kind \in Stores
  /\ row' = IF Refused(flows[i].said) THEN Login(flows[i].s, FALSE)
            ELSE IF flows[i].said = "yes" THEN Login(flows[i].s, TRUE)
            ELSE row
  /\ Step(i, Idle)
  /\ UNCHANGED <<kind, accepts, mem, auth, file, creds, calls, cmd>>

ImportMarked(i) ==
  /\ At(i, {"import"}, "told") /\ kind = "chaturbate"
  /\ mem' = [mem EXCEPT !.in = ~Refused(flows[i].said)]
  /\ Step(i, [flows[i] EXCEPT !.at = "auth"])
  /\ UNCHANGED <<kind, accepts, auth, file, row, creds, calls, cmd>>

ImportAuth(i) ==
  /\ At(i, {"import"}, "auth")
  /\ auth' = Auth(flows[i].s, ~Refused(flows[i].said))
  /\ Step(i, [flows[i] EXCEPT !.at = "row"])
  /\ UNCHANGED <<kind, accepts, mem, file, row, creds, calls, cmd>>

ImportRow(i) ==
  /\ At(i, {"import"}, "row")
  /\ row' = Login(flows[i].s, ~Refused(flows[i].said))
  /\ Step(i, Idle)
  /\ UNCHANGED <<kind, accepts, mem, auth, file, creds, calls, cmd>>

-----------------------------------------------------------------------------
(* The check of a saved session, and what it writes: with the row as it is  *)
(* read after the answer.                                                   *)

VerifyBegins(i) ==
  /\ Begins(i) /\ Saved # None
  /\ Step(i, [op |-> "verify", at |-> "ask", s |-> Saved, said |-> "none"])
  /\ UNCHANGED <<kind, accepts, mem, auth, file, row, creds, cmd>>

VerifyTold(i) ==
  /\ At(i, {"verify"}, "told") /\ kind \in Stores
  /\ Step(i, IF flows[i].said = "blocked" /\ ~Refused("blocked") THEN Idle
             ELSE [flows[i] EXCEPT !.at = "load"])
  /\ UNCHANGED <<kind, accepts, mem, auth, file, row, creds, calls, cmd>>

(* Chaturbate's own check marks the memory and saves a refusal at once. *)
VerifyMarked(i) ==
  /\ At(i, {"verify"}, "told") /\ kind = "chaturbate"
  /\ mem' = [mem EXCEPT !.in = ~Refused(flows[i].said)]
  /\ Step(i, [flows[i] EXCEPT !.at = IF Refused(flows[i].said) THEN "auth" ELSE "load"])
  /\ UNCHANGED <<kind, accepts, auth, file, row, creds, calls, cmd>>

VerifyAuth(i) ==
  /\ At(i, {"verify", "invalidate"}, "auth")
  /\ auth' = Auth(flows[i].s, FALSE)
  /\ Step(i, [flows[i] EXCEPT !.at = "load"])
  /\ UNCHANGED <<kind, accepts, mem, file, row, creds, calls, cmd>>

Loaded(i) ==
  IF kind = "chaturbate" /\ row.cookies = None /\ Refused(flows[i].said) /\ flows[i].op = "verify"
  THEN flows[i].s ELSE row.cookies

Load(i) ==
  /\ At(i, {"verify", "invalidate"}, "load")
  /\ Step(i, IF ~Refused(flows[i].said) /\ (row.in \/ row.cookies = None) THEN Idle
             ELSE [flows[i] EXCEPT !.at = "save", !.s = Loaded(i)])
  /\ UNCHANGED <<kind, accepts, mem, auth, file, row, creds, calls, cmd>>

Save(i) ==
  /\ At(i, {"verify", "invalidate"}, "save")
  /\ row' = Login(flows[i].s, ~Refused(flows[i].said))
  /\ Step(i, Idle)
  /\ UNCHANGED <<kind, accepts, mem, auth, file, creds, calls, cmd>>

(* A synchronisation or a follow was refused: the login is marked as gone. *)
InvalidateBegins(i) ==
  /\ Begins(i) /\ Saved # None
  /\ \E said \in {a \in Answers(Saved) : Refused(a)} :
       Step(i, [op |-> "invalidate", at |-> "told", s |-> None, said |-> said])
  /\ kind = "chaturbate" => ~mem.in
  /\ UNCHANGED <<kind, accepts, mem, auth, file, row, creds, cmd>>

InvalidateTold(i) ==
  /\ At(i, {"invalidate"}, "told")
  /\ IF kind = "chaturbate"
     THEN /\ mem' = [mem EXCEPT !.in = FALSE]
          /\ Step(i, [flows[i] EXCEPT !.at = "auth", !.s = mem.cookies])
     ELSE /\ Step(i, [flows[i] EXCEPT !.at = "load"])
          /\ UNCHANGED mem
  /\ UNCHANGED <<kind, accepts, auth, file, row, creds, calls, cmd>>

-----------------------------------------------------------------------------
(* A login with a password, new or saved; one at a time for Chaturbate.     *)

LoginBegins(i) ==
  /\ Begins(i) /\ kind \in {"chaturbate", "stripchat"}
  /\ kind = "chaturbate" => \A j \in Requests : flows[j].op # "login"
  /\ Step(i, [op |-> "login", at |-> "post", s |-> None, said |-> "none"])
  /\ creds' = TRUE
  /\ UNCHANGED <<kind, accepts, mem, auth, file, row, cmd>>

(* The failure of a Stripchat login is saved without cookies. *)
LoginStripchat(i) ==
  /\ At(i, {"login"}, "post") /\ kind = "stripchat"
  /\ \/ row' = Login(None, FALSE)
     \/ \E s \in accepts : row' = Login(s, TRUE)
  /\ Step(i, Idle)
  /\ UNCHANGED <<kind, accepts, mem, auth, file, creds, calls, cmd>>

LoginFails(i) ==
  /\ At(i, {"login"}, "post") /\ kind = "chaturbate"
  /\ auth' = Auth(auth.cookies, FALSE)
  /\ Step(i, Idle)
  /\ UNCHANGED <<kind, accepts, mem, file, row, creds, calls, cmd>>

(* A session was issued, and is checked before it counts. *)
LoginIssued(i) ==
  /\ At(i, {"login"}, "post") /\ kind = "chaturbate"
  /\ \E s \in Sessions : mem' = Login(s, FALSE)
  /\ Step(i, [flows[i] EXCEPT !.at = "ask"])
  /\ UNCHANGED <<kind, accepts, auth, file, row, creds, calls, cmd>>

LoginChecked(i) ==
  /\ At(i, {"login"}, "told")
  /\ mem' = IF Refused(flows[i].said) THEN [mem EXCEPT !.cookies = None]
                                      ELSE [mem EXCEPT !.in = TRUE]
  /\ Step(i, [flows[i] EXCEPT !.at = "auth"])
  /\ UNCHANGED <<kind, accepts, auth, file, row, creds, calls, cmd>>

LoginSaved(i) ==
  /\ At(i, {"login"}, "auth")
  /\ IF Refused(flows[i].said)
     THEN auth' = Auth(auth.cookies, FALSE) /\ UNCHANGED file
     ELSE auth' = Auth(mem.cookies, TRUE) /\ file' = mem.cookies
  /\ Step(i, Idle)
  /\ UNCHANGED <<kind, accepts, mem, row, creds, calls, cmd>>

-----------------------------------------------------------------------------
(* Logout, one write at a time for Chaturbate, whose copy in the other      *)
(* table stays.                                                             *)

LogoutStored(i) ==
  /\ Begins(i) /\ kind \in Stores
  /\ row' = Login(None, FALSE) /\ creds' = FALSE
  /\ UNCHANGED <<kind, accepts, mem, auth, file, flows, cmd>>

LogoutChaturbate(i) ==
  /\ Begins(i) /\ kind = "chaturbate"
  /\ mem' = Login(None, FALSE)
  /\ Step(i, [op |-> "logout", at |-> "auth", s |-> None, said |-> "none"])
  /\ UNCHANGED <<kind, accepts, auth, file, row, creds, cmd>>

LogoutCleared(i) ==
  /\ At(i, {"logout"}, "auth")
  /\ auth' = NoAuth /\ file' = None
  /\ Step(i, Idle)
  /\ UNCHANGED <<kind, accepts, mem, row, creds, calls, cmd>>

-----------------------------------------------------------------------------
(* A restart: ChaturbateAuthService.initialize reads the saved cookies and  *)
(* asks about them; only a redirect to the login page ends the login.       *)

BootCookies == IF auth.cookies # None THEN auth.cookies ELSE IF auth.there THEN file ELSE None

BootKeeps(said) == said # "no"

Restart ==
  /\ flows' = [i \in Requests |-> Idle] /\ cmd' = [at |-> "idle", s |-> None]
  /\ IF auth.in /\ BootCookies # None
     THEN \E said \in Answers(BootCookies) :
            /\ mem' = Login(BootCookies, BootKeeps(said))
            /\ auth' = IF BootKeeps(said) THEN auth ELSE Auth(BootCookies, FALSE)
     ELSE mem' = Login(BootCookies, FALSE) /\ UNCHANGED auth
  /\ UNCHANGED <<kind, accepts, file, row, creds, calls>>

SessionEnds(s) ==
  /\ s \in accepts /\ calls < MaxCalls
  /\ accepts' = accepts \ {s}
  /\ calls' = calls + 1
  /\ UNCHANGED <<kind, mem, auth, file, row, creds, flows, cmd>>

-----------------------------------------------------------------------------
Init ==
  /\ kind \in Kinds
  /\ accepts \in SUBSET Sessions
  /\ \E s \in Sessions :
       IF kind = "chaturbate"
       THEN mem = Login(s, TRUE) /\ auth = Auth(s, TRUE) /\ row = Login(s, TRUE) /\ file = None
       ELSE mem = Login(None, FALSE) /\ auth = NoAuth /\ row = Login(s, TRUE) /\ file = None
  /\ creds = FALSE
  /\ flows = [i \in Requests |-> Idle] /\ cmd = [at |-> "idle", s |-> None]
  /\ calls = 0

Next ==
  \/ \E i \in Requests, s \in Sessions : UserImports(i, s)
  \/ QueueImport
  \/ HelperReads
  \/ \E i \in Requests : HelperReports(i)
  \/ ImportExpires
  \/ \E i \in Requests : Ask(i)
  \/ \E i \in Requests : ImportTold(i)
  \/ \E i \in Requests : ImportMarked(i)
  \/ \E i \in Requests : ImportAuth(i)
  \/ \E i \in Requests : ImportRow(i)
  \/ \E i \in Requests : VerifyBegins(i)
  \/ \E i \in Requests : VerifyTold(i)
  \/ \E i \in Requests : VerifyMarked(i)
  \/ \E i \in Requests : VerifyAuth(i)
  \/ \E i \in Requests : Load(i)
  \/ \E i \in Requests : Save(i)
  \/ \E i \in Requests : InvalidateBegins(i)
  \/ \E i \in Requests : InvalidateTold(i)
  \/ \E i \in Requests : LoginBegins(i)
  \/ \E i \in Requests : LoginStripchat(i)
  \/ \E i \in Requests : LoginFails(i)
  \/ \E i \in Requests : LoginIssued(i)
  \/ \E i \in Requests : LoginChecked(i)
  \/ \E i \in Requests : LoginSaved(i)
  \/ \E i \in Requests : LogoutStored(i)
  \/ \E i \in Requests : LogoutChaturbate(i)
  \/ \E i \in Requests : LogoutCleared(i)
  \/ Restart
  \/ \E s \in Sessions : SessionEnds(s)

Spec == Init /\ [][Next]_vars

-----------------------------------------------------------------------------
(* Properties. *)

TypeOK ==
  /\ kind \in Kinds /\ accepts \subseteq Sessions
  /\ \A login \in {mem, auth, row} :
       login.cookies \in Sessions \cup {None} /\ login.in \in BOOLEAN
  /\ file \in Sessions \cup {None} /\ creds \in BOOLEAN

(* The step of a check or of an invalidation. *)
Checks(i) == flows[i].op \in {"verify", "invalidate"} /\ flows'[i] # flows[i]

(* A check or an invalidation turns the login off only after the site       *)
(* refused a session, and a restart turns a saved login off only when the   *)
(* site refuses it: a site that cannot be reached logs nobody out.          *)
RefusedOnly ==
  LoggedIn /\ ~LoggedIn' =>
    IF Restart THEN auth.in => BootCookies \notin accepts
    ELSE \A i \in Requests : Checks(i) => flows[i].said = "no"

(* So it is with the providers whose answer may also be that nobody could   *)
(* be asked, and at every restart.                                          *)
OnlyRefusalLogsOut ==
  [][(kind \in {"twitch", "youtube", "bilibili"} \/ Restart) => RefusedOnly]_vars

(* A redirect with a session is not a login, and neither are the cookies of *)
(* a browser: Chaturbate and Stripchat count as logged in only from the     *)
(* moment the site said so, or at a restart that finds a login that did.    *)
OnlyAnswerLogsIn ==
  [][(kind \in {"chaturbate", "stripchat"} /\ ~LoggedIn /\ LoggedIn') =>
       \/ \E i \in Requests : flows'[i] # flows[i] /\ flows[i].said = "yes"
       \/ \E i \in Requests : LoginStripchat(i)
       \/ (Restart /\ auth.in)]_vars
=============================================================================
