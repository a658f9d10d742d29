----------------------------- MODULE AutoRecord -----------------------------
(***************************************************************************)
(* What is recorded of one streamer card, and for how long: the Auto       *)
(* Record task of src/app/main.py, the monthly quota it enforces, and the  *)
(* handlers that say what the user wants.  The wish is kept in two tables, *)
(* the card's stream sources and the models, which the handlers write one  *)
(* after the other; the task reads both, and the captures, at different    *)
(* awaits of a pass, and acts on what it read.                             *)
(*                                                                         *)
(* A capture has a key and a person.  The task's keys are a person and a   *)
(* channel: the card's name for a source, the channel's own for a model; a *)
(* capture started by hand has its person's name for a key.  What was      *)
(* captured counts for its person: live while it runs, and again when its  *)
(* recording has a row; in between it does not.                            *)
(*                                                                         *)
(* The master switch and the storage gates in front of the task are        *)
(* StoragePolicy's.  Quality, retention and path of a source are left out. *)
(***************************************************************************)
EXTENDS Naturals, FiniteSets, FiniteSetsExt

CONSTANTS
  Channel,  \* channels the card may have as sources
  Card,     \* the card's name, which is one of its channels'
  Default,  \* default_monthly_quota_gb, in the units a capture grows by; 0 is unlimited
  Cap,      \* bounds what is counted
  MaxOps,   \* bounds handlers' calls, failures of a provider, restarts and new cycles
  None

ASSUME AutoRecordAssumption ==
  /\ Card \in Channel /\ None \notin Channel
  /\ Cap \in Nat /\ Default \in 0 .. Cap /\ MaxOps \in Nat

Person == Channel
JobKey == {k \in Person \X Channel : k[1] \in {Card, k[2]}}
Key == JobKey \cup {<<p, None>> : p \in Person}
KeysOf(p) == {k \in Key : k[1] = p}

Quota == {None, 0}

VARIABLES
  onAir,           \* channels that broadcast
  source, model,   \* media_profile_sources of the card, models: auto_record and quota
  session,         \* bytes of the capture that runs under a key, or None
  unfiled, filed,  \* bytes of each person's closed recordings without a row, with one
  cooldown,        \* failure_cooldowns
  pass, call,      \* the task, and a handler
  ops,
  off              \* channels turned off since, by a call no pass overlapped

vars == <<onAir, source, model, session, unfiled, filed, cooldown, pass, call, ops, off>>
wish == <<source, model>>
bytes == <<unfiled, filed>>

Wish == [auto : BOOLEAN, quota : Quota]
ASSUME NoneAssumption == None \notin Wish
Job == [key : JobKey, quota : Quota]

PassIdle == [pc |-> "idle", people |-> {}, usage |-> [p \in Person |-> 0],
             sources |-> {}, jobs |-> {}, active |-> {}, job |-> None]
Nothing == [c \in Channel |-> None]
CallIdle == [pc |-> "idle", who |-> None, chosen |-> None, only |-> FALSE,
             saved |-> Nothing, off |-> {}, stop |-> {}, clean |-> FALSE]

TypeOK ==
  /\ onAir \subseteq Channel /\ off \subseteq Channel
  /\ source \in [Channel -> Wish \cup {None}] /\ model \in [Channel -> Wish \cup {None}]
  /\ session \in [Key -> 0 .. Cap \cup {None}]
  /\ unfiled \in [Person -> 0 .. Cap] /\ filed \in [Person -> 0 .. Cap]
  /\ cooldown \subseteq JobKey
  /\ pass.people \subseteq Person /\ pass.active \subseteq Key
  /\ pass.sources \cup pass.jobs \subseteq Job /\ pass.job \in JobKey \cup {None}
  /\ call.saved \in [Channel -> Wish \cup {None}]
  /\ call.off \subseteq Channel /\ call.stop \subseteq Key
  /\ ops \in 0 .. MaxOps

Init ==
  /\ onAir = {}
  /\ source = Nothing /\ model = Nothing
  /\ session = [k \in Key |-> None]
  /\ unfiled = [p \in Person |-> 0] /\ filed = [p \in Person |-> 0]
  /\ cooldown = {}
  /\ pass = PassIdle /\ call = CallIdle
  /\ ops = 0 /\ off = {}

Op == ops < MaxOps /\ ops' = ops + 1

-----------------------------------------------------------------------------
(* Captures and what they count for. *)

Running == {k \in Key : session[k] # None}
Sources == {c \in Channel : source[c] # None}
Capped(n) == IF n > Cap THEN Cap ELSE n

\* _recording_usage_bytes_map, with what runs included.
Usage(p) == Capped(filed[p] + MapThenSumSet(LAMBDA k : session[k], KeysOf(p) \cap Running))

\* is_quota_exceeded of the stored quota, or of the default without one.
Exceeds(used, quota) ==
  LET limit == IF quota = None THEN Default ELSE quota
  IN limit > 0 /\ used >= limit

\* The quota of a person: of the first of the card's sources, else of the model.
PersonQuota(p) ==
  IF p = Card /\ Sources # {} THEN source[CHOOSE c \in Sources : TRUE].quota
  ELSE IF model[p] # None THEN model[p].quota
  ELSE None

\* A capture that ends leaves bytes that have no row yet, and no session by its id.
Gone(S) == call' = [call EXCEPT !.stop = @ \ S]
Stopped(S) ==
  /\ session' = [k \in Key |-> IF k \in S THEN None ELSE session[k]]
  /\ unfiled' = [p \in Person |->
                   Capped(unfiled[p]
                          + MapThenSumSet(LAMBDA k : session[k], KeysOf(p) \cap S \cap Running))]

File(p) ==
  /\ filed' = [filed EXCEPT ![p] = Capped(@ + unfiled[p])]
  /\ unfiled' = [unfiled EXCEPT ![p] = 0]

Others == <<onAir, wish, cooldown, pass, call, off>>

Grow(k) ==
  /\ k \in Running /\ session[k] < Cap
  /\ session' = [session EXCEPT ![k] = @ + 1]
  /\ UNCHANGED <<bytes, ops, Others>>

\* ffmpeg exits by itself, or the watchdog stops it.
End(k) ==
  /\ k \in Running
  /\ Stopped({k}) /\ Gone({k})
  /\ UNCHANGED <<onAir, wish, filed, cooldown, pass, ops, off>>

\* The file has been promoted and the monitor's pass writes its row.
Index(p) ==
  /\ unfiled[p] > 0
  /\ File(p)
  /\ UNCHANGED <<session, ops, Others>>

Flip(c) ==
  /\ onAir' = IF c \in onAir THEN onAir \ {c} ELSE onAir \cup {c}
  /\ UNCHANGED <<wish, session, bytes, cooldown, pass, call, ops, off>>

CooldownEnds(k) ==
  /\ k \in cooldown
  /\ cooldown' = cooldown \ {k}
  /\ UNCHANGED <<onAir, wish, session, bytes, pass, call, ops, off>>

\* quota_cycle_bounds: recordings of the cycle before no longer count.
NewCycle ==
  /\ Op
  /\ filed' = [p \in Person |-> 0] /\ unfiled' = [p \in Person |-> 0]
  /\ UNCHANGED <<session, Others>>

-----------------------------------------------------------------------------
(* auto_record_task *)

PassOthers == <<onAir, wish, filed, call, ops, off>>
PassTo(pc) == pass' = [pass EXCEPT !.pc = pc]

\* A call that a pass overlaps may be undone by it.
PassBegin ==
  /\ pass.pc = "idle"
  /\ pass' = [pass EXCEPT !.pc = "enforce", !.people = {p \in Person : KeysOf(p) \cap Running # {}}]
  /\ call' = [call EXCEPT !.clean = FALSE]
  /\ UNCHANGED <<onAir, wish, session, bytes, cooldown, ops, off>>

\* _enforce_quota_on_running_sessions: the usage is read, then the quotas, then every
\* capture of a person over the limit is stopped, and not indexed.
EnforceUsage ==
  /\ pass.pc = "enforce"
  /\ pass' = [pass EXCEPT !.pc = "stop", !.usage = [p \in Person |-> Usage(p)]]
  /\ UNCHANGED <<session, unfiled, cooldown, PassOthers>>

StrictlyOver ==  \* mutant
  {p \in pass.people : pass.usage[p] > 0 /\ Exceeds(pass.usage[p] - 1, PersonQuota(p))}
OverQuota == {p \in pass.people : Exceeds(pass.usage[p], PersonQuota(p))}

EnforceStop ==
  /\ pass.pc = "stop"
  /\ LET over == UNION {KeysOf(p) : p \in OverQuota} IN Stopped(over) /\ Gone(over)
  /\ pass' = [PassIdle EXCEPT !.pc = "sources"]
  /\ UNCHANGED <<onAir, wish, filed, cooldown, ops, off>>

ReadSources ==
  /\ pass.pc = "sources"
  /\ pass' = [pass EXCEPT !.pc = "models",
                !.sources = {[key |-> <<Card, c>>, quota |-> source[c].quota] :
                               c \in {d \in Sources : source[d].auto}}]
  /\ UNCHANGED <<session, unfiled, cooldown, PassOthers>>

\* A model whose channel is a source of a card that is on is left to the source.
ReadModels ==
  /\ pass.pc = "models"
  /\ LET taken == {j.key[2] : j \in pass.sources}
         own == {[key |-> <<c, c>>, quota |-> model[c].quota] :
                   c \in {d \in Channel \ taken : model[d] # None /\ model[d].auto}}
     IN pass' = [pass EXCEPT !.pc = "usage", !.sources = {}, !.jobs = pass.sources \cup own]
  /\ UNCHANGED <<session, unfiled, cooldown, PassOthers>>

\* Usage and captures are read once for all jobs of the pass.
ReadUsage ==
  /\ pass.pc = "usage"
  /\ pass' = [pass EXCEPT !.pc = "jobs", !.usage = [p \in Person |-> Usage(p)],
                          !.active = Running]
  /\ UNCHANGED <<session, unfiled, cooldown, PassOthers>>

SkipsBusyPerson(j) ==  \* mutant
  j.key \in cooldown \/ Exceeds(pass.usage[j.key[1]], j.quota)
  \/ KeysOf(j.key[1]) \cap pass.active # {}
Skips(j) ==
  j.key \in cooldown \/ Exceeds(pass.usage[j.key[1]], j.quota) \/ j.key \in pass.active

TakeJob(j) ==
  /\ pass.pc = "jobs" /\ j \in pass.jobs
  /\ pass' = [pass EXCEPT !.jobs = @ \ {j},
                          !.pc = IF Skips(j) THEN "jobs" ELSE "resolve",
                          !.job = IF Skips(j) THEN None ELSE j.key]
  /\ UNCHANGED <<session, unfiled, cooldown, PassOthers>>

\* The cached status or the provider says whether the channel is on the air, and the
\* provider resolves its stream; a provider may fail at either.
Cooling(k) == cooldown' = cooldown \cup {k}
NextJob == pass' = [pass EXCEPT !.pc = "jobs", !.job = None]

Resolve ==
  /\ pass.pc = "resolve"
  /\ pass.job[2] \in onAir
  /\ PassTo("start")
  /\ UNCHANGED <<session, unfiled, cooldown, PassOthers>>

FailToResolve ==
  /\ pass.pc = "resolve"
  /\ IF pass.job[2] \in onAir THEN Op ELSE UNCHANGED ops
  /\ NextJob
  /\ Cooling(pass.job) \/ UNCHANGED cooldown
  /\ UNCHANGED <<onAir, wish, session, bytes, call, off>>

\* start_session refuses a key that runs.
StartJob ==
  /\ pass.pc = "start"
  /\ LET k == pass.job
     IN IF k \in Running
        THEN Cooling(k) /\ NextJob /\ UNCHANGED session
        ELSE /\ session' = [session EXCEPT ![k] = 0]
             /\ cooldown' = cooldown \ {k}
             /\ pass' = [pass EXCEPT !.pc = "jobs", !.job = None, !.active = Running \cup {k}]
  /\ UNCHANGED <<unfiled, PassOthers>>

PassEnd ==
  /\ pass.pc = "jobs" /\ pass.jobs = {}
  /\ pass' = PassIdle
  /\ UNCHANGED <<session, unfiled, cooldown, PassOthers>>

PassStep ==
  \/ PassBegin \/ EnforceUsage \/ EnforceStop \/ ReadSources \/ ReadModels \/ ReadUsage
  \/ (\E j \in pass.jobs : TakeJob(j))
  \/ Resolve \/ FailToResolve \/ StartJob \/ PassEnd

-----------------------------------------------------------------------------
(* The handlers.  One of those with several steps is underway at a time. *)

CallOthers == <<onAir, cooldown, pass>>
Calls == call.pc = "idle" /\ Op
CallTo(pc) == call' = [call EXCEPT !.pc = pc]

\* The columns a handler does not give are written with what its caller defaults to:
\* most handlers take the quota away.
Inheriting(auto) == [auto |-> auto, quota |-> None]

TurnedOn(f) == {c \in Channel : f[c] # None /\ f[c].auto}

\* The models of the sources that were saved follow, one by one.
ThenModels(saved) ==
  call' = [CallIdle EXCEPT !.pc = "models", !.saved = saved]

\* add_or_update_model of the next saved source.
AsItWas(c) == IF model[c] = None THEN call.saved[c] ELSE model[c]  \* mutant
Wished(c) == call.saved[c]

WriteModel(c) ==
  /\ call.pc = "models" /\ call.saved[c] # None
  /\ model' = [model EXCEPT ![c] = Wished(c)]
  /\ call' = [call EXCEPT !.saved[c] = None]
  /\ UNCHANGED <<source, session, bytes, ops, off, CallOthers>>

\* toggle_media_profile_auto_record, on: a source is made sure of, switched off and with
\* default settings, and then switched on; with a source given the others go off.
ToggleOn(c, only) ==
  /\ Calls
  /\ ~ only => c = IF Sources = {} THEN Card ELSE CHOOSE d \in Sources : TRUE
  /\ source' = [d \in Channel |->
                  IF d = c \/ (d = Card /\ source[d] = None) THEN Inheriting(FALSE)
                  ELSE source[d]]
  /\ call' = [CallIdle EXCEPT !.pc = "switch", !.chosen = c, !.only = only]
  /\ UNCHANGED <<model, session, bytes, off, CallOthers>>

Switched(d) == IF source[d] = None THEN None
               ELSE [source[d] EXCEPT !.auto = call.only => d = call.chosen]

SwitchOn ==
  /\ call.pc = "switch"
  /\ source' = [d \in Channel |-> Switched(d)]
  /\ off' = off \ TurnedOn(source')
  /\ ThenModels([d \in Channel |-> IF source'[d] = None THEN None
                                    ELSE Inheriting(source'[d].auto)])
  /\ UNCHANGED <<model, session, bytes, ops, CallOthers>>

\* Off: all sources, or the one given; a card without sources has a model of its name.
ToggleOff(S) ==
  /\ Calls
  /\ source' = [d \in Channel |-> IF d \in S /\ source[d] # None
                                   THEN [source[d] EXCEPT !.auto = FALSE] ELSE source[d]]
  /\ call' = [CallIdle EXCEPT
       !.pc = "models",
       !.saved = [d \in Channel |->
                    IF source[d] # None THEN Inheriting(source'[d].auto)
                    ELSE IF Sources = {} /\ d = Card /\ model[d] # None THEN Inheriting(FALSE)
                    ELSE None],
       !.off = IF Sources = {} THEN {Card} ELSE S \cap Sources,
       !.who = Card,
       !.clean = pass.pc = "idle"]
  /\ UNCHANGED <<model, session, bytes, off, CallOthers>>

\* Then what runs for the card is listed, stopped and indexed one after the other.
ListCaptures ==
  /\ call.pc = "models" /\ call.saved = Nothing
  /\ call' = IF call.off = {} THEN CallIdle
             ELSE [call EXCEPT !.pc = "stop", !.stop = KeysOf(Card) \cap Running]
  /\ UNCHANGED <<wish, session, bytes, ops, off, CallOthers>>

StopNext(k) ==
  /\ call.pc = "stop" /\ k \in call.stop
  /\ Stopped({k})
  /\ call' = [call EXCEPT !.pc = "index", !.stop = @ \ {k}]
  /\ UNCHANGED <<wish, filed, ops, off, CallOthers>>

IndexNext ==
  /\ call.pc = "index"
  /\ File(call.who)
  /\ CallTo("stop")
  /\ UNCHANGED <<wish, session, ops, off, CallOthers>>

Answer ==
  /\ call.pc = "stop" /\ call.stop = {}
  /\ off' = IF call.clean THEN off \cup call.off ELSE off
  /\ call' = CallIdle
  /\ UNCHANGED <<wish, session, bytes, ops, CallOthers>>

\* update_media_profile: the sources are replaced, and the models of the new ones written;
\* that of a source taken away stays as it is.
UpdateProfile(f) ==
  /\ Calls
  /\ source' = f
  /\ off' = off \ TurnedOn(f)
  /\ ThenModels(f)
  /\ UNCHANGED <<model, session, bytes, CallOthers>>

LinkLive(c, auto) ==
  /\ Calls
  /\ source' = [source EXCEPT ![c] = Inheriting(auto)]
  /\ off' = off \ TurnedOn(source')
  /\ ThenModels([Nothing EXCEPT ![c] = Inheriting(auto)])
  /\ UNCHANGED <<model, session, bytes, CallOthers>>

\* The model handlers know nothing of the card's sources.
SaveModel(c, auto) ==
  /\ Op
  /\ model' = [model EXCEPT ![c] = Inheriting(auto)]
  /\ off' = IF auto THEN off \ {c} ELSE off
  /\ call' = IF auto THEN [call EXCEPT !.clean = FALSE] ELSE call
  /\ UNCHANGED <<source, session, bytes, CallOthers>>

DeleteModel(c) ==
  /\ Op /\ model[c] # None
  /\ model' = [model EXCEPT ![c] = None]
  /\ UNCHANGED <<source, session, bytes, call, off, CallOthers>>

\* A profile nothing of which is recorded is deleted: rows, models, sources, files.
DeleteProfile ==
  /\ Calls
  /\ KeysOf(Card) \cap Running = {}
  /\ filed' = [filed EXCEPT ![Card] = 0]
  /\ model' = [model EXCEPT ![Card] = None]
  /\ call' = [CallIdle EXCEPT !.pc = "forget", !.saved = source]
  /\ UNCHANGED <<source, session, unfiled, off, CallOthers>>

ForgetModel(c) ==
  /\ call.pc = "forget" /\ call.saved[c] # None
  /\ model' = [model EXCEPT ![c] = None]
  /\ call' = [call EXCEPT !.saved[c] = None]
  /\ UNCHANGED <<source, session, bytes, ops, off, CallOthers>>

ForgetSources ==
  /\ call.pc = "forget" /\ call.saved = Nothing
  /\ source' = Nothing
  /\ unfiled' = [unfiled EXCEPT ![Card] = 0]
  /\ call' = CallIdle
  /\ UNCHANGED <<model, session, filed, ops, off, CallOthers>>

\* api_start for a person: the quota of the model, else of the card's first source, is
\* checked, then the stream resolved and the session started.
StartQuota(p) == IF model[p] # None THEN model[p].quota ELSE PersonQuota(p)

ManualStart(p) ==
  /\ Calls
  /\ ~ Exceeds(Usage(p), StartQuota(p))
  /\ call' = [CallIdle EXCEPT !.pc = "start", !.who = p]
  /\ UNCHANGED <<wish, session, bytes, off, CallOthers>>

ManualStarted ==
  /\ call.pc = "start"
  /\ session' = IF <<call.who, None>> \in Running THEN session
                ELSE [session EXCEPT ![<<call.who, None>>] = 0]
  /\ call' = CallIdle
  /\ UNCHANGED <<wish, bytes, ops, off, CallOthers>>

\* api_stop: the capture is stopped, and indexed.
ManualStop(k) ==
  /\ Calls /\ k \in Running
  /\ Stopped({k})
  /\ call' = [CallIdle EXCEPT !.pc = "index", !.who = k[1]]
  /\ UNCHANGED <<wish, filed, off, CallOthers>>

Restart ==
  /\ Op
  /\ Stopped(Key)
  /\ cooldown' = {} /\ pass' = PassIdle /\ call' = CallIdle
  /\ UNCHANGED <<onAir, wish, filed, off>>

CallBegins ==
  \/ \E c \in Channel, b \in BOOLEAN : ToggleOn(c, b) \/ LinkLive(c, b) \/ SaveModel(c, b)
  \/ \E S \in {Channel} \cup {{c} : c \in Channel} : ToggleOff(S)
  \/ \E f \in [Channel -> Wish \cup {None}] : UpdateProfile(f)
  \/ \E c \in Channel : DeleteModel(c) \/ ManualStart(c)
  \/ \E k \in Key : ManualStop(k)
  \/ DeleteProfile

CallStep ==
  \/ \E c \in Channel : WriteModel(c) \/ ForgetModel(c)
  \/ SwitchOn \/ ListCaptures \/ (\E k \in Key : StopNext(k)) \/ IndexNext \/ Answer
  \/ ForgetSources \/ ManualStarted

Next ==
  \/ PassStep \/ CallBegins \/ CallStep
  \/ (\E k \in Key : Grow(k) \/ End(k))
  \/ (\E c \in Channel : Index(c) \/ Flip(c))
  \/ (\E k \in JobKey : CooldownEnds(k))
  \/ NewCycle \/ Restart

Spec == Init /\ [][Next]_vars

\* The task loops for ever, a call that was accepted goes on, and a cooldown is a time.
FairSpec ==
  /\ Spec
  /\ WF_vars(PassStep) /\ WF_vars(CallStep)
  /\ \A k \in JobKey : WF_vars(CooldownEnds(k))

-----------------------------------------------------------------------------
\* A channel that was turned off, by a call that no pass overlapped, is not recorded for
\* the card until somebody turns it on again, in whichever of the two tables: both have
\* been written, and what ran has been stopped.
OffMeansOff == \A c \in off : <<Card, c>> \notin Running

Over(p) == KeysOf(p) \cap Running # {} /\ Exceeds(Usage(p), PersonQuota(p))

\* What runs over its person's quota is stopped, whoever started it.
OverQuotaIsStopped == \A p \in Person : []<>(~ Over(p))

Wanted(c) ==
  /\ c \in onAir
  /\ source[c] # None /\ source[c].auto
  /\ ~ Exceeds(Usage(Card), source[c].quota) /\ ~ Exceeds(Usage(Card), PersonQuota(Card))

\* A source that stays on, of a channel that stays on the air and within the quota, is
\* recorded again and again: no cooldown, no capture that died and no stale list of
\* captures keeps the task from it for good.
WantedIsRecorded ==
  \A c \in Channel : <>[]Wanted(c) => []<>(<<Card, c>> \in Running)

Captured(p) ==
  filed[p] + unfiled[p] + MapThenSumSet(LAMBDA k : session[k], KeysOf(p) \cap Running)

\* "recording resumes automatically next cycle or when the quota is raised": the task
\* starts no capture of a person whose quota is used up.  It does: the pass that stops a
\* capture over the quota reads the usage again before the recording has a row.
StartsWithinQuota ==
  [][\A k \in JobKey :
       session[k] = None /\ session'[k] # None
         => ~ Exceeds(Captured(k[1]), PersonQuota(k[1]))]_vars
=============================================================================
