--------------------------- MODULE AutoRecordProofs ---------------------------
(***************************************************************************)
(* Off means off: proved for any number of channels, of calls of the user, *)
(* of passes and of restarts, whatever the quotas.  Then, of the storage   *)
(* policy, that gates stop captures and how the staging gate is released.  *)
(***************************************************************************)
EXTENDS MCAutoStorage, TLAPS

Wishes == [Channel -> Wish \cup {None}]
IsOn(w) == w # None /\ w.auto

PassShape == pass = [pc |-> pass.pc, people |-> pass.people, usage |-> pass.usage,
                     sources |-> pass.sources, jobs |-> pass.jobs, active |-> pass.active,
                     job |-> pass.job]
CallShape == call = [pc |-> call.pc, who |-> call.who, chosen |-> call.chosen, only |-> call.only,
                     saved |-> call.saved, off |-> call.off, stop |-> call.stop,
                     clean |-> call.clean]

Types ==
  /\ off \subseteq Channel /\ call.off \subseteq Channel
  /\ source \in Wishes /\ model \in Wishes /\ call.saved \in Wishes
  /\ session = [k \in Key |-> session[k]]
  /\ PassShape /\ CallShape

\* A channel that is off is on in no source, nor in what a handler is yet to write.
Unwished == \A c \in off : ~ IsOn(source[c]) /\ ~ IsOn(call.saved[c])

\* A model is recorded under the card only when it has the card's name.
ModelOff == Card \in off => ~ IsOn(model[Card])

OffKey(k) == \E c \in off : k = <<Card, c>>

\* No pass has read a job of the channel, to start it later.
NotTaken ==
  /\ \A j \in pass.sources \cup pass.jobs : ~ OffKey(j.key)
  /\ pass.pc \in {"resolve", "start"} => ~ OffKey(pass.job)
  /\ pass.pc = "idle" => pass.sources = {} /\ pass.jobs = {}

\* What a call that no pass overlaps has done on its way to the answer: its channels are off
\* in the sources; the model of the card's name is off, or the next that is written off;
\* and the captures it has listed are all there are.
CleanCall ==
  call.clean =>
    /\ call.pc \in {"models", "stop", "index"} /\ pass.pc = "idle"
    /\ \A c \in call.off : ~ IsOn(source[c]) /\ ~ IsOn(call.saved[c])
    /\ Card \in call.off => ~ IsOn(model[Card]) \/ call.saved[Card] # None
    /\ call.pc # "models" =>
         /\ call.saved = Nothing
         /\ \A c \in call.off : <<Card, c>> \in Running => <<Card, c>> \in call.stop

OInv == Types /\ Unwished /\ ModelOff /\ NotTaken /\ CleanCall /\ OffMeansOff

----------------------------------------------------------------------------
LEMMA InitOff == Init => OInv
BY DEF Init, OInv, Types, Unwished, ModelOff, NotTaken, CleanCall, OffMeansOff, PassShape,
   CallShape,
       Wishes, Wish, PassIdle, CallIdle, Nothing, Key

\* Steps that leave wishes and the task alone, and start no capture.
LEMMA CaptureSteps ==
  ASSUME OInv,
         \/ \E k \in Key : Grow(k) \/ End(k)
         \/ \E c \in Channel : Index(c) \/ Flip(c)
         \/ \E k \in JobKey : CooldownEnds(k)
         \/ NewCycle
  PROVE  OInv'
<1> USE DEF Others, wish, bytes
<1>1. UNCHANGED <<source, model, off, pass>>
  BY DEF Grow, End, Index, Flip, CooldownEnds, NewCycle
<1> DEFINE Fewer ==
      /\ session' = [k \in Key |-> session'[k]] /\ Running' \subseteq Running
      /\ \/ UNCHANGED call
         \/ \E k \in Key : call' = [call EXCEPT !.stop = @ \ {k}] /\ k \notin Running'
<1>2. Fewer
  <2>1. ASSUME NEW k \in Key, End(k) PROVE Fewer
    BY <2>1 DEF End, Stopped, Gone, Running
  <2>2. ASSUME NEW k \in Key, Grow(k) PROVE Fewer
    BY <2>2 DEF OInv, Types, Grow, Running
  <2>3. CASE UNCHANGED <<session, call>>
    BY <2>3 DEF OInv, Types, Running
  <2> QED BY <2>1, <2>2, <2>3 DEF Index, Flip, CooldownEnds, NewCycle
<1>3. /\ call'.pc = call.pc /\ call'.off = call.off /\ call'.saved = call.saved /\ call'.clean = call.clean
      /\ CallShape'
      /\ \A k \in Running' : k \in call.stop => k \in call'.stop
  BY <1>2 DEF OInv, Types, CallShape
<1>4. Types'
  BY <1>1, <1>2, <1>3 DEF OInv, Types, PassShape
<1>5. Unwished' /\ ModelOff' /\ NotTaken'
  BY <1>1, <1>3 DEF OInv, Unwished, ModelOff, NotTaken, OffKey
<1>6. CleanCall'
  BY <1>1, <1>2, <1>3 DEF OInv, CleanCall
<1>7. OffMeansOff'
  BY <1>1, <1>2 DEF OInv, OffMeansOff
<1> QED BY <1>4, <1>5, <1>6, <1>7 DEF OInv

\* The task starts what it has read: it read no job of a channel that is off, and a channel
\* is not turned off, by a call that counts, while it goes on with what it read.
LEMMA PassSteps ==
  ASSUME OInv, PassStep
  PROVE  OInv'
<1> USE DEF PassOthers, wish, bytes
<1> DEFINE SameCall ==
      /\ UNCHANGED <<source, model, off>>
      /\ CallShape' /\ call'.pc = call.pc /\ call'.off = call.off /\ call'.saved = call.saved
      /\ call'.clean \in {FALSE, call.clean}
      /\ \A k \in Running' : k \in call.stop => k \in call'.stop
    NoneStarted == /\ session' = [k \in Key |-> session'[k]]
                   /\ \A k \in Running' : OffKey(k) \/ call.clean => k \in Running
    NotTakenNext == NotTaken' /\ PassShape' /\ (call'.clean => pass'.pc = "idle")
<1>h. Types /\ PassShape /\ CallShape /\ NotTaken /\ (call.clean => pass.pc = "idle")
  BY DEF OInv, Types, CleanCall
<1>s. (UNCHANGED session) => NoneStarted
  BY <1>h DEF Types, Running
<1>c. (UNCHANGED <<source, model, off, call>>) => SameCall
  BY <1>h DEF CallShape
<1>q. SameCall /\ NoneStarted /\ NotTakenNext => OInv'
  <2> SUFFICES ASSUME SameCall, NoneStarted, NotTakenNext PROVE OInv'
    OBVIOUS
  <2>1. Types'
    BY <1>h DEF Types
  <2>2. Unwished' /\ ModelOff'
    BY DEF OInv, Unwished, ModelOff
  <2>3. CleanCall'
    <3>1. call'.clean => call.clean /\ pass'.pc = "idle"
      OBVIOUS
    <3>2. /\ UNCHANGED <<source, model>> /\ call'.pc = call.pc /\ call'.off = call.off
          /\ call'.saved = call.saved /\ \A k \in Running' : OffKey(k) \/ call.clean => k \in Running
          /\ \A k \in Running' : k \in call.stop => k \in call'.stop
      OBVIOUS
    <3> QED BY <3>1, <3>2 DEF OInv, CleanCall
  <2>4. OffMeansOff'
    BY DEF OInv, OffMeansOff, OffKey
  <2> QED BY <2>1, <2>2, <2>3, <2>4 DEF OInv
<1> HIDE DEF SameCall, NoneStarted
<1>1. CASE PassBegin
  <2>1. SameCall
    BY <1>1, <1>h DEF PassBegin, SameCall, CallShape
  <2>2. NoneStarted
    BY <1>1, <1>s DEF PassBegin
  <2>3. NotTakenNext
    BY <1>1, <1>h DEF PassBegin, NotTaken, PassShape, OffKey, CallShape
  <2> QED BY <2>1, <2>2, <2>3, <1>q
<1>2. CASE EnforceUsage
  BY <1>2, <1>h, <1>s, <1>c, <1>q DEF EnforceUsage, NotTaken, PassShape, OffKey
<1>3. CASE EnforceStop
  <2>1. PICK over : Stopped(over) /\ Gone(over)
    BY <1>3 DEF EnforceStop
  <2>2. SameCall
    BY <1>3, <2>1, <1>h DEF EnforceStop, Stopped, Gone, SameCall, CallShape, Running
  <2>3. NoneStarted
    BY <2>1, <1>h DEF Stopped, NoneStarted, Running
  <2>4. NotTakenNext
    BY <1>3, <2>1, <1>h DEF EnforceStop, Gone, NotTaken, PassShape, OffKey, CallShape, PassIdle
  <2> QED BY <2>2, <2>3, <2>4, <1>q
<1>4. CASE ReadSources
  <2>1. \A j \in pass'.sources : ~ OffKey(j.key)
    <3>1. PassShape => pass'.sources = {[key |-> <<Card, c>>, quota |-> source[c].quota] :
                                           c \in {d \in Sources : source[d].auto}}
      BY <1>4 DEF ReadSources, PassShape
    <3>2. \A c \in Sources : source[c].auto => c \notin off
      BY DEF OInv, Unwished, IsOn, Sources
    <3> QED BY <3>1, <3>2, <1>h DEF OffKey
  <2>2. NotTakenNext
    BY <1>4, <2>1, <1>h DEF ReadSources, NotTaken, PassShape, OffKey
  <2> QED BY <1>4, <2>2, <1>s, <1>c, <1>q DEF ReadSources
<1>5. CASE ReadModels
  <2> DEFINE taken == {j.key[2] : j \in pass.sources}
             own == {[key |-> <<c, c>>, quota |-> model[c].quota] :
                       c \in {d \in Channel \ taken : model[d] # None /\ model[d].auto}}
  <2>1. \A j \in own : ~ OffKey(j.key)
    BY DEF OInv, ModelOff, IsOn, OffKey
  <2>2. pass' = [pass EXCEPT !.pc = "usage", !.sources = {}, !.jobs = pass.sources \cup own]
    BY <1>5 DEF ReadModels
  <2> HIDE DEF own
  <2>3. NotTakenNext
    BY <1>5, <2>1, <2>2, <1>h DEF ReadModels, NotTaken, PassShape, OffKey
  <2> QED BY <1>5, <2>3, <1>s, <1>c, <1>q DEF ReadModels
<1>6. CASE ReadUsage
  BY <1>6, <1>h, <1>s, <1>c, <1>q DEF ReadUsage, NotTaken, PassShape, OffKey
<1>7. ASSUME NEW j \in pass.jobs, TakeJob(j) PROVE OInv'
  <2>1. NotTakenNext
    BY <1>7, <1>h DEF TakeJob, NotTaken, PassShape, OffKey
  <2> QED BY <1>7, <2>1, <1>s, <1>c, <1>q DEF TakeJob
<1>8. CASE Resolve
  BY <1>8, <1>h, <1>s, <1>c, <1>q DEF Resolve, PassTo, NotTaken, PassShape, OffKey
<1>9. CASE FailToResolve
  BY <1>9, <1>h, <1>s, <1>c, <1>q DEF FailToResolve, NextJob, NotTaken, PassShape, OffKey
<1>10. CASE StartJob
  <2>1. NotTakenNext
    BY <1>10, <1>h DEF StartJob, NextJob, NotTaken, PassShape, OffKey
  <2>2. ~ OffKey(pass.job) /\ ~ call.clean
    BY <1>10, <1>h DEF StartJob, NotTaken
  <2>3. NoneStarted
    BY <1>10, <2>2, <1>h, <1>s DEF StartJob, NoneStarted, Running, Types
  <2> QED BY <1>10, <2>1, <2>3, <1>c, <1>q DEF StartJob
<1>11. CASE PassEnd
  BY <1>11, <1>h, <1>s, <1>c, <1>q DEF PassEnd, PassIdle, NotTaken, PassShape, OffKey
<1> QED BY <1>1, <1>2, <1>3, <1>4, <1>5, <1>6, <1>7, <1>8, <1>9, <1>10, <1>11 DEF PassStep

\* A call that leaves the captures alone, or ends some: what it takes to keep what is off.
LEMMA CallKeeps ==
  ASSUME OInv, source' \in Wishes, model' \in Wishes, call'.saved \in Wishes,
         CallShape', call'.off \subseteq Channel, ~ call'.clean, UNCHANGED pass,
         off' \subseteq off,
         \A c \in off' : ~ IsOn(source'[c]) /\ ~ IsOn(call'.saved[c]),
         Card \in off' => ~ IsOn(model'[Card]),
         session' = [k \in Key |-> session'[k]],
         \A k \in Running' : k \in Running \/ \A c \in Channel : k # <<Card, c>>
  PROVE  OInv'
<1>1. Types'
  BY DEF OInv, Types, PassShape
<1>2. Unwished' /\ ModelOff' /\ CleanCall'
  BY DEF Unwished, ModelOff, CleanCall
<1>3. NotTaken'
  BY DEF OInv, NotTaken, OffKey
<1>4. OffMeansOff'
  BY DEF OInv, Types, OffMeansOff
<1> QED BY <1>1, <1>2, <1>3, <1>4 DEF OInv

LEMMA WishFacts ==
  /\ Nothing \in Wishes /\ \A c \in Channel : ~ IsOn(Nothing[c])
  /\ \A b \in BOOLEAN : Inheriting(b) \in Wish /\ Inheriting(b).auto = b
  /\ \A w \in Wish, b \in BOOLEAN : [w EXCEPT !.auto = b] \in Wish /\ [w EXCEPT !.auto = b].auto = b
BY DEF Nothing, Wishes, IsOn, Inheriting, Wish, Quota

\* A call that begins, but the one that turns off.
LEMMA CallBeginsKeeps ==
  ASSUME OInv,
         \/ \E c \in Channel, b \in BOOLEAN : ToggleOn(c, b) \/ LinkLive(c, b) \/ SaveModel(c, b)
         \/ \E f \in [Channel -> Wish \cup {None}] : UpdateProfile(f)
         \/ \E c \in Channel : DeleteModel(c) \/ ManualStart(c)
         \/ \E k \in Key : ManualStop(k)
         \/ DeleteProfile
  PROVE  OInv'
<1> USE DEF CallOthers, wish, bytes
<1>h. /\ Types /\ off \subseteq Channel /\ source \in Wishes /\ model \in Wishes /\ call.saved \in Wishes
      /\ session = [k \in Key |-> session[k]]
      /\ CallShape /\ (\A c \in off : ~ IsOn(source[c]) /\ ~ IsOn(call.saved[c]))
      /\ Card \in off => ~ IsOn(model[Card])
  BY DEF OInv, Types, Unwished, ModelOff
<1>s. ASSUME UNCHANGED session
      PROVE  session' = [k \in Key |-> session'[k]] /\ \A k \in Running' : k \in Running
  BY <1>s, <1>h DEF Running
<1>c. CallIdle.saved = Nothing /\ CallIdle.off = {} /\ ~ CallIdle.clean
  BY DEF CallIdle
<1>1. ASSUME NEW c \in Channel, NEW b \in BOOLEAN, ToggleOn(c, b) PROVE OInv'
  <2>1. /\ source' = [d \in Channel |-> IF d = c \/ (d = Card /\ source[d] = None) THEN Inheriting(FALSE)
                                        ELSE source[d]]
        /\ call' = [CallIdle EXCEPT !.pc = "switch", !.chosen = c, !.only = b]
        /\ UNCHANGED <<model, session, off, pass>>
    BY <1>1 DEF ToggleOn
  <2>2. source' \in Wishes /\ \A d \in off : ~ IsOn(source'[d])
    BY <2>1, <1>h, WishFacts DEF Wishes, IsOn
  <2>3. CallShape' /\ call'.saved = Nothing /\ call'.off = {} /\ ~ call'.clean
    BY <2>1 DEF CallShape, CallIdle
  <2> QED BY <2>1, <2>2, <2>3, <1>h, <1>s, CallKeeps, WishFacts
<1>2. ASSUME NEW c \in Channel, NEW b \in BOOLEAN, LinkLive(c, b) PROVE OInv'
  <2>1. /\ source' = [source EXCEPT ![c] = Inheriting(b)]
        /\ call' = [CallIdle EXCEPT !.pc = "models", !.saved = [Nothing EXCEPT ![c] = Inheriting(b)]]
        /\ off' = off \ TurnedOn(source')
        /\ UNCHANGED <<model, session, pass>>
    BY <1>2 DEF LinkLive, ThenModels
  <2> DEFINE saved == [Nothing EXCEPT ![c] = Inheriting(b)]
  <2>2. source' \in Wishes /\ saved \in Wishes /\ (\A d \in Channel : IsOn(saved[d]) => IsOn(source'[d]))
    BY <2>1, <1>h, WishFacts DEF Wishes, IsOn, Nothing
  <2>3. \A d \in off' : ~ IsOn(source'[d])
    BY <2>1, <1>h DEF TurnedOn, IsOn
  <2> HIDE DEF saved
  <2>4. CallShape' /\ call'.saved = saved /\ call'.off = {} /\ ~ call'.clean
    BY <2>1 DEF CallShape, CallIdle, saved
  <2> QED BY <2>1, <2>2, <2>3, <2>4, <1>h, <1>s, CallKeeps
<1>3. ASSUME NEW c \in Channel, NEW b \in BOOLEAN, SaveModel(c, b) PROVE OInv'
  <2>1. /\ model' = [model EXCEPT ![c] = Inheriting(b)]
        /\ off' = (IF b THEN off \ {c} ELSE off)
        /\ call' = (IF b THEN [call EXCEPT !.clean = FALSE] ELSE call)
        /\ UNCHANGED <<source, session, pass>>
    BY <1>3 DEF SaveModel
  <2>2. model' \in Wishes /\ (Card \in off' => ~ IsOn(model'[Card])) /\ off' \subseteq off
        /\ (IsOn(model'[Card]) => IsOn(model[Card]) \/ b)
    BY <2>1, <1>h, WishFacts, AutoRecordAssumption DEF Wishes, IsOn
  <2>3. CASE b
    <3>1. CallShape' /\ call'.saved = call.saved /\ call'.off = call.off /\ ~ call'.clean
      BY <2>1, <2>3, <1>h DEF CallShape
    <3> QED BY <2>1, <2>2, <3>1, <1>h, <1>s, CallKeeps DEF Types
  <2>4. CASE ~ b
    <3>1. UNCHANGED <<off, call, source, session, pass>>
      BY <2>1, <2>4
    <3>2. IsOn(model'[Card]) => IsOn(model[Card])
      BY <2>2, <2>4
    <3>3. Types'
      BY <2>2, <3>1, <1>h DEF Types, PassShape, CallShape
    <3>4. CleanCall'
      BY <3>1, <3>2 DEF OInv, CleanCall, Running
    <3> QED
      BY <2>2, <3>1, <3>3, <3>4 DEF OInv, Unwished, ModelOff, NotTaken, OffKey,
         OffMeansOff, Running
  <2> QED BY <2>3, <2>4
<1>4. ASSUME NEW f \in Wishes, UpdateProfile(f) PROVE OInv'
  <2>1. /\ source' = f /\ off' = off \ TurnedOn(f)
        /\ call' = [CallIdle EXCEPT !.pc = "models", !.saved = f]
        /\ UNCHANGED <<model, session, pass>>
    BY <1>4 DEF UpdateProfile, ThenModels
  <2>2. \A d \in off' : ~ IsOn(f[d])
    BY <2>1, <1>h DEF TurnedOn, IsOn
  <2>3. CallShape' /\ call'.saved = f /\ call'.off = {} /\ ~ call'.clean
    BY <2>1 DEF CallShape, CallIdle
  <2> QED BY <2>1, <2>2, <2>3, <1>h, <1>s, CallKeeps
<1>5. ASSUME NEW c \in Channel, DeleteModel(c) PROVE OInv'
  <2>1. model' = [model EXCEPT ![c] = None] /\ UNCHANGED <<source, session, pass, call, off>>
    BY <1>5 DEF DeleteModel
  <2>2. model' \in Wishes /\ (IsOn(model'[Card]) => IsOn(model[Card]))
    BY <2>1, <1>h, AutoRecordAssumption DEF Wishes, IsOn
  <2>3. Types'
    BY <2>1, <2>2, <1>h DEF Types, PassShape, CallShape
  <2>4. CleanCall'
    BY <2>1, <2>2 DEF OInv, CleanCall, Running
  <2> QED
    BY <2>1, <2>2, <2>3, <2>4 DEF OInv, Unwished, ModelOff, NotTaken, OffKey, OffMeansOff,
       Running
<1>6. ASSUME NEW c \in Channel, ManualStart(c) PROVE OInv'
  <2>1. /\ call' = [CallIdle EXCEPT !.pc = "start", !.who = c]
        /\ UNCHANGED <<source, model, session, off, pass>>
    BY <1>6 DEF ManualStart
  <2>2. CallShape' /\ call'.saved = Nothing /\ call'.off = {} /\ ~ call'.clean
    BY <2>1 DEF CallShape, CallIdle
  <2> QED BY <2>1, <2>2, <1>h, <1>s, CallKeeps, WishFacts
<1>7. ASSUME NEW k \in Key, ManualStop(k) PROVE OInv'
  <2>1. /\ call' = [CallIdle EXCEPT !.pc = "index", !.who = k[1]]
        /\ session' = [l \in Key |-> IF l \in {k} THEN None ELSE session[l]]
        /\ UNCHANGED <<source, model, off, pass>>
    BY <1>7 DEF ManualStop, Stopped
  <2>2. CallShape' /\ call'.saved = Nothing /\ call'.off = {} /\ ~ call'.clean
    BY <2>1 DEF CallShape, CallIdle
  <2>3. session' = [l \in Key |-> session'[l]] /\ \A l \in Running' : l \in Running
    BY <2>1, <1>h DEF Running
  <2> QED BY <2>1, <2>2, <2>3, <1>h, CallKeeps, WishFacts
<1>8. CASE DeleteProfile
  <2>1. /\ call' = [CallIdle EXCEPT !.pc = "forget", !.saved = source]
        /\ model' = [model EXCEPT ![Card] = None]
        /\ UNCHANGED <<source, session, off, pass>>
    BY <1>8 DEF DeleteProfile
  <2>2. CallShape' /\ call'.saved = source /\ call'.off = {} /\ ~ call'.clean
    BY <2>1 DEF CallShape, CallIdle
  <2>3. model' \in Wishes /\ ~ IsOn(model'[Card])
    BY <2>1, <1>h, AutoRecordAssumption DEF Wishes, IsOn
  <2> QED BY <2>1, <2>2, <2>3, <1>h, <1>s, CallKeeps
<1> QED BY <1>1, <1>2, <1>3, <1>4, <1>5, <1>6, <1>7, <1>8 DEF Wishes

\* The call that turns off: nothing it names is on any more, but the models it is yet to
\* write.
LEMMA ToggleOffKeeps ==
  ASSUME OInv, NEW S \in SUBSET Channel, ToggleOff(S)
  PROVE  OInv'
<1> USE DEF CallOthers, wish, bytes
<1> DEFINE saved == [d \in Channel |->
                       IF source[d] # None THEN Inheriting(source'[d].auto)
                       ELSE IF Sources = {} /\ d = Card /\ model[d] # None THEN Inheriting(FALSE)
                       ELSE None]
           gone == IF Sources = {} THEN {Card} ELSE S \cap Sources
<1>h. /\ Types /\ off \subseteq Channel /\ source \in Wishes /\ model \in Wishes
      /\ \A c \in off : ~ IsOn(source[c])
  BY DEF OInv, Types, Unwished
<1>1. /\ source' = [d \in Channel |-> IF d \in S /\ source[d] # None
                                      THEN [source[d] EXCEPT !.auto = FALSE] ELSE source[d]]
      /\ call' = [CallIdle EXCEPT !.pc = "models", !.saved = saved, !.off = gone, !.who = Card,
                                  !.clean = pass.pc = "idle"]
      /\ UNCHANGED <<model, session, off, pass>>
  BY DEF ToggleOff
<1>2. /\ source' \in Wishes /\ \A d \in Channel : IsOn(source'[d]) => IsOn(source[d]) /\ d \notin S
      /\ \A d \in Channel : source[d] = None => source'[d] = None
      /\ \A d \in Channel : source[d] # None => source'[d] \in Wish
  BY <1>1, <1>h, WishFacts, NoneAssumption DEF Wishes, IsOn
<1>3. saved \in Wishes /\ \A d \in Channel : IsOn(saved[d]) => IsOn(source'[d])
  <2>1. \A d \in Channel : source[d] # None =>
          /\ source'[d].auto \in BOOLEAN /\ source'[d] # None
          /\ Inheriting(source'[d].auto) \in Wish /\ Inheriting(source'[d].auto).auto = source'[d].auto
    BY <1>2, WishFacts, NoneAssumption DEF Wish
  <2> QED BY <2>1, WishFacts DEF Wishes, IsOn
<1>4. (Card \in gone /\ IsOn(model[Card])) => saved[Card] # None
  <2>1. \A b \in BOOLEAN : Inheriting(b) # None
    BY WishFacts, NoneAssumption
  <2>2. CASE Sources = {}
    BY <2>1, <2>2, AutoRecordAssumption DEF Sources, IsOn
  <2>3. CASE Sources # {}
    <3>1. Card \in gone => source[Card] # None
      BY <2>3 DEF Sources
    <3>2. Card \in gone => source'[Card].auto \in BOOLEAN
      BY <3>1, <1>2, AutoRecordAssumption DEF Wish
    <3> QED BY <2>1, <3>1, <3>2, AutoRecordAssumption
  <2> QED BY <2>2, <2>3
<1>5. gone \subseteq Channel /\ \A d \in gone : ~ IsOn(source'[d])
  <2>1. CASE Sources = {}
    BY <2>1, <1>2, AutoRecordAssumption DEF Sources, IsOn
  <2>2. CASE Sources # {}
    BY <2>2, <1>2 DEF Sources
  <2> QED BY <2>1, <2>2
<1> HIDE DEF saved, gone
<1>6. /\ CallShape' /\ call'.saved = saved /\ call'.off = gone /\ call'.pc = "models"
      /\ call'.clean => pass.pc = "idle"
  BY <1>1 DEF CallShape, CallIdle
<1>7. Types'
  BY <1>1, <1>2, <1>3, <1>5, <1>6, <1>h DEF Types, PassShape
<1>8. Unwished' /\ ModelOff'
  BY <1>1, <1>2, <1>3, <1>6, <1>h DEF OInv, Unwished, ModelOff
<1>9. CleanCall'
  BY <1>1, <1>3, <1>4, <1>5, <1>6 DEF CleanCall
<1>10. NotTaken' /\ OffMeansOff'
  BY <1>1 DEF OInv, NotTaken, OffKey, OffMeansOff, Running
<1> QED BY <1>7, <1>8, <1>9, <1>10 DEF OInv

\* The further steps of a call.
LEMMA CallStepKeeps ==
  ASSUME OInv, CallStep
  PROVE  OInv'
<1> USE DEF CallOthers, wish, bytes
<1>h. /\ Types /\ off \subseteq Channel /\ source \in Wishes /\ model \in Wishes /\ call.saved \in Wishes
      /\ session = [k \in Key |-> session[k]]
      /\ CallShape /\ (\A c \in off : ~ IsOn(source[c]) /\ ~ IsOn(call.saved[c]))
      /\ Card \in off => ~ IsOn(model[Card])
  BY DEF OInv, Types, Unwished, ModelOff
<1>s. ASSUME UNCHANGED session
      PROVE  session' = [k \in Key |-> session'[k]] /\ \A k \in Running' : k \in Running
  BY <1>s, <1>h DEF Running
<1>c. CallIdle.saved = Nothing /\ CallIdle.off = {} /\ ~ CallIdle.clean
  BY DEF CallIdle
<1>i. ASSUME call' = CallIdle
      PROVE  CallShape' /\ call'.saved = Nothing /\ call'.off = {} /\ ~ call'.clean
  BY <1>i DEF CallShape, CallIdle
<1>1. ASSUME NEW c \in Channel, WriteModel(c) PROVE OInv'
  <2>1. /\ call.pc = "models" /\ call.saved[c] # None
        /\ model' = [model EXCEPT ![c] = call.saved[c]]
        /\ call' = [call EXCEPT !.saved[c] = None]
        /\ UNCHANGED <<source, session, off, pass>>
    BY <1>1 DEF WriteModel, Wished
  <2>2. /\ CallShape' /\ call'.saved = [call.saved EXCEPT ![c] = None]
        /\ call'.off = call.off /\ call'.clean = call.clean /\ call'.pc = call.pc
        /\ call'.stop = call.stop
    BY <2>1, <1>h DEF CallShape
  <2>3. /\ model' \in Wishes /\ call'.saved \in Wishes
        /\ \A d \in Channel : IsOn(call'.saved[d]) => IsOn(call.saved[d])
        /\ \A d \in Channel : d # c => model'[d] = model[d] /\ call'.saved[d] = call.saved[d]
        /\ model'[c] = call.saved[c]
    BY <2>1, <2>2, <1>h DEF Wishes, IsOn
  <2>4. Types'
    BY <2>1, <2>2, <2>3, <1>h DEF Types, PassShape
  <2>5. Unwished' /\ ModelOff'
    BY <2>1, <2>3, <1>h, AutoRecordAssumption DEF Unwished, ModelOff
  <2>6. CleanCall'
    <3>1. call.off \subseteq Channel
      BY <1>h DEF Types
    <3> QED BY <2>1, <2>2, <2>3, <3>1, AutoRecordAssumption DEF OInv, CleanCall
  <2>7. NotTaken' /\ OffMeansOff'
    BY <2>1 DEF OInv, NotTaken, OffKey, OffMeansOff, Running
  <2> QED BY <2>4, <2>5, <2>6, <2>7 DEF OInv
<1>2. ASSUME NEW c \in Channel, ForgetModel(c) PROVE OInv'
  <2>1. /\ call.pc = "forget" /\ model' = [model EXCEPT ![c] = None]
        /\ call' = [call EXCEPT !.saved[c] = None]
        /\ UNCHANGED <<source, session, off, pass>>
    BY <1>2 DEF ForgetModel
  <2>2. ~ call.clean
    BY <2>1 DEF OInv, CleanCall
  <2>3. /\ CallShape' /\ call'.saved = [call.saved EXCEPT ![c] = None]
        /\ call'.off = call.off /\ ~ call'.clean
    BY <2>1, <2>2, <1>h DEF CallShape
  <2>4. /\ model' \in Wishes /\ call'.saved \in Wishes
        /\ \A d \in Channel : IsOn(call'.saved[d]) => IsOn(call.saved[d])
        /\ IsOn(model'[Card]) => IsOn(model[Card])
    BY <2>1, <2>3, <1>h, AutoRecordAssumption DEF Wishes, IsOn
  <2> QED BY <2>1, <2>3, <2>4, <1>h, <1>s, CallKeeps DEF Types
<1>3. CASE SwitchOn
  <2> DEFINE saved == [d \in Channel |-> IF source'[d] = None THEN None ELSE Inheriting(source'[d].auto)]
  <2>1. /\ source' = [d \in Channel |-> Switched(d)] /\ off' = off \ TurnedOn(source')
        /\ call' = [CallIdle EXCEPT !.pc = "models", !.saved = saved]
        /\ UNCHANGED <<model, session, pass>>
    BY <1>3 DEF SwitchOn, ThenModels
  <2>2. source' \in Wishes
    <3>1. \A d \in Channel : Switched(d) \in Wish \cup {None}
      <4> SUFFICES ASSUME NEW d \in Channel, source[d] # None PROVE Switched(d) \in Wish
        BY DEF Switched
      <4> DEFINE on == call.only => d = call.chosen
      <4>1. source[d] \in Wish /\ on \in BOOLEAN
        BY <1>h DEF Wishes
      <4> HIDE DEF on
      <4>2. [source[d] EXCEPT !.auto = on] \in Wish
        BY <4>1, WishFacts
      <4> QED BY <4>2 DEF Switched, on
    <3> QED BY <2>1, <3>1 DEF Wishes
  <2>3. saved \in Wishes /\ \A d \in Channel : IsOn(saved[d]) => IsOn(source'[d])
    <3>1. \A d \in Channel : source'[d] # None =>
            /\ source'[d].auto \in BOOLEAN
            /\ Inheriting(source'[d].auto) \in Wish /\ Inheriting(source'[d].auto).auto = source'[d].auto
      BY <2>2, WishFacts DEF Wishes, Wish
    <3> QED BY <3>1, WishFacts DEF Wishes, IsOn
  <2>4. \A d \in off' : ~ IsOn(source'[d])
    BY <2>1, <1>h DEF TurnedOn, IsOn
  <2> HIDE DEF saved
  <2>5. CallShape' /\ call'.saved = saved /\ call'.off = {} /\ ~ call'.clean
    BY <2>1 DEF CallShape, CallIdle
  <2> QED BY <2>1, <2>2, <2>3, <2>4, <2>5, <1>h, <1>s, CallKeeps
<1>4. CASE ListCaptures
  <2>1. call.pc = "models" /\ call.saved = Nothing /\ UNCHANGED <<source, model, session, off, pass>>
    BY <1>4 DEF ListCaptures
  <2>2. CASE call.off = {}
    <3>1. call' = CallIdle
      BY <1>4, <2>2 DEF ListCaptures
    <3> QED BY <2>1, <3>1, <1>i, <1>h, <1>s, CallKeeps, WishFacts
  <2>3. CASE call.off # {}
    <3>1. call' = [call EXCEPT !.pc = "stop", !.stop = KeysOf(Card) \cap Running]
      BY <1>4, <2>3 DEF ListCaptures
    <3>2. /\ CallShape' /\ call'.saved = call.saved /\ call'.off = call.off /\ call'.clean = call.clean
          /\ call'.pc = "stop" /\ call'.stop = KeysOf(Card) \cap Running
      BY <3>1, <1>h DEF CallShape
    <3>3. Types'
      BY <2>1, <3>2, <1>h DEF Types, PassShape
    <3>4. \A c \in call.off : <<Card, c>> \in Running => <<Card, c>> \in KeysOf(Card)
      BY DEF KeysOf, Running
    <3>5. CleanCall'
      BY <2>1, <3>2, <3>4, AutoRecordAssumption DEF OInv, CleanCall, Nothing, Running
    <3> QED
      BY <2>1, <3>2, <3>3, <3>5 DEF OInv, Unwished, ModelOff, NotTaken, OffKey,
         OffMeansOff, Running
  <2> QED BY <2>2, <2>3
<1>5. ASSUME NEW k \in Key, StopNext(k) PROVE OInv'
  <2>1. /\ call.pc = "stop" /\ call' = [call EXCEPT !.pc = "index", !.stop = @ \ {k}]
        /\ session' = [l \in Key |-> IF l \in {k} THEN None ELSE session[l]]
        /\ UNCHANGED <<source, model, off, pass>>
    BY <1>5 DEF StopNext, Stopped
  <2>2. session' = [l \in Key |-> session'[l]] /\ Running' = Running \ {k}
    BY <2>1, <1>h DEF Running
  <2>3. /\ CallShape' /\ call'.saved = call.saved /\ call'.off = call.off /\ call'.clean = call.clean
        /\ call'.pc = "index" /\ call'.stop = call.stop \ {k}
    BY <2>1, <1>h DEF CallShape
  <2>4. Types'
    BY <2>1, <2>2, <2>3, <1>h DEF Types, PassShape
  <2>5. CleanCall'
    BY <2>1, <2>2, <2>3 DEF OInv, CleanCall
  <2> QED
    BY <2>1, <2>2, <2>3, <2>4, <2>5 DEF OInv, Unwished, ModelOff, NotTaken, OffKey,
       OffMeansOff
<1>6. CASE IndexNext
  <2>1. /\ call.pc = "index" /\ call' = [call EXCEPT !.pc = "stop"]
        /\ UNCHANGED <<source, model, session, off, pass>>
    BY <1>6 DEF IndexNext, CallTo
  <2>2. /\ CallShape' /\ call'.saved = call.saved /\ call'.off = call.off /\ call'.clean = call.clean
        /\ call'.pc = "stop" /\ call'.stop = call.stop
    BY <2>1, <1>h DEF CallShape
  <2>3. Types'
    BY <2>1, <2>2, <1>h DEF Types, PassShape
  <2>4. CleanCall'
    BY <2>1, <2>2 DEF OInv, CleanCall, Running
  <2> QED
    BY <2>1, <2>2, <2>3, <2>4 DEF OInv, Unwished, ModelOff, NotTaken, OffKey, OffMeansOff,
       Running
<1>7. CASE Answer
  <2>1. /\ call.pc = "stop" /\ call.stop = {} /\ call' = CallIdle
        /\ off' = (IF call.clean THEN off \cup call.off ELSE off)
        /\ UNCHANGED <<source, model, session, pass>>
    BY <1>7 DEF Answer
  <2>2. CASE ~ call.clean
    BY <2>1, <2>2, <1>i, <1>h, <1>s, CallKeeps, WishFacts
  <2>3. CASE call.clean
    <3>1. /\ pass.pc = "idle" /\ call.saved = Nothing
          /\ \A c \in call.off : ~ IsOn(source[c]) /\ <<Card, c>> \notin Running
          /\ Card \in call.off => ~ IsOn(model[Card])
      BY <2>1, <2>3, AutoRecordAssumption DEF OInv, CleanCall, Nothing
    <3>2. Types' /\ off' \subseteq Channel
      BY <2>1, <2>3, <1>i, <1>h, WishFacts DEF Types, PassShape
    <3>3. Unwished' /\ ModelOff' /\ CleanCall'
      BY <2>1, <2>3, <3>1, <3>2, <1>i, <1>h, WishFacts DEF Unwished, ModelOff, CleanCall
    <3>4. NotTaken'
      BY <2>1, <3>1 DEF OInv, NotTaken
    <3>5. OffMeansOff'
      BY <2>1, <2>3, <3>1 DEF OInv, OffMeansOff, Running
    <3> QED BY <3>2, <3>3, <3>4, <3>5 DEF OInv
  <2> QED BY <2>2, <2>3
<1>8. CASE ForgetSources
  <2>1. source' = Nothing /\ call' = CallIdle /\ UNCHANGED <<model, session, off, pass>>
    BY <1>8 DEF ForgetSources
  <2> QED BY <2>1, <1>i, <1>h, <1>s, CallKeeps, WishFacts
<1>9. CASE ManualStarted
  <2>1. /\ call' = CallIdle /\ UNCHANGED <<source, model, off, pass>>
        /\ session' = IF <<call.who, None>> \in Running THEN session
                      ELSE [session EXCEPT ![<<call.who, None>>] = 0]
    BY <1>9 DEF ManualStarted
  <2>2. /\ session' = [k \in Key |-> session'[k]]
        /\ \A k \in Running' : k \in Running \/ \A c \in Channel : k # <<Card, c>>
    BY <2>1, <1>h, AutoRecordAssumption DEF Running
  <2> QED BY <2>1, <2>2, <1>i, <1>h, CallKeeps, WishFacts
<1> QED BY <1>1, <1>2, <1>3, <1>4, <1>5, <1>6, <1>7, <1>8, <1>9 DEF CallStep

LEMMA RestartKeeps ==
  ASSUME OInv, Restart
  PROVE  OInv'
<1>1. /\ session' = [k \in Key |-> IF k \in Key THEN None ELSE session[k]]
      /\ pass' = PassIdle /\ call' = CallIdle /\ UNCHANGED <<source, model, off>>
  BY DEF Restart, Stopped, wish
<1>2. Running' = {} /\ session' = [k \in Key |-> session'[k]]
  BY <1>1 DEF Running
<1>3. PassShape' /\ CallShape' /\ call'.saved = Nothing /\ call'.off = {} /\ ~ call'.clean
  BY <1>1 DEF PassShape, CallShape, PassIdle, CallIdle
<1>4. Types'
  BY <1>1, <1>2, <1>3, WishFacts DEF OInv, Types
<1>5. Unwished' /\ ModelOff' /\ CleanCall'
  BY <1>1, <1>3, WishFacts DEF OInv, Types, Unwished, ModelOff, CleanCall
<1>6. NotTaken'
  BY <1>1 DEF PassIdle, NotTaken
<1> QED BY <1>2, <1>4, <1>5, <1>6 DEF OInv, OffMeansOff

LEMMA StepKeepsOff ==
  ASSUME OInv, [Next]_vars
  PROVE  OInv'
<1>1. CASE UNCHANGED vars
  <2>1. UNCHANGED <<source, model, session, off, pass, call>>
    BY <1>1 DEF vars
  <2> QED
    BY <2>1 DEF OInv, Types, PassShape, CallShape, Unwished, ModelOff, NotTaken, OffKey,
       CleanCall,
                      OffMeansOff, Running
<1>2. CASE CallBegins
  <2>1. ASSUME NEW S \in {Channel} \cup {{c} : c \in Channel}, ToggleOff(S) PROVE OInv'
    <3>1. S \in SUBSET Channel
      OBVIOUS
    <3> QED BY <2>1, <3>1, ToggleOffKeeps
  <2> QED BY <1>2, <2>1, CallBeginsKeeps DEF CallBegins
<1>3. CASE PassStep \/ CallStep \/ Restart
  BY <1>3, PassSteps, CallStepKeeps, RestartKeeps
<1>4. CASE \/ \E k \in Key : Grow(k) \/ End(k)
           \/ \E c \in Channel : Index(c) \/ Flip(c)
           \/ \E k \in JobKey : CooldownEnds(k)
           \/ NewCycle
  BY <1>4, CaptureSteps
<1> QED BY <1>1, <1>2, <1>3, <1>4 DEF Next

\* Once a channel was turned off, by a call that no pass of the task overlapped, no capture
\* of it runs for the card until it is turned on again: the two tables that the handlers
\* write one after the other, the jobs a pass has read, its cooldowns and its list of
\* captures, calls by hand and restarts bring none back.
THEOREM OffIsKept == Spec => []OffMeansOff
<1>1. OInv /\ [Next]_vars => OInv'
  BY StepKeepsOff
<1>2. OInv => OffMeansOff
  BY DEF OInv
<1> QED BY InitOff, <1>1, <1>2, PTL DEF Spec

----------------------------------------------------------------------------
(* The storage policy: type correctness, what its two tasks guarantee of the *)
(* captures behind a gate, and when the staging gate is released, for every  *)
(* set of captures.                                                          *)

\* A promotion leaves nothing on the staging disk that was not there before.
LEMMA PromoteKeeps == Storage!Promote => staged' \subseteq staged
  BY DEF Storage!Promote

\* The places a task can be at.
LEMMA TaskPlaces ==
  /\ Storage!Waiting \in Storage!Task
  /\ \A p \in {"promoting", "disabling", "clearing"} : [Storage!Waiting EXCEPT !.at = p] \in Storage!Task
  /\ \A b \in BOOLEAN : [at |-> "disabling", staging |-> b] \in Storage!Task
  BY DEF Storage!Waiting, Storage!Task

\* The variables have their types in every reachable state.
THEOREM TypeCorrect == Storage!Spec => []Storage!TypeOK
<1>1. Storage!Init => Storage!TypeOK
  <2> SUFFICES ASSUME Storage!Init PROVE Storage!TypeOK
    OBVIOUS
  <2>1. starting \in [Capture -> {"idle", "enabled", "admitted"}] /\ restarts \in 0 .. Restarts
    BY StorageHolds DEF Storage!Init, Storage!StorageAssumption
  <2>2. policy \in Storage!Task /\ watchdog \in Storage!Task
    BY TaskPlaces DEF Storage!Init
  <2>3. running = {} /\ staged = {} /\ late = {} /\ switching = "idle"
    BY DEF Storage!Init
  <2>4. /\ libraryLow \in BOOLEAN /\ stagingLow \in BOOLEAN /\ enabled \in BOOLEAN
        /\ libraryBlocked \in BOOLEAN /\ stagingBlocked \in BOOLEAN /\ convertPaused \in BOOLEAN
    BY DEF Storage!Init
  <2> QED BY <2>1, <2>2, <2>3, <2>4 DEF Storage!TypeOK
<1>2. Storage!TypeOK /\ [Storage!Next]_Storage!vars => Storage!TypeOK'
  <2> SUFFICES ASSUME Storage!TypeOK, [Storage!Next]_Storage!vars PROVE Storage!TypeOK'
    OBVIOUS
  <2> USE DEF Storage!TypeOK, Storage!disks, Storage!gates, Storage!captures
  <2>1. ASSUME NEW c \in Capture, Storage!Start(c) PROVE Storage!TypeOK'
    <3>1. CASE Storage!ReadSwitch(c) BY <3>1 DEF Storage!ReadSwitch
    <3>2. CASE Storage!LookAtGates(c) BY <3>2 DEF Storage!LookAtGates
    <3>3. CASE Storage!StartCapture(c) BY <3>3 DEF Storage!StartCapture
    <3>4. CASE Storage!StartRefused(c) BY <3>4 DEF Storage!StartRefused
    <3> QED BY <2>1, <3>1, <3>2, <3>3, <3>4 DEF Storage!Start
  <2>2. ASSUME NEW c \in Capture, Storage!EndCapture(c) PROVE Storage!TypeOK'
    BY <2>2 DEF Storage!EndCapture
  <2>3. CASE Storage!Switch
    BY <2>3 DEF Storage!Switch, Storage!AskEnable, Storage!WriteEnable,
       Storage!WriteDisable, Storage!StopAfterDisable, Storage!StopAll
  <2>4. CASE Storage!Policy
    <3>1. CASE Storage!PolicyPromote BY <3>1, PromoteKeeps, TaskPlaces DEF Storage!PolicyPromote
    <3>2. CASE Storage!PolicyDecide
      BY <3>2, TaskPlaces DEF Storage!PolicyDecide, Storage!StagingDecision,
         Storage!EngagedStaging, Storage!StopAll
    <3>3. CASE Storage!PolicyDisable
      BY <3>3, TaskPlaces DEF Storage!PolicyDisable, Storage!StopAll
    <3>4. CASE Storage!PolicyClear BY <3>4, PromoteKeeps, TaskPlaces DEF Storage!PolicyClear
    <3> QED BY <2>4, <3>1, <3>2, <3>3, <3>4 DEF Storage!Policy
  <2>5. CASE Storage!Watchdog
    <3>1. CASE Storage!WatchdogSample
      BY <3>1, TaskPlaces DEF Storage!WatchdogSample, Storage!WatchdogStaging, Storage!StopAll
    <3>2. CASE Storage!WatchdogDisable
      BY <3>2, TaskPlaces DEF Storage!WatchdogDisable, Storage!WatchdogStaging, Storage!StopAll
    <3>3. CASE Storage!WatchdogPromote
      BY <3>3, PromoteKeeps, TaskPlaces DEF Storage!WatchdogPromote
    <3> QED BY <2>5, <3>1, <3>2, <3>3 DEF Storage!Watchdog
  <2>6. CASE Storage!SpaceChanges BY <2>6 DEF Storage!SpaceChanges
  <2>7. CASE Storage!Restart
    <3>1. starting' \in [Capture -> {"idle", "enabled", "admitted"}] /\ restarts' \in 0 .. Restarts
      BY <2>7, StorageHolds DEF Storage!Restart, Storage!StorageAssumption
    <3>2. policy' \in Storage!Task /\ watchdog' \in Storage!Task
      BY <2>7, TaskPlaces DEF Storage!Restart
    <3>3. running' = {} /\ late' = {} /\ switching' = "idle" /\ UNCHANGED <<Storage!disks, enabled, staged>>
      BY <2>7 DEF Storage!Restart, Storage!StopAll
    <3>4. libraryBlocked' \in BOOLEAN /\ stagingBlocked' \in BOOLEAN /\ convertPaused' \in BOOLEAN
      BY <2>7 DEF Storage!Restart
    <3> QED BY <3>1, <3>2, <3>3, <3>4
  <2>8. CASE UNCHANGED Storage!vars BY <2>8 DEF Storage!vars
  <2> QED BY <2>1, <2>2, <2>3, <2>4, <2>5, <2>6, <2>7, <2>8 DEF Storage!Next
<1> QED BY <1>1, <1>2, PTL DEF Storage!Spec

\* Behind an engaged gate that neither task is about to act on, only captures run whose
\* start had passed the gates before: the property is inductive as it stands, because the
\* step that engages a gate either stops the captures or moves its task to "disabling".
THEOREM GateStops == Storage!Spec => []GateStopsCaptures
<1>1. Storage!Init => Storage!GateStopsCaptures
  BY DEF Storage!Init, Storage!GateStopsCaptures
<1>2. Storage!GateStopsCaptures /\ [Storage!Next]_Storage!vars => Storage!GateStopsCaptures'
  <2> SUFFICES ASSUME Storage!GateStopsCaptures, [Storage!Next]_Storage!vars PROVE Storage!GateStopsCaptures'
    OBVIOUS
  <2> USE DEF Storage!GateStopsCaptures, Storage!Blocked, Storage!disks, Storage!gates, Storage!captures
  <2>1. ASSUME NEW c \in Capture, Storage!Start(c) PROVE Storage!GateStopsCaptures'
    BY <2>1 DEF Storage!Start, Storage!ReadSwitch, Storage!LookAtGates,
       Storage!StartCapture, Storage!StartRefused
  <2>2. ASSUME NEW c \in Capture, Storage!EndCapture(c) PROVE Storage!GateStopsCaptures'
    BY <2>2 DEF Storage!EndCapture
  <2>3. CASE Storage!Switch
    BY <2>3 DEF Storage!Switch, Storage!AskEnable, Storage!WriteEnable,
       Storage!WriteDisable, Storage!StopAfterDisable, Storage!StopAll
  <2>4. CASE Storage!Policy
    <3>1. CASE Storage!PolicyPromote BY <3>1 DEF Storage!PolicyPromote, Storage!Waiting
    <3>2. CASE Storage!PolicyDecide
      <4>1. CASE libraryLow /\ ~ libraryBlocked BY <3>2, <4>1 DEF Storage!PolicyDecide
      <4>2. CASE ~ (libraryLow /\ ~ libraryBlocked) /\ Storage!EngagedStaging
        BY <3>2, <4>2 DEF Storage!PolicyDecide, Storage!StopAll
      <4>3. CASE ~ (libraryLow /\ ~ libraryBlocked) /\ ~ Storage!EngagedStaging
        <5>1. Storage!Blocked' => Storage!Blocked
          BY <3>2, <4>3 DEF Storage!PolicyDecide, Storage!EngagedStaging
        <5>2. UNCHANGED Storage!captures /\ policy.at # "disabling"
          BY <3>2, <4>3 DEF Storage!PolicyDecide
        <5>3. UNCHANGED watchdog
          BY <3>2 DEF Storage!PolicyDecide
        <5> QED BY <5>1, <5>2, <5>3
      <4> QED BY <4>1, <4>2, <4>3
    <3>3. CASE Storage!PolicyDisable BY <3>3 DEF Storage!PolicyDisable, Storage!StopAll
    <3>4. CASE Storage!PolicyClear BY <3>4 DEF Storage!PolicyClear
    <3> QED BY <2>4, <3>1, <3>2, <3>3, <3>4 DEF Storage!Policy
  <2>5. CASE Storage!Watchdog
    <3>1. CASE Storage!WatchdogSample
      BY <3>1 DEF Storage!WatchdogSample, Storage!WatchdogStaging, Storage!StopAll,
         Storage!Waiting
    <3>2. CASE Storage!WatchdogDisable BY <3>2 DEF Storage!WatchdogDisable, Storage!StopAll
    <3>3. CASE Storage!WatchdogPromote BY <3>3 DEF Storage!WatchdogPromote, Storage!Waiting
    <3> QED BY <2>5, <3>1, <3>2, <3>3 DEF Storage!Watchdog
  <2>6. CASE Storage!SpaceChanges BY <2>6 DEF Storage!SpaceChanges
  <2>7. CASE Storage!Restart BY <2>7 DEF Storage!Restart, Storage!StopAll
  <2>8. CASE UNCHANGED Storage!vars BY <2>8 DEF Storage!vars
  <2> QED BY <2>1, <2>2, <2>3, <2>4, <2>5, <2>6, <2>7, <2>8 DEF Storage!Next
<1> QED BY <1>1, <1>2, PTL DEF Storage!Spec, GateStopsCaptures

\* No step but a restart releases the staging gate while recording files are left on the
\* staging disk: of all the actions only PolicyDecide and PolicyClear can release it.
THEOREM StagingReleased == Storage!Spec => StagingReleasedWhenClear
<1> DEFINE A == stagingBlocked /\ ~ stagingBlocked' => staged' = {} \/ restarts' # restarts
<1>1. [Storage!Next]_Storage!vars => [A]_Storage!vars
  <2> SUFFICES ASSUME Storage!Next PROVE A
    OBVIOUS
  <2> USE DEF Storage!gates, Storage!captures
  <2>1. ASSUME NEW c \in Capture, Storage!Start(c) \/ Storage!EndCapture(c) PROVE A
    BY <2>1 DEF Storage!Start, Storage!ReadSwitch, Storage!LookAtGates,
       Storage!StartCapture, Storage!StartRefused, Storage!EndCapture
  <2>2. CASE Storage!Switch
    BY <2>2 DEF Storage!Switch, Storage!AskEnable, Storage!WriteEnable,
       Storage!WriteDisable, Storage!StopAfterDisable
  <2>3. CASE Storage!Policy
    <3>1. CASE Storage!PolicyDecide
      BY <3>1 DEF Storage!PolicyDecide, Storage!StagingDecision, Storage!StopAll
    <3>2. CASE Storage!PolicyClear BY <3>2 DEF Storage!PolicyClear
    <3>3. CASE Storage!PolicyPromote \/ Storage!PolicyDisable
      BY <3>3 DEF Storage!PolicyPromote, Storage!PolicyDisable
    <3> QED BY <2>3, <3>1, <3>2, <3>3 DEF Storage!Policy
  <2>4. CASE Storage!Watchdog
    BY <2>4 DEF Storage!Watchdog, Storage!WatchdogSample, Storage!WatchdogDisable,
       Storage!WatchdogPromote, Storage!WatchdogStaging
  <2>5. CASE Storage!SpaceChanges BY <2>5 DEF Storage!SpaceChanges
  <2>6. CASE Storage!Restart
    <3>1. restarts' # restarts
      BY <2>6, StorageHolds DEF Storage!Restart, Storage!StorageAssumption
    <3> QED BY <3>1
  <2> QED BY <2>1, <2>2, <2>3, <2>4, <2>5, <2>6 DEF Storage!Next
<1> QED
  BY <1>1, PTL DEF Storage!Spec, StagingReleasedWhenClear, Storage!StagingReleasedWhenClear
=============================================================================
