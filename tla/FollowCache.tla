------------------------------ MODULE FollowCache ------------------------------
(***************************************************************************)
(* The local copy of one site's follow list (the followed_models rows of   *)
(* a source), kept by three writers that do not know of each other:        *)
(*                                                                         *)
(*   - a synchronisation, which reads the list from the site in several    *)
(*     requests, writes one row per channel and then removes the others    *)
(*     (provider_sync_following, provider_reconcile_following,             *)
(*     sync_following, following_sync.py);                                 *)
(*   - a follow or an unfollow made through the server                     *)
(*     (_apply_follow_change);                                             *)
(*   - a follow or an unfollow made by the Mac helper on a queued command  *)
(*     (provider-follow, provider-follow-result), for Twitch only.         *)
(*                                                                         *)
(* How the list is read is the provider's: kind says which one.  Meanwhile *)
(* the user follows and unfollows on the site itself, channels go on air   *)
(* and off, and the site may stop accepting the saved session.             *)
(***************************************************************************)
EXTENDS Integers, FiniteSets

CONSTANTS
  Channels,     \* the channels, numbered in the order the site lists them
  Kinds,        \* the providers of this instance
  PageSize,     \* channels in one page of the site's list
  Limits,       \* per provider, how much of a list it may read and what it is told
  MaxChanges    \* bound: follows, unfollows and other changes on the site

FollowAssumption ==
  /\ Channels \subseteq Nat /\ IsFiniteSet(Channels)
  /\ Kinds \subseteq {"chaturbate", "stripchat", "twitch", "youtube", "bilibili"}
  /\ PageSize \in Nat \ {0}
  /\ \A k \in Kinds : \A l \in Limits[k] :
       l.pages \in Nat \ {0} /\ l.items \in Nat \ {0} /\ l.counted \in BOOLEAN
  /\ MaxChanges \in Nat

VARIABLES
  kind,         \* the provider
  limit,        \* the pages and the channels it reads at most of a list, and
                \* whether the site's pages say how long the list is
  listed,       \* the channels the site says the account follows
  online,       \* the channels on air
  accepted,     \* the site accepts the saved session
  flagged,      \* the provider counts as logged in
  cache,        \* the followed_models rows of this source
  sync,         \* the synchronisation that runs
  act,          \* the follow or unfollow the server makes
  cmd,          \* the follow or unfollow the helper makes
  changes

vars ==
  <<kind, limit, listed, online, accepted, flagged, cache, sync, act, cmd, changes>>

(* The page of one site, of which the user may store a selection; the       *)
(* preview, which stores nothing; the synchronisation of all providers.  A  *)
(* reconciliation is a page of which everything is selected.                *)
Modes == {"page", "preview", "all"}
Fetching == {"begin", "online", "offline", "html", "helix", "gql", "guide", "browse", "live"}
Change(at, c, follow) ==
  [at |-> at, channel |-> c, follow |-> follow, clicked |-> FALSE, was |-> listed]
NoChange == [at |-> "idle", channel |-> 0, follow |-> FALSE, clicked |-> FALSE, was |-> {}]
NoSync == [at |-> "idle", mode |-> "all", sel |-> {}, again |-> FALSE, offset |-> 0,
           total |-> -1, seen |-> {}, got |-> {}, kept |-> {}, was |-> {}, quiet |-> TRUE]

(***************************************************************************)
(* What each flow may have seen on the site since it began: `was` holds    *)
(* the channels listed at some moment of the flow; `quiet` says that       *)
(* nothing moved on the site or in the rows while a synchronisation ran,   *)
(* and `clicked` that the helper only pressed the button of the page.      *)
(***************************************************************************)
Saw(flow, now) ==
  IF flow.at = "idle" THEN flow ELSE [flow EXCEPT !.was = @ \cup now]
Disturbed(now) ==
  IF sync.at = "idle" THEN sync
  ELSE [sync EXCEPT !.quiet = FALSE, !.was = @ \cup now]

Listed(c, follow) == IF follow THEN listed \cup {c} ELSE listed \ {c}

-----------------------------------------------------------------------------
(* The synchronisation: its beginning and its ends. *)

SyncBegin(mode, sel) ==
  /\ sync.at = "idle"
  /\ sel # {} /\ (mode # "page" => sel = Channels)
  /\ sync' = [NoSync EXCEPT !.at = "begin", !.mode = mode, !.sel = sel, !.was = listed]
  /\ UNCHANGED <<kind, limit, listed, online, accepted, flagged, cache, act, cmd, changes>>

FirstRequest == CASE kind \in {"chaturbate", "stripchat"} -> "online"
                  [] kind = "twitch"   -> "helix"
                  [] kind = "youtube"  -> "guide"
                  [] kind = "bilibili" -> "browse"

(* Every provider asks who is logged in before it asks for the list; the    *)
(* Chaturbate one looks at its own flag instead.  Stripchat's question has  *)
(* no third answer: one that could not be asked is a refusal as well.       *)
FlagSaysNo    == kind = "chaturbate" /\ ~flagged
TwitchSaysNo  == kind = "twitch" /\ ~accepted
YoutubeSaysNo == kind = "youtube" /\ ~accepted
BiliSaysNo    == kind = "bilibili" /\ ~accepted
MayAsk == ~(FlagSaysNo \/ TwitchSaysNo \/ YoutubeSaysNo \/ BiliSaysNo)

SyncAsks ==
  /\ sync.at = "begin" /\ MayAsk /\ (kind = "stripchat" => accepted)
  /\ sync' = [sync EXCEPT !.at = FirstRequest]
  /\ UNCHANGED <<kind, limit, listed, online, accepted, flagged, cache, act, cmd, changes>>

(* The provider raises ProviderAuthError: once, the saved credentials are   *)
(* tried and the list is asked for again; otherwise the login is marked as  *)
(* gone.  The synchronisation of all providers does neither.                *)
AuthRefused ==
  \/ sync.at = "begin" /\ (kind = "stripchat" \/ ~MayAsk)
  \/ sync.at \in Fetching \ {"begin"} /\ kind \notin {"chaturbate", "twitch"} /\ ~accepted

SyncRetries ==
  /\ AuthRefused /\ sync.mode # "all" /\ ~sync.again
  /\ kind \in {"chaturbate", "stripchat"}
  /\ accepted' = TRUE /\ flagged' = TRUE
  /\ sync' = [sync EXCEPT !.at = "begin", !.again = TRUE, !.got = {}, !.seen = {},
                          !.offset = 0, !.total = -1]
  /\ UNCHANGED <<kind, limit, listed, online, cache, act, cmd, changes>>

SyncRefused ==
  /\ AuthRefused
  /\ flagged' = (sync.mode = "all" /\ flagged)
  /\ sync' = NoSync
  /\ UNCHANGED <<kind, limit, listed, online, accepted, cache, act, cmd, changes>>

(* A request fails for another reason, or the minute for the whole list is  *)
(* over: the error is raised and no row is touched.  After a retry it marks *)
(* the login as gone.                                                       *)
Raised ==
  /\ sync' = NoSync
  /\ flagged' = (flagged /\ ~sync.again)
  /\ UNCHANGED <<kind, limit, listed, online, accepted, cache, act, cmd, changes>>

StripchatFails == kind = "stripchat" /\ sync.at \in {"online", "offline"} /\ Raised
YoutubeFails   == kind = "youtube" /\ sync.at \in {"guide", "browse"} /\ Raised
BilibiliFails  == kind = "bilibili" /\ sync.at \in {"browse", "live"} /\ Raised
TimesOut       == sync.at \in Fetching /\ Raised

(* Chaturbate raises nothing: the roomlist falls back to the page of        *)
(* followed rooms, and when that fails as well the list is not trusted.     *)
ToHtml == [sync EXCEPT !.at = "html", !.got = {}]

RoomlistFails ==
  /\ kind = "chaturbate" /\ sync.at \in {"online", "offline"}
  /\ sync' = ToHtml
  /\ UNCHANGED <<kind, limit, listed, online, accepted, flagged, cache, act, cmd, changes>>

HtmlFails ==
  /\ sync.at = "html"
  /\ sync' = NoSync
  /\ UNCHANGED <<kind, limit, listed, online, accepted, flagged, cache, act, cmd, changes>>

(* The list is in: keep what the user selected; a selection that is not in  *)
(* the list is an error, and a preview writes nothing.                      *)
Fetched(items) ==
  LET kept == items \cap sync.sel
  IN  IF sync.mode = "preview" \/ (kept = {} /\ sync.sel # Channels)
      THEN NoSync
      ELSE [NoSync EXCEPT !.at = "store", !.got = kept, !.sel = sync.sel, !.was = sync.was,
                          !.quiet = sync.quiet]

-----------------------------------------------------------------------------
(* Reading the list, one provider at a time. *)

Category(at) == {c \in listed : (c \in online) = (at = "online")}

(* The page of a category that begins at an offset. *)
Page(category, offset) ==
  {c \in category : Cardinality({d \in category : d < c}) \in offset .. (offset + PageSize - 1)}

(* The first channels of a list, and those that a provider reads whose list *)
(* ends at a number of pages and of channels.                               *)
First(S, n) == {c \in S : Cardinality({d \in S : d < c}) < n}
Capped == First(First(listed, limit.pages * PageSize), limit.items)

NextCategory(got) ==
  [sync EXCEPT !.at = "offline", !.got = got, !.offset = 0, !.total = -1, !.seen = {}]

(* Chaturbate's roomlist: a page is refused when the total moved, when a    *)
(* room came twice, when the list ended early or is longer than the limit;  *)
(* an empty list is not trusted.                                            *)
RoomlistPage ==
  LET category == Category(sync.at)
      page == Page(category, sync.offset)
      total == Cardinality(category)
      next == sync.offset + Cardinality(page)
      got == sync.got \cup page
      wrong == \/ sync.total \notin {-1, total}
               \/ total > limit.items \/ Cardinality(got) > limit.items
               \/ next > total
               \/ page = {} /\ sync.offset < total
               \/ page \cap sync.seen # {}
               \/ next < total /\ Cardinality(page) < PageSize
               \/ next = total /\ sync.at = "offline" /\ got = {}
  IN  /\ kind = "chaturbate" /\ sync.at \in {"online", "offline"} /\ accepted
      /\ sync' = CASE wrong -> ToHtml
                   [] ~wrong /\ next = total /\ sync.at = "online" -> NextCategory(got)
                   [] ~wrong /\ next = total /\ sync.at = "offline" -> Fetched(got)
                   [] OTHER -> [sync EXCEPT !.got = got, !.offset = next, !.total = total,
                                            !.seen = @ \cup page]
      /\ UNCHANGED <<kind, limit, listed, online, accepted, flagged, cache, act, cmd, changes>>

(* The HTML page is taken when it has no successor, all of the list at once, *)
(* unless the list is longer than the limit.                                 *)
HtmlPage ==
  /\ sync.at = "html" /\ accepted
  /\ sync' = IF Cardinality(listed) > limit.items THEN NoSync ELSE Fetched(listed)
  /\ UNCHANGED <<kind, limit, listed, online, accepted, flagged, cache, act, cmd, changes>>

(* mutants: a boundary off by one, a follow stored whatever the site said *)
LastPageEarly(page, next, total) == Cardinality(page) < PageSize \/ next + 1 >= total

LastPage(page, next, total) == Cardinality(page) < PageSize \/ next >= total

(* Stripchat's favourites: the same two categories, nothing compared.  A     *)
(* page that does not say how long the list is counts as the list, and the   *)
(* last page that may be read as its end.                                    *)
FavoritesPage ==
  LET category == Category(sync.at)
      page == Page(category, sync.offset)
      got == sync.got \cup page
      total == Cardinality(IF limit.counted THEN category ELSE page)
      last == \/ LastPage(page, sync.offset + PageSize, total)
              \/ sync.offset + PageSize >= limit.pages * PageSize
  IN  /\ kind = "stripchat" /\ sync.at \in {"online", "offline"} /\ accepted
      /\ sync' = CASE last /\ sync.at = "online"  -> NextCategory(got)
                   [] last /\ sync.at = "offline" -> Fetched(got)
                   [] OTHER -> [sync EXCEPT !.got = got, !.offset = @ + PageSize]
      /\ UNCHANGED <<kind, limit, listed, online, accepted, flagged, cache, act, cmd, changes>>

(* Twitch: Helix gives the first pages it could read, possibly none, and no  *)
(* more than the limit.                                                      *)
HelixList ==
  /\ kind = "twitch" /\ sync.at = "helix"
  /\ \E read \in SUBSET Capped :
       /\ \A c \in read, d \in listed : d < c => d \in read
       /\ sync' = [sync EXCEPT !.at = "gql", !.got = read]
  /\ UNCHANGED <<kind, limit, listed, online, accepted, flagged, cache, act, cmd, changes>>

(* Helix rows have no face, so GraphQL is always asked as well; its list    *)
(* replaces the first one unless it is empty or the request failed.         *)
GqlList ==
  /\ sync.at = "gql"
  /\ \E answer \in {Capped, {}} :
       sync' = Fetched(IF answer # {} THEN answer ELSE sync.got)
  /\ UNCHANGED <<kind, limit, listed, online, accepted, flagged, cache, act, cmd, changes>>

(* YouTube: the sidebar first, then the pages of the list, until there are  *)
(* as many as the limit; an empty list is not trusted.                      *)
GuideList ==
  /\ sync.at = "guide" /\ accepted
  /\ \E read \in SUBSET listed :
       /\ Cardinality(read) <= limit.items
       /\ sync' = IF Cardinality(read) = limit.items
                  THEN Fetched(read)
                  ELSE [sync EXCEPT !.at = "browse", !.got = read]
  /\ UNCHANGED <<kind, limit, listed, online, accepted, flagged, cache, act, cmd, changes>>

SubscriptionList ==
  LET more == First(listed, limit.pages * PageSize) \ sync.got
      got  == sync.got \cup First(more, limit.items - Cardinality(sync.got))
  IN  /\ kind = "youtube" /\ sync.at = "browse" /\ accepted
      /\ sync' = IF got = {} THEN NoSync ELSE Fetched(got)
      /\ UNCHANGED <<kind, limit, listed, online, accepted, flagged, cache, act, cmd, changes>>

(* Bilibili: the pages up to the limit, less the channels whose room could   *)
(* not be looked up.  The list of live rooms only says who is on air.        *)
RelationList ==
  /\ kind = "bilibili" /\ sync.at = "browse" /\ accepted
  /\ \E read \in SUBSET Capped : sync' = [sync EXCEPT !.at = "live", !.got = read]
  /\ UNCHANGED <<kind, limit, listed, online, accepted, flagged, cache, act, cmd, changes>>

LiveList ==
  /\ sync.at = "live" /\ accepted
  /\ sync' = Fetched(sync.got)
  /\ UNCHANGED <<kind, limit, listed, online, accepted, flagged, cache, act, cmd, changes>>

-----------------------------------------------------------------------------
(* Writing the rows: one upsert at a time, then the rows that are not in    *)
(* the list go, in one transaction.                                         *)

StoreItem ==
  /\ sync.at = "store"
  /\ \E c \in sync.got \ sync.kept :
       /\ cache' = cache \cup {c}
       /\ sync' = [sync EXCEPT !.kept = @ \cup {c}]
  /\ UNCHANGED <<kind, limit, listed, online, accepted, flagged, act, cmd, changes>>

RemoveUnfollowed ==
  /\ sync.at = "store" /\ sync.kept = sync.got
  /\ cache' = cache \cap sync.got
  /\ sync' = NoSync
  /\ UNCHANGED <<kind, limit, listed, online, accepted, flagged, act, cmd, changes>>

-----------------------------------------------------------------------------
(* A follow or an unfollow through the server: the site first, then the     *)
(* row.                                                                     *)

FollowRequest(c, follow) ==
  /\ act.at = "idle" /\ flagged /\ changes < MaxChanges
  /\ act' = Change("remote", c, follow)
  /\ changes' = changes + 1
  /\ UNCHANGED <<kind, limit, listed, online, accepted, flagged, cache, sync, cmd>>

(* The site does it, and the answer arrives or comes too late. *)
Done(next) ==
  LET now == Listed(act.channel, act.follow)
  IN  /\ act.at = "remote" /\ accepted
      /\ listed' = now
      /\ \/ act' = Saw([act EXCEPT !.at = next], now)
         \/ act' = NoChange
      /\ sync' = Disturbed(now) /\ cmd' = Saw(cmd, now)
      /\ UNCHANGED <<kind, limit, online, accepted, flagged, cache, changes>>

TwitchFollows    == kind = "twitch" /\ Done("local")
YoutubeFollows   == kind = "youtube" /\ Done("local")
BilibiliFollows  == kind = "bilibili" /\ Done("local")
StripchatFollows == kind = "stripchat" /\ Done("local")

(* Chaturbate may answer 200 and drop the request: its answer is compared   *)
(* with what the site says afterwards.  A check that could not be made says *)
(* that the channel is not followed.                                        *)
ChaturbateFollows == kind = "chaturbate" /\ Done("check")

ChaturbateDrops ==
  /\ kind = "chaturbate" /\ act.at = "remote"
  /\ act' = [act EXCEPT !.at = "check"]
  /\ UNCHANGED <<kind, limit, listed, online, accepted, flagged, cache, sync, cmd, changes>>

CheckFollow ==
  /\ act.at = "check"
  /\ \E says \in {accepted /\ act.channel \in listed, FALSE} :
       act' = IF says = act.follow THEN [act EXCEPT !.at = "local"] ELSE NoChange
  /\ UNCHANGED <<kind, limit, listed, online, accepted, flagged, cache, sync, cmd, changes>>

FailedFollowStored ==
  /\ act.at = "remote"
  /\ act' = [act EXCEPT !.at = "local"]
  /\ UNCHANGED <<kind, limit, listed, online, accepted, flagged, cache, sync, cmd, changes>>

RemoteFollowFails ==
  /\ act.at = "remote"
  /\ act' = NoChange
  /\ UNCHANGED <<kind, limit, listed, online, accepted, flagged, cache, sync, cmd, changes>>

(* remoteCompleted: the page read that the helper's command succeeded and   *)
(* makes the request that stores the row again.                             *)
FollowReported ==
  /\ cmd.at = "reported" /\ act.at = "idle" /\ flagged
  /\ act' = [cmd EXCEPT !.at = "local"] /\ cmd' = NoChange
  /\ UNCHANGED <<kind, limit, listed, online, accepted, flagged, cache, sync, changes>>

CacheWith(c, follow) == IF follow THEN cache \cup {c} ELSE cache \ {c}

LocalFollow ==
  /\ act.at = "local"
  /\ cache' = CacheWith(act.channel, act.follow)
  /\ act' = NoChange /\ sync' = Disturbed(listed)
  /\ UNCHANGED <<kind, limit, listed, online, accepted, flagged, cmd, changes>>

-----------------------------------------------------------------------------
(* The same through the helper: a command, the result it reports, and an    *)
(* entry that expires.                                                      *)

QueueFollow(c, follow) ==
  /\ cmd.at = "idle" /\ kind = "twitch" /\ changes < MaxChanges
  /\ cmd' = Change("queued", c, follow)
  /\ changes' = changes + 1
  /\ UNCHANGED <<kind, limit, listed, online, accepted, flagged, cache, sync, act>>

(* The helper's own request does it, whether or not the answer arrives.     *)
HelperFollows ==
  /\ cmd.at = "queued"
  /\ LET now == Listed(cmd.channel, cmd.follow)
     IN  /\ listed' = now
         /\ \/ cmd' = Saw([cmd EXCEPT !.at = "done"], now)
            \/ cmd' = NoChange
         /\ sync' = Disturbed(now) /\ act' = Saw(act, now)
  /\ UNCHANGED <<kind, limit, online, accepted, flagged, cache, changes>>

(* Refused without a valid integrity token: the button is pressed in a      *)
(* Chrome of the helper's own.  A button pressed, or an unfollow after      *)
(* which the page does not show the channel as followed, counts as done.    *)
HelperClicks ==
  /\ cmd.at = "queued"
  /\ \E now \in {listed, Listed(cmd.channel, cmd.follow)} :
       /\ listed' = now
       /\ cmd' = Saw([cmd EXCEPT !.at = "done", !.clicked = TRUE], now)
       /\ IF now = listed THEN UNCHANGED <<sync, act>>
                          ELSE sync' = Disturbed(now) /\ act' = Saw(act, now)
  /\ UNCHANGED <<kind, limit, online, accepted, flagged, cache, changes>>

FollowResult ==
  /\ cmd.at = "done"
  /\ cmd' = [cmd EXCEPT !.at = "local"]
  /\ UNCHANGED <<kind, limit, listed, online, accepted, flagged, cache, sync, act, changes>>

FollowResultStored ==
  /\ cmd.at = "local"
  /\ cache' = CacheWith(cmd.channel, cmd.follow)
  /\ cmd' = [cmd EXCEPT !.at = "reported"] /\ sync' = Disturbed(listed)
  /\ UNCHANGED <<kind, limit, listed, online, accepted, flagged, act, changes>>

(* The command fails, the entry expires before it ran or was read, or the   *)
(* report never arrives.                                                    *)
FollowExpires ==
  /\ cmd.at \in {"queued", "done", "reported"}
  /\ cmd' = NoChange
  /\ UNCHANGED <<kind, limit, listed, online, accepted, flagged, cache, sync, act, changes>>

-----------------------------------------------------------------------------
(* The site. *)

SiteFollow(c) ==
  /\ changes < MaxChanges
  /\ LET now == Listed(c, c \notin listed)
     IN  /\ listed' = now
         /\ sync' = Disturbed(now) /\ act' = Saw(act, now) /\ cmd' = Saw(cmd, now)
  /\ changes' = changes + 1
  /\ UNCHANGED <<kind, limit, online, accepted, flagged, cache>>

(* Chaturbate and Stripchat list the channels on air and the others apart.  *)
Split == kind \in {"chaturbate", "stripchat"}

SiteOnline(c) ==
  /\ Split /\ changes < MaxChanges
  /\ online' = IF c \in online THEN online \ {c} ELSE online \cup {c}
  /\ sync' = Disturbed(listed)
  /\ changes' = changes + 1
  /\ UNCHANGED <<kind, limit, listed, accepted, flagged, cache, act, cmd>>

SessionEnds ==
  /\ accepted /\ changes < MaxChanges
  /\ accepted' = FALSE
  /\ changes' = changes + 1
  /\ UNCHANGED <<kind, limit, listed, online, flagged, cache, sync, act, cmd>>

(* The user imports a session again. *)
SessionImported ==
  /\ ~(accepted /\ flagged) /\ changes < MaxChanges
  /\ accepted' = TRUE /\ flagged' = TRUE
  /\ changes' = changes + 1
  /\ UNCHANGED <<kind, limit, listed, online, cache, sync, act, cmd>>

-----------------------------------------------------------------------------
Init ==
  /\ kind \in Kinds /\ limit \in Limits[kind]
  /\ listed \in SUBSET Channels /\ cache \in {{}, listed}
  /\ online \in SUBSET Channels /\ (Split \/ online = {})
  /\ accepted = TRUE /\ flagged = TRUE
  /\ sync = NoSync /\ act = NoChange /\ cmd = NoChange /\ changes = 0

Next ==
  \/ \E mode \in Modes, sel \in SUBSET Channels : SyncBegin(mode, sel)
  \/ SyncAsks
  \/ SyncRetries
  \/ SyncRefused
  \/ StripchatFails
  \/ YoutubeFails
  \/ BilibiliFails
  \/ TimesOut
  \/ RoomlistFails
  \/ HtmlFails
  \/ RoomlistPage
  \/ HtmlPage
  \/ FavoritesPage
  \/ HelixList
  \/ GqlList
  \/ GuideList
  \/ SubscriptionList
  \/ RelationList
  \/ LiveList
  \/ StoreItem
  \/ RemoveUnfollowed
  \/ \E c \in Channels, follow \in BOOLEAN : FollowRequest(c, follow)
  \/ TwitchFollows
  \/ YoutubeFollows
  \/ BilibiliFollows
  \/ StripchatFollows
  \/ ChaturbateFollows
  \/ ChaturbateDrops
  \/ CheckFollow
  \/ RemoteFollowFails
  \/ FollowReported
  \/ LocalFollow
  \/ \E c \in Channels, follow \in BOOLEAN : QueueFollow(c, follow)
  \/ HelperFollows
  \/ HelperClicks
  \/ FollowResult
  \/ FollowResultStored
  \/ FollowExpires
  \/ \E c \in Channels : SiteFollow(c)
  \/ \E c \in Channels : SiteOnline(c)
  \/ SessionEnds
  \/ SessionImported

Spec == Init /\ [][Next]_vars

-----------------------------------------------------------------------------
(* Properties. *)

(* The state has its type: the flows only speak of channels that exist.     *)
TypeOK ==
  /\ kind \in Kinds /\ limit \in Limits[kind]
  /\ listed \subseteq Channels /\ online \subseteq Channels /\ cache \subseteq Channels
  /\ accepted \in BOOLEAN /\ flagged \in BOOLEAN
  /\ sync.at \in Fetching \cup {"idle", "store"} /\ sync.mode \in Modes
  /\ sync.kept \subseteq sync.got /\ sync.got \subseteq sync.was
  /\ act.at \in {"idle", "remote", "check", "local"}
  /\ cmd.at \in {"idle", "queued", "done", "local", "reported"}

(* A list of which the provider can read everything.  Chaturbate needs no   *)
(* such condition: it refuses a list it cannot read to its end.  Twitch and *)
(* Bilibili take what they could read for the whole.                        *)
Fits ==
  /\ kind \notin {"twitch", "bilibili"}
  /\ kind = "stripchat" =>
       /\ limit.counted
       /\ \A at \in {"online", "offline"} : Cardinality(Category(at)) <= limit.pages * PageSize
  /\ kind = "youtube" =>
       Cardinality(listed) <= limit.pages * PageSize /\ Cardinality(listed) <= limit.items

(* A synchronisation during which nothing moved leaves only channels that   *)
(* the site lists and the user selected, and all of them if the list fits:  *)
(* no page is skipped at a boundary, no category is forgotten, no partial   *)
(* list counts as the whole.  (refresh_remote_follow_cache after each       *)
(* provider's sync_following.)                                              *)
QuietSyncIsWhole ==
  [][(RemoveUnfollowed /\ sync.quiet)
       => /\ cache' \subseteq listed \cap sync.sel
          /\ Fits => cache' = listed \cap sync.sel]_vars

(* A row that appears is that of a channel the account followed at some     *)
(* moment since the flow that writes it began, or one whose button the      *)
(* helper pressed: neither a failed follow nor an expired command puts a    *)
(* channel into the list.                                                   *)
RowsWereFollowed ==
  [][\A c \in cache' \ cache :
       \/ sync.at = "store" /\ c \in sync.was
       \/ \E flow \in {act, cmd} :
            flow.at = "local" /\ flow.channel = c /\ (c \in flow.was \/ flow.clicked)]_vars
=============================================================================
