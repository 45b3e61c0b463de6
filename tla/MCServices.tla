------------------------------ MODULE MCServices ------------------------------
(***************************************************************************)
(* Small instances of the services beside the publishing engine, checked in *)
(* one run: the initial state chooses a part, and only that part moves.     *)
(***************************************************************************)
EXTENDS Editorial, QueueSlots, Reminders, Deliveries, Inbox, Campaigns, MediaJobs,
        Connections, MediaLibrary, Organization, Subscriptions, Providers, Analytics,
        AgentAccess, Drafting, Ideas, CsvImport, MediaFolders, MediaVersions,
        Connecting, Grants, Portal, Discussion, AgentCalls, Feeds, Insights,
        Generations, TLC

CONSTANTS p1, p2, t1, t2

VARIABLE part

Parts == {"editorial", "slots", "reminders", "deliveries", "inbox", "campaign", "media",
          "connection", "library", "organization", "subscription", "publish",
          "analytics", "keys", "drafting", "children", "ideas", "csv", "folders",
          "versions", "connecting", "grants", "portal", "discussion", "calls",
          "throttle", "feeds", "insights", "generation"}

servicesVars == <<part, editorialVars, slotVars, reminderVars, deliveryVars, inboxVars,
                  campaignVars, mediaVars, connectionVars, libraryVars, orgVars,
                  billingVars, publishVars, analyticsVars, accessVars, draftVars,
                  childVars, boardVars, csvVars, folderVars, versionVars, connectVars,
                  grantVars, portalVars, talkVars, callVars, throttleVars, feedVars,
                  insightVars, generationVars>>

\* The variables of a part that was not chosen stand still.
Still == 0

ServicesInit ==
    /\ part \in Parts
    /\ IF part = "editorial" THEN EditorialInit
       ELSE mode = Still /\ status = Still /\ content = Still /\ vetted = Still
            /\ signed = Still /\ lapse = Still /\ req = Still /\ edits = Still
            /\ begun = Still
    /\ IF part = "slots" THEN SlotInit
       ELSE qrow = Still /\ entries = Still /\ slots = Still /\ qnow = Still
            /\ slotOp = Still /\ loose = Still /\ slotOps = Still
    /\ IF part = "reminders" THEN ReminderInit
       ELSE waiting = Still /\ updated = Still /\ reminder = Still /\ hour = Still
            /\ sweep = Still /\ round = Still /\ moves = Still /\ sweepDeaths = Still
    /\ IF part = "deliveries" THEN DeliveryInit
       ELSE delivery = Still /\ todo = Still /\ inHand = Still /\ minute = Still
            /\ accepted = Still /\ lostAcks = Still /\ deliveryDeaths = Still
    /\ IF part = "inbox" THEN InboxInit
       ELSE sentAt = Still /\ listing = Still /\ message = Still /\ pull = Still /\ hook = Still
            /\ poll = Still /\ alerts = Still /\ overdueNotices = Still /\ quiet = Still
            /\ passed = Still /\ erased = Still /\ pulls = Still /\ inboxFaults = Still
    /\ IF part = "campaign" THEN CampaignInit
       ELSE campaign = Still /\ draft = Still /\ request = Still /\ tasks = Still
            /\ worker = Still /\ approval = Still /\ edit = Still /\ connected = Still
            /\ recorded = Still /\ generation = Still /\ editsDone = Still
            /\ campaignFaults = Still /\ posts = Still /\ raced = Still
            /\ overtaken = Still
    /\ IF part = "media" THEN MediaInit
       ELSE job = Still /\ mediaTasks = Still /\ step = Still /\ seen = Still
            /\ calls = Still /\ accidents = Still
    /\ IF part = "connection" THEN ConnectionInit
       ELSE account = Still /\ granted = Still /\ queued = Still /\ hand = Still
            /\ slipped = Still /\ tokenFaults = Still
    /\ IF part = "library" THEN LibraryInit
       ELSE upload = Still /\ object = Still /\ assets = Still /\ usage = Still
            /\ finalize = Still /\ reaper = Still /\ remover = Still /\ age = Still
            /\ slips = Still /\ late = Still /\ dropped = Still /\ mediaMoves = Still
            /\ libraryFaults = Still
    /\ IF part = "organization" THEN OrgInit
       ELSE member = Still /\ inWorkspace = Still /\ invitation = Still
            /\ orgReq = Still /\ alive = Still /\ deletion = Still /\ purges = Still
            /\ purging = Still /\ day = Still /\ strays = Still /\ orgOps = Still
            /\ orgDeaths = Still
    /\ IF part = "subscription" THEN BillingInit
       ELSE attempt = Still /\ sub = Still /\ pend = Still /\ activations = Still
            /\ billing = Still /\ admins = Still /\ session = Still /\ contract = Still
            /\ keys = Still /\ billingOps = Still /\ billingFaults = Still
            /\ stranded = Still /\ overtakenKeys = Still /\ crossed = Still
    /\ IF part = "publish" THEN PublishInit
       ELSE publish = Still /\ postsMade = Still /\ unheard = Still /\ onPage = Still
            /\ leftOver = Still
    /\ IF part = "analytics" THEN AnalyticsInit
       ELSE metered = Still /\ backfills = Still /\ sync = Still /\ rows = Still
            /\ video = Still /\ clock = Still /\ accountChanges = Still
            /\ syncFaults = Still /\ told = Still
    /\ IF part = "keys" THEN AccessInit
       ELSE key = Still /\ holds = Still /\ cached = Still /\ agent = Still
            /\ keyEdits = Still /\ hours = Still /\ keyChanges = Still /\ keyPast = Still
    /\ IF part = "drafting" THEN DraftInit
       ELSE drafts = Still /\ page = Still /\ pendingMedia = Still /\ library = Still
            /\ pageCalls = Still /\ callCount = Still /\ draftPast = Still
    /\ IF part = "children" THEN ChildInit
       ELSE children = Still /\ saves = Still /\ saveCount = Still /\ childPast = Still
    /\ IF part = "ideas" THEN BoardInit
       ELSE ideas = Still /\ columns = Still /\ planner = Still /\ ideaOps = Still
            /\ converted = Still /\ boardPast = Still
    /\ IF part = "csv" THEN CsvInit
       ELSE csv = Still /\ importer = Still /\ csvCalls = Still /\ csvFaults = Still
            /\ imported = Still /\ csvPast = Still
    /\ IF part = "folders" THEN FolderInit
       ELSE folders = Still /\ place = Still /\ tidying = Still /\ folderOps = Still
            /\ folderPast = Still
    /\ IF part = "versions" THEN VersionInit
       ELSE medium = Still /\ versions = Still /\ objects = Still /\ rendered = Still
            /\ jobs = Still /\ runner = Still /\ editors = Still /\ editOps = Still
            /\ editFaults = Still /\ versionPast = Still
    /\ IF part = "connecting" THEN ConnectInit
       ELSE browserOf = Still /\ sessions = Still /\ auths = Still /\ apps = Still
            /\ clients = Still /\ socialAccounts = Still /\ defaultQueues = Still
            /\ linkUsages = Still /\ mayConnect = Still /\ tabs = Still /\ ends = Still
            /\ died = Still /\ tooLate = Still /\ appRefused = Still
    /\ IF part = "grants" THEN GrantInit
       ELSE grantClock = Still /\ held = Still
    /\ IF part = "portal" THEN PortalInit
       ELSE belongs = Still /\ links = Still /\ portalSession = Still
            /\ linkPage = Still /\ post = Still /\ task = Still /\ answers = Still
            /\ portalOps = Still
    /\ IF part = "discussion" THEN TalkInit
       ELSE comments = Still /\ talk = Still /\ mentions = Still /\ talkOps = Still
    /\ IF part = "calls" THEN CallInit
       ELSE agentRows = Still /\ charged = Still /\ call = Still /\ handled = Still
            /\ owed = Still /\ capDay = Still /\ callNo = Still /\ callFaults = Still
    /\ IF part = "throttle" THEN ThrottleInit
       ELSE fails = Still /\ login = Still /\ tried = Still
    /\ IF part = "feeds" THEN FeedInit
       ELSE feeds = Still /\ listCache = Still /\ load = Still /\ view = Still
            /\ lastFeedId = Still /\ feedOps = Still
    /\ IF part = "insights" THEN InsightInit
       ELSE metric = Still /\ today = Still /\ publishedOn = Still /\ postRows = Still
            /\ accountRows = Still /\ followerRows = Still /\ syncNo = Still
            /\ accountSyncs = Still
    /\ IF part = "generation" THEN GenerationInit
       ELSE connection = Still /\ form = Still /\ probe = Still /\ chain = Still
            /\ attempted = Still /\ generated = Still /\ planned = Still
            /\ formsDone = Still /\ probesDone = Still /\ entered = Still /\ proven = Still
            /\ crossedRows = Still

\* Only part x moves.
Only(x) ==
    /\ part = x /\ UNCHANGED part
    /\ x # "editorial" => UNCHANGED editorialVars
    /\ x # "slots" => UNCHANGED slotVars
    /\ x # "reminders" => UNCHANGED reminderVars
    /\ x # "deliveries" => UNCHANGED deliveryVars
    /\ x # "inbox" => UNCHANGED inboxVars
    /\ x # "campaign" => UNCHANGED campaignVars
    /\ x # "media" => UNCHANGED mediaVars
    /\ x # "connection" => UNCHANGED connectionVars
    /\ x # "library" => UNCHANGED libraryVars
    /\ x # "organization" => UNCHANGED orgVars
    /\ x # "subscription" => UNCHANGED billingVars
    /\ x # "publish" => UNCHANGED publishVars
    /\ x # "analytics" => UNCHANGED analyticsVars
    /\ x # "keys" => UNCHANGED accessVars
    /\ x # "drafting" => UNCHANGED draftVars
    /\ x # "children" => UNCHANGED childVars
    /\ x # "ideas" => UNCHANGED boardVars
    /\ x # "csv" => UNCHANGED csvVars
    /\ x # "folders" => UNCHANGED folderVars
    /\ x # "versions" => UNCHANGED versionVars
    /\ x # "connecting" => UNCHANGED connectVars
    /\ x # "grants" => UNCHANGED grantVars
    /\ x # "portal" => UNCHANGED portalVars
    /\ x # "discussion" => UNCHANGED talkVars
    /\ x # "calls" => UNCHANGED callVars
    /\ x # "throttle" => UNCHANGED throttleVars
    /\ x # "feeds" => UNCHANGED feedVars
    /\ x # "insights" => UNCHANGED insightVars
    /\ x # "generation" => UNCHANGED generationVars

ServicesNext ==
    \/ Only("editorial") /\ EditorialNext
    \/ Only("slots") /\ SlotNext
    \/ Only("reminders") /\ ReminderNext
    \/ Only("deliveries") /\ DeliveryNext
    \/ Only("inbox") /\ InboxNext
    \/ Only("campaign") /\ CampaignNext
    \/ Only("media") /\ MediaNext
    \/ Only("connection") /\ ConnectionNext
    \/ Only("library") /\ LibraryNext
    \/ Only("organization") /\ OrgNext
    \/ Only("subscription") /\ BillingNext
    \/ Only("publish") /\ PublishNext
    \/ Only("analytics") /\ AnalyticsNext
    \/ Only("keys") /\ AccessNext
    \/ Only("drafting") /\ DraftNext
    \/ Only("children") /\ ChildNext
    \/ Only("ideas") /\ BoardNext
    \/ Only("csv") /\ CsvNext
    \/ Only("folders") /\ FolderNext
    \/ Only("versions") /\ VersionNext
    \/ Only("connecting") /\ ConnectNext
    \/ Only("grants") /\ GrantNext
    \/ Only("portal") /\ PortalNext
    \/ Only("discussion") /\ TalkNext
    \/ Only("calls") /\ CallNext
    \/ Only("throttle") /\ ThrottleNext
    \/ Only("feeds") /\ FeedNext
    \/ Only("insights") /\ InsightNext
    \/ Only("generation") /\ GenerationNext

ServicesSpec == ServicesInit /\ [][ServicesNext]_servicesVars

ServicesTypeOK ==
    CASE part = "editorial" -> EditorialTypeOK
      [] part = "slots" -> SlotTypeOK
      [] part = "reminders" -> ReminderTypeOK
      [] part = "deliveries" -> DeliveryTypeOK
      [] part = "inbox" -> InboxTypeOK
      [] part = "campaign" -> CampaignTypeOK
      [] part = "media" -> MediaTypeOK
      [] part = "connection" -> ConnectionTypeOK
      [] part = "library" -> LibraryTypeOK
      [] part = "organization" -> OrgTypeOK
      [] part = "subscription" -> BillingTypeOK
      [] part = "publish" -> PublishTypeOK
      [] part = "analytics" -> AnalyticsTypeOK
      [] part = "keys" -> AccessTypeOK
      [] part = "drafting" -> DraftTypeOK
      [] part = "children" -> ChildTypeOK
      [] part = "ideas" -> BoardTypeOK
      [] part = "csv" -> CsvTypeOK
      [] part = "folders" -> FolderTypeOK
      [] part = "versions" -> VersionTypeOK
      [] part = "connecting" -> ConnectTypeOK
      [] part = "grants" -> GrantTypeOK
      [] part = "portal" -> PortalTypeOK
      [] part = "discussion" -> TalkTypeOK
      [] part = "calls" -> CallTypeOK
      [] part = "throttle" -> ThrottleTypeOK
      [] part = "feeds" -> FeedTypeOK
      [] part = "insights" -> InsightTypeOK
      [] part = "generation" -> GenerationTypeOK

\* Two of three posts of the channel hold its first two slots.
FirstTwoSlots == {<<"q1", "a", 1>>, <<"q1", "b", 2>>}

\* One file of two rows: the first has a date, the second no caption.
FirstRowOfF == {<<"f", 1>>}
SecondRowOfF == {<<"f", 2>>}

\* Folders as deep as they may be.
ThreeDeep == [f \in {"A", "B", "C"} |->
                CASE f = "A" -> [parent |-> Top, name |-> "x"]
                  [] f = "B" -> [parent |-> "A", name |-> "x"]
                  [] f = "C" -> [parent |-> "B", name |-> "y"]]

\* A Mastodon instance in the workspace of the link, and pages in another.
TwoPlaces == {<<"w1", "instance">>, <<"w2", "pages">>}

\* Two tabs of the member, or one of the member and one of the client.
OneGuest == {s \in [{t1, t2} -> {"member", "client"}] : s[t1] = "member" \/ s[t2] = "member"}

\* Tokens of hours end by the next tick, those of months four on; Soon is a week of two.
OneTickOrFour == "hours" :> 1 @@ "months" :> 4

\* A key may call once a minute and a person twice.
KeyAndPerson == "key" :> 1 @@ "person" :> 2

\* A draft alone, or a batch that moves an old post and schedules a new one.
Message(name, target) == [tool |-> name, post |-> target]
SomeBatches ==
    {<<Message("create_draft", "new")>>}
    \cup {<<Message(name, p), Message("schedule_post", "new")>> :
              name \in {"schedule_draft", "cancel_post"}, p \in {p1, p2}}

\* A feed that does not answer, or four entries: one without link or date, one twice.
NothingOrFour ==
    {<<>>,
     <<[link |-> "none", date |-> 0], [link |-> "l1", date |-> 1],
       [link |-> "l1", date |-> 1], [link |-> "l2", date |-> 2]>>}

NoneOrBoth == {<<>>, <<"a", "b">>}

\* Posts without a date, and of two days before the first sync.
UndatedOrOlder == {-1, -2}

\* A model whose name gives its provider away, unless it is behind a gateway.
FamilyOf == "gpt-5" :> "openai"

NoneOrThree == {<<>>, <<"openai", "gemini", "demo">>}

TomorrowOnly == <<1, 1>>

Proposed(allowed, caption, when, valid, topics) ==
    [allowed |-> allowed, caption |-> caption, at |-> [valid |-> valid, hour |-> when, offset |-> 0],
     topics |-> topics]

\* Nothing; two items, on tomorrow and the day after by the workspace's calendar; one
\* with no date and one for a platform that was not asked for.
SomeAnswers ==
    {{},
     {Proposed(TRUE, <<"w", " ", "w", "w", "w", "w", "w">>, 22, TRUE, {"content_pillar"}),
      Proposed(TRUE, <<"w">>, 47, TRUE, {"title"})},
     {Proposed(TRUE, <<"w", "w", "w", "w", "w", "w", "w">>, 0, FALSE, {}),
      Proposed(FALSE, <<"w">>, 30, TRUE, {})}}

-------------------------------------------------------------------------------
(* What the parts promise, each when it is the one that moves *)

\* No row goes out on a sign-off that its content has outlived.
EditorialIsSound == part = "editorial" => SignOffIsCurrent

\* No two posts of a channel get one instant from its queues.
QueueIsSound == part = "slots" => NoDoubleBooking

\* Reviewers are reminded a bounded number of times, then somebody is told once.
RemindersAreSound == part = "reminders" => RemindersThenOneEscalation

\* Each delivery of a notification is sent, given up or still to be tried.
DeliveriesAreSound == part = "deliveries" => DeliveriesAccountedFor

\* No message is missed and none is announced twice.
InboxIsSound == part = "inbox" => InboxHolds

\* What an approval makes of a campaign's drafts is made once and kept, a media job
\* calls its provider once per try, and a generation asks the providers and keys it
\* should and plans only what fits.
AutomationIsSound ==
    CASE part = "campaign" -> CampaignIsSound
      [] part = "media" -> MediaCallsBounded
      [] part = "generation" -> GenerationsHold
      [] OTHER -> TRUE

\* An account is connected where it was asked for, in full, and its grant is kept while
\* it lasts.
AccountsAreSound ==
    CASE part = "connection" -> GrantKept
      [] part = "connecting" -> ConnectionsAreSound
      [] part = "grants" -> GrantsHold
      [] OTHER -> TRUE

\* A library's files, folders and versions outlive what is done to them at once.
MediaIsSound ==
    CASE part = "library" -> LibraryIsSound
      [] part = "folders" -> FoldersAreSound
      [] part = "versions" -> VersionsAreSound
      [] OTHER -> TRUE

\* Who belongs to an organization is what was last decided, and its deletion comes.
OrganizationIsSound == part = "organization" => OrganizationHolds

\* A subscription is paid for once, and an active one has a key that works.
SubscriptionIsSound == part = "subscription" => SubscriptionHolds

\* What a platform accepted is told to the engine, and nothing else is.
PublishingIsTold == part = "publish" => OutcomeIsTold

\* Measurements are of the day and account they say, and tasks catch up with recent days,
\* present grants and posts.
AnalyticsAreSound == part = "analytics" => AnalyticsHold

\* The analytics pages count each measurement once and in the period it belongs to.
PagesAreSound == part = "insights" => InsightsHold

\* What grants access is what its owners last decided, and what it admits is bounded
\* and logged: keys, calls, failed logins, the portal and its comments.
AccessIsSound ==
    CASE part = "keys" -> KeysAreSound
      [] part = "portal" -> PortalIsSound
      [] part = "discussion" -> DiscussionIsSound
      [] part = "calls" -> AgentCallsAreSound
      [] part = "throttle" -> ThrottleHolds
      [] OTHER -> TRUE

\* What an author composes arrives once and whole, by page, board and file, and the
\* feeds shown beside it are the workspace's.
ComposingIsSound ==
    CASE part = "drafting" -> DraftingIsSound
      [] part = "children" -> SiblingsKept
      [] part = "ideas" -> IdeasAreSound
      [] part = "csv" -> ImportIsSound
      [] part = "feeds" -> FeedsAreSound
      [] OTHER -> TRUE

\* A decision of a reviewer stands until the author sends the row to review again.
DecisionsStand == [][part = "editorial" => DecisionKept]_servicesVars

\* The time of a row that is sent, or being sent, is history: no slot operation moves
\* it.
HistoryKept == [][part = "slots" => SentTimeKept]_servicesVars

Symmetry == Permutations({p1, p2}) \cup Permutations({t1, t2})
===============================================================================
