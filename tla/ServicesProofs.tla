----------------------------- MODULE ServicesProofs -----------------------------
(***************************************************************************)
(* What the services run checks of one part at a time, for every value of   *)
(* the constants: the part that was chosen behaves like its component, so   *)
(* what holds of the component holds of the part.                           *)
(***************************************************************************)
EXTENDS MCServices, NotificationProofs, EditorialProofs, AccountProofs, IntelligenceProofs,
        ComposingProofs, TLAPS

\* Which part moves never changes.
LEMMA PartStays == [ServicesNext]_servicesVars => part' = part
BY DEF ServicesNext, servicesVars, Only

-------------------------------------------------------------------------------
(* A step of the run is a step of its part, or none of it *)

LEMMA OnlyItsPart == ASSUME NEW x, Only(x) PROVE part = x
BY DEF Only

LEMMA EditorialPart ==
    ASSUME part = "editorial", [ServicesNext]_servicesVars
    PROVE  [EditorialNext]_editorialVars
BY OnlyItsPart DEF ServicesNext, servicesVars, editorialVars

LEMMA SlotsPart ==
    ASSUME part = "slots", [ServicesNext]_servicesVars
    PROVE  [SlotNext]_slotVars
BY OnlyItsPart DEF ServicesNext, servicesVars, slotVars

LEMMA RemindersPart ==
    ASSUME part = "reminders", [ServicesNext]_servicesVars
    PROVE  [ReminderNext]_reminderVars
BY OnlyItsPart DEF ServicesNext, servicesVars, reminderVars

LEMMA DeliveriesPart ==
    ASSUME part = "deliveries", [ServicesNext]_servicesVars
    PROVE  [DeliveryNext]_deliveryVars
BY OnlyItsPart DEF ServicesNext, servicesVars, deliveryVars

LEMMA InboxPart ==
    ASSUME part = "inbox", [ServicesNext]_servicesVars
    PROVE  [InboxNext]_inboxVars
BY OnlyItsPart DEF ServicesNext, servicesVars, inboxVars

LEMMA OrganizationPart ==
    ASSUME part = "organization", [ServicesNext]_servicesVars
    PROVE  [OrgNext]_orgVars
BY OnlyItsPart DEF ServicesNext, servicesVars, orgVars

LEMMA ConnectionPart ==
    ASSUME part = "connection", [ServicesNext]_servicesVars
    PROVE  [ConnectionNext]_connectionVars
BY OnlyItsPart DEF ServicesNext, servicesVars, connectionVars

LEMMA ConnectingPart ==
    ASSUME part = "connecting", [ServicesNext]_servicesVars
    PROVE  [ConnectNext]_connectVars
BY OnlyItsPart DEF ServicesNext, servicesVars, connectVars

LEMMA GrantsPart ==
    ASSUME part = "grants", [ServicesNext]_servicesVars
    PROVE  [GrantNext]_grantVars
BY OnlyItsPart DEF ServicesNext, servicesVars, grantVars

LEMMA CampaignPart ==
    ASSUME part = "campaign", [ServicesNext]_servicesVars
    PROVE  [CampaignNext]_campaignVars
BY OnlyItsPart DEF ServicesNext, servicesVars, campaignVars

LEMMA MediaPart ==
    ASSUME part = "media", [ServicesNext]_servicesVars
    PROVE  [MediaNext]_mediaVars
BY OnlyItsPart DEF ServicesNext, servicesVars, mediaVars

LEMMA GenerationPart ==
    ASSUME part = "generation", [ServicesNext]_servicesVars
    PROVE  [GenerationNext]_generationVars
BY OnlyItsPart DEF ServicesNext, servicesVars, generationVars

LEMMA PublishPart ==
    ASSUME part = "publish", [ServicesNext]_servicesVars
    PROVE  [PublishNext]_publishVars
BY OnlyItsPart DEF ServicesNext, servicesVars, publishVars

LEMMA KeysPart ==
    ASSUME part = "keys", [ServicesNext]_servicesVars
    PROVE  [AccessNext]_accessVars
BY OnlyItsPart DEF ServicesNext, servicesVars, accessVars

LEMMA PortalPart ==
    ASSUME part = "portal", [ServicesNext]_servicesVars
    PROVE  [PortalNext]_portalVars
BY OnlyItsPart DEF ServicesNext, servicesVars, portalVars

LEMMA DiscussionPart ==
    ASSUME part = "discussion", [ServicesNext]_servicesVars
    PROVE  [TalkNext]_talkVars
BY OnlyItsPart DEF ServicesNext, servicesVars, talkVars

LEMMA CallsPart ==
    ASSUME part = "calls", [ServicesNext]_servicesVars
    PROVE  [CallNext]_callVars
BY OnlyItsPart DEF ServicesNext, servicesVars, callVars

LEMMA ThrottlePart ==
    ASSUME part = "throttle", [ServicesNext]_servicesVars
    PROVE  [ThrottleNext]_throttleVars
BY OnlyItsPart DEF ServicesNext, servicesVars, throttleVars

LEMMA SubscriptionPart ==
    ASSUME part = "subscription", [ServicesNext]_servicesVars
    PROVE  [BillingNext]_billingVars
BY OnlyItsPart DEF ServicesNext, servicesVars, billingVars

LEMMA DraftingPart ==
    ASSUME part = "drafting", [ServicesNext]_servicesVars
    PROVE  [DraftNext]_draftVars
BY OnlyItsPart DEF ServicesNext, servicesVars, draftVars

LEMMA ChildrenPart ==
    ASSUME part = "children", [ServicesNext]_servicesVars
    PROVE  [ChildNext]_childVars
BY OnlyItsPart DEF ServicesNext, servicesVars, childVars

LEMMA IdeasPart ==
    ASSUME part = "ideas", [ServicesNext]_servicesVars
    PROVE  [BoardNext]_boardVars
BY OnlyItsPart DEF ServicesNext, servicesVars, boardVars

LEMMA CsvPart ==
    ASSUME part = "csv", [ServicesNext]_servicesVars
    PROVE  [CsvNext]_csvVars
BY OnlyItsPart DEF ServicesNext, servicesVars, csvVars

LEMMA FeedsPart ==
    ASSUME part = "feeds", [ServicesNext]_servicesVars
    PROVE  [FeedNext]_feedVars
BY OnlyItsPart DEF ServicesNext, servicesVars, feedVars

LEMMA LibraryPart ==
    ASSUME part = "library", [ServicesNext]_servicesVars
    PROVE  [LibraryNext]_libraryVars
BY OnlyItsPart DEF ServicesNext, servicesVars, libraryVars

LEMMA FoldersPart ==
    ASSUME part = "folders", [ServicesNext]_servicesVars
    PROVE  [FolderNext]_folderVars
BY OnlyItsPart DEF ServicesNext, servicesVars, folderVars

LEMMA VersionsPart ==
    ASSUME part = "versions", [ServicesNext]_servicesVars
    PROVE  [VersionNext]_versionVars
BY OnlyItsPart DEF ServicesNext, servicesVars, versionVars

LEMMA AnalyticsPart ==
    ASSUME part = "analytics", [ServicesNext]_servicesVars
    PROVE  [AnalyticsNext]_analyticsVars
BY OnlyItsPart DEF ServicesNext, servicesVars, analyticsVars

LEMMA InsightsPart ==
    ASSUME part = "insights", [ServicesNext]_servicesVars
    PROVE  [InsightNext]_insightVars
BY OnlyItsPart DEF ServicesNext, servicesVars, insightVars

-------------------------------------------------------------------------------

\* A row is approved and sent only on a sign-off of the content it has, in the run.
THEOREM EditorialInServices == ServicesSpec => []EditorialIsSound
<1> DEFINE Inv == part = "editorial" => EditorialInv
<1>1. ServicesInit => Inv
    BY EditorialInvInit DEF ServicesInit
<1>2. Inv /\ [ServicesNext]_servicesVars => Inv'
    BY PartStays, EditorialPart, EditorialNextKeeps
<1>3. Inv => EditorialIsSound
    BY EditorialInvSignsOff DEF EditorialIsSound
<1> QED BY <1>1, <1>2, <1>3, PTL DEF ServicesSpec

\* A rejected row, or one sent back, is approved only by an answer to what it was, in
\* the run.
THEOREM DecisionsInServices == ServicesSpec => DecisionsStand
<1> DEFINE Inv == part = "editorial" => EditorialInv
<1>1. ServicesInit => Inv
    BY EditorialInvInit DEF ServicesInit
<1>2. Inv /\ [ServicesNext]_servicesVars => Inv'
    BY PartStays, EditorialPart, EditorialNextKeeps
<1>3. Inv /\ [ServicesNext]_servicesVars => [part = "editorial" => DecisionKept]_servicesVars
    BY EditorialPart, EditorialStepKeepsDecisions
<1> QED BY <1>1, <1>2, <1>3, PTL DEF ServicesSpec, DecisionsStand

\* No slot operation moves the time of a row that is sent or being sent, in the run.
THEOREM SlotHistoryInServices == ServicesSpec => HistoryKept
<1> DEFINE Inv == part = "slots" => SlotInv
<1>1. ServicesInit => Inv
    BY SlotInvInit DEF ServicesInit
<1>2. Inv /\ [ServicesNext]_servicesVars => Inv'
    BY PartStays, SlotsPart, SlotNextKeeps
<1>3. Inv /\ [ServicesNext]_servicesVars => [part = "slots" => SentTimeKept]_servicesVars
    BY SlotsPart, SlotNextKeeps
<1> QED BY <1>1, <1>2, <1>3, PTL DEF ServicesSpec, HistoryKept

\* In the run of two posts that wait for one instant of a channel one is there by hand.
THEOREM QueueInServices == ServicesSpec => []QueueIsSound
<1> DEFINE Inv == part = "slots" => SlotIInv
<1>1. ServicesInit => Inv
    BY SlotIInvInit DEF ServicesInit
<1>2. Inv /\ [ServicesNext]_servicesVars => Inv'
    BY PartStays, SlotsPart, SlotIInvKept
<1>3. Inv => QueueIsSound
    BY DEF QueueIsSound, SlotIInv
<1> QED BY <1>1, <1>2, <1>3, PTL DEF ServicesSpec

\* In the run reviewers get at most MAX_REMINDERS reminders and one escalation of a
\* stage between two resets.
THEOREM RemindersInServices == ServicesSpec => []RemindersAreSound
<1> DEFINE Inv == part = "reminders" => ReminderInv
<1>1. ServicesInit => Inv
    BY ReminderInvInit DEF ServicesInit
<1>2. Inv /\ [ServicesNext]_servicesVars => Inv'
    BY PartStays, RemindersPart, ReminderNextKeeps
<1>3. Inv => RemindersAreSound
    BY ReminderInvBounds DEF RemindersAreSound
<1> QED BY <1>1, <1>2, <1>3, PTL DEF ServicesSpec

\* In the run each message a channel took answers to an attempt, and each delivery is
\* sent, given up, in a hand or due again.
THEOREM DeliveriesInServices == ServicesSpec => []DeliveriesAreSound
<1> DEFINE Inv == part = "deliveries" => DeliveryInv
<1>1. ServicesInit => Inv
    BY DeliveryInvInit DEF ServicesInit
<1>2. Inv /\ [ServicesNext]_servicesVars => Inv'
    BY PartStays, DeliveriesPart, DeliveryNextKeeps
<1>3. Inv => DeliveriesAreSound
    BY DeliveryInvAccounts DEF DeliveriesAreSound
<1> QED BY <1>1, <1>2, <1>3, PTL DEF ServicesSpec

\* In the run no message of the inbox is missed, and each is announced once.
THEOREM InboxInServices == ServicesSpec => []InboxIsSound
<1> DEFINE Inv == part = "inbox" => InboxInv
<1>1. ServicesInit => Inv
    BY InboxInvInit DEF ServicesInit
<1>2. Inv /\ [ServicesNext]_servicesVars => Inv'
    BY PartStays, InboxPart, InboxNextKeeps
<1>3. Inv => InboxIsSound
    BY InboxInvHolds DEF InboxIsSound
<1> QED BY <1>1, <1>2, <1>3, PTL DEF ServicesSpec

\* In the run an organization keeps an owner, its workspaces' people belong to it, and
\* a deletion that was cancelled is not carried out.
THEOREM OrganizationInServices == ServicesSpec => []OrganizationIsSound
<1> DEFINE Inv == part = "organization" => OrgInv
<1>1. ServicesInit => Inv
    BY OrgInvInit DEF ServicesInit
<1>2. Inv /\ [ServicesNext]_servicesVars => Inv'
    BY PartStays, OrganizationPart, OrgNextKeeps
<1>3. Inv => OrganizationIsSound
    BY OrgInvHolds DEF OrganizationIsSound
<1> QED BY <1>1, <1>2, <1>3, PTL DEF ServicesSpec

\* In the run an account is connected where it was asked for and in full, its grant ends
\* when the platform says, and the token pair that the platform honours is not lost.
THEOREM AccountsInServices == ServicesSpec => []AccountsAreSound
<1> DEFINE Inv == /\ part = "connection" => ConnectionInv
                  /\ part = "connecting" => ConnectInv
                  /\ part = "grants" => GrantInv
<1>1. ServicesInit => Inv
    BY ConnectionInvInit, ConnectInvInit, GrantInvInit DEF ServicesInit
<1>2. Inv /\ [ServicesNext]_servicesVars => Inv'
    BY PartStays, ConnectionPart, ConnectingPart, GrantsPart,
       ConnectionNextKeeps, ConnectNextKeeps, GrantNextKeeps
<1>3. Inv => AccountsAreSound
    BY ConnectionInvKeepsGrant, ConnectInvHolds, GrantInvHolds DEF AccountsAreSound
<1> QED BY <1>1, <1>2, <1>3, PTL DEF ServicesSpec

\* In the run an active subscription has a key that works, a canceled one is canceled, an
\* activation under way has a task, and only administrators activate.
THEOREM SubscriptionInServices == ServicesSpec => []SubscriptionIsSound
<1> DEFINE Inv == part = "subscription" => BillingIInv
<1>1. ServicesInit => Inv
    BY BillingIInvInit DEF ServicesInit
<1>2. Inv /\ [ServicesNext]_servicesVars => Inv'
    BY PartStays, SubscriptionPart, BillingIInvStep, BillingIInvStutter
<1>3. Inv => SubscriptionIsSound
    BY BillingIInvSuffices DEF SubscriptionIsSound
<1> QED BY <1>1, <1>2, <1>3, PTL DEF ServicesSpec

\* Campaigns, media jobs and generations keep what they promise, in the run.
THEOREM AutomationInServices == ServicesSpec => []AutomationIsSound
<1> DEFINE Inv == /\ part = "campaign" => CampaignInv
                  /\ part = "media" => MediaInv
                  /\ part = "generation" => GenerationInv
<1>1. ServicesInit => Inv
    BY CampaignInvInit, MediaInvInit, GenerationInvInit DEF ServicesInit
<1>2. Inv /\ [ServicesNext]_servicesVars => Inv'
    BY PartStays, CampaignPart, MediaPart, GenerationPart, CampaignNextKeeps, MediaNextKeeps,
       GenerationNextKeeps
<1>3. Inv => AutomationIsSound
    <2>1. GenerationInv => GenerationsHold
        BY DEF GenerationInv, ProviderInv, ChainInv, GenerationsHold
    <2> QED BY <2>1, CampaignInvHolds, MediaInvBounds DEF AutomationIsSound
<1> QED BY <1>1, <1>2, <1>3, PTL DEF ServicesSpec

\* In the run an attempt that counts as failed left no post but of a bad answer to the
\* request that made it, one that counts as published made one, and between attempts no
\* staged photo stays on a page but those whose deletion failed or whose id never came.
THEOREM PublishingInServices == ServicesSpec => []PublishingIsTold
<1> DEFINE Inv == part = "publish" => PublishInv
<1>1. ServicesInit => Inv
    BY PublishInvInit DEF ServicesInit
<1>2. Inv /\ [ServicesNext]_servicesVars => Inv'
    BY PartStays, PublishPart, PublishNextKeeps
<1>3. Inv => PublishingIsTold
    BY PublishInvHolds DEF PublishingIsTold
<1> QED BY <1>1, <1>2, <1>3, PTL DEF ServicesSpec

\* In the run a key does what its issuer and its editors let it and dies when revoked, a
\* portal's links open once and for clients only, comments are seen by whom they are for,
\* and an agent's calls are charged, limited and checked as they are handled.
THEOREM AccessInServices == ServicesSpec => []AccessIsSound
<1> DEFINE Inv == /\ part = "keys" => KeyInv
                  /\ part = "portal" => PortalInv
                  /\ part = "discussion" => TalkInv
                  /\ part = "calls" => CallInv
                  /\ part = "throttle" => ThrottleInv
<1>1. ServicesInit => Inv
    BY KeyInvInit, PortalInvInit, TalkInvInit, CallInvInit, ThrottleInvInit DEF ServicesInit
<1>2. Inv /\ [ServicesNext]_servicesVars => Inv'
    BY PartStays, KeysPart, PortalPart, DiscussionPart, CallsPart, ThrottlePart,
       AccessNextKeeps, PortalNextKeeps, TalkNextKeeps, CallNextKeeps, ThrottleNextKeeps
<1>3. Inv => AccessIsSound
    BY KeyInvHolds, PortalInvHolds, TalkInvHolds, CallInvHolds, ThrottleInvHolds DEF AccessIsSound
<1> QED BY <1>1, <1>2, <1>3, PTL DEF ServicesSpec

\* In the run what an author composes arrives once and whole: drafts and their media, the
\* rows of a post, ideas on the board, the rows of a file, and the feeds beside them.
THEOREM ComposingInServices == ServicesSpec => []ComposingIsSound
<1> DEFINE Inv == /\ part = "drafting" => DraftInv
                  /\ part = "children" => ChildInv
                  /\ part = "ideas" => BoardInv
                  /\ part = "csv" => CsvInv
                  /\ part = "feeds" => FeedInv
<1>1. ServicesInit => Inv
    BY DraftInvInit, ChildInvInit, BoardInvInit, CsvInvInit, FeedInvInit DEF ServicesInit
<1>2. Inv /\ [ServicesNext]_servicesVars => Inv'
    BY PartStays, DraftingPart, ChildrenPart, IdeasPart, CsvPart, FeedsPart,
       DraftNextKeeps, ChildNextKeeps, BoardNextKeeps, CsvNextKeeps, FeedNextKeeps
<1>3. Inv => ComposingIsSound
    BY DraftInvHolds, ChildInvHolds, BoardInvHolds, CsvInvHolds, FeedInvHolds DEF ComposingIsSound
<1> QED BY <1>1, <1>2, <1>3, PTL DEF ServicesSpec

\* In the run an upload becomes one asset that posts keep, folders form a forest whose files
\* are filed in it, and a medium and its versions have their files until they are deleted.
THEOREM MediaInServices == ServicesSpec => []MediaIsSound
<1> DEFINE Inv == /\ part = "library" => LibraryInv
                  /\ part = "folders" => FolderInv
                  /\ part = "versions" => MediumInv
<1>1. ServicesInit => Inv
    BY LibraryInvInit, FolderInvInit, MediumInvInit DEF ServicesInit
<1>2. Inv /\ [ServicesNext]_servicesVars => Inv'
    BY PartStays, LibraryPart, FoldersPart, VersionsPart,
       LibraryNextKeeps, FolderNextKeeps, VersionNextKeeps
<1>3. Inv => MediaIsSound
    BY LibraryInvHolds, FolderInvHolds, VersionInvHolds DEF MediaIsSound
<1> QED BY <1>1, <1>2, <1>3, PTL DEF ServicesSpec

\* In the run the stored measurements are of the day and account they say, and the tasks
\* catch up with days, grants and posts.
THEOREM AnalyticsInServices == ServicesSpec => []AnalyticsAreSound
<1> DEFINE Inv == /\ part = "analytics" => AnalyticsInv
<1>1. ServicesInit => Inv
    BY AnalyticsInvInit DEF ServicesInit
<1>2. Inv /\ [ServicesNext]_servicesVars => Inv'
    BY PartStays, AnalyticsPart,
       AnalyticsNextKeeps
<1>3. Inv => AnalyticsAreSound
    BY AnalyticsInvHolds DEF AnalyticsAreSound
<1> QED BY <1>1, <1>2, <1>3, PTL DEF ServicesSpec

\* In the run the pages count each measurement once, in the period it belongs to.
THEOREM PagesInServices == ServicesSpec => []PagesAreSound
<1> DEFINE Inv == /\ part = "insights" => InsightInv
<1>1. ServicesInit => Inv
    BY InsightInvInit DEF ServicesInit
<1>2. Inv /\ [ServicesNext]_servicesVars => Inv'
    BY PartStays, InsightsPart,
       InsightNextKeeps
<1>3. Inv => PagesAreSound
    BY InsightInvHolds DEF PagesAreSound
<1> QED BY <1>1, <1>2, <1>3, PTL DEF ServicesSpec

-------------------------------------------------------------------------------
\* What holds of the part that was chosen, from which its types follow: the invariant its
\* other properties rest on, with the bounds of what it counts.
ServicesTyped ==
    /\ part \in Parts
    /\ part = "editorial" => EditorialShapes
    /\ part = "slots" => SlotShapes
    /\ part = "reminders" => ReminderShapes
    /\ part = "deliveries" => DeliveryShapes
    /\ part = "inbox" => InboxShapes
    /\ part = "campaign" => CampaignShapes
    /\ part = "media" => MediaShapes
    /\ part = "connection" => ConnectionTypeOK
    /\ part = "library" => LibraryInv
    /\ part = "organization" => OrgShapes
    /\ part = "subscription" => BillingShapes
    /\ part = "publish" => PublishShapes
    /\ part = "analytics" => AnalyticsInv
    /\ part = "keys" => AccessShapes
    /\ part = "drafting" => DraftInv
    /\ part = "children" => ChildInv
    /\ part = "ideas" => BoardInv
    /\ part = "csv" => CsvInv
    /\ part = "folders" => FolderInv
    /\ part = "versions" => MediumInv
    /\ part = "connecting" => ConnectShapes
    /\ part = "grants" => GrantInv
    /\ part = "portal" => PortalShapes
    /\ part = "discussion" => TalkShapes
    /\ part = "calls" => CallShapes
    /\ part = "throttle" => ThrottleShapes
    /\ part = "feeds" => FeedInv
    /\ part = "insights" => InsightInv
    /\ part = "generation" => GenerationShapes

\* Each part starts with its types.
LEMMA ServicesTypedInit == ServicesInit => ServicesTyped
<1> SUFFICES ASSUME ServicesInit PROVE ServicesTyped
    OBVIOUS
<1>1. part = "editorial" => EditorialShapes BY EditorialShapesInit DEF ServicesInit
<1>2. part = "slots" => SlotShapes BY SlotShapesInit DEF ServicesInit
<1>3. part = "reminders" => ReminderShapes BY ReminderShapesInit DEF ServicesInit
<1>4. part = "deliveries" => DeliveryShapes BY DeliveryShapesInit DEF ServicesInit
<1>5. part = "inbox" => InboxShapes BY InboxShapesInit DEF ServicesInit
<1>6. part = "campaign" => CampaignShapes BY CampaignShapesInit DEF ServicesInit
<1>7. part = "media" => MediaShapes BY MediaShapesInit DEF ServicesInit
<1>8. part = "connection" => ConnectionTypeOK BY ConnectionShapesInit DEF ServicesInit
<1>9. part = "library" => LibraryInv BY LibraryInvInit DEF ServicesInit
<1>10. part = "organization" => OrgShapes BY OrgShapesInit DEF ServicesInit
<1>11. part = "subscription" => BillingShapes BY BillingShapesInit DEF ServicesInit
<1>12. part = "publish" => PublishShapes BY PublishShapesInit DEF ServicesInit
<1>13. part = "analytics" => AnalyticsInv BY AnalyticsInvInit DEF ServicesInit
<1>14. part = "keys" => AccessShapes BY AccessShapesInit DEF ServicesInit
<1>15. part = "drafting" => DraftInv BY DraftInvInit DEF ServicesInit
<1>16. part = "children" => ChildInv BY ChildInvInit DEF ServicesInit
<1>17. part = "ideas" => BoardInv BY BoardInvInit DEF ServicesInit
<1>18. part = "csv" => CsvInv BY CsvInvInit DEF ServicesInit
<1>19. part = "folders" => FolderInv BY FolderInvInit DEF ServicesInit
<1>20. part = "versions" => MediumInv BY MediumInvInit DEF ServicesInit
<1>21. part = "connecting" => ConnectShapes BY ConnectShapesInit DEF ServicesInit
<1>22. part = "grants" => GrantInv BY GrantInvInit DEF ServicesInit
<1>23. part = "portal" => PortalShapes BY PortalShapesInit DEF ServicesInit
<1>24. part = "discussion" => TalkShapes BY TalkShapesInit DEF ServicesInit
<1>25. part = "calls" => CallShapes BY CallShapesInit DEF ServicesInit
<1>26. part = "throttle" => ThrottleShapes BY ThrottleShapesInit DEF ServicesInit
<1>27. part = "feeds" => FeedInv BY FeedInvInit DEF ServicesInit
<1>28. part = "insights" => InsightInv BY InsightInvInit DEF ServicesInit
<1>29. part = "generation" => GenerationShapes BY GenerationShapesInit DEF ServicesInit
<1>30. part \in Parts BY DEF ServicesInit
<1> QED BY <1>1, <1>2, <1>3, <1>4, <1>5, <1>6, <1>7, <1>8, <1>9, <1>10, <1>11, <1>12, <1>13,
           <1>14, <1>15, <1>16, <1>17, <1>18, <1>19, <1>20, <1>21, <1>22, <1>23, <1>24, <1>25,
           <1>26, <1>27, <1>28, <1>29, <1>30 DEF ServicesTyped

\* A step of the run keeps the types of its part.
LEMMA ServicesTypedKept == ServicesTyped /\ [ServicesNext]_servicesVars => ServicesTyped'
<1> SUFFICES ASSUME ServicesTyped, [ServicesNext]_servicesVars PROVE ServicesTyped'
    OBVIOUS
<1>1. part = "editorial" => EditorialShapes'
    BY EditorialPart, EditorialShapesKept DEF ServicesTyped
<1>2. part = "slots" => SlotShapes'
    BY SlotsPart, SlotShapesKept DEF ServicesTyped
<1>3. part = "reminders" => ReminderShapes'
    BY RemindersPart, ReminderShapesKept DEF ServicesTyped
<1>4. part = "deliveries" => DeliveryShapes'
    BY DeliveriesPart, DeliveryShapesKept DEF ServicesTyped
<1>5. part = "inbox" => InboxShapes'
    BY InboxPart, InboxShapesKept DEF ServicesTyped
<1>6. part = "campaign" => CampaignShapes'
    BY CampaignPart, CampaignShapesKept DEF ServicesTyped
<1>7. part = "media" => MediaShapes'
    BY MediaPart, MediaShapesKept DEF ServicesTyped
<1>8. part = "connection" => ConnectionTypeOK'
    BY ConnectionPart, ConnectionShapesKept DEF ServicesTyped
<1>9. part = "library" => LibraryInv'
    BY LibraryPart, LibraryNextKeeps DEF ServicesTyped
<1>10. part = "organization" => OrgShapes'
    BY OrganizationPart, OrgShapesKept DEF ServicesTyped
<1>11. part = "subscription" => BillingShapes'
    BY SubscriptionPart, BillingShapesKept DEF ServicesTyped
<1>12. part = "publish" => PublishShapes'
    BY PublishPart, PublishShapesKept DEF ServicesTyped
<1>13. part = "analytics" => AnalyticsInv'
    BY AnalyticsPart, AnalyticsNextKeeps DEF ServicesTyped
<1>14. part = "keys" => AccessShapes'
    BY KeysPart, AccessShapesKept DEF ServicesTyped
<1>15. part = "drafting" => DraftInv'
    BY DraftingPart, DraftNextKeeps DEF ServicesTyped
<1>16. part = "children" => ChildInv'
    BY ChildrenPart, ChildNextKeeps DEF ServicesTyped
<1>17. part = "ideas" => BoardInv'
    BY IdeasPart, BoardNextKeeps DEF ServicesTyped
<1>18. part = "csv" => CsvInv'
    BY CsvPart, CsvNextKeeps DEF ServicesTyped
<1>19. part = "folders" => FolderInv'
    BY FoldersPart, FolderNextKeeps DEF ServicesTyped
<1>20. part = "versions" => MediumInv'
    BY VersionsPart, VersionNextKeeps DEF ServicesTyped
<1>21. part = "connecting" => ConnectShapes'
    BY ConnectingPart, ConnectShapesKept DEF ServicesTyped
<1>22. part = "grants" => GrantInv'
    BY GrantsPart, GrantNextKeeps DEF ServicesTyped
<1>23. part = "portal" => PortalShapes'
    BY PortalPart, PortalShapesKept DEF ServicesTyped
<1>24. part = "discussion" => TalkShapes'
    BY DiscussionPart, TalkShapesKept DEF ServicesTyped
<1>25. part = "calls" => CallShapes'
    BY CallsPart, CallShapesKept DEF ServicesTyped
<1>26. part = "throttle" => ThrottleShapes'
    BY ThrottlePart, ThrottleShapesKept DEF ServicesTyped
<1>27. part = "feeds" => FeedInv'
    BY FeedsPart, FeedNextKeeps DEF ServicesTyped
<1>28. part = "insights" => InsightInv'
    BY InsightsPart, InsightNextKeeps DEF ServicesTyped
<1>29. part = "generation" => GenerationShapes'
    BY GenerationPart, GenerationShapesKept DEF ServicesTyped
<1>30. part' = part /\ part \in Parts
    BY PartStays DEF ServicesTyped
<1> QED BY <1>1, <1>2, <1>3, <1>4, <1>5, <1>6, <1>7, <1>8, <1>9, <1>10, <1>11, <1>12, <1>13,
           <1>14, <1>15, <1>16, <1>17, <1>18, <1>19, <1>20, <1>21, <1>22, <1>23, <1>24, <1>25,
           <1>26, <1>27, <1>28, <1>29, <1>30 DEF ServicesTyped

\* The types of a part follow.
LEMMA ServicesTypedHold == ServicesTyped => ServicesTypeOK
<1> SUFFICES ASSUME ServicesTyped PROVE ServicesTypeOK
    OBVIOUS
<1>1. CASE part = "editorial"
    <2>1. EditorialTypeOK BY <1>1 DEF ServicesTyped, EditorialShapes
    <2> QED BY <1>1, <2>1 DEF ServicesTypeOK
<1>2. CASE part = "slots"
    <2>1. SlotTypeOK BY <1>2 DEF ServicesTyped, SlotShapes
    <2> QED BY <1>2, <2>1 DEF ServicesTypeOK
<1>3. CASE part = "reminders"
    <2>1. ReminderTypeOK BY <1>3 DEF ServicesTyped, ReminderShapes
    <2> QED BY <1>3, <2>1 DEF ServicesTypeOK
<1>4. CASE part = "deliveries"
    <2>1. DeliveryTypeOK BY <1>4, DeliveryShapesHold DEF ServicesTyped
    <2> QED BY <1>4, <2>1 DEF ServicesTypeOK
<1>5. CASE part = "inbox"
    <2>1. InboxTypeOK BY <1>5, InboxShapesHold DEF ServicesTyped
    <2> QED BY <1>5, <2>1 DEF ServicesTypeOK
<1>6. CASE part = "campaign"
    <2>1. CampaignTypeOK BY <1>6, CampaignShapesHold DEF ServicesTyped
    <2> QED BY <1>6, <2>1 DEF ServicesTypeOK
<1>7. CASE part = "media"
    <2>1. MediaTypeOK BY <1>7, MediaShapesHold DEF ServicesTyped
    <2> QED BY <1>7, <2>1 DEF ServicesTypeOK
<1>8. CASE part = "connection"
    <2>1. ConnectionTypeOK BY <1>8 DEF ServicesTyped
    <2> QED BY <1>8, <2>1 DEF ServicesTypeOK
<1>9. CASE part = "library"
    <2>1. LibraryTypeOK BY <1>9, LibraryInvHolds DEF ServicesTyped
    <2> QED BY <1>9, <2>1 DEF ServicesTypeOK
<1>10. CASE part = "organization"
    <2>1. OrgTypeOK BY <1>10, OrgShapesHold DEF ServicesTyped
    <2> QED BY <1>10, <2>1 DEF ServicesTypeOK
<1>11. CASE part = "subscription"
    <2>1. BillingTypeOK BY <1>11, BillingShapesHold DEF ServicesTyped
    <2> QED BY <1>11, <2>1 DEF ServicesTypeOK
<1>12. CASE part = "publish"
    <2>1. PublishTypeOK BY <1>12, PublishShapesHold DEF ServicesTyped
    <2> QED BY <1>12, <2>1 DEF ServicesTypeOK
<1>13. CASE part = "analytics"
    <2>1. AnalyticsTypeOK BY <1>13, AnalyticsInvHolds DEF ServicesTyped
    <2> QED BY <1>13, <2>1 DEF ServicesTypeOK
<1>14. CASE part = "keys"
    <2>1. AccessTypeOK BY <1>14, AccessShapesHold DEF ServicesTyped
    <2> QED BY <1>14, <2>1 DEF ServicesTypeOK
<1>15. CASE part = "drafting"
    <2>1. DraftTypeOK BY <1>15, DraftRowsTyped DEF ServicesTyped
    <2> QED BY <1>15, <2>1 DEF ServicesTypeOK
<1>16. CASE part = "children"
    <2>1. ChildTypeOK BY <1>16, ChildRowsTyped DEF ServicesTyped
    <2> QED BY <1>16, <2>1 DEF ServicesTypeOK
<1>17. CASE part = "ideas"
    <2>1. BoardTypeOK BY <1>17, BoardInvHolds DEF ServicesTyped
    <2> QED BY <1>17, <2>1 DEF ServicesTypeOK
<1>18. CASE part = "csv"
    <2>1. CsvTypeOK BY <1>18, CsvInvHolds DEF ServicesTyped
    <2> QED BY <1>18, <2>1 DEF ServicesTypeOK
<1>19. CASE part = "folders"
    <2>1. FolderTypeOK BY <1>19, FolderInvHolds DEF ServicesTyped
    <2> QED BY <1>19, <2>1 DEF ServicesTypeOK
<1>20. CASE part = "versions"
    <2>1. VersionTypeOK BY <1>20, VersionInvHolds DEF ServicesTyped
    <2> QED BY <1>20, <2>1 DEF ServicesTypeOK
<1>21. CASE part = "connecting"
    <2>1. ConnectTypeOK BY <1>21, ConnectShapesHold DEF ServicesTyped
    <2> QED BY <1>21, <2>1 DEF ServicesTypeOK
<1>22. CASE part = "grants"
    <2>1. GrantTypeOK BY <1>22, GrantRowsTyped DEF ServicesTyped
    <2> QED BY <1>22, <2>1 DEF ServicesTypeOK
<1>23. CASE part = "portal"
    <2>1. PortalTypeOK BY <1>23, PortalShapesHold DEF ServicesTyped
    <2> QED BY <1>23, <2>1 DEF ServicesTypeOK
<1>24. CASE part = "discussion"
    <2>1. TalkTypeOK BY <1>24, TalkShapesHold DEF ServicesTyped
    <2> QED BY <1>24, <2>1 DEF ServicesTypeOK
<1>25. CASE part = "calls"
    <2>1. CallTypeOK BY <1>25, CallShapesHold DEF ServicesTyped
    <2> QED BY <1>25, <2>1 DEF ServicesTypeOK
<1>26. CASE part = "throttle"
    <2>1. ThrottleTypeOK BY <1>26, ThrottleShapesHold DEF ServicesTyped
    <2> QED BY <1>26, <2>1 DEF ServicesTypeOK
<1>27. CASE part = "feeds"
    <2>1. FeedTypeOK BY <1>27, FeedInvHolds DEF ServicesTyped
    <2> QED BY <1>27, <2>1 DEF ServicesTypeOK
<1>28. CASE part = "insights"
    <2>1. InsightTypeOK BY <1>28, InsightInvHolds DEF ServicesTyped
    <2> QED BY <1>28, <2>1 DEF ServicesTypeOK
<1>29. CASE part = "generation"
    <2>1. GenerationTypeOK BY <1>29, GenerationShapesHold DEF ServicesTyped
    <2> QED BY <1>29, <2>1 DEF ServicesTypeOK
<1>30. part \in Parts BY DEF ServicesTyped
<1> QED BY <1>1, <1>2, <1>3, <1>4, <1>5, <1>6, <1>7, <1>8, <1>9, <1>10, <1>11, <1>12, <1>13,
           <1>14, <1>15, <1>16, <1>17, <1>18, <1>19, <1>20, <1>21, <1>22, <1>23, <1>24, <1>25,
           <1>26, <1>27, <1>28, <1>29, <1>30 DEF Parts

\* In the run whatever a part stores has its type: rows are rows, what is named is there,
\* and what is counted stays within its bound.
THEOREM TypesInServices == ServicesSpec => []ServicesTypeOK
<1> QED BY ServicesTypedInit, ServicesTypedKept, ServicesTypedHold, PTL DEF ServicesSpec
===============================================================================
